-------------------------- MODULE InputLifecycle --------------------------
(***************************************************************************)
(* What the rollups model promises about advance inputs, with no mutex, no *)
(* statements, no writers and no inspects: each input arrives with a rank; *)
(* one at a time is handed to the application, always one of the lowest    *)
(* rank that waits; each gets one final status; and the vouchers and       *)
(* notices of an input become visible all together, with that status, and  *)
(* only if it is Accepted.  Inputs of one rank may get their status, and   *)
(* lose or get their visibility, together.  The promise ends when a        *)
(* statement of the storage fails.                                         *)
(***************************************************************************)
EXTENDS Naturals, Sequences

VARIABLES
  status,     (* the status of each input, in arrival order                *)
  rank,       (* the rank each arrived with                                *)
  current,    (* the input the application works on, 0 if none             *)
  emitted,    (* the outputs it has emitted for that input                 *)
  published,  (* the outputs of the accepted inputs                        *)
  broken      (* a statement of the storage has failed                     *)

vars == <<status, rank, current, emitted, published>>

Waiting == {n \in DOMAIN status : status[n] = "Unprocessed"}
Peers   == {n \in DOMAIN status : rank[n] = rank[current]}

Init ==
  /\ status = <<>>
  /\ rank = <<>>
  /\ current = 0
  /\ emitted = {}
  /\ published = {}
  /\ broken = FALSE

(* An input may arrive with a rank that others have or have passed.        *)
Arrive ==
  /\ status' = Append(status, "Unprocessed")
  /\ rank' \in Seq(Nat)
  /\ Len(rank') = Len(rank) + 1
  /\ \A n \in DOMAIN rank : rank'[n] = rank[n]
  /\ UNCHANGED <<current, emitted, published>>

(* An input that waits is handed out, if none that waits ranks lower.      *)
Take ==
  /\ current = 0
  /\ \E n \in Waiting :
       /\ \A m \in Waiting : rank[n] <= rank[m]
       /\ current' = n
  /\ UNCHANGED <<status, rank, emitted, published>>

EmitOutput ==
  /\ current # 0
  /\ emitted \subseteq emitted'
  /\ \A out \in emitted' : out.input = current
  /\ UNCHANGED <<status, rank, current, published>>

(* The current input gets its one final status.  An accepted input         *)
(* publishes all that was emitted for it, and may publish what an          *)
(* interrupted earlier attempt at the same input had emitted.              *)
Settle(final) ==
  /\ current # 0
  /\ \E settled \in {{current}, Peers} :
       /\ status' = [n \in DOMAIN status |->
                       IF n \in settled THEN final ELSE status[n]]
       /\ IF final = "Accepted"
          THEN /\ published \cup emitted \subseteq published'
               /\ \A out \in published' \ published : out.input \in settled
          ELSE published' = {out \in published : out.input \notin settled}
  /\ current' = 0
  /\ emitted' = {}
  /\ UNCHANGED rank

(* A restart forgets the attempt, not the input.                           *)
Abandon ==
  /\ current' = 0
  /\ emitted' = {}
  /\ UNCHANGED <<status, rank, published>>

Next ==
  \/ Arrive
  \/ Take
  \/ EmitOutput
  \/ \E final \in {"Accepted", "Rejected", "Exception"} : Settle(final)
  \/ Abandon

(* From the first failing statement on any step is allowed.                *)
Spec == Init /\ [][Next \/ broken']_vars
=============================================================================

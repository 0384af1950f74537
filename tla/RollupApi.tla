----------------------------- MODULE RollupApi -----------------------------
(***************************************************************************)
(* The rollup HTTP API and the application that calls it.                  *)
(*                                                                         *)
(* A /finish handler polls NonodoModel until there is something to work    *)
(* on, at most FinishRetries times, and passes the same verdict with every *)
(* poll.  The application may exit and be launched again, or be told that  *)
(* its request timed out, while the handler of its /finish goes on: the    *)
(* handler looks at its context only between two polls, so several         *)
(* handlers may poll at once and an answer may find nobody to read it.     *)
(*                                                                         *)
(* A model method is one step here.  Its statements, and what happens when *)
(* one fails, are the subject of Rollups.                                  *)
(***************************************************************************)
EXTENDS Integers, Sequences, FiniteSets

CONSTANTS
  FinishRetries,  (* polls of one /finish                                  *)
  MaxInputs,      (* bound: advance inputs                                 *)
  MaxInspects,    (* bound: inspects                                       *)
  MaxDeaths,      (* bound: times the application exits on its own         *)
  MaxTimeouts,    (* bound: /finish requests cut by the server's deadline  *)
  Unreadable      (* inputs that may be such that convertInput fails       *)

ASSUME ApiAssumption ==
  /\ FinishRetries \in Nat \ {0}
  /\ {MaxInputs, MaxInspects, MaxDeaths, MaxTimeouts} \subseteq Nat
  /\ Unreadable \subseteq Nat

VARIABLES
  table,     (* the status of each input and inspect                       *)
  current,   (* NonodoModel.state: what is being processed                 *)
  outs,      (* whose work the outputs kept in that state come from        *)
  requests,  (* the /finish handlers that are running                      *)
  app,       (* the application process                                    *)
  verdicts,  (* history: what the application decided on each input        *)
  bad,       (* the inputs that convertInput cannot convert                *)
  deaths,    (* history                                                    *)
  timeouts   (* history                                                    *)

vars == <<table, current, outs, requests, app, verdicts, bad, deaths, timeouts>>
faults == <<bad, deaths, timeouts>>

Sorts   == {"advance", "inspect"}
Final   == {"Accepted", "Rejected", "Exception"}
Nothing == [sort |-> "none", n |-> 0]
Work    == [sort: Sorts, n: Nat]
Slots   == 1..(MaxDeaths + MaxTimeouts + 1)

StatusOf(accept) == IF accept THEN "Accepted" ELSE "Rejected"
Waiting(sort) == {n \in DOMAIN table[sort] : table[sort][n] = "Unprocessed"}
Oldest(S) == {n \in S : \A m \in S : n <= m}

Init ==
  /\ table = [sort \in Sorts |-> <<>>]
  /\ current = Nothing
  /\ outs = {}
  /\ requests = {}
  /\ app = [phase |-> "down", accept |-> TRUE, holds |-> Nothing, fresh |-> TRUE]
  /\ verdicts = <<>>
  /\ bad \in SUBSET Unreadable
  /\ deaths = 0
  /\ timeouts = 0

-----------------------------------------------------------------------------
(* Requests arriving.                                                      *)

Arrive(sort) ==
  /\ table' = [table EXCEPT ![sort] = Append(@, "Unprocessed")]
  /\ UNCHANGED <<current, outs, requests, app, faults>>

AddAdvanceInput ==
  /\ Len(table["advance"]) < MaxInputs
  /\ Arrive("advance")
  /\ verdicts' = Append(verdicts, "none")

AddInspectInput ==
  /\ Len(table["inspect"]) < MaxInspects
  /\ Arrive("inspect")
  /\ UNCHANGED verdicts

-----------------------------------------------------------------------------
(* The model's methods, with the mutex held.                               *)

Settle(status) ==
  table' = IF current = Nothing THEN table
           ELSE [table EXCEPT ![current.sort][current.n] = status]

(* What the next call of FinishAndGetNext will hand out: an inspect if one *)
(* waits, else the oldest advance.  The current one does not wait.         *)
Ready(sort) ==
  Waiting(sort) \ (IF current.sort = sort THEN {current.n} ELSE {})
Candidates ==
  LET sort == IF Ready("inspect") # {} THEN "inspect" ELSE "advance"
  IN  {[sort |-> sort, n |-> n] : n \in Oldest(Ready(sort))}

FinishAndGetNext(accept) ==
  /\ Settle(StatusOf(accept))
  /\ \/ current' \in Candidates
     \/ Candidates = {} /\ current' = Nothing
  /\ outs' = {}

-----------------------------------------------------------------------------
(* /finish.                                                                *)

Attached == {r \in requests : ~r.done}

(* An answer reaches the application only if it still waits for it.        *)
Answer(r, phase, holds) ==
  app' = IF r.done THEN app
         ELSE [app EXCEPT !.phase = phase, !.holds = holds]

(* The model has moved on to what the poll found; the answer is an error   *)
(* when it cannot be converted.  The application exits, as the echo        *)
(* application does, or asks again with the same verdict.                  *)
AnswerWithWork(r) ==
  IF current'.sort = "advance" /\ current'.n \in bad
  THEN \E phase \in {"ready", "down"} : Answer(r, phase, Nothing)
  ELSE Answer(r, "working", current')

(* One poll; when nothing is there, the handler goes to wait.              *)
Poll_Unbounded(r) ==
  /\ FinishAndGetNext(r.accept)
  /\ IF current' # Nothing
     THEN /\ requests' = requests \ {r}
          /\ AnswerWithWork(r)
     ELSE /\ requests' = (requests \ {r}) \cup {[r EXCEPT !.left = @ - 1]}
          /\ UNCHANGED app
  /\ UNCHANGED <<verdicts, faults>>

Poll(r) ==
  /\ r.left > 0
  /\ FinishAndGetNext(r.accept)
  /\ IF current' # Nothing
     THEN /\ requests' = requests \ {r}
          /\ AnswerWithWork(r)
     ELSE /\ requests' = (requests \ {r}) \cup {[r EXCEPT !.left = @ - 1]}
          /\ UNCHANGED app
  /\ UNCHANGED <<verdicts, faults>>

(* The last wait is over: 202, and the application asks again, with the    *)
(* same verdict.                                                           *)
GiveUp_StaysInLoop(r) ==
  /\ r.left = 0
  /\ requests' = (requests \ {r}) \cup {[r EXCEPT !.left = 1, !.done = TRUE]}
  /\ Answer(r, "ready", Nothing)
  /\ UNCHANGED <<table, current, outs, verdicts, faults>>

GiveUp(r) ==
  /\ r.left = 0
  /\ requests' = requests \ {r}
  /\ Answer(r, "ready", Nothing)
  /\ UNCHANGED <<table, current, outs, verdicts, faults>>

(* Between two polls the handler may see that its context is over.         *)
Cancel(r) ==
  /\ r.done
  /\ r.left < FinishRetries
  /\ requests' = requests \ {r}
  /\ UNCHANGED <<table, current, outs, app, verdicts, faults>>

(* The timeout middleware answers 503 in the place of the handler, which   *)
(* runs on; the application asks again with the same verdict.              *)
DeadlinePassed(r) ==
  /\ ~r.done
  /\ timeouts < MaxTimeouts
  /\ timeouts' = timeouts + 1
  /\ requests' = (requests \ {r}) \cup {[r EXCEPT !.done = TRUE]}
  /\ Answer(r, "ready", Nothing)
  /\ UNCHANGED <<table, current, outs, verdicts, bad, deaths>>

-----------------------------------------------------------------------------
(* The application.                                                        *)

(* It is up to the developer to launch it again.                           *)
Launch ==
  /\ app.phase = "down"
  /\ app' = [phase |-> "ready", accept |-> TRUE, holds |-> Nothing,
             fresh |-> TRUE]
  /\ UNCHANGED <<table, current, outs, requests, verdicts, faults>>

SendFinish ==
  /\ app.phase = "ready"
  /\ \E slot \in Oldest(Slots \ {r.slot : r \in requests}) :
       requests' = requests \cup
         {[slot |-> slot, accept |-> app.accept, left |-> FinishRetries,
           first |-> app.fresh, done |-> FALSE]}
  /\ app' = [app EXCEPT !.phase = "waiting", !.fresh = FALSE]
  /\ UNCHANGED <<table, current, outs, verdicts, faults>>

(* A voucher, notice or report goes to whatever is being processed; vouchers *)
(* and notices are refused during an inspect, and all when nothing is.     *)
AddOutput ==
  /\ app.phase = "working"
  /\ current # Nothing
  /\ outs' = outs \cup {app.holds}
  /\ UNCHANGED <<table, current, requests, app, verdicts, faults>>

Record(status) ==
  verdicts' = IF app.holds.sort = "advance"
              THEN [verdicts EXCEPT ![app.holds.n] = status] ELSE verdicts

Decide(accept) ==
  /\ app.phase = "working"
  /\ Record(StatusOf(accept))
  /\ app' = [app EXCEPT !.phase = "ready", !.accept = accept, !.holds = Nothing]
  /\ UNCHANGED <<table, current, outs, requests, faults>>

(* The last call of an application: /exception, which is refused when      *)
(* nothing is being processed.                                             *)
RegisterException_KeepsState ==
  /\ app.phase = "working"
  /\ Record("Exception")
  /\ Settle("Exception")
  /\ UNCHANGED <<current, outs>>
  /\ app' = [app EXCEPT !.phase = "down", !.holds = Nothing]
  /\ UNCHANGED <<requests, faults>>

RegisterException_NotSaved ==
  /\ app.phase = "working"
  /\ Record("Exception")
  /\ UNCHANGED table
  /\ current' = Nothing
  /\ outs' = {}
  /\ app' = [app EXCEPT !.phase = "down", !.holds = Nothing]
  /\ UNCHANGED <<requests, faults>>

RegisterException ==
  /\ app.phase = "working"
  /\ Record("Exception")
  /\ Settle("Exception")
  /\ current' = Nothing
  /\ outs' = {}
  /\ app' = [app EXCEPT !.phase = "down", !.holds = Nothing]
  /\ UNCHANGED <<requests, faults>>

(* It exits at any other moment; the connection closes.                    *)
Die ==
  /\ app.phase # "down"
  /\ deaths < MaxDeaths
  /\ deaths' = deaths + 1
  /\ app' = [app EXCEPT !.phase = "down", !.holds = Nothing]
  /\ requests' = (requests \ Attached)
                   \cup {[r EXCEPT !.done = TRUE] : r \in Attached}
  /\ UNCHANGED <<table, current, outs, verdicts, bad, timeouts>>

-----------------------------------------------------------------------------
Handler(slot) ==
  \E r \in requests : r.slot = slot /\ (Poll(r) \/ GiveUp(r) \/ Cancel(r))

Application ==
  \/ Launch
  \/ SendFinish
  \/ \E accept \in BOOLEAN : Decide(accept)
  \/ RegisterException

Next ==
  \/ AddAdvanceInput
  \/ AddInspectInput
  \/ \E slot \in Slots : Handler(slot)
  \/ \E r \in requests : DeadlinePassed(r)
  \/ Application
  \/ AddOutput
  \/ Die

(* Handlers are goroutines and always run on.  The application is assumed  *)
(* to be launched again and to finish what it works on, in the end; nobody *)
(* owes it an input, a deadline or an exit.                                *)
Fairness ==
  /\ \A slot \in Slots : WF_vars(Handler(slot))
  /\ WF_vars(Application)

Spec == Init /\ [][Next]_vars /\ Fairness

-----------------------------------------------------------------------------
(* Properties.                                                             *)

NoFault == deaths = 0 /\ timeouts = 0

(* Every variable has its type: the current work is a row, and no handler  *)
(* polls more often than the loop of /finish allows.                       *)
TypeOK ==
  /\ table \in [Sorts -> Seq(Final \cup {"Unprocessed"})]
  /\ current \in Work \cup {Nothing}
  /\ current # Nothing => current.n \in DOMAIN table[current.sort]
  /\ requests \subseteq [slot: Slots, accept: BOOLEAN, left: 0..FinishRetries,
                         first: BOOLEAN, done: BOOLEAN]
  /\ app \in [phase: {"down", "ready", "waiting", "working"}, accept: BOOLEAN,
              holds: Work \cup {Nothing}, fresh: BOOLEAN]
  /\ verdicts \in Seq(Final \cup {"none"})
  /\ Len(verdicts) = Len(table["advance"])
  /\ outs \subseteq Work
  /\ bad \subseteq Unreadable
  /\ deaths \in Nat
  /\ timeouts \in Nat

(* While the application neither exits nor is timed out, the status of an  *)
(* input that it can be given is the verdict it reached on that input,     *)
(* however often its /finish had to poll or be sent again, and an exception*)
(* is not overwritten by the first /finish after it.                       *)
VerdictIsRecorded ==
  NoFault => \A n \in (DOMAIN table["advance"]) \ bad :
    table["advance"][n] # "Unprocessed" => table["advance"][n] = verdicts[n]

(* Without faults, the outputs kept for an input or an inspect come from   *)
(* the work on that one.                                                   *)
OutputsGoHome == NoFault => outs \subseteq {current}

(* Arrivals are bounded, and then every input and every inspect gets a     *)
(* final status, through exits, timeouts, lost answers and an input that   *)
(* no application can be given: the rows that wait run out again and again.*)
AllProcessed ==
  []<>(\A sort \in Sorts : Waiting(sort) = {})

(* "The Rollup HTTP Server ignores the content of the status field for the *)
(* first finish request" (api/rollup.yaml:88): the first /finish of a      *)
(* launched application decides nothing.  Fails when an application is     *)
(* launched again while the input its predecessor worked on is current.    *)
FirstFinishIgnored ==
  [][\A r \in requests :
       r.first /\ r \notin requests' =>
         \A n \in DOMAIN table["advance"] :
           table'["advance"][n] = table["advance"][n]]_vars
=============================================================================

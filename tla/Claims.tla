------------------------------- MODULE Claims -------------------------------
(***************************************************************************)
(* The claimer: at the end of each epoch it reads the outputs, stores a    *)
(* proof with each, and submits the root of their tree to the chain.       *)
(*                                                                         *)
(* Outputs appear, blocks are mined and statements fail while a round      *)
(* runs; the vouchers and the notices are read by two statements, proofs   *)
(* are stored one by one, and a claim is a block of the chain itself.      *)
(* Output k of `outputs` has the index k - 1: the repository numbers       *)
(* vouchers and notices together (AutoCount, which main.go turns on).      *)
(***************************************************************************)
EXTENDS Merkle, FiniteSets, SequencesExt

CONSTANTS
  EpochBlocks,   (* the length of an epoch                                 *)
  MaxBlocks,     (* bound: blocks mined by others                          *)
  MaxOutputs,    (* bound: outputs ever created                            *)
  MaxFailures    (* bound: statements and calls that fail, claims reverted *)

(* With epochs of one block, which the code accepts, the block of a claim  *)
(* ends the next epoch.                                                    *)
ASSUME ClaimsAssumption ==
  /\ EpochBlocks \in Nat \ {0}
  /\ {MaxBlocks, MaxOutputs, MaxFailures} \subseteq Nat

VARIABLES
  height,     (* the chain's last block                                    *)
  mined,      (* history: the blocks that brought no claim                 *)
  outputs,    (* the tables: kind and block of each output                 *)
  proofs,     (* the proof stored with each output                         *)
  seen,       (* the last header the goroutine has received                *)
  round,      (* where CreateProofsAndSendClaim stands                     *)
  claims,     (* the roots on the chain, in order                          *)
  failures    (* history                                                   *)

vars == <<height, mined, outputs, proofs, seen, round, claims, failures>>
chain == <<height, mined>>

Kinds   == {"voucher", "notice"}
NoProof == <<>>
Idle    == [at |-> "idle", end |-> 0, picked |-> <<>>, todo |-> <<>>]

OfKind(kind) == {k \in DOMAIN outputs : outputs[k].kind = kind}

(* The outputs 1 to n of a set, in the order of their indices, and all.    *)
Gather(found, n, S) == IF n \in S THEN Append(found, n) ELSE found

FirstByIndex(S) ==
  LET upTo[n \in 0..Len(outputs)] ==
        IF n = 0 THEN <<>> ELSE Gather(upTo[n - 1], n, S)
  IN  upTo

ByIndex(S) == FirstByIndex(S)[Len(outputs)]

Init ==
  /\ height = 0
  /\ mined = 0
  /\ outputs = <<>>
  /\ proofs = <<>>
  /\ seen = 0
  /\ round = Idle
  /\ claims = <<>>
  /\ failures = 0

-----------------------------------------------------------------------------
(* Around the claimer.                                                     *)

MineBlock ==
  /\ mined < MaxBlocks
  /\ mined' = mined + 1
  /\ height' = height + 1
  /\ UNCHANGED <<outputs, proofs, seen, round, claims, failures>>

(* A finish stores an output of an input of some block; inputs are         *)
(* finished in the order of the chain.                                     *)
CreateOutput ==
  /\ Len(outputs) < MaxOutputs
  /\ \E kind \in Kinds, block \in 1..height :
       /\ outputs # <<>> => outputs[Len(outputs)].block <= block
       /\ outputs' = Append(outputs, [kind |-> kind, block |-> block])
  /\ proofs' = Append(proofs, NoProof)
  /\ UNCHANGED <<chain, seen, round, claims, failures>>

-----------------------------------------------------------------------------
(* A round.                                                                *)

EndsEpoch_Always(block) == TRUE

EndsEpoch(block) == block % EpochBlocks = 0

ReceiveHeader ==
  /\ round.at = "idle"
  /\ seen < height
  /\ seen' = seen + 1
  /\ round' = IF EndsEpoch(seen')
              THEN [Idle EXCEPT !.at = "vouchers", !.end = seen'] ELSE Idle
  /\ UNCHANGED <<chain, outputs, proofs, claims, failures>>

(* All the vouchers there are.                                             *)
FindVouchers ==
  /\ round.at = "vouchers"
  /\ round' = [round EXCEPT !.at = "notices",
                            !.picked = ByIndex(OfKind("voucher"))]
  /\ UNCHANGED <<chain, outputs, proofs, seen, claims, failures>>

NoticesOfEpoch_Only(end) ==
  {k \in OfKind("notice") :
     outputs[k].block < end /\ outputs[k].block >= end - EpochBlocks}

(* The notices of the inputs before the end of the epoch.                  *)
NoticesOfEpoch(end) == {k \in OfKind("notice") : outputs[k].block < end}

LeavesOf(picked) == [j \in DOMAIN picked |-> Leaf(picked[j])]

(* The proof of an output is looked up at its index, so every index has to *)
(* be below the number of outputs.                                         *)
IndicesFit(picked) ==
  ~TooMany(LeavesOf(picked)) /\ \A j \in DOMAIN picked : picked[j] <= Len(picked)

SortOutputs_Not(vouchers, notices) == vouchers \o ByIndex(notices)

SortOutputs(vouchers, notices) ==
  ByIndex(ToSet(vouchers) \cup notices)

(* No outputs, or one that was passed over: the round ends.                *)
FindNotices ==
  /\ round.at = "notices"
  /\ LET picked == SortOutputs(round.picked, NoticesOfEpoch(round.end))
     IN  round' = IF picked # <<>> /\ IndicesFit(picked)
                  THEN [round EXCEPT !.at = "save", !.picked = picked,
                                     !.todo = picked]
                  ELSE Idle
  /\ UNCHANGED <<chain, outputs, proofs, seen, claims, failures>>

SetProof_Backwards ==
  /\ round.at = "save"
  /\ round.todo # <<>>
  /\ LET k == Last(round.todo)
     IN  proofs' = [proofs EXCEPT ![k] = Siblings(LeavesOf(round.picked), k - 1)]
  /\ round' = [round EXCEPT !.todo = Front(@)]
  /\ UNCHANGED <<chain, outputs, seen, claims, failures>>

SetProof ==
  /\ round.at = "save"
  /\ round.todo # <<>>
  /\ LET k == Head(round.todo)
     IN  proofs' = [proofs EXCEPT ![k] = Siblings(LeavesOf(round.picked), k - 1)]
  /\ round' = [round EXCEPT !.todo = Tail(@)]
  /\ UNCHANGED <<chain, outputs, seen, claims, failures>>

(* One transaction, in a block of its own on the local chain.              *)
MakeTheClaim ==
  /\ round.at = "save"
  /\ round.todo = <<>>
  /\ claims' = Append(claims, Root(LeavesOf(round.picked)))
  /\ height' = height + 1
  /\ round' = Idle
  /\ UNCHANGED <<mined, outputs, proofs, seen, failures>>

(* The transaction is reverted: the receipt is waited for, its status only *)
(* logged, and the round ends as if the claim had been made.               *)
ClaimReverts ==
  /\ round.at = "save"
  /\ round.todo = <<>>
  /\ failures < MaxFailures
  /\ failures' = failures + 1
  /\ mined' = mined + 1
  /\ height' = height + 1
  /\ round' = Idle
  /\ UNCHANGED <<outputs, proofs, seen, claims>>

(* The error is logged, and the next header waited for.                    *)
Fails ==
  /\ round.at # "idle"
  /\ failures < MaxFailures
  /\ failures' = failures + 1
  /\ round' = Idle
  /\ UNCHANGED <<chain, outputs, proofs, seen, claims>>

-----------------------------------------------------------------------------
Claimer ==
  ReceiveHeader \/ FindVouchers \/ FindNotices \/ SetProof \/ MakeTheClaim

Next == MineBlock \/ CreateOutput \/ Claimer \/ ClaimReverts \/ Fails

(* The goroutine runs on; nobody owes a block, an output or a failure.     *)
Spec == Init /\ [][Next]_vars /\ WF_vars(Claimer)

-----------------------------------------------------------------------------
(* Properties.                                                             *)

Places == {"idle", "vouchers", "notices", "save"}

(* Every variable has its type; a round knows only outputs that exist and  *)
(* saves them in order.                                                    *)
TypeOK ==
  /\ height = mined + Len(claims)
  /\ seen \in 0..height
  /\ outputs \in Seq([kind: Kinds, block: 1..height])
  /\ Len(proofs) = Len(outputs)
  /\ round.at \in Places
  /\ round.end \in 0..seen
  /\ ToSet(round.picked) \subseteq DOMAIN outputs
  /\ IsSuffix(round.todo, round.picked)
  /\ failures \in Nat

Proven(k) ==
  /\ proofs[k] # NoProof
  /\ RootFromProof(Leaf(k), k - 1, proofs[k]) \in ToSet(claims)

(* Between two rounds each stored proof leads from its output to a root    *)
(* that is on the chain, whatever was stored while a round read, unless a  *)
(* round broke off or its claim was reverted.                              *)
ProofsLeadToClaims ==
  round.at = "idle" /\ failures = 0 =>
    \A k \in DOMAIN proofs : proofs[k] # NoProof => Proven(k)

(* A claim is the root of the full tree over the first outputs, each at    *)
(* its index: no claim leaves one out, though vouchers and notices are     *)
(* read by two statements and not up to the same block.                    *)
ClaimsAreRoots ==
  \A claim \in ToSet(claims) : \E n \in DOMAIN outputs :
    claim = FullTreeRoot([k \in 1..n |-> Leaf(k)])

(* Each claim answers the end of an epoch of its own, though the claims    *)
(* are blocks of the chain too and rounds break off: of EpochBlocks blocks *)
(* to a claim all but one are of others.  With epochs of one block none    *)
(* has to be, and each claim may call for the next.                        *)
OneClaimPerEpoch == Len(claims) <= seen \div EpochBlocks

(* When no more outputs come, a round for an epoch that ends after all of  *)
(* them proves each one, failures and refused rounds before it forgotten.  *)
Due ==
  /\ round.at = "vouchers"
  /\ Len(outputs) = MaxOutputs
  /\ \A k \in DOMAIN outputs : outputs[k].block < round.end
  /\ failures = MaxFailures
AllProven == Due ~> \A k \in DOMAIN outputs : Proven(k)
=============================================================================

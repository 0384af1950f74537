------------------------------ MODULE Inputter ------------------------------
(***************************************************************************)
(* The worker that reads the input box of the chain into the model.        *)
(*                                                                         *)
(* It asks for the past events from a block it remembers, adds them one by *)
(* one, then subscribes to the new ones.  Whatever fails, it waits and     *)
(* starts over from the block it remembers by then.  Events mined between  *)
(* the query and the subscription reach it through neither: the code       *)
(* accepts that (inputter.go:137), and `missed` records them.              *)
(*                                                                         *)
(* The chain and its client are external.  An input has the index its      *)
(* event has in the input box as ID, and the repository, which is external *)
(* too, does not create a row whose ID it has.  Event k is the k-th of the *)
(* input box, over all applications.                                       *)
(***************************************************************************)
EXTENDS Integers, Sequences, FiniteSets, SequencesExt

CONSTANTS
  InputBoxBlock,  (* the block the worker is configured to start from      *)
  MaxBlocks,      (* bound: blocks with events                             *)
  MaxFailures     (* bound: calls that fail, and restarts                  *)

ASSUME InputterAssumption ==
  /\ InputBoxBlock \in Nat
  /\ {MaxBlocks, MaxFailures} \subseteq Nat

VARIABLES
  events,        (* the events of the input box, in chain order            *)
  at,            (* where watchNewInputs stands                            *)
  currentBlock,  (* the block it will read from again                      *)
  past,          (* events of the query not added yet: added in chain order *)
  live,          (* events of the subscription that are not added yet      *)
  stored,        (* the inputs of the model, in Index order                *)
  queried,       (* history: events mined before the last query            *)
  missed,        (* history: events mined between a query and subscribing  *)
  failures       (* history                                                *)

vars == <<events, at, currentBlock, past, live, stored, queried, missed, failures>>
chain == <<events, missed>>

Places == {"query", "past", "subscribe", "watch", "wait", "stopped"}
Apps == {"ours", "other"}

Height == IF events = <<>> THEN InputBoxBlock ELSE Last(events).block
Ours == {k \in DOMAIN events : events[k].app = "ours"}

Init ==
  /\ events = <<>>
  /\ at = "query"
  /\ currentBlock = InputBoxBlock
  /\ past = {}
  /\ live = <<>>
  /\ stored = <<>>
  /\ queried = 0
  /\ missed = {}
  /\ failures = 0

-----------------------------------------------------------------------------
(* The chain: a block with events of one or more applications.             *)

Logs(apps) == [k \in DOMAIN apps |-> [block |-> Height + 1, app |-> apps[k]]]

MineBlock ==
  /\ Height < InputBoxBlock + MaxBlocks
  /\ \E apps \in {<<"ours">>, <<"other">>, <<"ours", "ours">>} :
       /\ events' = events \o Logs(apps)
       /\ live' = IF at = "watch"
                  THEN live \o [k \in DOMAIN apps |-> Len(events) + k] ELSE live
  /\ UNCHANGED <<at, currentBlock, past, stored, queried, missed, failures>>

-----------------------------------------------------------------------------
(* ReadPastInputs.                                                         *)

Matching_AnyApp(k) == events[k].block >= currentBlock

Matching(k) == events[k].app = "ours" /\ events[k].block >= currentBlock

QueryPast ==
  /\ at = "query"
  /\ past' = {k \in DOMAIN events : Matching(k)}
  /\ queried' = Len(events)
  /\ at' = "past"
  /\ UNCHANGED <<chain, currentBlock, live, stored, failures>>

(* addInput: the event becomes an input unless it is another application's *)
(* or there already.                                                       *)
Store(k) ==
  stored' = IF k \in Ours /\ ~Contains(stored, k) THEN Append(stored, k) ELSE stored

AddPast ==
  /\ at = "past"
  /\ \E k \in past :
       /\ \A other \in past : k <= other
       /\ Store(k)
       /\ past' = past \ {k}
  /\ UNCHANGED <<chain, at, currentBlock, live, queried, failures>>

PastDone ==
  /\ at = "past"
  /\ past = {}
  /\ at' = "subscribe"
  /\ UNCHANGED <<chain, currentBlock, past, live, stored, queried, failures>>

-----------------------------------------------------------------------------
(* The subscription.                                                       *)

Subscribe ==
  /\ at = "subscribe"
  /\ at' = "watch"
  /\ live' = <<>>
  /\ missed' = missed \cup {k \in Ours : k > queried}
  /\ UNCHANGED <<events, currentBlock, past, stored, queried, failures>>

RememberBlock_Next(k) == currentBlock' = events[k].block + 1

(* The block before, so that the event is read again if adding it fails.   *)
RememberBlock(k) == currentBlock' = events[k].block - 1

AddLive ==
  /\ at = "watch"
  /\ live # <<>>
  /\ RememberBlock(Head(live))
  /\ Store(Head(live))
  /\ live' = Tail(live)
  /\ UNCHANGED <<chain, at, past, queried, failures>>

-----------------------------------------------------------------------------
(* What can fail.                                                          *)

StartOver ==
  /\ past' = {}
  /\ live' = <<>>
  /\ at' = "wait"

CountFailure ==
  /\ failures < MaxFailures
  /\ failures' = failures + 1

(* The query, adding a past event, subscribing, or the subscription.       *)
CallFails ==
  /\ CountFailure
  /\ \/ at \in {"query", "subscribe", "watch"}
     \/ at = "past" /\ past # {}
  /\ StartOver
  /\ UNCHANGED <<chain, currentBlock, stored, queried>>

AddLiveFails_GoesOn ==
  /\ CountFailure
  /\ at = "watch"
  /\ live # <<>>
  /\ RememberBlock(Head(live))
  /\ live' = Tail(live)
  /\ UNCHANGED <<chain, at, past, stored, queried>>

AddLiveFails ==
  /\ CountFailure
  /\ at = "watch"
  /\ live # <<>>
  /\ RememberBlock(Head(live))
  /\ StartOver
  /\ UNCHANGED <<chain, stored, queried>>

Reconnect ==
  /\ at = "wait"
  /\ at' = "query"
  /\ UNCHANGED <<chain, currentBlock, past, live, stored, queried, failures>>

(* A subscription that ends without an error ends the worker.              *)
SubscriptionClosed ==
  /\ CountFailure
  /\ at = "watch"
  /\ at' = "stopped"
  /\ UNCHANGED <<chain, currentBlock, past, live, stored, queried>>

(* nonodo starts again on the same database.                               *)
Restart ==
  /\ CountFailure
  /\ at' = "query"
  /\ currentBlock' = InputBoxBlock
  /\ past' = {}
  /\ live' = <<>>
  /\ UNCHANGED <<chain, stored, queried>>

-----------------------------------------------------------------------------
Worker ==
  QueryPast \/ AddPast \/ PastDone \/ Subscribe \/ AddLive \/ Reconnect

Next ==
  \/ MineBlock
  \/ Worker
  \/ CallFails
  \/ AddLiveFails
  \/ SubscriptionClosed
  \/ Restart

(* The worker is a goroutine and runs on; its waits are timed.             *)
Spec == Init /\ [][Next]_vars /\ WF_vars(Worker)

-----------------------------------------------------------------------------
(* Properties.                                                             *)

(* Every variable has its type; what waits to be added or is stored, an    *)
(* event of ours but for the unfiltered subscription (ReadPastInputs).     *)
TypeOK ==
  /\ events \in Seq([block: Nat, app: Apps])
  /\ at \in Places
  /\ currentBlock \in Nat
  /\ past \subseteq Ours
  /\ live \in Seq(DOMAIN events)
  /\ stored \in Seq(Ours)
  /\ queried \in 0..Len(events)
  /\ missed \subseteq Ours
  /\ failures \in Nat

(* An event is passed over only if it was missed: what is stored has no    *)
(* holes otherwise, whichever call fails and wherever the worker stands.   *)
NoSkip ==
  \A k \in ToSet(stored) : \A older \in Ours :
    older < k => older \in ToSet(stored) \cup missed

Owed == Ours \ (ToSet(stored) \cup missed)

(* The worker never remembers a block that would make it read past an      *)
(* event it still owes.                                                    *)
WillBeRead == at # "stopped" => \A k \in Owed : events[k].block >= currentBlock

(* Every event for the application becomes an input in the end, unless it  *)
(* was missed or the worker has ended.                                     *)
AllStored ==
  \A k \in 1..(2 * MaxBlocks) :
    k \in Ours ~> (Contains(stored, k) \/ k \in missed \/ at = "stopped")
=============================================================================

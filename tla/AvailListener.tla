--------------------------- MODULE AvailListener ---------------------------
(***************************************************************************)
(* The worker that reads inputs from Avail and, before each Avail block,   *)
(* the inputs that were in the input box of the L1 by then (TableTennis).  *)
(*                                                                         *)
(* An L1 block is seen some time after its timestamp, so a block of Avail  *)
(* takes the L1 inputs that are older than itself by more than a delay.    *)
(* The inputs of one Avail block are stored one by one: when a call fails  *)
(* the worker reconnects and reads the block again.  When nonodo starts    *)
(* again it reads everything again, or, without --avail-from-block, goes   *)
(* on from the latest block of Avail and the first of the L1.              *)
(*                                                                         *)
(* The chains and the repository are external: each L1 block has one       *)
(* input, and the repository creates no second row with the same ID.       *)
(***************************************************************************)
EXTENDS Integers, Sequences, FiniteSets, SequencesExt

CONSTANTS
  FromBlocks,   (* the values of --avail-from-block, 0 for the latest      *)
  L1ReadDelay,  (* L1_READ_DELAY_IN_SECONDS                                *)
  L1Lag,        (* how long after its timestamp an L1 block may be seen    *)
  MaxTime,      (* bound: ticks of the clock                               *)
  MaxL1,        (* bound: L1 blocks                                        *)
  MaxAvail,     (* bound: Avail blocks                                     *)
  MaxFaults     (* bound: failing calls, and restarts                      *)

ASSUME AvailAssumption ==
  /\ {L1ReadDelay, L1Lag, MaxTime, MaxL1, MaxAvail, MaxFaults} \subseteq Nat
  /\ FromBlocks \subseteq 0..1
  /\ L1Lag <= L1ReadDelay

VARIABLES
  fromBlock, (* --avail-from-block                                         *)
  now,      (* the clock of both chains                                    *)
  l1,       (* the L1 chain: l1[h] is the timestamp of block h             *)
  avail,    (* the Avail chain: timestamp and transactions of each block   *)
  next,     (* latestAvailBlock: the Avail block to read                   *)
  l1From,   (* L1CurrentBlock: the L1 block to read from                   *)
  batch,    (* the inputs TableTennis found, <<>> between two calls        *)
  count,    (* inputCount: the inputs that were stored before              *)
  done,     (* how many of batch the loop has been through                 *)
  stored,   (* the inputs of the model in the order they were created      *)
  starts,   (* history: the Avail blocks that nonodo started from          *)
  faults    (* history                                                     *)

chains == <<fromBlock, now, l1, avail>>
loop == <<batch, count, done>>
vars == <<chains, next, l1From, loop, stored, starts, faults>>

Tx == {"t1", "t2", "other", "undecodable"}
(* The transactions of a block: none, one, two, one of another application *)
(* before ours (t1 and t2 stand for any two of ours), or one of ours       *)
(* before a batch that the decoder or the parser refuses.                  *)
Batches == {<<>>, <<"t1">>, <<"t2">>, <<"t1", "t2">>, <<"other", "t1">>,
            <<"t1", "undecodable">>}

L1Input(h) == [block |-> 0, pos |-> h]
TxAt(b, i) == [block |-> b, pos |-> i]
Found == [block: Nat, pos: Nat]

IsOurs(e) == e.block = 0 \/ avail[e.block].txs[e.pos] \in {"t1", "t2"}

(* ReadInputsFromPaioBlock: one batch that is refused fails the block.     *)
Readable(b) == \A i \in DOMAIN avail[b].txs : avail[b].txs[i] # "undecodable"

(* The index in the input box, or the hash of the signature.               *)
Id(e) == IF e.block = 0 THEN <<"L1", e.pos>> ELSE <<avail[e.block].txs[e.pos]>>

StartBlock(chain) == IF fromBlock = 0 THEN Len(chain) ELSE fromBlock

Init ==
  /\ fromBlock \in FromBlocks
  /\ now = 0
  /\ l1 = <<>>
  /\ avail = <<[time |-> 0, txs |-> <<>>]>>
  /\ next = StartBlock(avail)
  /\ starts = {next}
  /\ l1From = 1
  /\ batch = <<>>
  /\ count = 0
  /\ done = 0
  /\ stored = <<>>
  /\ faults = 0

-----------------------------------------------------------------------------
(* The chains.                                                             *)

Tick ==
  /\ now < MaxTime
  /\ now' = now + 1
  /\ UNCHANGED <<fromBlock, l1, avail, next, l1From, loop, stored, starts, faults>>

MineL1 ==
  /\ Len(l1) < MaxL1
  /\ \E time \in (now - L1Lag)..now :
       /\ time >= 0
       /\ l1 # <<>> => time >= Last(l1)
       /\ l1' = Append(l1, time)
  /\ UNCHANGED <<fromBlock, now, avail, next, l1From, loop, stored, starts, faults>>

MineAvail ==
  /\ Len(avail) < MaxAvail
  /\ \E txs \in Batches : avail' = Append(avail, [time |-> now, txs |-> txs])
  /\ UNCHANGED <<fromBlock, now, l1, next, l1From, loop, stored, starts, faults>>

-----------------------------------------------------------------------------
(* TableTennis.                                                            *)

OldEnough_UpTo(b) == {h \in DOMAIN l1 : l1[h] <= avail[b].time - L1ReadDelay}

(* The L1 blocks that precede Avail block b by more than the delay; the    *)
(* timestamps of a chain never decrease, so they are the first ones.       *)
OldEnough(b) == {h \in DOMAIN l1 : l1[h] < avail[b].time - L1ReadDelay}

(* FindAllInputsByBlockAndTimestampLT.                                     *)
L1Ready(from, b) ==
  [i \in 1..(Cardinality(OldEnough(b)) - from + 1) |-> L1Input(from + i - 1)]

TxsOf(b) == [i \in DOMAIN avail[b].txs |-> TxAt(b, i)]

(* The L1 cursor after the inputs of s.                                    *)
BlocksRead(s) == {e.pos : e \in {f \in ToSet(s) : f.block = 0}}

NextL1_ByCount(s) ==
  IF BlocksRead(s) = {} THEN l1From ELSE l1From + Cardinality(BlocksRead(s)) + 1

NextL1(s) == IF BlocksRead(s) = {} THEN l1From ELSE Max(BlocksRead(s)) + 1

(* A block that cannot be read fails at each reconnection, and the worker  *)
(* does not get past it.                                                   *)
ReadBlock ==
  /\ batch = <<>>
  /\ next <= Len(avail)
  /\ Readable(next)
  /\ LET found == L1Ready(l1From, next) \o TxsOf(next)
     IN  /\ batch' = found
         /\ next' = IF found = <<>> THEN next + 1 ELSE next
  /\ count' = Len(stored)
  /\ done' = 0
  /\ UNCHANGED <<chains, l1From, stored, starts, faults>>

IsStored(e) == \E k \in DOMAIN stored : Id(stored[k].input) = Id(e)

(* One iteration: the index is counted over all of batch, the row is only  *)
(* created for our application and if its ID is new.                       *)
CreateInput ==
  /\ done < Len(batch)
  /\ LET e == batch[done + 1]
     IN  stored' = IF IsOurs(e) /\ ~IsStored(e)
                   THEN Append(stored, [input |-> e, index |-> count + done])
                   ELSE stored
  /\ done' = done + 1
  /\ UNCHANGED <<chains, next, l1From, batch, count, starts, faults>>

BlockDone ==
  /\ batch # <<>>
  /\ done = Len(batch)
  /\ l1From' = NextL1(batch)
  /\ next' = next + 1
  /\ batch' = <<>>
  /\ done' = 0
  /\ UNCHANGED <<chains, count, stored, starts, faults>>

-----------------------------------------------------------------------------
(* Faults.                                                                 *)

CountFault ==
  /\ faults < MaxFaults
  /\ faults' = faults + 1

(* A call fails; the worker reconnects and goes on from where it was.      *)
CallFails_CursorMoved ==
  /\ CountFault
  /\ batch # <<>>
  /\ l1From' = NextL1(batch)
  /\ batch' = <<>>
  /\ done' = 0
  /\ UNCHANGED <<chains, next, count, stored, starts>>

CallFails ==
  /\ CountFault
  /\ batch # <<>>
  /\ batch' = <<>>
  /\ done' = 0
  /\ UNCHANGED <<chains, next, l1From, count, stored, starts>>

(* nonodo starts again, with the same options and database.                *)
Restart ==
  /\ CountFault
  /\ next' = StartBlock(avail)
  /\ starts' = starts \cup {next'}
  /\ l1From' = 1
  /\ batch' = <<>>
  /\ done' = 0
  /\ UNCHANGED <<chains, count, stored>>

-----------------------------------------------------------------------------
Worker == ReadBlock \/ CreateInput \/ BlockDone

Next == Tick \/ MineL1 \/ MineAvail \/ Worker \/ CallFails \/ Restart

(* The worker is a goroutine, its waits are timed, and new heads keep      *)
(* coming.                                                                 *)
Spec == Init /\ [][Next]_vars /\ WF_vars(Worker)

-----------------------------------------------------------------------------
(* What the two chains call for, once nonodo has started.                  *)

First == CHOOSE s \in starts : \A t \in starts : s <= t

ReadUpTo(b) == IF b < First THEN 0 ELSE Cardinality(OldEnough(b))

(* The order of the chains: a block's transactions follow the L1 inputs    *)
(* that are old enough by then.                                            *)
Precedes(e, f) ==
  \/ e.block = 0 /\ f.block = 0 /\ e.pos < f.pos
  \/ e.block = 0 /\ f.block # 0 /\ e.pos <= ReadUpTo(f.block)
  \/ e.block # 0 /\ f.block = 0 /\ ReadUpTo(e.block) < f.pos
  \/ /\ e.block # 0 /\ f.block # 0
     /\ e.block < f.block \/ (e.block = f.block /\ e.pos < f.pos)

Transactions(b) ==
  {e \in UNION {{TxAt(c, i) : i \in DOMAIN avail[c].txs} : c \in First..b} :
     IsOurs(e)}

(* The inputs of the blocks First..b: the L1 inputs that are old enough by *)
(* then, and each transaction of ours where it comes first.                *)
CalledFor(b) ==
  {L1Input(h) : h \in 1..ReadUpTo(b)}
    \cup {e \in Transactions(b) :
            \A f \in Transactions(b) : Precedes(f, e) => Id(f) # Id(e)}

Inputs == [k \in DOMAIN stored |-> stored[k].input]

-----------------------------------------------------------------------------
(* Properties.                                                             *)

(* Every variable has its type; the cursors are at most one block ahead.   *)
TypeOK ==
  /\ fromBlock \in FromBlocks
  /\ now \in 0..MaxTime
  /\ l1 \in Seq(Nat)
  /\ avail \in Seq([time: Nat, txs: Seq(Tx)])
  /\ next \in 1..(Len(avail) + 1)
  /\ l1From \in 1..(Len(l1) + 1)
  /\ batch \in Seq(Found)
  /\ count \in Nat
  /\ done \in 0..Len(batch)
  /\ stored \in Seq([input: Found, index: Nat])
  /\ starts \subseteq DOMAIN avail
  /\ faults \in Nat

(* Whenever calls fail, nonodo starts again or an L1 block is seen late,   *)
(* the inputs are created in the one order that the timestamps of the two  *)
(* chains define; those of the L1 without a hole even if a later start     *)
(* passed over blocks of Avail.                                            *)
OrderIsCanonical ==
  /\ starts = {First} =>
       /\ ToSet(Inputs) \subseteq CalledFor(Len(avail))
       /\ \A j, k \in DOMAIN Inputs : j < k => Precedes(Inputs[j], Inputs[k])
       /\ \A k \in DOMAIN Inputs : \A e \in CalledFor(Len(avail)) :
            Precedes(e, Inputs[k]) => e \in ToSet(Inputs)
  /\ \A k \in DOMAIN Inputs : Inputs[k].block = 0 =>
       {Inputs[j].pos : j \in {i \in 1..(k - 1) : Inputs[i].block = 0}}
         = 1..(Inputs[k].pos - 1)

(* "Input index starting from genesis" (api/rollup.yaml:375): an input     *)
(* that comes later has a higher index.  Fails when the loop has passed    *)
(* over a member of its batch: the next count falls behind.                *)
IndexFromGenesis ==
  \A j, k \in DOMAIN stored : j < k => stored[j].index < stored[k].index

(* The transactions of each Avail block from the last start on are stored  *)
(* in the end, and so are the L1 inputs that the latest one is to follow:  *)
(* up to the first block that cannot be read, where the worker stays.      *)
EventuallyStored ==
  LET IsRead(b) == \A c \in Max(starts)..b : Readable(c)
  IN  []<>(/\ \A b \in Max(starts)..Len(avail) : IsRead(b) =>
                \A i \in DOMAIN avail[b].txs :
                  LET e == TxAt(b, i) IN IsOurs(e) => IsStored(e)
           /\ IsRead(Len(avail)) =>
                \A e \in ToSet(L1Ready(1, Len(avail))) : IsStored(e))
=============================================================================

---------------------------- MODULE AvailProofs ----------------------------
(***************************************************************************)
(* Proofs about AvailListener, for every value of the bounds, of the delay *)
(* and of the lag of the L1.                                               *)
(*                                                                         *)
(* The L1 blocks that are old enough for an Avail block are the first ones *)
(* (OldOnesFirst) and, as an L1 block is seen no later than the delay,     *)
(* they stay the same ones (ChainGrows): with that, what the chains call   *)
(* for up to a block does not change any more (CallsKept).                 *)
(*                                                                         *)
(* ListenerInvariant is the inductive invariant of the types and of the    *)
(* inputs of the L1: those behind the cursor are stored, and what is       *)
(* stored of them has no hole.  OrderInvariant adds the order of both      *)
(* chains: what is called for by the blocks behind the worker is stored,   *)
(* and so is the part of the batch that the loop has been through.         *)
(***************************************************************************)
EXTENDS AvailListener, SequenceTheorems, FiniteSetTheorems, WellFoundedInduction, TLAPS

Block == [time: Nat, txs: Seq(Tx)]

(* How many L1 inputs are old enough for block b.                          *)
OldL1(b) == Cardinality(OldEnough(b))

(* The two chains: timestamps never decrease, and those of Avail are past. *)
ChainStands ==
  /\ fromBlock \in FromBlocks
  /\ now \in 0..MaxTime
  /\ l1 \in Seq(Nat)
  /\ avail \in Seq(Block)
  /\ Len(avail) >= 1
  /\ \A g, h \in DOMAIN l1 : g <= h => l1[g] <= l1[h]
  /\ \A b, c \in DOMAIN avail : b <= c => avail[b].time <= avail[c].time
  /\ \A b \in DOMAIN avail : avail[b].time <= now

(* Found on the chain.                                                     *)
Placed(e) ==
  /\ e \in Found
  /\ e.block = 0 => e.pos >= 1
  /\ e.block # 0 => e.block \in DOMAIN avail /\ e.pos \in DOMAIN avail[e.block].txs

(* What TableTennis finds for block b, and how much of it is of the L1.    *)
ToStore(b) == L1Ready(l1From, b) \o TxsOf(b)
Lead(b) == IF l1From <= OldL1(b) THEN OldL1(b) - l1From + 1 ELSE 0

(* Where the worker stands on the chains, and where it has started.        *)
CursorsStand ==
  /\ starts # {} /\ starts \subseteq DOMAIN avail
  /\ next \in 1..(Len(avail) + 1)
  /\ \E s \in starts : s <= next
  /\ l1From \in 1..(Len(l1) + 1)
  /\ batch # <<>> => next \in DOMAIN avail /\ batch = ToStore(next)
  /\ done \in 0..Len(batch)
  /\ count \in Nat
  /\ faults \in Nat

StoredStands ==
  /\ stored \in Seq([input: Found, index: Nat])
  /\ \A k \in DOMAIN stored : Placed(stored[k].input)

(* What comes before an L1 input is all that comes before it on the L1.    *)
L1InOrder ==
  \A k \in DOMAIN Inputs : Inputs[k].block = 0 =>
    {Inputs[j].pos : j \in {i \in 1..(k - 1) : Inputs[i].block = 0}} = 1..(Inputs[k].pos - 1)

(* What is behind the cursors is stored.                                   *)
BehindCursors ==
  /\ \A h \in 1..(l1From - 1) : h \in BlocksRead(Inputs)
  /\ \A k \in 1..done : IsOurs(batch[k]) => IsStored(batch[k])

ListenerInvariant ==
  /\ ChainStands
  /\ CursorsStand
  /\ StoredStands
  /\ L1InOrder
  /\ BehindCursors

-----------------------------------------------------------------------------
(* The chains.                                                             *)

(* The transactions of a block are some.                                   *)
LEMMA BatchesTyped == Batches \subseteq Seq(Tx)
<1>1. "t1" \in Tx /\ "t2" \in Tx /\ "other" \in Tx /\ "undecodable" \in Tx
  BY DEF Tx
<1>2. \A x, y \in Tx : <<>> \in Seq(Tx) /\ <<x>> \in Seq(Tx) /\ <<x, y>> \in Seq(Tx)
  OBVIOUS
<1>3. QED
  BY <1>1, <1>2 DEF Batches

(* The least of some numbers.                                              *)
LEMMA LeastOf ==
  ASSUME NEW S \in SUBSET Nat, S # {}
  PROVE  \E n \in S : \A m \in S : n <= m
<1>1. PICK n \in S : \A m \in S : ~ (<<m, n>> \in OpToRel(<, Nat))
  BY NatLessThanWellFounded, WFMin, Zenon
<1>2. \A m \in S : ~ (m < n)
  BY <1>1 DEF OpToRel
<1>3. QED
  BY <1>2

(* A block: its timestamp and its transactions.                            *)
LEMMA BlockTyped ==
  ASSUME ChainStands, NEW b \in DOMAIN avail
  PROVE  /\ avail[b].time \in Nat
         /\ avail[b].txs \in Seq(Tx)
         /\ b \in Nat \ {0} /\ b \in 1..Len(avail) /\ Len(avail) \in Nat
<1>1. avail[b] \in Block /\ b \in 1..Len(avail) /\ Len(avail) \in Nat
  BY ElementOfSeq, LenProperties DEF ChainStands
<1>2. QED
  BY <1>1 DEF Block

(* The L1 blocks that are old enough are the first ones.                   *)
LEMMA OldOnesFirst ==
  ASSUME ChainStands, NEW b \in DOMAIN avail
  PROVE  /\ OldL1(b) \in 0..Len(l1)
         /\ \A h \in DOMAIN l1 : h \in OldEnough(b) <=> h <= OldL1(b)
<1>1. /\ Len(l1) \in Nat /\ DOMAIN l1 = 1..Len(l1)
      /\ \A h \in DOMAIN l1 : l1[h] \in Nat
      /\ avail[b].time \in Nat /\ L1ReadDelay \in Nat
  BY LenProperties, ElementOfSeq, BlockTyped, AvailAssumption DEF ChainStands
<1> DEFINE young == {h \in 1..(Len(l1) + 1) : h \notin OldEnough(b)}
<1>2. young \in SUBSET Nat /\ Len(l1) + 1 \in young
  BY <1>1 DEF OldEnough
<1>3. PICK n \in young : \A m \in young : n <= m
  BY <1>2, LeastOf
<1>4. \A h \in 1..Len(l1) : h \in OldEnough(b) <=> h < n
  <2>1. \A g, h \in DOMAIN l1 : g <= h /\ h \in OldEnough(b) => g \in OldEnough(b)
    BY SMTT(30), <1>1 DEF ChainStands, OldEnough
  <2>2. \A h \in 1..Len(l1) : h < n => h \in OldEnough(b)
    BY <1>1, <1>3
  <2>3. ASSUME NEW h \in 1..Len(l1), h \in OldEnough(b), ~(h < n)
        PROVE  FALSE
    <3>1. n \in 1..Len(l1) /\ n <= h
      BY <1>1, <1>2, <1>3, <2>3
    <3>2. n \in OldEnough(b)
      BY <1>1, <2>1, <2>3, <3>1
    <3>3. QED
      BY <1>3, <3>2
  <2>4. QED
    BY <2>2, <2>3
<1>5. OldEnough(b) = 1..(n - 1)
  <2>1. OldEnough(b) \subseteq 1..Len(l1)
    BY <1>1 DEF OldEnough
  <2>2. \A h : h \in 1..(n - 1) <=> h \in 1..Len(l1) /\ h < n
    BY <1>1, <1>2, <1>3
  <2>3. QED
    BY <1>4, <2>1, <2>2
<1>6. OldL1(b) = n - 1
  BY <1>1, <1>2, <1>3, <1>5, FS_Interval DEF OldL1
<1>7. QED
  BY <1>1, <1>2, <1>3, <1>4, <1>6

(* Later blocks of Avail come after more of the L1.                        *)
LEMMA OldL1Grows ==
  ASSUME ChainStands, NEW b \in DOMAIN avail, NEW c \in DOMAIN avail, b <= c
  PROVE  OldL1(b) <= OldL1(c)
<1>1. /\ Len(l1) \in Nat /\ DOMAIN l1 = 1..Len(l1)
      /\ OldL1(b) \in 0..Len(l1) /\ OldL1(c) \in 0..Len(l1)
      /\ \A h \in DOMAIN l1 : h \in OldEnough(b) <=> h <= OldL1(b)
      /\ \A h \in DOMAIN l1 : h \in OldEnough(c) <=> h <= OldL1(c)
  BY LenProperties, OldOnesFirst DEF ChainStands
<1>2. \A h \in DOMAIN l1 : h \in OldEnough(b) => h \in OldEnough(c)
  <2>1. /\ avail[b].time \in Nat /\ avail[c].time \in Nat /\ L1ReadDelay \in Nat
        /\ avail[b].time <= avail[c].time
        /\ \A h \in DOMAIN l1 : l1[h] \in Nat
    BY SMTT(30), ElementOfSeq, LenProperties, BlockTyped, AvailAssumption DEF ChainStands
  <2>2. QED
    BY <2>1 DEF OldEnough
<1>3. QED
  BY <1>1, <1>2

(* What is on the chains stays there, and calls for the same of the L1.    *)
Grown ==
  /\ Len(avail) <= Len(avail') /\ Len(l1) <= Len(l1')
  /\ \A b \in DOMAIN avail :
       b \in DOMAIN avail' /\ avail'[b] = avail[b] /\ OldL1(b)' = OldL1(b)

LEMMA ChainKept ==
  ASSUME ChainStands, UNCHANGED chains
  PROVE  ChainStands' /\ Grown
<1>1. UNCHANGED <<fromBlock, now, l1, avail>>
  BY DEF chains
<1>2. Len(avail) \in Nat /\ Len(l1) \in Nat
  BY LenProperties DEF ChainStands
<1>3. \A b : OldL1(b)' = OldL1(b)
  BY <1>1 DEF OldL1, OldEnough
<1>4. QED
  BY <1>1, <1>2, <1>3 DEF ChainStands, Grown

(* An L1 block is seen before it could be old enough for the latest block. *)
LEMMA ChainGrows ==
  ASSUME ChainStands, Tick \/ MineL1 \/ MineAvail
  PROVE  ChainStands' /\ Grown
<1>1. /\ Len(l1) \in Nat /\ DOMAIN l1 = 1..Len(l1)
      /\ \A h \in DOMAIN l1 : l1[h] \in Nat
      /\ Len(avail) \in Nat /\ DOMAIN avail = 1..Len(avail)
      /\ \A b \in DOMAIN avail : avail[b].time \in Nat /\ avail[b] \in Block
      /\ L1ReadDelay \in Nat /\ L1Lag \in Nat /\ L1Lag <= L1ReadDelay
      /\ MaxTime \in Nat /\ now \in 0..MaxTime
  BY LenProperties, ElementOfSeq, BlockTyped, AvailAssumption DEF ChainStands
<1>2. CASE Tick
  <2>1. now' = now + 1 /\ now < MaxTime /\ UNCHANGED <<fromBlock, l1, avail>>
    BY <1>2 DEF Tick
  <2>2. ChainStands'
    BY <1>1, <2>1 DEF ChainStands
  <2>3. \A b : OldL1(b)' = OldL1(b)
    BY <2>1 DEF OldL1, OldEnough
  <2>4. QED
    BY <1>1, <2>1, <2>2, <2>3 DEF Grown
<1>3. CASE MineL1
  <2>1. PICK time \in (now - L1Lag)..now :
          /\ time >= 0
          /\ l1 # <<>> => time >= Last(l1)
          /\ l1' = Append(l1, time)
    BY <1>3 DEF MineL1
  <2>2. UNCHANGED <<fromBlock, now, avail>> /\ time \in Nat
    BY <1>1, <1>3, <2>1 DEF MineL1
  <2>3. /\ l1' \in Seq(Nat) /\ Len(l1') = Len(l1) + 1 /\ DOMAIN l1' = 1..(Len(l1) + 1)
        /\ l1'[Len(l1) + 1] = time
        /\ \A h \in 1..Len(l1) : l1'[h] = l1[h]
    BY <2>1, <2>2, AppendProperties, LenProperties DEF ChainStands
  <2>4. \A h \in 1..Len(l1) : l1[h] <= time
    <3>1. SUFFICES ASSUME NEW h \in 1..Len(l1) PROVE l1[h] <= time
      OBVIOUS
    <3>2. l1 # <<>> /\ Last(l1) = l1[Len(l1)] /\ Len(l1) \in DOMAIN l1
      BY <1>1 DEF Last
    <3>3. l1[h] \in Nat /\ l1[Len(l1)] \in Nat
      BY <1>1, <3>2, ElementOfSeq DEF ChainStands
    <3>4. h \in DOMAIN l1 /\ h <= Len(l1)
      BY <3>2
    <3>5. l1[h] <= l1[Len(l1)]
      BY <1>1, <3>2, <3>4, Zenon DEF ChainStands
    <3>6. QED
      BY <2>1, <2>2, <3>2, <3>3, <3>5
  <2>5. \A g, h \in DOMAIN l1' : g <= h => l1'[g] <= l1'[h]
    <3>1. SUFFICES ASSUME NEW g \in 1..(Len(l1) + 1), NEW h \in 1..(Len(l1) + 1), g <= h
                   PROVE  l1'[g] <= l1'[h]
      BY <2>3
    <3>2. CASE h = Len(l1) + 1
      BY <1>1, <2>2, <2>3, <2>4, <3>2
    <3>3. CASE h \in 1..Len(l1)
      <4>1. g \in 1..Len(l1)
        BY <1>1, <3>1, <3>3
      <4>2. QED
        BY <1>1, <2>3, <3>1, <3>3, <4>1 DEF ChainStands
    <3>4. QED
      BY <1>1, <3>2, <3>3
  <2>6. ChainStands'
    BY <2>2, <2>3, <2>5 DEF ChainStands
  <2>7. ASSUME NEW b \in DOMAIN avail
        PROVE  OldL1(b)' = OldL1(b)
    <3>1. ~(time < avail[b].time - L1ReadDelay)
      BY <1>1, <2>1, <2>2 DEF ChainStands
    <3>2. \A h : h \in DOMAIN l1' /\ l1'[h] < avail[b].time - L1ReadDelay
                   <=> h \in DOMAIN l1 /\ l1[h] < avail[b].time - L1ReadDelay
      BY SMTT(30), <1>1, <2>3, <3>1
    <3>3. OldEnough(b)' = OldEnough(b)
      BY <2>2, <3>2 DEF OldEnough
    <3>4. QED
      BY <3>3 DEF OldL1
  <2>8. QED
    BY <1>1, <2>2, <2>3, <2>6, <2>7 DEF Grown
<1>4. CASE MineAvail
  <2>1. PICK txs \in Batches : avail' = Append(avail, [time |-> now, txs |-> txs])
    BY <1>4 DEF MineAvail
  <2>2. UNCHANGED <<fromBlock, now, l1>>
    BY <1>4 DEF MineAvail
  <2>3. PICK block \in Block : block = [time |-> now, txs |-> txs] /\ block.time = now
    <3>1. txs \in Seq(Tx) /\ now \in Nat
      BY <1>1, BatchesTyped
    <3>2. [time |-> now, txs |-> txs] \in Block /\ [time |-> now, txs |-> txs].time = now
      BY <3>1 DEF Block
    <3>3. QED
      BY <3>2, Zenon
  <2>4. /\ avail' \in Seq(Block) /\ Len(avail') = Len(avail) + 1
        /\ DOMAIN avail' = 1..(Len(avail) + 1)
        /\ avail'[Len(avail) + 1] = block
        /\ \A b \in 1..Len(avail) : avail'[b] = avail[b]
    BY <2>1, <2>3, AppendProperties, LenProperties DEF ChainStands
  <2>5. ChainStands'
    <3>1. \A b \in 1..(Len(avail) + 1) : b \in 1..Len(avail) \/ b = Len(avail) + 1
      BY <1>1
    <3>2. \A b \in DOMAIN avail' : avail'[b].time <= now
      BY <1>1, <2>3, <2>4, <3>1 DEF ChainStands
    <3>3. \A b, c \in DOMAIN avail' : b <= c => avail'[b].time <= avail'[c].time
      BY <1>1, <2>3, <2>4, <3>1, <3>2 DEF ChainStands
    <3>4. QED
      BY <1>1, <2>2, <2>4, <3>2, <3>3 DEF ChainStands
  <2>6. ASSUME NEW b \in DOMAIN avail
        PROVE  OldL1(b)' = OldL1(b)
    <3>1. avail'[b] = avail[b]
      BY <1>1, <2>4
    <3>2. OldEnough(b)' = OldEnough(b)
      BY <2>2, <3>1, Zenon DEF OldEnough
    <3>3. QED
      BY <3>2, Zenon DEF OldL1
  <2>7. QED
    BY <1>1, <2>2, <2>4, <2>5, <2>6 DEF Grown
<1>5. QED
  BY <1>2, <1>3, <1>4

-----------------------------------------------------------------------------
(* What is found and what is stored.                                       *)

Row == [input: Found, index: Nat]

(* An input is where it was found.                                         *)
LEMMA SameFound ==
  ASSUME NEW e \in Found, NEW f \in Found, e.block = f.block, e.pos = f.pos
  PROVE  e = f
  BY DEF Found

(* The elements of a sequence.                                             *)
LEMMA ToSetHas ==
  ASSUME NEW S, NEW s \in Seq(S)
  PROVE  /\ \A k \in DOMAIN s : s[k] \in ToSet(s) /\ s[k] \in S
         /\ \A x \in ToSet(s) : \E k \in DOMAIN s : s[k] = x
  BY ElementOfSeq, LenProperties DEF ToSet

LEMMA MadeSeq ==
  ASSUME NEW S, NEW n \in Nat, NEW s \in [1..n -> S]
  PROVE  s \in Seq(S)
  BY SeqDef, Zenon

(* What TableTennis finds: the L1 inputs from the cursor on, then the      *)
(* transactions.                                                           *)
LEMMA ToStoreHas ==
  ASSUME ChainStands, NEW b \in DOMAIN avail, l1From \in 1..(Len(l1) + 1)
  PROVE  /\ Lead(b) \in Nat /\ Len(avail[b].txs) \in Nat
         /\ Lead(b) > 0 => l1From + Lead(b) - 1 = OldL1(b)
         /\ Lead(b) = 0 => OldL1(b) < l1From
         /\ ToStore(b) \in Seq(Found)
         /\ Len(ToStore(b)) = Lead(b) + Len(avail[b].txs)
         /\ \A k \in 1..Lead(b) : ToStore(b)[k] = L1Input(l1From + k - 1)
         /\ \A k \in 1..Len(avail[b].txs) : ToStore(b)[Lead(b) + k] = TxAt(b, k)
<1>1. /\ Len(l1) \in Nat /\ OldL1(b) \in 0..Len(l1) /\ l1From \in Nat \ {0}
      /\ b \in Nat \ {0} /\ Len(avail[b].txs) \in Nat
      /\ DOMAIN avail[b].txs = 1..Len(avail[b].txs)
  BY OldOnesFirst, BlockTyped, LenProperties DEF ChainStands
<1>2. PICK n \in Nat : n = Lead(b)
  BY <1>1 DEF Lead
<1>3. /\ n > 0 => l1From + n - 1 = OldL1(b)
      /\ n = 0 => OldL1(b) < l1From
  BY <1>1, <1>2 DEF Lead
<1>4. 1..(OldL1(b) - l1From + 1) = 1..n
  BY <1>1, <1>2 DEF Lead
<1>5. PICK p \in Seq(Found) : p = L1Ready(l1From, b)
  <2>1. \A i \in 1..n : L1Input(l1From + i - 1) \in Found
    BY <1>1, <1>2 DEF L1Input, Found
  <2>2. L1Ready(l1From, b) = [i \in 1..n |-> L1Input(l1From + i - 1)]
    BY <1>4 DEF L1Ready, OldL1
  <2>3. [i \in 1..n |-> L1Input(l1From + i - 1)] \in [1..n -> Found]
    BY <2>1
  <2>4. L1Ready(l1From, b) \in Seq(Found)
    BY <2>2, <2>3, MadeSeq
  <2>5. QED
    BY <2>4, Zenon
<1>6. Len(p) = n /\ \A k \in 1..n : p[k] = L1Input(l1From + k - 1)
  <2>1. p = [i \in 1..n |-> L1Input(l1From + i - 1)]
    BY <1>4, <1>5 DEF L1Ready, OldL1
  <2>2. QED
    BY <1>2, <2>1
<1>7. PICK q \in Seq(Found) : q = TxsOf(b)
  <2>1. \A i \in DOMAIN avail[b].txs : TxAt(b, i) \in Found
    BY <1>1 DEF TxAt, Found
  <2>2. TxsOf(b) \in [1..Len(avail[b].txs) -> Found]
    BY <1>1, <2>1 DEF TxsOf
  <2>3. TxsOf(b) \in Seq(Found)
    BY <1>1, <2>2, MadeSeq
  <2>4. QED
    BY <2>3, Zenon
<1>8. Len(q) = Len(avail[b].txs) /\ \A k \in 1..Len(avail[b].txs) : q[k] = TxAt(b, k)
  <2>1. q = [i \in 1..Len(avail[b].txs) |-> TxAt(b, i)]
    BY <1>1, <1>7 DEF TxsOf
  <2>2. QED
    BY <1>1, <2>1
<1>9. ToStore(b) = p \o q
  BY <1>5, <1>7 DEF ToStore
<1>10. /\ p \o q \in Seq(Found) /\ Len(p \o q) = n + Len(q)
       /\ \A i \in 1..(n + Len(q)) : (p \o q)[i] = IF i <= n THEN p[i] ELSE q[i - n]
  BY <1>6, ConcatProperties
<1>11. \A k \in 1..n : ToStore(b)[k] = L1Input(l1From + k - 1)
  BY <1>1, <1>6, <1>8, <1>9, <1>10
<1>12. \A k \in 1..Len(avail[b].txs) : ToStore(b)[n + k] = TxAt(b, k)
  BY SMTT(30), <1>1, <1>6, <1>8, <1>9, <1>10
<1>13. ToStore(b) \in Seq(Found) /\ Len(ToStore(b)) = n + Len(avail[b].txs)
  BY <1>8, <1>9, <1>10
<1>14. Len(avail[b].txs) \in Nat
  BY <1>1
<1>15. QED
  BY <1>2, <1>3, <1>11, <1>12, <1>13, <1>14, Zenon

(* All of it is on the chains; the rest of the L1 is behind the cursor.    *)
LEMMA ToStorePlaced ==
  ASSUME ChainStands, NEW b \in DOMAIN avail, l1From \in 1..(Len(l1) + 1),
         NEW k \in 1..Len(ToStore(b))
  PROVE  /\ Placed(ToStore(b)[k])
         /\ \/ /\ ToStore(b)[k].block = 0 /\ k <= Lead(b)
               /\ ToStore(b)[k].pos = l1From + k - 1 /\ ToStore(b)[k].pos <= OldL1(b)
            \/ /\ ToStore(b)[k].block = b /\ b # 0 /\ k > Lead(b)
               /\ ToStore(b)[k].pos = k - Lead(b)
               /\ k - Lead(b) \in 1..Len(avail[b].txs)
<1>1. /\ b \in Nat \ {0} /\ DOMAIN avail[b].txs = 1..Len(avail[b].txs)
      /\ l1From \in Nat \ {0} /\ OldL1(b) \in Nat
  BY BlockTyped, LenProperties, OldOnesFirst DEF ChainStands
<1>2. /\ Lead(b) \in Nat /\ Len(avail[b].txs) \in Nat
      /\ Len(ToStore(b)) = Lead(b) + Len(avail[b].txs)
      /\ Lead(b) > 0 => l1From + Lead(b) - 1 = OldL1(b)
  BY ToStoreHas
<1>3. CASE k <= Lead(b)
  <2>1. k \in 1..Lead(b) /\ ToStore(b)[k] = L1Input(l1From + k - 1)
    BY <1>2, <1>3, ToStoreHas
  <2>2. l1From + k - 1 \in Nat /\ l1From + k - 1 >= 1 /\ l1From + k - 1 <= OldL1(b)
    BY <1>1, <1>2, <2>1
  <2>3. QED
    BY <1>3, <2>1, <2>2 DEF L1Input, Placed, Found
<1>4. CASE k > Lead(b)
  <2>1. PICK i \in 1..Len(avail[b].txs) : k = Lead(b) + i
    <3>1. k - Lead(b) \in 1..Len(avail[b].txs) /\ k = Lead(b) + (k - Lead(b))
      BY <1>2, <1>4
    <3>2. QED
      BY <3>1
  <2>2. ToStore(b)[k] = TxAt(b, i)
    BY <2>1, ToStoreHas
  <2>3. TxAt(b, i).block = b /\ TxAt(b, i).pos = i /\ Placed(TxAt(b, i))
    BY <1>1 DEF TxAt, Placed, Found
  <2>4. k - Lead(b) = i
    BY <1>2, <2>1
  <2>5. QED
    BY <1>1, <1>4, <2>2, <2>3, <2>4
<1>5. QED
  BY <1>2, <1>3, <1>4

(* The cursor is moved behind the L1 inputs that were found.               *)
LEMMA NextL1Is ==
  ASSUME ChainStands, NEW b \in DOMAIN avail, l1From \in 1..(Len(l1) + 1)
  PROVE  NextL1(ToStore(b)) = l1From + Lead(b)
<1>1. /\ Lead(b) \in Nat /\ Len(avail[b].txs) \in Nat /\ ToStore(b) \in Seq(Found)
      /\ Len(ToStore(b)) = Lead(b) + Len(avail[b].txs) /\ l1From \in Nat
      /\ DOMAIN ToStore(b) = 1..Len(ToStore(b))
  BY ToStoreHas, LenProperties DEF ChainStands
<1>2. BlocksRead(ToStore(b)) = l1From..(l1From + Lead(b) - 1)
  <2>1. ASSUME NEW h \in BlocksRead(ToStore(b))
        PROVE  h \in l1From..(l1From + Lead(b) - 1)
    <3>1. PICK e \in ToSet(ToStore(b)) : e.block = 0 /\ e.pos = h
      BY <2>1 DEF BlocksRead
    <3>2. PICK k \in 1..Len(ToStore(b)) : ToStore(b)[k] = e
      BY <1>1, ToSetHas
    <3>3. h = l1From + k - 1 /\ k <= Lead(b)
      BY <3>1, <3>2, ToStorePlaced
    <3>4. QED
      BY <1>1, <3>2, <3>3
  <2>2. ASSUME NEW h \in l1From..(l1From + Lead(b) - 1)
        PROVE  h \in BlocksRead(ToStore(b))
    <3>1. PICK k \in 1..Lead(b) : h = l1From + k - 1
      <4>1. h - l1From + 1 \in 1..Lead(b) /\ h = l1From + (h - l1From + 1) - 1
        BY <1>1
      <4>2. QED
        BY <4>1
    <3>2. k \in DOMAIN ToStore(b) /\ ToStore(b)[k] = L1Input(h)
      BY <1>1, <3>1, ToStoreHas
    <3>3. L1Input(h) \in ToSet(ToStore(b)) /\ L1Input(h).block = 0 /\ L1Input(h).pos = h
      BY <1>1, <3>2, ToSetHas DEF L1Input
    <3>4. QED
      BY <3>3 DEF BlocksRead
  <2>3. QED
    BY <2>1, <2>2
<1>3. CASE Lead(b) = 0
  BY <1>1, <1>2, <1>3 DEF NextL1
<1>4. CASE Lead(b) # 0
  <2>1. PICK n \in Nat : n = l1From + Lead(b) - 1 /\ l1From <= n
    BY <1>1, <1>4
  <2>2. BlocksRead(ToStore(b)) = l1From..n /\ n \in l1From..n
    BY <1>1, <1>2, <2>1
  <2>3. Max(l1From..n) = n
    <3>1. \A y \in l1From..n : n >= y
      BY <1>1
    <3>2. \A x \in l1From..n : (\A y \in l1From..n : x >= y) => x = n
      BY <1>1, <2>1
    <3>3. QED
      BY <2>2, <3>1, <3>2 DEF Max
  <2>4. QED
    BY <1>1, <2>1, <2>2, <2>3 DEF NextL1
<1>5. QED
  BY <1>3, <1>4

(* An L1 input has an ID of its own.                                       *)
LEMMA L1Id ==
  ASSUME NEW e \in Found, NEW f \in Found, e.block = 0, Id(e) = Id(f)
  PROVE  f = e
<1>1. Id(e) = <<"L1", e.pos>>
  BY DEF Id
<1>2. CASE f.block = 0
  <2>1. Id(f) = <<"L1", f.pos>>
    BY <1>2 DEF Id
  <2>2. \A x, y : <<"L1", x>> = <<"L1", y>> => x = y
    OBVIOUS
  <2>3. e.pos = f.pos
    BY <1>1, <2>1, <2>2, Zenon
  <2>4. QED
    BY <1>2, <2>3, SameFound
<1>3. CASE f.block # 0
  <2>1. Id(f) = <<avail[f.block].txs[f.pos]>>
    BY <1>3 DEF Id
  <2>2. Len(Id(e)) = 2 /\ Len(Id(f)) = 1
    BY <1>1, <2>1
  <2>3. QED
    BY <2>2
<1>4. QED
  BY <1>2, <1>3

(* What was found stays where it is.                                       *)
LEMMA PlacedGrown ==
  ASSUME Grown, NEW e, Placed(e)
  PROVE  /\ Placed(e)'
         /\ Id(e)' = Id(e)
         /\ IsOurs(e)' <=> IsOurs(e)
  BY DEF Grown, Placed, Id, IsOurs

(* What is stored, as a sequence of inputs.                                *)
LEMMA InputsAre ==
  ASSUME StoredStands
  PROVE  /\ Inputs \in Seq(Found)
         /\ Len(stored) \in Nat /\ DOMAIN Inputs = 1..Len(stored)
         /\ DOMAIN stored = 1..Len(stored)
         /\ \A k \in 1..Len(stored) : Inputs[k] = stored[k].input /\ Placed(Inputs[k])
         /\ \A e : IsStored(e) <=> \E f \in ToSet(Inputs) : Id(f) = Id(e)
         /\ \A h : h \in BlocksRead(Inputs) <=> L1Input(h) \in ToSet(Inputs)
<1>1. /\ Len(stored) \in Nat /\ DOMAIN stored = 1..Len(stored)
      /\ \A k \in DOMAIN stored : stored[k].input \in Found /\ Placed(stored[k].input)
  <2>1. /\ Len(stored) \in Nat /\ DOMAIN stored = 1..Len(stored)
        /\ \A k \in DOMAIN stored : stored[k] \in Row
    <3>1. stored \in Seq(Row)
      BY DEF StoredStands, Row
    <3>2. QED
      BY <3>1, LenProperties, ElementOfSeq
  <2>2. QED
    BY <2>1 DEF StoredStands, Row
<1>2. /\ Inputs = [k \in 1..Len(stored) |-> stored[k].input]
      /\ Inputs \in Seq(Found)
  <2>1. Inputs = [k \in 1..Len(stored) |-> stored[k].input]
    BY <1>1 DEF Inputs
  <2>2. Inputs \in [1..Len(stored) -> Found]
    BY <1>1, <2>1
  <2>3. QED
    BY <1>1, <2>1, <2>2, MadeSeq
<1>3. ToSet(Inputs) = {stored[k].input : k \in 1..Len(stored)}
  BY <1>2 DEF ToSet
<1>4. \A e : IsStored(e) <=> \E f \in ToSet(Inputs) : Id(f) = Id(e)
  BY <1>1, <1>3 DEF IsStored
<1>5. \A f \in ToSet(Inputs) : f \in Found
  BY <1>1, <1>3
<1>6. ASSUME NEW h
      PROVE  h \in BlocksRead(Inputs) <=> L1Input(h) \in ToSet(Inputs)
  <2>1. L1Input(h).block = 0 /\ L1Input(h).pos = h
    BY DEF L1Input
  <2>2. \A f \in ToSet(Inputs) : f.block = 0 /\ f.pos = h => f = L1Input(h)
    BY <1>5 DEF L1Input, Found
  <2>3. QED
    BY <2>1, <2>2 DEF BlocksRead
<1>7. QED
  BY <1>1, <1>2, <1>4, <1>6

(* An L1 input is stored if the model has a row with its ID.               *)
LEMMA L1Stored ==
  ASSUME StoredStands, NEW h \in Nat
  PROVE  IsStored(L1Input(h)) <=> h \in BlocksRead(Inputs)
<1>1. L1Input(h) \in Found /\ L1Input(h).block = 0
  BY DEF L1Input, Found
<1>2. Inputs \in Seq(Found)
  BY InputsAre
<1>3. \A f \in ToSet(Inputs) : f \in Found
  BY <1>2, ToSetHas
<1>4. \A f \in ToSet(Inputs) : Id(f) = Id(L1Input(h)) => f = L1Input(h)
  BY <1>1, <1>3, L1Id
<1>5. IsStored(L1Input(h)) <=> \E f \in ToSet(Inputs) : Id(f) = Id(L1Input(h))
  BY InputsAre
<1>6. h \in BlocksRead(Inputs) <=> L1Input(h) \in ToSet(Inputs)
  BY InputsAre
<1>7. QED
  BY <1>4, <1>5, <1>6

-----------------------------------------------------------------------------
(* What a step leaves alone.                                               *)

LEMMA StoredRests ==
  ASSUME StoredStands, Grown, stored' = stored
  PROVE  /\ StoredStands' /\ Inputs' = Inputs
         /\ BlocksRead(Inputs)' = BlocksRead(Inputs)
         /\ \A e : Placed(e) => (IsStored(e)' <=> IsStored(e))
         /\ L1InOrder => L1InOrder'
<1>1. StoredStands'
  BY PlacedGrown DEF StoredStands
<1>2. Inputs' = Inputs
  BY DEF Inputs
<1>3. BlocksRead(Inputs)' = BlocksRead(Inputs)
  BY <1>2 DEF BlocksRead
<1>4. ASSUME NEW e, Placed(e)
      PROVE  IsStored(e)' <=> IsStored(e)
  <2>1. \A k \in DOMAIN stored : Id(stored[k].input)' = Id(stored[k].input)
    BY PlacedGrown DEF StoredStands
  <2>2. Id(e)' = Id(e)
    BY <1>4, PlacedGrown
  <2>3. QED
    BY <2>1, <2>2 DEF IsStored
<1>5. L1InOrder => L1InOrder'
  BY <1>2 DEF L1InOrder
<1>6. QED
  BY <1>1, <1>2, <1>3, <1>4, <1>5

LEMMA ToStoreRests ==
  ASSUME Grown, NEW b \in DOMAIN avail, l1From' = l1From
  PROVE  ToStore(b)' = ToStore(b) /\ Lead(b)' = Lead(b)
<1>1. OldL1(b)' = OldL1(b) /\ avail'[b] = avail[b]
  BY DEF Grown
<1>2. Cardinality(OldEnough(b))' = Cardinality(OldEnough(b))
  BY <1>1 DEF OldL1
<1>3. L1Ready(l1From, b)' = L1Ready(l1From, b)
  BY <1>2 DEF L1Ready, L1Input
<1>4. TxsOf(b)' = TxsOf(b)
  BY <1>1 DEF TxsOf, TxAt
<1>5. QED
  BY <1>1, <1>3, <1>4 DEF ToStore, Lead

(* The batch is on the chains.                                             *)
LEMMA BatchPlaced ==
  ASSUME ChainStands, CursorsStand
  PROVE  /\ batch \in Seq(Found) /\ Len(batch) \in Nat
         /\ \A k \in 1..Len(batch) : batch[k] \in Found /\ Placed(batch[k])
<1>1. CASE batch = <<>>
  BY <1>1
<1>2. CASE batch # <<>>
  <2>1. PICK b \in DOMAIN avail : b = next /\ batch = ToStore(b)
    BY <1>2 DEF CursorsStand
  <2>2. ToStore(b) \in Seq(Found)
    BY ToStoreHas DEF CursorsStand
  <2>3. \A k \in 1..Len(ToStore(b)) : Placed(ToStore(b)[k])
    BY ToStorePlaced DEF CursorsStand
  <2>4. QED
    BY <2>1, <2>2, <2>3, LenProperties DEF Placed
<1>3. QED
  BY <1>1, <1>2

(* The loop and the cursor of the L1 rest: what is behind them stays       *)
(* stored.                                                                 *)
LEMMA BehindRests ==
  ASSUME ChainStands, CursorsStand, StoredStands, BehindCursors, Grown,
         UNCHANGED <<stored, l1From, batch, done>>
  PROVE  BehindCursors'
<1>1. \A k \in 1..done : k \in 1..Len(batch)
  BY BatchPlaced DEF CursorsStand
<1>2. \A k \in 1..done : Placed(batch[k])
  BY <1>1, BatchPlaced
<1>3. \A k \in 1..done : IsOurs(batch[k])' => IsStored(batch[k])'
  BY <1>2, PlacedGrown, StoredRests DEF BehindCursors
<1>4. QED
  BY <1>3, StoredRests DEF BehindCursors

(* The chains grow, and the worker rests.                                  *)
LEMMA ListenerRests ==
  ASSUME ListenerInvariant, ChainStands', Grown,
         UNCHANGED <<next, l1From, loop, batch, count, done, stored, starts, faults>>
  PROVE  ListenerInvariant'
<1>1. ChainStands /\ CursorsStand /\ StoredStands /\ L1InOrder /\ BehindCursors
  BY DEF ListenerInvariant
<1>2. /\ Len(avail) \in Nat /\ DOMAIN avail = 1..Len(avail) /\ Len(l1) \in Nat
      /\ Len(avail') \in Nat /\ DOMAIN avail' = 1..Len(avail') /\ Len(l1') \in Nat
      /\ Len(avail) <= Len(avail') /\ Len(l1) <= Len(l1')
  BY <1>1, LenProperties DEF ChainStands, Grown
<1>3. CursorsStand'
  <2>1. batch' # <<>> => next' \in DOMAIN avail' /\ batch' = ToStore(next)'
    <3>1. SUFFICES ASSUME batch # <<>>
                   PROVE  next \in DOMAIN avail' /\ batch = ToStore(next)'
      OBVIOUS
    <3>2. PICK b \in DOMAIN avail : b = next /\ batch = ToStore(b)
      BY <1>1, <3>1 DEF CursorsStand
    <3>3. ToStore(b)' = ToStore(b) /\ next' = b
      BY <3>2, ToStoreRests
    <3>4. ToStore(next)' = ToStore(b)'
      BY <3>3 DEF ToStore, L1Ready, OldEnough, TxsOf, TxAt
    <3>5. QED
      BY <3>2, <3>3, <3>4 DEF Grown
  <2>2. starts' # {} /\ starts' \subseteq DOMAIN avail'
    BY <1>1, <1>2 DEF CursorsStand
  <2>3. next' \in 1..(Len(avail') + 1) /\ l1From' \in 1..(Len(l1') + 1)
    BY <1>1, <1>2 DEF CursorsStand
  <2>4. QED
    BY <1>1, <2>1, <2>2, <2>3 DEF CursorsStand
<1>4. StoredStands' /\ L1InOrder'
  BY <1>1, StoredRests
<1>5. BehindCursors'
  BY <1>1, BehindRests
<1>6. QED
  BY <1>3, <1>4, <1>5 DEF ListenerInvariant

-----------------------------------------------------------------------------
(* The steps of the worker.                                                *)

LEMMA ReadBlockKeeps ==
  ASSUME ListenerInvariant, ReadBlock
  PROVE  ListenerInvariant'
<1>1. ChainStands /\ CursorsStand /\ StoredStands /\ L1InOrder /\ BehindCursors
  BY DEF ListenerInvariant
<1>2. /\ UNCHANGED <<fromBlock, now, l1, avail, chains, l1From, stored, starts, faults>>
      /\ batch' = ToStore(next)
      /\ next' = IF ToStore(next) = <<>> THEN next + 1 ELSE next
      /\ count' = Len(stored) /\ done' = 0
  BY DEF ReadBlock, ToStore, chains
<1>3. ChainStands' /\ Grown
  BY <1>1, <1>2, ChainKept
<1>4. StoredStands' /\ L1InOrder' /\ BlocksRead(Inputs)' = BlocksRead(Inputs)
  BY <1>1, <1>2, <1>3, StoredRests
<1>5. PICK b \in Nat : b = next /\ b \in DOMAIN avail
  <2>1. next \in 1..Len(avail) /\ Len(avail) \in Nat /\ DOMAIN avail = 1..Len(avail)
    BY <1>1, LenProperties DEF ReadBlock, CursorsStand, ChainStands
  <2>2. QED
    BY <2>1
<1>6. Len(avail) \in Nat /\ b \in 1..Len(avail)
  BY <1>1, <1>5, BlockTyped
<1>7. ToStore(b)' = ToStore(b) /\ Len(ToStore(b)) \in Nat
  <2>1. ToStore(b) \in Seq(Found)
    BY <1>1, <1>5, ToStoreHas DEF CursorsStand
  <2>2. QED
    BY <1>2, <1>3, <1>5, <2>1, ToStoreRests, LenProperties
<1>8. CursorsStand'
  <2>1. batch' = ToStore(b)
    BY <1>2, <1>5
  <2>2. batch' # <<>> => next' = b /\ ToStore(next)' = ToStore(b)'
    <3>1. batch' # <<>> => next' = b
      BY <1>2, <1>5, <2>1
    <3>2. next' = b => ToStore(next)' = ToStore(b)'
      BY DEF ToStore, L1Ready, OldEnough, TxsOf, TxAt
    <3>3. QED
      BY <3>1, <3>2
  <2>3. batch' # <<>> => next' \in DOMAIN avail' /\ batch' = ToStore(next)'
    BY <1>2, <1>5, <1>7, <2>1, <2>2
  <2>4. next' \in {b, b + 1} /\ next' \in 1..(Len(avail') + 1)
    BY <1>2, <1>5, <1>6
  <2>5. \E s \in starts' : s <= next'
    <3>1. \A s \in starts : s \in Nat
      BY <1>1, BlockTyped DEF CursorsStand
    <3>2. QED
      BY <1>1, <1>2, <1>5, <2>4, <3>1 DEF CursorsStand
  <2>6. count' \in Nat /\ done' \in 0..Len(batch')
    BY <1>1, <1>2, <1>7, <2>1, LenProperties DEF StoredStands
  <2>7. QED
    BY <1>1, <1>2, <2>3, <2>4, <2>5, <2>6 DEF CursorsStand
<1>9. BehindCursors'
  BY <1>1, <1>2, <1>4 DEF BehindCursors
<1>10. QED
  BY <1>3, <1>4, <1>8, <1>9 DEF ListenerInvariant

(* A block is through: what the cursor passes is stored.                   *)
LEMMA BlockDoneKeeps ==
  ASSUME ListenerInvariant, BlockDone
  PROVE  /\ ListenerInvariant'
         /\ next \in DOMAIN avail /\ l1From' = l1From + Lead(next)
<1>1. ChainStands /\ CursorsStand /\ StoredStands /\ L1InOrder /\ BehindCursors
  BY DEF ListenerInvariant
<1>2. /\ UNCHANGED <<fromBlock, now, l1, avail, chains, count, stored, starts, faults>>
      /\ batch # <<>> /\ done = Len(batch)
      /\ l1From' = NextL1(batch) /\ next' = next + 1 /\ batch' = <<>> /\ done' = 0
  BY DEF BlockDone, chains
<1>3. ChainStands' /\ Grown
  BY <1>1, <1>2, ChainKept
<1>4. StoredStands' /\ L1InOrder' /\ BlocksRead(Inputs)' = BlocksRead(Inputs)
  BY <1>1, <1>2, <1>3, StoredRests
<1>5. PICK b \in DOMAIN avail : b = next /\ batch = ToStore(b)
  BY <1>1, <1>2 DEF CursorsStand
<1>6. /\ l1From' = l1From + Lead(b) /\ Lead(b) \in Nat /\ l1From \in 1..(Len(l1) + 1)
      /\ Len(l1) \in Nat /\ OldL1(b) \in 0..Len(l1)
      /\ Lead(b) > 0 => l1From + Lead(b) - 1 = OldL1(b)
      /\ b \in 1..Len(avail) /\ Len(avail) \in Nat
  BY <1>1, <1>2, <1>5, NextL1Is, ToStoreHas, OldOnesFirst, BlockTyped, LenProperties
     DEF CursorsStand, ChainStands
<1>7. CursorsStand'
  <2>1. l1From' \in 1..(Len(l1') + 1)
    BY <1>2, <1>6
  <2>2. next' \in 1..(Len(avail') + 1)
    BY <1>2, <1>5, <1>6
  <2>3. \E s \in starts' : s <= next'
    <3>1. \A s \in starts : s \in Nat
      BY <1>1, BlockTyped DEF CursorsStand
    <3>2. QED
      BY SMTT(30), <1>1, <1>2, <1>5, <1>6, <3>1 DEF CursorsStand
  <2>4. batch' = <<>> /\ Len(batch') = 0
    BY <1>2
  <2>5. QED
    BY <1>1, <1>2, <2>1, <2>2, <2>3, <2>4 DEF CursorsStand
<1>8. BehindCursors'
  <2>1. ASSUME NEW h \in 1..(l1From' - 1)
        PROVE  h \in BlocksRead(Inputs)
    <3>1. CASE h <= l1From - 1
      BY <1>1, <1>6, <3>1 DEF BehindCursors
    <3>2. CASE ~(h <= l1From - 1)
      <4>1. PICK k \in 1..Lead(b) : h = l1From + k - 1
        <5>1. h - l1From + 1 \in 1..Lead(b) /\ h = l1From + (h - l1From + 1) - 1
          BY <1>6, <3>2
        <5>2. QED
          BY <5>1
      <4>2. batch[k] = L1Input(h) /\ k \in 1..done
        <5>1. /\ Len(avail[b].txs) \in Nat
              /\ Len(ToStore(b)) = Lead(b) + Len(avail[b].txs)
              /\ ToStore(b)[k] = L1Input(h)
          BY <1>1, <4>1, ToStoreHas DEF CursorsStand
        <5>2. batch[k] = L1Input(h)
          BY <1>5, <5>1
        <5>3. done = Lead(b) + Len(avail[b].txs)
          BY <1>2, <1>5, <5>1
        <5>4. k \in 1..done
          BY SMTT(30), <1>6, <4>1, <5>1, <5>3
        <5>5. QED
          BY <5>2, <5>4
      <4>3. IsStored(L1Input(h))
        <5>1. IsOurs(L1Input(h))
          BY DEF IsOurs, L1Input
        <5>2. QED
          BY <1>1, <4>2, <5>1 DEF BehindCursors
      <4>4. h \in Nat
        BY <1>6, <4>1
      <4>5. QED
        BY <1>1, <4>3, <4>4, L1Stored
    <3>3. QED
      BY <3>1, <3>2
  <2>2. QED
    BY <1>2, <1>4, <2>1 DEF BehindCursors
<1>9. QED
  BY <1>3, <1>4, <1>5, <1>6, <1>7, <1>8 DEF ListenerInvariant

(* A call fails: the cursors stay.                                         *)
LEMMA CallFailsKeeps ==
  ASSUME ListenerInvariant, CallFails
  PROVE  ListenerInvariant'
<1>1. ChainStands /\ CursorsStand /\ StoredStands /\ L1InOrder /\ BehindCursors
  BY DEF ListenerInvariant
<1>2. /\ UNCHANGED <<fromBlock, now, l1, avail, chains, next, l1From, count, stored, starts>>
      /\ batch' = <<>> /\ done' = 0 /\ faults' = faults + 1
  BY DEF CallFails, CountFault, chains
<1>3. ChainStands' /\ Grown
  BY <1>1, <1>2, ChainKept
<1>4. StoredStands' /\ L1InOrder' /\ BlocksRead(Inputs)' = BlocksRead(Inputs)
  BY <1>1, <1>2, <1>3, StoredRests
<1>5. CursorsStand'
  BY <1>1, <1>2 DEF CursorsStand
<1>6. BehindCursors'
  BY <1>1, <1>2, <1>4 DEF BehindCursors
<1>7. QED
  BY <1>3, <1>4, <1>5, <1>6 DEF ListenerInvariant

(* nonodo starts on the chain.                                             *)
LEMMA StartFacts ==
  ASSUME ChainStands
  PROVE  StartBlock(avail) \in DOMAIN avail
<1>1. fromBlock \in 0..1 /\ Len(avail) \in Nat /\ DOMAIN avail = 1..Len(avail)
  BY AvailAssumption, LenProperties DEF ChainStands
<1>2. QED
  BY <1>1 DEF StartBlock, ChainStands

LEMMA RestartKeeps ==
  ASSUME ListenerInvariant, Restart
  PROVE  ListenerInvariant'
<1>1. ChainStands /\ CursorsStand /\ StoredStands /\ L1InOrder /\ BehindCursors
  BY DEF ListenerInvariant
<1>2. PICK b \in DOMAIN avail : b = StartBlock(avail)
  BY <1>1, StartFacts
<1>3. /\ UNCHANGED <<fromBlock, now, l1, avail, chains, count, stored>>
      /\ next' = b /\ starts' = starts \cup {b} /\ l1From' = 1
      /\ batch' = <<>> /\ done' = 0 /\ faults' = faults + 1
  BY <1>2 DEF Restart, CountFault, chains
<1>4. ChainStands' /\ Grown
  BY <1>1, <1>3, ChainKept
<1>5. StoredStands' /\ L1InOrder' /\ BlocksRead(Inputs)' = BlocksRead(Inputs)
  BY <1>1, <1>3, <1>4, StoredRests
<1>6. CursorsStand'
  <2>1. b \in 1..Len(avail) /\ Len(avail) \in Nat /\ Len(l1) \in Nat
    BY <1>1, BlockTyped, LenProperties DEF ChainStands
  <2>2. next' \in 1..(Len(avail') + 1) /\ l1From' \in 1..(Len(l1') + 1)
    BY <1>3, <2>1
  <2>3. b \in starts' /\ b <= next'
    BY <1>3, <2>1
  <2>4. starts' \subseteq DOMAIN avail'
    BY <1>1, <1>3 DEF CursorsStand
  <2>5. QED
    BY <1>1, <1>3, <2>2, <2>3, <2>4 DEF CursorsStand
<1>7. BehindCursors'
  BY <1>3 DEF BehindCursors
<1>8. QED
  BY <1>4, <1>5, <1>6, <1>7 DEF ListenerInvariant

-----------------------------------------------------------------------------
(* One iteration of the loop.                                              *)

(* If the next L1 input of the batch is new, what is stored of the L1 is   *)
(* all that comes before it.                                               *)
LEMMA HeldBefore ==
  ASSUME ListenerInvariant, NEW b \in DOMAIN avail, b = next, batch = ToStore(b),
         done < Len(batch), NEW p \in Nat, batch[done + 1] = L1Input(p),
         ~IsStored(L1Input(p))
  PROVE  BlocksRead(Inputs) = 1..(p - 1)
<1>1. ChainStands /\ CursorsStand /\ StoredStands /\ L1InOrder /\ BehindCursors
  BY DEF ListenerInvariant
<1>2. /\ done \in Nat /\ done + 1 \in 1..Len(batch) /\ Len(batch) \in Nat
      /\ l1From \in 1..(Len(l1) + 1) /\ Len(l1) \in Nat
  BY <1>1, BatchPlaced, LenProperties DEF CursorsStand, ChainStands
<1>3. L1Input(p).block = 0 /\ L1Input(p).pos = p
  BY DEF L1Input
<1>4. done + 1 <= Lead(b) /\ p = l1From + done
  <2>1. PICK k \in 1..Len(batch), e \in Found :
          k = done + 1 /\ e = ToStore(b)[k] /\ e = L1Input(p)
    BY <1>2, <1>3 DEF L1Input, Found
  <2>2. \/ e.block = 0 /\ k <= Lead(b) /\ e.pos = l1From + k - 1
        \/ e.block = b /\ b # 0
    BY <1>1, <1>2, <2>1, ToStorePlaced
  <2>3. e.block = 0 /\ e.pos = p
    BY <1>3, <2>1
  <2>4. k <= Lead(b) /\ p = l1From + k - 1
    BY <2>2, <2>3
  <2>5. QED
    BY <1>2, <2>1, <2>4
<1>5. p \notin BlocksRead(Inputs)
  BY <1>1, L1Stored
<1>6. ASSUME NEW h \in 1..(p - 1)
      PROVE  h \in BlocksRead(Inputs)
  <2>1. CASE h <= l1From - 1
    BY <1>1, <1>2, <2>1 DEF BehindCursors
  <2>2. CASE ~(h <= l1From - 1)
    <3>1. PICK k \in 1..done : h = l1From + k - 1
      <4>1. h - l1From + 1 \in 1..done /\ h = l1From + (h - l1From + 1) - 1
        BY <1>2, <1>4, <2>2
      <4>2. QED
        BY <4>1
    <3>2. k \in 1..Lead(b)
      BY <1>1, <1>2, <1>4, ToStoreHas
    <3>3. batch[k] = L1Input(h)
      BY <1>1, <1>2, <3>1, <3>2, ToStoreHas
    <3>4. IsOurs(L1Input(h))
      BY DEF IsOurs, L1Input
    <3>5. IsStored(L1Input(h)) /\ h \in Nat
      BY <1>1, <3>1, <3>3, <3>4 DEF BehindCursors
    <3>6. QED
      BY <1>1, <3>5, L1Stored
  <2>3. QED
    BY <2>1, <2>2
<1>7. ASSUME NEW h \in BlocksRead(Inputs)
      PROVE  h \in 1..(p - 1)
  <2>1. PICK k \in DOMAIN Inputs : Inputs[k] = L1Input(h)
    <3>1. L1Input(h) \in ToSet(Inputs) /\ Inputs \in Seq(Found)
      BY <1>1, InputsAre
    <3>2. QED
      BY <3>1, ToSetHas
  <2>2. L1Input(h).block = 0 /\ L1Input(h).pos = h
    BY DEF L1Input
  <2>3. h \in Nat /\ h >= 1
    BY <1>1, <2>1, <2>2, InputsAre DEF Placed, Found
  <2>4. {Inputs[j].pos : j \in {i \in 1..(k - 1) : Inputs[i].block = 0}} = 1..(h - 1)
    BY <1>1, <2>1, <2>2 DEF L1InOrder
  <2>5. ASSUME NEW q \in 1..(h - 1)
        PROVE  q \in BlocksRead(Inputs)
    <3>1. PICK j \in 1..(k - 1) : Inputs[j].block = 0 /\ Inputs[j].pos = q
      BY <2>4
    <3>2. j \in DOMAIN Inputs
      BY <1>1, InputsAre
    <3>3. Inputs[j] \in ToSet(Inputs)
      BY <1>1, <3>2, InputsAre, ToSetHas
    <3>4. QED
      BY <3>1, <3>3 DEF BlocksRead
  <2>6. p # h /\ p \notin 1..(h - 1)
    BY <1>5, <2>5
  <2>7. p >= 1
    BY <1>2, <1>4
  <2>8. QED
    BY <2>3, <2>6, <2>7
<1>8. QED
  BY <1>6, <1>7

(* A row is created.                                                       *)
LEMMA InputsAppend ==
  ASSUME StoredStands, UNCHANGED avail, NEW e \in Found, Placed(e), NEW i \in Nat,
         stored' = Append(stored, [input |-> e, index |-> i])
  PROVE  /\ StoredStands'
         /\ Inputs' = Append(Inputs, e)
         /\ \A x : IsStored(x)' <=> IsStored(x) \/ Id(e) = Id(x)
<1>1. PICK n \in Nat :
        /\ n = Len(stored) /\ DOMAIN stored = 1..n /\ DOMAIN Inputs = 1..n /\ n = Len(Inputs)
        /\ Inputs \in Seq(Found)
        /\ \A k \in 1..n : Inputs[k] = stored[k].input /\ Placed(stored[k].input)
  <2>1. /\ Len(stored) \in Nat /\ DOMAIN stored = 1..Len(stored)
        /\ DOMAIN Inputs = 1..Len(stored) /\ Inputs \in Seq(Found)
        /\ \A k \in 1..Len(stored) : Inputs[k] = stored[k].input /\ Placed(stored[k].input)
    BY InputsAre DEF StoredStands
  <2>2. Len(Inputs) = Len(stored)
    BY <2>1, LenProperties
  <2>3. QED
    BY <2>1, <2>2
<1>2. PICK row \in Row : row = [input |-> e, index |-> i] /\ row.input = e
  <2>1. [input |-> e, index |-> i] \in Row /\ [input |-> e, index |-> i].input = e
    BY DEF Row
  <2>2. QED
    BY <2>1, Zenon
<1>3. /\ stored' \in Seq(Row) /\ Len(stored') = n + 1 /\ DOMAIN stored' = 1..(n + 1)
      /\ stored'[n + 1] = row
      /\ \A k \in 1..n : stored'[k] = stored[k]
  <2>1. stored \in Seq(Row)
    BY DEF StoredStands, Row
  <2>2. stored' = Append(stored, row)
    BY <1>2
  <2>3. QED
    BY <1>1, <2>1, <2>2, AppendProperties, LenProperties
<1>4. \A k : k \in 1..(n + 1) <=> k \in 1..n \/ k = n + 1
  BY <1>1
<1>5. \A x : (Placed(x)' <=> Placed(x)) /\ Id(x)' = Id(x)
  BY DEF Placed, Id
<1>6. \A k \in 1..(n + 1) : Placed(stored'[k].input)
  BY <1>1, <1>2, <1>3, <1>4
<1>7. StoredStands'
  BY <1>3, <1>5, <1>6 DEF StoredStands, Row
<1>8. Inputs' = Append(Inputs, e)
  <2>1. Inputs' = [k \in 1..(n + 1) |-> stored'[k].input]
    BY <1>3 DEF Inputs
  <2>2. PICK s \in Seq(Found) : s = Append(Inputs, e)
    BY <1>1, AppendProperties
  <2>3. /\ DOMAIN s = 1..(n + 1) /\ s[n + 1] = e
        /\ \A k \in 1..n : s[k] = Inputs[k]
    BY <1>1, <2>2, AppendProperties, LenProperties
  <2>4. \A k \in 1..(n + 1) : s[k] = stored'[k].input
    BY <1>1, <1>2, <1>3, <1>4, <2>3
  <2>5. PICK t \in Seq(Found) : t = Inputs' /\ Len(t) = n + 1
    <3>1. Inputs' \in [1..(n + 1) -> Found]
      BY <1>6, <2>1 DEF Placed
    <3>2. Inputs' \in Seq(Found)
      BY SMTT(30), <1>1, <3>1, MadeSeq
    <3>3. Len(Inputs') = n + 1
      BY <1>1, <2>1, <3>2, LenProperties
    <3>4. QED
      BY <3>2, <3>3, Zenon
  <2>6. Len(s) = n + 1 /\ \A k \in 1..(n + 1) : s[k] = t[k]
    BY <1>1, <2>1, <2>2, <2>3, <2>4, <2>5, LenProperties
  <2>7. s = t
    BY <2>5, <2>6, SeqEqual
  <2>8. QED
    BY <2>2, <2>5, <2>7
<1>9. ASSUME NEW x
      PROVE  IsStored(x)' <=> IsStored(x) \/ Id(e) = Id(x)
  <2>1. IsStored(x)' <=> \E k \in 1..(n + 1) : Id(stored'[k].input) = Id(x)
    BY <1>3, <1>5 DEF IsStored
  <2>2. IsStored(x) <=> \E k \in 1..n : Id(stored[k].input) = Id(x)
    BY <1>1 DEF IsStored
  <2>3. QED
    BY <1>2, <1>3, <1>4, <2>1, <2>2
<1>10. QED
  BY <1>7, <1>8, <1>9

LEMMA CreateInputKeeps ==
  ASSUME ListenerInvariant, CreateInput
  PROVE  ListenerInvariant'
<1>1. ChainStands /\ CursorsStand /\ StoredStands /\ L1InOrder /\ BehindCursors
  BY DEF ListenerInvariant
<1>2. PICK e \in Found, b \in DOMAIN avail :
        e = batch[done + 1] /\ Placed(e) /\ b = next /\ batch = ToStore(b)
  <2>1. /\ done + 1 \in 1..Len(batch) /\ batch # <<>>
    BY <1>1, BatchPlaced DEF CreateInput, CursorsStand
  <2>2. batch[done + 1] \in Found /\ Placed(batch[done + 1])
    BY <1>1, <2>1, BatchPlaced
  <2>3. next \in DOMAIN avail /\ batch = ToStore(next)
    BY <1>1, <2>1 DEF CursorsStand
  <2>4. QED
    BY <2>2, <2>3
<1>3. /\ UNCHANGED <<fromBlock, now, l1, avail, chains, next, l1From, batch, count,
                     starts, faults>>
      /\ done < Len(batch) /\ done' = done + 1
      /\ stored' = IF IsOurs(e) /\ ~IsStored(e)
                   THEN Append(stored, [input |-> e, index |-> count + done])
                   ELSE stored
  BY <1>2 DEF CreateInput, chains
<1>4. ChainStands' /\ Grown
  BY <1>1, <1>3, ChainKept
<1>5. done \in Nat /\ count \in Nat /\ Len(batch) \in Nat
  BY <1>1, BatchPlaced DEF CursorsStand
<1>6. CursorsStand'
  <2>1. ToStore(b)' = ToStore(b)
    BY <1>3, <1>4, ToStoreRests
  <2>2. ToStore(next)' = ToStore(b)'
    <3>1. next' = b
      BY <1>2, <1>3
    <3>2. QED
      BY <3>1 DEF ToStore, L1Ready, OldEnough, TxsOf, TxAt
  <2>3. batch' = ToStore(next)' /\ next' \in DOMAIN avail'
    BY <1>2, <1>3, <2>1, <2>2
  <2>4. done' \in 0..Len(batch')
    BY <1>3, <1>5
  <2>5. QED
    BY <1>1, <1>3, <2>3, <2>4 DEF CursorsStand
<1>7. \A x : IsOurs(x)' <=> IsOurs(x)
  BY <1>3 DEF IsOurs
<1>8. \A k : k \in 1..(done + 1) <=> k \in 1..done \/ k = done + 1
  BY <1>5
<1>9. CASE ~(IsOurs(e) /\ ~IsStored(e))
  <2>1. stored' = stored
    BY <1>3, <1>9
  <2>2. StoredStands' /\ L1InOrder' /\ BlocksRead(Inputs)' = BlocksRead(Inputs)
    BY <1>1, <1>4, <2>1, StoredRests
  <2>3. \A x : IsStored(x)' <=> IsStored(x)
    BY <1>3, <2>1 DEF IsStored, Id
  <2>4. \A k \in 1..(done + 1) : IsOurs(batch[k]) => IsStored(batch[k])
    BY <1>1, <1>2, <1>8, <1>9 DEF BehindCursors
  <2>5. BehindCursors'
    BY <1>1, <1>3, <1>7, <2>2, <2>3, <2>4 DEF BehindCursors
  <2>6. QED
    BY <1>4, <1>6, <2>2, <2>5 DEF ListenerInvariant
<1>10. CASE IsOurs(e) /\ ~IsStored(e)
  <2>1. PICK i \in Nat : stored' = Append(stored, [input |-> e, index |-> i])
    BY <1>3, <1>5, <1>10
  <2>2. /\ StoredStands' /\ Inputs' = Append(Inputs, e)
        /\ \A x : IsStored(x)' <=> IsStored(x) \/ Id(e) = Id(x)
    <3>1. StoredStands /\ Placed(e) /\ UNCHANGED avail
      BY <1>1, <1>2, <1>3
    <3>2. QED
      BY <2>1, <3>1, InputsAppend
  <2>3. PICK n \in Nat, new \in Seq(Found) :
          /\ new = Inputs' /\ DOMAIN Inputs = 1..n /\ DOMAIN new = 1..(n + 1)
          /\ new[n + 1] = e
          /\ \A k \in 1..n : new[k] = Inputs[k]
    <3>1. Inputs \in Seq(Found)
      BY <1>1, InputsAre
    <3>2. QED
      BY <2>2, <3>1, AppendProperties, LenProperties
  <2>4. BlocksRead(Inputs) \subseteq BlocksRead(new)
    <3>1. ToSet(Inputs) \subseteq ToSet(new)
      <4>1. \A k \in 1..n : k \in 1..(n + 1)
        BY <2>3
      <4>2. QED
        BY <2>3, <4>1 DEF ToSet
    <3>2. QED
      BY <3>1 DEF BlocksRead
  <2>5. BehindCursors'
    <3>1. ASSUME NEW k \in 1..(done + 1), IsOurs(batch[k])
          PROVE  IsStored(batch[k])'
      <4>1. IsStored(e)'
        BY <2>2
      <4>2. \A x : IsStored(x) => IsStored(x)'
        BY <2>2
      <4>3. CASE k = done + 1
        <5>1. batch'[k'] = e
          BY <1>2, <1>3, <4>3
        <5>2. IsStored(batch[k])' <=> IsStored(e)'
          BY <5>1 DEF IsStored, Id
        <5>3. QED
          BY <4>1, <5>2
      <4>4. CASE k \in 1..done
        <5>1. IsStored(batch[k])
          BY <1>1, <3>1, <4>4 DEF BehindCursors
        <5>2. IsStored(batch[k])'
          BY <1>3, <4>2, <5>1 DEF IsStored, Id
        <5>3. QED
          BY <5>2
      <4>5. QED
        BY <1>8, <4>3, <4>4
    <3>2. BlocksRead(Inputs)' = BlocksRead(new)
      BY <2>3 DEF BlocksRead
    <3>3. QED
      BY <1>1, <1>3, <1>7, <2>4, <3>1, <3>2 DEF BehindCursors
  <2>6. ASSUME e.block = 0
        PROVE  {new[j].pos : j \in {i2 \in 1..n : new[i2].block = 0}} = 1..(e.pos - 1)
    <3>1. e = L1Input(e.pos) /\ e.pos \in Nat
      BY <2>6 DEF L1Input, Found
    <3>2. BlocksRead(Inputs) = 1..(e.pos - 1)
      BY <1>2, <1>3, <1>10, <3>1, HeldBefore
    <3>3. ToSet(Inputs) = {Inputs[k] : k \in 1..n}
      BY <2>3 DEF ToSet
    <3>4. {new[j].pos : j \in {i2 \in 1..n : new[i2].block = 0}} = BlocksRead(Inputs)
      BY <2>3, <3>3 DEF BlocksRead
    <3>5. QED
      BY <3>2, <3>4
  <2>7. L1InOrder'
    <3>1. SUFFICES ASSUME NEW k \in 1..(n + 1), new[k].block = 0
                   PROVE  {new[j].pos : j \in {i2 \in 1..(k - 1) : new[i2].block = 0}}
                            = 1..(new[k].pos - 1)
      BY <2>3 DEF L1InOrder
    <3>2. CASE k = n + 1
      <4>1. k - 1 = n /\ new[k] = e
        BY <2>3, <3>2
      <4>2. QED
        BY <2>6, <3>1, <4>1
    <3>3. CASE k \in 1..n
      <4>1. \A j \in 1..(k - 1) : new[j] = Inputs[j]
        BY <2>3, <3>3
      <4>2. Inputs[k].block = 0 /\ new[k] = Inputs[k]
        BY <2>3, <3>1, <3>3
      <4>3. {Inputs[j].pos : j \in {i2 \in 1..(k - 1) : Inputs[i2].block = 0}}
              = 1..(Inputs[k].pos - 1)
        BY <1>1, <2>3, <3>3, <4>2 DEF L1InOrder
      <4>4. {new[j].pos : j \in {i2 \in 1..(k - 1) : new[i2].block = 0}}
              = {Inputs[j].pos : j \in {i2 \in 1..(k - 1) : Inputs[i2].block = 0}}
        BY <4>1
      <4>5. QED
        BY <4>2, <4>3, <4>4
    <3>4. QED
      BY <2>3, <3>2, <3>3
  <2>8. QED
    BY <1>4, <1>6, <2>2, <2>5, <2>7 DEF ListenerInvariant
<1>11. QED
  BY <1>9, <1>10

-----------------------------------------------------------------------------
(* The invariant of the types and of the L1.                               *)

LEMMA InitListener ==
  ASSUME Init
  PROVE  ListenerInvariant
<1>1. /\ fromBlock \in FromBlocks /\ now = 0 /\ l1 = <<>>
      /\ avail = <<[time |-> 0, txs |-> <<>>]>>
      /\ next = StartBlock(avail) /\ starts = {next} /\ l1From = 1 /\ batch = <<>>
      /\ count = 0 /\ done = 0 /\ stored = <<>> /\ faults = 0
  BY DEF Init
<1>2. PICK block \in Block : block = [time |-> 0, txs |-> <<>>] /\ block.time = 0
  <2>1. <<>> \in Seq(Tx)
    OBVIOUS
  <2>2. [time |-> 0, txs |-> <<>>] \in Block /\ [time |-> 0, txs |-> <<>>].time = 0
    BY <2>1 DEF Block
  <2>3. QED
    BY <2>2, Zenon
<1>3. avail \in Seq(Block) /\ Len(avail) = 1 /\ DOMAIN avail = 1..1 /\ avail[1] = block
  BY <1>1, <1>2
<1>4. ChainStands
  <2>1. \A b \in DOMAIN avail : b = 1
    BY <1>3
  <2>2. now \in 0..MaxTime
    BY <1>1, AvailAssumption
  <2>3. l1 \in Seq(Nat) /\ DOMAIN l1 = {}
    BY <1>1
  <2>4. QED
    BY <1>1, <1>2, <1>3, <2>1, <2>2, <2>3 DEF ChainStands
<1>5. next \in DOMAIN avail
  BY <1>1, <1>4, StartFacts
<1>6. CursorsStand
  <2>1. next = 1 /\ Len(l1) = 0 /\ Len(batch) = 0
    BY <1>1, <1>3, <1>5
  <2>2. QED
    BY <1>1, <1>3, <1>5, <2>1 DEF CursorsStand
<1>7. StoredStands /\ L1InOrder
  <2>1. DOMAIN stored = {}
    BY <1>1
  <2>2. DOMAIN Inputs = {}
    BY <2>1 DEF Inputs
  <2>3. QED
    BY <1>1, <2>1, <2>2 DEF StoredStands, L1InOrder
<1>8. BehindCursors
  BY <1>1 DEF BehindCursors
<1>9. QED
  BY <1>4, <1>6, <1>7, <1>8 DEF ListenerInvariant

LEMMA NextListener ==
  ASSUME ListenerInvariant, [Next]_vars
  PROVE  ListenerInvariant'
<1>1. ChainStands
  BY DEF ListenerInvariant
<1>2. CASE Tick \/ MineL1 \/ MineAvail
  <2>1. UNCHANGED <<next, l1From, loop, batch, count, done, stored, starts, faults>>
    BY <1>2 DEF Tick, MineL1, MineAvail, loop
  <2>2. ChainStands' /\ Grown
    BY <1>1, <1>2, ChainGrows
  <2>3. QED
    BY <2>1, <2>2, ListenerRests
<1>3. CASE UNCHANGED vars
  <2>1. UNCHANGED <<chains, next, l1From, loop, batch, count, done, stored, starts, faults>>
    BY <1>3 DEF vars, loop
  <2>2. ChainStands' /\ Grown
    BY <1>1, <2>1, ChainKept
  <2>3. QED
    BY <2>1, <2>2, ListenerRests
<1>4. CASE Worker
  BY <1>4, ReadBlockKeeps, CreateInputKeeps, BlockDoneKeeps DEF Worker
<1>5. CASE CallFails \/ Restart
  BY <1>5, CallFailsKeeps, RestartKeeps
<1>6. QED
  BY <1>2, <1>3, <1>4, <1>5 DEF Next

LEMMA ListenerStands == Spec => []ListenerInvariant
<1>1. Init => ListenerInvariant
  BY InitListener
<1>2. ListenerInvariant /\ [Next]_vars => ListenerInvariant'
  BY NextListener
<1>3. QED
  BY <1>1, <1>2, PTL DEF Spec

(* Every variable has its type, whatever the delays and however often the  *)
(* worker starts again: the cursor of TableTennis never passes the end of  *)
(* the L1, nor the one of the worker the block after the latest.           *)
THEOREM AvailTypeCorrect == Spec => []TypeOK
<1>1. ListenerInvariant => TypeOK
  <2>1. SUFFICES ASSUME ListenerInvariant PROVE TypeOK
    OBVIOUS
  <2>2. ChainStands /\ CursorsStand /\ StoredStands
    BY <2>1 DEF ListenerInvariant
  <2>3. batch \in Seq(Found)
    BY <2>2, BatchPlaced
  <2>4. avail \in Seq([time: Nat, txs: Seq(Tx)])
    BY <2>2 DEF ChainStands, Block
  <2>5. QED
    BY <2>2, <2>3, <2>4 DEF TypeOK, ChainStands, CursorsStand, StoredStands
<1>2. QED
  BY <1>1, ListenerStands, PTL

-----------------------------------------------------------------------------
(* What the chains call for, and its order.                                *)

(* The chains, and where the worker has started on them.                   *)
Standing == ChainStands /\ First \in DOMAIN avail

(* A worker that always starts from one block stands.                      *)
LEMMA WhenStanding ==
  ASSUME ChainStands, CursorsStand, starts = {First}
  PROVE  Standing /\ First <= next /\ First \in Nat \ {0}
<1>1. First \in DOMAIN avail
  BY DEF CursorsStand
<1>2. First <= next
  BY DEF CursorsStand
<1>3. QED
  BY <1>1, <1>2, BlockTyped DEF Standing

(* The L1 is read further by later blocks.                                 *)
LEMMA ReadUpToGrows ==
  ASSUME Standing, NEW b \in 0..Len(avail), NEW c \in 0..Len(avail), b <= c
  PROVE  /\ ReadUpTo(b) \in Nat
         /\ ReadUpTo(b) <= ReadUpTo(c)
<1>1. /\ Len(avail) \in Nat /\ DOMAIN avail = 1..Len(avail) /\ First \in 1..Len(avail)
      /\ \A h \in DOMAIN avail : OldL1(h) \in Nat
      /\ \A h, k \in DOMAIN avail : h <= k => OldL1(h) <= OldL1(k)
  BY LenProperties, OldOnesFirst, OldL1Grows DEF Standing, ChainStands
<1>2. \A h : ReadUpTo(h) = IF h < First THEN 0 ELSE OldL1(h)
  BY DEF ReadUpTo, OldL1
<1>3. \A h \in 0..Len(avail) : h < First \/ (h \in DOMAIN avail /\ ~(h < First))
  BY <1>1
<1>4. ReadUpTo(b) \in Nat /\ ReadUpTo(c) \in Nat
  BY <1>1, <1>2, <1>3
<1>5. CASE b < First
  BY <1>2, <1>4, <1>5
<1>6. CASE b \in DOMAIN avail /\ ~(b < First)
  <2>1. c \in DOMAIN avail /\ ~(c < First)
    BY <1>1, <1>3, <1>6
  <2>2. QED
    BY <1>1, <1>2, <1>6, <2>1
<1>7. QED
  BY <1>3, <1>4, <1>5, <1>6

(* Two inputs of the chain come one after the other.                       *)
LEMMA OrderIsTotal ==
  ASSUME Standing, NEW e, NEW f, Placed(e), Placed(f)
  PROVE  /\ Precedes(e, f) => ~Precedes(f, e)
         /\ e # f => Precedes(e, f) \/ Precedes(f, e)
<1>1. /\ e \in Found /\ f \in Found
      /\ e.block \in Nat /\ e.pos \in Nat /\ f.block \in Nat /\ f.pos \in Nat
  BY DEF Placed, Found
<1>2. e.block = f.block /\ e.pos = f.pos => e = f
  BY <1>1 DEF Found
<1>3. /\ e.block # 0 => ReadUpTo(e.block) \in Int
      /\ f.block # 0 => ReadUpTo(f.block) \in Int
  <2>1. DOMAIN avail = 1..Len(avail) /\ Len(avail) \in Nat
    BY LenProperties DEF Standing, ChainStands
  <2>2. \A b \in 1..Len(avail) : b \in 0..Len(avail) /\ b <= b
    BY <2>1
  <2>3. \A b \in 1..Len(avail) : ReadUpTo(b) \in Int
    BY <2>2, ReadUpToGrows
  <2>4. QED
    BY <2>1, <2>3 DEF Placed
<1>4. CASE e.block = 0 /\ f.block = 0
  BY <1>1, <1>2, <1>4 DEF Precedes
<1>5. CASE e.block = 0 /\ f.block # 0
  BY <1>1, <1>3, <1>5 DEF Precedes
<1>6. CASE e.block # 0 /\ f.block = 0
  BY <1>1, <1>3, <1>6 DEF Precedes
<1>7. CASE e.block # 0 /\ f.block # 0
  BY <1>1, <1>2, <1>7 DEF Precedes
<1>8. QED
  BY <1>4, <1>5, <1>6, <1>7

(* The transactions of the blocks First..n.                                *)
LEMMA TransactionsHave ==
  ASSUME Standing, NEW n \in 0..Len(avail), NEW e
  PROVE  e \in Transactions(n) <=>
           /\ e \in Found /\ e.block # 0 /\ Placed(e)
           /\ e.block \in First..n
           /\ IsOurs(e)
<1>1. /\ Len(avail) \in Nat /\ DOMAIN avail = 1..Len(avail) /\ First \in 1..Len(avail)
      /\ \A c \in DOMAIN avail : avail[c].txs \in Seq(Tx)
  BY LenProperties, BlockTyped DEF Standing, ChainStands
<1>2. \A c \in First..n : c \in DOMAIN avail /\ c \in Nat /\ c # 0
  BY <1>1
<1>3. ASSUME NEW c \in First..n, NEW i \in DOMAIN avail[c].txs
      PROVE  /\ TxAt(c, i) \in Found /\ TxAt(c, i).block = c /\ TxAt(c, i).pos = i
             /\ Placed(TxAt(c, i))
  <2>1. i \in Nat
    BY <1>1, <1>2, LenProperties
  <2>2. TxAt(c, i) \in Found /\ TxAt(c, i).block = c /\ TxAt(c, i).pos = i
    BY <1>2, <2>1 DEF TxAt, Found
  <2>3. QED
    BY <1>2, <2>2 DEF Placed
<1>4. ASSUME e \in Transactions(n)
      PROVE  /\ e \in Found /\ e.block # 0 /\ Placed(e)
             /\ e.block \in First..n
             /\ IsOurs(e)
  <2>1. PICK c \in First..n : \E i \in DOMAIN avail[c].txs : e = TxAt(c, i)
    BY <1>4 DEF Transactions
  <2>2. QED
    BY <1>2, <1>3, <1>4, <2>1 DEF Transactions
<1>5. ASSUME e \in Found, e.block # 0, Placed(e), e.block \in First..n, IsOurs(e)
      PROVE  e \in Transactions(n)
  <2>1. e = TxAt(e.block, e.pos) /\ e.pos \in DOMAIN avail[e.block].txs
    BY <1>5 DEF Found, TxAt, Placed
  <2>2. QED
    BY <1>5, <2>1 DEF Transactions
<1>6. QED
  BY <1>4, <1>5

(* What is called for up to block n.                                       *)
LEMMA CalledForHas ==
  ASSUME Standing, NEW n \in 0..Len(avail), NEW e \in Found
  PROVE  /\ e.block = 0 => (e \in CalledFor(n) <=> e.pos \in 1..ReadUpTo(n))
         /\ e.block # 0 =>
              (e \in CalledFor(n) <=>
                 /\ e \in Transactions(n)
                 /\ \A f \in Transactions(n) : Precedes(f, e) => Id(f) # Id(e))
<1>1. \A h : L1Input(h).block = 0 /\ L1Input(h).pos = h
  BY DEF L1Input
<1>2. e.block = 0 => e = L1Input(e.pos)
  BY DEF Found, L1Input
<1>3. \A f \in Transactions(n) : f.block # 0
  BY TransactionsHave
<1>4. QED
  BY <1>1, <1>2, <1>3 DEF CalledFor

(* It is on the chain.                                                     *)
LEMMA CalledIsPlaced ==
  ASSUME Standing, NEW n \in 0..Len(avail), NEW e \in CalledFor(n)
  PROVE  /\ e \in Found /\ Placed(e)
         /\ e.block # 0 => e \in Transactions(n)
<1>1. CASE e \in Transactions(n)
  BY <1>1, TransactionsHave
<1>2. CASE \E h \in 1..ReadUpTo(n) : e = L1Input(h)
  <2>1. PICK h \in 1..ReadUpTo(n) : e = L1Input(h)
    BY <1>2
  <2>2. h \in Nat /\ h >= 1
    OBVIOUS
  <2>3. e \in Found /\ e.block = 0 /\ e.pos >= 1
    BY <2>1, <2>2 DEF L1Input, Found
  <2>4. QED
    BY <2>3 DEF Placed
<1>3. QED
  BY <1>1, <1>2 DEF CalledFor

(* More blocks call for more, and not for anything else of the first ones. *)
LEMMA CalledForGrows ==
  ASSUME Standing, NEW n \in 0..Len(avail), NEW m \in 0..Len(avail), n <= m, NEW e
  PROVE  /\ e \in CalledFor(n) => e \in CalledFor(m)
         /\ /\ e \in CalledFor(m)
            /\ e.block = 0 => e.pos <= ReadUpTo(n)
            /\ e.block # 0 => e.block <= n
            => e \in CalledFor(n)
<1>1. /\ ReadUpTo(n) \in Int /\ ReadUpTo(m) \in Int /\ ReadUpTo(n) <= ReadUpTo(m)
  BY ReadUpToGrows
<1>2. First \in Nat /\ Len(avail) \in Nat
  BY LenProperties, BlockTyped DEF Standing, ChainStands
<1>3. ASSUME NEW f
      PROVE  f \in Transactions(n) <=> f \in Transactions(m) /\ f.block <= n
  <2>1. f.block \in First..n <=> f.block \in First..m /\ f.block <= n
    BY <1>2
  <2>2. QED
    BY <2>1, TransactionsHave
<1>4. ASSUME NEW f \in Transactions(m), e \in Found, e.block # 0, e.block <= n, Precedes(f, e)
      PROVE  f \in Transactions(n)
  <2>1. f.block \in Nat /\ f.block # 0 /\ e.block \in Nat
    BY <1>4, TransactionsHave DEF Found
  <2>2. f.block <= n
    BY <1>4, <2>1 DEF Precedes
  <2>3. QED
    BY <1>3, <1>4, <2>2
<1>5. ASSUME e \in CalledFor(n)
      PROVE  e \in CalledFor(m)
  <2>1. e \in Found /\ Placed(e) /\ (e.block # 0 => e \in Transactions(n))
    BY <1>5, CalledIsPlaced
  <2>2. CASE e.block = 0
    <3>1. e.pos \in 1..ReadUpTo(n)
      BY <1>5, <2>1, <2>2, CalledForHas
    <3>2. e.pos \in 1..ReadUpTo(m)
      BY <1>1, <3>1
    <3>3. QED
      BY <2>1, <2>2, <3>2, CalledForHas
  <2>3. CASE e.block # 0
    <3>1. e \in Transactions(m) /\ e.block <= n
      BY <1>3, <2>1, <2>3
    <3>2. \A f \in Transactions(n) : Precedes(f, e) => Id(f) # Id(e)
      BY <1>5, <2>1, <2>3, CalledForHas
    <3>3. \A f \in Transactions(m) : Precedes(f, e) => Id(f) # Id(e)
      BY <1>4, <2>1, <2>3, <3>1, <3>2
    <3>4. QED
      BY <2>1, <2>3, <3>1, <3>3, CalledForHas
  <2>4. QED
    BY <2>2, <2>3
<1>6. ASSUME e \in CalledFor(m), e.block = 0 => e.pos <= ReadUpTo(n), e.block # 0 => e.block <= n
      PROVE  e \in CalledFor(n)
  <2>1. e \in Found /\ Placed(e) /\ (e.block # 0 => e \in Transactions(m))
    BY <1>6, CalledIsPlaced
  <2>2. CASE e.block = 0
    <3>1. e.pos \in 1..ReadUpTo(m)
      BY <1>6, <2>1, <2>2, CalledForHas
    <3>2. e.pos \in 1..ReadUpTo(n)
      BY <1>1, <1>6, <2>2, <3>1
    <3>3. QED
      BY <2>1, <2>2, <3>2, CalledForHas
  <2>3. CASE e.block # 0
    <3>1. e \in Transactions(n)
      BY <1>3, <1>6, <2>1, <2>3
    <3>2. \A f \in Transactions(m) : Precedes(f, e) => Id(f) # Id(e)
      BY <1>6, <2>1, <2>3, CalledForHas
    <3>3. QED
      BY <1>3, <2>1, <2>3, <3>1, <3>2, CalledForHas
  <2>4. QED
    BY <2>2, <2>3
<1>7. QED
  BY <1>5, <1>6

(* Where a transaction of ours comes first it is called for.               *)
LEMMA FirstOccurrence ==
  ASSUME Standing, NEW n \in 0..Len(avail), NEW e \in Transactions(n)
  PROVE  \E g \in CalledFor(n) :
           g.block # 0 /\ Id(g) = Id(e) /\ (g = e \/ Precedes(g, e))
<1> DEFINE P == {f \in Transactions(n) : Id(f) = Id(e)}
           B == {f.block : f \in P}
<1>1. \A f \in Transactions(n) :
        f \in Found /\ f.block # 0 /\ f.block \in Nat /\ f.pos \in Nat /\ Placed(f)
  BY TransactionsHave DEF Found
<1>2. PICK g0 \in P : \A f \in P : g0.block <= f.block
  <2>1. B \in SUBSET Nat /\ B # {}
    BY <1>1
  <2>2. PICK b \in B : \A m \in B : b <= m
    BY <2>1, LeastOf
  <2>3. QED
    BY <2>2
<1> DEFINE Q == {f \in P : f.block = g0.block}
           I == {f.pos : f \in Q}
<1>3. PICK g \in Q : \A f \in Q : g.pos <= f.pos
  <2>1. I \in SUBSET Nat /\ I # {}
    BY <1>1
  <2>2. PICK b \in I : \A m \in I : b <= m
    BY <2>1, LeastOf
  <2>3. QED
    BY <2>2
<1>4. g \in Transactions(n) /\ Id(g) = Id(e) /\ g.block # 0 /\ g.block = g0.block
  BY <1>1, <1>3
<1>5. \A f \in P : ~Precedes(f, g)
  <2>1. SUFFICES ASSUME NEW f \in P, Precedes(f, g) PROVE FALSE
    OBVIOUS
  <2>2. f.block < g.block \/ (f.block = g.block /\ f.pos < g.pos)
    BY <1>1, <1>4, <2>1 DEF Precedes
  <2>3. CASE f.block < g.block
    BY <1>1, <1>2, <1>4, <2>3
  <2>4. CASE f.block = g.block /\ f.pos < g.pos
    <3>1. f \in Q
      BY <1>4, <2>4
    <3>2. QED
      BY <1>1, <1>3, <1>4, <2>4, <3>1
  <2>5. QED
    BY <2>2, <2>3, <2>4
<1>6. g \in CalledFor(n)
  BY <1>1, <1>4, <1>5, CalledForHas
<1>7. g = e \/ Precedes(g, e)
  BY <1>1, <1>4, <1>5, OrderIsTotal
<1>8. QED
  BY <1>4, <1>6, <1>7

(* What comes before something of the first blocks is called for by them.  *)
LEMMA EarlierCalled ==
  ASSUME Standing, NEW n \in 0..Len(avail), NEW m \in 0..Len(avail), n <= m,
         NEW e \in CalledFor(m), NEW s, Placed(s), Precedes(e, s),
         s.block = 0 => s.pos <= ReadUpTo(n),
         s.block # 0 => s.block <= n
  PROVE  e \in CalledFor(n)
<1>1. /\ e \in Found /\ Placed(e) /\ s \in Found
      /\ e.block \in Nat /\ e.pos \in Nat /\ s.block \in Nat /\ s.pos \in Nat
  BY CalledIsPlaced DEF Found, Placed
<1>2. /\ Len(avail) \in Nat
      /\ e.block # 0 => e.block \in 0..Len(avail)
      /\ s.block # 0 => s.block \in 0..Len(avail)
  BY <1>1, LenProperties DEF Standing, ChainStands, Placed
<1>3. CASE e.block = 0 /\ s.block = 0
  <2>1. e.pos < s.pos /\ ReadUpTo(n) \in Int
    BY <1>3, ReadUpToGrows DEF Precedes
  <2>2. e.pos <= ReadUpTo(n)
    BY <1>1, <1>3, <2>1
  <2>3. QED
    BY <1>3, <2>2, CalledForGrows
<1>4. CASE e.block = 0 /\ s.block # 0
  <2>1. e.pos <= ReadUpTo(s.block)
    BY <1>4 DEF Precedes
  <2>2. ReadUpTo(s.block) \in Int /\ ReadUpTo(n) \in Int /\ ReadUpTo(s.block) <= ReadUpTo(n)
    BY <1>2, <1>4, ReadUpToGrows
  <2>3. e.pos <= ReadUpTo(n)
    BY <1>1, <2>1, <2>2
  <2>4. QED
    BY <1>4, <2>3, CalledForGrows
<1>5. CASE e.block # 0 /\ s.block = 0
  <2>1. ReadUpTo(e.block) < s.pos /\ s.pos <= ReadUpTo(n)
    BY <1>5 DEF Precedes
  <2>2. n <= e.block =>
          /\ ReadUpTo(n) \in Int /\ ReadUpTo(e.block) \in Int
          /\ ReadUpTo(n) <= ReadUpTo(e.block)
    BY <1>2, <1>5, ReadUpToGrows
  <2>3. e.block <= n
    BY <1>1, <2>1, <2>2
  <2>4. QED
    BY <1>5, <2>3, CalledForGrows
<1>6. CASE e.block # 0 /\ s.block # 0
  <2>1. e.block <= n
    BY <1>1, <1>6 DEF Precedes
  <2>2. QED
    BY <1>6, <2>1, CalledForGrows
<1>7. QED
  BY <1>3, <1>4, <1>5, <1>6

(* So a chain of which one is a beginning calls for the same first.        *)
CallsGrow ==
  \A n, m \in 0..Len(avail) : n <= m =>
    /\ CalledFor(n) \subseteq CalledFor(m)
    /\ \A e \in CalledFor(m), s \in CalledFor(n) : Precedes(e, s) => e \in CalledFor(n)

LEMMA CallsAreOrdered == Standing => CallsGrow
<1> SUFFICES ASSUME Standing, NEW n \in 0..Len(avail), NEW m \in 0..Len(avail), n <= m
             PROVE  /\ CalledFor(n) \subseteq CalledFor(m)
                    /\ \A e \in CalledFor(m), s \in CalledFor(n) :
                         Precedes(e, s) => e \in CalledFor(n)
  BY DEF CallsGrow
<1>1. CalledFor(n) \subseteq CalledFor(m)
  BY CalledForGrows
<1>2. ASSUME NEW e \in CalledFor(m), NEW s \in CalledFor(n), Precedes(e, s)
      PROVE  e \in CalledFor(n)
  <2>1. /\ s \in Found /\ Placed(s) /\ (s.block # 0 => s \in Transactions(n))
        /\ s.block = 0 => s.pos \in 1..ReadUpTo(n)
    BY CalledIsPlaced, CalledForHas
  <2>2. /\ s.block = 0 => s.pos <= ReadUpTo(n)
        /\ s.block # 0 => s.block <= n
    BY <2>1, TransactionsHave
  <2>3. QED
    BY <1>2, <2>1, <2>2, EarlierCalled
<1>3. QED
  BY <1>1, <1>2

(* What the first blocks call for does not change with the next ones.      *)
LEMMA CallsKept ==
  ASSUME Standing, ChainStands', Grown, UNCHANGED starts
  PROVE  /\ Standing' /\ First' = First
         /\ \A n \in 0..Len(avail) : ReadUpTo(n)' = ReadUpTo(n)
         /\ \A e, f : Placed(e) /\ Placed(f) => (Precedes(e, f)' <=> Precedes(e, f))
         /\ \A n \in 0..Len(avail) : CalledFor(n)' = CalledFor(n)
<1>1. /\ Len(avail) \in Nat /\ DOMAIN avail = 1..Len(avail) /\ First \in DOMAIN avail
      /\ \A b \in DOMAIN avail : avail[b].txs \in Seq(Tx)
  BY LenProperties, BlockTyped DEF Standing, ChainStands
<1>2. First' = First
  BY DEF First
<1>3. Standing'
  <2>1. First \in DOMAIN avail' /\ avail'[First] = avail[First]
    BY <1>1 DEF Grown
  <2>2. QED
    BY <1>2, <2>1 DEF Standing
<1>4. ASSUME NEW n \in 0..Len(avail)
      PROVE  ReadUpTo(n)' = ReadUpTo(n)
  <2>1. n < First \/ (n \in DOMAIN avail /\ OldL1(n)' = OldL1(n))
    BY <1>1 DEF Grown
  <2>2. QED
    BY <1>2, <2>1 DEF ReadUpTo, OldL1
<1>5. ASSUME NEW e, NEW f, Placed(e), Placed(f)
      PROVE  Precedes(e, f)' <=> Precedes(e, f)
  <2>1. /\ e.block # 0 => e.block \in 0..Len(avail)
        /\ f.block # 0 => f.block \in 0..Len(avail)
    BY <1>1, <1>5 DEF Placed
  <2>2. /\ e.block # 0 => ReadUpTo(e.block)' = ReadUpTo(e.block)
        /\ f.block # 0 => ReadUpTo(f.block)' = ReadUpTo(f.block)
    BY <1>4, <2>1
  <2>3. QED
    BY <2>2 DEF Precedes
<1>6. ASSUME NEW n \in 0..Len(avail)
      PROVE  CalledFor(n)' = CalledFor(n)
  <2>1. \A c \in First..n : c \in DOMAIN avail /\ avail'[c] = avail[c]
    BY <1>1 DEF Grown
  <2>2. \A e \in Transactions(n) : Placed(e) /\ e.block # 0
    BY TransactionsHave
  <2> DEFINE found(chain) ==
               UNION {{TxAt(c, i) : i \in DOMAIN chain[c].txs} : c \in First..n}
  <2>3. found(avail') = found(avail)
    BY <2>1
  <2>4. \A e \in found(avail) : Placed(e) /\ e.block # 0
    <3>1. SUFFICES ASSUME NEW c \in First..n, NEW i \in DOMAIN avail[c].txs
                   PROVE  Placed(TxAt(c, i)) /\ TxAt(c, i).block # 0
      OBVIOUS
    <3>2. c \in Nat \ {0} /\ i \in Nat
      BY <1>1, <2>1, LenProperties
    <3>3. TxAt(c, i) \in Found /\ TxAt(c, i).block = c /\ TxAt(c, i).pos = i
      BY <3>2 DEF TxAt, Found
    <3>4. QED
      BY <2>1, <3>2, <3>3 DEF Placed
  <2> HIDE DEF found
  <2>5. \A e \in found(avail) : (IsOurs(e)' <=> IsOurs(e)) /\ Id(e)' = Id(e)
    BY <2>4, PlacedGrown
  <2>6. Transactions(n) = {e \in found(avail) : IsOurs(e)}
    BY DEF Transactions, found
  <2>7. Transactions(n)' = {e \in found(avail') : IsOurs(e)'}
    BY <1>2 DEF Transactions, found
  <2>8. Transactions(n)' = Transactions(n)
    BY <2>3, <2>5, <2>6, <2>7
  <2>9. \A e \in Transactions(n) : Id(e)' = Id(e)
    BY <2>2, PlacedGrown DEF Id
  <2>10. \A e, f \in Transactions(n) : Precedes(f, e)' <=> Precedes(f, e)
    BY <1>5, <2>2
  <2>11. ReadUpTo(n)' = ReadUpTo(n)
    BY <1>4
  <2>12. CalledFor(n)' =
           {L1Input(h) : h \in 1..ReadUpTo(n)'}
             \cup {e \in Transactions(n)' :
                     \A f \in Transactions(n)' : Precedes(f, e)' => Id(f)' # Id(e)'}
    BY DEF CalledFor, L1Input
  <2>13. {e \in Transactions(n)' :
            \A f \in Transactions(n)' : Precedes(f, e)' => Id(f)' # Id(e)'}
         = {e \in Transactions(n) :
              \A f \in Transactions(n) : Precedes(f, e) => Id(f) # Id(e)}
    BY <2>8, <2>9, <2>10
  <2>14. QED
    BY <2>11, <2>12, <2>13 DEF CalledFor
<1>7. QED
  BY <1>2, <1>3, <1>4, <1>5, <1>6

-----------------------------------------------------------------------------
(* The order.                                                              *)

(* The sequence s is a beginning of what is called for up to block n.      *)
Canonical(s, n) ==
  /\ ToSet(s) \subseteq CalledFor(n)
  /\ \A j, k \in DOMAIN s : j < k => Precedes(s[j], s[k])
  /\ \A k \in DOMAIN s : \A e \in CalledFor(n) : Precedes(e, s[k]) => e \in ToSet(s)

(* The cursor of the L1 and the one of Avail are at the same place, and    *)
(* what is called for behind them is stored.                               *)
OrderInvariant ==
  /\ ListenerInvariant
  /\ starts = {First} =>
       /\ Canonical(Inputs, Len(avail))
       /\ l1From = ReadUpTo(next - 1) + 1
       /\ CalledFor(next - 1) \subseteq ToSet(Inputs)

(* No ID is called for twice.                                              *)
LEMMA CalledOnce ==
  ASSUME Standing, NEW n \in 0..Len(avail), NEW e \in CalledFor(n), NEW f \in CalledFor(n),
         Id(e) = Id(f)
  PROVE  e = f
<1>1. /\ e \in Found /\ Placed(e) /\ (e.block # 0 => e \in Transactions(n))
      /\ f \in Found /\ Placed(f) /\ (f.block # 0 => f \in Transactions(n))
  BY CalledIsPlaced
<1>2. CASE e.block = 0 \/ f.block = 0
  BY <1>1, <1>2, L1Id
<1>3. CASE e.block # 0 /\ f.block # 0
  <2>1. ~Precedes(e, f) /\ ~Precedes(f, e)
    BY <1>1, <1>3, CalledForHas
  <2>2. QED
    BY <1>1, <2>1, OrderIsTotal
<1>4. QED
  BY <1>2, <1>3

(* What is called for is stored if the model has a row with its ID.        *)
LEMMA CalledAndStored ==
  ASSUME Standing, StoredStands, NEW n \in 0..Len(avail), NEW e \in CalledFor(n),
         Canonical(Inputs, n), IsStored(e)
  PROVE  e \in ToSet(Inputs)
<1>1. PICK f \in ToSet(Inputs) : Id(f) = Id(e)
  BY InputsAre
<1>2. f \in CalledFor(n)
  BY <1>1 DEF Canonical
<1>3. f = e
  BY <1>1, <1>2, CalledOnce
<1>4. QED
  BY <1>1, <1>3

(* The batch is in order.                                                  *)
LEMMA BatchOrder ==
  ASSUME Standing, NEW b \in DOMAIN avail, First <= b, l1From \in 1..(Len(l1) + 1),
         NEW j \in 1..Len(ToStore(b)), NEW k \in 1..Len(ToStore(b)), j < k
  PROVE  Precedes(ToStore(b)[j], ToStore(b)[k])
<1>1. ChainStands /\ First \in Nat /\ b \in Nat \ {0} /\ l1From \in Nat /\ ReadUpTo(b) = OldL1(b)
  BY BlockTyped DEF Standing, ReadUpTo, OldL1
<1>2. /\ Lead(b) \in Nat /\ ToStore(b) \in Seq(Found)
      /\ Len(ToStore(b)) \in Nat
  BY <1>1, ToStoreHas, LenProperties
<1>3. PICK e \in Found, f \in Found :
        /\ e = ToStore(b)[j] /\ f = ToStore(b)[k]
        /\ e.block \in Nat /\ e.pos \in Nat /\ f.block \in Nat /\ f.pos \in Nat
  <2>1. ToStore(b)[j] \in Found /\ ToStore(b)[k] \in Found
    BY <1>2, ElementOfSeq
  <2>2. \A x \in Found : x.block \in Nat /\ x.pos \in Nat
    BY DEF Found
  <2>3. QED
    BY <2>1, <2>2, Zenon
<1>4. \/ e.block = 0 /\ j <= Lead(b) /\ e.pos = l1From + j - 1 /\ e.pos <= OldL1(b)
      \/ e.block = b /\ j > Lead(b) /\ e.pos = j - Lead(b)
  BY <1>1, <1>3, ToStorePlaced
<1>5. \/ f.block = 0 /\ k <= Lead(b) /\ f.pos = l1From + k - 1 /\ f.pos <= OldL1(b)
      \/ f.block = b /\ k > Lead(b) /\ f.pos = k - Lead(b)
  BY <1>1, <1>3, ToStorePlaced
<1>6. CASE e.block = 0 /\ f.block = 0
  BY <1>1, <1>2, <1>3, <1>4, <1>5, <1>6 DEF Precedes
<1>7. CASE e.block = 0 /\ f.block # 0
  BY <1>1, <1>3, <1>4, <1>5, <1>7 DEF Precedes
<1>8. CASE e.block # 0 /\ f.block = 0
  BY SMTT(30), <1>1, <1>2, <1>3, <1>4, <1>5, <1>8
<1>9. CASE e.block # 0 /\ f.block # 0
  BY <1>1, <1>2, <1>3, <1>4, <1>5, <1>9 DEF Precedes
<1>10. QED
  BY <1>3, <1>6, <1>7, <1>8, <1>9

(* All that a block calls for anew is in its batch.                        *)
LEMMA InBatch ==
  ASSUME Standing, NEW b \in DOMAIN avail, First <= b, l1From \in 1..(Len(l1) + 1),
         l1From = ReadUpTo(b - 1) + 1,
         NEW e \in CalledFor(b), e \notin CalledFor(b - 1)
  PROVE  \E k \in 1..Len(ToStore(b)) : ToStore(b)[k] = e
<1>1. /\ ChainStands /\ First \in Nat /\ b \in Nat \ {0} /\ l1From \in Nat
      /\ ReadUpTo(b) = OldL1(b)
      /\ b \in 1..Len(avail) /\ Len(avail) \in Nat
      /\ Len(avail[b].txs) \in Nat /\ DOMAIN avail[b].txs = 1..Len(avail[b].txs)
  BY BlockTyped, LenProperties DEF Standing, ReadUpTo, OldL1
<1>2. /\ Lead(b) \in Nat /\ Len(ToStore(b)) = Lead(b) + Len(avail[b].txs)
      /\ \A k \in 1..Lead(b) : ToStore(b)[k] = L1Input(l1From + k - 1)
      /\ \A k \in 1..Len(avail[b].txs) : ToStore(b)[Lead(b) + k] = TxAt(b, k)
  BY <1>1, ToStoreHas
<1>3. b \in 0..Len(avail) /\ b - 1 \in 0..Len(avail) /\ b - 1 <= b
  BY <1>1
<1>4. e \in Found /\ Placed(e) /\ (e.block # 0 => e \in Transactions(b))
  BY <1>3, CalledIsPlaced
<1>5. ~(/\ e.block = 0 => e.pos <= ReadUpTo(b - 1)
        /\ e.block # 0 => e.block <= b - 1)
  BY <1>3, CalledForGrows
<1>6. CASE e.block = 0
  <2>1. e.pos \in 1..OldL1(b) /\ e.pos >= l1From
    <3>1. e.pos \in 1..ReadUpTo(b)
      BY <1>3, <1>4, <1>6, CalledForHas
    <3>2. PICK r \in Nat : r = ReadUpTo(b - 1)
      BY <1>3, ReadUpToGrows
    <3>3. ~(e.pos <= r) /\ l1From = r + 1
      BY <1>5, <1>6, <3>2
    <3>4. QED
      BY <1>1, <3>1, <3>3
  <2>2. PICK k \in 1..Lead(b) : k = e.pos - l1From + 1
    <3>1. OldL1(b) \in Nat
      BY <1>1, OldOnesFirst
    <3>2. e.pos - l1From + 1 \in 1..Lead(b)
      BY <1>1, <2>1, <3>1 DEF Lead
    <3>3. QED
      BY <3>2
  <2>3. ToStore(b)[k] = L1Input(e.pos)
    <3>1. l1From + k - 1 = e.pos
      BY SMTT(30), <1>1, <2>1, <2>2
    <3>2. QED
      BY <1>2, <3>1
  <2>4. e = L1Input(e.pos)
    BY <1>4, <1>6 DEF L1Input, Found
  <2>5. QED
    BY SMTT(30), <1>1, <1>2, <2>3, <2>4
<1>7. CASE e.block # 0
  <2>1. e.block = b /\ e.pos \in 1..Len(avail[b].txs)
    <3>1. e.block \in First..b
      BY <1>3, <1>4, <1>7, TransactionsHave
    <3>2. e.block = b
      BY <1>1, <1>5, <1>7, <3>1
    <3>3. QED
      BY <1>1, <1>4, <1>7, <3>2 DEF Placed
  <2>2. PICK k \in 1..Len(avail[b].txs) : k = e.pos
    BY <2>1
  <2>3. e = TxAt(b, k)
    BY <1>4, <2>1, <2>2 DEF TxAt, Found
  <2>4. ToStore(b)[Lead(b) + k] = e
    BY <1>2, <2>3
  <2>5. Lead(b) + k \in 1..Len(ToStore(b))
    BY SMTT(30), <1>1, <1>2
  <2>6. QED
    BY <2>4, <2>5
<1>8. QED
  BY <1>6, <1>7

(* The next input of the batch, if it is ours and new: it is called for,   *)
(* and all that comes before it is stored.                                 *)
LEMMA HeadInTurn ==
  ASSUME OrderInvariant, starts = {First}, NEW b \in DOMAIN avail, b = next,
         batch = ToStore(b), done < Len(batch), NEW e \in Found, e = batch[done + 1],
         IsOurs(e), ~IsStored(e)
  PROVE  /\ e \in CalledFor(Len(avail))
         /\ \A f \in CalledFor(Len(avail)) : Precedes(f, e) => f \in ToSet(Inputs)
<1>1. /\ ChainStands /\ CursorsStand /\ StoredStands /\ BehindCursors
      /\ Canonical(Inputs, Len(avail)) /\ l1From = ReadUpTo(b - 1) + 1
      /\ CalledFor(b - 1) \subseteq ToSet(Inputs)
  BY DEF OrderInvariant, ListenerInvariant
<1>2. Standing /\ First <= b /\ First \in Nat \ {0}
  BY <1>1, WhenStanding
<1>3. PICK n \in Nat :
        /\ n = Len(avail) /\ b \in 1..n /\ b \in 0..n /\ n \in 0..n /\ b - 1 \in 0..n
        /\ b - 1 <= n /\ b - 1 <= b /\ b <= n
  BY <1>1, BlockTyped
<1>4. /\ done \in Nat /\ done + 1 \in 1..Len(batch) /\ Len(batch) \in Nat
      /\ l1From \in 1..(Len(l1) + 1)
  BY <1>1, BatchPlaced DEF CursorsStand
<1>5. ReadUpTo(b) = OldL1(b) /\ ReadUpTo(b) <= ReadUpTo(n) /\ ReadUpTo(b) \in Nat
      /\ ReadUpTo(n) \in Nat
  <2>1. ~(b < First)
    BY <1>2, <1>3
  <2>2. QED
    BY <1>2, <1>3, <2>1, ReadUpToGrows DEF ReadUpTo, OldL1
<1>6. /\ Placed(e)
      /\ e.block = 0 => e.pos <= ReadUpTo(b)
      /\ e.block # 0 => e.block = b
  BY <1>1, <1>4, <1>5, ToStorePlaced
<1>7. ASSUME NEW f \in CalledFor(n), Precedes(f, e)
      PROVE  f \in ToSet(Inputs)
  <2>1. f \in CalledFor(b)
    <3>1. /\ e.block = 0 => e.pos <= ReadUpTo(b)
          /\ e.block # 0 => e.block <= b
      BY <1>3, <1>6
    <3>2. b \in 0..Len(avail) /\ n \in 0..Len(avail)
      BY <1>3
    <3>3. QED
      BY <1>2, <1>3, <1>6, <1>7, <3>1, <3>2, EarlierCalled
  <2>2. CASE f \in CalledFor(b - 1)
    BY <1>1, <2>2
  <2>3. CASE f \notin CalledFor(b - 1)
    <3>1. PICK k \in 1..Len(batch) : batch[k] = f
      BY <1>1, <1>2, <1>4, <2>1, <2>3, InBatch
    <3>2. Placed(f) /\ f \in Found
      <4>1. n \in 0..Len(avail)
        BY <1>3
      <4>2. QED
        BY <1>2, <4>1, CalledIsPlaced
    <3>3. ~Precedes(e, f)
      BY <1>2, <1>6, <1>7, <3>2, OrderIsTotal
    <3>4. ~(done + 1 < k)
      BY <1>2, <1>4, <3>1, <3>3, BatchOrder
    <3>5. k # done + 1
      BY <1>7, <3>1, <3>3
    <3>6. k \in 1..done
      BY <1>4, <3>4, <3>5
    <3>7. IsOurs(f)
      <4>1. f.block # 0 => f \in Transactions(b)
        <5>1. b \in 0..Len(avail)
          BY <1>3
        <5>2. QED
          BY <1>2, <2>1, <5>1, CalledIsPlaced
      <4>2. QED
        BY <4>1 DEF IsOurs, Transactions
    <3>8. IsStored(f)
      BY <1>1, <3>1, <3>6, <3>7 DEF BehindCursors
    <3>9. QED
      <4>1. n \in 0..Len(avail) /\ Canonical(Inputs, n)
        BY <1>1, <1>3
      <4>2. QED
        BY <1>1, <1>2, <3>8, <4>1, CalledAndStored
  <2>4. QED
    BY <2>2, <2>3
<1>8. e \in CalledFor(n)
  <2>1. n \in 0..Len(avail)
    BY <1>3
  <2>2. CASE e.block = 0
    <3>1. e.pos \in Nat /\ e.pos >= 1
      BY <1>6, <2>2 DEF Placed, Found
    <3>2. e.pos \in 1..ReadUpTo(n)
      BY <1>5, <1>6, <2>2, <3>1
    <3>3. QED
      BY <1>2, <2>1, <2>2, <3>2, CalledForHas
  <2>3. CASE e.block # 0
    <3>1. e \in Transactions(n)
      <4>1. e.block \in First..n
        BY <1>2, <1>3, <1>6, <2>3
      <4>2. QED
        BY <1>2, <1>6, <2>1, <2>3, <4>1, TransactionsHave
    <3>2. PICK g \in CalledFor(n) : Id(g) = Id(e) /\ (g = e \/ Precedes(g, e))
      BY <1>2, <2>1, <3>1, FirstOccurrence
    <3>3. CASE Precedes(g, e)
      <4>1. g \in ToSet(Inputs)
        BY <1>7, <3>3
      <4>2. IsStored(e)
        BY <1>1, <3>2, <4>1, InputsAre
      <4>3. QED
        BY <4>2
    <3>4. QED
      BY <3>2, <3>3
  <2>4. QED
    BY <2>2, <2>3
<1>9. QED
  BY <1>3, <1>7, <1>8

(* A beginning that grows by the next one is a beginning.                  *)
LEMMA CanonicalAppend ==
  ASSUME Standing, NEW n \in 0..Len(avail), NEW s \in Seq(Found), Canonical(s, n),
         NEW e \in CalledFor(n), e \notin ToSet(s),
         \A f \in CalledFor(n) : Precedes(f, e) => f \in ToSet(s)
  PROVE  /\ Canonical(Append(s, e), n)
         /\ ToSet(s) \subseteq ToSet(Append(s, e)) /\ e \in ToSet(Append(s, e))
<1>1. e \in Found /\ Placed(e)
  BY CalledIsPlaced
<1>2. PICK m \in Nat, new \in Seq(Found) :
        /\ new = Append(s, e)
        /\ DOMAIN s = 1..m /\ DOMAIN new = 1..(m + 1) /\ new[m + 1] = e
        /\ \A k \in 1..m : new[k] = s[k]
  <2>1. Append(s, e) \in Seq(Found) /\ Len(Append(s, e)) = Len(s) + 1
        /\ Append(s, e)[Len(s) + 1] = e
        /\ \A k \in 1..Len(s) : Append(s, e)[k] = s[k]
    BY <1>1, AppendProperties
  <2>2. Len(s) \in Nat /\ DOMAIN s = 1..Len(s) /\ DOMAIN Append(s, e) = 1..(Len(s) + 1)
    BY <2>1, LenProperties
  <2>3. QED
    BY <2>1, <2>2
<1>3. \A k : k \in 1..(m + 1) <=> k \in 1..m \/ k = m + 1
  BY <1>2
<1>4. ToSet(new) = ToSet(s) \cup {e}
  <2>1. ToSet(s) = {s[k] : k \in 1..m} /\ ToSet(new) = {new[k] : k \in 1..(m + 1)}
    BY <1>2 DEF ToSet
  <2>2. QED
    BY <1>2, <1>3, <2>1
<1>5. /\ ToSet(s) \subseteq CalledFor(n)
      /\ \A j, k \in 1..m : j < k => Precedes(s[j], s[k])
      /\ \A k \in 1..m : \A f \in CalledFor(n) : Precedes(f, s[k]) => f \in ToSet(s)
  BY <1>2 DEF Canonical
<1>6. ASSUME NEW k \in 1..m
      PROVE  Precedes(s[k], e)
  <2>1. s[k] \in ToSet(s) /\ s[k] \in CalledFor(n) /\ s[k] # e
    BY <1>2, <1>5, ToSetHas
  <2>2. Placed(s[k])
    BY <2>1, CalledIsPlaced
  <2>3. ~Precedes(e, s[k])
    BY <1>5
  <2>4. QED
    BY <1>1, <2>1, <2>2, <2>3, OrderIsTotal
<1>7. ASSUME NEW j \in 1..(m + 1), NEW k \in 1..(m + 1), j < k
      PROVE  Precedes(new[j], new[k])
  <2>1. j \in 1..m
    BY <1>7
  <2>2. QED
    BY <1>2, <1>3, <1>5, <1>6, <1>7, <2>1
<1>8. \A k \in 1..(m + 1) : \A f \in CalledFor(n) : Precedes(f, new[k]) => f \in ToSet(new)
  BY <1>2, <1>3, <1>4, <1>5
<1>9. ToSet(new) \subseteq CalledFor(n)
  BY <1>4, <1>5
<1>10. Canonical(new, n)
  BY <1>2, <1>7, <1>8, <1>9 DEF Canonical
<1>11. QED
  BY <1>2, <1>4, <1>10

-----------------------------------------------------------------------------
(* The steps.                                                              *)

(* The chains stay, and with them what they call for.                      *)
LEMMA CallsSame ==
  ASSUME UNCHANGED <<l1, avail, starts>>
  PROVE  /\ First' = First
         /\ \A m : ReadUpTo(m)' = ReadUpTo(m) /\ CalledFor(m)' = CalledFor(m)
         /\ \A s, m : Canonical(s, m)' <=> Canonical(s, m)
<1>1. First' = First
  BY DEF First
<1>2. \A m : ReadUpTo(m)' = ReadUpTo(m)
  BY <1>1 DEF ReadUpTo, OldEnough
<1>3. \A e, f : Precedes(e, f)' <=> Precedes(e, f)
  BY <1>2 DEF Precedes
<1>4. \A e : (IsOurs(e)' <=> IsOurs(e)) /\ Id(e)' = Id(e)
  BY DEF IsOurs, Id
<1>5. \A m : Transactions(m)' = Transactions(m)
  BY <1>1, <1>4 DEF Transactions, TxAt
<1>6. \A m : CalledFor(m)' = CalledFor(m)
  BY <1>1, <1>2, <1>3, <1>4, <1>5 DEF CalledFor, L1Input
<1>7. \A s, m : Canonical(s, m)' <=> Canonical(s, m)
  BY <1>3, <1>6 DEF Canonical
<1>8. QED
  BY <1>1, <1>2, <1>6, <1>7

(* The worker is behind a block of the chain.                              *)
LEMMA CursorOnChain ==
  ASSUME ListenerInvariant
  PROVE  /\ Len(avail) \in Nat /\ next \in Nat \ {0} /\ next - 1 \in 0..Len(avail)
         /\ next <= Len(avail) => next \in 0..Len(avail) /\ next \in DOMAIN avail
<1>1. Len(avail) \in Nat /\ DOMAIN avail = 1..Len(avail) /\ next \in 1..(Len(avail) + 1)
  BY LenProperties DEF ListenerInvariant, ChainStands, CursorsStand
<1>2. QED
  BY <1>1

(* The chains grow, and the worker rests: what is called for anew comes    *)
(* after what is stored.                                                   *)
LEMMA OrderRests ==
  ASSUME OrderInvariant, ListenerInvariant', Grown,
         UNCHANGED <<next, l1From, stored, starts>>
  PROVE  OrderInvariant'
<1>1. /\ ListenerInvariant /\ ChainStands /\ CursorsStand /\ StoredStands /\ ChainStands'
  BY DEF OrderInvariant, ListenerInvariant
<1>2. First' = First /\ Inputs' = Inputs
  BY DEF First, Inputs
<1>3. SUFFICES ASSUME starts = {First}
               PROVE  /\ Canonical(Inputs, Len(avail))'
                      /\ l1From' = ReadUpTo(next - 1)' + 1
                      /\ CalledFor(next - 1)' \subseteq ToSet(Inputs)'
  BY <1>2 DEF OrderInvariant
<1>4. PICK n \in Nat, m \in Nat, r \in Nat :
        /\ n = Len(avail) /\ m = Len(avail') /\ n <= m /\ r = next - 1
        /\ r \in 0..Len(avail) /\ n \in 0..Len(avail)
        /\ n \in 0..Len(avail') /\ m \in 0..Len(avail')
  <2>1. /\ Len(avail) \in Nat /\ Len(avail') \in Nat /\ Len(avail) <= Len(avail')
        /\ next - 1 \in 0..Len(avail)
    BY <1>1, CursorOnChain, LenProperties DEF ChainStands, Grown
  <2>2. QED
    BY <2>1
<1>5. /\ Standing /\ Canonical(Inputs, n) /\ l1From = ReadUpTo(r) + 1
      /\ CalledFor(r) \subseteq ToSet(Inputs)
  BY <1>1, <1>3, <1>4, WhenStanding DEF OrderInvariant
<1>6. /\ Standing' /\ ReadUpTo(r)' = ReadUpTo(r) /\ CalledFor(r)' = CalledFor(r)
      /\ \A e, f : Placed(e) /\ Placed(f) => (Precedes(e, f)' <=> Precedes(e, f))
      /\ CalledFor(n)' = CalledFor(n)
  BY <1>1, <1>4, <1>5, CallsKept
<1>7. CallsGrow'
  BY <1>6, CallsAreOrdered, PTL
<1>8. /\ CalledFor(n)' \subseteq CalledFor(m)'
      /\ \A e \in CalledFor(m)', s \in CalledFor(n)' : Precedes(e, s)' => e \in CalledFor(n)'
  BY <1>4, <1>7 DEF CallsGrow
<1>9. PICK s \in Seq(Found) :
        /\ s = Inputs /\ \A k \in DOMAIN s : Placed(s[k]) /\ s[k] \in ToSet(s)
  <2>1. Inputs \in Seq(Found) /\ \A k \in DOMAIN Inputs : Placed(Inputs[k])
    BY <1>1, InputsAre
  <2>2. QED
    BY <2>1, ToSetHas
<1>10. /\ ToSet(s) \subseteq CalledFor(n)
       /\ \A j, k \in DOMAIN s : j < k => Precedes(s[j], s[k])
       /\ \A k \in DOMAIN s : \A e \in CalledFor(n) : Precedes(e, s[k]) => e \in ToSet(s)
  BY <1>5, <1>9 DEF Canonical
<1>11. \A e \in CalledFor(n) : Placed(e)
  BY <1>4, <1>5, CalledIsPlaced
<1>12. \A k \in DOMAIN s : \A e \in CalledFor(m)' : Precedes(e, s[k])' => e \in ToSet(s)
  <2>1. SUFFICES ASSUME NEW k \in DOMAIN s, NEW e \in CalledFor(m)', Precedes(e, s[k])'
                 PROVE  e \in ToSet(s)
    OBVIOUS
  <2>2. s[k] \in CalledFor(n) /\ Placed(s[k])
    BY <1>9, <1>10
  <2>3. e \in CalledFor(n)
    BY <1>6, <1>8, <2>1, <2>2
  <2>4. Precedes(e, s[k])
    BY <1>6, <1>11, <2>1, <2>2, <2>3
  <2>5. QED
    BY <1>10, <2>3, <2>4
<1>13. \A j, k \in DOMAIN s : j < k => Precedes(s[j], s[k])'
  BY <1>6, <1>9, <1>10
<1>14. ToSet(s) \subseteq CalledFor(m)'
  BY <1>6, <1>8, <1>10
<1>15. Canonical(s, m)'
  BY <1>12, <1>13, <1>14 DEF Canonical
<1>16. Canonical(Inputs, Len(avail))'
  <2>1. Inputs' = s /\ Len(avail') = m
    BY <1>2, <1>4, <1>9
  <2>2. QED
    BY <1>15, <2>1 DEF Canonical
<1>17. ReadUpTo(next - 1)' = ReadUpTo(r)' /\ CalledFor(next - 1)' = CalledFor(r)'
  <2>1. next' - 1 = r
    BY <1>4
  <2>2. QED
    BY <2>1 DEF ReadUpTo
<1>18. QED
  BY <1>2, <1>4, <1>5, <1>6, <1>16, <1>17

(* The chains stay and no start is added: what remains to be shown.        *)
LEMMA OrderFollows ==
  ASSUME OrderInvariant, ListenerInvariant', UNCHANGED <<l1, avail, starts>>,
         starts = {First} =>
           /\ Canonical(Inputs', Len(avail))
           /\ l1From' = ReadUpTo(next' - 1) + 1
           /\ CalledFor(next' - 1) \subseteq ToSet(Inputs')
  PROVE  OrderInvariant'
<1>1. /\ First' = First
      /\ \A m : ReadUpTo(m)' = ReadUpTo(m) /\ CalledFor(m)' = CalledFor(m)
      /\ \A s, m : Canonical(s, m)' <=> Canonical(s, m)
  BY CallsSame
<1>2. SUFFICES ASSUME starts = {First}
               PROVE  /\ Canonical(Inputs, Len(avail))'
                      /\ l1From' = ReadUpTo(next - 1)' + 1
                      /\ CalledFor(next - 1)' \subseteq ToSet(Inputs)'
  BY <1>1 DEF OrderInvariant
<1>3. PICK s, n, r : s = Inputs' /\ n = Len(avail) /\ r = next' - 1
  OBVIOUS
<1>4. Canonical(s, n)' /\ l1From' = ReadUpTo(r)' + 1 /\ CalledFor(r)' \subseteq ToSet(s)
  BY <1>1, <1>2, <1>3
<1>5. Canonical(Inputs, Len(avail))'
  BY <1>3, <1>4 DEF Canonical
<1>6. ReadUpTo(next - 1)' = ReadUpTo(r)' /\ CalledFor(next - 1)' = CalledFor(r)'
  BY <1>3 DEF ReadUpTo
<1>7. QED
  BY <1>3, <1>4, <1>5, <1>6

(* Block b is next and the worker has started before it.                   *)
LEMMA NextBlock ==
  ASSUME OrderInvariant, starts = {First}, NEW b \in DOMAIN avail, b = next
  PROVE  /\ Standing /\ First <= b /\ b \in Nat \ {0}
         /\ b - 1 \in 0..Len(avail) /\ b \in 0..Len(avail) /\ b - 1 <= b
         /\ l1From \in 1..(Len(l1) + 1) /\ l1From \in Nat
         /\ ReadUpTo(b) = OldL1(b) /\ ReadUpTo(b - 1) <= ReadUpTo(b)
         /\ ReadUpTo(b - 1) \in Nat /\ ReadUpTo(b) \in Nat
         /\ l1From = ReadUpTo(b - 1) + 1 /\ CalledFor(b - 1) \subseteq ToSet(Inputs)
         /\ Canonical(Inputs, Len(avail))
<1>1. ListenerInvariant /\ ChainStands /\ CursorsStand
  BY DEF OrderInvariant, ListenerInvariant
<1>2. Standing /\ First <= b /\ First \in Nat \ {0}
  BY <1>1, WhenStanding
<1>3. /\ b \in Nat \ {0} /\ b - 1 \in 0..Len(avail) /\ b \in 0..Len(avail) /\ b - 1 <= b
      /\ l1From \in 1..(Len(l1) + 1) /\ Len(l1) \in Nat
  <2>1. b \in 1..Len(avail) /\ Len(avail) \in Nat
    BY <1>1, BlockTyped
  <2>2. QED
    BY <1>1, <2>1, LenProperties DEF CursorsStand, ChainStands
<1>4. ReadUpTo(b) = OldL1(b)
  BY <1>2, <1>3 DEF ReadUpTo, OldL1
<1>5. /\ ReadUpTo(b - 1) <= ReadUpTo(b) /\ ReadUpTo(b - 1) \in Nat
  BY <1>2, <1>3, ReadUpToGrows
<1>6. ReadUpTo(b) \in Nat
  <2>1. b <= b
    BY <1>3
  <2>2. QED
    BY <1>2, <1>3, <2>1, ReadUpToGrows
<1>7. /\ l1From = ReadUpTo(b - 1) + 1 /\ CalledFor(b - 1) \subseteq ToSet(Inputs)
      /\ Canonical(Inputs, Len(avail))
  BY DEF OrderInvariant
<1>8. QED
  BY <1>2, <1>3, <1>4, <1>5, <1>6, <1>7

(* A block is read; if there is nothing in it, it is through.              *)
LEMMA ReadBlockInTurn ==
  ASSUME OrderInvariant, ListenerInvariant', ReadBlock
  PROVE  OrderInvariant'
<1>1. ListenerInvariant /\ ChainStands /\ CursorsStand
  BY DEF OrderInvariant, ListenerInvariant
<1>2. /\ UNCHANGED <<l1, avail, l1From, stored, starts>>
      /\ next' = IF ToStore(next) = <<>> THEN next + 1 ELSE next
      /\ next <= Len(avail)
  BY DEF ReadBlock, ToStore, chains
<1>3. PICK b \in DOMAIN avail : b = next
  BY <1>1, <1>2, CursorOnChain
<1>4. Inputs' = Inputs
  BY <1>2 DEF Inputs
<1>5. SUFFICES ASSUME starts = {First}
               PROVE  /\ Canonical(Inputs', Len(avail))
                      /\ l1From' = ReadUpTo(next' - 1) + 1
                      /\ CalledFor(next' - 1) \subseteq ToSet(Inputs')
  BY <1>2, OrderFollows
<1>6. /\ Standing /\ First <= b /\ b \in Nat \ {0}
      /\ b - 1 \in 0..Len(avail) /\ b \in 0..Len(avail) /\ b - 1 <= b
      /\ l1From \in 1..(Len(l1) + 1) /\ l1From \in Nat
      /\ ReadUpTo(b) = OldL1(b) /\ ReadUpTo(b - 1) <= ReadUpTo(b)
      /\ ReadUpTo(b - 1) \in Nat /\ ReadUpTo(b) \in Nat
      /\ l1From = ReadUpTo(b - 1) + 1 /\ CalledFor(b - 1) \subseteq ToSet(Inputs)
      /\ Canonical(Inputs, Len(avail))
  BY <1>3, <1>5, NextBlock
<1>7. CASE next' = b
  BY <1>2, <1>4, <1>6, <1>7
<1>8. CASE ToStore(b) = <<>> /\ next' = b + 1
  <2>1. Lead(b) = 0 /\ Len(avail[b].txs) = 0
    <3>1. Len(ToStore(b)) = 0
      BY <1>8
    <3>2. Lead(b) \in Nat /\ Len(avail[b].txs) \in Nat
          /\ Len(ToStore(b)) = Lead(b) + Len(avail[b].txs)
      BY <1>1, <1>6, ToStoreHas
    <3>3. QED
      BY <3>1, <3>2
  <2>2. ReadUpTo(b) = ReadUpTo(b - 1)
    <3>1. OldL1(b) < l1From
      BY <1>1, <1>6, <2>1, ToStoreHas
    <3>2. QED
      BY <1>6, <3>1
  <2>3. ASSUME NEW e \in CalledFor(b)
        PROVE  e \in ToSet(Inputs)
    <3>1. \A k \in 1..Len(ToStore(b)) : FALSE
      BY <1>8
    <3>2. e \in CalledFor(b - 1)
      BY <1>6, <3>1, InBatch
    <3>3. QED
      BY <1>6, <3>2
  <2>4. next' - 1 = b
    BY <1>6, <1>8
  <2>5. QED
    BY <1>2, <1>4, <1>6, <2>2, <2>3, <2>4
<1>9. QED
  BY <1>2, <1>3, <1>7, <1>8

(* A block is through: all that it calls for is stored.                    *)
LEMMA BlockDoneInTurn ==
  ASSUME OrderInvariant, ListenerInvariant', BlockDone
  PROVE  OrderInvariant'
<1>1. ListenerInvariant /\ ChainStands /\ CursorsStand /\ StoredStands /\ BehindCursors
  BY DEF OrderInvariant, ListenerInvariant
<1>2. /\ UNCHANGED <<l1, avail, stored, starts>>
      /\ batch # <<>> /\ done = Len(batch) /\ next' = next + 1
  BY DEF BlockDone, chains
<1>3. PICK b \in DOMAIN avail : b = next /\ batch = ToStore(b) /\ l1From' = l1From + Lead(b)
  BY <1>1, <1>2, BlockDoneKeeps DEF CursorsStand
<1>4. Inputs' = Inputs
  BY <1>2 DEF Inputs
<1>5. SUFFICES ASSUME starts = {First}
               PROVE  /\ Canonical(Inputs', Len(avail))
                      /\ l1From' = ReadUpTo(next' - 1) + 1
                      /\ CalledFor(next' - 1) \subseteq ToSet(Inputs')
  BY <1>2, OrderFollows
<1>6. /\ Standing /\ First <= b /\ b \in Nat \ {0}
      /\ b - 1 \in 0..Len(avail) /\ b \in 0..Len(avail) /\ b - 1 <= b
      /\ l1From \in 1..(Len(l1) + 1) /\ l1From \in Nat
      /\ ReadUpTo(b) = OldL1(b) /\ ReadUpTo(b - 1) <= ReadUpTo(b)
      /\ ReadUpTo(b - 1) \in Nat /\ ReadUpTo(b) \in Nat
      /\ l1From = ReadUpTo(b - 1) + 1 /\ CalledFor(b - 1) \subseteq ToSet(Inputs)
      /\ Canonical(Inputs, Len(avail))
  BY <1>3, <1>5, NextBlock
<1>7. next' - 1 = b
  BY <1>2, <1>3, <1>6
<1>8. l1From' = ReadUpTo(b) + 1
  <2>1. /\ Lead(b) \in Nat
        /\ Lead(b) > 0 => l1From + Lead(b) - 1 = OldL1(b)
        /\ Lead(b) = 0 => OldL1(b) < l1From
    BY <1>1, <1>6, ToStoreHas
  <2>2. QED
    BY SMTT(30), <1>3, <1>6, <2>1
<1>9. ASSUME NEW e \in CalledFor(b)
      PROVE  e \in ToSet(Inputs)
  <2>1. CASE e \in CalledFor(b - 1)
    BY <1>6, <2>1
  <2>2. CASE e \notin CalledFor(b - 1)
    <3>1. PICK k \in 1..Len(batch) : batch[k] = e
      BY <1>3, <1>6, <2>2, InBatch
    <3>2. IsOurs(e)
      <4>1. e.block # 0 => e \in Transactions(b)
        BY <1>6, CalledIsPlaced
      <4>2. QED
        BY <4>1 DEF IsOurs, Transactions
    <3>3. IsStored(e)
      BY <1>1, <1>2, <3>1, <3>2 DEF BehindCursors
    <3>4. PICK n \in Nat : n = Len(avail) /\ n \in 0..Len(avail) /\ b <= n
      BY <1>1, CursorOnChain, <1>6
    <3>5. e \in CalledFor(n)
      BY <1>6, <3>4, CalledForGrows
    <3>6. Canonical(Inputs, n)
      BY <1>6, <3>4
    <3>7. QED
      BY <1>1, <1>6, <3>3, <3>4, <3>5, <3>6, CalledAndStored
  <2>3. QED
    BY <2>1, <2>2
<1>10. QED
  BY <1>2, <1>4, <1>6, <1>7, <1>8, <1>9

(* One iteration.                                                          *)
LEMMA CreateInputInTurn ==
  ASSUME OrderInvariant, ListenerInvariant', CreateInput
  PROVE  OrderInvariant'
<1>1. ListenerInvariant /\ ChainStands /\ CursorsStand /\ StoredStands
  BY DEF OrderInvariant, ListenerInvariant
<1>2. PICK e \in Found, b \in DOMAIN avail :
        e = batch[done + 1] /\ Placed(e) /\ b = next /\ batch = ToStore(b)
  <2>1. /\ done + 1 \in 1..Len(batch) /\ batch # <<>>
    BY <1>1, BatchPlaced DEF CreateInput, CursorsStand
  <2>2. batch[done + 1] \in Found /\ Placed(batch[done + 1])
    BY <1>1, <2>1, BatchPlaced
  <2>3. next \in DOMAIN avail /\ batch = ToStore(next)
    BY <1>1, <2>1 DEF CursorsStand
  <2>4. QED
    BY <2>2, <2>3
<1>3. /\ UNCHANGED <<l1, avail, next, l1From, starts>>
      /\ done < Len(batch)
      /\ stored' = IF IsOurs(e) /\ ~IsStored(e)
                   THEN Append(stored, [input |-> e, index |-> count + done])
                   ELSE stored
  BY <1>2 DEF CreateInput, chains
<1>4. SUFFICES ASSUME starts = {First}
               PROVE  /\ Canonical(Inputs', Len(avail))
                      /\ l1From' = ReadUpTo(next' - 1) + 1
                      /\ CalledFor(next' - 1) \subseteq ToSet(Inputs')
  BY <1>3, OrderFollows
<1>5. /\ Standing /\ l1From = ReadUpTo(b - 1) + 1 /\ CalledFor(b - 1) \subseteq ToSet(Inputs)
      /\ Canonical(Inputs, Len(avail))
  BY <1>2, <1>4, NextBlock
<1>6. CASE ~(IsOurs(e) /\ ~IsStored(e))
  <2>1. Inputs' = Inputs
    BY <1>3, <1>6 DEF Inputs
  <2>2. QED
    BY <1>2, <1>3, <1>5, <2>1
<1>7. CASE IsOurs(e) /\ ~IsStored(e)
  <2>1. Inputs' = Append(Inputs, e) /\ Inputs \in Seq(Found)
    <3>1. PICK i \in Nat : stored' = Append(stored, [input |-> e, index |-> i])
      <4>1. count + done \in Nat
        BY <1>1, BatchPlaced DEF CursorsStand
      <4>2. QED
        BY <1>3, <1>7, <4>1
    <3>2. QED
      BY <1>1, <1>2, <1>3, <3>1, InputsAppend, InputsAre
  <2>2. e \notin ToSet(Inputs)
    BY <1>1, <1>7, InputsAre
  <2>3. PICK n \in Nat : n = Len(avail) /\ n \in 0..Len(avail)
    BY <1>1, CursorOnChain
  <2>4. /\ e \in CalledFor(n)
        /\ \A f \in CalledFor(n) : Precedes(f, e) => f \in ToSet(Inputs)
    BY <1>2, <1>3, <1>4, <1>7, <2>3, HeadInTurn
  <2>5. Canonical(Inputs, n)
    BY <1>5, <2>3
  <2>6. Canonical(Append(Inputs, e), n) /\ ToSet(Inputs) \subseteq ToSet(Append(Inputs, e))
    BY <1>5, <2>1, <2>2, <2>3, <2>4, <2>5, CanonicalAppend
  <2>7. QED
    BY <1>2, <1>3, <1>5, <2>1, <2>3, <2>6
<1>8. QED
  BY <1>6, <1>7

(* The one start is the first.                                             *)
LEMMA OneStart ==
  ASSUME NEW s \in Nat, starts = {s}
  PROVE  First = s
  BY DEF First

(* Nothing is called for before the first block.                           *)
LEMMA NothingBefore ==
  ASSUME First \in Nat
  PROVE  ReadUpTo(First - 1) = 0 /\ CalledFor(First - 1) = {}
<1>1. First - 1 < First /\ \A c \in First..(First - 1) : FALSE
  OBVIOUS
<1>2. ReadUpTo(First - 1) = 0
  BY <1>1 DEF ReadUpTo
<1>3. \A h \in 1..ReadUpTo(First - 1) : FALSE
  BY <1>2
<1>4. Transactions(First - 1) = {}
  BY <1>1 DEF Transactions
<1>5. QED
  BY <1>2, <1>3, <1>4 DEF CalledFor

(* nonodo starts again where it has first started: everything is read      *)
(* again.                                                                  *)
LEMMA RestartInTurn ==
  ASSUME OrderInvariant, ListenerInvariant', Restart
  PROVE  OrderInvariant'
<1>1. ListenerInvariant /\ ChainStands /\ CursorsStand
  BY DEF OrderInvariant, ListenerInvariant
<1>2. PICK b \in DOMAIN avail : b = StartBlock(avail) /\ b \in Nat
  BY <1>1, StartFacts, BlockTyped
<1>3. /\ UNCHANGED <<l1, avail, stored>>
      /\ next' = b /\ starts' = starts \cup {b} /\ l1From' = 1
  BY <1>2 DEF Restart, chains
<1>4. CASE starts' = {First'}
  <2>1. starts = {b} /\ starts' = starts
    BY <1>1, <1>3, <1>4 DEF CursorsStand
  <2>2. First = b
    BY <1>2, <2>1, OneStart
  <2>3. ReadUpTo(b - 1) = 0 /\ CalledFor(b - 1) = {}
    BY <1>2, <2>2, NothingBefore
  <2>4. Canonical(Inputs, Len(avail)) /\ Inputs' = Inputs
    BY <1>3, <2>1, <2>2 DEF OrderInvariant, Inputs
  <2>5. QED
    BY <1>3, <2>1, <2>3, <2>4, OrderFollows
<1>5. CASE starts' # {First'}
  BY <1>5 DEF OrderInvariant
<1>6. QED
  BY <1>4, <1>5

LEMMA CallFailsInTurn ==
  ASSUME OrderInvariant, ListenerInvariant', CallFails
  PROVE  OrderInvariant'
<1>1. UNCHANGED <<l1, avail, next, l1From, stored, starts>>
  BY DEF CallFails, chains
<1>2. Inputs' = Inputs
  BY <1>1 DEF Inputs
<1>3. QED
  BY <1>1, <1>2, OrderFollows DEF OrderInvariant

-----------------------------------------------------------------------------
(* The invariant of the order.                                             *)

LEMMA InitOrder ==
  ASSUME Init
  PROVE  OrderInvariant
<1>1. ListenerInvariant /\ ChainStands
  BY InitListener DEF ListenerInvariant
<1>2. PICK b \in DOMAIN avail : b = StartBlock(avail) /\ b \in Nat
  BY <1>1, StartFacts, BlockTyped
<1>3. next = b /\ starts = {b} /\ l1From = 1 /\ stored = <<>>
  BY <1>2 DEF Init
<1>4. First = b
  BY <1>2, <1>3, OneStart
<1>5. ReadUpTo(b - 1) = 0 /\ CalledFor(b - 1) = {}
  BY <1>2, <1>4, NothingBefore
<1>6. Canonical(Inputs, Len(avail))
  <2>1. DOMAIN Inputs = {}
    BY <1>3 DEF Inputs
  <2>2. ToSet(Inputs) = {}
    BY <2>1 DEF ToSet
  <2>3. QED
    BY <2>1, <2>2 DEF Canonical
<1>7. QED
  BY <1>1, <1>3, <1>5, <1>6 DEF OrderInvariant

LEMMA NextOrder ==
  ASSUME OrderInvariant, [Next]_vars
  PROVE  OrderInvariant'
<1>1. ListenerInvariant /\ ChainStands /\ ListenerInvariant'
  BY NextListener DEF OrderInvariant, ListenerInvariant
<1>2. CASE Tick \/ MineL1 \/ MineAvail
  <2>1. UNCHANGED <<next, l1From, stored, starts>>
    BY <1>2 DEF Tick, MineL1, MineAvail
  <2>2. Grown
    BY <1>1, <1>2, ChainGrows
  <2>3. QED
    BY <1>1, <2>1, <2>2, OrderRests
<1>3. CASE UNCHANGED vars
  <2>1. UNCHANGED <<chains, next, l1From, stored, starts>>
    BY <1>3 DEF vars
  <2>2. Grown
    BY <1>1, <2>1, ChainKept
  <2>3. QED
    BY <1>1, <2>1, <2>2, OrderRests
<1>4. CASE Worker
  BY <1>1, <1>4, ReadBlockInTurn, CreateInputInTurn, BlockDoneInTurn DEF Worker
<1>5. CASE CallFails \/ Restart
  BY <1>1, <1>5, CallFailsInTurn, RestartInTurn
<1>6. QED
  BY <1>2, <1>3, <1>4, <1>5 DEF Next

LEMMA OrderStands == Spec => []OrderInvariant
<1>1. Init => OrderInvariant
  BY InitOrder
<1>2. OrderInvariant /\ [Next]_vars => OrderInvariant'
  BY NextOrder
<1>3. QED
  BY <1>1, <1>2, PTL DEF Spec

(* Whenever calls fail, nonodo starts again or an L1 block is seen late,   *)
(* the inputs are a beginning of what the two chains call for, in the      *)
(* order of their timestamps, and those of the L1 are without a hole       *)
(* (TableTennis, avail_listener.go).                                       *)
THEOREM OrderOfTimestamps == Spec => []OrderIsCanonical
<1>1. OrderInvariant => OrderIsCanonical
  BY DEF OrderInvariant, ListenerInvariant, OrderIsCanonical, Canonical, L1InOrder
<1>2. QED
  BY <1>1, OrderStands, PTL
=============================================================================

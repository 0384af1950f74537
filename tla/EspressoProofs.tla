--------------------------- MODULE EspressoProofs ---------------------------
(***************************************************************************)
(* For any chain, any options and any number of faults, the inputs of the  *)
(* L1 are stored in order and without a hole, and those of a sender in the *)
(* order of their nonces; and if each start is from the same block, no     *)
(* fetch fails and the senders count from 0, all inputs are stored in the  *)
(* order of the chains.  Of a sender that counts from 1 nothing is stored. *)
(*                                                                         *)
(* The nonces follow from the guard of AddTx, as the chain only grows.     *)
(* The L1 is read again from an earlier block after a restart, or from a   *)
(* later one: what makes the order right is that from the next input to    *)
(* add, and from where the next reading begins, there is no hole in what   *)
(* is stored (L1Ahead) -- so an input is either there already or above all *)
(* that are.  If each start reads from the same block, nothing below the   *)
(* next one is missing either (L1Whole).                                   *)
(*                                                                         *)
(* The order of the chains (OrderInvariant) rests on what is behind the    *)
(* listener: what the blocks that are fetched call for is stored, or to be *)
(* added in its order (Behind, TodoInTurn).  So all that comes before the  *)
(* next input is stored, and this one is added exactly if it is called     *)
(* for and not there yet (AddedInTurn): a nonce that the model does not    *)
(* have yet is the next one, as the one below it came before.              *)
(***************************************************************************)
EXTENDS EspressoListener, SequenceTheorems, FiniteSetTheorems, WellFoundedInduction, TLAPS

(* The chain: an L1 that only grows, from where the listener may start on. *)
Block == [l1: Nat, txs: Seq(Tx)]

ChainStands ==
  /\ blocks \in Seq(Block)
  /\ Len(blocks) >= FirstHeight
  /\ fromBlock \in FromBlocks /\ fromBlockL1 \in FromBlocksL1
  /\ \A b \in DOMAIN blocks : fromBlockL1 <= blocks[b].l1
  /\ \A b, c \in DOMAIN blocks : b <= c => blocks[b].l1 <= blocks[c].l1

(* Found on the chain.                                                     *)
Placed(e) ==
  /\ e \in Found
  /\ e.block # 0 => e.block \in DOMAIN blocks /\ e.pos \in DOMAIN blocks[e.block].txs

(* Where the listener stands on the chain, and where it has started.       *)
CursorsStand ==
  /\ {up, fetched} \subseteq BOOLEAN
  /\ starts # {} /\ starts \subseteq DOMAIN blocks
  /\ fromBlock # 0 => starts = {fromBlock}
  /\ latest \in DOMAIN blocks
  /\ current \in 1..latest
  /\ \E s \in starts : s <= current
  /\ fetched => current < latest
  /\ ~fetched => todo = <<>>
  /\ l1Prev \in Nat
  /\ \E b \in DOMAIN blocks : l1Prev <= blocks[b].l1
  /\ skipped \subseteq DOMAIN blocks
  /\ faults \in Nat

(* The inputs of the L1 that are stored, and those that are to be added.   *)
L1Of(s) == {s[k].pos : k \in {k \in DOMAIN s : s[k].block = 0}}

(* From n on there is no hole in what is held.                             *)
Dense(held, n) == \A p \in held : \A q \in n..p : q \in held

(* What is added comes from the chain, the L1 first, block by block, up to *)
(* the one after which the next reading begins.                            *)
TodoStands ==
  /\ todo \in Seq(Found)
  /\ \A k \in DOMAIN todo : Placed(todo[k])
  /\ \A k \in DOMAIN todo : todo[k].block = 0 =>
       /\ todo[k].pos <= l1Prev
       /\ \A j \in 1..k : todo[j].block = 0 /\ todo[j].pos = todo[k].pos - (k - j)

(* What is stored is on the chain and, of the L1, in order.                *)
StoredStands ==
  /\ stored \in Seq(Found)
  /\ \A k \in DOMAIN stored : Placed(stored[k])
  /\ \A h \in L1Of(stored) : \E b \in DOMAIN blocks : h <= blocks[b].l1
  /\ \A j, k \in DOMAIN stored :
       stored[j].block = 0 /\ stored[k].block = 0 /\ j < k => stored[j].pos < stored[k].pos

(* No L1 input can come too late: from the next one to add, and from the   *)
(* next reading on, there is no hole.                                      *)
L1Ahead ==
  /\ Dense(L1Of(stored), l1Prev)
  /\ todo # <<>> /\ Head(todo).block = 0 => Dense(L1Of(stored), Head(todo).pos)

(* If each start reads the L1 from the same block, what is stored begins   *)
(* there, and so does what is stored before the next one to add.           *)
SameStart == starts = {First} \/ fromBlockL1 # 0

L1Whole ==
  SameStart =>
    /\ \A h \in L1Of(stored) : h >= FirstRead
    /\ Dense(L1Of(stored), FirstRead)
    /\ FirstRead <= l1Prev
    /\ \A h \in FirstRead..(l1Prev - 1) : h \in L1Of(stored) \cup L1Of(todo)
    /\ todo # <<>> /\ Head(todo).block = 0 =>
         /\ FirstRead <= Head(todo).pos
         /\ \A h \in FirstRead..(Head(todo).pos - 1) : h \in L1Of(stored)

ListenerInvariant ==
  /\ ChainStands
  /\ CursorsStand
  /\ TodoStands
  /\ StoredStands
  /\ L1Ahead
  /\ L1Whole
  /\ NoncesInOrder

-----------------------------------------------------------------------------
(* The chain.                                                              *)

(* Blocks are added at the end.                                            *)
Grown ==
  \A b \in DOMAIN blocks : b \in DOMAIN blocks' /\ blocks'[b] = blocks[b]

(* What was found stays where it is.                                       *)
LEMMA PlacedGrown ==
  ASSUME Grown, NEW e, Placed(e)
  PROVE  Placed(e)' /\ (e.block # 0 => TxOf(e)' = TxOf(e))
  BY DEF Grown, Placed, TxOf

(* A transaction on the chain is one.                                      *)
LEMMA PlacedTx ==
  ASSUME ChainStands, NEW e, Placed(e), e.block # 0
  PROVE  /\ TxOf(e).sender \in Senders
         /\ TxOf(e).nonce \in Nat
<1>1. blocks[e.block] \in Block
  BY ElementOfSeq, LenProperties DEF ChainStands, Placed
<1>2. blocks[e.block].txs \in Seq(Tx)
  BY <1>1 DEF Block
<1>3. TxOf(e) \in Tx
  BY <1>2, ElementOfSeq, LenProperties DEF TxOf, Placed
<1>4. QED
  BY <1>3 DEF Tx, Ours

(* The block of a height: its L1 height and its transactions.              *)
LEMMA BlockTyped ==
  ASSUME ChainStands, NEW b \in DOMAIN blocks
  PROVE  /\ blocks[b].l1 \in Nat
         /\ blocks[b].txs \in Seq(Tx)
         /\ b \in Nat \ {0} /\ b \in 1..Len(blocks) /\ Len(blocks) \in Nat
<1>1. blocks[b] \in Block /\ b \in 1..Len(blocks) /\ Len(blocks) \in Nat
  BY ElementOfSeq, LenProperties DEF ChainStands
<1>2. QED
  BY <1>1 DEF Block

-----------------------------------------------------------------------------
(* Facts about the inputs of the L1 in a sequence.                         *)

(* What an append adds to them.                                            *)
LEMMA L1OfAppend ==
  ASSUME NEW s \in Seq(Found), NEW e \in Found
  PROVE  L1Of(Append(s, e)) = L1Of(s) \cup (IF e.block = 0 THEN {e.pos} ELSE {})
<1>1. /\ Len(s) \in Nat /\ DOMAIN s = 1..Len(s)
      /\ DOMAIN Append(s, e) = 1..(Len(s) + 1)
      /\ Append(s, e)[Len(s) + 1] = e
      /\ \A k \in 1..Len(s) : Append(s, e)[k] = s[k]
  BY AppendProperties, LenProperties
<1>2. /\ Len(s) + 1 \notin 1..Len(s) /\ 1..Len(s) \subseteq 1..(Len(s) + 1)
      /\ \A k \in 1..(Len(s) + 1) : k \in 1..Len(s) \/ k = Len(s) + 1
  BY <1>1
<1> DEFINE new == IF e.block = 0 THEN {e.pos} ELSE {}
<1>3. L1Of(s) \subseteq L1Of(Append(s, e))
  BY <1>1, <1>2 DEF L1Of
<1>4. new \subseteq L1Of(Append(s, e))
  BY <1>1, <1>2 DEF L1Of
<1>5. L1Of(Append(s, e)) \subseteq L1Of(s) \cup new
  BY <1>1, <1>2 DEF L1Of
<1>6. QED
  BY <1>3, <1>4, <1>5

(* What a sequence has more of them than its tail.                         *)
LEMMA L1OfTail ==
  ASSUME NEW s \in Seq(Found), s # <<>>
  PROVE  L1Of(s) = L1Of(Tail(s)) \cup (IF Head(s).block = 0 THEN {Head(s).pos} ELSE {})
<1>1. /\ Len(s) \in Nat \ {0} /\ DOMAIN s = 1..Len(s)
      /\ DOMAIN Tail(s) = 1..(Len(s) - 1)
      /\ Head(s) = s[1]
      /\ \A k \in 1..(Len(s) - 1) : Tail(s)[k] = s[k + 1]
  BY HeadTailProperties, LenProperties, EmptySeq
<1> DEFINE old == IF Head(s).block = 0 THEN {Head(s).pos} ELSE {}
<1>2. ASSUME NEW k \in 1..Len(s)
      PROVE  k = 1 \/ (k - 1 \in 1..(Len(s) - 1) /\ Tail(s)[k - 1] = s[k])
  BY <1>1
<1>3. ASSUME NEW k \in 1..(Len(s) - 1)
      PROVE  k + 1 \in 1..Len(s)
  BY <1>1
<1>4. L1Of(s) \subseteq L1Of(Tail(s)) \cup old
  <2>1. SUFFICES ASSUME NEW k \in 1..Len(s), s[k].block = 0
                 PROVE  s[k].pos \in L1Of(Tail(s)) \cup old
    BY <1>1 DEF L1Of
  <2>2. CASE k = 1
    BY <1>1, <2>1, <2>2
  <2>3. CASE k # 1
    BY <1>1, <1>2, <2>1, <2>3 DEF L1Of
  <2>4. QED
    BY <2>2, <2>3
<1>5. L1Of(Tail(s)) \subseteq L1Of(s)
  BY <1>1, <1>3 DEF L1Of
<1>6. old \subseteq L1Of(s)
  BY <1>1 DEF L1Of
<1>7. QED
  BY <1>4, <1>5, <1>6

(* They are heights.                                                       *)
LEMMA L1OfType ==
  ASSUME NEW s \in Seq(Found)
  PROVE  L1Of(s) \subseteq Nat /\ L1Of(<<>>) = {}
<1>1. \A k \in DOMAIN s : s[k] \in Found
  BY ElementOfSeq, LenProperties
<1>2. QED
  BY <1>1 DEF L1Of, Found

(* There is no hole further on, and none if the next one is added.         *)
LEMMA DenseFacts ==
  ASSUME NEW held \in SUBSET Nat, NEW n \in Nat, NEW m \in Nat, Dense(held, n)
  PROVE  /\ n <= m => Dense(held, m)
         /\ n <= m => Dense(held \cup {n}, m)
         /\ Dense(held \cup {n}, n)
         /\ m <= n => Dense(held \cup {m}, n)
  BY DEF Dense

LEMMA DenseNext ==
  ASSUME NEW held \in SUBSET Nat, NEW n \in Nat, NEW q \in Nat, Dense(held, n),
         \A h \in n..(q - 1) : h \in held
  PROVE  Dense(held \cup {q}, n)
  BY DEF Dense

-----------------------------------------------------------------------------
(* What a step leaves alone.                                               *)

(* The chain grows under a listener that rests.                            *)
LEMMA ListenerRests ==
  ASSUME ChainStands, ChainStands', Grown, Len(blocks) <= Len(blocks'),
         TodoStands, StoredStands, L1Ahead, L1Whole, NoncesInOrder,
         starts # {}, starts \subseteq DOMAIN blocks,
         UNCHANGED <<options, starts, l1Prev, todo, stored>>
  PROVE  TodoStands' /\ StoredStands' /\ L1Ahead' /\ L1Whole' /\ NoncesInOrder'
<1>1. UNCHANGED <<fromBlock, fromBlockL1>>
  BY DEF options
<1>2. TodoStands'
  BY PlacedGrown DEF TodoStands
<1>3. L1Of(stored)' = L1Of(stored) /\ L1Of(todo)' = L1Of(todo)
  BY DEF L1Of
<1>4. StoredStands'
  <2>1. \A h \in L1Of(stored) : \E b \in DOMAIN blocks' : h <= blocks'[b].l1
    BY DEF StoredStands, Grown
  <2>2. QED
    BY <1>3, <2>1, PlacedGrown DEF StoredStands
<1>5. L1Ahead'
  BY <1>3 DEF L1Ahead, Dense
<1>6. First' = First
  BY DEF First
<1>7. SameStart' = SameStart /\ (SameStart => FirstRead' = FirstRead)
  <2>1. SameStart' = SameStart
    BY <1>1, <1>6 DEF SameStart
  <2>2. ASSUME SameStart, fromBlockL1 = 0
        PROVE  blocks'[First] = blocks[First]
    BY <2>2 DEF SameStart, Grown
  <2>3. QED
    BY <1>1, <1>6, <2>1, <2>2 DEF FirstRead
<1>8. L1Whole'
  BY <1>3, <1>7 DEF L1Whole, Dense
<1>9. NoncesInOrder'
  <2>1. \A k \in DOMAIN stored : Placed(stored[k])
    BY DEF StoredStands
  <2>2. \A k \in DOMAIN stored : stored[k].block # 0 =>
          TxOf(stored[k])' = TxOf(stored[k])
    BY <2>1, PlacedGrown
  <2>3. DOMAIN stored = 1..Len(stored) /\ Len(stored) \in Nat
    BY LenProperties DEF StoredStands
  <2>4. ASSUME NEW k \in DOMAIN stored, stored[k].block # 0
        PROVE  {j \in 1..(k - 1) :
                  stored[j].block # 0 /\ TxOf(stored[j])'.sender = TxOf(stored[k])'.sender}
                = {j \in 1..(k - 1) :
                     stored[j].block # 0 /\ TxOf(stored[j]).sender = TxOf(stored[k]).sender}
    BY <2>2, <2>3, <2>4
  <2>5. QED
    BY <2>2, <2>4 DEF NoncesInOrder
<1>10. QED
  BY <1>2, <1>4, <1>5, <1>8, <1>9

(* A chain that stays as it is has grown by nothing.                       *)
LEMMA ChainKept ==
  ASSUME ChainStands, UNCHANGED <<options, blocks>>
  PROVE  ChainStands' /\ Grown /\ Len(blocks) <= Len(blocks')
<1>1. UNCHANGED <<fromBlock, fromBlockL1>>
  BY DEF options
<1>2. Len(blocks) \in Nat
  BY LenProperties DEF ChainStands
<1>3. QED
  BY <1>1, <1>2 DEF ChainStands, Grown

-----------------------------------------------------------------------------
(* The chain and the polls.                                                *)

(* A block is mined on Espresso, and it may be that the L1 has grown.      *)
LEMMA ChainGrows ==
  ASSUME ChainStands, MineBlock
  PROVE  ChainStands' /\ Grown /\ Len(blocks) <= Len(blocks')
<1>1. PICK txs \in Batches, advance \in 0..1 :
        blocks' = Append(blocks, [l1 |-> Last(blocks).l1 + advance, txs |-> txs])
  <2>1. <<>> \in Batches /\ 0 \in 0..1
    BY DEF Batches
  <2>2. CASE Len(blocks) = MaxBlocks - 1
    BY <2>1, <2>2 DEF MineBlock
  <2>3. CASE Len(blocks) # MaxBlocks - 1
    BY <2>3 DEF MineBlock
  <2>4. QED
    BY <2>2, <2>3
<1> DEFINE n == Len(blocks)
           new == [l1 |-> Last(blocks).l1 + advance, txs |-> txs]
<1>2. n \in Nat \ {0} /\ DOMAIN blocks = 1..n /\ n \in DOMAIN blocks /\ Last(blocks) = blocks[n]
  BY LenProperties, EspressoAssumption DEF ChainStands, Last
<1>3. txs \in Seq(Tx)
  <2>1. Ours \subseteq Tx
    BY DEF Tx
  <2>2. <<>> \in Seq(Tx) /\ (\A t \in Tx : <<t>> \in Seq(Tx))
        /\ (\A t, u \in Tx : <<t, u>> \in Seq(Tx))
    BY EmptySeq
  <2>3. CASE txs \in {<<>>} \cup {<<t>> : t \in Tx}
    BY <2>2, <2>3
  <2>4. CASE txs \in Ours \X Ours
    <3>1. PICK t \in Ours, u \in Ours : txs = <<t, u>>
      BY <2>4
    <3>2. QED
      BY <2>1, <2>2, <3>1
  <2>5. QED
    BY <1>1, <2>3, <2>4 DEF Batches
<1>4. new \in Block /\ new.l1 \in Nat /\ blocks[n].l1 <= new.l1
  BY <1>1, <1>2, <1>3, BlockTyped DEF Block
<1>5. blocks \in Seq(Block) /\ blocks' = Append(blocks, new)
  BY <1>1 DEF ChainStands
<1> HIDE DEF new
<1>6. /\ blocks' \in Seq(Block) /\ Len(blocks') = n + 1
      /\ DOMAIN blocks' = 1..(n + 1)
      /\ blocks'[n + 1] = new
      /\ \A b \in 1..n : blocks'[b] = blocks[b]
  BY <1>4, <1>5, AppendProperties, LenProperties
<1> HIDE DEF n
<1>7. /\ 1..n \subseteq 1..(n + 1) /\ n + 1 \notin 1..n
      /\ \A b \in 1..(n + 1) : b \in 1..n \/ b = n + 1
  BY <1>2
<1>8. Grown
  BY <1>2, <1>6, <1>7 DEF Grown
<1>9. UNCHANGED <<fromBlock, fromBlockL1>>
  BY DEF MineBlock, options
<1>10. ChainStands'
  <2>1. \A b \in 1..n : blocks[b].l1 \in Nat /\ blocks[b].l1 <= new.l1
    BY <1>2, <1>4, BlockTyped DEF ChainStands
  <2>2. fromBlockL1 \in Nat
    BY EspressoAssumption DEF ChainStands
  <2>3. \A b \in 1..(n + 1) : fromBlockL1 <= blocks'[b].l1
    BY <1>2, <1>4, <1>6, <1>7, <2>1, <2>2 DEF ChainStands
  <2>4. ASSUME NEW b \in 1..(n + 1), NEW c \in 1..(n + 1), b <= c
        PROVE  blocks'[b].l1 <= blocks'[c].l1
    <3>1. CASE c \in 1..n
      <4>1. b \in 1..n
        BY <1>2, <2>4, <3>1
      <4>2. QED
        BY <1>2, <1>6, <2>4, <3>1, <4>1 DEF ChainStands
    <3>2. CASE c = n + 1
      BY <1>4, <1>6, <1>7, <2>1, <3>2
    <3>3. QED
      BY <1>7, <3>1, <3>2
  <2>5. Len(blocks') >= FirstHeight
    BY <1>2, <1>6, EspressoAssumption DEF ChainStands, n
  <2>6. QED
    BY <1>6, <1>9, <2>3, <2>4, <2>5 DEF ChainStands
<1>11. Len(blocks) <= Len(blocks')
  BY <1>2, <1>6 DEF n
<1>12. QED
  BY <1>8, <1>10, <1>11

(* The listener does not see it before it polls.                           *)
LEMMA MineBlockKeeps ==
  ASSUME ListenerInvariant, MineBlock
  PROVE  ListenerInvariant'
<1>1. ChainStands /\ CursorsStand /\ TodoStands /\ StoredStands /\ L1Ahead /\ L1Whole
        /\ NoncesInOrder
  BY DEF ListenerInvariant
<1>2. UNCHANGED <<options, fromBlock, up, current, latest, l1Prev, todo, fetched, stored,
                  starts, skipped, faults>>
  BY DEF MineBlock, options, progress
<1>3. ChainStands' /\ Grown /\ Len(blocks) <= Len(blocks')
  BY <1>1, ChainGrows
<1>4. TodoStands' /\ StoredStands' /\ L1Ahead' /\ L1Whole' /\ NoncesInOrder'
  BY <1>1, <1>2, <1>3, ListenerRests DEF CursorsStand
<1>5. CursorsStand'
  <2>1. \E b \in DOMAIN blocks' : l1Prev <= blocks'[b].l1
    BY <1>1, <1>3 DEF CursorsStand, Grown
  <2>2. starts \subseteq DOMAIN blocks' /\ latest \in DOMAIN blocks'
        /\ skipped \subseteq DOMAIN blocks'
    BY <1>1, <1>3 DEF CursorsStand, Grown
  <2>3. QED
    BY <1>1, <1>2, <2>1, <2>2 DEF CursorsStand
<1>6. QED
  BY <1>3, <1>4, <1>5 DEF ListenerInvariant

(* The steps that only move the listener along its blocks, or end it.      *)
LEMMA MovesKeep ==
  ASSUME ListenerInvariant, FetchLatestBlockHeight \/ NextBlock \/ FetchFails \/ Stop
  PROVE  ListenerInvariant'
<1>0. ChainStands /\ CursorsStand /\ TodoStands /\ StoredStands /\ L1Ahead /\ L1Whole
        /\ NoncesInOrder
  BY DEF ListenerInvariant
<1>1. UNCHANGED <<options, blocks, starts, l1Prev, todo, stored>>
  BY DEF FetchLatestBlockHeight, NextBlock, FetchFails, Stop, progress
<1>2. ChainStands' /\ TodoStands' /\ StoredStands' /\ L1Ahead' /\ L1Whole' /\ NoncesInOrder'
  BY <1>0, <1>1, ChainKept, ListenerRests DEF CursorsStand
<1>3. /\ current \in 1..latest /\ latest \in 1..Len(blocks) /\ Len(blocks) \in Nat
      /\ DOMAIN blocks = 1..Len(blocks) /\ starts \subseteq 1..Len(blocks)
      /\ UNCHANGED fromBlock
  BY <1>0, <1>1, LenProperties DEF ChainStands, CursorsStand, options
<1>4. PICK s \in starts : s <= current
  BY <1>0 DEF CursorsStand
<1>5. CASE FetchLatestBlockHeight
  <2>1. /\ latest' = Len(blocks) /\ Len(blocks) > current /\ current' = current
        /\ UNCHANGED <<up, fetched, skipped, faults>>
    BY <1>5 DEF FetchLatestBlockHeight
  <2>2. latest' \in DOMAIN blocks /\ current' \in 1..latest'
        /\ (fetched => current < latest')
    BY <1>3, <2>1
  <2>3. CursorsStand'
    BY <1>0, <1>1, <1>3, <2>1, <2>2 DEF CursorsStand
  <2>4. QED
    BY <1>2, <2>3 DEF ListenerInvariant
<1>6. CASE NextBlock \/ FetchFails
  <2>1. /\ current' = current + 1 /\ current < latest /\ latest' = latest
        /\ UNCHANGED up /\ fetched' = FALSE /\ todo = <<>>
        /\ skipped' \subseteq skipped \cup {current}
        /\ faults' \in {faults, faults + 1}
    BY <1>0, <1>6 DEF NextBlock, FetchFails, CountFault, CursorsStand
  <2>2. /\ current' \in 1..latest' /\ s <= current'
        /\ current \in DOMAIN blocks /\ latest' \in DOMAIN blocks
    BY <1>3, <1>4, <2>1
  <2>3. faults' \in Nat /\ skipped' \subseteq DOMAIN blocks
    BY <1>0, <2>1, <2>2 DEF CursorsStand
  <2>4. CursorsStand'
    BY <1>0, <1>1, <1>3, <2>1, <2>2, <2>3 DEF CursorsStand
  <2>5. QED
    BY <1>2, <2>4 DEF ListenerInvariant
<1>7. CASE Stop
  <2>1. /\ UNCHANGED <<current, latest, fetched, skipped>> /\ up' = FALSE
        /\ faults' \in Nat
    BY <1>0, <1>7 DEF Stop, progress, CountFault, CursorsStand
  <2>2. CursorsStand'
    BY <1>0, <1>1, <1>3, <2>1 DEF CursorsStand
  <2>3. QED
    BY <1>2, <2>2 DEF ListenerInvariant
<1>8. QED
  BY <1>5, <1>6, <1>7

-----------------------------------------------------------------------------
(* A block is fetched.                                                     *)

(* An interval from 1 tells its length.                                    *)
LEMMA SameLength ==
  ASSUME NEW i \in Nat, NEW j \in Nat, 1..i = 1..j
  PROVE  i = j
<1>1. CASE i < j
  <2>1. j \in 1..j /\ j \notin 1..i
    BY <1>1
  <2>2. QED
    BY <2>1
<1>2. CASE j < i
  <2>1. i \in 1..i /\ i \notin 1..j
    BY <1>2
  <2>2. QED
    BY <2>1
<1>3. QED
  BY <1>1, <1>2

(* What is to be added of a block: n inputs of the L1 from the last height *)
(* read on, of which n - 1 are new, and the transactions of the block.     *)
LEMMA ToAddHas ==
  ASSUME ChainStands, CursorsStand, NEW b \in DOMAIN blocks,
         NEW prev, prev = IF blocks[b].l1 > l1Prev THEN blocks[b].l1 ELSE l1Prev
  PROVE  \E n \in Nat :
           /\ n = 0 => prev = l1Prev
           /\ n > 0 => prev = l1Prev + n - 1
           /\ n > 0 <=> /\ blocks[b].l1 > l1Prev \/ b = fromBlock
                       /\ blocks[b].l1 >= l1Prev
           /\ ToAdd(b) \in Seq(Found)
           /\ DOMAIN ToAdd(b) = 1..(n + Len(blocks[b].txs))
           /\ \A k \in 1..n : ToAdd(b)[k] = L1Input(l1Prev + k - 1)
           /\ \A k \in 1..Len(blocks[b].txs) : ToAdd(b)[n + k] = TxAt(b, k)
<1> DEFINE to == blocks[b].l1
           m  == Len(blocks[b].txs)
           n  == IF (to > l1Prev \/ b = fromBlock) /\ to >= l1Prev
                 THEN to - l1Prev + 1 ELSE 0
           r  == L1ToRead(b)
           t  == TxsOf(b)
<1>1. /\ to \in Nat /\ b \in Nat \ {0} /\ l1Prev \in Nat
      /\ m \in Nat /\ DOMAIN blocks[b].txs = 1..m
  BY BlockTyped, LenProperties DEF CursorsStand
<1>2. /\ n \in Nat /\ (n = 0 => prev = l1Prev) /\ (n > 0 => prev = l1Prev + n - 1)
      /\ n > 0 <=> (to > l1Prev \/ b = fromBlock) /\ to >= l1Prev
  BY <1>1
<1>3. \A k \in 1..n : L1Input(l1Prev + k - 1) \in Found
  BY <1>1, <1>2 DEF L1Input, Found
<1>4. r = [k \in 1..n |-> L1Input(l1Prev + k - 1)]
  <2>1. CASE (to > l1Prev \/ b = fromBlock) /\ to >= l1Prev
    BY <1>1, <2>1 DEF L1ToRead, L1Range
  <2>2. CASE (to > l1Prev \/ b = fromBlock) /\ ~(to >= l1Prev)
    <3>1. 1..(to - l1Prev + 1) = 1..n
      BY <1>1, <2>2
    <3>2. QED
      BY <2>2, <3>1 DEF L1ToRead, L1Range
  <2>3. CASE ~(to > l1Prev \/ b = fromBlock)
    BY <1>1, <2>3 DEF L1ToRead
  <2>4. QED
    BY <2>1, <2>2, <2>3
<1>5. t = [k \in 1..m |-> TxAt(b, k)] /\ \A k \in 1..m : TxAt(b, k) \in Found
  BY <1>1 DEF TxsOf, TxAt, Found
<1> HIDE DEF n, m, to, r, t
<1>6. /\ r \in Seq(Found) /\ Len(r) = n
      /\ t \in Seq(Found) /\ Len(t) = m
  <2>1. r \in [1..n -> Found] /\ t \in [1..m -> Found]
    BY <1>3, <1>4, <1>5
  <2>2. r \in Seq(Found) /\ t \in Seq(Found)
    BY <1>1, <1>2, <2>1 DEF m
  <2>3. /\ Len(r) \in Nat /\ DOMAIN r = 1..Len(r) /\ DOMAIN r = 1..n
        /\ Len(t) \in Nat /\ DOMAIN t = 1..Len(t) /\ DOMAIN t = 1..m
    BY <2>1, <2>2, LenProperties
  <2>4. m \in Nat
    BY <1>1 DEF m
  <2>5. Len(r) = n
    BY <1>2, <2>3, SameLength
  <2>6. Len(t) = m
    BY <2>3, <2>4, SameLength
  <2>7. QED
    BY <2>2, <2>5, <2>6
<1>7. ToAdd(b) = r \o t
  BY DEF ToAdd, r, t
<1>8. /\ ToAdd(b) \in Seq(Found) /\ Len(ToAdd(b)) = n + m
      /\ DOMAIN ToAdd(b) = 1..(n + m)
      /\ \A k \in 1..(n + m) : ToAdd(b)[k] = IF k <= n THEN r[k] ELSE t[k - n]
  <2>1. /\ r \o t \in Seq(Found) /\ Len(r \o t) = Len(r) + Len(t)
        /\ \A k \in 1..(Len(r) + Len(t)) :
             (r \o t)[k] = IF k <= Len(r) THEN r[k] ELSE t[k - Len(r)]
    BY <1>6, ConcatProperties
  <2>2. DOMAIN (r \o t) = 1..Len(r \o t)
    BY <2>1, LenProperties
  <2>3. QED
    BY <1>6, <1>7, <2>1, <2>2
<1>9. \A k \in 1..n : ToAdd(b)[k] = L1Input(l1Prev + k - 1)
  <2>1. \A k \in 1..n : k \in 1..(n + m) /\ k <= n
    BY <1>1, <1>2 DEF m
  <2>2. QED
    BY <1>4, <1>8, <2>1
<1>10. \A k \in 1..m : ToAdd(b)[n + k] = TxAt(b, k)
  <2>1. \A k \in 1..m : n + k \in 1..(n + m) /\ ~(n + k <= n) /\ (n + k) - n = k
    BY <1>1, <1>2 DEF m
  <2>2. QED
    BY <1>5, <1>8, <2>1
<1>11. QED
  BY <1>2, <1>8, <1>9, <1>10 DEF m, to

(* The next reading begins where this one ends: what is to be added closes *)
(* up to it, and it begins where there was no hole.                        *)
LEMMA FetchTransactionsKeeps ==
  ASSUME ListenerInvariant, FetchTransactions
  PROVE  ListenerInvariant'
<1>0. ChainStands /\ CursorsStand /\ TodoStands /\ StoredStands /\ L1Ahead /\ L1Whole
        /\ NoncesInOrder
  BY DEF ListenerInvariant
<1>1. /\ current < latest /\ todo' = ToAdd(current) /\ fetched' = TRUE /\ todo = <<>>
      /\ l1Prev' = IF blocks[current].l1 > l1Prev THEN blocks[current].l1 ELSE l1Prev
      /\ UNCHANGED <<options, fromBlock, fromBlockL1, starts, blocks, up, current, latest,
                     stored, skipped, faults>>
  BY <1>0 DEF FetchTransactions, CursorsStand, options
<1>2. ChainStands' /\ Grown
  BY <1>0, <1>1, ChainKept
<1>3. /\ current \in DOMAIN blocks /\ current # 0 /\ l1Prev \in Nat
      /\ blocks[current].l1 \in Nat
      /\ L1Of(stored) \in SUBSET Nat /\ L1Of(todo) = {} /\ L1Of(stored)' = L1Of(stored)
  <2>1. current \in DOMAIN blocks /\ current # 0 /\ l1Prev \in Nat
    BY <1>0, LenProperties DEF ChainStands, CursorsStand
  <2>2. L1Of(stored) \in SUBSET Nat /\ L1Of(<<>>) = {}
    BY <1>0, L1OfType DEF StoredStands
  <2>3. L1Of(stored)' = L1Of(stored)
    BY <1>1 DEF L1Of
  <2>4. QED
    BY <1>0, <1>1, <2>1, <2>2, <2>3, BlockTyped
<1> DEFINE m == Len(blocks[current].txs)
<1>4. PICK n \in Nat, new \in Seq(Found), prev \in Nat :
           /\ todo' = new /\ l1Prev' = prev /\ l1Prev <= prev
           /\ n = 0 => prev = l1Prev
           /\ n > 0 => prev = l1Prev + n - 1
           /\ DOMAIN new = 1..(n + m)
           /\ \A k \in 1..n : new[k] = L1Input(l1Prev + k - 1)
           /\ \A k \in 1..m : new[n + k] = TxAt(current, k)
  <2>1. l1Prev' \in Nat /\ l1Prev <= l1Prev'
    BY <1>1, <1>3
  <2>2. PICK prev \in Nat :
          l1Prev' = prev /\ prev = IF blocks[current].l1 > l1Prev THEN blocks[current].l1 ELSE l1Prev
    BY <1>1, <2>1
  <2>3. PICK n \in Nat :
           /\ n = 0 => prev = l1Prev
           /\ n > 0 => prev = l1Prev + n - 1
           /\ ToAdd(current) \in Seq(Found)
           /\ DOMAIN ToAdd(current) = 1..(n + Len(blocks[current].txs))
           /\ \A k \in 1..n : ToAdd(current)[k] = L1Input(l1Prev + k - 1)
           /\ \A k \in 1..Len(blocks[current].txs) : ToAdd(current)[n + k] = TxAt(current, k)
    <3>1. ChainStands /\ CursorsStand /\ current \in DOMAIN blocks
      BY <1>0, <1>3
    <3>2. QED
      BY <2>2, <3>1, ToAddHas
  <2>4. QED
    BY <1>1, <2>1, <2>2, <2>3
<1>a. todo' = new /\ l1Prev' = prev /\ DOMAIN new = 1..(n + m) /\ new \in Seq(Found)
  BY <1>4
<1>b. /\ \A k \in 1..n : new[k] = L1Input(l1Prev + k - 1)
      /\ \A k \in 1..m : new[n + k] = TxAt(current, k)
  BY <1>4
<1>5. m \in Nat /\ DOMAIN blocks[current].txs = 1..m
  BY <1>0, <1>3, BlockTyped, LenProperties
<1> HIDE DEF m
<1>6. /\ \A k \in 1..n : new[k].block = 0 /\ new[k].pos = l1Prev + k - 1
      /\ \A k \in 1..(n + m) : k \notin 1..n =>
           k - n \in 1..m /\ new[k] = TxAt(current, k - n) /\ new[k].block # 0
  <2>1. ASSUME NEW k \in 1..(n + m), k \notin 1..n
        PROVE  k - n \in 1..m /\ new[k] = TxAt(current, k - n) /\ new[k].block # 0
    <3>1. k - n \in 1..m /\ n + (k - n) = k
      BY <1>5, <2>1
    <3>2. new[k] = TxAt(current, k - n)
      BY <1>b, <3>1
    <3>3. QED
      BY <1>3, <3>1, <3>2 DEF TxAt
  <2>2. \A k \in 1..n : new[k].block = 0 /\ new[k].pos = l1Prev + k - 1
    <3>1. \A h : L1Input(h).block = 0 /\ L1Input(h).pos = h
      BY DEF L1Input
    <3>2. QED
      BY <1>b, <3>1, Zenon
  <2>3. QED
    BY <2>1, <2>2
<1>7. prev \in Nat /\ l1Prev <= prev /\ Head(new) = Head(todo')
  BY <1>4
<1>8. TodoStands'
  <2>1. ASSUME NEW k \in 1..(n + m)
        PROVE  Placed(new[k])'
    <3>1. new[k] \in Found
      BY <1>a, <2>1, ElementOfSeq, LenProperties
    <3>2. k \in 1..n => Placed(new[k])
      BY <1>6, <2>1, <3>1 DEF Placed
    <3>3. ASSUME k \notin 1..n
          PROVE  Placed(new[k])
      <4>1. k - n \in 1..m /\ new[k] = TxAt(current, k - n)
        BY <1>6, <2>1, <3>3
      <4>2. new[k].block = current /\ new[k].pos \in DOMAIN blocks[current].txs
        BY <1>5, <4>1 DEF TxAt
      <4>3. QED
        BY <1>3, <3>1, <4>2 DEF Placed
    <3>4. QED
      BY <1>2, <3>2, <3>3, PlacedGrown
  <2>2. ASSUME NEW k \in 1..(n + m), new[k].block = 0
        PROVE  /\ new[k].pos <= prev
               /\ \A j \in 1..k : new[j].block = 0 /\ new[j].pos = new[k].pos - (k - j)
    <3>1. k \in 1..n
      BY <1>6, <2>2
    <3>2. prev = l1Prev + n - 1 /\ new[k].pos = l1Prev + k - 1
      BY <1>4, <1>6, <3>1
    <3>3. \A j \in 1..k : j \in 1..n /\ l1Prev + j - 1 = (l1Prev + k - 1) - (k - j)
      BY <1>3, <3>1
    <3>4. QED
      BY <1>3, <1>6, <3>1, <3>2, <3>3
  <2>3. QED
    BY <1>a, <2>1, <2>2, Zenon DEF TodoStands
<1>9. CursorsStand'
  <2>1. \E b \in DOMAIN blocks' : prev <= blocks'[b].l1
    BY <1>0, <1>1, <1>3, <1>a DEF CursorsStand
  <2>2. QED
    BY <1>0, <1>1, <1>7, <1>a, <2>1 DEF CursorsStand
<1>10. StoredStands' /\ NoncesInOrder'
  BY <1>0, <1>1 DEF StoredStands, NoncesInOrder, Placed, TxOf, L1Of
<1>11. new # <<>> /\ Head(new).block = 0 =>
         n > 0 /\ Head(new).pos = l1Prev
  <2>1. SUFFICES ASSUME new # <<>>, Head(new).block = 0
                 PROVE  n > 0 /\ Head(new).pos = l1Prev
    OBVIOUS
  <2>2. 1 \in 1..(n + m) /\ Head(new) = new[1]
    <3>1. Len(new) \in Nat \ {0} /\ DOMAIN new = 1..Len(new)
      BY <1>a, <2>1, EmptySeq, LenProperties
    <3>2. Head(new) = new[1]
      BY <1>a, <2>1, HeadTailProperties
    <3>3. 1 \in 1..Len(new)
      BY <3>1
    <3>4. QED
      BY <1>a, <3>1, <3>2, <3>3
  <2>3. 1 \in 1..n
    BY <1>6, <2>1, <2>2
  <2>4. QED
    BY <1>3, <1>6, <2>2, <2>3
<1>12. L1Ahead'
  <2>1. Dense(L1Of(stored), prev)
    BY <1>0, <1>3, <1>7, DenseFacts DEF L1Ahead
  <2>2. Dense(L1Of(stored), l1Prev)
    BY <1>0 DEF L1Ahead
  <2>3. QED
    BY <1>3, <1>11, <1>a, <2>1, <2>2, Zenon DEF L1Ahead
<1>13. First' = First /\ FirstRead' = FirstRead /\ SameStart' = SameStart
  BY <1>1 DEF First, FirstRead, SameStart
<1>14. L1Whole'
  <2>1. SUFFICES ASSUME SameStart PROVE L1Whole'
    BY <1>13 DEF L1Whole
  <2>2. /\ \A h \in L1Of(stored) : h >= FirstRead
        /\ Dense(L1Of(stored), FirstRead)
        /\ FirstRead <= l1Prev
        /\ \A h \in FirstRead..(l1Prev - 1) : h \in L1Of(stored)
    BY <1>0, <1>3, <2>1 DEF L1Whole
  <2>3. FirstRead \in Nat
    <3>1. CASE fromBlockL1 # 0
      BY <1>0, <3>1, EspressoAssumption DEF FirstRead, ChainStands
    <3>2. CASE fromBlockL1 = 0
      <4>1. First \in DOMAIN blocks
        BY <1>0, <2>1, <3>2 DEF SameStart, CursorsStand
      <4>2. QED
        BY <1>0, <3>2, <4>1, BlockTyped DEF FirstRead
    <3>3. QED
      BY <3>1, <3>2
  <2>4. FirstRead <= prev
    BY <1>3, <1>7, <2>2, <2>3
  <2>5. ASSUME NEW h \in FirstRead..(prev - 1)
        PROVE  h \in L1Of(stored) \cup L1Of(new)
    <3>1. CASE h < l1Prev
      BY <1>3, <2>2, <2>3, <3>1
    <3>2. CASE ~(h < l1Prev)
      <4>1. n > 0 /\ prev = l1Prev + n - 1
        BY <1>3, <1>4, <2>3, <3>2
      <4>2. h - l1Prev + 1 \in 1..n /\ l1Prev + (h - l1Prev + 1) - 1 = h
        BY <1>3, <2>3, <3>2, <4>1
      <4>3. /\ h - l1Prev + 1 \in DOMAIN new
            /\ new[h - l1Prev + 1].block = 0 /\ new[h - l1Prev + 1].pos = h
        <5>1. 1..n \subseteq 1..(n + m)
          BY <1>5
        <5>2. QED
          BY <1>4, <1>6, <4>2, <5>1
      <4>4. QED
        BY <4>3 DEF L1Of
    <3>3. QED
      BY <3>1, <3>2
  <2>6. new # <<>> /\ Head(new).block = 0 =>
          /\ FirstRead <= Head(new).pos
          /\ \A h \in FirstRead..(Head(new).pos - 1) : h \in L1Of(stored)
    BY <1>11, <2>2
  <2>8. L1Of(todo)' = L1Of(new)
    BY <1>a DEF L1Of
  <2>7. QED
    BY <1>3, <1>13, <1>a, <2>2, <2>4, <2>5, <2>6, <2>8, Zenon DEF L1Whole
<1>15. QED
  BY <1>2, <1>8, <1>9, <1>10, <1>12, <1>14 DEF ListenerInvariant

-----------------------------------------------------------------------------
(* An input is added.                                                      *)

(* The row of an input of the L1 and that of a transaction differ.         *)
LEMMA IdsDiffer ==
  ASSUME NEW p, NEW sender, NEW nonce
  PROVE  <<p>> # <<sender, nonce>>
<1>1. Len(<<p>>) = 1 /\ Len(<<sender, nonce>>) = 2
  OBVIOUS
<1>2. QED
  BY <1>1

(* An input is there already, or it is added at the end: then it is new of *)
(* the L1, or the next of its sender.                                      *)
LEMMA AddCases ==
  ASSUME NEW s \in Seq(Found), NEW e \in Found
  PROVE  \/ /\ Add(s, e) = s
            /\ e.block = 0 => e.pos \in L1Of(s)
         \/ /\ Add(s, e) = Append(s, e)
            /\ e.block = 0 => e.pos \notin L1Of(s)
            /\ e.block # 0 => TxOf(e).nonce = GetNonce(s, TxOf(e).sender)
<1>1. CASE e.block = 0
  <2>1. Add(s, e) = Create(s, e)
    BY <1>1 DEF Add
  <2>2. ASSUME NEW k \in DOMAIN s
        PROVE  Id(s[k]) = Id(e) <=> s[k].block = 0 /\ s[k].pos = e.pos
    <3>1. CASE s[k].block = 0
      BY <1>1, <3>1 DEF Id
    <3>2. CASE s[k].block # 0
      <4>1. Id(s[k]) # Id(e)
        BY <1>1, <3>2, IdsDiffer DEF Id
      <4>2. QED
        BY <3>2, <4>1
    <3>3. QED
      BY <3>1, <3>2
  <2>3. (\E k \in DOMAIN s : Id(s[k]) = Id(e)) <=> e.pos \in L1Of(s)
    BY <2>2 DEF L1Of
  <2>4. QED
    BY <1>1, <2>1, <2>3 DEF Create
<1>2. CASE e.block # 0
  BY <1>2 DEF Add, AddTx, Create
<1>3. QED
  BY <1>1, <1>2

(* What comes after the head of what is to be added: it is still found on  *)
(* the chain, and an input of the L1 is the one after the head.            *)
LEMMA TodoTail ==
  ASSUME TodoStands, todo # <<>>, l1Prev \in Nat
  PROVE  /\ Head(todo) \in Found /\ Placed(Head(todo))
         /\ Head(todo).block = 0 => Head(todo).pos <= l1Prev
         /\ Tail(todo) \in Seq(Found)
         /\ \A k \in DOMAIN Tail(todo) : Placed(Tail(todo)[k])
         /\ \A k \in DOMAIN Tail(todo) : Tail(todo)[k].block = 0 =>
              /\ Tail(todo)[k].pos <= l1Prev
              /\ \A j \in 1..k : /\ Tail(todo)[j].block = 0
                                 /\ Tail(todo)[j].pos = Tail(todo)[k].pos - (k - j)
         /\ Tail(todo) # <<>> /\ Head(Tail(todo)).block = 0 =>
              /\ Head(todo).block = 0
              /\ Head(Tail(todo)).pos = Head(todo).pos + 1
<1>1. todo \in Seq(Found)
  BY DEF TodoStands
<1>2. /\ Len(todo) \in Nat \ {0} /\ DOMAIN todo = 1..Len(todo)
      /\ Head(todo) = todo[1] /\ Head(todo) \in Found
      /\ Tail(todo) \in Seq(Found)
      /\ DOMAIN Tail(todo) = 1..(Len(todo) - 1)
      /\ Len(Tail(todo)) = Len(todo) - 1
      /\ \A k \in 1..(Len(todo) - 1) : Tail(todo)[k] = todo[k + 1]
  BY <1>1, HeadTailProperties, LenProperties, EmptySeq
<1>3. 1 \in DOMAIN todo /\ \A k \in 1..(Len(todo) - 1) : k + 1 \in DOMAIN todo
  BY <1>2
<1>4. /\ \A k \in DOMAIN todo : Placed(todo[k])
      /\ \A k \in DOMAIN todo : todo[k].block = 0 =>
           /\ todo[k].pos <= l1Prev
           /\ \A j \in 1..k : todo[j].block = 0 /\ todo[j].pos = todo[k].pos - (k - j)
  BY DEF TodoStands
<1>5. Placed(Head(todo)) /\ (Head(todo).block = 0 => Head(todo).pos <= l1Prev)
  BY <1>2, <1>3, <1>4
<1>6. \A k \in 1..(Len(todo) - 1) : Placed(Tail(todo)[k])
  BY <1>2, <1>3, <1>4
<1>7. ASSUME NEW k \in 1..(Len(todo) - 1), Tail(todo)[k].block = 0
      PROVE  /\ Tail(todo)[k].pos <= l1Prev
             /\ \A j \in 1..k : /\ Tail(todo)[j].block = 0
                                /\ Tail(todo)[j].pos = Tail(todo)[k].pos - (k - j)
  <2>1. Tail(todo)[k] = todo[k + 1] /\ k + 1 \in DOMAIN todo /\ todo[k + 1].block = 0
    BY <1>2, <1>3, <1>7
  <2>2. ASSUME NEW j \in 1..k
        PROVE  /\ Tail(todo)[j].block = 0
               /\ Tail(todo)[j].pos = Tail(todo)[k].pos - (k - j)
    <3>1. j \in 1..(Len(todo) - 1) /\ j + 1 \in 1..(k + 1) /\ (k + 1) - (j + 1) = k - j
      BY <1>2, <2>2
    <3>2. todo[j + 1].block = 0 /\ todo[j + 1].pos = todo[k + 1].pos - ((k + 1) - (j + 1))
      BY <1>4, <2>1, <3>1
    <3>3. Tail(todo)[j] = todo[j + 1]
      BY <1>2, <3>1
    <3>4. QED
      BY <2>1, <3>1, <3>2, <3>3
  <2>3. todo[k + 1].pos <= l1Prev
    BY <1>4, <2>1
  <2>4. QED
    BY <2>1, <2>2, <2>3
<1>8. ASSUME Tail(todo) # <<>>, Head(Tail(todo)).block = 0
      PROVE  /\ Head(todo).block = 0
             /\ Head(Tail(todo)).pos = Head(todo).pos + 1
  <2>1. Len(Tail(todo)) # 0
    BY <1>2, <1>8, EmptySeq
  <2>2. 1 \in 1..(Len(todo) - 1) /\ 2 \in DOMAIN todo /\ 1 + 1 = 2
    BY <1>2, <2>1
  <2>3. Head(Tail(todo)) = todo[2]
    BY <1>2, <1>8, <2>2, HeadTailProperties
  <2>4. todo[1].block = 0 /\ todo[1].pos = todo[2].pos - (2 - 1)
    <3>1. 1 \in 1..2
      OBVIOUS
    <3>2. todo[2].block = 0
      BY <1>8, <2>3
    <3>3. QED
      BY <1>4, <2>2, <3>1, <3>2
  <2>5. todo[2].pos \in Nat
    <3>1. todo[2] \in Found
      BY <1>1, <1>2, <2>2, ElementOfSeq
    <3>2. QED
      BY <3>1 DEF Found
  <2>6. todo[2].pos = todo[1].pos + 1
    BY <2>4, <2>5
  <2>7. Head(todo) = todo[1]
    BY <1>2
  <2>8. QED
    BY <2>3, <2>4, <2>6, <2>7, Zenon
<1>9. QED
  BY <1>2, <1>5, <1>6, <1>7, <1>8

(* What is stored stays in order: an input of the L1 that is not there is  *)
(* above all that are.                                                     *)
LEMMA AddNextKeeps ==
  ASSUME ListenerInvariant, AddNext
  PROVE  ListenerInvariant'
<1>0. ChainStands /\ CursorsStand /\ TodoStands /\ StoredStands /\ L1Ahead /\ L1Whole
        /\ NoncesInOrder
  BY DEF ListenerInvariant
<1>1. /\ todo # <<>> /\ todo' = Tail(todo) /\ stored' = Add(stored, Head(todo))
      /\ UNCHANGED <<options, fromBlock, fromBlockL1, starts, blocks, up, current, latest,
                     l1Prev, fetched, skipped, faults>>
  BY DEF AddNext, options
<1>2. ChainStands' /\ Grown
  BY <1>0, <1>1, ChainKept
<1>3. l1Prev \in Nat
  BY <1>0 DEF CursorsStand
<1>4. PICK e \in Found, rest \in Seq(Found) :
        /\ Head(todo) = e /\ Tail(todo) = rest
        /\ Placed(e) /\ (e.block = 0 => e.pos <= l1Prev)
        /\ \A k \in DOMAIN rest : Placed(rest[k])
        /\ \A k \in DOMAIN rest : rest[k].block = 0 =>
             /\ rest[k].pos <= l1Prev
             /\ \A j \in 1..k : rest[j].block = 0 /\ rest[j].pos = rest[k].pos - (k - j)
        /\ rest # <<>> /\ Head(rest).block = 0 =>
             e.block = 0 /\ Head(rest).pos = e.pos + 1
  BY <1>0, <1>1, <1>3, TodoTail
<1>5. e.pos \in Nat /\ stored \in Seq(Found) /\ todo \in Seq(Found) /\ todo' = rest
      /\ stored' = Add(stored, e) /\ Head(todo) = e
  BY <1>0, <1>1, <1>4 DEF Found, StoredStands, TodoStands
<1> DEFINE A == L1Of(stored)
           B == A \cup (IF e.block = 0 THEN {e.pos} ELSE {})
<1>6. A \in SUBSET Nat /\ B \in SUBSET Nat
  BY <1>5, L1OfType
<1>7. \/ stored' = stored /\ (e.block = 0 => e.pos \in A)
      \/ /\ stored' = Append(stored, e)
         /\ e.block = 0 => e.pos \notin A
         /\ e.block # 0 => TxOf(e).nonce = GetNonce(stored, TxOf(e).sender)
  BY <1>5, AddCases
<1>8. L1Of(stored)' = B
  <2>1. L1Of(stored)' = L1Of(stored')
    BY DEF L1Of
  <2>2. CASE stored' = stored /\ (e.block = 0 => e.pos \in A)
    BY <2>1, <2>2
  <2>3. CASE stored' = Append(stored, e)
    BY <1>5, <2>1, <2>3, L1OfAppend
  <2>4. QED
    BY <1>7, <2>2, <2>3
<1>9. Dense(A, l1Prev) /\ (e.block = 0 => Dense(A, e.pos))
  BY <1>0, <1>1, <1>5 DEF L1Ahead
<1> HIDE DEF A
<1>10. TodoStands'
  <2>1. \A k \in DOMAIN rest : Placed(rest[k])'
    BY <1>2, <1>4, PlacedGrown
  <2>2. \A k \in DOMAIN rest : rest[k].block = 0 =>
          /\ rest[k].pos <= l1Prev
          /\ \A j \in 1..k : rest[j].block = 0 /\ rest[j].pos = rest[k].pos - (k - j)
    BY <1>4
  <2>3. rest \in Seq(Found) /\ todo' = rest /\ l1Prev' = l1Prev
    BY <1>1, <1>5
  <2>4. QED
    BY <2>1, <2>2, <2>3, Zenon DEF TodoStands
<1>11. CursorsStand'
  <2>1. fetched \/ todo = <<>>
    BY <1>0 DEF CursorsStand
  <2>2. QED
    BY <1>0, <1>1, <2>1 DEF CursorsStand
<1>12. L1Ahead'
  <2>1. Dense(B, l1Prev)
    BY <1>3, <1>4, <1>5, <1>6, <1>9, DenseFacts
  <2>2. rest # <<>> /\ Head(rest).block = 0 => Dense(B, Head(rest).pos)
    <3>1. SUFFICES ASSUME e.block = 0
                   PROVE  Dense(B, e.pos + 1)
      BY <1>4
    <3>2. e.pos + 1 \in Nat /\ e.pos <= e.pos + 1 /\ B = A \cup {e.pos} /\ Dense(A, e.pos)
      BY <1>5, <1>9, <3>1
    <3>3. QED
      BY <1>5, <1>6, <3>2, DenseFacts
  <2>3. todo' = rest /\ l1Prev' = l1Prev
    BY <1>1, <1>5
  <2>4. QED
    BY <1>8, <2>1, <2>2, <2>3, Zenon DEF L1Ahead
<1>13. L1Whole'
  <2>1. First' = First /\ FirstRead' = FirstRead /\ SameStart' = SameStart
    BY <1>1 DEF First, FirstRead, SameStart
  <2>2. SUFFICES ASSUME SameStart PROVE L1Whole'
    BY <2>1 DEF L1Whole
  <2>3. /\ \A h \in A : h >= FirstRead
        /\ Dense(A, FirstRead)
        /\ FirstRead <= l1Prev
        /\ \A h \in FirstRead..(l1Prev - 1) : h \in A \cup L1Of(todo)
        /\ e.block = 0 => FirstRead <= e.pos /\ \A h \in FirstRead..(e.pos - 1) : h \in A
    BY <1>0, <1>1, <1>5, <2>2 DEF L1Whole, A
  <2>4. FirstRead \in Nat
    <3>1. CASE fromBlockL1 # 0
      BY <1>0, <3>1, EspressoAssumption DEF FirstRead, ChainStands
    <3>2. CASE fromBlockL1 = 0
      <4>1. First \in DOMAIN blocks
        BY <1>0, <2>2, <3>2 DEF SameStart, CursorsStand
      <4>2. QED
        BY <1>0, <3>2, <4>1, BlockTyped DEF FirstRead
    <3>3. QED
      BY <3>1, <3>2
  <2>5. \A h \in B : h >= FirstRead
    BY <1>5, <2>3, <2>4
  <2>6. Dense(B, FirstRead)
    BY <1>5, <1>6, <2>3, <2>4, DenseNext
  <2>7. L1Of(todo) = L1Of(rest) \cup (IF e.block = 0 THEN {e.pos} ELSE {})
    BY <1>1, <1>4, <1>5, L1OfTail
  <2>8. \A h \in FirstRead..(l1Prev - 1) : h \in B \cup L1Of(rest)
    BY <2>3, <2>7
  <2>9. rest # <<>> /\ Head(rest).block = 0 =>
          /\ FirstRead <= Head(rest).pos
          /\ \A h \in FirstRead..(Head(rest).pos - 1) : h \in B
    <3>1. SUFFICES ASSUME e.block = 0
                   PROVE  /\ FirstRead <= e.pos + 1
                          /\ \A h \in FirstRead..((e.pos + 1) - 1) : h \in B
      BY <1>4
    <3>2. FirstRead <= e.pos + 1
      BY <1>5, <2>3, <2>4, <3>1
    <3>3. ASSUME NEW h \in FirstRead..((e.pos + 1) - 1)
          PROVE  h = e.pos \/ h \in FirstRead..(e.pos - 1)
      BY <1>5, <2>4
    <3>4. QED
      BY <2>3, <3>1, <3>2, <3>3
  <2>10. todo' = rest /\ l1Prev' = l1Prev /\ L1Of(todo)' = L1Of(rest)
    BY <1>1, <1>5 DEF L1Of
  <2>11. QED
    BY <1>8, <2>1, <2>3, <2>5, <2>6, <2>8, <2>9, <2>10, Zenon DEF L1Whole
<1>14. CASE stored' = stored
  <2>1. UNCHANGED <<stored, blocks>>
    BY <1>1, <1>14
  <2>2. StoredStands' /\ NoncesInOrder'
    BY <1>0, <2>1 DEF StoredStands, NoncesInOrder, Placed, TxOf, L1Of
  <2>3. QED
    BY <1>2, <1>10, <1>11, <1>12, <1>13, <2>2 DEF ListenerInvariant
<1>15. CASE /\ stored' = Append(stored, e)
            /\ e.block = 0 => e.pos \notin A
            /\ e.block # 0 => TxOf(e).nonce = GetNonce(stored, TxOf(e).sender)
  <2> DEFINE n == Len(stored)
  <2>1. PICK new \in Seq(Found) :
          /\ stored' = new /\ DOMAIN new = 1..(n + 1)
          /\ new[n + 1] = e /\ \A k \in 1..n : new[k] = stored[k]
    <3>1. /\ Append(stored, e) \in Seq(Found)
          /\ Len(Append(stored, e)) = n + 1
          /\ Append(stored, e)[n + 1] = e
          /\ \A k \in 1..n : Append(stored, e)[k] = stored[k]
      BY <1>5, AppendProperties
    <3>2. DOMAIN Append(stored, e) = 1..(n + 1)
      BY <3>1, LenProperties
    <3>3. QED
      BY <1>15, <3>1, <3>2
  <2>2. n \in Nat /\ DOMAIN stored = 1..n
    BY <1>5, LenProperties
  <2> HIDE DEF n
  <2>3. /\ 1..n \subseteq 1..(n + 1) /\ n + 1 \notin 1..n
        /\ \A k \in 1..(n + 1) : k \in 1..n \/ k = n + 1
    BY <2>2
  <2>4. \A k \in 1..(n + 1) : Placed(new[k])
    BY <1>0, <1>4, <2>1, <2>2, <2>3 DEF StoredStands
  <2>5. StoredStands'
    <3>1. \A k \in DOMAIN new : Placed(new[k])'
      BY <1>2, <2>1, <2>4, PlacedGrown
    <3>2. \A h \in B : \E b \in DOMAIN blocks' : h <= blocks'[b].l1
      <4>1. ASSUME e.block = 0
            PROVE  \E b \in DOMAIN blocks : e.pos <= blocks[b].l1
        <5>1. PICK b \in DOMAIN blocks : l1Prev <= blocks[b].l1
          BY <1>0 DEF CursorsStand
        <5>2. e.pos <= blocks[b].l1
          BY <1>0, <1>3, <1>4, <1>5, <4>1, <5>1, BlockTyped
        <5>3. QED
          BY <5>2
      <4>2. \A h \in A : \E b \in DOMAIN blocks : h <= blocks[b].l1
        BY <1>0 DEF StoredStands, A
      <4>3. QED
        BY <1>1, <4>1, <4>2
    <3>3. ASSUME NEW j \in 1..(n + 1), NEW k \in 1..(n + 1),
                 new[j].block = 0, new[k].block = 0, j < k
          PROVE  new[j].pos < new[k].pos
      <4>1. j \in 1..n
        BY <2>2, <3>3
      <4>2. CASE k \in 1..n
        BY <1>0, <2>1, <2>2, <3>3, <4>1, <4>2 DEF StoredStands
      <4>3. CASE k = n + 1
        <5>1. e.block = 0 /\ stored[j].block = 0 /\ new[j] = stored[j] /\ new[k] = e
          BY <2>1, <3>3, <4>1, <4>3
        <5>2. stored[j].pos \in A
          BY <2>2, <4>1, <5>1 DEF A, L1Of
        <5>3. stored[j].pos \in Nat
          BY <1>6, <5>2
        <5>4. e.pos \notin A /\ Dense(A, e.pos)
          BY <1>9, <1>15, <5>1
        <5>5. ~(e.pos <= stored[j].pos)
          <6>1. SUFFICES ASSUME e.pos <= stored[j].pos PROVE e.pos \in A
            BY <5>4
          <6>2. e.pos \in (e.pos)..(stored[j].pos)
            BY <1>5, <5>3, <6>1
          <6>3. QED
            BY <5>2, <5>4, <6>2 DEF Dense
        <5>6. QED
          BY <1>5, <5>1, <5>3, <5>5
      <4>4. QED
        BY <2>3, <4>2, <4>3
    <3>4. stored' = new /\ new \in Seq(Found) /\ DOMAIN new = 1..(n + 1)
      BY <2>1
    <3>5. QED
      BY <1>8, <3>1, <3>2, <3>3, <3>4, Zenon DEF StoredStands
  <2>6. NoncesInOrder'
    <3>1. \A k \in 1..(n + 1) : new[k].block # 0 => TxOf(new[k])' = TxOf(new[k])
      BY <1>2, <2>4, PlacedGrown
    <3>2. ASSUME NEW k \in 1..(n + 1), new[k].block # 0
          PROVE  TxOf(new[k]).nonce =
                   Cardinality({j \in 1..(k - 1) :
                                  /\ new[j].block # 0
                                  /\ TxOf(new[j]).sender = TxOf(new[k]).sender})
      <4>1. \A j \in 1..(k - 1) : j \in 1..n /\ new[j] = stored[j]
        BY <2>1, <2>2
      <4>2. CASE k \in 1..n
        <5>1. new[k] = stored[k] /\ k \in DOMAIN stored
          BY <2>1, <2>2, <4>2
        <5>2. TxOf(stored[k]).nonce =
                Cardinality({j \in 1..(k - 1) :
                               /\ stored[j].block # 0
                               /\ TxOf(stored[j]).sender = TxOf(stored[k]).sender})
          BY <1>0, <3>2, <5>1 DEF NoncesInOrder
        <5>3. {j \in 1..(k - 1) :
                 /\ stored[j].block # 0
                 /\ TxOf(stored[j]).sender = TxOf(stored[k]).sender}
              = {j \in 1..(k - 1) :
                   /\ new[j].block # 0
                   /\ TxOf(new[j]).sender = TxOf(new[k]).sender}
          BY <4>1, <5>1
        <5>4. QED
          BY <5>1, <5>2, <5>3
      <4>3. CASE k = n + 1
        <5>1. new[k] = e /\ e.block # 0 /\ 1..(k - 1) = DOMAIN stored
          <6>1. (n + 1) - 1 = n
            BY <2>2
          <6>2. QED
            BY <2>1, <2>2, <3>2, <4>3, <6>1
        <5>2. TxOf(e).nonce =
                Cardinality({j \in 1..(k - 1) :
                               stored[j].block # 0 /\ TxOf(stored[j]).sender = TxOf(e).sender})
          BY <1>15, <5>1 DEF GetNonce
        <5>3. {j \in 1..(k - 1) :
                 stored[j].block # 0 /\ TxOf(stored[j]).sender = TxOf(e).sender}
              = {j \in 1..(k - 1) :
                   /\ new[j].block # 0
                   /\ TxOf(new[j]).sender = TxOf(new[k]).sender}
          BY <4>1, <5>1
        <5>4. QED
          BY <5>1, <5>2, <5>3
      <4>4. QED
        BY <2>3, <4>2, <4>3
    <3>3. ASSUME NEW k \in 1..(n + 1), new[k].block # 0
          PROVE  TxOf(new[k])'.nonce =
                   Cardinality({j \in 1..(k - 1) :
                                  /\ new[j].block # 0
                                  /\ TxOf(new[j])'.sender = TxOf(new[k])'.sender})
      <4>1. \A j \in 1..(k - 1) : j \in 1..(n + 1)
        BY <2>2
      <4>2. {j \in 1..(k - 1) :
               new[j].block # 0 /\ TxOf(new[j])'.sender = TxOf(new[k])'.sender}
            = {j \in 1..(k - 1) :
                 new[j].block # 0 /\ TxOf(new[j]).sender = TxOf(new[k]).sender}
        BY <3>1, <3>3, <4>1
      <4>3. QED
        BY <3>1, <3>2, <3>3, <4>2
    <3>4. stored' = new /\ DOMAIN new = 1..(n + 1)
      BY <2>1
    <3>5. QED
      BY <3>3, <3>4, Zenon DEF NoncesInOrder
  <2>7. QED
    BY <1>2, <1>10, <1>11, <1>12, <1>13, <2>5, <2>6 DEF ListenerInvariant
<1>16. QED
  BY <1>7, <1>14, <1>15

-----------------------------------------------------------------------------
(* The listener starts.                                                    *)

(* Where it starts on a chain that stands.                                 *)
LEMMA StartFacts ==
  ASSUME ChainStands
  PROVE  /\ StartBlock(blocks) \in DOMAIN blocks
         /\ fromBlock # 0 => StartBlock(blocks) = fromBlock
         /\ fromBlock = 0 => StartBlock(blocks) = Len(blocks)
         /\ StartL1(blocks) \in Nat
         /\ StartL1(blocks) <= blocks[StartBlock(blocks)].l1
         /\ Len(blocks) \in DOMAIN blocks
<1>1. /\ Len(blocks) \in Nat \ {0} /\ DOMAIN blocks = 1..Len(blocks)
      /\ fromBlock \in 0..Len(blocks) /\ fromBlockL1 \in Nat
  BY LenProperties, EspressoAssumption DEF ChainStands
<1>2. StartBlock(blocks) \in DOMAIN blocks
  BY <1>1 DEF StartBlock
<1>3. blocks[StartBlock(blocks)].l1 \in Nat /\ fromBlockL1 <= blocks[StartBlock(blocks)].l1
  BY <1>2, BlockTyped DEF ChainStands
<1>4. StartL1(blocks) \in Nat /\ StartL1(blocks) <= blocks[StartBlock(blocks)].l1
  BY <1>1, <1>3 DEF StartL1
<1>5. /\ fromBlock # 0 => StartBlock(blocks) = fromBlock
      /\ fromBlock = 0 => StartBlock(blocks) = Len(blocks)
  BY DEF StartBlock
<1>6. Len(blocks) \in DOMAIN blocks
  BY <1>1
<1>7. QED
  BY <1>2, <1>4, <1>5, <1>6

(* The first of the starts, if there is one.                               *)
LEMMA OneStart ==
  ASSUME NEW s \in Nat, starts = {s}
  PROVE  First = s
<1>1. s \in starts /\ \A t \in starts : s <= t
  OBVIOUS
<1>2. QED
  BY <1>1 DEF First

(* Wherever it starts again, no hole follows the L1 block that it reads    *)
(* from: either all starts read from the same one, or it is the last that  *)
(* is finalized, and nothing beyond it is stored.                          *)
LEMMA StartKeeps ==
  ASSUME ListenerInvariant, Start
  PROVE  ListenerInvariant'
<1>0. ChainStands /\ CursorsStand /\ TodoStands /\ StoredStands /\ L1Ahead /\ L1Whole
        /\ NoncesInOrder
  BY DEF ListenerInvariant
<1> DEFINE b == StartBlock(blocks)
           n == StartL1(blocks)
           A == L1Of(stored)
<1>1. /\ up' = TRUE /\ current' = b /\ latest' = b /\ l1Prev' = n
      /\ starts' = starts \cup {b} /\ todo' = <<>> /\ fetched' = FALSE
      /\ UNCHANGED <<options, fromBlock, fromBlockL1, blocks, stored, skipped, faults>>
  BY DEF Start, options
<1>2. /\ b \in DOMAIN blocks /\ b \in Nat \ {0} /\ n \in Nat /\ n <= blocks[b].l1
      /\ fromBlock # 0 => b = fromBlock
      /\ fromBlock = 0 => b = Len(blocks)
  BY <1>0, StartFacts, BlockTyped
<1>3. A \in SUBSET Nat
  BY <1>0, L1OfType DEF StoredStands
<1>4. ChainStands' /\ Grown
  BY <1>0, <1>1, ChainKept
<1>5. StoredStands' /\ NoncesInOrder'
  <2>1. UNCHANGED <<stored, blocks>>
    BY <1>1
  <2>2. QED
    BY <1>0, <2>1 DEF StoredStands, NoncesInOrder, Placed, TxOf, L1Of
<1>6. CursorsStand'
  <2>1. starts' # {} /\ starts' \subseteq DOMAIN blocks /\ b \in starts' /\ b <= b
    BY <1>0, <1>1, <1>2 DEF CursorsStand
  <2>2. fromBlock # 0 => starts' = {fromBlock}
    BY <1>0, <1>1, <1>2 DEF CursorsStand
  <2>3. b \in 1..b
    BY <1>2
  <2>4. QED
    BY <1>0, <1>1, <1>2, <2>1, <2>2, <2>3 DEF CursorsStand
<1>7. TodoStands'
  BY <1>1, EmptySeq DEF TodoStands
<1>8. ASSUME fromBlockL1 # 0 \/ starts' = {First'}
      PROVE  SameStart /\ FirstRead = n /\ FirstRead' = n
  <2>1. CASE fromBlockL1 # 0
    BY <1>1, <2>1 DEF SameStart, FirstRead, StartL1
  <2>2. CASE fromBlockL1 = 0
    <3>1. starts' = {b} /\ starts = {b}
      BY <1>0, <1>1, <1>8, <2>2 DEF CursorsStand
    <3>2. First = b
      BY <1>2, <3>1, OneStart
    <3>3. First' = b
      BY <1>2, <1>8, <2>2, <3>1
    <3>4. QED
      BY <1>1, <2>2, <3>1, <3>2, <3>3 DEF SameStart, FirstRead, StartL1
  <2>3. QED
    BY <2>1, <2>2
<1>9. Dense(A, n)
  <2>1. CASE fromBlockL1 # 0 \/ starts' = {First'}
    BY <1>0, <1>8, <2>1 DEF L1Whole
  <2>2. CASE fromBlockL1 = 0 /\ fromBlock # 0
    <3>1. starts = {b}
      BY <1>0, <1>2, <2>2 DEF CursorsStand
    <3>2. First = b
      BY <1>2, <3>1, OneStart
    <3>3. SameStart /\ FirstRead = n
      BY <2>2, <3>1, <3>2 DEF SameStart, FirstRead, StartL1
    <3>4. QED
      BY <1>0, <3>3 DEF L1Whole
  <2>3. CASE fromBlockL1 = 0 /\ fromBlock = 0
    <3>1. n = blocks[b].l1 /\ b = Len(blocks)
      BY <1>2, <2>3 DEF StartL1
    <3>2. ASSUME NEW p \in A
          PROVE  p <= n
      <4>1. PICK c \in DOMAIN blocks : p <= blocks[c].l1
        BY <1>0 DEF StoredStands
      <4>2. blocks[c].l1 \in Nat /\ c <= b
        BY <1>0, <3>1, <4>1, BlockTyped
      <4>3. blocks[c].l1 <= n
        BY <1>0, <1>2, <3>1, <4>2 DEF ChainStands
      <4>4. QED
        BY <1>2, <1>3, <4>1, <4>2, <4>3
    <3>3. QED
      BY <1>2, <1>3, <3>2 DEF Dense
  <2>4. QED
    BY <2>1, <2>2, <2>3
<1>10. L1Of(stored)' = A
  BY <1>1 DEF L1Of
<1> HIDE DEF n, A
<1>11. L1Ahead'
  BY <1>1, <1>9, <1>10 DEF L1Ahead
<1>12. L1Whole'
  <2>1. SUFFICES ASSUME SameStart' PROVE L1Whole'
    BY DEF L1Whole
  <2>2. SameStart /\ FirstRead = n /\ FirstRead' = n
    BY <1>1, <1>8, <2>1 DEF SameStart
  <2>3. (\A h \in A : h >= n) /\ Dense(A, n)
    BY <1>0, <2>2 DEF L1Whole, A
  <2>4. n <= n /\ \A h \in n..(n - 1) : FALSE
    BY <1>2
  <2>5. QED
    BY <1>1, <1>10, <2>2, <2>3, <2>4 DEF L1Whole
<1>13. QED
  BY <1>4, <1>5, <1>6, <1>7, <1>11, <1>12 DEF ListenerInvariant

-----------------------------------------------------------------------------
(* The invariant.                                                          *)

(* The first start: all blocks are alike, and nothing is stored.           *)
LEMMA InitListener ==
  ASSUME Init
  PROVE  ListenerInvariant
<1>1. /\ FirstHeight \in Nat \ {0} /\ FirstL1 \in Nat /\ fromBlock \in FromBlocks
      /\ fromBlockL1 \in FromBlocksL1 /\ fromBlockL1 \in 0..FirstL1
  BY EspressoAssumption DEF Init
<1>2. /\ DOMAIN blocks = 1..FirstHeight
      /\ \A h \in 1..FirstHeight : blocks[h] = [l1 |-> FirstL1, txs |-> <<>>]
  BY DEF Init
<1>3. [l1 |-> FirstL1, txs |-> <<>>] \in Block
  BY <1>1, EmptySeq DEF Block
<1>4. blocks \in [1..FirstHeight -> Block]
  <2>1. blocks = [h \in 1..FirstHeight |-> [l1 |-> FirstL1, txs |-> <<>>]]
    BY DEF Init
  <2>2. QED
    BY <1>3, <2>1
<1>5. blocks \in Seq(Block)
  BY <1>1, <1>4
<1>6. Len(blocks) = FirstHeight
  <2>1. Len(blocks) \in Nat /\ 1..Len(blocks) = 1..FirstHeight
    BY <1>2, <1>5, LenProperties
  <2>2. QED
    BY <1>1, <2>1, SameLength
<1>7. ChainStands
  <2>1. \A c \in DOMAIN blocks : blocks[c].l1 = FirstL1
    BY <1>2
  <2>2. fromBlockL1 <= FirstL1 /\ FirstL1 <= FirstL1 /\ FirstHeight >= FirstHeight
    BY <1>1
  <2>3. QED
    BY <1>1, <1>5, <1>6, <2>1, <2>2 DEF ChainStands
<1> DEFINE b == StartBlock(blocks)
           n == StartL1(blocks)
<1>8. /\ b \in DOMAIN blocks /\ b \in Nat \ {0} /\ n \in Nat /\ n <= blocks[b].l1
      /\ fromBlock # 0 => b = fromBlock
  BY <1>7, StartFacts, BlockTyped
<1>9. /\ current = b /\ latest = b /\ l1Prev = n /\ starts = {b} /\ todo = <<>>
      /\ stored = <<>> /\ up = TRUE /\ fetched = FALSE /\ skipped = {} /\ faults = 0
  BY DEF Init
<1>10. CursorsStand
  <2>1. b \in 1..b /\ b <= b
    BY <1>8
  <2>2. QED
    BY <1>8, <1>9, <2>1 DEF CursorsStand
<1>11. L1Of(stored) = {} /\ stored \in Seq(Found)
  BY <1>9, EmptySeq, L1OfType
<1>12. StoredStands /\ TodoStands /\ L1Ahead /\ NoncesInOrder
  BY <1>9, <1>11 DEF StoredStands, TodoStands, L1Ahead, NoncesInOrder, Dense
<1>13. First = b
  BY <1>8, <1>9, OneStart
<1>14. L1Whole
  <2>1. FirstRead = n
    BY <1>13 DEF FirstRead, StartL1
  <2>2. n <= n /\ \A h \in n..(n - 1) : FALSE
    BY <1>8
  <2>3. QED
    BY <1>9, <1>11, <2>1, <2>2 DEF L1Whole, Dense
<1>15. QED
  BY <1>7, <1>10, <1>12, <1>14 DEF ListenerInvariant

(* Every step keeps the invariant.                                         *)
LEMMA NextListener ==
  ASSUME ListenerInvariant, [Next]_vars
  PROVE  ListenerInvariant'
<1>1. CASE MineBlock
  BY <1>1, MineBlockKeeps
<1>2. CASE FetchTransactions
  BY <1>2, FetchTransactionsKeeps
<1>3. CASE AddNext
  BY <1>3, AddNextKeeps
<1>4. CASE FetchLatestBlockHeight \/ NextBlock \/ FetchFails \/ Stop
  BY <1>4, MovesKeep
<1>5. CASE Start
  BY <1>5, StartKeeps
<1>6. CASE UNCHANGED vars
  <2>1. /\ ChainStands /\ CursorsStand /\ TodoStands /\ StoredStands /\ L1Ahead
        /\ L1Whole /\ NoncesInOrder
    BY DEF ListenerInvariant
  <2>2. UNCHANGED <<options, blocks, up, current, latest, l1Prev, todo, fetched, stored,
                    starts, skipped, faults, fromBlock>>
    BY <1>6 DEF vars, progress, options
  <2>3. /\ ChainStands' /\ TodoStands' /\ StoredStands' /\ L1Ahead' /\ L1Whole'
        /\ NoncesInOrder'
    BY <2>1, <2>2, ChainKept, ListenerRests DEF CursorsStand
  <2>4. CursorsStand'
    BY <2>1, <2>2 DEF CursorsStand
  <2>5. QED
    BY <2>3, <2>4 DEF ListenerInvariant
<1>7. QED
  BY <1>1, <1>2, <1>3, <1>4, <1>5, <1>6 DEF Next, Worker

(* The invariant holds in every state.                                     *)
LEMMA ListenerStands == Spec => []ListenerInvariant
<1>1. Init => ListenerInvariant
  BY InitListener
<1>2. ListenerInvariant /\ [Next]_vars => ListenerInvariant'
  BY NextListener
<1>3. QED
  BY <1>1, <1>2, PTL DEF Spec

-----------------------------------------------------------------------------

(* Every variable of the listener has its type, and it stays between the   *)
(* block it started from and the latest it knows.                          *)
THEOREM EspressoTypeCorrect == Spec => []TypeOK
<1>1. ListenerInvariant => TypeOK
  <2>1. SUFFICES ASSUME ListenerInvariant PROVE TypeOK
    OBVIOUS
  <2>2. ChainStands /\ CursorsStand /\ TodoStands /\ StoredStands
    BY <2>1 DEF ListenerInvariant
  <2>3. DOMAIN blocks = 1..Len(blocks) /\ Len(blocks) \in Nat
    BY <2>2, LenProperties DEF ChainStands
  <2>4. \E s \in starts : current \in s..latest
    <3>1. PICK s \in starts : s <= current
      BY <2>2 DEF CursorsStand
    <3>2. QED
      BY <2>2, <2>3, <3>1 DEF CursorsStand
  <2>5. QED
    BY <2>2, <2>3, <2>4 DEF TypeOK, ChainStands, CursorsStand, TodoStands, StoredStands, Block
<1>2. QED
  BY <1>1, ListenerStands, PTL

(* Whatever is skipped, read again or passed over by a restart, the inputs *)
(* of the L1 are stored in order, and without a hole if each start reads   *)
(* the L1 from the same block (readL1, espresso_listener.go).              *)
THEOREM L1IsWhole == Spec => []L1WithoutHoles
<1>1. ListenerInvariant => L1WithoutHoles
  <2>1. SUFFICES ASSUME ListenerInvariant PROVE L1WithoutHoles
    OBVIOUS
  <2>2. StoredStands /\ L1Whole
    BY <2>1 DEF ListenerInvariant
  <2> DEFINE l1 == {k \in DOMAIN stored : stored[k].block = 0}
  <2>3. \A j, k \in l1 : j < k => stored[j].pos < stored[k].pos
    BY <2>2 DEF StoredStands
  <2>4. ASSUME SameStart, NEW k \in l1
        PROVE  /\ stored[k].pos >= FirstRead
               /\ \A h \in FirstRead..stored[k].pos : \E j \in l1 : stored[j].pos = h
    <3>1. stored[k].pos \in L1Of(stored)
      BY DEF L1Of
    <3>2. stored[k].pos >= FirstRead /\ \A h \in FirstRead..stored[k].pos : h \in L1Of(stored)
      BY <2>2, <2>4, <3>1 DEF L1Whole, Dense
    <3>3. QED
      BY <3>2 DEF L1Of
  <2>5. QED
    BY <2>3, <2>4 DEF L1WithoutHoles, SameStart
<1>2. QED
  BY <1>1, ListenerStands, PTL

(* A sender's transactions are stored in the order of their nonces, each   *)
(* once, whatever the chain repeats and however often it is read again.    *)
THEOREM NoncesKeepOrder == Spec => []NoncesInOrder
<1>1. ListenerInvariant => NoncesInOrder
  BY DEF ListenerInvariant
<1>2. QED
  BY <1>1, ListenerStands, PTL

(* The least of some numbers.                                              *)
LEMMA LeastOf ==
  ASSUME NEW S \in SUBSET Nat, S # {}
  PROVE  \E n \in S : \A m \in S : n <= m
<1>1. PICK n \in S : \A m \in S : ~ (<<m, n>> \in OpToRel(<, Nat))
  BY NatLessThanWellFounded, WFMin, Zenon
<1>2. \A m \in S : ~ (m < n)
  BY <1>1 DEF OpToRel
<1>3. QED
  BY <1>2

(* All transactions that are stored are for our application.               *)
OnlyOurs == \A k \in DOMAIN stored : stored[k].block # 0 => TxOf(stored[k]).app = "ours"

LEMMA NextOnlyOurs ==
  ASSUME ListenerInvariant, OnlyOurs, [Next]_vars
  PROVE  OnlyOurs'
<1>1. ChainStands /\ TodoStands /\ StoredStands
  BY DEF ListenerInvariant
<1>2. Grown
  <2>1. CASE MineBlock
    BY <1>1, <2>1, ChainGrows
  <2>2. CASE UNCHANGED <<options, blocks>>
    BY <1>1, <2>2, ChainKept
  <2>3. QED
    BY <2>1, <2>2, Zenon DEF Next, Worker, vars, FetchLatestBlockHeight, FetchTransactions,
                             AddNext, NextBlock, FetchFails, Stop, Start, options
<1>3. \A f : Placed(f) /\ f.block # 0 => blocks'[f.block].txs[f.pos] = TxOf(f)
  BY <1>2 DEF Grown, Placed, TxOf
<1> DEFINE Kept(f) == f.block # 0 => blocks'[f.block].txs[f.pos].app = "ours"
<1>4. \A k \in DOMAIN stored : Kept(stored[k])
  BY <1>1, <1>3 DEF StoredStands, OnlyOurs
<1>5. CASE AddNext
  <2>1. PICK e \in Found : e = Head(todo) /\ Placed(e)
    BY <1>1, <1>5, HeadTailProperties, EmptySeq, LenProperties DEF AddNext, TodoStands
  <2>2. stored \in Seq(Found) /\ stored' = Add(stored, e)
    BY <1>1, <1>5, <2>1 DEF AddNext, StoredStands
  <2>3. CASE stored' = stored
    BY <1>4, <2>3 DEF OnlyOurs, TxOf
  <2>4. CASE /\ stored' = Append(stored, e)
             /\ e.block # 0 => TxOf(e).app = "ours"
    <3>1. Kept(e)
      BY <1>3, <2>1, <2>4
    <3>2. ASSUME NEW k \in DOMAIN stored'
          PROVE  (k \in DOMAIN stored /\ stored'[k] = stored[k]) \/ stored'[k] = e
      BY <2>2, <2>4, <3>2, AppendProperties, LenProperties
    <3>3. \A k \in DOMAIN stored' : Kept(stored'[k])
      BY <1>4, <3>1, <3>2
    <3>4. QED
      BY <3>3 DEF OnlyOurs, TxOf
  <2>5. Create(stored, e) \in {stored, Append(stored, e)}
    BY DEF Create
  <2>6. \/ Add(stored, e) = Create(stored, e) /\ (e.block # 0 => TxOf(e).app = "ours")
        \/ Add(stored, e) = stored
    BY DEF Add, AddTx
  <2>7. QED
    BY <2>2, <2>3, <2>4, <2>5, <2>6
<1>6. CASE UNCHANGED stored
  BY <1>4, <1>6 DEF OnlyOurs, TxOf
<1>7. QED
  BY <1>5, <1>6 DEF Next, Worker, vars, MineBlock, FetchLatestBlockHeight, FetchTransactions,
                    NextBlock, FetchFails, Stop, Start

(* A sender that counts its nonces from 1, as espresso_listener.go:204     *)
(* tells it to, has nothing stored, on any chain and with any options: the *)
(* first transaction stored of a sender has the nonce 0.                   *)
THEOREM CountedFromOneIsLost == Spec => []CountingFromOneStoresNone
<1>1. ListenerInvariant /\ OnlyOurs => CountingFromOneStoresNone
  <2>1. SUFFICES ASSUME ListenerInvariant, OnlyOurs, NoncesFrom(1),
                        NEW k0 \in DOMAIN stored, stored[k0].block # 0
                 PROVE  FALSE
    BY DEF CountingFromOneStoresNone
  <2>2. DOMAIN stored \subseteq Nat
    BY <2>1, LenProperties DEF ListenerInvariant, StoredStands
  <2> DEFINE K == {k \in DOMAIN stored : stored[k].block # 0}
  <2>3. PICK k \in K : \A j \in K : k <= j
    BY <2>1, <2>2, LeastOf
  <2>4. {j \in 1..(k - 1) : /\ stored[j].block # 0
                            /\ TxOf(stored[j]).sender = TxOf(stored[k]).sender} = {}
    BY <2>1, <2>2, <2>3, LenProperties DEF ListenerInvariant, StoredStands
  <2>5. TxOf(stored[k]).nonce = 0
    BY <2>1, <2>3, <2>4, FS_EmptySet DEF ListenerInvariant, NoncesInOrder
  <2>6. /\ stored[k].block \in DOMAIN blocks
        /\ stored[k].pos \in DOMAIN blocks[stored[k].block].txs
        /\ TxOf(stored[k]).app = "ours"
    BY <2>1, <2>3 DEF ListenerInvariant, StoredStands, Placed, OnlyOurs
  <2>7. TxOf(stored[k]) = TxOf(TxAt(stored[k].block, stored[k].pos))
    BY DEF TxOf, TxAt
  <2>8. QED
    BY <2>1, <2>5, <2>6, <2>7 DEF NoncesFrom
<1>2. Init => OnlyOurs
  BY DEF Init, OnlyOurs
<1>3. ListenerInvariant /\ OnlyOurs /\ [Next]_vars => OnlyOurs'
  BY NextOnlyOurs
<1>4. QED
  BY <1>1, <1>2, <1>3, ListenerStands, PTL DEF Spec
-----------------------------------------------------------------------------
(* What the chains call for, and its order.                                *)

(* An input is where it was found.                                         *)
LEMMA SameFound ==
  ASSUME NEW e \in Found, NEW f \in Found, e.block = f.block, e.pos = f.pos
  PROVE  e = f
  BY DEF Found

(* The chain, and where the listener has started on it.                    *)
Standing ==
  /\ ChainStands
  /\ First \in DOMAIN blocks
  /\ FirstRead \in Nat
  /\ FirstRead <= blocks[First].l1

(* A listener that always starts from one block stands.                    *)
LEMMA WhenStanding ==
  ASSUME ChainStands, CursorsStand, starts = {First}
  PROVE  Standing /\ First <= current
<1>1. First \in DOMAIN blocks
  BY DEF CursorsStand
<1>2. First <= current
  BY DEF CursorsStand
<1>3. blocks[First].l1 \in Nat
  BY <1>1, BlockTyped
<1>4. CASE fromBlockL1 # 0
  BY <1>1, <1>2, <1>4, EspressoAssumption DEF Standing, FirstRead, ChainStands
<1>5. CASE fromBlockL1 = 0
  BY <1>1, <1>2, <1>3, <1>5 DEF Standing, FirstRead
<1>6. QED
  BY <1>4, <1>5

(* The L1 is read further by later blocks.                                 *)
LEMMA ReadUpToGrows ==
  ASSUME Standing, NEW b \in 0..Len(blocks), NEW c \in 0..Len(blocks), b <= c
  PROVE  /\ ReadUpTo(b) \in Int /\ FirstRead - 1 <= ReadUpTo(b)
         /\ ReadUpTo(b) <= ReadUpTo(c)
<1>1. /\ Len(blocks) \in Nat /\ DOMAIN blocks = 1..Len(blocks) /\ First \in 1..Len(blocks)
      /\ FirstRead \in Nat /\ FirstRead <= blocks[First].l1
      /\ \A h \in DOMAIN blocks : blocks[h].l1 \in Nat
      /\ \A h, k \in DOMAIN blocks : h <= k => blocks[h].l1 <= blocks[k].l1
  BY LenProperties, BlockTyped DEF Standing, ChainStands
<1>2. ASSUME NEW h \in 0..Len(blocks)
      PROVE  \/ h < First /\ ReadUpTo(h) = FirstRead - 1
             \/ /\ h \in DOMAIN blocks /\ First <= h
                /\ fromBlock = 0 /\ blocks[h].l1 = FirstRead
                /\ ReadUpTo(h) = FirstRead - 1
             \/ /\ h \in DOMAIN blocks /\ First <= h
                /\ ~(fromBlock = 0 /\ blocks[h].l1 = FirstRead)
                /\ ReadUpTo(h) = blocks[h].l1 /\ FirstRead <= blocks[h].l1
  <2>1. h < First \/ (h \in DOMAIN blocks /\ First <= h)
    BY <1>1
  <2>2. CASE h < First
    BY <2>2 DEF ReadUpTo
  <2>3. CASE h \in DOMAIN blocks /\ First <= h
    <3>1. FirstRead <= blocks[h].l1 /\ ~(h < First)
      BY <1>1, <2>3
    <3>2. QED
      BY <2>3, <3>1 DEF ReadUpTo
  <2>4. QED
    BY <2>1, <2>2, <2>3
<1>3. ReadUpTo(b) \in Int /\ FirstRead - 1 <= ReadUpTo(b)
  BY <1>1, <1>2
<1>4. ReadUpTo(c) \in Int /\ FirstRead - 1 <= ReadUpTo(c)
  BY <1>1, <1>2
<1>5. ReadUpTo(b) <= ReadUpTo(c)
  <2>1. CASE ReadUpTo(b) = FirstRead - 1
    BY <1>4, <2>1
  <2>2. CASE ReadUpTo(b) # FirstRead - 1
    <3>1. /\ b \in DOMAIN blocks /\ First <= b
          /\ ~(fromBlock = 0 /\ blocks[b].l1 = FirstRead)
          /\ ReadUpTo(b) = blocks[b].l1 /\ FirstRead <= blocks[b].l1
      BY <1>2, <2>2
    <3>2. c \in DOMAIN blocks /\ ~(c < First) /\ blocks[b].l1 <= blocks[c].l1
      BY <1>1, <3>1
    <3>3. ~(fromBlock = 0 /\ blocks[c].l1 = FirstRead)
      BY <1>1, <3>1, <3>2
    <3>4. ReadUpTo(c) = blocks[c].l1
      BY <1>2, <3>2, <3>3
    <3>5. QED
      BY <3>1, <3>2, <3>4
  <2>3. QED
    BY <2>1, <2>2
<1>6. QED
  BY <1>3, <1>5

(* Two inputs of the chain come one after the other.                       *)
LEMMA OrderIsTotal ==
  ASSUME Standing, NEW e, NEW f, Placed(e), Placed(f)
  PROVE  /\ Precedes(e, f) => ~Precedes(f, e)
         /\ e # f => Precedes(e, f) \/ Precedes(f, e)
<1>1. /\ e \in Found /\ f \in Found
      /\ e.block \in Nat /\ e.pos \in Nat /\ f.block \in Nat /\ f.pos \in Nat
  BY DEF Placed, Found
<1>2. e.block = f.block /\ e.pos = f.pos => e = f
  BY <1>1 DEF Found
<1>3. /\ e.block # 0 => ReadUpTo(e.block) \in Int
      /\ f.block # 0 => ReadUpTo(f.block) \in Int
  <2>1. DOMAIN blocks = 1..Len(blocks) /\ Len(blocks) \in Nat
    BY LenProperties DEF Standing, ChainStands
  <2>2. \A b \in 1..Len(blocks) : b \in 0..Len(blocks) /\ b <= b
    BY <2>1
  <2>3. \A b \in 1..Len(blocks) : ReadUpTo(b) \in Int
    BY <2>2, ReadUpToGrows
  <2>4. QED
    BY <2>1, <2>3 DEF Placed
<1>4. CASE e.block = 0 /\ f.block = 0
  BY <1>1, <1>2, <1>4 DEF Precedes
<1>5. CASE e.block = 0 /\ f.block # 0
  BY <1>1, <1>3, <1>5 DEF Precedes
<1>6. CASE e.block # 0 /\ f.block = 0
  BY <1>1, <1>3, <1>6 DEF Precedes
<1>7. CASE e.block # 0 /\ f.block # 0
  BY <1>1, <1>2, <1>7 DEF Precedes
<1>8. QED
  BY <1>4, <1>5, <1>6, <1>7

(* The transactions of the blocks First..n.                                *)
LEMMA TransactionsHave ==
  ASSUME Standing, NEW n \in 0..Len(blocks), NEW e
  PROVE  e \in Transactions(n) <=>
           /\ e \in Found /\ e.block # 0 /\ Placed(e)
           /\ e.block \in First..n
           /\ TxOf(e).app = "ours"
<1>1. /\ Len(blocks) \in Nat /\ DOMAIN blocks = 1..Len(blocks) /\ First \in 1..Len(blocks)
      /\ \A c \in DOMAIN blocks : blocks[c].txs \in Seq(Tx)
  BY LenProperties, BlockTyped DEF Standing, ChainStands
<1>2. \A c \in First..n : c \in DOMAIN blocks /\ c \in Nat /\ c # 0
  BY <1>1
<1>3. ASSUME NEW c \in First..n, NEW i \in DOMAIN blocks[c].txs
      PROVE  /\ TxAt(c, i) \in Found /\ TxAt(c, i).block = c /\ TxAt(c, i).pos = i
             /\ Placed(TxAt(c, i))
  <2>1. i \in Nat
    BY <1>1, <1>2, LenProperties
  <2>2. TxAt(c, i) \in Found /\ TxAt(c, i).block = c /\ TxAt(c, i).pos = i
    BY <1>2, <2>1 DEF TxAt, Found
  <2>3. QED
    BY <1>2, <2>2 DEF Placed
<1>4. ASSUME e \in Transactions(n)
      PROVE  /\ e \in Found /\ e.block # 0 /\ Placed(e)
             /\ e.block \in First..n
             /\ TxOf(e).app = "ours"
  <2>1. PICK c \in First..n : \E i \in DOMAIN blocks[c].txs : e = TxAt(c, i)
    BY <1>4 DEF Transactions
  <2>2. QED
    BY <1>2, <1>3, <1>4, <2>1 DEF Transactions
<1>5. ASSUME e \in Found, e.block # 0, Placed(e), e.block \in First..n, TxOf(e).app = "ours"
      PROVE  e \in Transactions(n)
  <2>1. e = TxAt(e.block, e.pos) /\ e.pos \in DOMAIN blocks[e.block].txs
    BY <1>5 DEF Found, TxAt, Placed
  <2>2. QED
    BY <1>5, <2>1 DEF Transactions
<1>6. QED
  BY <1>4, <1>5

(* What is called for up to block n.                                       *)
LEMMA CalledForHas ==
  ASSUME Standing, NEW n \in 0..Len(blocks), NEW e \in Found
  PROVE  /\ e.block = 0 => (e \in CalledFor(n) <=> e.pos \in FirstRead..ReadUpTo(n))
         /\ e.block # 0 =>
              (e \in CalledFor(n) <=>
                 /\ e \in Transactions(n)
                 /\ \A f \in Transactions(n) : Precedes(f, e) => Id(f) # Id(e))
<1>1. \A h : L1Input(h).block = 0 /\ L1Input(h).pos = h
  BY DEF L1Input
<1>2. e.block = 0 => e = L1Input(e.pos)
  BY DEF Found, L1Input
<1>3. \A f \in Transactions(n) : f.block # 0
  BY TransactionsHave
<1>4. QED
  BY <1>1, <1>2, <1>3 DEF CalledFor

(* It is on the chain.                                                     *)
LEMMA CalledIsPlaced ==
  ASSUME Standing, NEW n \in 0..Len(blocks), NEW e \in CalledFor(n)
  PROVE  /\ e \in Found /\ Placed(e)
         /\ e.block # 0 => e \in Transactions(n)
<1>1. CASE e \in Transactions(n)
  BY <1>1, TransactionsHave
<1>2. CASE \E h \in FirstRead..ReadUpTo(n) : e = L1Input(h)
  <2>1. PICK h \in FirstRead..ReadUpTo(n) : e = L1Input(h)
    BY <1>2
  <2>2. h \in Nat
    BY DEF Standing
  <2>3. e \in Found /\ e.block = 0
    BY <2>1, <2>2 DEF L1Input, Found
  <2>4. QED
    BY <2>3 DEF Placed
<1>3. QED
  BY <1>1, <1>2 DEF CalledFor

(* More blocks call for more, and not for anything else of the first ones. *)
LEMMA CalledForGrows ==
  ASSUME Standing, NEW n \in 0..Len(blocks), NEW m \in 0..Len(blocks), n <= m, NEW e
  PROVE  /\ e \in CalledFor(n) => e \in CalledFor(m)
         /\ /\ e \in CalledFor(m)
            /\ e.block = 0 => e.pos <= ReadUpTo(n)
            /\ e.block # 0 => e.block <= n
            => e \in CalledFor(n)
<1>1. /\ ReadUpTo(n) \in Int /\ ReadUpTo(m) \in Int /\ ReadUpTo(n) <= ReadUpTo(m)
      /\ FirstRead \in Nat
  BY ReadUpToGrows DEF Standing
<1>2. First \in Nat /\ Len(blocks) \in Nat
  BY LenProperties, BlockTyped DEF Standing, ChainStands
<1>3. ASSUME NEW f
      PROVE  f \in Transactions(n) <=> f \in Transactions(m) /\ f.block <= n
  <2>1. f.block \in First..n <=> f.block \in First..m /\ f.block <= n
    BY <1>2
  <2>2. QED
    BY <2>1, TransactionsHave
<1>4. ASSUME NEW f \in Transactions(m), e \in Found, e.block # 0, e.block <= n, Precedes(f, e)
      PROVE  f \in Transactions(n)
  <2>1. f.block \in Nat /\ f.block # 0 /\ e.block \in Nat
    BY <1>4, TransactionsHave DEF Found
  <2>2. f.block <= n
    BY <1>4, <2>1 DEF Precedes
  <2>3. QED
    BY <1>3, <1>4, <2>2
<1>5. ASSUME e \in CalledFor(n)
      PROVE  e \in CalledFor(m)
  <2>1. e \in Found /\ Placed(e) /\ (e.block # 0 => e \in Transactions(n))
    BY <1>5, CalledIsPlaced
  <2>2. CASE e.block = 0
    <3>1. e.pos \in FirstRead..ReadUpTo(n)
      BY <1>5, <2>1, <2>2, CalledForHas
    <3>2. e.pos \in FirstRead..ReadUpTo(m)
      BY <1>1, <3>1
    <3>3. QED
      BY <2>1, <2>2, <3>2, CalledForHas
  <2>3. CASE e.block # 0
    <3>1. e \in Transactions(m) /\ e.block <= n
      BY <1>3, <2>1, <2>3
    <3>2. \A f \in Transactions(n) : Precedes(f, e) => Id(f) # Id(e)
      BY <1>5, <2>1, <2>3, CalledForHas
    <3>3. \A f \in Transactions(m) : Precedes(f, e) => Id(f) # Id(e)
      BY <1>4, <2>1, <2>3, <3>1, <3>2
    <3>4. QED
      BY <2>1, <2>3, <3>1, <3>3, CalledForHas
  <2>4. QED
    BY <2>2, <2>3
<1>6. ASSUME e \in CalledFor(m), e.block = 0 => e.pos <= ReadUpTo(n), e.block # 0 => e.block <= n
      PROVE  e \in CalledFor(n)
  <2>1. e \in Found /\ Placed(e) /\ (e.block # 0 => e \in Transactions(m))
    BY <1>6, CalledIsPlaced
  <2>2. CASE e.block = 0
    <3>1. e.pos \in FirstRead..ReadUpTo(m)
      BY <1>6, <2>1, <2>2, CalledForHas
    <3>2. e.pos \in FirstRead..ReadUpTo(n)
      BY <1>1, <1>6, <2>2, <3>1
    <3>3. QED
      BY <2>1, <2>2, <3>2, CalledForHas
  <2>3. CASE e.block # 0
    <3>1. e \in Transactions(n)
      BY <1>3, <1>6, <2>1, <2>3
    <3>2. \A f \in Transactions(m) : Precedes(f, e) => Id(f) # Id(e)
      BY <1>6, <2>1, <2>3, CalledForHas
    <3>3. QED
      BY <1>3, <2>1, <2>3, <3>1, <3>2, CalledForHas
  <2>4. QED
    BY <2>2, <2>3
<1>7. QED
  BY <1>5, <1>6

(* Where a transaction of ours comes first it is called for.               *)
LEMMA FirstOccurrence ==
  ASSUME Standing, NEW n \in 0..Len(blocks), NEW e \in Transactions(n)
  PROVE  \E g \in CalledFor(n) :
           g.block # 0 /\ Id(g) = Id(e) /\ (g = e \/ Precedes(g, e))
<1> DEFINE P == {f \in Transactions(n) : Id(f) = Id(e)}
           B == {f.block : f \in P}
<1>1. \A f \in Transactions(n) :
        f \in Found /\ f.block # 0 /\ f.block \in Nat /\ f.pos \in Nat /\ Placed(f)
  BY TransactionsHave DEF Found
<1>2. PICK g0 \in P : \A f \in P : g0.block <= f.block
  <2>1. B \in SUBSET Nat /\ B # {}
    BY <1>1
  <2>2. PICK b \in B : \A m \in B : b <= m
    BY <2>1, LeastOf
  <2>3. QED
    BY <2>2
<1> DEFINE Q == {f \in P : f.block = g0.block}
           I == {f.pos : f \in Q}
<1>3. PICK g \in Q : \A f \in Q : g.pos <= f.pos
  <2>1. I \in SUBSET Nat /\ I # {}
    BY <1>1
  <2>2. PICK b \in I : \A m \in I : b <= m
    BY <2>1, LeastOf
  <2>3. QED
    BY <2>2
<1>4. g \in Transactions(n) /\ Id(g) = Id(e) /\ g.block # 0 /\ g.block = g0.block
  BY <1>1, <1>3
<1>5. \A f \in P : ~Precedes(f, g)
  <2>1. SUFFICES ASSUME NEW f \in P, Precedes(f, g) PROVE FALSE
    OBVIOUS
  <2>2. f.block < g.block \/ (f.block = g.block /\ f.pos < g.pos)
    BY <1>1, <1>4, <2>1 DEF Precedes
  <2>3. CASE f.block < g.block
    BY <1>1, <1>2, <1>4, <2>3
  <2>4. CASE f.block = g.block /\ f.pos < g.pos
    <3>1. f \in Q
      BY <1>4, <2>4
    <3>2. QED
      BY <1>1, <1>3, <1>4, <2>4, <3>1
  <2>5. QED
    BY <2>2, <2>3, <2>4
<1>6. g \in CalledFor(n)
  BY <1>1, <1>4, <1>5, CalledForHas
<1>7. g = e \/ Precedes(g, e)
  BY <1>1, <1>4, <1>5, OrderIsTotal
<1>8. QED
  BY <1>4, <1>6, <1>7

-----------------------------------------------------------------------------
(* Turns.                                                                  *)

(* There is nothing in the blocks that were there when the listener first  *)
(* started, and it has never started behind them.                          *)
FirstsEmpty ==
  /\ \A b \in 1..FirstHeight : blocks[b].txs = <<>>
  /\ \E s \in starts : s <= FirstHeight

(* The nonces of what s has of a sender are those below the next one.      *)
HasNonces(s) ==
  \A sender \in Senders : \A m \in Nat :
    m < GetNonce(s, sender) <=>
      \E k \in DOMAIN s : /\ s[k].block # 0
                          /\ TxOf(s[k]).sender = sender
                          /\ TxOf(s[k]).nonce = m

NoncesStored == HasNonces(stored)

(* A transaction of ours is its sender and its nonce.                      *)
LEMMA OursAre ==
  ASSUME Standing, NEW n \in 0..Len(blocks), NEW e \in Transactions(n)
  PROVE  /\ TxOf(e).sender \in Senders /\ TxOf(e).nonce \in Nat
         /\ TxOf(e).app = "ours"
         /\ TxOf(e) \in Ours
         /\ e.block # 0 /\ e.block \in Nat /\ e.pos \in Nat
         /\ Placed(e)
<1>1. /\ e \in Found /\ e.block # 0 /\ Placed(e) /\ TxOf(e).app = "ours"
      /\ e.block \in Nat /\ e.pos \in Nat
  BY TransactionsHave DEF Found
<1>2. blocks[e.block] \in Block
  BY <1>1, ElementOfSeq, LenProperties DEF Standing, ChainStands, Placed
<1>3. blocks[e.block].txs \in Seq(Tx)
  BY <1>2 DEF Block
<1>4. TxOf(e) \in Tx
  BY <1>1, <1>3, ElementOfSeq, LenProperties DEF TxOf, Placed
<1>5. TxOf(e) \in Ours
  BY <1>1, <1>4 DEF Tx
<1>6. TxOf(e).sender \in Senders /\ TxOf(e).nonce \in Nat
  BY <1>5 DEF Ours
<1>7. QED
  BY <1>1, <1>5, <1>6

(* Transactions are one row if sender and nonce are the same.              *)
LEMMA SameId ==
  ASSUME NEW e, NEW f, e.block # 0, f.block # 0
  PROVE  Id(e) = Id(f) <=>
           TxOf(e).sender = TxOf(f).sender /\ TxOf(e).nonce = TxOf(f).nonce
  BY DEF Id

(* A nonce that is not the first comes after the one below it.             *)
LEMMA NonceBelow ==
  ASSUME Standing, FirstsEmpty, starts = {First}, NoncesFrom(0),
         NEW n \in 0..Len(blocks), NEW e \in Transactions(n), TxOf(e).nonce > 0
  PROVE  \E f \in Transactions(n) :
           /\ Precedes(f, e)
           /\ TxOf(f).sender = TxOf(e).sender
           /\ TxOf(f).nonce = TxOf(e).nonce - 1
<1>1. /\ e \in Found /\ e.block # 0 /\ Placed(e) /\ e.block \in First..n
      /\ TxOf(e).app = "ours" /\ e.block \in Nat /\ e.pos \in Nat
  BY TransactionsHave DEF Found
<1>2. TxOf(e) \in Ours
  BY OursAre
<1>3. e = TxAt(e.block, e.pos)
  BY <1>1 DEF Found, TxAt
<1>4. e.block \in DOMAIN blocks /\ e.pos \in DOMAIN blocks[e.block].txs
  BY <1>1 DEF Placed
<1>5. PICK c \in 1..e.block : \E j \in DOMAIN blocks[c].txs :
        /\ c < e.block \/ j < e.pos
        /\ TxOf(TxAt(c, j)) = [TxOf(e) EXCEPT !.nonce = @ - 1]
  BY <1>1, <1>3, <1>4 DEF NoncesFrom
<1>6. PICK j \in DOMAIN blocks[c].txs :
         /\ c < e.block \/ j < e.pos
         /\ TxOf(TxAt(c, j)) = [TxOf(e) EXCEPT !.nonce = @ - 1]
  BY <1>5
<1>7. /\ Len(blocks) \in Nat /\ DOMAIN blocks = 1..Len(blocks) /\ First \in 1..Len(blocks)
      /\ c \in DOMAIN blocks /\ c \in Nat /\ c # 0
  BY <1>1, <1>4, LenProperties DEF Standing, ChainStands
<1>8. j \in Nat
  BY <1>6, <1>7, BlockTyped, LenProperties DEF Standing
<1>9. First <= c
  <2>1. First <= FirstHeight /\ FirstHeight \in Nat
    BY EspressoAssumption DEF FirstsEmpty
  <2>2. c \notin 1..FirstHeight
    <3>1. SUFFICES ASSUME c \in 1..FirstHeight PROVE FALSE
      OBVIOUS
    <3>2. blocks[c].txs = <<>>
      BY <3>1 DEF FirstsEmpty
    <3>3. j \in DOMAIN <<>>
      BY <1>6, <3>2
    <3>4. QED
      BY <3>3
  <2>3. QED
    BY <1>7, <2>1, <2>2
<1> DEFINE f == TxAt(c, j)
<1>10. f \in Found /\ f.block = c /\ f.pos = j
  BY <1>7, <1>8 DEF TxAt, Found
<1>11. TxOf(f).sender = TxOf(e).sender /\ TxOf(f).nonce = TxOf(e).nonce - 1
         /\ TxOf(f).app = "ours"
  BY <1>2, <1>6 DEF Ours
<1>12. Placed(f)
  BY <1>6, <1>7, <1>10 DEF Placed
<1> HIDE DEF f
<1>13. f.block \in First..n
  BY <1>1, <1>7, <1>9, <1>10
<1>14. f \in Transactions(n)
  BY <1>7, <1>10, <1>11, <1>12, <1>13, TransactionsHave
<1>15. Precedes(f, e)
  <2>1. c < e.block \/ (c = e.block /\ j < e.pos)
    BY <1>1, <1>6, <1>7
  <2>2. QED
    BY <1>1, <1>7, <1>10, <2>1 DEF Precedes
<1>16. QED
  BY <1>11, <1>14, <1>15

(* What comes in its turn is added, and nothing else is: once all that is  *)
(* called for before it is stored, an input is stored, or is new and       *)
(* called for.                                                             *)
LEMMA AddedInTurn ==
  ASSUME Standing, FirstsEmpty, starts = {First}, NoncesFrom(0), NoncesStored,
         stored \in Seq(Found),
         ToSet(stored) \subseteq CalledFor(Len(blocks)),
         NEW e, Placed(e),
         e.block = 0 => e.pos \in FirstRead..ReadUpTo(Len(blocks)),
         e.block # 0 => e.block \in First..Len(blocks),
         \A f \in CalledFor(Len(blocks)) : Precedes(f, e) => f \in ToSet(stored)
  PROVE  \/ /\ Add(stored, e) = Append(stored, e)
            /\ e \in CalledFor(Len(blocks)) /\ e \notin ToSet(stored)
         \/ /\ Add(stored, e) = stored
            /\ e \in CalledFor(Len(blocks)) => e \in ToSet(stored)
<1> DEFINE N == Len(blocks)
           held == ToSet(stored)
<1>1. N \in Nat /\ N \in 0..N /\ e \in Found /\ e.block \in Nat
  BY LenProperties DEF Standing, ChainStands, Placed, Found
<1>2. held = {stored[k] : k \in DOMAIN stored} /\ \A k \in DOMAIN stored : stored[k] \in Found
  BY ElementOfSeq, LenProperties DEF ToSet
<1> HIDE DEF N, held
<1>3. CASE e.block = 0
  <2>1. e \in CalledFor(N)
    BY <1>1, <1>3, CalledForHas DEF N
  <2>2. e \in held <=> e.pos \in L1Of(stored)
    <3>1. ASSUME e \in held PROVE e.pos \in L1Of(stored)
      BY <1>2, <1>3, <3>1 DEF L1Of
    <3>2. ASSUME e.pos \in L1Of(stored) PROVE e \in held
      <4>1. PICK k \in DOMAIN stored : stored[k].block = 0 /\ stored[k].pos = e.pos
        BY <3>2 DEF L1Of
      <4>2. stored[k] \in Found /\ e \in Found /\ stored[k].block = e.block
        BY <1>1, <1>2, <1>3, <4>1
      <4>3. stored[k] = e
        BY <4>1, <4>2, SameFound
      <4>4. QED
        BY <1>2, <4>3
    <3>3. QED
      BY <3>1, <3>2
  <2>3. QED
    BY <1>1, <1>3, <2>1, <2>2, AddCases DEF N, held
<1>4. CASE e.block # 0 /\ TxOf(e).app # "ours"
  <2>1. Add(stored, e) = stored
    BY <1>4 DEF Add, AddTx
  <2>2. e \notin CalledFor(N)
    BY <1>1, <1>4, CalledForHas, TransactionsHave DEF N
  <2>3. QED
    BY <2>1, <2>2 DEF N
<1>5. CASE e.block # 0 /\ TxOf(e).app = "ours"
  <2>1. e \in Transactions(N)
    BY <1>1, <1>5, TransactionsHave DEF N
  <2> DEFINE m == TxOf(e).nonce
             sender == TxOf(e).sender
             c == GetNonce(stored, sender)
  <2>2. m \in Nat /\ sender \in Senders
    BY <1>1, <2>1, OursAre DEF N
  <2>3. \A p \in Nat : p < c <=>
          \E k \in DOMAIN stored : /\ stored[k].block # 0
                                   /\ TxOf(stored[k]).sender = sender
                                   /\ TxOf(stored[k]).nonce = p
    BY <2>2 DEF NoncesStored, HasNonces
  <2>4. c \in Nat
    <3>1. DOMAIN stored = 1..Len(stored) /\ Len(stored) \in Nat
      BY LenProperties
    <3>2. IsFiniteSet(DOMAIN stored)
      BY <3>1, FS_Interval
    <3>3. IsFiniteSet({k \in DOMAIN stored :
                         stored[k].block # 0 /\ TxOf(stored[k]).sender = sender})
      BY <3>2, FS_Subset
    <3>4. QED
      BY <3>3, FS_CardinalityType DEF GetNonce
  <2> HIDE DEF m, sender, c
  (* What has the row of e and is stored, has a nonce below the next one. *)
  <2>5. ASSUME NEW g \in held, g.block # 0, Id(g) = Id(e)
        PROVE  m < c
    <3>1. PICK k \in DOMAIN stored : stored[k] = g
      BY <1>2
    <3>2. TxOf(g).sender = sender /\ TxOf(g).nonce = m
      BY <1>5, <2>5, SameId DEF m, sender
    <3>3. QED
      BY <2>2, <2>3, <2>5, <3>1, <3>2
  <2>6. m # c => Add(stored, e) = stored
    BY <1>5 DEF Add, AddTx, m, c, sender
  <2>7. CASE e \in CalledFor(N) /\ e \in held
    <3>1. m < c
      BY <1>5, <2>5, <2>7
    <3>2. m # c
      BY <2>2, <2>4, <3>1
    <3>3. QED
      BY <2>6, <2>7, <3>2 DEF held
  <2>8. CASE e \in CalledFor(N) /\ e \notin held
    <3>1. \A g \in Transactions(N) : Precedes(g, e) => Id(g) # Id(e)
      BY <1>1, <1>5, <2>8, CalledForHas DEF N
    <3>2. ASSUME NEW k \in DOMAIN stored, stored[k].block # 0, Id(stored[k]) = Id(e)
          PROVE  FALSE
      <4>1. stored[k] \in CalledFor(N) /\ stored[k] # e /\ stored[k] \in Found
        BY <1>2, <2>8 DEF N, held
      <4>2. stored[k] \in Transactions(N) /\ Placed(stored[k])
        BY <1>1, <3>2, <4>1, CalledIsPlaced DEF N
      <4>3. \A g \in Transactions(N) : Precedes(g, stored[k]) => Id(g) # Id(stored[k])
        BY <1>1, <3>2, <4>1, CalledForHas DEF N
      <4>4. ~Precedes(stored[k], e) /\ ~Precedes(e, stored[k])
        BY <2>1, <3>1, <3>2, <4>2, <4>3
      <4>5. QED
        BY <4>1, <4>2, <4>4, OrderIsTotal
    <3>3. ~(m < c)
      <4>1. SUFFICES ASSUME m < c PROVE FALSE
        OBVIOUS
      <4>2. PICK k \in DOMAIN stored : /\ stored[k].block # 0
                                       /\ TxOf(stored[k]).sender = sender
                                       /\ TxOf(stored[k]).nonce = m
        BY <2>2, <2>3, <4>1
      <4>3. Id(stored[k]) = Id(e)
        BY <1>5, <4>2, SameId DEF m, sender
      <4>4. QED
        BY <3>2, <4>2, <4>3
    <3>4. m > 0 => m - 1 < c
      <4>1. SUFFICES ASSUME m > 0 PROVE m - 1 < c
        OBVIOUS
      <4>2. PICK f \in Transactions(N) : /\ Precedes(f, e)
                                         /\ TxOf(f).sender = sender
                                         /\ TxOf(f).nonce = m - 1
        BY <1>1, <2>1, <4>1, NonceBelow DEF N, m, sender
      <4>3. PICK g \in CalledFor(N) :
              g.block # 0 /\ Id(g) = Id(f) /\ (g = f \/ Precedes(g, f))
        BY <1>1, FirstOccurrence DEF N
      <4>4. /\ f.block # 0 /\ f.block \in Nat /\ f.pos \in Nat
            /\ g \in Transactions(N) /\ g.block \in Nat /\ g.pos \in Nat
            /\ e.block \in Nat /\ e.pos \in Nat
        BY <1>1, <2>1, <4>3, OursAre, CalledIsPlaced DEF N
      <4>5. Precedes(g, e)
        BY <1>5, <4>2, <4>3, <4>4 DEF Precedes
      <4>6. g \in held
        BY <4>3, <4>5 DEF N, held
      <4>7. PICK k \in DOMAIN stored : stored[k] = g
        BY <1>2, <4>6
      <4>8. TxOf(g).sender = sender /\ TxOf(g).nonce = m - 1
        BY <4>2, <4>3, <4>4, SameId
      <4>9. m - 1 \in Nat
        BY <2>2, <4>1
      <4>10. QED
        BY <2>3, <4>3, <4>7, <4>8, <4>9
    <3>5. m = c
      BY <2>2, <2>4, <3>3, <3>4
    <3>6. \A k \in DOMAIN stored : Id(stored[k]) # Id(e)
      <4>1. ASSUME NEW k \in DOMAIN stored, stored[k].block = 0
            PROVE  Id(stored[k]) # Id(e)
        BY <1>5, <4>1, IdsDiffer DEF Id
      <4>2. QED
        BY <3>2, <4>1
    <3>7. Add(stored, e) = Append(stored, e)
      BY <1>5, <3>5, <3>6 DEF Add, AddTx, Create, m, c, sender
    <3>8. QED
      BY <2>8, <3>7 DEF N, held
  <2>9. CASE e \notin CalledFor(N)
    <3>1. PICK g \in CalledFor(N) :
            g.block # 0 /\ Id(g) = Id(e) /\ (g = e \/ Precedes(g, e))
      BY <1>1, <2>1, FirstOccurrence DEF N
    <3>2. g \in held
      BY <2>9, <3>1 DEF N, held
    <3>3. m # c
      BY <2>2, <2>4, <2>5, <3>1, <3>2
    <3>4. QED
      BY <2>6, <2>9, <3>3 DEF N
  <2>10. QED
    BY <2>7, <2>8, <2>9
<1>6. QED
  BY <1>3, <1>4, <1>5

-----------------------------------------------------------------------------
(* The chain grows under what it calls for.                                *)

(* What comes before something of the first blocks is called for by them.  *)
LEMMA EarlierCalled ==
  ASSUME Standing, NEW n \in 0..Len(blocks), NEW m \in 0..Len(blocks), n <= m,
         NEW e \in CalledFor(m), NEW s, Placed(s), Precedes(e, s),
         s.block = 0 => s.pos <= ReadUpTo(n),
         s.block # 0 => s.block <= n
  PROVE  e \in CalledFor(n)
<1>1. /\ e \in Found /\ Placed(e) /\ s \in Found
      /\ e.block \in Nat /\ e.pos \in Nat /\ s.block \in Nat /\ s.pos \in Nat
  BY CalledIsPlaced DEF Found, Placed
<1>2. /\ Len(blocks) \in Nat
      /\ e.block # 0 => e.block \in 0..Len(blocks)
      /\ s.block # 0 => s.block \in 0..Len(blocks)
  BY <1>1, LenProperties DEF Standing, ChainStands, Placed
<1>3. CASE e.block = 0 /\ s.block = 0
  <2>1. e.pos < s.pos /\ ReadUpTo(n) \in Int
    BY <1>3, ReadUpToGrows DEF Precedes
  <2>2. e.pos <= ReadUpTo(n)
    BY <1>1, <1>3, <2>1
  <2>3. QED
    BY <1>3, <2>2, CalledForGrows
<1>4. CASE e.block = 0 /\ s.block # 0
  <2>1. e.pos <= ReadUpTo(s.block)
    BY <1>4 DEF Precedes
  <2>2. ReadUpTo(s.block) \in Int /\ ReadUpTo(n) \in Int /\ ReadUpTo(s.block) <= ReadUpTo(n)
    BY <1>2, <1>4, ReadUpToGrows
  <2>3. e.pos <= ReadUpTo(n)
    BY <1>1, <2>1, <2>2
  <2>4. QED
    BY <1>4, <2>3, CalledForGrows
<1>5. CASE e.block # 0 /\ s.block = 0
  <2>1. ReadUpTo(e.block) < s.pos /\ s.pos <= ReadUpTo(n)
    BY <1>5 DEF Precedes
  <2>2. n <= e.block =>
          /\ ReadUpTo(n) \in Int /\ ReadUpTo(e.block) \in Int
          /\ ReadUpTo(n) <= ReadUpTo(e.block)
    BY <1>2, <1>5, ReadUpToGrows
  <2>3. e.block <= n
    BY <1>1, <2>1, <2>2
  <2>4. QED
    BY <1>5, <2>3, CalledForGrows
<1>6. CASE e.block # 0 /\ s.block # 0
  <2>1. e.block <= n
    BY <1>1, <1>6 DEF Precedes
  <2>2. QED
    BY <1>6, <2>1, CalledForGrows
<1>7. QED
  BY <1>3, <1>4, <1>5, <1>6

(* So a chain of which one is a beginning calls for the same first.        *)
CallsGrow ==
  \A n, m \in 0..Len(blocks) : n <= m =>
    /\ CalledFor(n) \subseteq CalledFor(m)
    /\ \A e \in CalledFor(m), s \in CalledFor(n) : Precedes(e, s) => e \in CalledFor(n)

LEMMA CallsAreOrdered == Standing => CallsGrow
<1> SUFFICES ASSUME Standing, NEW n \in 0..Len(blocks), NEW m \in 0..Len(blocks), n <= m
             PROVE  /\ CalledFor(n) \subseteq CalledFor(m)
                    /\ \A e \in CalledFor(m), s \in CalledFor(n) :
                         Precedes(e, s) => e \in CalledFor(n)
  BY DEF CallsGrow
<1>1. CalledFor(n) \subseteq CalledFor(m)
  BY CalledForGrows
<1>2. ASSUME NEW e \in CalledFor(m), NEW s \in CalledFor(n), Precedes(e, s)
      PROVE  e \in CalledFor(n)
  <2>1. /\ s \in Found /\ Placed(s) /\ (s.block # 0 => s \in Transactions(n))
        /\ s.block = 0 => s.pos \in FirstRead..ReadUpTo(n)
    BY CalledIsPlaced, CalledForHas
  <2>2. /\ s.block = 0 => s.pos <= ReadUpTo(n)
        /\ s.block # 0 => s.block <= n
    BY <2>1, TransactionsHave
  <2>3. QED
    BY <1>2, <2>1, <2>2, EarlierCalled
<1>3. QED
  BY <1>1, <1>2

(* What the first blocks call for does not change with the next ones.      *)
LEMMA CallsKept ==
  ASSUME Standing, ChainStands', Grown, Len(blocks) <= Len(blocks'),
         UNCHANGED <<fromBlock, fromBlockL1, starts>>
  PROVE  /\ Standing' /\ First' = First /\ FirstRead' = FirstRead
         /\ \A n \in 0..Len(blocks) : ReadUpTo(n)' = ReadUpTo(n)
         /\ \A e, f : Placed(e) /\ Placed(f) => (Precedes(e, f)' <=> Precedes(e, f))
         /\ \A n \in 0..Len(blocks) : CalledFor(n)' = CalledFor(n)
<1>1. /\ Len(blocks) \in Nat /\ DOMAIN blocks = 1..Len(blocks) /\ First \in DOMAIN blocks
      /\ \A b \in DOMAIN blocks : blocks[b].txs \in Seq(Tx)
  BY LenProperties, BlockTyped DEF Standing, ChainStands
<1>2. First' = First
  BY DEF First
<1>3. FirstRead' = FirstRead
  BY <1>1, <1>2 DEF FirstRead, Grown
<1>4. Standing'
  <2>1. First \in DOMAIN blocks' /\ blocks'[First] = blocks[First]
    BY <1>1 DEF Grown
  <2>2. QED
    BY <1>2, <1>3, <2>1 DEF Standing
<1>5. ASSUME NEW n \in 0..Len(blocks)
      PROVE  ReadUpTo(n)' = ReadUpTo(n)
  <2>1. n < First \/ (n \in DOMAIN blocks /\ blocks'[n] = blocks[n])
    BY <1>1 DEF Grown
  <2>2. QED
    BY <1>2, <1>3, <2>1 DEF ReadUpTo
<1>6. ASSUME NEW e, NEW f, Placed(e), Placed(f)
      PROVE  Precedes(e, f)' <=> Precedes(e, f)
  <2>1. /\ e.block # 0 => e.block \in 0..Len(blocks)
        /\ f.block # 0 => f.block \in 0..Len(blocks)
    BY <1>1, <1>6 DEF Placed
  <2>2. /\ e.block # 0 => ReadUpTo(e.block)' = ReadUpTo(e.block)
        /\ f.block # 0 => ReadUpTo(f.block)' = ReadUpTo(f.block)
    BY <1>5, <2>1
  <2>3. QED
    BY <2>2 DEF Precedes
<1>7. ASSUME NEW n \in 0..Len(blocks)
      PROVE  CalledFor(n)' = CalledFor(n)
  <2>1. \A c \in First..n : c \in DOMAIN blocks /\ blocks'[c] = blocks[c]
    BY <1>1 DEF Grown
  <2>2. \A e \in Transactions(n) : Placed(e) /\ e.block # 0
    BY TransactionsHave
  <2> DEFINE found(chain) ==
               UNION {{TxAt(c, i) : i \in DOMAIN chain[c].txs} : c \in First..n}
  <2>3. found(blocks') = found(blocks)
    BY <2>1
  <2>4. \A e \in found(blocks) : Placed(e) /\ e.block # 0
    <3>1. SUFFICES ASSUME NEW c \in First..n, NEW i \in DOMAIN blocks[c].txs
                   PROVE  Placed(TxAt(c, i)) /\ TxAt(c, i).block # 0
      OBVIOUS
    <3>2. c \in Nat \ {0} /\ i \in Nat
      BY <1>1, <2>1, LenProperties
    <3>3. TxAt(c, i) \in Found /\ TxAt(c, i).block = c /\ TxAt(c, i).pos = i
      BY <3>2 DEF TxAt, Found
    <3>4. QED
      BY <2>1, <3>2, <3>3 DEF Placed
  <2> HIDE DEF found
  <2>5. \A e \in found(blocks) : TxOf(e)' = TxOf(e)
    BY <2>4, PlacedGrown
  <2>6. Transactions(n) = {e \in found(blocks) : TxOf(e).app = "ours"}
    BY DEF Transactions, found
  <2>7. Transactions(n)' = {e \in found(blocks') : TxOf(e)'.app = "ours"}
    BY <1>2 DEF Transactions, found
  <2>8. Transactions(n)' = Transactions(n)
    BY <2>3, <2>5, <2>6, <2>7
  <2>9. \A e \in Transactions(n) : Id(e)' = Id(e)
    BY <2>2, PlacedGrown DEF Id
  <2>10. \A e, f \in Transactions(n) : Precedes(f, e)' <=> Precedes(f, e)
    BY <1>6, <2>2
  <2>11. ReadUpTo(n)' = ReadUpTo(n)
    BY <1>5
  <2>12. CalledFor(n)' =
           {L1Input(h) : h \in FirstRead'..ReadUpTo(n)'}
             \cup {e \in Transactions(n)' :
                     \A f \in Transactions(n)' : Precedes(f, e)' => Id(f)' # Id(e)'}
    BY DEF CalledFor, L1Input
  <2>13. {e \in Transactions(n)' :
            \A f \in Transactions(n)' : Precedes(f, e)' => Id(f)' # Id(e)'}
         = {e \in Transactions(n) :
              \A f \in Transactions(n) : Precedes(f, e) => Id(f) # Id(e)}
    BY <2>8, <2>9, <2>10
  <2>14. QED
    BY <1>3, <2>11, <2>12, <2>13 DEF CalledFor
<1>8. QED
  BY <1>2, <1>3, <1>4, <1>5, <1>6, <1>7

(* A longer chain that counts its nonces from 0 has done so before.        *)
LEMMA IncrementBefore ==
  ASSUME ChainStands, Grown, NoncesFrom(0)'
  PROVE  NoncesFrom(0)
<1> DEFINE tx(c, j) == TxOf(TxAt(c, j))
<1> SUFFICES ASSUME NEW b \in DOMAIN blocks, NEW i \in DOMAIN blocks[b].txs,
                    tx(b, i).app = "ours"
             PROVE  /\ tx(b, i).nonce >= 0
                    /\ tx(b, i).nonce > 0 =>
                         \E c \in 1..b : \E j \in DOMAIN blocks[c].txs :
                           /\ c < b \/ j < i
                           /\ tx(c, j) = [tx(b, i) EXCEPT !.nonce = @ - 1]
  BY DEF NoncesFrom
<1>1. \A c \in 1..b : c \in DOMAIN blocks /\ c \in DOMAIN blocks' /\ blocks'[c] = blocks[c]
  BY LenProperties DEF ChainStands, Grown
<1>2. b \in DOMAIN blocks' /\ blocks'[b] = blocks[b]
  BY DEF Grown
<1>3. \A c, j : tx(c, j) = blocks[c].txs[j] /\ tx(c, j)' = blocks'[c].txs[j]
  BY DEF TxOf, TxAt
<1>4. tx(b, i)' = tx(b, i) /\ i \in DOMAIN blocks'[b].txs
  BY <1>2, <1>3
<1>5. /\ tx(b, i)'.nonce >= 0
      /\ tx(b, i)'.nonce > 0 =>
           \E c \in 1..b : \E j \in DOMAIN blocks'[c].txs :
             /\ c < b \/ j < i
             /\ tx(c, j)' = [tx(b, i)' EXCEPT !.nonce = @ - 1]
  BY <1>2, <1>4 DEF NoncesFrom
<1>6. QED
  BY <1>1, <1>2, <1>3, <1>4, <1>5
-----------------------------------------------------------------------------
(* The order, as an invariant.                                             *)

(* What is to be added of block `current`, in its order.                   *)
TodoInTurn ==
  /\ \A k \in DOMAIN todo :
       /\ todo[k].block = 0 => todo[k].pos \in FirstRead..ReadUpTo(current)
       /\ todo[k].block # 0 => todo[k].block = current
  /\ \A j, k \in DOMAIN todo : j < k => Precedes(todo[j], todo[k])

(* The L1 is read as far as the last block that is fetched has finalized.  *)
L1Cursor ==
  l1Prev = IF fetched THEN blocks[current].l1
           ELSE IF current = First THEN FirstRead ELSE blocks[current - 1].l1

(* What the blocks that are fetched call for is stored, or to be added.    *)
Behind ==
  CalledFor(IF fetched THEN current ELSE current - 1)
    \subseteq ToSet(stored) \cup ToSet(todo)

OrderInvariant ==
  /\ ListenerInvariant
  /\ FirstsEmpty
  /\ NoncesStored
  /\ Undisturbed => TodoInTurn /\ L1Cursor
  /\ Undisturbed /\ NoncesFrom(0) => Behind
  /\ OrderIsCanonical

(* The listener has gone through no less than the chain's beginning.       *)
LEMMA WhenUndisturbed ==
  ASSUME ListenerInvariant, Undisturbed
  PROVE  Standing /\ First <= current /\ starts = {First}
<1>1. ChainStands /\ CursorsStand /\ starts = {First}
  BY DEF ListenerInvariant, Undisturbed
<1>2. QED
  BY <1>1, WhenStanding

(* Nothing is called for before the first block.                           *)
LEMMA NothingBefore ==
  ASSUME Standing
  PROVE  CalledFor(First - 1) = {}
<1>1. First \in Nat /\ FirstRead \in Nat
  BY BlockTyped DEF Standing
<1>2. First - 1 < First /\ \A c \in First..(First - 1) : FALSE
  BY <1>1
<1>3. ReadUpTo(First - 1) = FirstRead - 1
  BY <1>2 DEF ReadUpTo
<1>4. \A h \in FirstRead..ReadUpTo(First - 1) : FALSE
  BY <1>1, <1>3
<1>5. Transactions(First - 1) = {}
  BY <1>2 DEF Transactions
<1>6. QED
  BY <1>4, <1>5 DEF CalledFor

(* The elements of a sequence.                                             *)
LEMMA ToSetHas ==
  ASSUME NEW S, NEW s \in Seq(S)
  PROVE  /\ \A k \in DOMAIN s : s[k] \in ToSet(s) /\ s[k] \in S
         /\ \A x \in ToSet(s) : \E k \in DOMAIN s : s[k] = x
  BY ElementOfSeq, LenProperties DEF ToSet

-----------------------------------------------------------------------------
(* What a step leaves alone.                                               *)

LEMMA FirstsRest ==
  ASSUME ChainStands, Grown, FirstsEmpty, starts \subseteq starts'
  PROVE  FirstsEmpty'
<1>1. 1..FirstHeight \subseteq DOMAIN blocks
  BY LenProperties, EspressoAssumption DEF ChainStands
<1>2. QED
  BY <1>1 DEF FirstsEmpty, Grown

LEMMA NoncesRest ==
  ASSUME StoredStands, Grown, NoncesStored, stored' = stored
  PROVE  NoncesStored'
<1>1. \A k \in DOMAIN stored : stored[k].block # 0 => TxOf(stored[k])' = TxOf(stored[k])
  BY PlacedGrown DEF StoredStands
<1>2. ASSUME NEW sender
      PROVE  GetNonce(stored, sender)' = GetNonce(stored, sender)
  <2>1. {k \in DOMAIN stored : stored[k].block # 0 /\ TxOf(stored[k])'.sender = sender}
        = {k \in DOMAIN stored : stored[k].block # 0 /\ TxOf(stored[k]).sender = sender}
    BY <1>1
  <2>2. QED
    BY <2>1 DEF GetNonce
<1>3. ASSUME NEW sender, NEW m
      PROVE  (\E k \in DOMAIN stored : /\ stored[k].block # 0
                                       /\ TxOf(stored[k])'.sender = sender
                                       /\ TxOf(stored[k])'.nonce = m)
             <=> (\E k \in DOMAIN stored : /\ stored[k].block # 0
                                           /\ TxOf(stored[k]).sender = sender
                                           /\ TxOf(stored[k]).nonce = m)
  BY <1>1
<1>4. SUFFICES ASSUME NEW sender \in Senders, NEW m \in Nat
               PROVE  m < GetNonce(stored, sender)' <=>
                        \E k \in DOMAIN stored : /\ stored[k].block # 0
                                                 /\ TxOf(stored[k])'.sender = sender
                                                 /\ TxOf(stored[k])'.nonce = m
  BY DEF NoncesStored, HasNonces
<1>5. QED
  BY <1>2, <1>3 DEF NoncesStored, HasNonces

(* The chain grows, or the listener moves, and adds nothing.               *)
LEMMA CanonicalRests ==
  ASSUME ListenerInvariant, ChainStands', Grown, Len(blocks) <= Len(blocks'),
         UNCHANGED <<fromBlock, fromBlockL1, stored>>,
         Undisturbed' => Undisturbed /\ starts' = starts,
         OrderIsCanonical
  PROVE  OrderIsCanonical'
<1> SUFFICES ASSUME Undisturbed', NoncesFrom(0)'
             PROVE  /\ ToSet(stored) \subseteq CalledFor(Len(blocks))'
                    /\ \A j, k \in DOMAIN stored :
                         j < k => Precedes(stored[j], stored[k])'
                    /\ \A k \in DOMAIN stored : \A e \in CalledFor(Len(blocks))' :
                         Precedes(e, stored[k])' => e \in ToSet(stored)
  <2>1. stored' = stored
    OBVIOUS
  <2>2. QED
    BY <2>1 DEF OrderIsCanonical
<1>1. Undisturbed /\ NoncesFrom(0) /\ starts' = starts
  BY IncrementBefore DEF ListenerInvariant
<1>2. Standing /\ stored \in Seq(Found) /\ \A k \in DOMAIN stored : Placed(stored[k])
  BY <1>1, WhenUndisturbed DEF ListenerInvariant, StoredStands
<1>3. PICK n \in Nat, m \in Nat : n = Len(blocks) /\ m = Len(blocks') /\ n <= m
  BY LenProperties DEF ChainStands, ListenerInvariant
<1>4. /\ Standing'
      /\ \A e, f : Placed(e) /\ Placed(f) => (Precedes(e, f)' <=> Precedes(e, f))
      /\ CalledFor(n)' = CalledFor(n)
  <2>1. n \in 0..Len(blocks)
    BY <1>3
  <2>2. QED
    BY <1>1, <1>2, <2>1, CallsKept
<1>5. CallsGrow'
  BY <1>4, CallsAreOrdered, PTL
<1>6. /\ CalledFor(n)' \subseteq CalledFor(m)'
      /\ \A e \in CalledFor(m)', s \in CalledFor(n)' : Precedes(e, s)' => e \in CalledFor(n)'
  <2>1. n \in 0..Len(blocks') /\ m \in 0..Len(blocks')
    BY <1>3
  <2>2. QED
    BY <1>3, <1>5, <2>1 DEF CallsGrow
<1>7. CalledFor(Len(blocks))' = CalledFor(m)' /\ CalledFor(Len(blocks)) = CalledFor(n)
  BY <1>3
<1>8. /\ ToSet(stored) \subseteq CalledFor(n)
      /\ \A j, k \in DOMAIN stored : j < k => Precedes(stored[j], stored[k])
      /\ \A k \in DOMAIN stored : \A e \in CalledFor(n) :
           Precedes(e, stored[k]) => e \in ToSet(stored)
  BY <1>1, <1>7 DEF OrderIsCanonical
<1>9. \A k \in DOMAIN stored : stored[k] \in CalledFor(n)
  BY <1>2, <1>8, ToSetHas
<1>10. \A e \in CalledFor(n) : Placed(e)
  <2>1. n \in 0..Len(blocks)
    BY <1>3
  <2>2. QED
    BY <1>2, <2>1, CalledIsPlaced
<1>11. \A k \in DOMAIN stored : \A e \in CalledFor(m)' :
         Precedes(e, stored[k])' => e \in ToSet(stored)
  BY <1>2, <1>4, <1>6, <1>8, <1>9, <1>10
<1>12. \A j, k \in DOMAIN stored : j < k => Precedes(stored[j], stored[k])'
  BY <1>2, <1>4, <1>8
<1>13. ToSet(stored) \subseteq CalledFor(m)'
  BY <1>4, <1>6, <1>8
<1>14. QED
  BY <1>7, <1>11, <1>12, <1>13

(* The chain stays, and with it what it calls for.                         *)
LEMMA CallsSame ==
  ASSUME UNCHANGED <<fromBlock, fromBlockL1, blocks, starts>>
  PROVE  /\ First' = First /\ FirstRead' = FirstRead
         /\ \A m : ReadUpTo(m)' = ReadUpTo(m) /\ CalledFor(m)' = CalledFor(m)
         /\ \A e, f : Precedes(e, f)' <=> Precedes(e, f)
         /\ NoncesFrom(0)' <=> NoncesFrom(0)
<1>1. First' = First /\ FirstRead' = FirstRead
  BY DEF First, FirstRead
<1>2. \A m : ReadUpTo(m)' = ReadUpTo(m)
  BY <1>1 DEF ReadUpTo
<1>3. \A e, f : Precedes(e, f)' <=> Precedes(e, f)
  BY <1>2 DEF Precedes
<1>4. \A e : TxOf(e)' = TxOf(e) /\ Id(e)' = Id(e)
  BY DEF TxOf, Id
<1>5. \A m : Transactions(m)' = Transactions(m)
  BY <1>1, <1>4 DEF Transactions, TxAt
<1>6. \A m : CalledFor(m)' = CalledFor(m)
  BY <1>1, <1>2, <1>3, <1>4, <1>5 DEF CalledFor, L1Input
<1>7. NoncesFrom(0)' <=> NoncesFrom(0)
  BY DEF NoncesFrom, TxOf, TxAt
<1>8. QED
  BY <1>1, <1>2, <1>3, <1>6, <1>7
-----------------------------------------------------------------------------
(* The steps.                                                              *)

(* A block is mined, the height is polled, or the process ends: the        *)
(* listener stays where it is.                                             *)
LEMMA OrderRests ==
  ASSUME OrderInvariant, ListenerInvariant', Grown, Len(blocks) <= Len(blocks'),
         UNCHANGED <<fromBlock, fromBlockL1, starts, skipped, current, l1Prev, todo,
                     fetched, stored>>
  PROVE  OrderInvariant'
<1>1. ListenerInvariant /\ ChainStands /\ CursorsStand /\ TodoStands /\ StoredStands
        /\ ChainStands'
  BY DEF OrderInvariant, ListenerInvariant
<1>2. Undisturbed' = Undisturbed
  BY DEF Undisturbed, First
<1>3. FirstsEmpty' /\ NoncesStored' /\ OrderIsCanonical'
  BY <1>1, <1>2, FirstsRest, NoncesRest, CanonicalRests DEF OrderInvariant
<1>4. PICK b \in Nat \ {0} :
        current = b /\ b \in DOMAIN blocks /\ b \in 0..Len(blocks) /\ b - 1 \in 0..Len(blocks)
  <2>1. current \in 1..Len(blocks) /\ Len(blocks) \in Nat /\ DOMAIN blocks = 1..Len(blocks)
    BY <1>1, LenProperties DEF ChainStands, CursorsStand
  <2>2. QED
    BY <2>1
<1>5. current' = b
  BY <1>4
<1>6. ASSUME Undisturbed
      PROVE  /\ Standing /\ First <= b /\ First' = First /\ FirstRead' = FirstRead
             /\ ReadUpTo(b)' = ReadUpTo(b)
             /\ \A e, f : Placed(e) /\ Placed(f) => (Precedes(e, f)' <=> Precedes(e, f))
             /\ CalledFor(b)' = CalledFor(b) /\ CalledFor(b - 1)' = CalledFor(b - 1)
  <2>1. Standing /\ First <= b
    BY <1>1, <1>4, <1>6, WhenUndisturbed
  <2>2. QED
    BY <1>1, <1>4, <2>1, CallsKept
<1>7. ASSUME Undisturbed'
      PROVE  TodoInTurn' /\ L1Cursor'
  <2>1. TodoInTurn /\ L1Cursor
    BY <1>2, <1>7 DEF OrderInvariant
  <2>2. \A k \in DOMAIN todo : Placed(todo[k])
    BY <1>1 DEF TodoStands
  <2>3. ReadUpTo(current)' = ReadUpTo(b)' /\ ReadUpTo(current) = ReadUpTo(b)
    BY <1>4, <1>5 DEF ReadUpTo
  <2>4. TodoInTurn'
    <3>1. \A k \in DOMAIN todo :
            /\ todo[k].block = 0 => todo[k].pos \in FirstRead'..ReadUpTo(b)'
            /\ todo[k].block # 0 => todo[k].block = b
      BY <1>2, <1>4, <1>6, <1>7, <2>1, <2>3 DEF TodoInTurn
    <3>2. \A j, k \in DOMAIN todo : j < k => Precedes(todo[j], todo[k])'
      BY <1>2, <1>6, <1>7, <2>1, <2>2 DEF TodoInTurn
    <3>3. todo' = todo
      OBVIOUS
    <3>4. QED
      BY <1>5, <2>3, <3>1, <3>2, <3>3 DEF TodoInTurn
  <2>5. L1Cursor'
    <3>1. First \in DOMAIN blocks /\ DOMAIN blocks = 1..Len(blocks) /\ Len(blocks) \in Nat
      BY <1>1, <1>2, <1>6, <1>7, LenProperties DEF Standing, ChainStands
    <3>2. b # First => b - 1 \in DOMAIN blocks
      BY <1>2, <1>4, <1>6, <1>7, <3>1
    <3>3. blocks'[b] = blocks[b] /\ (b # First => blocks'[b - 1] = blocks[b - 1])
      BY <1>4, <3>2 DEF Grown
    <3>4. QED
      BY <1>2, <1>4, <1>5, <1>6, <1>7, <2>1, <3>3 DEF L1Cursor
  <2>6. QED
    BY <2>4, <2>5
<1>8. ASSUME Undisturbed', NoncesFrom(0)'
      PROVE  Behind'
  <2>1. Undisturbed /\ NoncesFrom(0)
    BY <1>1, <1>2, <1>8, IncrementBefore
  <2>2. PICK r \in {b - 1, b} : r = IF fetched THEN current ELSE current - 1
    BY <1>4
  <2>3. CalledFor(r)' = CalledFor(r)
    BY <1>6, <2>1, <2>2
  <2>4. CalledFor(r) \subseteq ToSet(stored) \cup ToSet(todo)
    BY <2>1, <2>2 DEF OrderInvariant, Behind
  <2>5. r = IF fetched' THEN current' ELSE current' - 1
    BY <2>2
  <2>6. ToSet(stored)' = ToSet(stored) /\ ToSet(todo)' = ToSet(todo)
    OBVIOUS
  <2>7. QED
    BY <2>3, <2>4, <2>5, <2>6 DEF Behind
<1>9. QED
  BY <1>3, <1>7, <1>8 DEF OrderInvariant

(* The block is through.                                                   *)
LEMMA NextBlockInTurn ==
  ASSUME OrderInvariant, ListenerInvariant', NextBlock
  PROVE  OrderInvariant'
<1>1. /\ ListenerInvariant /\ ChainStands /\ CursorsStand /\ StoredStands /\ ChainStands'
      /\ fetched /\ todo = <<>> /\ current' = current + 1 /\ fetched' = FALSE
      /\ UNCHANGED <<options, fromBlock, fromBlockL1, starts, blocks, l1Prev, todo, stored,
                     skipped>>
  BY DEF OrderInvariant, ListenerInvariant, NextBlock, options
<1>2. Grown /\ Len(blocks) <= Len(blocks')
  BY <1>1, ChainKept
<1>3. Undisturbed' = Undisturbed /\ NoncesFrom(0)' = NoncesFrom(0)
  BY <1>1 DEF Undisturbed, First, NoncesFrom, TxOf
<1>4. FirstsEmpty' /\ NoncesStored' /\ OrderIsCanonical'
  BY <1>1, <1>2, <1>3, FirstsRest, NoncesRest, CanonicalRests DEF OrderInvariant
<1>5. PICK b \in Nat : current = b /\ current' = b + 1 /\ b \in 0..Len(blocks)
  <2>1. current \in 1..Len(blocks) /\ Len(blocks) \in Nat
    BY <1>1, LenProperties DEF ChainStands, CursorsStand
  <2>2. QED
    BY <1>1, <2>1
<1>6. ASSUME Undisturbed
      PROVE  /\ First <= b /\ First \in Nat /\ First' = First
             /\ CalledFor(b)' = CalledFor(b)
  <2>1. Standing /\ First <= b
    BY <1>1, <1>5, <1>6, WhenUndisturbed
  <2>2. First \in Nat
    BY <2>1, BlockTyped DEF Standing
  <2>3. QED
    BY <1>1, <1>2, <1>5, <2>1, <2>2, CallsKept
<1>7. ASSUME Undisturbed'
      PROVE  TodoInTurn' /\ L1Cursor'
  <2>1. TodoInTurn'
    BY <1>1 DEF TodoInTurn
  <2>2. b + 1 # First /\ (b + 1) - 1 = b
    BY <1>3, <1>6, <1>7
  <2>3. l1Prev = blocks[b].l1
    BY <1>1, <1>3, <1>5, <1>7 DEF OrderInvariant, L1Cursor
  <2>4. L1Cursor'
    BY <1>1, <1>3, <1>5, <1>6, <1>7, <2>2, <2>3 DEF L1Cursor
  <2>5. QED
    BY <2>1, <2>4
<1>8. ASSUME Undisturbed', NoncesFrom(0)'
      PROVE  Behind'
  <2>1. CalledFor(b) \subseteq ToSet(stored) \cup ToSet(todo)
    BY <1>1, <1>3, <1>5, <1>8 DEF OrderInvariant, Behind
  <2>2. b = IF fetched' THEN current' ELSE current' - 1
    BY <1>1, <1>5
  <2>3. CalledFor(b)' = CalledFor(b)
    BY <1>3, <1>6, <1>8
  <2>4. ToSet(stored)' = ToSet(stored) /\ ToSet(todo)' = ToSet(todo)
    BY <1>1
  <2>5. QED
    BY <2>1, <2>2, <2>3, <2>4 DEF Behind
<1>9. QED
  BY <1>4, <1>7, <1>8 DEF OrderInvariant

(* Nothing is promised of the order after a failed fetch.                  *)
LEMMA FetchFailsDisturbs ==
  ASSUME OrderInvariant, ListenerInvariant', FetchFails
  PROVE  OrderInvariant'
<1>1. /\ ListenerInvariant /\ ChainStands /\ StoredStands /\ skipped' # {}
      /\ UNCHANGED <<options, starts, blocks, stored>>
  BY DEF OrderInvariant, ListenerInvariant, FetchFails
<1>2. Grown
  BY <1>1, ChainKept
<1>3. FirstsEmpty' /\ NoncesStored'
  BY <1>1, <1>2, FirstsRest, NoncesRest DEF OrderInvariant
<1>4. ~Undisturbed'
  BY <1>1 DEF Undisturbed
<1>5. QED
  BY <1>3, <1>4 DEF OrderInvariant, OrderIsCanonical

(* It starts again: from the same block, or nothing is promised.           *)
LEMMA StartInTurn ==
  ASSUME OrderInvariant, ListenerInvariant', Start
  PROVE  OrderInvariant'
<1>1. PICK b \in Nat : b = StartBlock(blocks) /\ b \in DOMAIN blocks
  BY StartFacts, BlockTyped DEF OrderInvariant, ListenerInvariant
<1>2. /\ ListenerInvariant /\ ChainStands /\ CursorsStand /\ StoredStands /\ ChainStands'
      /\ current' = b /\ l1Prev' = StartL1(blocks)
      /\ starts' = starts \cup {b} /\ todo' = <<>> /\ fetched' = FALSE
      /\ UNCHANGED <<options, fromBlock, fromBlockL1, blocks, stored, skipped>>
  BY <1>1 DEF OrderInvariant, ListenerInvariant, Start, options
<1>3. Grown /\ Len(blocks) <= Len(blocks')
  BY <1>2, ChainKept
<1>4. ASSUME Undisturbed'
      PROVE  Undisturbed /\ starts' = starts /\ starts = {b} /\ First = b /\ First' = b
  <2>1. starts' = {First'} /\ starts # {}
    BY <1>2, <1>4 DEF Undisturbed, CursorsStand
  <2>2. First' = b /\ starts = {b}
    BY <1>2, <2>1
  <2>3. First = b
    BY <2>2, OneStart
  <2>4. QED
    BY <1>2, <1>4, <2>1, <2>2, <2>3 DEF Undisturbed
<1>5. FirstsEmpty' /\ NoncesStored' /\ OrderIsCanonical'
  BY <1>2, <1>3, <1>4, FirstsRest, NoncesRest, CanonicalRests DEF OrderInvariant
<1>6. ASSUME Undisturbed'
      PROVE  TodoInTurn' /\ L1Cursor' /\ Behind'
  <2>1. TodoInTurn'
    BY <1>2 DEF TodoInTurn
  <2>2. FirstRead' = StartL1(blocks)
    BY <1>1, <1>2, <1>4, <1>6 DEF FirstRead, StartL1
  <2>3. L1Cursor'
    BY <1>2, <1>4, <1>6, <2>2 DEF L1Cursor
  <2>4. CalledFor(b - 1) = {}
    BY <1>2, <1>4, <1>6, WhenUndisturbed, NothingBefore
  <2>5. CalledFor(b - 1)' = CalledFor(b - 1)
    BY <1>2, <1>4, <1>6, CallsSame
  <2>6. b - 1 = IF fetched' THEN current' ELSE current' - 1
    BY <1>2
  <2>7. Behind'
    BY <2>4, <2>5, <2>6 DEF Behind
  <2>8. QED
    BY <2>1, <2>3, <2>7
<1>7. QED
  BY <1>5, <1>6 DEF OrderInvariant
(* The inputs of the L1 that block b adds to what is called for are those  *)
(* that are read with it.                                                  *)
LEMMA L1InTurn ==
  ASSUME Standing, fromBlock # 0 => First = fromBlock,
         NEW b \in DOMAIN blocks, First <= b,
         l1Prev = IF b = First THEN FirstRead ELSE blocks[b - 1].l1
  PROVE  /\ l1Prev \in Nat /\ FirstRead <= l1Prev /\ l1Prev <= blocks[b].l1
         /\ blocks[b].l1 > l1Prev \/ b = fromBlock => ReadUpTo(b) = blocks[b].l1
         /\ \A p \in Nat :
              FirstRead <= p /\ ReadUpTo(b - 1) < p /\ p <= ReadUpTo(b) =>
                /\ blocks[b].l1 > l1Prev \/ b = fromBlock
                /\ l1Prev <= p /\ p <= blocks[b].l1
<1> DEFINE to == blocks[b].l1
<1>1. /\ Len(blocks) \in Nat /\ DOMAIN blocks = 1..Len(blocks) /\ First \in 1..Len(blocks)
      /\ FirstRead \in Nat /\ FirstRead <= blocks[First].l1
      /\ \A h \in DOMAIN blocks : blocks[h].l1 \in Nat
      /\ \A h, k \in DOMAIN blocks : h <= k => blocks[h].l1 <= blocks[k].l1
  BY LenProperties, BlockTyped DEF Standing, ChainStands
<1>2. to \in Nat /\ FirstRead <= to
  BY <1>1
<1>3. b # First => /\ b - 1 \in DOMAIN blocks /\ First <= b - 1 /\ b - 1 <= b
                   /\ ~(b - 1 < First)
  BY <1>1
<1>4. l1Prev \in Nat /\ FirstRead <= l1Prev /\ l1Prev <= to
  BY <1>1, <1>2, <1>3
<1>5. \/ ReadUpTo(b) = to /\ ~(fromBlock = 0 /\ to = FirstRead)
      \/ fromBlock = 0 /\ to = FirstRead /\ ReadUpTo(b) = FirstRead - 1
  BY <1>1 DEF ReadUpTo
<1>6. \/ b = First /\ l1Prev = FirstRead
      \/ b # First /\ ReadUpTo(b - 1) = l1Prev
      \/ b # First /\ l1Prev = FirstRead
  BY <1>3 DEF ReadUpTo
<1> HIDE DEF to
<1>7. to > l1Prev \/ b = fromBlock => ReadUpTo(b) = to
  BY <1>1, <1>2, <1>4, <1>5
<1>8. ASSUME NEW p \in Nat, FirstRead <= p, ReadUpTo(b - 1) < p, p <= ReadUpTo(b)
      PROVE  (to > l1Prev \/ b = fromBlock) /\ l1Prev <= p /\ p <= to
  <2>1. ReadUpTo(b) = to /\ ~(fromBlock = 0 /\ to = FirstRead) /\ p <= to
    BY <1>1, <1>5, <1>8
  <2>2. CASE b = First /\ l1Prev = FirstRead
    BY <1>1, <1>2, <1>8, <2>1, <2>2
  <2>3. CASE b # First /\ ReadUpTo(b - 1) = l1Prev
    BY <1>2, <1>4, <1>8, <2>1, <2>3
  <2>4. CASE b # First /\ l1Prev = FirstRead
    <3>1. CASE fromBlock = 0
      BY <1>1, <1>2, <1>8, <2>1, <2>4, <3>1
    <3>2. CASE fromBlock # 0
      <4>1. ReadUpTo(b - 1) = blocks[b - 1].l1
        BY <1>3, <2>4, <3>2 DEF ReadUpTo
      <4>2. ReadUpTo(b - 1) = l1Prev
        BY <2>4, <4>1
      <4>3. QED
        BY <1>2, <1>4, <1>8, <2>1, <4>2
    <3>3. QED
      BY <3>1, <3>2
  <2>5. QED
    BY <1>6, <2>2, <2>3, <2>4
<1>9. QED
  BY <1>4, <1>7, <1>8 DEF to

(* What block b adds to what is called for is what is to be added of it.   *)
LEMMA FetchInTurn ==
  ASSUME OrderInvariant, ListenerInvariant', FetchTransactions
  PROVE  OrderInvariant'
<1>1. /\ ListenerInvariant /\ ChainStands /\ CursorsStand /\ StoredStands /\ ChainStands'
      /\ ~fetched /\ todo = <<>> /\ todo' = ToAdd(current) /\ fetched' = TRUE
      /\ l1Prev' = IF blocks[current].l1 > l1Prev THEN blocks[current].l1 ELSE l1Prev
      /\ UNCHANGED <<options, fromBlock, fromBlockL1, starts, blocks, current, stored, skipped>>
  BY DEF OrderInvariant, ListenerInvariant, FetchTransactions, CursorsStand, options
<1>2. Grown /\ Len(blocks) <= Len(blocks')
  BY <1>1, ChainKept
<1>3. /\ First' = First /\ FirstRead' = FirstRead
      /\ \A m : ReadUpTo(m)' = ReadUpTo(m) /\ CalledFor(m)' = CalledFor(m)
      /\ \A e, f : Precedes(e, f)' <=> Precedes(e, f)
      /\ NoncesFrom(0)' <=> NoncesFrom(0)
  BY <1>1, CallsSame
<1>4. Undisturbed' = Undisturbed
  BY <1>1, <1>3 DEF Undisturbed
<1>5. FirstsEmpty' /\ NoncesStored' /\ OrderIsCanonical'
  BY <1>1, <1>2, <1>4, FirstsRest, NoncesRest, CanonicalRests DEF OrderInvariant
<1>6. PICK b \in Nat \ {0} :
        /\ current = b /\ b \in DOMAIN blocks
        /\ b \in 0..Len(blocks) /\ b - 1 \in 0..Len(blocks)
  <2>1. current \in 1..Len(blocks) /\ Len(blocks) \in Nat /\ DOMAIN blocks = 1..Len(blocks)
    BY <1>1, LenProperties DEF ChainStands, CursorsStand
  <2>2. QED
    BY <2>1
<1>7. blocks[b].l1 \in Nat /\ blocks[b].txs \in Seq(Tx) /\ l1Prev \in Nat
  BY <1>1, <1>6, BlockTyped DEF CursorsStand
<1>8. PICK m \in Nat : m = Len(blocks[b].txs) /\ DOMAIN blocks[b].txs = 1..m
  BY <1>7, LenProperties
<1>9. PICK n \in Nat, new \in Seq(Found) :
        /\ todo' = new
        /\ n > 0 => l1Prev' = l1Prev + n - 1
        /\ n > 0 <=> (blocks[b].l1 > l1Prev \/ b = fromBlock) /\ blocks[b].l1 >= l1Prev
        /\ DOMAIN new = 1..(n + m)
        /\ \A k \in 1..n : new[k] = L1Input(l1Prev + k - 1)
        /\ \A k \in 1..m : new[n + k] = TxAt(b, k)
  <2>1. PICK prev \in Nat :
          l1Prev' = prev /\ prev = IF blocks[b].l1 > l1Prev THEN blocks[b].l1 ELSE l1Prev
    BY <1>1, <1>6, <1>7
  <2>2. PICK n \in Nat :
          /\ n = 0 => prev = l1Prev
          /\ n > 0 => prev = l1Prev + n - 1
          /\ n > 0 <=> (blocks[b].l1 > l1Prev \/ b = fromBlock) /\ blocks[b].l1 >= l1Prev
          /\ ToAdd(b) \in Seq(Found)
          /\ DOMAIN ToAdd(b) = 1..(n + Len(blocks[b].txs))
          /\ \A k \in 1..n : ToAdd(b)[k] = L1Input(l1Prev + k - 1)
          /\ \A k \in 1..Len(blocks[b].txs) : ToAdd(b)[n + k] = TxAt(b, k)
    <3>1. ChainStands /\ CursorsStand /\ b \in DOMAIN blocks
      BY <1>1, <1>6
    <3>2. QED
      BY <2>1, <3>1, ToAddHas
  <2>3. todo' = ToAdd(b)
    BY <1>1, <1>6
  <2>4. QED
    BY <1>8, <2>1, <2>2, <2>3
<1>10. /\ \A k \in 1..n : new[k].block = 0 /\ new[k].pos = l1Prev + k - 1
       /\ \A k \in 1..m : new[n + k].block = b /\ new[n + k].pos = k
  <2>1. /\ \A h : L1Input(h).block = 0 /\ L1Input(h).pos = h
        /\ \A k : TxAt(b, k).block = b /\ TxAt(b, k).pos = k
    BY DEF L1Input, TxAt
  <2>2. QED
    BY <1>9, <2>1
<1>11. \A k \in 1..(n + m) : k \in 1..n \/ (k - n \in 1..m /\ n + (k - n) = k)
  OBVIOUS
<1>12. ASSUME Undisturbed
       PROVE  /\ Standing /\ First <= b
              /\ FirstRead \in Nat /\ FirstRead <= l1Prev /\ l1Prev <= blocks[b].l1
              /\ n > 0 => ReadUpTo(b) = l1Prev + n - 1
              /\ \A p \in Nat :
                   FirstRead <= p /\ ReadUpTo(b - 1) < p /\ p <= ReadUpTo(b) =>
                     p - l1Prev + 1 \in 1..n
              /\ l1Prev' = blocks[b].l1
  <2>1. Standing /\ First <= b /\ starts = {First}
    BY <1>1, <1>6, <1>12, WhenUndisturbed
  <2>2. fromBlock # 0 => First = fromBlock
    BY <1>1, <2>1 DEF CursorsStand
  <2>3. l1Prev = IF b = First THEN FirstRead ELSE blocks[b - 1].l1
    BY <1>1, <1>6, <1>12 DEF OrderInvariant, L1Cursor
  <2>4. /\ FirstRead <= l1Prev /\ l1Prev <= blocks[b].l1
        /\ blocks[b].l1 > l1Prev \/ b = fromBlock => ReadUpTo(b) = blocks[b].l1
        /\ \A p \in Nat :
             FirstRead <= p /\ ReadUpTo(b - 1) < p /\ p <= ReadUpTo(b) =>
               /\ blocks[b].l1 > l1Prev \/ b = fromBlock
               /\ l1Prev <= p /\ p <= blocks[b].l1
    BY <1>6, <2>1, <2>2, <2>3, L1InTurn
  <2>5. l1Prev' = blocks[b].l1
    BY <1>1, <1>6, <1>7, <2>4
  <2>6. n > 0 <=> blocks[b].l1 > l1Prev \/ b = fromBlock
    BY <1>7, <1>9, <2>4
  <2>7. n > 0 => blocks[b].l1 = l1Prev + n - 1
    BY <1>9, <2>5
  <2>8. \A p \in Nat : FirstRead <= p /\ ReadUpTo(b - 1) < p /\ p <= ReadUpTo(b) =>
          p - l1Prev + 1 \in 1..n
    <3>1. SUFFICES ASSUME NEW p \in Nat,
                          FirstRead <= p, ReadUpTo(b - 1) < p, p <= ReadUpTo(b)
                   PROVE  p - l1Prev + 1 \in 1..n
      OBVIOUS
    <3>2. n > 0 /\ l1Prev <= p /\ p <= blocks[b].l1
      BY <2>4, <2>6, <3>1
    <3>3. QED
      BY <1>7, <2>7, <3>2
  <2>9. QED
    BY <2>1, <2>4, <2>5, <2>6, <2>7, <2>8 DEF Standing
<1>13. ASSUME Undisturbed
       PROVE  TodoInTurn'
  <2>1. ASSUME NEW k \in 1..(n + m)
        PROVE  /\ new[k].block = 0 => new[k].pos \in FirstRead..ReadUpTo(b)
               /\ new[k].block # 0 => new[k].block = b
    <3>1. CASE k \in 1..n
      <4>1. FirstRead \in Nat /\ FirstRead <= l1Prev /\ ReadUpTo(b) = l1Prev + n - 1
        BY <1>12, <1>13, <3>1
      <4>2. l1Prev + k - 1 \in FirstRead..ReadUpTo(b)
        BY <1>7, <3>1, <4>1
      <4>3. QED
        BY <1>10, <3>1, <4>2
    <3>2. CASE k - n \in 1..m /\ n + (k - n) = k
      <4>1. new[k].block = b
        BY <1>10, <3>2
      <4>2. QED
        BY <4>1
    <3>3. QED
      BY <1>11, <3>1, <3>2
  <2>2. ASSUME NEW j \in 1..(n + m), NEW k \in 1..(n + m), j < k
        PROVE  Precedes(new[j], new[k])
    <3>1. CASE k \in 1..n
      <4>1. j \in 1..n
        BY <2>2, <3>1
      <4>2. QED
        BY <1>7, <1>10, <2>2, <3>1, <4>1 DEF Precedes
    <3>2. CASE j \in 1..n /\ k - n \in 1..m /\ n + (k - n) = k
      <4>1. new[k].block = b /\ new[j].block = 0
        BY <1>10, <3>2
      <4>2. new[j].pos <= ReadUpTo(b)
        BY <2>1, <4>1
      <4>3. QED
        BY <1>6, <4>1, <4>2 DEF Precedes
    <3>3. CASE j - n \in 1..m /\ n + (j - n) = j /\ k - n \in 1..m /\ n + (k - n) = k
      <4>1. /\ new[j].block = b /\ new[k].block = b
            /\ new[j].pos = j - n /\ new[k].pos = k - n
        BY <1>10, <3>3
      <4>2. new[j].pos < new[k].pos
        BY <2>2, <4>1
      <4>3. QED
        BY <1>6, <4>1, <4>2 DEF Precedes
    <3>4. QED
      BY <1>11, <3>1, <3>2, <3>3
  <2>3. /\ \A k \in DOMAIN new : /\ new[k].block = 0 => new[k].pos \in FirstRead..ReadUpTo(b)
                                 /\ new[k].block # 0 => new[k].block = b
        /\ \A j, k \in DOMAIN new : j < k => Precedes(new[j], new[k])
    BY <1>9, <2>1, <2>2
  <2>4. FirstRead' = FirstRead /\ ReadUpTo(b)' = ReadUpTo(b) /\ current' = b /\ todo' = new
    BY <1>1, <1>3, <1>6, <1>9
  <2>5. ReadUpTo(current)' = ReadUpTo(b)'
    BY <2>4 DEF ReadUpTo
  <2>6. \A j, k \in DOMAIN new : j < k => Precedes(new[j], new[k])'
    BY <1>3, <2>3
  <2>7. QED
    BY <2>3, <2>4, <2>5, <2>6 DEF TodoInTurn
<1>14. ASSUME Undisturbed
       PROVE  L1Cursor'
  BY <1>1, <1>6, <1>12, <1>14 DEF L1Cursor
<1>15. ASSUME Undisturbed, NoncesFrom(0)
       PROVE  Behind'
  <2>1. ASSUME NEW e \in CalledFor(b)
        PROVE  e \in ToSet(stored) \cup ToSet(new)
    <3>1. /\ Standing /\ e \in Found /\ e.pos \in Nat /\ e.block \in Nat /\ Placed(e)
          /\ e.block # 0 => e \in Transactions(b)
      BY <1>6, <1>12, <1>15, CalledIsPlaced DEF Found
    <3>2. CASE e \in CalledFor(b - 1)
      <4>1. CalledFor(b - 1) \subseteq ToSet(stored) \cup ToSet(<<>>)
        BY <1>1, <1>6, <1>15 DEF OrderInvariant, Behind
      <4>2. ToSet(<<>>) = {}
        BY DEF ToSet
      <4>3. QED
        BY <3>2, <4>1, <4>2
    <3>3. CASE e \notin CalledFor(b - 1) /\ e.block = 0
      <4>1. e.pos \in FirstRead..ReadUpTo(b)
        BY <1>6, <3>1, <3>3, CalledForHas
      <4>2. e.pos \notin FirstRead..ReadUpTo(b - 1)
        BY <1>6, <3>1, <3>3, CalledForHas
      <4>3. ReadUpTo(b - 1) \in Int /\ FirstRead \in Nat
        BY <1>6, <3>1, ReadUpToGrows DEF Standing
      <4>4. FirstRead <= e.pos /\ ReadUpTo(b - 1) < e.pos /\ e.pos <= ReadUpTo(b)
        BY <3>1, <4>1, <4>2, <4>3
      <4>5. PICK k \in 1..n : k = e.pos - l1Prev + 1
        <5>1. e.pos - l1Prev + 1 \in 1..n
          BY <1>12, <1>15, <3>1, <4>4
        <5>2. QED
          BY <5>1
      <4>6. new[k].pos = e.pos /\ new[k].block = e.block /\ k \in DOMAIN new
        <5>1. new[k].pos = l1Prev + k - 1 /\ new[k].block = 0
          BY <1>10, <4>5
        <5>2. l1Prev + k - 1 = e.pos /\ k \in 1..(n + m)
          BY <1>7, <3>1, <4>5
        <5>3. QED
          BY <1>9, <3>3, <5>1, <5>2
      <4>7. new[k] \in ToSet(new) /\ new[k] \in Found
        BY <4>6, ToSetHas
      <4>8. new[k] = e
        BY <3>1, <4>6, <4>7, SameFound
      <4>9. QED
        BY <4>7, <4>8
    <3>4. CASE e \notin CalledFor(b - 1) /\ e.block # 0
      <4>1. b - 1 <= b /\ ~(e.block <= b - 1)
        BY <1>6, <3>1, <3>4, CalledForGrows
      <4>2. e.block = b /\ e.pos \in 1..m
        BY <1>6, <1>8, <3>1, <3>4, <4>1, TransactionsHave DEF Placed
      <4>3. new[n + e.pos].block = b /\ new[n + e.pos].pos = e.pos /\ n + e.pos \in DOMAIN new
        BY <1>9, <1>10, <4>2
      <4>4. new[n + e.pos] \in ToSet(new) /\ new[n + e.pos] \in Found
        BY <4>3, ToSetHas
      <4>5. new[n + e.pos] = e
        BY <3>1, <4>2, <4>3, <4>4, SameFound
      <4>6. QED
        BY <4>4, <4>5
    <3>5. QED
      BY <3>2, <3>3, <3>4
  <2>2. CalledFor(b)' = CalledFor(b)
    BY <1>3
  <2>3. b = (IF fetched' THEN current' ELSE current' - 1)
    BY <1>1, <1>6
  <2>4. ToSet(stored)' = ToSet(stored) /\ ToSet(todo)' = ToSet(new)
    BY <1>1, <1>9
  <2>5. QED
    BY <2>1, <2>2, <2>3, <2>4 DEF Behind
<1>16. QED
  BY <1>3, <1>4, <1>5, <1>13, <1>14, <1>15 DEF OrderInvariant
(* How many transactions of a sender an append makes.                      *)
LEMMA NonceAfter ==
  ASSUME NEW s \in Seq(Found), NEW e \in Found, NEW sender
  PROVE  /\ GetNonce(s, sender) \in Nat
         /\ GetNonce(Append(s, e), sender) =
              IF e.block # 0 /\ TxOf(e).sender = sender
              THEN GetNonce(s, sender) + 1 ELSE GetNonce(s, sender)
<1> DEFINE of(t) == {k \in DOMAIN t : t[k].block # 0 /\ TxOf(t[k]).sender = sender}
           n == Len(s)
<1>1. /\ n \in Nat /\ DOMAIN s = 1..n /\ DOMAIN Append(s, e) = 1..(n + 1)
      /\ Append(s, e)[n + 1] = e
      /\ \A k \in 1..n : Append(s, e)[k] = s[k]
  BY AppendProperties, LenProperties
<1>2. n + 1 \notin 1..n /\ \A k \in 1..(n + 1) : k \in 1..n \/ k = n + 1
  BY <1>1
<1>3. n + 1 \in 1..(n + 1) /\ \A k \in 1..n : k \in 1..(n + 1)
  BY <1>1
<1> HIDE DEF n
<1>4. IsFiniteSet(of(s)) /\ n + 1 \notin of(s)
  <2>1. of(s) \subseteq 1..n /\ IsFiniteSet(1..n)
    BY <1>1, FS_Interval
  <2>2. QED
    BY <1>2, <2>1, FS_Subset
<1>5. of(Append(s, e)) =
        IF e.block # 0 /\ TxOf(e).sender = sender THEN of(s) \cup {n + 1} ELSE of(s)
  BY <1>1, <1>2, <1>3
<1>6. Cardinality(of(s)) \in Nat /\ Cardinality(of(s) \cup {n + 1}) = Cardinality(of(s)) + 1
  BY <1>4, FS_CardinalityType, FS_AddElement
<1>7. GetNonce(s, sender) = Cardinality(of(s))
        /\ GetNonce(Append(s, e), sender) = Cardinality(of(Append(s, e)))
  BY DEF GetNonce
<1>8. QED
  BY <1>5, <1>6, <1>7

(* The next nonce of a sender follows those that there are.                *)
LEMMA NoncesAfter ==
  ASSUME NEW t \in Seq(Found), NEW e \in Found, HasNonces(t),
         e.block # 0 => TxOf(e).nonce = GetNonce(t, TxOf(e).sender)
  PROVE  HasNonces(Append(t, e))
<1> DEFINE n == Len(t)
           new == Append(t, e)
           is(x, sender, m) ==
             x.block # 0 /\ TxOf(x).sender = sender /\ TxOf(x).nonce = m
<1> SUFFICES HasNonces(new)
  OBVIOUS
<1> HIDE DEF new
<1> SUFFICES ASSUME NEW sender \in Senders, NEW m \in Nat
             PROVE  m < GetNonce(new, sender) <=>
                      \E k \in DOMAIN new : /\ new[k].block # 0
                                           /\ TxOf(new[k]).sender = sender
                                           /\ TxOf(new[k]).nonce = m
  BY DEF HasNonces
<1>1. /\ n \in Nat /\ DOMAIN t = 1..n /\ DOMAIN new = 1..(n + 1)
      /\ new[n + 1] = e
      /\ \A k \in 1..n : new[k] = t[k]
  BY AppendProperties, LenProperties DEF new
<1>2. \A k : k \in 1..(n + 1) <=> k \in 1..n \/ k = n + 1
  BY <1>1
<1> HIDE DEF n
<1>3. SUFFICES m < GetNonce(new, sender) <=> \E k \in DOMAIN new : is(new[k], sender, m)
  OBVIOUS
<1> HIDE DEF is
<1>4. m < GetNonce(t, sender) <=> \E k \in DOMAIN t : is(t[k], sender, m)
  BY DEF HasNonces, is
<1>5. (\E k \in DOMAIN new : is(new[k], sender, m))
        <=> (\E k \in DOMAIN t : is(t[k], sender, m)) \/ is(e, sender, m)
  BY <1>1, <1>2
<1>6. GetNonce(t, sender) \in Nat
        /\ GetNonce(new, sender) =
             IF e.block # 0 /\ TxOf(e).sender = sender
             THEN GetNonce(t, sender) + 1 ELSE GetNonce(t, sender)
  BY NonceAfter DEF new
<1>7. CASE e.block # 0 /\ TxOf(e).sender = sender
  <2>1. is(e, sender, m) <=> m = GetNonce(t, sender)
    BY <1>7 DEF is
  <2>2. m < GetNonce(new, sender) <=> m < GetNonce(t, sender) \/ m = GetNonce(t, sender)
    BY <1>6, <1>7
  <2>3. QED
    BY <1>4, <1>5, <2>1, <2>2
<1>8. CASE ~(e.block # 0 /\ TxOf(e).sender = sender)
  <2>1. ~is(e, sender, m) /\ GetNonce(new, sender) = GetNonce(t, sender)
    BY <1>6, <1>8 DEF is
  <2>2. QED
    BY <1>4, <1>5, <2>1
<1>9. QED
  BY <1>7, <1>8

(* What comes before the head of what is to be added is stored.            *)
LEMMA HeadInTurn ==
  ASSUME OrderInvariant, Undisturbed, NoncesFrom(0), todo # <<>>, fetched,
         NEW f \in CalledFor(Len(blocks)), Precedes(f, Head(todo))
  PROVE  f \in ToSet(stored)
<1>1. /\ ListenerInvariant /\ ChainStands /\ CursorsStand /\ TodoStands
      /\ TodoInTurn /\ Behind
  BY DEF OrderInvariant, ListenerInvariant
<1>2. Standing
  BY <1>1, WhenUndisturbed
<1>3. PICK b \in Nat, n \in Nat :
        b = current /\ n = Len(blocks) /\ b # 0 /\ b \in 0..n /\ n \in 0..n /\ b <= n
  <2>1. current \in 1..Len(blocks) /\ Len(blocks) \in Nat
    BY <1>1, LenProperties DEF ChainStands, CursorsStand
  <2>2. /\ current \in Nat /\ current # 0 /\ current \in 0..Len(blocks)
        /\ Len(blocks) \in 0..Len(blocks) /\ current <= Len(blocks)
    BY <2>1
  <2>3. QED
    BY <2>1, <2>2, Zenon
<1>4. /\ Len(todo) \in Nat /\ DOMAIN todo = 1..Len(todo) /\ 1 \in DOMAIN todo
      /\ Head(todo) = todo[1]
      /\ todo \in Seq(Found)
      /\ \A k \in DOMAIN todo : Placed(todo[k])
  BY <1>1, LenProperties, HeadTailProperties, EmptySeq DEF TodoStands
<1>5. /\ todo[1].block = 0 => todo[1].pos <= ReadUpTo(b)
      /\ todo[1].block # 0 => todo[1].block <= b
  <2>1. /\ todo[1].block = 0 => todo[1].pos \in FirstRead..ReadUpTo(b)
        /\ todo[1].block # 0 => todo[1].block = b
    BY <1>1, <1>3, <1>4 DEF TodoInTurn
  <2>2. QED
    BY <1>3, <2>1
<1>6. f \in CalledFor(b)
  BY <1>2, <1>3, <1>4, <1>5, EarlierCalled
<1>7. f \in ToSet(stored) \cup ToSet(todo)
  BY <1>1, <1>3, <1>6 DEF Behind
<1>8. f \notin ToSet(todo)
  <2>1. SUFFICES ASSUME NEW k \in DOMAIN todo, f = todo[k] PROVE FALSE
    BY <1>4, ToSetHas
  <2>2. ~Precedes(todo[1], f)
    BY <1>2, <1>4, <2>1, OrderIsTotal
  <2>3. k = 1
    BY <1>1, <1>4, <2>1, <2>2 DEF TodoInTurn
  <2>4. QED
    BY <1>4, <2>1, <2>2, <2>3
<1>9. QED
  BY <1>7, <1>8

(* The head is added in its turn.                                          *)
LEMMA AddInTurn ==
  ASSUME OrderInvariant, ListenerInvariant', AddNext
  PROVE  OrderInvariant'
<1>1. /\ ListenerInvariant /\ ChainStands /\ CursorsStand /\ TodoStands /\ StoredStands
      /\ todo # <<>> /\ stored' = Add(stored, Head(todo)) /\ todo' = Tail(todo) /\ fetched
      /\ UNCHANGED <<options, fromBlock, fromBlockL1, starts, blocks, current, l1Prev,
                     fetched, skipped>>
  BY DEF OrderInvariant, ListenerInvariant, AddNext, CursorsStand, options
<1>2. /\ First' = First /\ FirstRead' = FirstRead
      /\ \A m : ReadUpTo(m)' = ReadUpTo(m) /\ CalledFor(m)' = CalledFor(m)
      /\ \A e, f : Precedes(e, f)' <=> Precedes(e, f)
      /\ NoncesFrom(0)' <=> NoncesFrom(0)
  BY <1>1, CallsSame
<1>3. Undisturbed' = Undisturbed
  BY <1>1, <1>2 DEF Undisturbed
<1>4. FirstsEmpty'
  BY <1>1, ChainKept, FirstsRest DEF OrderInvariant
<1>5. PICK b \in Nat, n \in Nat : b = current /\ n = Len(blocks) /\ b \in 0..n /\ b <= n
  <2>1. current \in 1..Len(blocks) /\ Len(blocks) \in Nat
    BY <1>1, LenProperties DEF ChainStands, CursorsStand
  <2>2. QED
    BY <2>1
<1>6. /\ Len(todo) \in Nat \ {0} /\ DOMAIN todo = 1..Len(todo) /\ 1 \in DOMAIN todo
      /\ Head(todo) = todo[1] /\ todo \in Seq(Found)
      /\ \A k \in DOMAIN todo : Placed(todo[k]) /\ todo[k] \in Found
      /\ Tail(todo) \in Seq(Found) /\ DOMAIN Tail(todo) = 1..(Len(todo) - 1)
      /\ \A k \in 1..(Len(todo) - 1) : Tail(todo)[k] = todo[k + 1]
  BY <1>1, LenProperties, HeadTailProperties, EmptySeq DEF TodoStands, Placed
<1>7. PICK e \in Found, rest \in Seq(Found), new \in Seq(Found) :
        e = Head(todo) /\ rest = Tail(todo) /\ new = Add(stored, e)
  <2>1. Add(stored, todo[1]) \in Seq(Found)
    <3>1. stored \in Seq(Found) /\ todo[1] \in Found
      BY <1>1, <1>6 DEF StoredStands
    <3>2. Append(stored, todo[1]) \in Seq(Found)
      BY <3>1, AppendProperties
    <3>3. QED
      BY <3>1, <3>2, AddCases
  <2>2. QED
    BY <1>6, <2>1
<1>8. stored' = new /\ todo' = rest /\ Placed(e) /\ stored \in Seq(Found) /\ e = todo[1]
  BY <1>1, <1>6, <1>7 DEF StoredStands
<1>9. /\ DOMAIN rest = 1..(Len(todo) - 1)
      /\ \A k \in 1..(Len(todo) - 1) : rest[k] = todo[k + 1] /\ k + 1 \in DOMAIN todo
      /\ \A k \in DOMAIN todo : k = 1 \/ (k - 1 \in DOMAIN rest /\ rest[k - 1] = todo[k])
  BY <1>6, <1>7
<1>10. NoncesStored'
  <2>1. \A s : HasNonces(s)' <=> HasNonces(s)
    BY <1>1 DEF HasNonces, GetNonce, TxOf
  <2>2. HasNonces(new)
    <3>1. HasNonces(stored)
      BY DEF OrderInvariant, NoncesStored
    <3>2. \/ new = stored
          \/ /\ new = Append(stored, e)
             /\ e.block # 0 => TxOf(e).nonce = GetNonce(stored, TxOf(e).sender)
      BY <1>7, <1>8, AddCases
    <3>3. QED
      BY <1>8, <3>1, <3>2, NoncesAfter
  <2>3. QED
    <3>1. HasNonces(new)'
      BY <2>1, <2>2
    <3>2. QED
      BY <1>8, <3>1 DEF NoncesStored, HasNonces, GetNonce
<1>11. ASSUME Undisturbed
       PROVE  TodoInTurn' /\ L1Cursor'
  <2>1. TodoInTurn /\ L1Cursor
    BY <1>11 DEF OrderInvariant
  <2>2. L1Cursor'
    BY <1>1, <1>2, <2>1 DEF L1Cursor
  <2>3. ASSUME NEW k \in DOMAIN rest
        PROVE  /\ rest[k].block = 0 => rest[k].pos \in FirstRead..ReadUpTo(b)
               /\ rest[k].block # 0 => rest[k].block = b
    BY <1>5, <1>9, <2>1 DEF TodoInTurn
  <2>4. ASSUME NEW j \in DOMAIN rest, NEW k \in DOMAIN rest, j < k
        PROVE  Precedes(rest[j], rest[k])
    <3>1. j + 1 < k + 1
      BY <1>9, <2>4
    <3>2. QED
      BY <1>9, <2>1, <3>1 DEF TodoInTurn
  <2>5. FirstRead' = FirstRead /\ ReadUpTo(b)' = ReadUpTo(b) /\ current' = b /\ todo' = rest
    BY <1>1, <1>2, <1>5, <1>8
  <2>6. ReadUpTo(current)' = ReadUpTo(b)'
    BY <2>5 DEF ReadUpTo
  <2>7. \A j, k \in DOMAIN rest : j < k => Precedes(rest[j], rest[k])'
    BY <1>2, <2>4
  <2>8. TodoInTurn'
    BY <2>3, <2>5, <2>6, <2>7 DEF TodoInTurn
  <2>9. QED
    BY <2>2, <2>8
<1>12. ASSUME Undisturbed, NoncesFrom(0)
       PROVE  /\ Behind'
              /\ ToSet(new) \subseteq CalledFor(n)
              /\ \A j, k \in DOMAIN new : j < k => Precedes(new[j], new[k])
              /\ \A k \in DOMAIN new : \A f \in CalledFor(n) :
                   Precedes(f, new[k]) => f \in ToSet(new)
  <2>1. Standing /\ starts = {First} /\ First <= b
    BY <1>1, <1>5, <1>12, WhenUndisturbed
  <2>2. TodoInTurn /\ Behind /\ FirstsEmpty /\ NoncesStored
    BY <1>12 DEF OrderInvariant
  <2>3. /\ ToSet(stored) \subseteq CalledFor(n)
        /\ \A j, k \in DOMAIN stored : j < k => Precedes(stored[j], stored[k])
        /\ \A k \in DOMAIN stored : \A f \in CalledFor(n) :
             Precedes(f, stored[k]) => f \in ToSet(stored)
    BY <1>5, <1>12 DEF OrderInvariant, OrderIsCanonical
  <2>4. \A f \in CalledFor(n) : Precedes(f, e) => f \in ToSet(stored)
    BY <1>1, <1>5, <1>7, <1>12, HeadInTurn
  <2>5. \/ new = Append(stored, e) /\ e \in CalledFor(n) /\ e \notin ToSet(stored)
        \/ new = stored /\ (e \in CalledFor(n) => e \in ToSet(stored))
    <3>1. /\ e.block = 0 => e.pos \in FirstRead..ReadUpTo(b)
          /\ e.block # 0 => e.block = b
      BY <1>5, <1>6, <1>8, <2>2 DEF TodoInTurn
    <3>2. /\ ReadUpTo(b) \in Int /\ ReadUpTo(n) \in Int /\ ReadUpTo(b) <= ReadUpTo(n)
          /\ FirstRead \in Nat /\ First \in Nat
      <4>1. n \in 0..n
        OBVIOUS
      <4>2. QED
        BY <1>5, <2>1, <4>1, ReadUpToGrows, BlockTyped DEF Standing
    <3>3. /\ e.block = 0 => e.pos \in FirstRead..ReadUpTo(n)
          /\ e.block # 0 => e.block \in First..n
      BY <1>5, <2>1, <3>1, <3>2
    <3>4. QED
      BY <1>5, <1>7, <1>8, <1>12, <2>1, <2>2, <2>3, <2>4, <3>3, AddedInTurn
  <2>6. /\ ToSet(stored) \subseteq ToSet(new)
        /\ ToSet(new) \subseteq CalledFor(n)
        /\ e \in CalledFor(n) => e \in ToSet(new)
        /\ \A j, k \in DOMAIN new : j < k => Precedes(new[j], new[k])
        /\ \A k \in DOMAIN new : \A f \in CalledFor(n) :
             Precedes(f, new[k]) => f \in ToSet(new)
    <3>1. CASE new = stored /\ (e \in CalledFor(n) => e \in ToSet(stored))
      BY <2>3, <3>1
    <3>2. CASE new = Append(stored, e) /\ e \in CalledFor(n) /\ e \notin ToSet(stored)
      <4>1. PICK m \in Nat :
              /\ DOMAIN stored = 1..m /\ DOMAIN new = 1..(m + 1) /\ new[m + 1] = e
              /\ \A k \in 1..m : new[k] = stored[k]
        BY <1>8, <3>2, AppendProperties, LenProperties
      <4>2. \A k : k \in 1..(m + 1) <=> k \in 1..m \/ k = m + 1
        BY <4>1
      <4>3. ToSet(new) = ToSet(stored) \cup {e}
        <5>1. ToSet(stored) = {stored[k] : k \in 1..m} /\ ToSet(new) = {new[k] : k \in 1..(m + 1)}
          BY <4>1 DEF ToSet
        <5>2. QED
          BY <4>1, <4>2, <5>1
      <4>4. ASSUME NEW k \in 1..m
            PROVE  Precedes(stored[k], e)
        <5>1. stored[k] \in ToSet(stored) /\ stored[k] \in CalledFor(n) /\ stored[k] # e
          BY <1>8, <2>3, <3>2, <4>1, ToSetHas
        <5>2. Placed(stored[k])
          <6>1. n \in 0..Len(blocks)
            BY <1>5
          <6>2. QED
            BY <2>1, <5>1, <6>1, CalledIsPlaced
        <5>3. ~Precedes(e, stored[k])
          BY <2>3, <3>2, <4>1
        <5>4. QED
          BY <1>8, <2>1, <5>1, <5>2, <5>3, OrderIsTotal
      <4>5. \A j, k \in 1..(m + 1) : j < k => Precedes(new[j], new[k])
        <5>1. SUFFICES ASSUME NEW j \in 1..(m + 1), NEW k \in 1..(m + 1), j < k
                       PROVE  Precedes(new[j], new[k])
          OBVIOUS
        <5>2. j \in 1..m
          BY <5>1
        <5>3. QED
          BY <2>3, <4>1, <4>2, <4>4, <5>1, <5>2
      <4>6. \A k \in 1..(m + 1) : \A f \in CalledFor(n) :
              Precedes(f, new[k]) => f \in ToSet(new)
        BY <2>3, <2>4, <4>1, <4>2, <4>3
      <4>7. QED
        BY <2>3, <3>2, <4>1, <4>3, <4>5, <4>6
    <3>3. QED
      BY <2>5, <3>1, <3>2
  <2>7. Behind'
    <3>1. CalledFor(b) \subseteq ToSet(stored) \cup ToSet(todo)
      BY <1>1, <1>5, <2>2 DEF Behind
    <3>2. ToSet(todo) \subseteq {e} \cup ToSet(rest)
      <4>1. SUFFICES ASSUME NEW x \in ToSet(todo) PROVE x = e \/ x \in ToSet(rest)
        OBVIOUS
      <4>2. PICK k \in DOMAIN todo : todo[k] = x
        BY <1>6, ToSetHas
      <4>3. CASE k = 1
        BY <1>8, <4>2, <4>3
      <4>4. CASE k - 1 \in DOMAIN rest /\ rest[k - 1] = todo[k]
        <5>1. rest[k - 1] \in ToSet(rest)
          BY <4>4, ToSetHas
        <5>2. QED
          BY <4>2, <4>4, <5>1
      <4>5. QED
        BY <1>9, <4>3, <4>4
    <3>3. CalledFor(b) \subseteq CalledFor(n)
      <4>1. b \in 0..Len(blocks) /\ n \in 0..Len(blocks)
        BY <1>5
      <4>2. QED
        BY <1>5, <2>1, <4>1, CalledForGrows
    <3>4. CalledFor(b) \subseteq ToSet(new) \cup ToSet(rest)
      BY <2>6, <3>1, <3>2, <3>3
    <3>5. b = (IF fetched' THEN current' ELSE current' - 1) /\ CalledFor(b)' = CalledFor(b)
      BY <1>1, <1>2, <1>5
    <3>6. ToSet(stored)' = ToSet(new) /\ ToSet(todo)' = ToSet(rest)
      BY <1>8
    <3>7. QED
      BY <3>4, <3>5, <3>6 DEF Behind
  <2>8. QED
    BY <2>6, <2>7
<1>13. OrderIsCanonical'
  <2>1. SUFFICES ASSUME Undisturbed', NoncesFrom(0)' PROVE OrderIsCanonical'
    BY DEF OrderIsCanonical
  <2>2. Undisturbed /\ NoncesFrom(0)
    BY <1>2, <1>3, <2>1
  <2>3. CalledFor(Len(blocks))' = CalledFor(n)' /\ CalledFor(n)' = CalledFor(n)
    BY <1>1, <1>2, <1>5
  <2>4. \A j, k \in DOMAIN new : j < k => Precedes(new[j], new[k])'
    BY <1>2, <1>12, <2>2
  <2>5. \A k \in DOMAIN new : \A f \in CalledFor(n) :
          Precedes(f, new[k])' => f \in ToSet(new)
    BY <1>2, <1>12, <2>2
  <2>6. ToSet(stored)' = ToSet(new)
    BY <1>8
  <2>7. QED
    BY <1>8, <1>12, <2>2, <2>3, <2>4, <2>5, <2>6 DEF OrderIsCanonical
<1>14. QED
  BY <1>2, <1>3, <1>4, <1>10, <1>11, <1>12, <1>13 DEF OrderInvariant
-----------------------------------------------------------------------------
(* The invariant of the order.                                             *)

(* At the first start nothing is stored, or to be.                         *)
LEMMA InitOrder ==
  ASSUME Init
  PROVE  OrderInvariant
<1>1. ListenerInvariant /\ ChainStands
  BY InitListener DEF ListenerInvariant
<1>2. PICK b \in Nat : b = StartBlock(blocks) /\ b \in DOMAIN blocks
  BY <1>1, StartFacts, BlockTyped
<1>3. /\ current = b /\ l1Prev = StartL1(blocks) /\ starts = {b} /\ todo = <<>>
      /\ stored = <<>> /\ fetched = FALSE
      /\ DOMAIN blocks = 1..FirstHeight
      /\ \A h \in 1..FirstHeight : blocks[h].txs = <<>>
  BY <1>2 DEF Init
<1>4. First = b
  BY <1>3, OneStart
<1>5. FirstsEmpty
  <2>1. b <= FirstHeight
    BY <1>2, <1>3
  <2>2. QED
    BY <1>3, <2>1 DEF FirstsEmpty
<1>6. NoncesStored
  <2>1. DOMAIN stored = {}
    BY <1>3
  <2>2. \A sender : GetNonce(stored, sender) = 0
    BY <2>1, FS_EmptySet DEF GetNonce
  <2>3. QED
    BY <2>1, <2>2 DEF NoncesStored, HasNonces
<1>7. TodoInTurn
  BY <1>3 DEF TodoInTurn
<1>8. L1Cursor
  BY <1>2, <1>3, <1>4 DEF L1Cursor, FirstRead, StartL1
<1>9. Undisturbed => Behind
  BY <1>1, <1>3, <1>4, WhenUndisturbed, NothingBefore DEF Behind
<1>10. OrderIsCanonical
  <2>1. DOMAIN stored = {} /\ ToSet(stored) = {}
    BY <1>3 DEF ToSet
  <2>2. QED
    BY <2>1 DEF OrderIsCanonical
<1>11. QED
  BY <1>1, <1>5, <1>6, <1>7, <1>8, <1>9, <1>10 DEF OrderInvariant

(* Every step keeps it.                                                    *)
LEMMA NextOrder ==
  ASSUME OrderInvariant, [Next]_vars
  PROVE  OrderInvariant'
<1>1. ListenerInvariant /\ ChainStands /\ ListenerInvariant'
  BY NextListener DEF OrderInvariant, ListenerInvariant
<1>2. CASE MineBlock
  <2>1. UNCHANGED <<fromBlock, fromBlockL1, starts, skipped, current, l1Prev, todo,
                    fetched, stored>>
    BY <1>2 DEF MineBlock, options, progress
  <2>2. Grown /\ Len(blocks) <= Len(blocks')
    BY <1>1, <1>2, ChainGrows
  <2>3. QED
    BY <1>1, <2>1, <2>2, OrderRests
<1>3. CASE FetchLatestBlockHeight \/ Stop \/ UNCHANGED vars
  <2>1. UNCHANGED <<options, fromBlock, fromBlockL1, blocks, starts, skipped, current,
                    l1Prev, todo, fetched, stored>>
    BY <1>3 DEF FetchLatestBlockHeight, Stop, vars, options, progress
  <2>2. Grown /\ Len(blocks) <= Len(blocks')
    BY <1>1, <2>1, ChainKept
  <2>3. QED
    BY <1>1, <2>1, <2>2, OrderRests
<1>4. CASE FetchTransactions
  BY <1>1, <1>4, FetchInTurn
<1>5. CASE AddNext
  BY <1>1, <1>5, AddInTurn
<1>6. CASE NextBlock
  BY <1>1, <1>6, NextBlockInTurn
<1>7. CASE FetchFails
  BY <1>1, <1>7, FetchFailsDisturbs
<1>8. CASE Start
  BY <1>1, <1>8, StartInTurn
<1>9. QED
  BY <1>2, <1>3, <1>4, <1>5, <1>6, <1>7, <1>8 DEF Next, Worker

LEMMA OrderStands == Spec => []OrderInvariant
<1>1. Init => OrderInvariant
  BY InitOrder
<1>2. OrderInvariant /\ [Next]_vars => OrderInvariant'
  BY NextOrder
<1>3. QED
  BY <1>1, <1>2, PTL DEF Spec

-----------------------------------------------------------------------------

(* Whenever nonodo stopped and started again, the inputs are a beginning   *)
(* of what the chains call for, in their order: no input is stored before  *)
(* one that comes before it, twice, or at all if it is not called for      *)
(* (watchNewTransactions, espresso_listener.go).                           *)
THEOREM OrderOfTheChains == Spec => []OrderIsCanonical
<1>1. OrderInvariant => OrderIsCanonical
  BY DEF OrderInvariant
<1>2. QED
  BY <1>1, OrderStands, PTL

(* Without a failed fetch no input that is called for is behind the        *)
(* listener and not stored, for the senders that count from 0, as          *)
(* espresso_listener.go:214 does; for the others see CountedFromOneIsLost. *)
THEOREM NothingIsLost == Spec => []NothingLost
<1>1. OrderInvariant => NothingLost
  <2>1. SUFFICES ASSUME OrderInvariant, Undisturbed, NoncesFrom(0), BetweenBlocks
                 PROVE  CalledFor(current - 1) \subseteq ToSet(stored)
    BY DEF NothingLost
  <2>2. ToSet(<<>>) = {}
    BY DEF ToSet
  <2>3. QED
    BY <2>1, <2>2 DEF OrderInvariant, Behind, BetweenBlocks
<1>2. QED
  BY <1>1, OrderStands, PTL
=============================================================================

-------------------------- MODULE EspressoListener --------------------------
(***************************************************************************)
(* The worker that reads inputs from Espresso, and from the input box of   *)
(* the L1 as far as Espresso has finalized it.                             *)
(*                                                                         *)
(* It polls the height of Espresso and goes through the blocks below it.   *)
(* For each block it adds the L1 inputs that block finalizes, then the     *)
(* block's transactions whose nonce is the next one of their sender.  Any  *)
(* error but one stops the worker, and with it nonodo; started again on    *)
(* the same database it reads everything from --from-block again, or from  *)
(* the latest block if the option is not given.  The exception is a failed *)
(* fetch of the transactions: see FetchFails.                              *)
(*                                                                         *)
(* Espresso, the L1 and the repository are external.  Each L1 block has    *)
(* one input; the repository creates no second row with the same ID, and   *)
(* its nonce of a sender is the number of transactions it has of it.       *)
(***************************************************************************)
EXTENDS Integers, Sequences, FiniteSets, SequencesExt

CONSTANTS
  Senders,       (* who signs transactions                                 *)
  FromBlocks,    (* the values of --from-block, 0 for the latest           *)
  FromBlocksL1,  (* the values of --from-l1-block, 0 for none              *)
  FirstHeight,   (* the heights that Espresso and                          *)
  FirstL1,       (*   the L1 have when nonodo is first started             *)
  MaxNonce,      (* bound: the nonces of a sender                          *)
  MaxBlocks,     (* bound: Espresso blocks                                 *)
  MaxFaults      (* bound: failed fetches, and ends of the process         *)

ASSUME EspressoAssumption ==
  /\ {FirstHeight, FirstL1} \subseteq Nat \ {0}
  /\ FromBlocks \subseteq 0..FirstHeight
  /\ FromBlocksL1 \subseteq 0..FirstL1
  /\ {MaxNonce, MaxBlocks, MaxFaults} \subseteq Nat

VARIABLES
  fromBlock,    (* --from-block                                            *)
  fromBlockL1,  (* --from-l1-block                                         *)
  blocks,       (* the Espresso chain; blocks[h] is the block of height h  *)
  up,           (* the process runs                                        *)
  current,      (* currentBlockHeight                                      *)
  latest,       (* lastEspressoBlockHeight, the bound of the inner loop    *)
  l1Prev,       (* l1FinalizedPrevHeight                                   *)
  todo,         (* what is left to add of block `current`, if fetched      *)
  fetched,      (* block `current` is fetched                              *)
  stored,       (* the inputs of the model, in Index order                 *)
  starts,       (* history: the blocks that nonodo started from            *)
  skipped,      (* history: blocks whose fetch failed                      *)
  faults        (* history: how many                                       *)

progress == <<current, latest, l1Prev, todo, fetched>>
options == <<fromBlock, fromBlockL1>>
vars == <<options, blocks, up, progress, stored, starts, skipped, faults>>

-----------------------------------------------------------------------------
(* Transactions and L1 inputs, as places where they were found.            *)

Ours == [sender: Senders, nonce: 0..MaxNonce, app: {"ours"}]
Tx == Ours \cup [sender: Senders, nonce: {0}, app: {"other"}]
Batches ==
  {<<>>} \cup {<<t>> : t \in Tx}
    \cup {pair \in Ours \X Ours : pair[1] # pair[2]}

L1Input(h) == [block |-> 0, pos |-> h]
TxAt(b, i) == [block |-> b, pos |-> i]
Found == [block: Nat, pos: Nat]

TxOf(e) == blocks[e.block].txs[e.pos]

(* The ID of its row: the index in the input box, or the signature's hash. *)
Id(e) ==
  IF e.block = 0 THEN <<e.pos>> ELSE <<TxOf(e).sender, TxOf(e).nonce>>

L1Range(from, to) == [i \in 1..(to - from + 1) |-> L1Input(from + i - 1)]
TxsOf(b) == [i \in DOMAIN blocks[b].txs |-> TxAt(b, i)]

-----------------------------------------------------------------------------
(* Adding one input to the inputs s.                                       *)

GetNonce(s, sender) ==
  Cardinality({k \in DOMAIN s : s[k].block # 0 /\ TxOf(s[k]).sender = sender})

Create(s, e) ==
  IF \E k \in DOMAIN s : Id(s[k]) = Id(e) THEN s ELSE Append(s, e)

AddTx_NoNonce(s, e) ==
  IF TxOf(e).app = "ours" THEN Create(s, e) ELSE s

AddTx(s, e) ==
  IF TxOf(e).app = "ours" /\ TxOf(e).nonce = GetNonce(s, TxOf(e).sender)
  THEN Create(s, e) ELSE s

Add(s, e) == IF e.block = 0 THEN Create(s, e) ELSE AddTx(s, e)

-----------------------------------------------------------------------------
(* Where the listener starts on a chain: the Espresso block, and the L1    *)
(* block after which it has something to read.                             *)
StartBlock(chain) == IF fromBlock = 0 THEN Len(chain) ELSE fromBlock
StartL1(chain) ==
  IF fromBlockL1 = 0 THEN chain[StartBlock(chain)].l1 ELSE fromBlockL1

Init ==
  /\ fromBlock \in FromBlocks
  /\ fromBlockL1 \in FromBlocksL1
  /\ blocks = [h \in 1..FirstHeight |-> [l1 |-> FirstL1, txs |-> <<>>]]
  /\ up = TRUE
  /\ current = StartBlock(blocks)
  /\ latest = current
  /\ l1Prev = StartL1(blocks)
  /\ starts = {current}
  /\ todo = <<>>
  /\ fetched = FALSE
  /\ stored = <<>>
  /\ skipped = {}
  /\ faults = 0

(* The listener reads below the latest block: the last one of the bound    *)
(* can be empty, and finalize nothing.                                     *)
MineBlock ==
  /\ Len(blocks) < MaxBlocks
  /\ \E txs \in (IF Len(blocks) = MaxBlocks - 1 THEN {<<>>} ELSE Batches),
        advance \in (IF Len(blocks) = MaxBlocks - 1 THEN {0} ELSE 0..1) :
       blocks' = Append(blocks, [l1 |-> Last(blocks).l1 + advance, txs |-> txs])
  /\ UNCHANGED <<options, up, progress, stored, starts, skipped, faults>>

(* The outer loop: only when the inner one is through.                     *)
FetchLatestBlockHeight ==
  /\ up
  /\ current = latest
  /\ Len(blocks) > current
  /\ latest' = Len(blocks)
  /\ UNCHANGED <<options, starts, blocks, up, current, l1Prev, todo, fetched, stored, skipped, faults>>

(* The transactions are here; the input box is read if the block finalizes *)
(* more of the L1, from the last height read on, and for the block of      *)
(* --from-block: from the latest block on, not for the first one.          *)
L1ToRead_PastLast(b) ==
  IF blocks[b].l1 > l1Prev \/ b = fromBlock
  THEN L1Range(l1Prev + 1, blocks[b].l1) ELSE <<>>

L1ToRead(b) ==
  IF blocks[b].l1 > l1Prev \/ b = fromBlock
  THEN L1Range(l1Prev, blocks[b].l1) ELSE <<>>

(* What follows the fetch of block b.                                      *)
ToAdd_TxsFirst(b) == TxsOf(b) \o L1ToRead(b)

ToAdd(b) == L1ToRead(b) \o TxsOf(b)

FetchTransactions_PastRange ==
  /\ up
  /\ current < latest
  /\ ~fetched
  /\ todo' = ToAdd(current)
  /\ l1Prev' = IF blocks[current].l1 > l1Prev THEN blocks[current].l1 + 1 ELSE l1Prev
  /\ fetched' = TRUE
  /\ UNCHANGED <<options, starts, blocks, up, current, latest, stored, skipped, faults>>

FetchTransactions_Inclusive ==
  /\ up
  /\ current <= latest
  /\ ~fetched
  /\ todo' = ToAdd(current)
  /\ l1Prev' = IF blocks[current].l1 > l1Prev THEN blocks[current].l1 ELSE l1Prev
  /\ fetched' = TRUE
  /\ UNCHANGED <<options, starts, blocks, up, current, latest, stored, skipped, faults>>

FetchTransactions ==
  /\ up
  /\ current < latest
  /\ ~fetched
  /\ todo' = ToAdd(current)
  /\ l1Prev' = IF blocks[current].l1 > l1Prev THEN blocks[current].l1 ELSE l1Prev
  /\ fetched' = TRUE
  /\ UNCHANGED <<options, starts, blocks, up, current, latest, stored, skipped, faults>>

AddNext ==
  /\ up
  /\ todo # <<>>
  /\ stored' = Add(stored, Head(todo))
  /\ todo' = Tail(todo)
  /\ UNCHANGED <<options, starts, blocks, up, current, latest, l1Prev, fetched, skipped, faults>>

NextBlock ==
  /\ up
  /\ fetched
  /\ todo = <<>>
  /\ current' = current + 1
  /\ fetched' = FALSE
  /\ UNCHANGED <<options, starts, blocks, up, latest, l1Prev, todo, stored, skipped, faults>>

-----------------------------------------------------------------------------
(* Faults.                                                                 *)

CountFault ==
  /\ faults < MaxFaults
  /\ faults' = faults + 1

(* The continue of the fetch's error branch is one of the inner loop: it   *)
(* goes on with the next block.                                            *)
FetchFails ==
  /\ CountFault
  /\ up
  /\ current < latest
  /\ ~fetched
  /\ skipped' = skipped \cup {current}
  /\ current' = current + 1
  /\ UNCHANGED <<options, starts, blocks, up, latest, l1Prev, todo, fetched, stored>>

(* Any other error ends the worker and the process; so does a crash.       *)
Stop ==
  /\ CountFault
  /\ up
  /\ up' = FALSE
  /\ UNCHANGED <<options, starts, blocks, progress, stored, skipped>>

(* nonodo starts again, with the same options and database.                *)
Start ==
  /\ ~up
  /\ up' = TRUE
  /\ current' = StartBlock(blocks)
  /\ latest' = current'
  /\ l1Prev' = StartL1(blocks)
  /\ starts' = starts \cup {current'}
  /\ todo' = <<>>
  /\ fetched' = FALSE
  /\ UNCHANGED <<options, blocks, stored, skipped, faults>>

-----------------------------------------------------------------------------
Worker ==
  FetchLatestBlockHeight \/ FetchTransactions \/ AddNext \/ NextBlock

Next == MineBlock \/ Worker \/ FetchFails \/ Stop \/ Start

(* The worker is a goroutine that polls; nobody has to start nonodo again. *)
Spec == Init /\ [][Next]_vars /\ WF_vars(Worker)

-----------------------------------------------------------------------------
(* What the two chains call for.  The L1 counts from FirstRead on; started *)
(* from the latest block, the listener reads FirstRead itself with the     *)
(* next block of the L1.                                                   *)

First == CHOOSE s \in starts : \A t \in starts : s <= t
FirstRead == IF fromBlockL1 = 0 THEN blocks[First].l1 ELSE fromBlockL1

ReadUpTo(b) ==
  IF b < First \/ (fromBlock = 0 /\ blocks[b].l1 = FirstRead) THEN FirstRead - 1
  ELSE blocks[b].l1

(* The order of the chains: a block's transactions follow what it          *)
(* finalizes of the L1.                                                    *)
Precedes(e, f) ==
  \/ e.block = 0 /\ f.block = 0 /\ e.pos < f.pos
  \/ e.block = 0 /\ f.block # 0 /\ e.pos <= ReadUpTo(f.block)
  \/ e.block # 0 /\ f.block = 0 /\ ReadUpTo(e.block) < f.pos
  \/ /\ e.block # 0 /\ f.block # 0
     /\ e.block < f.block \/ (e.block = f.block /\ e.pos < f.pos)

Transactions(b) ==
  {e \in UNION {{TxAt(c, i) : i \in DOMAIN blocks[c].txs} : c \in First..b} :
     TxOf(e).app = "ours"}

(* The inputs of the blocks First..b: the L1 inputs that these finalize,   *)
(* and each transaction of ours where it comes first.                      *)
CalledFor(b) ==
  {L1Input(h) : h \in FirstRead..ReadUpTo(b)}
    \cup {e \in Transactions(b) :
            \A f \in Transactions(b) : Precedes(f, e) => Id(f) # Id(e)}

-----------------------------------------------------------------------------
(* Properties.                                                             *)

(* Every variable has its type, and the listener stays between the block   *)
(* it started from and the latest it knows.                                *)
TypeOK ==
  /\ fromBlock \in FromBlocks /\ fromBlockL1 \in FromBlocksL1
  /\ blocks \in Seq([l1: Nat, txs: Seq(Tx)])
  /\ {up, fetched} \subseteq BOOLEAN
  /\ \E s \in starts : current \in s..latest
  /\ latest \in 1..Len(blocks)
  /\ l1Prev \in Nat
  /\ {todo, stored} \subseteq Seq(Found)
  /\ skipped \subseteq DOMAIN blocks
  /\ faults \in Nat

(* The nonces of a sender count one by one from n; it may repeat a         *)
(* transaction.                                                            *)
NoncesFrom(n) ==
  \A b \in DOMAIN blocks : \A i \in DOMAIN blocks[b].txs :
    LET tx == TxOf(TxAt(b, i))
    IN  tx.app = "ours" =>
          /\ tx.nonce >= n
          /\ tx.nonce > n =>
               \E c \in 1..b : \E j \in DOMAIN blocks[c].txs :
                 /\ c < b \/ j < i
                 /\ TxOf(TxAt(c, j)) = [tx EXCEPT !.nonce = @ - 1]

(* No fetch failed, and each start was from the same block.  A restart     *)
(* from a later one passes over what came in between.                      *)
Undisturbed == skipped = {} /\ starts = {First}

(* The order of the inputs is that of the chains alone: whenever nonodo    *)
(* stopped and started again, the inputs are a beginning of what the       *)
(* chains call for, in their order (watchNewTransactions).  A transaction  *)
(* that came before its turn breaks it: the second reading finds it in     *)
(* turn.  The senders count from 0, as the code does (line 214).           *)
OrderIsCanonical ==
  Undisturbed /\ NoncesFrom(0) =>
    /\ ToSet(stored) \subseteq CalledFor(Len(blocks))
    /\ \A j, k \in DOMAIN stored : j < k => Precedes(stored[j], stored[k])
    /\ \A k \in DOMAIN stored : \A e \in CalledFor(Len(blocks)) :
         Precedes(e, stored[k]) => e \in ToSet(stored)

BetweenBlocks == todo = <<>> /\ ~fetched

(* Without a failed fetch no input is behind the listener and not stored,  *)
(* for the senders that count from 0 as line 214 of espresso_listener.go   *)
(* does, and the /nonce of the Paio API.                                   *)
NothingLost ==
  Undisturbed /\ NoncesFrom(0) /\ BetweenBlocks =>
    CalledFor(current - 1) \subseteq ToSet(stored)

(* The same for senders that count as the comment at                       *)
(* espresso_listener.go:204 tells the application to, from 1.              *)
CommentedNoncesAreStored ==
  Undisturbed /\ NoncesFrom(1) /\ BetweenBlocks =>
    CalledFor(current - 1) \subseteq ToSet(stored)

(* The retry that espresso_listener.go:121 announces when a fetch fails:   *)
(* no transaction that was in its turn is behind the listener unstored.    *)
FailedFetchIsRetried ==
  starts = {First} /\ NoncesFrom(0) /\ BetweenBlocks =>
    \A e \in CalledFor(current - 1) : e.block # 0 => e \in ToSet(stored)

(* Whatever is skipped, the L1 inputs are stored in order, and without a   *)
(* hole if each start reads the L1 from the same block.                    *)
L1WithoutHoles ==
  LET l1 == {k \in DOMAIN stored : stored[k].block = 0}
  IN  /\ \A j, k \in l1 : j < k => stored[j].pos < stored[k].pos
      /\ starts = {First} \/ fromBlockL1 # 0 =>
           \A k \in l1 :
             /\ stored[k].pos >= FirstRead
             /\ \A h \in FirstRead..stored[k].pos : \E j \in l1 : stored[j].pos = h

(* A sender's transactions are stored in the order of their nonces, each   *)
(* once, although blocks are skipped, read again or repeat them: the nonce *)
(* of one is the number of those before it.                                *)
NoncesInOrder ==
  \A k \in DOMAIN stored : stored[k].block # 0 =>
    TxOf(stored[k]).nonce =
      Cardinality({j \in 1..(k - 1) :
                     /\ stored[j].block # 0
                     /\ TxOf(stored[j]).sender = TxOf(stored[k]).sender})

(* A sender that counts from 1 loses all it sends: none of its             *)
(* transactions is in its turn (line 214), ever.                           *)
CountingFromOneStoresNone ==
  NoncesFrom(1) => \A k \in DOMAIN stored : stored[k].block = 0

(* Again and again the listener has caught up with Espresso: every block   *)
(* below the latest is read in the end, unless a fetch failed, nonodo      *)
(* stays down, or starts from another block; for senders that count from   *)
(* 0.                                                                      *)
EventuallyStored ==
  []<>(\/ ~up \/ ~Undisturbed \/ ~NoncesFrom(0)
       \/ CalledFor(Len(blocks) - 1) \subseteq ToSet(stored))
=============================================================================

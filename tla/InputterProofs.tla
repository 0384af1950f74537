--------------------------- MODULE InputterProofs ---------------------------
(***************************************************************************)
(* Proofs about Inputter, for every chain, every number of failures and    *)
(* every block to start from.                                              *)
(***************************************************************************)
EXTENDS Inputter, SequenceTheorems, TLAPS

-----------------------------------------------------------------------------
(* The inductive invariant.                                                *)

(* Events lie behind the block the worker is configured to start from, in  *)
(* the order of their blocks; the remembered block is on the chain.        *)
InChainOrder ==
  /\ \A k \in DOMAIN events : InputBoxBlock < events[k].block
  /\ \A j, k \in DOMAIN events : j < k => events[j].block <= events[k].block
  /\ currentBlock <= Height

(* What waits to be added waits where the worker adds it: the events of    *)
(* the query while it reads the past, those of the subscription in their   *)
(* order while it watches, or when it has stopped doing so.                *)
InItsPlace ==
  /\ at # "past" => past = {}
  /\ past \subseteq 1..queried
  /\ at \notin {"watch", "stopped"} => live = <<>>
  /\ \A i, j \in DOMAIN live : i < j => live[i] < live[j]

(* What the worker owes it has in hand: of the events that were there when *)
(* it asked, all while it adds them and none after; and in the end all.    *)
InHand ==
  /\ at = "past" => Owed \cap 1..queried \subseteq past
  /\ at = "subscribe" => Owed \cap 1..queried = {}
  /\ at = "watch" => Owed \subseteq ToSet(live)

IInv == TypeOK /\ InChainOrder /\ InItsPlace /\ InHand /\ NoSkip /\ WillBeRead

-----------------------------------------------------------------------------
(* Facts about the data.                                                   *)

(* The last block is a block of the chain, and no event is behind it.      *)
LEMMA HeightIsLast ==
  ASSUME TypeOK, InChainOrder
  PROVE  /\ Height \in Nat /\ InputBoxBlock <= Height
         /\ Len(events) \in Nat /\ DOMAIN events = 1..Len(events)
         /\ \A k \in DOMAIN events : events[k].block \in Nat /\ events[k].block <= Height
<1>1. /\ events \in Seq([block: Nat, app: Apps]) /\ InputBoxBlock \in Nat
      /\ Len(events) \in Nat /\ DOMAIN events = 1..Len(events)
      /\ \A k \in DOMAIN events : events[k].block \in Nat
  <2>1. events \in Seq([block: Nat, app: Apps])
    BY DEF TypeOK
  <2>2. Len(events) \in Nat /\ DOMAIN events = 1..Len(events)
    BY <2>1
  <2>3. \A k \in DOMAIN events : events[k] \in [block: Nat, app: Apps]
    BY <2>1, <2>2, ElementOfSeq
  <2>4. \A k \in DOMAIN events : events[k].block \in Nat
    BY <2>3
  <2>5. QED
    BY <2>1, <2>2, <2>4, InputterAssumption
<1>2. CASE events = <<>>
  BY <1>1, <1>2 DEF Height
<1>3. CASE events # <<>>
  <2>1. Len(events) \in DOMAIN events
    BY <1>1, <1>3, EmptySeq
  <2>2. Height = events[Len(events)].block
    BY <1>3 DEF Height, Last
  <2>3. \A k \in DOMAIN events : k = Len(events) \/ k < Len(events)
    BY <1>1
  <2>4. QED
    BY <1>1, <2>1, <2>2, <2>3 DEF InChainOrder
<1>4. QED
  BY <1>2, <1>3

(* Adding an event makes it an input if it is the application's, once.     *)
LEMMA StoreAdds ==
  ASSUME TypeOK, NEW k \in DOMAIN events, Store(k)
  PROVE  /\ stored' \in Seq(Ours)
         /\ ToSet(stored') = ToSet(stored) \cup ({k} \cap Ours)
<1>1. stored \in Seq(Ours) /\ ToSet(stored) \subseteq Ours
  BY DEF TypeOK, ToSet
<1>2. CASE k \in Ours /\ ~Contains(stored, k)
  <2>1. stored' = Append(stored, k)
    BY <1>2 DEF Store
  <2>2. /\ stored' \in Seq(Ours) /\ DOMAIN stored = 1..Len(stored) /\ Len(stored) \in Nat
        /\ DOMAIN stored' = 1..(Len(stored) + 1)
        /\ stored'[Len(stored) + 1] = k
        /\ \A i \in 1..Len(stored) : stored'[i] = stored[i]
    BY <1>1, <1>2, <2>1
  <2>3. ToSet(stored') = ToSet(stored) \cup {k}
    BY <2>2 DEF ToSet
  <2>4. QED
    BY <1>2, <2>2, <2>3
<1>3. CASE ~(k \in Ours /\ ~Contains(stored, k))
  <2>1. stored' = stored
    BY <1>3 DEF Store
  <2>2. k \in Ours => k \in ToSet(stored)
    BY <1>1, <1>3 DEF Contains, ToSet
  <2>3. QED
    BY <1>1, <2>1, <2>2
<1>4. QED
  BY <1>2, <1>3

(* Taking the first of the events that wait leaves the others in order,    *)
(* all of them after it.                                                   *)
LEMMA TakeFirst ==
  ASSUME TypeOK, InItsPlace, live # <<>>
  PROVE  /\ Head(live) \in DOMAIN events
         /\ Tail(live) \in Seq(DOMAIN events)
         /\ ToSet(live) = {Head(live)} \cup ToSet(Tail(live))
         /\ \A k \in ToSet(Tail(live)) : Head(live) < k
         /\ \A i, j \in DOMAIN Tail(live) : i < j => Tail(live)[i] < Tail(live)[j]
<1>1. live \in Seq(DOMAIN events)
  BY DEF TypeOK
<1>2. /\ Head(live) \in DOMAIN events /\ Head(live) = live[1]
      /\ Tail(live) \in Seq(DOMAIN events)
      /\ Len(live) \in Nat \ {0} /\ DOMAIN live = 1..Len(live)
      /\ Len(Tail(live)) = Len(live) - 1
      /\ DOMAIN Tail(live) = 1..(Len(live) - 1)
      /\ \A i \in 1..(Len(live) - 1) : Tail(live)[i] = live[i + 1]
  BY <1>1, HeadTailProperties, EmptySeq
<1> DEFINE s == Tail(live)
<1> HIDE DEF s
<1>3. /\ DOMAIN s = 1..(Len(live) - 1)
      /\ \A i \in 1..(Len(live) - 1) : s[i] = live[i + 1] /\ i + 1 \in 1..Len(live) /\ i + 1 > 1
      /\ \A i \in 1..Len(live) : i = 1 \/ (i - 1 \in 1..(Len(live) - 1) /\ live[i] = s[i - 1])
      /\ 1 \in 1..Len(live)
  BY <1>2 DEF s
<1>4. ToSet(live) = {live[1]} \cup ToSet(s)
  BY <1>2, <1>3, SMTT(20) DEF ToSet
<1>5. \A k \in ToSet(s) : live[1] < k
  BY <1>2, <1>3 DEF ToSet, InItsPlace
<1>6. \A i, j \in DOMAIN s : i < j => s[i] < s[j]
  <2>1. SUFFICES ASSUME NEW i \in DOMAIN s, NEW j \in DOMAIN s, i < j
                 PROVE  s[i] < s[j]
    OBVIOUS
  <2>2. /\ i + 1 \in DOMAIN live /\ j + 1 \in DOMAIN live /\ i + 1 < j + 1
        /\ s[i] = live[i + 1] /\ s[j] = live[j + 1]
    BY <1>2, <1>3, <2>1
  <2>3. QED
    BY <2>2 DEF InItsPlace
<1>7. QED
  BY <1>2, <1>4, <1>5, <1>6 DEF s

-----------------------------------------------------------------------------
(* The steps.                                                              *)

(* The worker starts with nothing to add and nothing owed.                 *)
LEMMA InitHolds == Init => IInv
<1> SUFFICES ASSUME Init PROVE IInv
  OBVIOUS
<1>1. /\ <<>> \in Seq([block: Nat, app: Apps]) /\ <<>> \in Seq(DOMAIN events)
      /\ <<>> \in Seq(Ours) /\ DOMAIN <<>> = {} /\ Len(<<>>) = 0
  OBVIOUS
<1>2. TypeOK
  BY <1>1, InputterAssumption DEF Init, TypeOK, Places
<1>3. Owed = {} /\ ToSet(stored) = {}
  BY <1>1 DEF Init, Owed, Ours, ToSet
<1>4. InChainOrder /\ InItsPlace
  BY <1>1, InputterAssumption DEF Init, InChainOrder, InItsPlace, Height
<1>5. InHand /\ NoSkip /\ WillBeRead
  BY <1>3 DEF Init, InHand, NoSkip, WillBeRead
<1>6. QED
  BY <1>2, <1>4, <1>5 DEF IInv

(* A concatenation: its elements are those of the first and of the second. *)
LEMMA Concatenation ==
  ASSUME NEW S, NEW s \in Seq(S), NEW t \in Seq(S)
  PROVE  /\ s \o t \in Seq(S)
         /\ Len(s) \in Nat /\ Len(t) \in Nat
         /\ DOMAIN s = 1..Len(s) /\ DOMAIN t = 1..Len(t)
         /\ Len(s \o t) = Len(s) + Len(t)
         /\ DOMAIN (s \o t) = 1..(Len(s) + Len(t))
         /\ \A i \in DOMAIN (s \o t) : i <= Len(s) => i \in DOMAIN s /\ (s \o t)[i] = s[i]
         /\ \A i \in DOMAIN (s \o t) :
              i > Len(s) => i - Len(s) \in DOMAIN t /\ (s \o t)[i] = t[i - Len(s)]
         /\ ToSet(s \o t) = ToSet(s) \cup ToSet(t)
<1> DEFINE c == s \o t
           n == Len(s)
           m == Len(t)
<1>1. /\ c \in Seq(S) /\ n \in Nat /\ m \in Nat
      /\ DOMAIN s = 1..n /\ DOMAIN t = 1..m /\ Len(c) = n + m
  OBVIOUS
<1>2. DOMAIN c = 1..(n + m)
  BY <1>1, LenProperties
<1>3. \A i \in 1..(n + m) : i <= n => i \in 1..n /\ c[i] = s[i]
  BY <1>1
<1>4. \A i \in 1..(n + m) : i > n => i - n \in 1..m /\ c[i] = t[i - n]
  BY <1>1
<1> HIDE DEF c, n, m
<1>5. \A i \in 1..n : i \in 1..(n + m) /\ i <= n
  BY <1>1
<1>6. \A j \in 1..m : n + j \in 1..(n + m) /\ n + j > n /\ (n + j) - n = j
  BY <1>1
<1>7. ToSet(c) \subseteq ToSet(s) \cup ToSet(t)
  <2>1. SUFFICES ASSUME NEW i \in 1..(n + m) PROVE c[i] \in ToSet(s) \cup ToSet(t)
    BY <1>2 DEF ToSet
  <2>2. CASE i <= n
    BY <1>1, <1>3, <2>2 DEF ToSet
  <2>3. CASE i > n
    BY <1>1, <1>4, <2>3 DEF ToSet
  <2>4. QED
    BY <1>1, <2>2, <2>3
<1>8. ToSet(s) \subseteq ToSet(c)
  BY <1>1, <1>2, <1>3, <1>5 DEF ToSet
<1>9. ToSet(t) \subseteq ToSet(c)
  <2>1. SUFFICES ASSUME NEW j \in 1..m PROVE t[j] \in ToSet(c)
    BY <1>1 DEF ToSet
  <2>2. n + j \in DOMAIN c /\ c[n + j] = t[j]
    BY <1>2, <1>4, <1>6
  <2>3. QED
    BY <2>2 DEF ToSet
<1>10. QED
  BY <1>1, <1>2, <1>3, <1>4, <1>7, <1>8, <1>9 DEF c, n, m

(* Events of the next block on, appended to the chain.                     *)
LEMMA EventsAppend ==
  ASSUME TypeOK, InChainOrder,
         NEW Event, Event = [block: Nat, app: Apps],
         NEW new \in Seq(Event), Len(new) # 0,
         \A k \in DOMAIN new : new[k].block = Height + 1,
         events' = events \o new
  PROVE  /\ events' \in Seq(Event)
         /\ Len(events') = Len(events) + Len(new)
         /\ DOMAIN events' = 1..(Len(events) + Len(new))
         /\ \A k \in DOMAIN events' : k <= Len(events) => events'[k] = events[k]
         /\ \A k \in DOMAIN events' : k > Len(events) => events'[k].block = Height + 1
         /\ Height' = Height + 1
<1>1. events \in Seq(Event)
  BY DEF TypeOK
<1> DEFINE n == Len(events)
           m == Len(new)
<1>2. /\ events' \in Seq(Event) /\ Len(events') = n + m /\ n \in Nat /\ m \in Nat
      /\ DOMAIN events' = 1..(n + m) /\ DOMAIN new = 1..m
      /\ \A k \in DOMAIN events' : k <= n => events'[k] = events[k]
      /\ \A k \in DOMAIN events' : k > n => k - n \in DOMAIN new /\ events'[k] = new[k - n]
  BY <1>1, Concatenation
<1>3. \A k \in DOMAIN events' : k > n => events'[k].block = Height + 1
  BY <1>2
<1>4. Height' = Height + 1
  <2>1. n + m \in 1..(n + m) /\ n + m > n /\ n + m # 0
    BY <1>2
  <2>2. events' # <<>>
    BY <1>2, <2>1, EmptySeq
  <2>3. Height' = events'[n + m].block
    BY <1>2, <2>2 DEF Height, Last
  <2>4. QED
    BY <1>2, <1>3, <2>1, <2>3
<1>5. QED
  BY <1>2, <1>3, <1>4

(* A block of one or more events appends them to the chain.                *)
LEMMA BlockAppends ==
  ASSUME TypeOK, InChainOrder,
         NEW apps \in {<<"ours">>, <<"other">>, <<"ours", "ours">>},
         events' = events \o Logs(apps)
  PROVE  /\ events' \in Seq([block: Nat, app: Apps])
         /\ Len(apps) \in Nat \ {0} /\ DOMAIN apps = 1..Len(apps)
         /\ Len(events') = Len(events) + Len(apps)
         /\ DOMAIN events' = 1..(Len(events) + Len(apps))
         /\ \A k \in DOMAIN events' : k <= Len(events) => events'[k] = events[k]
         /\ \A k \in DOMAIN events' : k > Len(events) => events'[k].block = Height + 1
         /\ Height' = Height + 1
<1> DEFINE m == Len(apps)
           new == Logs(apps)
           Event == [block: Nat, app: Apps]
<1>1. /\ m \in Nat \ {0} /\ DOMAIN apps = 1..m
      /\ \A k \in 1..m : apps[k] \in Apps
  <2>1. CASE apps = <<"ours">>
    BY <2>1 DEF Apps
  <2>2. CASE apps = <<"other">>
    BY <2>2 DEF Apps
  <2>3. CASE apps = <<"ours", "ours">>
    BY <2>3 DEF Apps
  <2>4. QED
    BY <2>1, <2>2, <2>3
<1>2. Height \in Nat
  BY HeightIsLast
<1>3. /\ new \in Seq(Event) /\ Len(new) = m /\ Len(new) # 0
      /\ \A k \in DOMAIN new : new[k].block = Height + 1
  <2>1. new = [k \in 1..m |-> [block |-> Height + 1, app |-> apps[k]]]
    BY <1>1 DEF Logs
  <2>2. \A k \in 1..m : [block |-> Height + 1, app |-> apps[k]] \in Event
    BY <1>1, <1>2
  <2> HIDE DEF m, new, Event
  <2>3. QED
    BY <1>1, <2>1, <2>2
<1>4. /\ events' \in Seq(Event)
      /\ Len(events') = Len(events) + Len(new)
      /\ DOMAIN events' = 1..(Len(events) + Len(new))
      /\ \A k \in DOMAIN events' : k <= Len(events) => events'[k] = events[k]
      /\ \A k \in DOMAIN events' : k > Len(events) => events'[k].block = Height + 1
      /\ Height' = Height + 1
  BY <1>3, EventsAppend, Zenon
<1>5. QED
  BY <1>1, <1>3, <1>4, Zenon

(* New events come after all others: whoever reads the chain again will    *)
(* read them, and whoever watches gets them.                               *)
LEMMA MineBlockKeeps == IInv /\ MineBlock => IInv'
<1> SUFFICES ASSUME IInv, MineBlock PROVE IInv'
  OBVIOUS
<1>1. PICK apps \in {<<"ours">>, <<"other">>, <<"ours", "ours">>} :
        /\ events' = events \o Logs(apps)
        /\ live' = IF at = "watch"
                   THEN live \o [k \in DOMAIN apps |-> Len(events) + k] ELSE live
  BY DEF MineBlock
<1>2. UNCHANGED <<at, currentBlock, past, stored, queried, missed, failures>>
  BY DEF MineBlock
<1> DEFINE n == Len(events)
           m == Len(apps)
<1>3. /\ Height \in Nat /\ InputBoxBlock <= Height /\ InputBoxBlock \in Nat
      /\ n \in Nat /\ DOMAIN events = 1..n /\ currentBlock \in Nat
      /\ \A k \in 1..n : events[k].block \in Nat /\ events[k].block <= Height
  BY HeightIsLast, InputterAssumption DEF IInv, TypeOK
<1>4. /\ events' \in Seq([block: Nat, app: Apps])
      /\ m \in Nat \ {0} /\ DOMAIN apps = 1..m
      /\ Len(events') = n + m /\ DOMAIN events' = 1..(n + m)
      /\ \A k \in 1..(n + m) : k <= n => events'[k] = events[k]
      /\ \A k \in 1..(n + m) : k > n => events'[k].block = Height + 1
      /\ Height' = Height + 1
  <2>1. TypeOK /\ InChainOrder
    BY DEF IInv
  <2>2. QED
    BY <1>1, <2>1, BlockAppends
<1> HIDE DEF n, m
<1>5. \A k \in 1..(n + m) : k \in 1..n \/ k > n
  BY <1>3, <1>4
<1>6. /\ Ours \subseteq 1..n /\ Ours' \subseteq 1..(n + m)
      /\ \A k \in 1..n : k \in 1..(n + m) /\ events'[k] = events[k]
      /\ \A k \in 1..n : k \in Ours' <=> k \in Ours
  <2>1. \A k \in 1..n : k \in 1..(n + m) /\ k <= n
    BY <1>3, <1>4
  <2>2. QED
    BY <1>3, <1>4, <2>1 DEF Ours
<1>7. ToSet(stored) \subseteq Ours /\ missed \subseteq Ours /\ past \subseteq Ours
  BY DEF IInv, TypeOK, ToSet
<1>8. \A k \in Owed' : k \in Owed \/ (k \in 1..(n + m) /\ k > n)
  BY <1>2, <1>5, <1>6 DEF Owed
<1>9. /\ live' \in Seq(1..(n + m))
      /\ \A i, j \in DOMAIN live' : i < j => live'[i] < live'[j]
      /\ at = "watch" => \A k \in 1..(n + m) : k > n => k \in ToSet(live')
      /\ ToSet(live) \subseteq ToSet(live')
  <2>1. live \in Seq(1..n) /\ 1..n \subseteq 1..(n + m)
    <3>1. live \in Seq(DOMAIN events) /\ DOMAIN events = 1..n
      BY <1>3 DEF IInv, TypeOK
    <3>2. live \in Seq(1..n)
      BY <3>1
    <3>3. 1..n \subseteq 1..(n + m)
      BY <1>3, <1>4
    <3>4. QED
      BY <3>2, <3>3
  <2>2. live \in Seq(1..(n + m))
    <3> DEFINE Old == 1..n
               All == 1..(n + m)
    <3>1. live \in Seq(Old) /\ Old \subseteq All
      BY <2>1
    <3> HIDE DEF Old, All
    <3>2. live \in Seq(All)
      BY <3>1
    <3>3. QED
      BY <3>2 DEF All
  <2>3. CASE at # "watch"
    <3>1. live' = live
      BY <1>1, <2>3
    <3>2. QED
      BY <2>2, <2>3, <3>1 DEF IInv, InItsPlace
  <2>4. CASE at = "watch"
    <3> DEFINE new == [k \in 1..m |-> n + k]
               l == Len(live)
    <3>1. new \in Seq(1..(n + m)) /\ \A i \in 1..m : new[i] = n + i
      BY <1>3, <1>4
    <3>2. Len(new) = m /\ DOMAIN new = 1..m
      BY <1>4
    <3>3. live' = live \o new
      <4>1. new = [k \in DOMAIN apps |-> Len(events) + k]
        BY <1>4 DEF n
      <4> HIDE DEF new
      <4>2. QED
        <5>1. live' = live \o [k \in DOMAIN apps |-> Len(events) + k]
          BY <1>1, <2>4
        <5>2. QED
          BY <4>1, <5>1, Zenon
    <3>4. l \in Nat /\ DOMAIN live = 1..l /\ \A i \in 1..l : live[i] \in 1..n
      <4> DEFINE Old == 1..n
      <4>1. live \in Seq(Old)
        BY <2>1
      <4> HIDE DEF new, Old
      <4>2. l \in Nat /\ DOMAIN live = 1..l /\ \A i \in 1..l : live[i] \in Old
        BY <4>1
      <4>3. QED
        BY <4>2 DEF Old
    <3> HIDE DEF new, l
    <3>5. /\ live' \in Seq(1..(n + m)) /\ DOMAIN live' = 1..(l + m)
          /\ \A i \in 1..(l + m) : i <= l => i \in 1..l /\ live'[i] = live[i]
          /\ \A i \in 1..(l + m) : i > l => i - l \in 1..m /\ live'[i] = new[i - l]
          /\ ToSet(live') = ToSet(live) \cup ToSet(new)
      BY <2>2, <3>1, <3>2, <3>3, Concatenation DEF l
    <3>6. \A i \in 1..(l + m) : i > l => i - l \in 1..m /\ live'[i] = n + (i - l)
      BY <3>1, <3>5
    <3>7. ASSUME NEW i \in 1..(l + m), NEW j \in 1..(l + m), i < j
          PROVE  live'[i] < live'[j]
      <4>1. CASE j <= l
        <5>1. i <= l
          BY <1>4, <3>4, <3>7, <4>1
        <5>2. live[i] < live[j]
          BY <3>4, <3>5, <3>7, <4>1, <5>1 DEF IInv, InItsPlace
        <5>3. QED
          BY <3>5, <4>1, <5>1, <5>2
      <4>2. CASE j > l /\ i <= l
        <5>1. live'[j] = n + (j - l) /\ j - l \in 1..m
          BY <3>6, <4>2
        <5>2. live'[i] \in 1..n
          BY <3>4, <3>5, <4>2
        <5>3. QED
          BY <1>3, <1>4, <5>1, <5>2
      <4>3. CASE j > l /\ i > l
        <5>1. live'[j] = n + (j - l) /\ live'[i] = n + (i - l)
          BY <3>6, <4>3
        <5>2. QED
          BY <1>3, <1>4, <3>4, <3>7, <5>1
      <4>4. QED
        BY <1>4, <3>4, <4>1, <4>2, <4>3
    <3>8. ASSUME NEW k \in 1..(n + m), k > n PROVE k \in ToSet(new)
      <4>1. k - n \in 1..m /\ n + (k - n) = k
        BY <1>3, <1>4, <3>8
      <4>2. QED
        BY <3>1, <3>2, <4>1 DEF ToSet
    <3>9. QED
      BY <3>5, <3>7, <3>8
  <2>5. QED
    BY <2>3, <2>4
<1>10. TypeOK'
  <2>1. past' \subseteq Ours' /\ missed' \subseteq Ours'
    BY <1>2, <1>6, <1>7
  <2>2. stored' \in Seq(Ours')
    <3>1. Ours \subseteq Ours' /\ stored \in Seq(Ours)
      BY <1>6 DEF IInv, TypeOK
    <3> HIDE DEF Ours
    <3>2. QED
      BY <1>2, <3>1
  <2>3. queried' \in 0..Len(events')
    BY <1>2, <1>3, <1>4 DEF IInv, TypeOK, n
  <2>4. QED
    BY <1>2, <1>4, <1>9, <2>1, <2>2, <2>3 DEF IInv, TypeOK
<1>11. InChainOrder'
  <2>1. ASSUME NEW k \in 1..(n + m)
        PROVE  InputBoxBlock < events'[k].block /\ events'[k].block \in Nat
    <3>1. CASE k \in 1..n
      BY <1>3, <1>6, <3>1 DEF IInv, InChainOrder
    <3>2. CASE k > n
      BY <1>3, <1>4, <3>2
    <3>3. QED
      BY <1>5, <3>1, <3>2
  <2>2. ASSUME NEW j \in 1..(n + m), NEW k \in 1..(n + m), j < k
        PROVE  events'[j].block <= events'[k].block
    <3>1. CASE k \in 1..n
      <4>1. j \in 1..n
        BY <1>3, <1>4, <2>2, <3>1
      <4>2. QED
        BY <1>3, <1>6, <2>2, <3>1, <4>1 DEF IInv, InChainOrder
    <3>2. CASE k > n
      <4>1. events'[k].block = Height + 1
        BY <1>4, <3>2
      <4>2. CASE j \in 1..n
        <5>1. events'[j].block \in Nat /\ events'[j].block <= Height
          BY <1>3, <1>6, <4>2
        <5>2. QED
          BY <1>3, <4>1, <5>1
      <4>3. CASE j > n
        <5>1. events'[j].block = Height + 1
          BY <1>4, <4>3
        <5>2. QED
          BY <1>3, <4>1, <5>1
      <4>4. QED
        BY <1>5, <4>2, <4>3
    <3>3. QED
      BY <1>5, <3>1, <3>2
  <2>3. currentBlock' <= Height'
    BY <1>2, <1>3, <1>4 DEF IInv, InChainOrder
  <2>4. QED
    BY <1>4, <2>1, <2>2, <2>3 DEF InChainOrder
<1>12. InItsPlace'
  <2>1. at \notin {"watch", "stopped"} => live' = <<>>
    BY <1>1 DEF IInv, InItsPlace
  <2>2. QED
    BY <1>2, <1>9, <2>1 DEF IInv, InItsPlace
<1>13. InHand'
  <2>1. queried \in 0..n
    BY DEF IInv, TypeOK, n
  <2>2. \A k \in Owed' : k \in 1..queried => k \in Owed
    BY <1>3, <1>4, <1>8, <2>1
  <2>3. at = "watch" => Owed' \subseteq ToSet(live')
    BY <1>8, <1>9 DEF IInv, InHand
  <2>4. QED
    BY <1>2, <2>2, <2>3 DEF IInv, InHand
<1>14. NoSkip'
  <2>1. SUFFICES ASSUME NEW k \in ToSet(stored), NEW older \in Ours', older < k
                 PROVE  older \in ToSet(stored) \cup missed
    BY <1>2 DEF NoSkip
  <2>2. k \in 1..n /\ older \in 1..(n + m)
    BY <1>6, <1>7
  <2>3. older \in 1..n
    BY <1>3, <1>4, <2>1, <2>2
  <2>4. QED
    BY <1>6, <2>1, <2>3 DEF IInv, NoSkip
<1>15. WillBeRead'
  <2>1. SUFFICES ASSUME at # "stopped", NEW k \in Owed'
                 PROVE  events'[k].block >= currentBlock
    BY <1>2 DEF WillBeRead
  <2>2. CASE k \in Owed
    <3>1. k \in 1..n /\ events[k].block >= currentBlock
      BY <1>6, <2>1, <2>2 DEF IInv, WillBeRead, Owed
    <3>2. QED
      BY <1>6, <3>1
  <2>3. CASE k \in 1..(n + m) /\ k > n
    <3>1. events'[k].block = Height + 1 /\ currentBlock <= Height
      BY <1>4, <2>3 DEF IInv, InChainOrder
    <3>2. QED
      BY <1>3, <3>1
  <2>4. QED
    BY <1>8, <2>2, <2>3
<1>16. QED
  BY <1>10, <1>11, <1>12, <1>13, <1>14, <1>15 DEF IInv

(* Steps of the worker that store nothing: what it owes stays, and has to  *)
(* be in hand, or behind the block to read from.                           *)
LEMMA NothingStored ==
  ASSUME IInv, UNCHANGED <<events, stored, missed>>,
         at' \in Places, failures' \in Nat, queried' \in 0..Len(events),
         past' \subseteq Ours \cap 1..queried', at' # "past" => past' = {},
         live' \in {live, <<>>}, at' \notin {"watch", "stopped"} => live' = <<>>,
         currentBlock' \in Nat, currentBlock' <= Height,
         InHand', WillBeRead'
  PROVE  IInv'
<1>1. Ours' = Ours /\ Owed' = Owed /\ Height' = Height
  BY DEF Ours, Owed, Height
<1>2. <<>> \in Seq(DOMAIN events) /\ DOMAIN <<>> = {}
  OBVIOUS
<1>3. TypeOK'
  <2>1. live' \in Seq(DOMAIN events')
    BY <1>2 DEF IInv, TypeOK
  <2>2. past' \subseteq Ours' /\ stored' \in Seq(Ours') /\ missed' \subseteq Ours'
    BY <1>1 DEF IInv, TypeOK
  <2>3. QED
    BY <2>1, <2>2 DEF IInv, TypeOK
<1>4. InChainOrder'
  BY <1>1 DEF IInv, InChainOrder
<1>5. InItsPlace'
  BY <1>2 DEF IInv, InItsPlace
<1>6. NoSkip'
  BY <1>1 DEF IInv, NoSkip
<1>7. QED
  BY <1>3, <1>4, <1>5, <1>6 DEF IInv

(* The types, as the steps use them.                                       *)
LEMMA Facts ==
  ASSUME IInv
  PROVE  /\ at \in Places /\ failures \in Nat /\ queried \in 0..Len(events)
         /\ Len(events) \in Nat /\ DOMAIN events = 1..Len(events)
         /\ past \subseteq Ours \cap 1..queried
         /\ currentBlock \in Nat /\ currentBlock <= Height
         /\ Height \in Nat /\ InputBoxBlock \in Nat /\ InputBoxBlock <= Height
         /\ Ours \subseteq DOMAIN events /\ Owed \subseteq Ours
         /\ \A k \in DOMAIN events :
              /\ events[k].block \in Nat
              /\ InputBoxBlock < events[k].block /\ events[k].block <= Height
<1>1. /\ Len(events) \in Nat /\ DOMAIN events = 1..Len(events)
      /\ Height \in Nat /\ InputBoxBlock <= Height
      /\ \A k \in DOMAIN events : events[k].block \in Nat /\ events[k].block <= Height
  BY HeightIsLast DEF IInv
<1>2. QED
  BY <1>1, InputterAssumption DEF IInv, TypeOK, InChainOrder, InItsPlace, Ours, Owed

(* The query finds all that is owed: nothing owed lies before the block it *)
(* reads from.                                                             *)
LEMMA QueryPastKeeps == IInv /\ QueryPast => IInv'
<1> SUFFICES ASSUME IInv, QueryPast PROVE IInv'
  OBVIOUS
<1>1. /\ at = "query" /\ at' = "past" /\ queried' = Len(events)
      /\ past' = {k \in DOMAIN events : Matching(k)}
      /\ UNCHANGED <<events, missed, currentBlock, live, stored, failures>>
  BY DEF QueryPast, chain
<1>2. past' \subseteq Ours \cap 1..queried' /\ queried' \in 0..Len(events)
  BY <1>1, Facts DEF Matching, Ours
<1>3. Owed' = Owed /\ \A k \in Owed : k \in past'
  BY <1>1, Facts DEF Owed, Ours, Matching, IInv, WillBeRead
<1>4. InHand' /\ WillBeRead'
  BY <1>1, <1>3 DEF InHand, WillBeRead, IInv
<1>5. live' = <<>>
  BY <1>1 DEF IInv, InItsPlace
<1>6. QED
  BY <1>1, <1>2, <1>4, <1>5, Facts, NothingStored DEF Places

(* The first of the past events is stored, so none before it is owed.      *)
LEMMA AddPastKeeps == IInv /\ AddPast => IInv'
<1> SUFFICES ASSUME IInv, AddPast PROVE IInv'
  OBVIOUS
<1>1. PICK k \in past : (\A other \in past : k <= other) /\ Store(k) /\ past' = past \ {k}
  BY DEF AddPast
<1>2. /\ at = "past"
      /\ UNCHANGED <<events, missed, at, currentBlock, live, queried, failures>>
  BY DEF AddPast, chain
<1>3. k \in Ours /\ k \in DOMAIN events /\ k \in 1..queried /\ k \in Nat
  BY <1>1, Facts
<1>4. /\ stored' \in Seq(Ours) /\ ToSet(stored') = ToSet(stored) \cup {k}
      /\ Ours' = Ours /\ Owed' = Owed \ {k} /\ Height' = Height
  <2>1. stored' \in Seq(Ours) /\ ToSet(stored') = ToSet(stored) \cup ({k} \cap Ours)
    BY <1>1, <1>3, StoreAdds DEF IInv
  <2>2. Ours' = Ours /\ Height' = Height
    BY <1>2 DEF Ours, Height
  <2>3. QED
    BY <1>2, <1>3, <2>1, <2>2 DEF Owed
<1>5. TypeOK'
  BY <1>1, <1>2, <1>4 DEF IInv, TypeOK
<1>6. InChainOrder' /\ InItsPlace'
  BY <1>1, <1>2, <1>4 DEF IInv, InChainOrder, InItsPlace
<1>7. InHand' /\ WillBeRead'
  BY <1>1, <1>2, <1>4 DEF IInv, InHand, WillBeRead
<1>8. NoSkip'
  <2>1. SUFFICES ASSUME NEW j \in ToSet(stored) \cup {k}, NEW older \in Ours, older < j
                 PROVE  older \in ToSet(stored) \cup {k} \cup missed
    BY <1>2, <1>4 DEF NoSkip
  <2>2. CASE j \in ToSet(stored)
    BY <2>1, <2>2 DEF IInv, NoSkip
  <2>3. CASE j = k
    <3>1. older \in Nat /\ older \in 1..queried
      BY <1>3, <2>1, <2>3, Facts
    <3>2. older \notin past
      BY <1>1, <1>3, <2>1, <2>3, <3>1
    <3>3. older \notin Owed
      BY <1>2, <3>1, <3>2 DEF IInv, InHand
    <3>4. QED
      BY <3>3 DEF Owed
  <2>4. QED
    BY <2>1, <2>2, <2>3
<1>9. QED
  BY <1>5, <1>6, <1>7, <1>8 DEF IInv

(* When no past event is left, none that was there at the query is owed.   *)
LEMMA PastDoneKeeps == IInv /\ PastDone => IInv'
<1> SUFFICES ASSUME IInv, PastDone PROVE IInv'
  OBVIOUS
<1>1. /\ at = "past" /\ past = {} /\ at' = "subscribe"
      /\ UNCHANGED <<events, missed, currentBlock, past, live, stored, queried, failures>>
  BY DEF PastDone, chain
<1>2. Owed' = Owed
  BY <1>1 DEF Owed, Ours
<1>3. InHand' /\ WillBeRead' /\ live' = <<>>
  BY <1>1, <1>2 DEF IInv, InHand, WillBeRead, InItsPlace
<1>4. QED
  BY <1>1, <1>3, Facts, NothingStored DEF Places

(* What came after the query is missed, so nothing is owed.                *)
LEMMA SubscribeKeeps == IInv /\ Subscribe => IInv'
<1> SUFFICES ASSUME IInv, Subscribe PROVE IInv'
  OBVIOUS
<1>1. /\ at = "subscribe" /\ at' = "watch" /\ live' = <<>>
      /\ missed' = missed \cup {k \in Ours : k > queried}
      /\ UNCHANGED <<events, currentBlock, past, stored, queried, failures>>
  BY DEF Subscribe
<1>2. Ours' = Ours /\ Height' = Height
  BY <1>1 DEF Ours, Height
<1>3. Owed' = {}
  <2>1. ASSUME NEW k \in Ours PROVE k \in 1..queried \/ k > queried
    BY Facts
  <2>2. Owed \cap 1..queried = {}
    BY <1>1 DEF IInv, InHand
  <2>3. QED
    BY <1>1, <1>2, <2>1, <2>2 DEF Owed
<1>4. <<>> \in Seq(DOMAIN events) /\ DOMAIN <<>> = {}
  OBVIOUS
<1>5. TypeOK'
  BY <1>1, <1>2, <1>4 DEF IInv, TypeOK, Places
<1>6. InChainOrder' /\ InItsPlace'
  BY <1>1, <1>2, <1>4 DEF IInv, InChainOrder, InItsPlace
<1>7. InHand' /\ WillBeRead'
  BY <1>1, <1>3 DEF InHand, WillBeRead
<1>8. NoSkip'
  BY <1>1, <1>2 DEF IInv, NoSkip
<1>9. QED
  BY <1>5, <1>6, <1>7, <1>8 DEF IInv

-----------------------------------------------------------------------------
(* The subscription's events.                                              *)

(* Taking the first event that waits: the block before its own is a block  *)
(* of the chain, and no event that waits or is owed lies before it.        *)
LEMMA FirstIsOldest ==
  ASSUME IInv, at = "watch", live # <<>>
  PROVE  /\ Head(live) \in DOMAIN events
         /\ events[Head(live)].block - 1 \in Nat
         /\ events[Head(live)].block - 1 <= Height
         /\ \A k \in Owed : k = Head(live) \/ (k \in ToSet(Tail(live)) /\ Head(live) < k)
         /\ \A k \in Owed : events[k].block >= events[Head(live)].block - 1
<1>1. /\ Head(live) \in DOMAIN events
      /\ ToSet(live) = {Head(live)} \cup ToSet(Tail(live))
      /\ \A k \in ToSet(Tail(live)) : Head(live) < k
  BY TakeFirst DEF IInv
<1> DEFINE first == Head(live)
           rest == ToSet(Tail(live))
<1> HIDE DEF first, rest
<1>2. first \in DOMAIN events /\ \A k \in Owed : k = first \/ (k \in rest /\ first < k)
  BY <1>1 DEF IInv, InHand, first, rest
<1>3. events[first].block - 1 \in Nat /\ events[first].block - 1 <= Height
  BY <1>2, Facts
<1>4. ASSUME NEW k \in Owed PROVE events[k].block >= events[first].block - 1
  <2>1. k \in DOMAIN events /\ events[k].block \in Nat /\ events[first].block \in Nat
    BY <1>2, Facts
  <2>2. events[k].block >= events[first].block
    BY <1>2, <2>1 DEF IInv, InChainOrder
  <2>3. QED
    BY <2>1, <2>2
<1>5. QED
  BY <1>2, <1>3, <1>4 DEF first, rest

(* An event of the subscription is stored before any that comes after it.  *)
LEMMA AddLiveKeeps == IInv /\ AddLive => IInv'
<1> SUFFICES ASSUME IInv, AddLive PROVE IInv'
  OBVIOUS
<1> DEFINE first == Head(live)
           rest == Tail(live)
<1>1. /\ at = "watch" /\ live # <<>> /\ Store(first) /\ live' = rest
      /\ currentBlock' = events[first].block - 1
      /\ UNCHANGED <<events, missed, at, past, queried, failures>>
  BY DEF AddLive, RememberBlock, chain
<1>2. /\ first \in DOMAIN events
      /\ events[first].block - 1 \in Nat /\ events[first].block - 1 <= Height
      /\ \A k \in Owed : k = first \/ (k \in ToSet(rest) /\ first < k)
      /\ \A k \in Owed : events[k].block >= events[first].block - 1
  BY <1>1, FirstIsOldest
<1>3. /\ rest \in Seq(DOMAIN events)
      /\ \A i, j \in DOMAIN rest : i < j => rest[i] < rest[j]
  BY <1>1, TakeFirst DEF IInv
<1> HIDE DEF first, rest
<1>4. /\ stored' \in Seq(Ours) /\ ToSet(stored') = ToSet(stored) \cup ({first} \cap Ours)
      /\ Ours' = Ours /\ Owed' = Owed \ {first} /\ Height' = Height
  <2>1. stored' \in Seq(Ours) /\ ToSet(stored') = ToSet(stored) \cup ({first} \cap Ours)
    BY <1>1, <1>2, StoreAdds DEF IInv
  <2>2. Ours' = Ours /\ Height' = Height
    BY <1>1 DEF Ours, Height
  <2>3. QED
    BY <1>1, <2>1, <2>2 DEF Owed
<1>5. TypeOK'
  BY <1>1, <1>2, <1>3, <1>4 DEF IInv, TypeOK
<1>6. InChainOrder' /\ InItsPlace'
  BY <1>1, <1>2, <1>3, <1>4 DEF IInv, InChainOrder, InItsPlace
<1>7. InHand' /\ WillBeRead'
  BY <1>1, <1>2, <1>4 DEF InHand, WillBeRead
<1>8. NoSkip'
  <2>1. SUFFICES ASSUME NEW j \in ToSet(stored) \cup ({first} \cap Ours),
                        NEW older \in Ours, older < j
                 PROVE  older \in ToSet(stored) \cup {first} \cup missed
    <3>1. first \in Ours \/ first \notin Ours
      OBVIOUS
    <3>2. QED
      BY <1>1, <1>4 DEF NoSkip
  <2>2. CASE j \in ToSet(stored)
    BY <2>1, <2>2 DEF IInv, NoSkip
  <2>3. CASE j = first
    <3>1. older \in Nat /\ first \in Nat
      BY <1>2, Facts
    <3>2. older \notin Owed
      BY <1>2, <2>1, <2>3, <3>1
    <3>3. QED
      BY <3>2 DEF Owed
  <2>4. QED
    BY <2>1, <2>2, <2>3
<1>9. QED
  BY <1>5, <1>6, <1>7, <1>8 DEF IInv

(* An event that cannot be added is read again: the block before its own   *)
(* is remembered, and everything owed lies behind that.                    *)
LEMMA AddLiveFailsKeeps == IInv /\ AddLiveFails => IInv'
<1> SUFFICES ASSUME IInv, AddLiveFails PROVE IInv'
  OBVIOUS
<1>1. /\ at = "watch" /\ live # <<>> /\ failures' = failures + 1
      /\ currentBlock' = events[Head(live)].block - 1
      /\ past' = {} /\ live' = <<>> /\ at' = "wait"
      /\ UNCHANGED <<events, missed, stored, queried>>
  BY DEF AddLiveFails, CountFailure, RememberBlock, StartOver, chain
<1>2. Owed' = Owed
  BY <1>1 DEF Owed, Ours
<1>3. /\ currentBlock' \in Nat /\ currentBlock' <= Height
      /\ \A k \in Owed : events[k].block >= currentBlock'
  BY <1>1, FirstIsOldest
<1>4. InHand' /\ WillBeRead'
  BY <1>1, <1>2, <1>3 DEF InHand, WillBeRead
<1>5. QED
  BY <1>1, <1>3, <1>4, Facts, NothingStored DEF Places

-----------------------------------------------------------------------------
(* The other failures, and the way back to the query.                      *)

(* Whatever is dropped is behind the block that is read again.             *)
LEMMA FailuresKeep ==
  IInv /\ (CallFails \/ Reconnect \/ SubscriptionClosed \/ Restart) => IInv'
<1> SUFFICES ASSUME IInv, CallFails \/ Reconnect \/ SubscriptionClosed \/ Restart
             PROVE  IInv'
  OBVIOUS
<1>1. /\ UNCHANGED <<events, missed, stored, queried>>
      /\ at' \in {"wait", "query", "stopped"} /\ failures' \in Nat
      /\ past' = {} /\ live' \in {live, <<>>}
      /\ at' # "stopped" => live' = <<>>
      /\ \/ currentBlock' = currentBlock /\ (at = "stopped" => at' = "stopped")
         \/ currentBlock' = InputBoxBlock
  <2>1. failures \in Nat
    BY Facts
  <2>2. CASE CallFails
    BY <2>1, <2>2 DEF CallFails, CountFailure, StartOver, chain
  <2>3. CASE Reconnect
    BY <2>1, <2>3 DEF Reconnect, chain, IInv, InItsPlace
  <2>4. CASE SubscriptionClosed
    BY <2>1, <2>4 DEF SubscriptionClosed, CountFailure, chain, IInv, InItsPlace
  <2>5. CASE Restart
    BY <2>1, <2>5 DEF Restart, CountFailure, chain
  <2>6. QED
    BY <2>2, <2>3, <2>4, <2>5
<1>2. Owed' = Owed
  BY <1>1 DEF Owed, Ours
<1>3. /\ currentBlock' \in Nat /\ currentBlock' <= Height
      /\ at' # "stopped" => \A k \in Owed : events[k].block >= currentBlock'
  BY <1>1, Facts DEF IInv, WillBeRead
<1>4. InHand' /\ WillBeRead'
  BY <1>1, <1>2, <1>3 DEF InHand, WillBeRead
<1>5. /\ at' \in Places /\ queried' \in 0..Len(events)
      /\ past' \subseteq Ours \cap 1..queried' /\ at' # "past"
      /\ at' \notin {"watch", "stopped"} => live' = <<>>
  <2>1. queried \in 0..Len(events)
    BY Facts
  <2>2. queried' \in 0..Len(events) /\ at' \in Places
    BY <1>1, <2>1 DEF Places
  <2>3. past' \subseteq Ours \cap 1..queried'
    BY <1>1, Zenon
  <2>4. at' # "past" /\ (at' \notin {"watch", "stopped"} => live' = <<>>)
    BY <1>1
  <2>5. QED
    BY <2>2, <2>3, <2>4, Zenon
<1>6. QED
  BY <1>1, <1>3, <1>4, <1>5, NothingStored, Zenon

-----------------------------------------------------------------------------
(* The theorems.                                                           *)

(* Every step keeps the invariant.                                         *)
LEMMA NextHolds == IInv /\ [Next]_vars => IInv'
<1> SUFFICES ASSUME IInv, [Next]_vars PROVE IInv'
  OBVIOUS
<1>1. CASE MineBlock
  BY <1>1, MineBlockKeeps
<1>2. CASE QueryPast
  BY <1>2, QueryPastKeeps
<1>3. CASE AddPast
  BY <1>3, AddPastKeeps
<1>4. CASE PastDone
  BY <1>4, PastDoneKeeps
<1>5. CASE Subscribe
  BY <1>5, SubscribeKeeps
<1>6. CASE AddLive
  BY <1>6, AddLiveKeeps
<1>7. CASE AddLiveFails
  BY <1>7, AddLiveFailsKeeps
<1>8. CASE CallFails \/ Reconnect \/ SubscriptionClosed \/ Restart
  BY <1>8, FailuresKeep
<1>9. CASE UNCHANGED vars
  BY <1>9 DEF vars, IInv, TypeOK, InChainOrder, InItsPlace, InHand, NoSkip,
              WillBeRead, Owed, Ours, Height
<1>10. QED
  BY <1>1, <1>2, <1>3, <1>4, <1>5, <1>6, <1>7, <1>8, <1>9 DEF Next, Worker

(* So it holds in every state of every behaviour.                          *)
LEMMA InvariantHolds == Spec => []IInv
<1>1. QED
  BY InitHolds, NextHolds, PTL DEF Spec

(* Type correctness: what waits or is stored is an event of the chain, and *)
(* the remembered block never underflows, though it is the block before    *)
(* that of an event.                                                       *)
THEOREM InputterTypeCorrect == Spec => []TypeOK
<1>1. IInv => TypeOK
  BY DEF IInv
<1>2. QED
  BY <1>1, InvariantHolds, PTL

(* For every chain, in whichever order calls fail, nonodo restarts and     *)
(* blocks are mined: an event is stored only when each older one of the    *)
(* application is stored or was missed before the subscription.            *)
THEOREM InputterSkipsNothing == Spec => []NoSkip
<1>1. IInv => NoSkip
  BY DEF IInv
<1>2. QED
  BY <1>1, InvariantHolds, PTL

(* And what the worker still owes, it reads again when it starts over.     *)
THEOREM InputterWillRead == Spec => []WillBeRead
<1>1. IInv => WillBeRead
  BY DEF IInv
<1>2. QED
  BY <1>1, InvariantHolds, PTL
=============================================================================

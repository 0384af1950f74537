---------------------------- MODULE ClaimsProofs ----------------------------
(***************************************************************************)
(* Proofs about Merkle and Claims, for trees of every height, every number *)
(* of leaves and every length of an epoch.                                 *)
(***************************************************************************)
EXTENDS Claims, SequenceTheorems, WellFoundedInduction, TLAPS

-----------------------------------------------------------------------------
(* Induction over the natural numbers, over a set instead of a formula.    *)
LEMMA SetInduction ==
  ASSUME NEW S, 0 \in S, \A n \in Nat : n \in S => n + 1 \in S
  PROVE  Nat \subseteq S
<1> DEFINE T == Nat \ S
<1>1. SUFFICES ASSUME T # {} PROVE FALSE
  OBVIOUS
<1>2. PICK x \in T : \A y \in T : ~ (<<y, x>> \in OpToRel(<, Nat))
  BY <1>1, NatLessThanWellFounded, WFMin, Zenon
<1>3. x # 0 /\ x - 1 \in Nat
  OBVIOUS
<1>4. x - 1 \in T
  BY <1>3
<1>5. <<x - 1, x>> \in OpToRel(<, Nat)
  BY <1>3 DEF OpToRel
<1>6. QED
  BY <1>2, <1>4, <1>5, Zenon

-----------------------------------------------------------------------------
(* The recursive functions of Merkle exist: each is what its definition    *)
(* says on every level.                                                    *)

(* The loop of CreateProofs: the leaves, and from each level the next.     *)
LEMMA LevelsStep ==
  ASSUME NEW leaves
  PROVE  /\ Levels(leaves)[0] = [nodes |-> leaves, pristine |-> NoLeaf]
         /\ \A h \in 1..Height : Levels(leaves)[h] = LevelAbove(Levels(leaves)[h - 1])
<1> DEFINE base == [nodes |-> leaves, pristine |-> NoLeaf]
           IsLoop(f, n) == f = [h \in 0..n |-> IF h = 0 THEN base ELSE LevelAbove(f[h - 1])]
           S == {n \in Nat : \E f : IsLoop(f, n)}
<1> HIDE DEF base
<1>1. 0 \in S
  <2>1. IsLoop([h \in 0..0 |-> base], 0)
    OBVIOUS
  <2>2. QED
    BY <2>1
<1>2. ASSUME NEW n \in Nat, n \in S PROVE n + 1 \in S
  <2>1. PICK f : IsLoop(f, n)
    BY <1>2
  <2>2. PICK g : g = [h \in 0..(n + 1) |-> IF h <= n THEN f[h] ELSE LevelAbove(f[n])]
    OBVIOUS
  <2>3. ASSUME NEW h \in 0..(n + 1)
        PROVE  g[h] = IF h = 0 THEN base ELSE LevelAbove(g[h - 1])
    BY <2>1, <2>2
  <2>4. IsLoop(g, n + 1)
    BY <2>2, <2>3
  <2>5. QED
    BY <2>4
<1>3. Height \in S
  BY <1>1, <1>2, SetInduction, HeightAssumption
<1>4. PICK f : IsLoop(f, Height)
  BY <1>3
<1>5. IsLoop(Levels(leaves), Height)
  BY <1>4, Zenon DEF Levels, base
<1>6. \A h \in 0..Height :
        Levels(leaves)[h] = IF h = 0 THEN base ELSE LevelAbove(Levels(leaves)[h - 1])
  BY <1>5, Zenon
<1>7. 0 \in 0..Height /\ \A h \in 1..Height : h \in 0..Height /\ h # 0
  BY HeightAssumption
<1>8. QED
  BY <1>6, <1>7, Zenon DEF base

(* The ancestors of a leaf: itself, then one bit less each time.           *)
LEMMA AncestorsStep ==
  ASSUME NEW k
  PROVE  /\ Ancestors(k)[0] = k
         /\ \A h \in 1..Height : Ancestors(k)[h] = Ancestors(k)[h - 1] \div 2
<1> DEFINE base == k
           IsLoop(f, n) == f = [h \in 0..n |-> IF h = 0 THEN base ELSE f[h - 1] \div 2]
           S == {n \in Nat : \E f : IsLoop(f, n)}
<1> HIDE DEF base
<1>1. 0 \in S
  <2>1. IsLoop([h \in 0..0 |-> base], 0)
    OBVIOUS
  <2>2. QED
    BY <2>1
<1>2. ASSUME NEW n \in Nat, n \in S PROVE n + 1 \in S
  <2>1. PICK f : IsLoop(f, n)
    BY <1>2
  <2>2. PICK g : g = [h \in 0..(n + 1) |-> IF h <= n THEN f[h] ELSE f[n] \div 2]
    OBVIOUS
  <2>3. ASSUME NEW h \in 0..(n + 1)
        PROVE  g[h] = IF h = 0 THEN base ELSE g[h - 1] \div 2
    BY <2>1, <2>2
  <2>4. IsLoop(g, n + 1)
    BY <2>2, <2>3
  <2>5. QED
    BY <2>4
<1>3. Height \in S
  BY <1>1, <1>2, SetInduction, HeightAssumption
<1>4. PICK f : IsLoop(f, Height)
  BY <1>3
<1>5. IsLoop(Ancestors(k), Height)
  BY <1>4, Zenon DEF Ancestors, base
<1>6. \A h \in 0..Height :
        Ancestors(k)[h] = IF h = 0 THEN base ELSE Ancestors(k)[h - 1] \div 2
  BY <1>5, Zenon
<1>7. 0 \in 0..Height /\ \A h \in 1..Height : h \in 0..Height /\ h # 0
  BY HeightAssumption
<1>8. QED
  BY <1>6, <1>7, Zenon DEF base

(* The full tree: each node is the hash of the two below it.              *)
LEMMA FullTreeStep ==
  ASSUME NEW leaves
  PROVE  /\ FullTree(leaves)[0] = [k \in Nat |-> At(leaves, k, NoLeaf)]
         /\ \A h \in 1..Height : FullTree(leaves)[h] =
              FullLevelAbove(FullTree(leaves)[h - 1])
<1> DEFINE base == [k \in Nat |-> At(leaves, k, NoLeaf)]
           IsLoop(f, n) == f = [h \in 0..n |-> IF h = 0 THEN base ELSE FullLevelAbove(f[h - 1])]
           S == {n \in Nat : \E f : IsLoop(f, n)}
<1> HIDE DEF base
<1>1. 0 \in S
  <2>1. IsLoop([h \in 0..0 |-> base], 0)
    OBVIOUS
  <2>2. QED
    BY <2>1
<1>2. ASSUME NEW n \in Nat, n \in S PROVE n + 1 \in S
  <2>1. PICK f : IsLoop(f, n)
    BY <1>2
  <2>2. PICK g : g = [h \in 0..(n + 1) |-> IF h <= n THEN f[h] ELSE FullLevelAbove(f[n])]
    OBVIOUS
  <2>3. ASSUME NEW h \in 0..(n + 1)
        PROVE  g[h] = IF h = 0 THEN base ELSE FullLevelAbove(g[h - 1])
    BY <2>1, <2>2
  <2>4. IsLoop(g, n + 1)
    BY <2>2, <2>3
  <2>5. QED
    BY <2>4
<1>3. Height \in S
  BY <1>1, <1>2, SetInduction, HeightAssumption
<1>4. PICK f : IsLoop(f, Height)
  BY <1>3
<1>5. IsLoop(FullTree(leaves), Height)
  BY <1>4, Zenon DEF FullTree, base
<1>6. \A h \in 0..Height :
        FullTree(leaves)[h] = IF h = 0 THEN base ELSE FullLevelAbove(FullTree(leaves)[h - 1])
  BY <1>5, Zenon
<1>7. 0 \in 0..Height /\ \A h \in 1..Height : h \in 0..Height /\ h # 0
  BY HeightAssumption
<1>8. QED
  BY <1>6, <1>7, Zenon DEF base

(* The path that a contract follows from a leaf to the root.               *)
LEMMA PathStep ==
  ASSUME NEW leaf, NEW k, NEW siblings
  PROVE  /\ PathFromProof(leaf, k, siblings)[0] = leaf
         /\ \A h \in 1..Height : PathFromProof(leaf, k, siblings)[h] =
              Combine(PathFromProof(leaf, k, siblings)[h - 1], k, h - 1, siblings[h])
<1> DEFINE base == leaf
           IsLoop(f, n) == f = [h \in 0..n |-> IF h = 0 THEN base ELSE Combine(f[h - 1], k, h - 1, siblings[h])]
           S == {n \in Nat : \E f : IsLoop(f, n)}
<1> HIDE DEF base
<1>1. 0 \in S
  <2>1. IsLoop([h \in 0..0 |-> base], 0)
    OBVIOUS
  <2>2. QED
    BY <2>1
<1>2. ASSUME NEW n \in Nat, n \in S PROVE n + 1 \in S
  <2>1. PICK f : IsLoop(f, n)
    BY <1>2
  <2>2. PICK g : g = [h \in 0..(n + 1) |-> IF h <= n THEN f[h] ELSE Combine(f[n], k, h - 1, siblings[h])]
    OBVIOUS
  <2>3. ASSUME NEW h \in 0..(n + 1)
        PROVE  g[h] = IF h = 0 THEN base ELSE Combine(g[h - 1], k, h - 1, siblings[h])
    BY <2>1, <2>2
  <2>4. IsLoop(g, n + 1)
    BY <2>2, <2>3
  <2>5. QED
    BY <2>4
<1>3. Height \in S
  BY <1>1, <1>2, SetInduction, HeightAssumption
<1>4. PICK f : IsLoop(f, Height)
  BY <1>3
<1>5. IsLoop(PathFromProof(leaf, k, siblings), Height)
  BY <1>4, Zenon DEF PathFromProof, base
<1>6. \A h \in 0..Height :
        PathFromProof(leaf, k, siblings)[h] = IF h = 0 THEN base ELSE Combine(PathFromProof(leaf, k, siblings)[h - 1], k, h - 1, siblings[h])
  BY <1>5, Zenon
<1>7. 0 \in 0..Height /\ \A h \in 1..Height : h \in 0..Height /\ h # 0
  BY HeightAssumption
<1>8. QED
  BY <1>6, <1>7, Zenon DEF base

(* The outputs of a set, gathered one index after the other.              *)
LEMMA ByIndexStep ==
  ASSUME NEW S0, Len(outputs) \in Nat
  PROVE  /\ FirstByIndex(S0)[0] = <<>>
         /\ \A n \in 1..Len(outputs) : FirstByIndex(S0)[n] =
              Gather(FirstByIndex(S0)[n - 1], n, S0)
<1> DEFINE base == <<>>
           IsLoop(f, n) == f = [h \in 0..n |-> IF h = 0 THEN base ELSE Gather(f[h - 1], h, S0)]
           S == {n \in Nat : \E f : IsLoop(f, n)}
<1> HIDE DEF base
<1>1. 0 \in S
  <2>1. IsLoop([h \in 0..0 |-> base], 0)
    OBVIOUS
  <2>2. QED
    BY <2>1
<1>2. ASSUME NEW n \in Nat, n \in S PROVE n + 1 \in S
  <2>1. PICK f : IsLoop(f, n)
    BY <1>2
  <2>2. PICK g : g = [h \in 0..(n + 1) |-> IF h <= n THEN f[h] ELSE Gather(f[n], h, S0)]
    OBVIOUS
  <2>3. ASSUME NEW h \in 0..(n + 1)
        PROVE  g[h] = IF h = 0 THEN base ELSE Gather(g[h - 1], h, S0)
    BY <2>1, <2>2
  <2>4. IsLoop(g, n + 1)
    BY <2>2, <2>3
  <2>5. QED
    BY <2>4
<1>3. Len(outputs) \in S
  BY <1>1, <1>2, SetInduction, Len(outputs) \in Nat
<1>4. PICK f : IsLoop(f, Len(outputs))
  BY <1>3
<1>5. IsLoop(FirstByIndex(S0), Len(outputs))
  BY <1>4, Zenon DEF FirstByIndex, base
<1>6. \A h \in 0..Len(outputs) :
        FirstByIndex(S0)[h] = IF h = 0 THEN base ELSE Gather(FirstByIndex(S0)[h - 1], h, S0)
  BY <1>5, Zenon
<1>7. 0 \in 0..Len(outputs) /\ \A h \in 1..Len(outputs) : h \in 0..Len(outputs) /\ h # 0
  BY Len(outputs) \in Nat
<1>8. QED
  BY <1>6, <1>7, Zenon DEF base

-----------------------------------------------------------------------------
(* The levels of CreateProofs against the full tree.                       *)

IsSeq(s) == \E T : s \in Seq(T)

(* One level up: half as many nodes, rounded up, each over two of below.   *)
LEMMA ParentLevelIsSeq ==
  ASSUME NEW level, IsSeq(level), NEW pristine
  PROVE  /\ IsSeq(ParentLevel(level, pristine))
         /\ Len(level) \in Nat
         /\ Len(ParentLevel(level, pristine)) = (Len(level) + 1) \div 2
         /\ \A k \in 1..((Len(level) + 1) \div 2) :
              ParentLevel(level, pristine)[k] =
                Hash(level[2 * k - 1], At(level, 2 * k - 1, pristine))
<1> DEFINE n == (Len(level) + 1) \div 2
           node(k) == Hash(level[2 * k - 1], At(level, 2 * k - 1, pristine))
           T == {node(k) : k \in 1..n}
<1>1. Len(level) \in Nat
  BY DEF IsSeq
<1>2. n \in Nat
  BY <1>1
<1>3. ParentLevel(level, pristine) = [k \in 1..n |-> node(k)]
  BY DEF ParentLevel
<1> HIDE DEF n, node
<1>4. [k \in 1..n |-> node(k)] \in Seq(T)
  BY <1>2
<1>5. Len([k \in 1..n |-> node(k)]) = n
  BY <1>2
<1>6. QED
  BY <1>1, <1>3, <1>4, <1>5 DEF IsSeq, n, node

(* Every level of the loop is a sequence of nodes.                         *)
LEMMA LevelsAreSeqs ==
  ASSUME NEW leaves, IsSeq(leaves), NEW h \in 0..Height
  PROVE  IsSeq(Levels(leaves)[h].nodes)
<1> DEFINE L == Levels(leaves)
           S == {j \in Nat : j <= Height => IsSeq(L[j].nodes)}
<1>1. L[0].nodes = leaves
  <2>1. L[0] = [nodes |-> leaves, pristine |-> NoLeaf]
    BY LevelsStep, Zenon
  <2>2. QED
    BY <2>1
<1>2. ASSUME NEW j \in Nat, j + 1 <= Height
      PROVE  L[j + 1].nodes = ParentLevel(L[j].nodes, L[j].pristine)
  <2>1. j + 1 \in 1..Height /\ (j + 1) - 1 = j
    BY <1>2, HeightAssumption
  <2>2. L[j + 1] = LevelAbove(L[j])
    BY <2>1, LevelsStep DEF L
  <2>3. QED
    BY <2>2 DEF LevelAbove
<1>3. 0 \in S
  BY <1>1
<1>4. ASSUME NEW j \in Nat, j \in S PROVE j + 1 \in S
  BY <1>2, <1>4, ParentLevelIsSeq, HeightAssumption
<1> HIDE DEF S
<1>5. h \in S
  BY <1>3, <1>4, SetInduction, HeightAssumption
<1>6. QED
  BY <1>5, HeightAssumption DEF S

(* Level h + 1 of the loop, for h below the height.                        *)
LEMMA NextLevel ==
  ASSUME NEW leaves, IsSeq(leaves), NEW h \in Nat, h + 1 <= Height
  PROVE  LET below == Levels(leaves)[h]
             level == Levels(leaves)[h + 1]
         IN  /\ level.pristine = Hash(below.pristine, below.pristine)
             /\ Len(below.nodes) \in Nat
             /\ Len(level.nodes) = (Len(below.nodes) + 1) \div 2
             /\ \A k \in 1..((Len(below.nodes) + 1) \div 2) :
                  level.nodes[k] = Hash(below.nodes[2 * k - 1],
                                        At(below.nodes, 2 * k - 1, below.pristine))
<1> DEFINE below == Levels(leaves)[h]
           level == Levels(leaves)[h + 1]
<1>1. h + 1 \in 1..Height /\ (h + 1) - 1 = h /\ h \in 0..Height
  BY HeightAssumption
<1>2. level = LevelAbove(below)
  BY <1>1, LevelsStep
<1>3. IsSeq(below.nodes)
  BY <1>1, LevelsAreSeqs
<1> HIDE DEF below, level
<1>4. /\ level.pristine = Hash(below.pristine, below.pristine)
      /\ level.nodes = ParentLevel(below.nodes, below.pristine)
  BY <1>2 DEF LevelAbove
<1>5. /\ Len(below.nodes) \in Nat
      /\ Len(level.nodes) = (Len(below.nodes) + 1) \div 2
      /\ \A k \in 1..((Len(below.nodes) + 1) \div 2) :
           level.nodes[k] = Hash(below.nodes[2 * k - 1],
                                 At(below.nodes, 2 * k - 1, below.pristine))
  <2> DEFINE nodes == below.nodes
             pristine == below.pristine
  <2>1. IsSeq(nodes) /\ level.nodes = ParentLevel(nodes, pristine)
    BY <1>3, <1>4
  <2> HIDE DEF nodes, pristine
  <2>2. /\ Len(nodes) \in Nat
        /\ Len(level.nodes) = (Len(nodes) + 1) \div 2
        /\ \A k \in 1..((Len(nodes) + 1) \div 2) :
             level.nodes[k] = Hash(nodes[2 * k - 1], At(nodes, 2 * k - 1, pristine))
    BY <2>1, ParentLevelIsSeq
  <2>3. QED
    BY <2>2 DEF nodes, pristine
<1>6. QED
  BY <1>4, <1>5 DEF below, level

(* at() with the pristine node completes a level to that of the full tree. *)
LEMMA LevelsOfFullTree ==
  ASSUME NEW leaves, IsSeq(leaves), NEW h \in 0..Height, NEW k \in Nat
  PROVE  FullTree(leaves)[h][k] =
           At(Levels(leaves)[h].nodes, k, Levels(leaves)[h].pristine)
<1> DEFINE L == Levels(leaves)
           F == FullTree(leaves)
           Agree(j) == \A i \in Nat : F[j][i] = At(L[j].nodes, i, L[j].pristine)
           S == {j \in Nat : j <= Height => Agree(j)}
<1>1. 0 \in S
  <2>1. F[0] = [i \in Nat |-> At(leaves, i, NoLeaf)]
    BY FullTreeStep, Zenon
  <2>2. L[0] = [nodes |-> leaves, pristine |-> NoLeaf]
    BY LevelsStep, Zenon
  <2> HIDE DEF F, L
  <2>3. Agree(0)
    BY <2>1, <2>2
  <2>4. QED
    BY <2>3
<1>2. ASSUME NEW j \in Nat, j \in S, j + 1 <= Height PROVE Agree(j + 1)
  <2>1. Agree(j)
    BY <1>2, HeightAssumption
  <2>2. F[j + 1] = FullLevelAbove(F[j])
    <3>1. j + 1 \in 1..Height /\ (j + 1) - 1 = j
      BY <1>2, HeightAssumption
    <3>2. QED
      BY <3>1, FullTreeStep
  <2> DEFINE nodes == L[j].nodes
             pristine == L[j].pristine
  <2>3. /\ L[j + 1].pristine = Hash(pristine, pristine)
        /\ Len(nodes) \in Nat
        /\ Len(L[j + 1].nodes) = (Len(nodes) + 1) \div 2
        /\ \A i \in 1..((Len(nodes) + 1) \div 2) :
             L[j + 1].nodes[i] = Hash(nodes[2 * i - 1], At(nodes, 2 * i - 1, pristine))
    BY <1>2, NextLevel
  <2> HIDE DEF F, L
  <2>4. ASSUME NEW i \in Nat
        PROVE  F[j + 1][i] = Hash(At(nodes, 2 * i, pristine), At(nodes, 2 * i + 1, pristine))
    BY <2>1, <2>2 DEF FullLevelAbove
  <2> HIDE DEF nodes, pristine
  <2>5. ASSUME NEW i \in Nat
        PROVE  F[j + 1][i] = At(L[j + 1].nodes, i, L[j + 1].pristine)
    <3>1. CASE i < (Len(nodes) + 1) \div 2
      <4>1. i + 1 \in 1..((Len(nodes) + 1) \div 2) /\ 2 * i < Len(nodes) /\ 2 * (i + 1) - 1 = 2 * i + 1
        BY <2>3, <3>1
      <4>2. L[j + 1].nodes[i + 1] = Hash(nodes[2 * i + 1], At(nodes, 2 * i + 1, pristine))
        BY <2>3, <4>1
      <4>3. At(nodes, 2 * i, pristine) = nodes[2 * i + 1]
        BY <4>1 DEF At
      <4>4. At(L[j + 1].nodes, i, L[j + 1].pristine) = L[j + 1].nodes[i + 1]
        BY <2>3, <3>1 DEF At
      <4>5. QED
        BY <2>4, <4>2, <4>3, <4>4
    <3>2. CASE ~(i < (Len(nodes) + 1) \div 2)
      <4>1. ~(2 * i < Len(nodes)) /\ ~(2 * i + 1 < Len(nodes))
        BY <2>3, <3>2
      <4>2. At(nodes, 2 * i, pristine) = pristine /\ At(nodes, 2 * i + 1, pristine) = pristine
        BY <4>1 DEF At
      <4>3. At(L[j + 1].nodes, i, L[j + 1].pristine) = L[j + 1].pristine
        BY <2>3, <3>2 DEF At
      <4>4. QED
        BY <2>3, <2>4, <4>2, <4>3
    <3>3. QED
      BY <3>1, <3>2
  <2>6. QED
    BY <2>5
<1> HIDE DEF Agree
<1>3. ASSUME NEW j \in Nat, j \in S PROVE j + 1 \in S
  BY <1>2, <1>3
<1> HIDE DEF S
<1>4. h \in S
  BY <1>1, <1>3, SetInduction, HeightAssumption
<1>5. QED
  BY <1>4, HeightAssumption DEF S, Agree

(* For every height and every sequence of leaves, what CreateProofs gives  *)
(* as the root is the root of the full tree, completed with pristine nodes. *)
THEOREM RootIsFullTreeRoot ==
  ASSUME NEW leaves, IsSeq(leaves)
  PROVE  Root(leaves) = FullTreeRoot(leaves)
<1>1. 0 \in Nat /\ Height \in 0..Height
  BY HeightAssumption
<1>2. QED
  BY <1>1, LevelsOfFullTree DEF Root, FullTreeRoot

-----------------------------------------------------------------------------
(* The proofs of CreateProofs against the verification of the contract.    *)

(* The half of a number below n is below the half of n, rounded up.        *)
LEMMA HalfIsBelow ==
  ASSUME NEW n \in Nat, NEW a \in Nat, a < n
  PROVE  a \div 2 \in Nat /\ a \div 2 < (n + 1) \div 2
OBVIOUS

(* A leaf has an ancestor on each level, which is a node and not pristine. *)
LEMMA AncestorIsNode ==
  ASSUME NEW leaves, IsSeq(leaves), NEW k \in Nat, k < Len(leaves), NEW h \in 0..Height
  PROVE  Ancestors(k)[h] \in Nat /\ Ancestors(k)[h] < Len(Levels(leaves)[h].nodes)
<1> DEFINE L == Levels(leaves)
           A == Ancestors(k)
           S == {j \in Nat : j <= Height => A[j] \in Nat /\ A[j] < Len(L[j].nodes)}
<1>1. A[0] = k /\ L[0].nodes = leaves
  <2>1. A[0] = k /\ L[0] = [nodes |-> leaves, pristine |-> NoLeaf]
    BY AncestorsStep, LevelsStep, Zenon
  <2>2. QED
    BY <2>1
<1>2. ASSUME NEW j \in Nat, j + 1 <= Height
      PROVE  /\ A[j + 1] = A[j] \div 2
             /\ Len(L[j].nodes) \in Nat
             /\ Len(L[j + 1].nodes) = (Len(L[j].nodes) + 1) \div 2
  <2>1. j + 1 \in 1..Height /\ (j + 1) - 1 = j
    BY <1>2, HeightAssumption
  <2>2. A[j + 1] = A[j] \div 2
    BY <2>1, AncestorsStep
  <2>3. QED
    BY <1>2, <2>2, NextLevel
<1> HIDE DEF L, A
<1>3. 0 \in S
  BY <1>1
<1>4. ASSUME NEW j \in Nat, j \in S PROVE j + 1 \in S
  <2>1. SUFFICES ASSUME j + 1 <= Height
                 PROVE  A[j + 1] \in Nat /\ A[j + 1] < Len(L[j + 1].nodes)
    OBVIOUS
  <2>2. A[j] \in Nat /\ A[j] < Len(L[j].nodes)
    BY <1>4, <2>1, HeightAssumption
  <2>3. A[j] \div 2 \in Nat /\ A[j] \div 2 < (Len(L[j].nodes) + 1) \div 2
    BY <1>2, <2>1, <2>2, HalfIsBelow
  <2>4. QED
    BY <1>2, <2>1, <2>3
<1> HIDE DEF S
<1>5. h \in S
  BY <1>3, <1>4, SetInduction, HeightAssumption
<1>6. QED
  BY <1>5, HeightAssumption DEF S, L, A

(* One level of the verification: a node and the sibling that the proof    *)
(* has for it combine to the node above.                                   *)
LEMMA SiblingCompletesPair ==
  ASSUME NEW nodes, NEW pristine, Len(nodes) \in Nat,
         NEW a \in Nat, a < Len(nodes), NEW sibling,
         sibling = At(nodes, IF a % 2 = 0 THEN a + 1 ELSE a - 1, pristine)
  PROVE  LET i == a \div 2 + 1
         IN  (IF a % 2 = 0 THEN Hash(nodes[a + 1], sibling) ELSE Hash(sibling, nodes[a + 1]))
               = Hash(nodes[2 * i - 1], At(nodes, 2 * i - 1, pristine))
<1>1. CASE a % 2 = 0
  <2>1. 2 * (a \div 2 + 1) - 1 = a + 1
    BY <1>1
  <2>2. QED
    BY <1>1, <2>1
<1>2. CASE a % 2 # 0
  <2>1. 2 * (a \div 2 + 1) - 1 = a /\ a - 1 < Len(nodes) /\ (a - 1) + 1 = a
    BY <1>2
  <2>2. sibling = nodes[a] /\ At(nodes, a, pristine) = nodes[a + 1]
    BY <1>2, <2>1 DEF At
  <2>3. QED
    BY <1>2, <2>1, <2>2
<1>3. QED
  BY <1>1, <1>2

(* The verification of a leaf's proof goes through the nodes over it.      *)
LEMMA PathMeetsNodes ==
  ASSUME NEW leaves, IsSeq(leaves), NEW k \in Nat, k < Len(leaves), NEW h \in 0..Height
  PROVE  PathFromProof(leaves[k + 1], k, Siblings(leaves, k))[h]
           = Levels(leaves)[h].nodes[Ancestors(k)[h] + 1]
<1> DEFINE L == Levels(leaves)
           A == Ancestors(k)
           P == PathFromProof(leaves[k + 1], k, Siblings(leaves, k))
           S == {j \in Nat : j <= Height => P[j] = L[j].nodes[A[j] + 1]}
<1>1. 0 \in S
  <2>1. L[0] = [nodes |-> leaves, pristine |-> NoLeaf]
    BY LevelsStep, Zenon
  <2>2. A[0] = k
    BY AncestorsStep, Zenon
  <2>3. P[0] = leaves[k + 1]
    BY PathStep
  <2> HIDE DEF L, A, P
  <2>4. QED
    BY <2>1, <2>2, <2>3
<1>2. ASSUME NEW j \in Nat, j + 1 <= Height, P[j] = L[j].nodes[A[j] + 1]
      PROVE  P[j + 1] = L[j + 1].nodes[A[j + 1] + 1]
  <2> DEFINE a == A[j]
             nodes == L[j].nodes
             pristine == L[j].pristine
             sibling == Siblings(leaves, k)[j + 1]
  <2>1. j \in 0..Height /\ j + 1 \in 1..Height /\ (j + 1) - 1 = j
    BY <1>2, HeightAssumption
  <2>2. a \in Nat /\ a < Len(nodes)
    BY <2>1, AncestorIsNode
  <2>3. Len(nodes) \in Nat
    BY <1>2, NextLevel
  <2>4. A[j + 1] = a \div 2 /\ P[j + 1] = Combine(P[j], k, j, sibling)
    BY <2>1, AncestorsStep, PathStep
  <2>5. sibling = At(nodes, IF a % 2 = 0 THEN a + 1 ELSE a - 1, pristine)
    BY <2>1 DEF Siblings, Sibling
  <2>6. P[j + 1] = IF a % 2 = 0 THEN Hash(nodes[a + 1], sibling)
                                ELSE Hash(sibling, nodes[a + 1])
    BY <1>2, <2>4 DEF Combine
  <2>7. /\ a \div 2 + 1 \in 1..((Len(nodes) + 1) \div 2)
        /\ \A i \in 1..((Len(nodes) + 1) \div 2) :
             L[j + 1].nodes[i] = Hash(nodes[2 * i - 1], At(nodes, 2 * i - 1, pristine))
    <3>1. a \div 2 \in Nat /\ a \div 2 < (Len(nodes) + 1) \div 2
      BY <2>2, <2>3, HalfIsBelow
    <3>2. \A i \in 1..((Len(nodes) + 1) \div 2) :
             L[j + 1].nodes[i] = Hash(nodes[2 * i - 1], At(nodes, 2 * i - 1, pristine))
      BY <1>2, NextLevel
    <3> HIDE DEF a, nodes, pristine
    <3>3. a \div 2 + 1 \in 1..((Len(nodes) + 1) \div 2)
      BY <2>3, <3>1
    <3>4. QED
      BY <3>2, <3>3
  <2> HIDE DEF a, nodes, pristine, sibling, L, P, A
  <2>8. (IF a % 2 = 0 THEN Hash(nodes[a + 1], sibling) ELSE Hash(sibling, nodes[a + 1]))
          = Hash(nodes[2 * (a \div 2 + 1) - 1],
                 At(nodes, 2 * (a \div 2 + 1) - 1, pristine))
    BY <2>2, <2>3, <2>5, SiblingCompletesPair
  <2>9. L[j + 1].nodes[a \div 2 + 1] =
          Hash(nodes[2 * (a \div 2 + 1) - 1], At(nodes, 2 * (a \div 2 + 1) - 1, pristine))
    BY <2>7
  <2>10. QED
    BY <2>4, <2>6, <2>8, <2>9, Zenon
<1> HIDE DEF L, A, P
<1>3. ASSUME NEW j \in Nat, j \in S PROVE j + 1 \in S
  BY <1>2, <1>3, HeightAssumption
<1> HIDE DEF S
<1>4. h \in S
  BY <1>1, <1>3, SetInduction, HeightAssumption
<1>5. QED
  BY <1>4, HeightAssumption DEF S, L, A, P

(* For every height and every sequence of leaves that fits the tree, the   *)
(* proof that CreateProofs gives for a leaf leads a contract that follows  *)
(* it from the leaf's index to the root that CreateProofs gives.           *)
THEOREM ProofLeadsToRoot ==
  ASSUME NEW leaves, IsSeq(leaves), ~TooMany(leaves), NEW k \in Nat, k < Len(leaves)
  PROVE  RootFromProof(leaves[k + 1], k, Siblings(leaves, k)) = Root(leaves)
<1> DEFINE top == Levels(leaves)[Height]
           a == Ancestors(k)[Height]
<1>1. Height \in 0..Height
  BY HeightAssumption
<1>2. RootFromProof(leaves[k + 1], k, Siblings(leaves, k)) = top.nodes[a + 1]
  BY <1>1, PathMeetsNodes DEF RootFromProof
<1>3. a \in Nat /\ a < Len(top.nodes)
  BY <1>1, AncestorIsNode
<1>4. Len(top.nodes) \in Nat
  BY <1>1, LevelsAreSeqs DEF IsSeq
<1>5. ~(Len(top.nodes) > 1)
  BY DEF TooMany
<1>6. Root(leaves) = At(top.nodes, 0, top.pristine)
  BY DEF Root
<1> HIDE DEF top, a
<1>7. a = 0 /\ 0 < Len(top.nodes)
  BY <1>3, <1>4, <1>5
<1>8. QED
  BY <1>2, <1>6, <1>7 DEF At

-----------------------------------------------------------------------------
(* Sorting by index.                                                       *)

Ascending(s) == \A i, j \in 1..Len(s) : i < j => s[i] < s[j]

(* ByIndex gives each output of a set once, in the order of the indices.   *)
LEMMA ByIndexSorts ==
  ASSUME Len(outputs) \in Nat, DOMAIN outputs = 1..Len(outputs),
         NEW Sel, Sel \subseteq DOMAIN outputs
  PROVE  /\ ByIndex(Sel) \in Seq(Sel)
         /\ ToSet(ByIndex(Sel)) = Sel
         /\ Ascending(ByIndex(Sel))
<1> DEFINE F == FirstByIndex(Sel)
           Sorted(n) == /\ F[n] \in Seq(Sel)
                        /\ \A e \in Sel : e <= n => \E i \in 1..Len(F[n]) : F[n][i] = e
                        /\ \A i \in 1..Len(F[n]) : F[n][i] <= n
                        /\ Ascending(F[n])
           S == {n \in Nat : n <= Len(outputs) => Sorted(n)}
<1>1. 0 \in S
  <2>1. F[0] = <<>>
    BY ByIndexStep
  <2> HIDE DEF F
  <2>2. Sorted(0)
    BY <2>1 DEF Ascending
  <2>3. QED
    BY <2>2
<1>2. ASSUME NEW n \in Nat, n + 1 <= Len(outputs), Sorted(n)
      PROVE  Sorted(n + 1)
  <2>1. n + 1 \in 1..Len(outputs) /\ (n + 1) - 1 = n
    BY <1>2
  <2>2. F[n + 1] = Gather(F[n], n + 1, Sel)
    BY <2>1, ByIndexStep
  <2> HIDE DEF F
  <2>3. Sel \subseteq Nat /\ Len(F[n]) \in Nat
    BY <1>2
  <2>4. CASE n + 1 \notin Sel
    <3>1. F[n + 1] = F[n]
      BY <2>2, <2>4 DEF Gather
    <3>2. QED
      BY <1>2, <2>3, <2>4, <3>1
  <2>5. CASE n + 1 \in Sel
    <3>1. F[n + 1] = Append(F[n], n + 1)
      BY <2>2, <2>5 DEF Gather
    <3>2. /\ F[n + 1] \in Seq(Sel)
          /\ Len(F[n + 1]) = Len(F[n]) + 1
          /\ F[n + 1][Len(F[n]) + 1] = n + 1
          /\ \A i \in 1..Len(F[n]) : F[n + 1][i] = F[n][i]
      BY <1>2, <2>5, <3>1
    <3>3. \A i \in 1..Len(F[n]) : F[n][i] \in Nat /\ F[n][i] <= n
      BY <1>2, <2>3
    <3> DEFINE s == F[n]
               t == F[n + 1]
               last == Len(s) + 1
    <3> HIDE DEF s, t
    <3>4. /\ last \in 1..Len(t) /\ t[last] = n + 1
          /\ \A i \in 1..Len(t) : i = last \/ (i \in 1..Len(s) /\ i < last)
          /\ \A i \in 1..Len(s) : t[i] = s[i] /\ s[i] \in Nat /\ s[i] <= n /\ i \in 1..Len(t)
      BY <2>3, <3>2, <3>3, SMTT(20) DEF s, t
    <3>5. ASSUME NEW e \in Sel, e <= n + 1
          PROVE  \E i \in 1..Len(t) : t[i] = e
      <4>1. CASE e = n + 1
        BY <3>4, <4>1
      <4>2. CASE e <= n
        <5>1. PICK i \in 1..Len(s) : s[i] = e
          BY <1>2, <4>2 DEF s
        <5>2. QED
          BY <3>4, <5>1
      <4>3. QED
        BY <2>3, <3>5, <4>1, <4>2
    <3>6. ASSUME NEW i \in 1..Len(t) PROVE t[i] <= n + 1
      BY <3>4
    <3>7. ASSUME NEW i \in 1..Len(t), NEW j \in 1..Len(t), i < j
           PROVE  t[i] < t[j]
      <4>1. i \in 1..Len(s) /\ (j = last \/ j \in 1..Len(s))
        BY <2>3, <3>4, <3>7 DEF s
      <4>2. Ascending(s)
        BY <1>2 DEF s
      <4>3. QED
        BY <3>4, <3>7, <4>1, <4>2 DEF Ascending
    <3>8. QED
      BY <3>2, <3>5, <3>6, <3>7 DEF t, Ascending
  <2>6. QED
    BY <2>4, <2>5
<1> HIDE DEF Sorted
<1>3. ASSUME NEW n \in Nat, n \in S PROVE n + 1 \in S
  BY <1>2, <1>3
<1> HIDE DEF S
<1>4. Len(outputs) \in S
  BY <1>1, <1>3, SetInduction
<1>5. Sorted(Len(outputs)) /\ ByIndex(Sel) = F[Len(outputs)]
  BY <1>4 DEF S, ByIndex
<1> HIDE DEF F
<1>6. ToSet(ByIndex(Sel)) = Sel
  <2> DEFINE s == ByIndex(Sel)
  <2>1. s \in Seq(Sel) /\ \A e \in Sel : e <= Len(outputs) => \E i \in 1..Len(s) : s[i] = e
    BY <1>5 DEF Sorted
  <2>2. \A e \in Sel : e <= Len(outputs)
    OBVIOUS
  <2> HIDE DEF s
  <2>3. DOMAIN s = 1..Len(s) /\ (\A i \in 1..Len(s) : s[i] \in Sel)
          /\ \A e \in Sel : \E i \in 1..Len(s) : s[i] = e
    BY <2>1, <2>2
  <2>4. ToSet(s) \subseteq Sel /\ Sel \subseteq ToSet(s)
    BY <2>3, Zenon DEF ToSet
  <2>5. QED
    BY <2>4 DEF s
<1>7. QED
  BY <1>5, <1>6 DEF Sorted

(* Ascending indices that are all below their number leave none out.       *)
LEMMA FittingIndicesHaveNoHoles ==
  ASSUME NEW s \in Seq(Nat \ {0}), Ascending(s), \A j \in 1..Len(s) : s[j] <= Len(s)
  PROVE  s = [j \in 1..Len(s) |-> j]
<1> DEFINE n == Len(s)
           Up == {j \in Nat : j + 1 <= n => s[j + 1] >= j + 1}
           Down == {d \in Nat : d < n => s[n - d] <= n - d}
<1>1. n \in Nat /\ \A j \in 1..n : s[j] \in Nat \ {0}
  OBVIOUS
<1>2. 0 \in Up
  BY <1>1
<1>3. ASSUME NEW j \in Nat, j \in Up PROVE j + 1 \in Up
  BY <1>1, <1>3 DEF Ascending
<1>4. 0 \in Down
  BY <1>1
<1>5. ASSUME NEW d \in Nat, d \in Down PROVE d + 1 \in Down
  <2>1. SUFFICES ASSUME d + 1 < n PROVE s[n - (d + 1)] <= n - (d + 1)
    OBVIOUS
  <2>2. n - d \in 1..n /\ n - (d + 1) \in 1..n /\ n - (d + 1) < n - d
    BY <1>1, <2>1
  <2>3. s[n - d] <= n - d /\ s[n - (d + 1)] < s[n - d]
    BY <1>1, <1>5, <2>1, <2>2, SMTT(20) DEF Ascending
  <2>4. QED
    BY <1>1, <2>2, <2>3
<1> HIDE DEF Up, Down
<1>6. Nat \subseteq Up /\ Nat \subseteq Down
  BY <1>2, <1>3, <1>4, <1>5, SetInduction
<1>7. ASSUME NEW j \in 1..n PROVE s[j] = j
  <2>1. j - 1 \in Up /\ n - j \in Down /\ n - (n - j) = j /\ (j - 1) + 1 = j
    BY <1>1, <1>6
  <2>2. s[j] >= j /\ s[j] <= j
    BY <1>1, <2>1 DEF Up, Down
  <2>3. QED
    BY <1>1, <2>2
<1>8. QED
  BY <1>1, <1>7

-----------------------------------------------------------------------------
(* The inductive invariant of Claims.                                      *)

(* The chain, the tables and the round have their types.                   *)
Typed ==
  /\ IsSeq(claims) /\ IsSeq(proofs)
  /\ mined \in Nat /\ height = mined + Len(claims)
  /\ seen \in Nat /\ seen <= height
  /\ outputs \in Seq([kind: Kinds, block: 1..height])
  /\ Len(proofs) = Len(outputs)
  /\ failures \in Nat
  /\ round \in [at: Places, end: 0..seen, picked: Seq(DOMAIN outputs),
                todo: Seq(DOMAIN outputs)]

(* A round that saves has picked the first outputs, all of them, as many   *)
(* as fit the tree, and has still to save the last of those.               *)
Picked ==
  /\ round.at # "save" => round.todo = <<>>
  /\ round.at = "save" =>
       \E n \in 1..Len(outputs), m \in 0..Len(outputs) :
         /\ m <= n
         /\ round.picked = [j \in 1..n |-> j]
         /\ round.todo = [j \in 1..(n - m) |-> m + j]
         /\ ~TooMany(LeavesOf(round.picked))

(* Each claim, and the round that works on one, has had an epoch for it.   *)
EpochsPaid ==
  Len(claims) + (IF round.at = "idle" THEN 0 ELSE 1) <= seen \div EpochBlocks

(* In a round, too, each stored proof leads to a claim, or is the proof    *)
(* that this round has for the output and will make the claim for.         *)
ProofsStand ==
  failures = 0 =>
    \A k \in 1..Len(outputs) :
      proofs[k] # NoProof =>
        \/ Proven(k)
        \/ /\ round.at = "save"
           /\ k <= Len(round.picked)
           /\ proofs[k] = Siblings(LeavesOf(round.picked), k - 1)

IInv == Typed /\ Picked /\ EpochsPaid /\ ProofsStand /\ ClaimsAreRoots

-----------------------------------------------------------------------------
(* Facts about the data.                                                   *)

(* Each end of an epoch is one epoch more.                                 *)
LEMMA Epochs ==
  ASSUME NEW n \in Nat
  PROVE  /\ n \div EpochBlocks \in Nat
         /\ n \div EpochBlocks <= (n + 1) \div EpochBlocks
         /\ EndsEpoch(n + 1) => (n + 1) \div EpochBlocks = n \div EpochBlocks + 1
<1> DEFINE E == EpochBlocks
           q == n \div E
           r == n % E
           q1 == (n + 1) \div E
           r1 == (n + 1) % E
<1>1. E \in Nat /\ E >= 1
  BY ClaimsAssumption
<1>2. q \in Nat /\ r \in 0..(E - 1) /\ n = E * q + r
  BY <1>1
<1>3. q1 \in Nat /\ r1 \in 0..(E - 1) /\ n + 1 = E * q1 + r1
  BY <1>1
<1> HIDE DEF q, r, q1, r1, E
<1>4. E * (q1 - q) = 1 + r - r1
  BY <1>1, <1>2, <1>3
<1>5. ~(q1 - q <= -1)
  <2>1. SUFFICES ASSUME q1 - q <= -1 PROVE FALSE
    OBVIOUS
  <2>2. E * (q1 - q) <= E * (-1)
    BY <1>1, <1>2, <1>3, <2>1
  <2>3. QED
    BY <1>1, <1>2, <1>3, <1>4, <2>2
<1>6. r1 = 0 => q1 - q = 1
  <2>1. SUFFICES ASSUME r1 = 0 PROVE q1 - q = 1
    OBVIOUS
  <2>2. ~(q1 - q <= 0)
    <3>1. SUFFICES ASSUME q1 - q <= 0 PROVE FALSE
      OBVIOUS
    <3>2. E * (q1 - q) <= 0
      BY <1>1, <1>2, <1>3, <3>1
    <3>3. QED
      BY <1>1, <1>2, <1>4, <2>1, <3>2
  <2>3. ~(q1 - q >= 2)
    <3>1. SUFFICES ASSUME q1 - q >= 2 PROVE FALSE
      OBVIOUS
    <3>2. E * (q1 - q) >= E * 2
      BY <1>1, <1>2, <1>3, <3>1
    <3>3. QED
      BY <1>1, <1>2, <1>4, <2>1, <3>2
  <2>4. QED
    BY <1>2, <1>3, <2>2, <2>3
<1>7. /\ q \in Nat
      /\ q <= q1
      /\ r1 = 0 => q1 = q + 1
  BY <1>2, <1>3, <1>5, <1>6
<1>8. QED
  BY <1>7 DEF EndsEpoch, q, r, q1, r1, E

(* A sequence over a set is one over every set that contains it, and one   *)
(* element more keeps it a sequence.                                       *)
LEMMA MoreElements ==
  ASSUME NEW S, NEW T, S \subseteq T, NEW s \in Seq(S)
  PROVE  s \in Seq(T)
OBVIOUS

(* One element more keeps a sequence one, and what it held where it was.   *)
LEMMA AppendIsSeq ==
  ASSUME NEW s, IsSeq(s), NEW e
  PROVE  /\ IsSeq(Append(s, e))
         /\ Len(s) \in Nat
         /\ DOMAIN s = 1..Len(s)
         /\ Len(Append(s, e)) = Len(s) + 1
         /\ Append(s, e)[Len(s) + 1] = e
         /\ \A k \in 1..Len(s) : Append(s, e)[k] = s[k]
         /\ ToSet(Append(s, e)) = ToSet(s) \cup {e}
<1>1. PICK T : s \in Seq(T)
  BY DEF IsSeq
<1>2. s \in Seq(T \cup {e})
  BY <1>1
<1>3. /\ Append(s, e) \in Seq(T \cup {e})
      /\ Len(s) \in Nat /\ DOMAIN s = 1..Len(s)
      /\ Len(Append(s, e)) = Len(s) + 1
      /\ Append(s, e)[Len(s) + 1] = e
      /\ \A k \in 1..Len(s) : Append(s, e)[k] = s[k]
  BY <1>2
<1>4. DOMAIN Append(s, e) = 1..(Len(s) + 1)
  BY <1>3
<1>5. ToSet(Append(s, e)) = ToSet(s) \cup {e}
  BY <1>3, <1>4 DEF ToSet
<1>6. QED
  BY <1>3, <1>5 DEF IsSeq

(* Leaves of a sequence of outputs.                                        *)
LEMMA LeavesAreSeq ==
  ASSUME NEW n \in Nat, NEW picked, picked = [j \in 1..n |-> j]
  PROVE  /\ LeavesOf(picked) = [j \in 1..n |-> Leaf(j)]
         /\ IsSeq(LeavesOf(picked)) /\ Len(LeavesOf(picked)) = n /\ Len(picked) = n
<1>1. LeavesOf(picked) = [j \in 1..n |-> Leaf(j)]
  BY DEF LeavesOf
<1>2. /\ [j \in 1..n |-> Leaf(j)] \in Seq({Leaf(j) : j \in 1..n})
      /\ Len([j \in 1..n |-> Leaf(j)]) = n
      /\ Len([j \in 1..n |-> j]) = n
  OBVIOUS
<1>3. IsSeq([j \in 1..n |-> Leaf(j)])
  BY <1>2 DEF IsSeq
<1>4. QED
  BY <1>1, <1>2, <1>3, Zenon

-----------------------------------------------------------------------------
(* Steps around the claimer.                                               *)

(* The claimer starts with the invariant: no outputs, no claims, no round.  *)
LEMMA InitHolds == Init => IInv
<1> SUFFICES ASSUME Init PROVE IInv
  OBVIOUS
<1>1. Typed
  <2>1. IsSeq(<<>>) /\ <<>> \in Seq([kind: Kinds, block: 1..height]) /\ <<>> \in Seq(DOMAIN outputs)
    <3>1. <<>> \in Seq({})
      OBVIOUS
    <3>2. QED
      BY <3>1 DEF IsSeq
  <2>2. round \in [at: Places, end: 0..seen, picked: Seq(DOMAIN outputs),
                   todo: Seq(DOMAIN outputs)]
    BY <2>1 DEF Init, Idle, Places
  <2>3. QED
    BY <2>1, <2>2 DEF Init, Typed
<1>2. Picked
  BY DEF Init, Picked, Idle
<1>3. EpochsPaid
  BY Epochs DEF Init, EpochsPaid, Idle
<1>4. ProofsStand /\ ClaimsAreRoots
  BY DEF Init, ProofsStand, ClaimsAreRoots, ToSet
<1>5. QED
  BY <1>1, <1>2, <1>3, <1>4 DEF IInv

(* A block of others leaves the tables and the claims alone.               *)
LEMMA MineBlockKeeps == IInv /\ MineBlock => IInv'
<1> SUFFICES ASSUME IInv, MineBlock PROVE IInv'
  OBVIOUS
<1>1. /\ mined' = mined + 1 /\ height' = height + 1
      /\ UNCHANGED <<outputs, proofs, seen, round, claims, failures>>
  BY DEF MineBlock
<1>2. Typed'
  <2>1. mined \in Nat /\ Len(claims) \in Nat /\ height = mined + Len(claims)
    BY AppendIsSeq DEF IInv, Typed
  <2>2. [kind: Kinds, block: 1..height] \subseteq [kind: Kinds, block: 1..height']
    BY <1>1, <2>1
  <2>3. outputs' \in Seq([kind: Kinds, block: 1..height'])
    <3> DEFINE R == [kind: Kinds, block: 1..height]
               R1 == [kind: Kinds, block: 1..height']
    <3>1. R \subseteq R1 /\ outputs \in Seq(R)
      BY <2>2 DEF IInv, Typed
    <3> HIDE DEF R, R1
    <3>2. outputs \in Seq(R1)
      BY <3>1, MoreElements
    <3>3. QED
      BY <1>1, <3>2 DEF R1
  <2>4. QED
    BY <1>1, <2>1, <2>3 DEF IInv, Typed
<1>3. Picked' /\ EpochsPaid' /\ ProofsStand' /\ ClaimsAreRoots'
  BY <1>1 DEF IInv, Picked, EpochsPaid, ProofsStand, Proven, ClaimsAreRoots, LeavesOf
<1>4. QED
  BY <1>2, <1>3 DEF IInv

(* An output that appears in the middle of a round does not disturb it: it *)
(* comes after those the round has picked, and has no proof yet.           *)
LEMMA CreateOutputKeeps == IInv /\ CreateOutput => IInv'
<1> SUFFICES ASSUME IInv, CreateOutput PROVE IInv'
  OBVIOUS
<1>1. PICK kind \in Kinds, block \in 1..height :
        outputs' = Append(outputs, [kind |-> kind, block |-> block])
  BY DEF CreateOutput
<1>2. /\ proofs' = Append(proofs, NoProof)
      /\ UNCHANGED <<height, mined, seen, round, claims, failures>>
  BY DEF CreateOutput, chain
<1>3. /\ outputs' \in Seq([kind: Kinds, block: 1..height])
      /\ Len(outputs) \in Nat /\ Len(outputs') = Len(outputs) + 1
      /\ DOMAIN outputs = 1..Len(outputs) /\ DOMAIN outputs' = 1..Len(outputs')
  BY <1>1 DEF IInv, Typed
<1>4. /\ IsSeq(proofs') /\ Len(proofs') = Len(outputs')
      /\ proofs'[Len(outputs')] = NoProof
      /\ \A k \in 1..Len(outputs) : proofs'[k] = proofs[k]
  BY <1>2, <1>3, AppendIsSeq DEF IInv, Typed
<1>5. Typed'
  <2>1. Seq(DOMAIN outputs) \subseteq Seq(DOMAIN outputs')
    BY <1>3
  <2>2. round' \in [at: Places, end: 0..seen', picked: Seq(DOMAIN outputs'),
                    todo: Seq(DOMAIN outputs')]
    BY <1>2, <2>1 DEF IInv, Typed
  <2>3. QED
    BY <1>2, <1>3, <1>4, <2>2 DEF IInv, Typed
<1>6. Picked'
  <2>1. CASE round.at # "save"
    BY <1>2, <2>1 DEF IInv, Picked
  <2>2. CASE round.at = "save"
    <3>1. PICK n \in 1..Len(outputs), m \in 0..Len(outputs) :
            /\ m <= n
            /\ round.picked = [j \in 1..n |-> j]
            /\ round.todo = [j \in 1..(n - m) |-> m + j]
            /\ ~TooMany(LeavesOf(round.picked))
      BY <2>2 DEF IInv, Picked
    <3>2. n \in 1..Len(outputs') /\ m \in 0..Len(outputs')
      BY <1>3
    <3>3. QED
      BY <1>2, <2>2, <3>1, <3>2 DEF Picked, LeavesOf
  <2>3. QED
    BY <2>1, <2>2
<1>7. EpochsPaid'
  BY <1>2 DEF IInv, EpochsPaid
<1>8. ProofsStand'
  <2>1. SUFFICES ASSUME failures = 0, NEW k \in 1..Len(outputs'), proofs'[k] # NoProof
                 PROVE  \/ Proven(k)'
                        \/ /\ round.at = "save"
                           /\ k <= Len(round.picked)
                           /\ proofs'[k] = Siblings(LeavesOf(round.picked), k - 1)
    BY <1>2 DEF ProofsStand, LeavesOf
  <2>2. k \in 1..Len(outputs) /\ proofs'[k] = proofs[k]
    BY <1>3, <1>4, <2>1
  <2>3. Proven(k) => Proven(k)'
    BY <1>2, <2>2 DEF Proven
  <2>4. QED
    BY <2>1, <2>2, <2>3 DEF IInv, ProofsStand
<1>9. ClaimsAreRoots'
  <2>1. SUFFICES ASSUME NEW claim \in ToSet(claims)
                 PROVE  \E n \in DOMAIN outputs' : claim = FullTreeRoot([k \in 1..n |-> Leaf(k)])
    BY <1>2 DEF ClaimsAreRoots
  <2>2. PICK n \in DOMAIN outputs : claim = FullTreeRoot([k \in 1..n |-> Leaf(k)])
    BY DEF IInv, ClaimsAreRoots
  <2>3. n \in DOMAIN outputs'
    BY <1>3
  <2>4. QED
    BY <2>2, <2>3
<1>10. QED
  BY <1>5, <1>6, <1>7, <1>8, <1>9 DEF IInv

(* Steps of the round that change neither the tables nor the chain, and    *)
(* that do not leave the saving with the claim.                            *)
LEMMA RoundMoves ==
  ASSUME IInv, UNCHANGED <<height, mined, outputs, proofs, claims>>,
         seen' \in Nat, seen' <= height, failures' \in Nat, failures' = 0 => failures = 0,
         round' \in [at: Places, end: 0..seen', picked: Seq(DOMAIN outputs),
                     todo: Seq(DOMAIN outputs)],
         Picked', EpochsPaid', round.at # "save" \/ failures' # 0
  PROVE  IInv'
<1>1. Typed'
  BY DEF IInv, Typed
<1>2. ProofsStand'
  <2>1. SUFFICES ASSUME failures = 0, failures' = 0,
                        NEW k \in 1..Len(outputs), proofs[k] # NoProof
                 PROVE  Proven(k)
    BY DEF ProofsStand, Proven
  <2>2. QED
    BY <2>1 DEF IInv, ProofsStand
<1>3. ClaimsAreRoots'
  BY DEF IInv, ClaimsAreRoots
<1>4. QED
  BY <1>1, <1>2, <1>3 DEF IInv

-----------------------------------------------------------------------------
(* The steps of a round.                                                   *)

(* What the steps of a round start from.                                   *)
LEMMA RoundFacts ==
  ASSUME IInv
  PROVE  /\ Len(claims) \in Nat /\ seen \in Nat /\ seen <= height
         /\ Len(outputs) \in Nat /\ DOMAIN outputs = 1..Len(outputs)
         /\ failures \in Nat
         /\ round \in [at: Places, end: 0..seen, picked: Seq(DOMAIN outputs),
                       todo: Seq(DOMAIN outputs)]
         /\ Idle \in [at: Places, end: 0..seen, picked: Seq(DOMAIN outputs),
                      todo: Seq(DOMAIN outputs)]
         /\ Len(claims) <= seen \div EpochBlocks
<1>1. /\ Len(claims) \in Nat /\ seen \in Nat /\ seen <= height
      /\ Len(outputs) \in Nat /\ DOMAIN outputs = 1..Len(outputs)
      /\ failures \in Nat
      /\ round \in [at: Places, end: 0..seen, picked: Seq(DOMAIN outputs),
                    todo: Seq(DOMAIN outputs)]
  BY AppendIsSeq DEF IInv, Typed
<1>2. <<>> \in Seq(DOMAIN outputs)
  OBVIOUS
<1>3. Idle \in [at: Places, end: 0..seen, picked: Seq(DOMAIN outputs),
                todo: Seq(DOMAIN outputs)]
  BY <1>1, <1>2 DEF Idle, Places
<1>4. Len(claims) <= seen \div EpochBlocks
  <2> DEFINE paid == seen \div EpochBlocks
             busy == IF round.at = "idle" THEN 0 ELSE 1
  <2>1. paid \in Nat /\ busy \in {0, 1} /\ Len(claims) + busy <= paid
    BY <1>1, Epochs DEF IInv, EpochsPaid
  <2> HIDE DEF paid, busy
  <2>2. Len(claims) <= paid
    BY <1>1, <2>1
  <2>3. QED
    BY <2>2 DEF paid
<1>5. QED
  BY <1>1, <1>3, <1>4

(* A round starts only when the header ends an epoch, one that no earlier  *)
(* claim was made for.                                                     *)
LEMMA ReceiveHeaderKeeps == IInv /\ ReceiveHeader => IInv'
<1> SUFFICES ASSUME IInv, ReceiveHeader PROVE IInv'
  OBVIOUS
<1> DEFINE busy == [Idle EXCEPT !.at = "vouchers", !.end = seen']
<1>1. /\ round.at = "idle" /\ seen' = seen + 1 /\ seen' <= height
      /\ round' = IF EndsEpoch(seen') THEN busy ELSE Idle
      /\ UNCHANGED <<height, mined, outputs, proofs, claims, failures>>
  BY RoundFacts DEF ReceiveHeader, chain, IInv, Typed
<1>2. /\ busy.at = "vouchers" /\ busy.todo = <<>>
      /\ Idle.at = "idle" /\ Idle.todo = <<>>
  BY DEF Idle
<1>3. /\ busy \in [at: Places, end: 0..seen', picked: Seq(DOMAIN outputs),
                   todo: Seq(DOMAIN outputs)]
      /\ Idle \in [at: Places, end: 0..seen', picked: Seq(DOMAIN outputs),
                   todo: Seq(DOMAIN outputs)]
  <2>1. <<>> \in Seq(DOMAIN outputs) /\ seen' \in Nat
    BY <1>1, RoundFacts
  <2>2. seen' \in 0..seen' /\ 0 \in 0..seen'
    BY <2>1
  <2>3. Idle \in [at: Places, end: 0..seen', picked: Seq(DOMAIN outputs),
                  todo: Seq(DOMAIN outputs)]
    BY <2>1, <2>2 DEF Idle, Places
  <2>4. QED
    BY <2>2, <2>3 DEF Places
<1> HIDE DEF busy
<1>4. Picked'
  BY <1>1, <1>2 DEF Picked
<1>5. EpochsPaid'
  <2> DEFINE paid == seen \div EpochBlocks
             paid1 == (seen + 1) \div EpochBlocks
  <2>1. /\ paid \in Nat /\ Len(claims) \in Nat /\ Len(claims) <= paid
        /\ paid <= paid1 /\ seen + 1 \in Nat
        /\ EndsEpoch(seen + 1) => paid1 = paid + 1
    <3>1. seen \in Nat /\ Len(claims) \in Nat /\ Len(claims) <= paid
      BY RoundFacts
    <3>2. /\ paid \in Nat /\ paid <= paid1
          /\ EndsEpoch(seen + 1) => paid1 = paid + 1
      BY <3>1, Epochs
    <3> HIDE DEF paid, paid1
    <3>3. QED
      BY <3>1, <3>2
  <2>2. paid1 \in Nat
    BY <2>1, Epochs
  <2>3. EpochsPaid' <=> Len(claims) + (IF round'.at = "idle" THEN 0 ELSE 1) <= paid1
    BY <1>1 DEF EpochsPaid
  <2>4. round'.at # "idle" => EndsEpoch(seen + 1)
    BY <1>1, <1>2
  <2> HIDE DEF paid, paid1
  <2>5. QED
    BY <2>1, <2>2, <2>3, <2>4
<1>6. QED
  BY <1>1, <1>3, <1>4, <1>5, RoundFacts, RoundMoves

(* The vouchers a round has read are outputs, and nothing is saved yet.    *)
LEMMA FindVouchersKeeps == IInv /\ FindVouchers => IInv'
<1> SUFFICES ASSUME IInv, FindVouchers PROVE IInv'
  OBVIOUS
<1> DEFINE found == ByIndex(OfKind("voucher"))
<1>1. found \in Seq(DOMAIN outputs)
  <2>1. OfKind("voucher") \subseteq DOMAIN outputs
    BY DEF OfKind
  <2>2. found \in Seq(OfKind("voucher"))
    BY <2>1, RoundFacts, ByIndexSorts
  <2>3. QED
    BY <2>1, <2>2, MoreElements
<1>2. /\ round.at = "vouchers"
      /\ round' = [round EXCEPT !.at = "notices", !.picked = found]
      /\ UNCHANGED <<height, mined, outputs, proofs, seen, claims, failures>>
  BY DEF FindVouchers, chain
<1> HIDE DEF found
<1>3. /\ round' \in [at: Places, end: 0..seen', picked: Seq(DOMAIN outputs),
                     todo: Seq(DOMAIN outputs)]
      /\ round'.at = "notices" /\ round'.todo = round.todo
  BY <1>1, <1>2, RoundFacts DEF Places
<1>4. Picked'
  BY <1>2, <1>3 DEF IInv, Picked
<1>5. EpochsPaid'
  BY <1>2, <1>3 DEF IInv, EpochsPaid
<1>6. QED
  BY <1>2, <1>3, <1>4, <1>5, RoundFacts, RoundMoves

(* A round that breaks off leaves nothing to save.                         *)
LEMMA FailsKeeps == IInv /\ Fails => IInv'
<1> SUFFICES ASSUME IInv, Fails PROVE IInv'
  OBVIOUS
<1>1. /\ failures' = failures + 1 /\ round' = Idle
      /\ UNCHANGED <<height, mined, outputs, proofs, seen, claims>>
  BY DEF Fails, chain
<1>2. Idle.at = "idle" /\ Idle.todo = <<>>
  BY DEF Idle
<1>3. Picked' /\ EpochsPaid'
  BY <1>1, <1>2, RoundFacts DEF Picked, EpochsPaid
<1>4. failures' \in Nat /\ failures' # 0
  BY <1>1, RoundFacts
<1>5. QED
  BY <1>1, <1>3, <1>4, RoundFacts, RoundMoves

(* A reverted claim is a block of others, and a round that breaks off.     *)
LEMMA ClaimRevertsKeeps == IInv /\ ClaimReverts => IInv'
<1> SUFFICES ASSUME IInv, ClaimReverts PROVE IInv'
  OBVIOUS
<1>1. /\ failures' = failures + 1 /\ mined' = mined + 1 /\ height' = height + 1
      /\ round' = Idle
      /\ UNCHANGED <<outputs, proofs, seen, claims>>
  BY DEF ClaimReverts
<1>2. Idle.at = "idle" /\ Idle.todo = <<>>
  BY DEF Idle
<1>3. failures' \in Nat /\ failures' # 0
  BY <1>1, RoundFacts
<1>4. Typed'
  <2>1. mined \in Nat /\ height = mined + Len(claims) /\ Len(claims) \in Nat
    BY RoundFacts DEF IInv, Typed
  <2>2. mined' \in Nat /\ seen' \in Nat /\ seen' <= height' /\ height' = mined' + Len(claims')
    BY <1>1, <2>1, RoundFacts
  <2>3. outputs' \in Seq([kind: Kinds, block: 1..height'])
    <3> DEFINE R == [kind: Kinds, block: 1..height]
               R1 == [kind: Kinds, block: 1..height']
    <3>1. 1..height \subseteq 1..height'
      BY <1>1, <2>1
    <3>2. R \subseteq R1 /\ outputs \in Seq(R)
      BY <3>1 DEF IInv, Typed
    <3> HIDE DEF R, R1
    <3>3. outputs \in Seq(R1)
      BY <3>2, MoreElements
    <3>4. QED
      BY <1>1, <3>3 DEF R1
  <2>4. round' \in [at: Places, end: 0..seen', picked: Seq(DOMAIN outputs'),
                    todo: Seq(DOMAIN outputs')]
    BY <1>1, RoundFacts
  <2>5. QED
    BY <1>1, <1>3, <2>2, <2>3, <2>4 DEF IInv, Typed
<1>5. Picked' /\ EpochsPaid'
  BY <1>1, <1>2, RoundFacts DEF Picked, EpochsPaid
<1>6. ProofsStand'
  BY <1>3 DEF ProofsStand
<1>7. ClaimsAreRoots'
  BY <1>1 DEF IInv, ClaimsAreRoots
<1>8. QED
  BY <1>4, <1>5, <1>6, <1>7 DEF IInv

(* All the indices are below the number of the outputs picked: the round   *)
(* has picked the first outputs and left none out.                         *)
LEMMA FindNoticesKeeps == IInv /\ FindNotices => IInv'
<1> SUFFICES ASSUME IInv, FindNotices PROVE IInv'
  OBVIOUS
<1> DEFINE picked == SortOutputs(round.picked, NoticesOfEpoch(round.end))
           save == [round EXCEPT !.at = "save", !.picked = picked, !.todo = picked]
           n == Len(picked)
<1>1. picked \in Seq(DOMAIN outputs) /\ Ascending(picked)
  <2> DEFINE Sel == ToSet(round.picked) \cup NoticesOfEpoch(round.end)
  <2>1. ToSet(round.picked) \subseteq DOMAIN outputs
    BY RoundFacts DEF ToSet
  <2>2. NoticesOfEpoch(round.end) \subseteq DOMAIN outputs
    BY DEF NoticesOfEpoch, OfKind
  <2>3. Sel \subseteq DOMAIN outputs
    BY <2>1, <2>2
  <2>4. picked = ByIndex(Sel)
    BY DEF SortOutputs
  <2> HIDE DEF Sel, picked
  <2>5. ByIndex(Sel) \in Seq(Sel) /\ Ascending(ByIndex(Sel))
    BY <2>3, RoundFacts, ByIndexSorts
  <2>6. QED
    BY <2>3, <2>4, <2>5, MoreElements
<1>2. /\ round.at = "notices"
      /\ round' = IF picked # <<>> /\ IndicesFit(picked) THEN save ELSE Idle
      /\ UNCHANGED <<height, mined, outputs, proofs, seen, claims, failures>>
  BY DEF FindNotices, chain
<1> HIDE DEF picked
<1>3. /\ save.at = "save" /\ save.picked = picked /\ save.todo = picked
      /\ save \in [at: Places, end: 0..seen', picked: Seq(DOMAIN outputs),
                   todo: Seq(DOMAIN outputs)]
  BY <1>1, <1>2, RoundFacts DEF Places
<1> HIDE DEF save
<1>4. Idle.at = "idle" /\ Idle.todo = <<>>
  BY DEF Idle
<1>5. ASSUME picked # <<>>, IndicesFit(picked)
      PROVE  /\ n \in 1..Len(outputs)
             /\ picked = [j \in 1..n |-> j]
             /\ ~TooMany(LeavesOf(picked))
  <2>1. /\ picked \in Seq(Nat \ {0}) /\ n \in Nat \ {0}
        /\ \A j \in 1..n : picked[j] \in 1..Len(outputs)
    <3>1. DOMAIN outputs = 1..Len(outputs) /\ DOMAIN outputs \subseteq Nat \ {0}
      BY RoundFacts
    <3>2. picked \in Seq(Nat \ {0})
      BY <1>1, <3>1, MoreElements
    <3>3. n \in Nat /\ \A j \in 1..n : picked[j] \in DOMAIN outputs
      BY <1>1
    <3>4. n # 0
      BY <1>1, <1>5, EmptySeq
    <3>5. QED
      BY <3>1, <3>2, <3>3, <3>4
  <2>2. \A j \in 1..n : picked[j] <= n
    BY <1>5, <2>1 DEF IndicesFit
  <2>3. picked = [j \in 1..n |-> j]
    BY <1>1, <2>1, <2>2, FittingIndicesHaveNoHoles
  <2>4. picked[n] = n
    BY <2>1, <2>3
  <2>5. QED
    BY <1>5, <2>1, <2>3, <2>4 DEF IndicesFit
<1> HIDE DEF n
<1>6. Picked'
  <2>1. CASE round' = Idle
    BY <1>4, <2>1 DEF Picked
  <2>2. CASE picked # <<>> /\ IndicesFit(picked)
    <3>1. n \in 1..Len(outputs) /\ 0 \in 0..Len(outputs) /\ 0 <= n /\ n - 0 = n
      BY <1>5, <2>2, RoundFacts
    <3>2. picked = [j \in 1..(n - 0) |-> 0 + j]
      BY <1>5, <2>2, <3>1
    <3>3. round' = save /\ Len(outputs') = Len(outputs)
      BY <1>2, <2>2
    <3>4. QED
      BY <1>3, <1>5, <2>2, <3>1, <3>2, <3>3 DEF Picked, LeavesOf
  <2>3. QED
    BY <1>2, <2>1, <2>2
<1>7. EpochsPaid'
  BY <1>2, <1>3, <1>4, RoundFacts DEF IInv, EpochsPaid
<1>8. QED
  BY <1>2, <1>3, <1>6, <1>7, RoundFacts, RoundMoves

(* A proof that has been stored is the one the claim will be made for.     *)
LEMMA SetProofKeeps == IInv /\ SetProof => IInv'
<1> SUFFICES ASSUME IInv, SetProof PROVE IInv'
  OBVIOUS
<1>1. PICK n \in 1..Len(outputs), m \in 0..Len(outputs) :
        /\ m <= n
        /\ round.picked = [j \in 1..n |-> j]
        /\ round.todo = [j \in 1..(n - m) |-> m + j]
        /\ ~TooMany(LeavesOf(round.picked))
  BY DEF SetProof, IInv, Picked
<1>2. Len(outputs) \in Nat /\ n \in Nat /\ m \in Nat
  BY RoundFacts
<1>3. m < n
  <2>1. SUFFICES ASSUME m = n PROVE FALSE
    BY <1>1, <1>2
  <2>2. round.todo = <<>>
    BY <1>1, <1>2, <2>1
  <2>3. QED
    BY <2>2 DEF SetProof
<1>4. /\ Head(round.todo) = m + 1
      /\ Tail(round.todo) = [j \in 1..(n - (m + 1)) |-> (m + 1) + j]
      /\ Tail(round.todo) \in Seq(DOMAIN outputs)
  <2>1. round.todo \in Seq(DOMAIN outputs)
    BY RoundFacts
  <2>2. Head(round.todo) = m + 1
    BY <1>1, <1>2, <1>3
  <2>3. Tail(round.todo) = [j \in 1..(n - (m + 1)) |-> (m + 1) + j]
    BY <1>1, <1>2, <1>3
  <2>4. Tail(round.todo) \in Seq(DOMAIN outputs)
    BY <2>1, HeadTailProperties DEF SetProof
  <2>5. QED
    BY <2>2, <2>3, <2>4
<1> DEFINE proof == Siblings(LeavesOf(round.picked), m)
<1>5. /\ round.at = "save"
      /\ proofs' = [proofs EXCEPT ![m + 1] = proof]
      /\ round' = [round EXCEPT !.todo = Tail(round.todo)]
      /\ UNCHANGED <<height, mined, outputs, seen, claims, failures>>
  <2>1. (m + 1) - 1 = m
    BY <1>2
  <2>2. QED
    BY <1>4, <2>1 DEF SetProof, chain
<1> HIDE DEF proof
<1>6. /\ round'.at = "save" /\ round'.picked = round.picked
      /\ round'.todo = [j \in 1..(n - (m + 1)) |-> (m + 1) + j]
      /\ round' \in [at: Places, end: 0..seen', picked: Seq(DOMAIN outputs),
                      todo: Seq(DOMAIN outputs)]
  BY <1>4, <1>5, RoundFacts
<1>7. /\ IsSeq(proofs') /\ Len(proofs') = Len(outputs)
      /\ proofs'[m + 1] = proof
      /\ \A k \in 1..Len(outputs) : k # m + 1 => proofs'[k] = proofs[k]
  <2>1. PICK T : proofs \in Seq(T)
    BY DEF IInv, Typed, IsSeq
  <2>2. proofs \in Seq(T \cup {proof}) /\ Len(proofs) = Len(outputs)
    BY <2>1 DEF IInv, Typed
  <2>3. proofs' \in Seq(T \cup {proof}) /\ Len(proofs') = Len(outputs)
    BY <1>2, <1>3, <1>5, <2>2
  <2>4. DOMAIN proofs = 1..Len(outputs) /\ m + 1 \in 1..Len(outputs)
    BY <1>2, <1>3, <2>2
  <2>5. QED
    BY <1>5, <2>3, <2>4 DEF IsSeq
<1>8. Typed'
  BY <1>5, <1>6, <1>7 DEF IInv, Typed
<1>9. Picked'
  <2>1. m + 1 \in 0..Len(outputs) /\ m + 1 <= n
    BY <1>2, <1>3
  <2>2. QED
    BY <1>1, <1>5, <1>6, <2>1 DEF Picked, LeavesOf
<1>10. EpochsPaid'
  BY <1>5, <1>6 DEF IInv, EpochsPaid
<1>11. ProofsStand'
  <2>1. SUFFICES ASSUME failures = 0, NEW k \in 1..Len(outputs), proofs'[k] # NoProof
                 PROVE  \/ Proven(k)'
                        \/ /\ k <= Len(round.picked)
                           /\ proofs'[k] = Siblings(LeavesOf(round.picked), k - 1)
    BY <1>5, <1>6, ZenonT(40) DEF ProofsStand, LeavesOf
  <2>2. CASE k = m + 1
    <3>1. Len(round.picked) = n /\ k - 1 = m
      BY <1>1, <1>2, <2>2, LeavesAreSeq
    <3>2. k <= Len(round.picked)
      BY <1>2, <1>3, <2>2, <3>1
    <3>3. QED
      BY <1>7, <2>2, <3>1, <3>2 DEF proof
  <2>3. CASE k # m + 1
    <3>1. proofs'[k] = proofs[k]
      BY <1>7, <2>3
    <3>2. Proven(k) => Proven(k)'
      BY <1>5, <3>1 DEF Proven
    <3>3. QED
      BY <2>1, <3>1, <3>2 DEF IInv, ProofsStand
  <2>4. QED
    BY <2>2, <2>3
<1>12. ClaimsAreRoots'
  BY <1>5 DEF IInv, ClaimsAreRoots
<1>13. QED
  BY <1>8, <1>9, <1>10, <1>11, <1>12 DEF IInv

(* The claim is the root that each proof of the round leads to.            *)
LEMMA MakeTheClaimKeeps == IInv /\ MakeTheClaim => IInv'
<1> SUFFICES ASSUME IInv, MakeTheClaim PROVE IInv'
  OBVIOUS
<1> DEFINE leaves == LeavesOf(round.picked)
<1>1. PICK n \in 1..Len(outputs) :
        round.picked = [j \in 1..n |-> j] /\ ~TooMany(leaves)
  BY DEF MakeTheClaim, IInv, Picked
<1>2. Len(outputs) \in Nat /\ n \in Nat /\ Len(claims) \in Nat
  BY RoundFacts
<1>3. /\ leaves = [j \in 1..n |-> Leaf(j)]
      /\ IsSeq(leaves) /\ Len(leaves) = n /\ Len(round.picked) = n
  BY <1>1, <1>2, LeavesAreSeq
<1> HIDE DEF leaves
<1>4. /\ round.at = "save" /\ height' = height + 1 /\ round' = Idle
      /\ claims' = Append(claims, Root(leaves))
      /\ UNCHANGED <<mined, outputs, proofs, seen, failures>>
  BY DEF MakeTheClaim, leaves
<1>5. /\ IsSeq(claims') /\ Len(claims') = Len(claims) + 1
      /\ ToSet(claims') = ToSet(claims) \cup {Root(leaves)}
  BY <1>4, AppendIsSeq DEF IInv, Typed
<1>6. Typed'
  <2>1. mined \in Nat /\ height = mined + Len(claims)
    BY DEF IInv, Typed
  <2>2. seen' \in Nat /\ seen' <= height' /\ height' = mined' + Len(claims')
    BY <1>2, <1>4, <1>5, <2>1, RoundFacts
  <2>3. outputs' \in Seq([kind: Kinds, block: 1..height'])
    <3> DEFINE R == [kind: Kinds, block: 1..height]
               R1 == [kind: Kinds, block: 1..height']
    <3>1. 1..height \subseteq 1..height'
      BY <1>2, <1>4, <2>1
    <3>2. R \subseteq R1 /\ outputs \in Seq(R)
      BY <3>1 DEF IInv, Typed
    <3> HIDE DEF R, R1
    <3>3. outputs \in Seq(R1)
      BY <3>2, MoreElements
    <3>4. QED
      BY <1>4, <3>3 DEF R1
  <2>4. round' \in [at: Places, end: 0..seen', picked: Seq(DOMAIN outputs'),
                    todo: Seq(DOMAIN outputs')]
    BY <1>4, RoundFacts
  <2>5. QED
    BY <1>4, <1>5, <2>2, <2>3, <2>4 DEF IInv, Typed
<1>7. Picked'
  BY <1>4 DEF Picked, Idle
<1>8. EpochsPaid'
  <2> DEFINE paid == seen \div EpochBlocks
  <2>1. paid \in Nat /\ Len(claims) + 1 <= paid
    BY <1>4, RoundFacts, Epochs DEF IInv, EpochsPaid
  <2>2. EpochsPaid' <=> Len(claims') + 0 <= paid
    BY <1>4 DEF EpochsPaid, Idle
  <2> HIDE DEF paid
  <2>3. QED
    BY <1>2, <1>5, <2>1, <2>2
<1>9. ProofsStand'
  <2>1. SUFFICES ASSUME failures = 0, NEW k \in 1..Len(outputs), proofs[k] # NoProof
                 PROVE  RootFromProof(Leaf(k), k - 1, proofs[k]) \in ToSet(claims')
    BY <1>4 DEF ProofsStand, Proven
  <2>2. CASE Proven(k)
    BY <1>5, <2>2 DEF Proven
  <2>3. CASE k <= n /\ proofs[k] = Siblings(leaves, k - 1)
    <3>1. k - 1 \in Nat /\ k - 1 < Len(leaves) /\ (k - 1) + 1 = k /\ leaves[k] = Leaf(k)
      BY <1>2, <1>3, <2>3
    <3>2. RootFromProof(leaves[k], k - 1, Siblings(leaves, k - 1)) = Root(leaves)
      <4>1. ~TooMany(leaves)
        BY <1>1 DEF leaves
      <4>2. RootFromProof(leaves[(k - 1) + 1], k - 1, Siblings(leaves, k - 1)) = Root(leaves)
        BY <1>3, <3>1, <4>1, ProofLeadsToRoot
      <4>3. QED
        BY <3>1, <4>2
    <3>3. QED
      BY <1>5, <2>3, <3>1, <3>2
  <2>4. QED
    BY <1>3, <2>1, <2>2, <2>3 DEF IInv, ProofsStand, leaves
<1>10. ClaimsAreRoots'
  <2>1. SUFFICES ASSUME NEW claim \in ToSet(claims')
                 PROVE  \E l \in DOMAIN outputs : claim = FullTreeRoot([k \in 1..l |-> Leaf(k)])
    BY <1>4 DEF ClaimsAreRoots
  <2>2. CASE claim \in ToSet(claims)
    BY <2>2 DEF IInv, ClaimsAreRoots
  <2>3. CASE claim = Root(leaves)
    <3>1. claim = FullTreeRoot([k \in 1..n |-> Leaf(k)]) /\ n \in DOMAIN outputs
      BY <1>3, <2>3, RootIsFullTreeRoot, RoundFacts
    <3>2. QED
      BY <3>1
  <2>4. QED
    BY <1>5, <2>2, <2>3
<1>11. QED
  BY <1>6, <1>7, <1>8, <1>9, <1>10 DEF IInv

-----------------------------------------------------------------------------
(* Every step keeps the invariant.                                         *)
LEMMA NextHolds == IInv /\ [Next]_vars => IInv'
<1> SUFFICES ASSUME IInv, [Next]_vars PROVE IInv'
  OBVIOUS
<1>1. CASE MineBlock
  BY <1>1, MineBlockKeeps
<1>2. CASE CreateOutput
  BY <1>2, CreateOutputKeeps
<1>3. CASE ReceiveHeader
  BY <1>3, ReceiveHeaderKeeps
<1>4. CASE FindVouchers
  BY <1>4, FindVouchersKeeps
<1>5. CASE FindNotices
  BY <1>5, FindNoticesKeeps
<1>6. CASE SetProof
  BY <1>6, SetProofKeeps
<1>7. CASE MakeTheClaim
  BY <1>7, MakeTheClaimKeeps
<1>8. CASE Fails
  BY <1>8, FailsKeeps
<1>9. CASE ClaimReverts
  BY <1>9, ClaimRevertsKeeps
<1>10. CASE UNCHANGED vars
  BY <1>10, ZenonT(40) DEF vars, IInv, Typed, Picked, EpochsPaid, ProofsStand, Proven,
              ClaimsAreRoots, LeavesOf
<1>11. QED
  BY <1>1, <1>2, <1>3, <1>4, <1>5, <1>6, <1>7, <1>8, <1>9, <1>10 DEF Next, Claimer

(* The invariant holds in every state of every behaviour.                  *)
LEMMA InvariantHolds == Spec => []IInv
<1>1. QED
  BY InitHolds, NextHolds, PTL DEF Spec

-----------------------------------------------------------------------------
(* Type correctness, for every length of an epoch and height of the tree:  *)
(* each claim is a block of the chain, and a round saves outputs that      *)
(* exist, in the order it has picked them.                                 *)
THEOREM ClaimsTypeCorrect == Spec => []TypeOK
<1>1. ASSUME IInv PROVE TypeOK
  <2>1. /\ height = mined + Len(claims) /\ seen \in 0..height
        /\ outputs \in Seq([kind: Kinds, block: 1..height])
        /\ Len(proofs) = Len(outputs) /\ failures \in Nat
    <3>1. mined \in Nat /\ Len(claims) \in Nat /\ seen \in Nat
      BY <1>1, RoundFacts DEF IInv, Typed
    <3>2. QED
      BY <1>1, <3>1 DEF IInv, Typed
  <2>2. /\ round.at \in Places /\ round.end \in 0..seen
        /\ round.picked \in Seq(DOMAIN outputs) /\ round.todo \in Seq(DOMAIN outputs)
    BY <1>1 DEF IInv, Typed
  <2>3. ToSet(round.picked) \subseteq DOMAIN outputs
    BY <2>2 DEF ToSet
  <2>4. IsSuffix(round.todo, round.picked)
    <3>1. CASE round.at # "save"
      <4>1. round.todo = <<>>
        BY <1>1, <3>1 DEF IInv, Picked
      <4>2. QED
        BY <2>2, <4>1 DEF IsSuffix, IsPrefix, Reverse
    <3>2. CASE round.at = "save"
      <4>1. PICK n \in 1..Len(outputs), m \in 0..Len(outputs) :
              /\ m <= n
              /\ round.picked = [j \in 1..n |-> j]
              /\ round.todo = [j \in 1..(n - m) |-> m + j]
        BY <1>1, <3>2 DEF IInv, Picked
      <4>2. n \in Nat /\ m \in Nat
        BY <1>1, RoundFacts
      <4>3. QED
        BY <4>1, <4>2 DEF IsSuffix, IsPrefix, Reverse
    <3>3. QED
      BY <3>1, <3>2
  <2>5. QED
    BY <2>1, <2>2, <2>3, <2>4 DEF TypeOK
<1>2. QED
  BY <1>1, InvariantHolds, PTL

(* Between two rounds every stored proof leads from its output to a root   *)
(* on the chain, unless a round has failed, whatever the repository stored *)
(* while the rounds read.                                                  *)
THEOREM ProofsLead == Spec => []ProofsLeadToClaims
<1>1. ASSUME IInv PROVE ProofsLeadToClaims
  <2>1. DOMAIN proofs = 1..Len(outputs)
    BY <1>1, AppendIsSeq DEF IInv, Typed
  <2>2. QED
    BY <1>1, <2>1 DEF IInv, ProofsStand, ProofsLeadToClaims
<1>2. QED
  BY <1>1, InvariantHolds, PTL

(* Every claim is the root of the full tree over the first outputs, none   *)
(* of them left out.                                                       *)
THEOREM ClaimsAreFullRoots == Spec => []ClaimsAreRoots
<1>1. IInv => ClaimsAreRoots
  BY DEF IInv
<1>2. QED
  BY <1>1, InvariantHolds, PTL

(* Each claim answers the end of an epoch of its own, for every length of  *)
(* an epoch, one block included, though claims and reverted claims are     *)
(* blocks of the chain and end epochs too.                                 *)
THEOREM ClaimsHaveTheirEpochs == Spec => []OneClaimPerEpoch
<1>1. ASSUME IInv PROVE OneClaimPerEpoch
  BY <1>1, RoundFacts DEF OneClaimPerEpoch
<1>2. QED
  BY <1>1, InvariantHolds, PTL
=============================================================================

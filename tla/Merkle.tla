------------------------------- MODULE Merkle -------------------------------
(***************************************************************************)
(* The proofs of merkle/proof.go, level by level as the code computes them *)
(* and what a contract computes from one, with the hash as a free pair.    *)
(* The reference definition is the root of the full tree of the height.    *)
(*                                                                         *)
(* Leaves are counted from 0, as in the code; leaf k is leaves[k + 1].     *)
(***************************************************************************)
EXTENDS Naturals, Sequences

CONSTANT Height     (* MAX_OUTPUT_TREE_HEIGHT, 63 in the code              *)

ASSUME HeightAssumption == Height \in Nat

Hash(left, right) == <<left, right>>
Leaf(payload) == <<payload>>
NoLeaf == <<>>

(* at(): the node of a level, or the default.                              *)
At(level, k, default) == IF k < Len(level) THEN level[k + 1] ELSE default

ParentLevel(level, pristine) ==
  [k \in 1..(Len(level) + 1) \div 2 |->
     Hash(level[2 * k - 1], At(level, 2 * k - 1, pristine))]

(* A level of the loop, with its pristine node, and all of them.           *)
LevelAbove(below) ==
  [nodes |-> ParentLevel(below.nodes, below.pristine),
   pristine |-> Hash(below.pristine, below.pristine)]

Levels(leaves) ==
  LET level[h \in 0..Height] ==
        IF h = 0 THEN [nodes |-> leaves, pristine |-> NoLeaf]
        ELSE LevelAbove(level[h - 1])
  IN  level

(* The ancestors of leaf k, one bit less on each level.                    *)
Ancestors(k) ==
  LET up[h \in 0..Height] == IF h = 0 THEN k ELSE up[h - 1] \div 2 IN up

Sibling_NoFlip(k, h) == Ancestors(k)[h]

(* The index h levels up, with its last bit flipped.                       *)
Sibling(k, h) ==
  LET ancestor == Ancestors(k)[h]
  IN  IF ancestor % 2 = 0 THEN ancestor + 1 ELSE ancestor - 1

TooMany(leaves) == Len(Levels(leaves)[Height].nodes) > 1

Root(leaves) ==
  LET top == Levels(leaves)[Height] IN At(top.nodes, 0, top.pristine)

Siblings(leaves, k) ==
  LET level == Levels(leaves)
  IN  [h \in 1..Height |->
         At(level[h - 1].nodes, Sibling(k, h - 1), level[h - 1].pristine)]

-----------------------------------------------------------------------------
(* The reference: level h of the full tree, whose leaves are those of the  *)
(* code and pristine ones from there on.                                   *)
FullLevelAbove(below) == [k \in Nat |-> Hash(below[2 * k], below[2 * k + 1])]

FullTree(leaves) ==
  LET level[h \in 0..Height] ==
        IF h = 0 THEN [k \in Nat |-> At(leaves, k, NoLeaf)]
        ELSE FullLevelAbove(level[h - 1])
  IN  level

FullTreeRoot(leaves) == FullTree(leaves)[Height][0]

(* What the application contract computes from an output, its index and    *)
(* the siblings of its proof: the nodes on the way to the root.            *)
Combine(node, k, h, sibling) ==
  IF Ancestors(k)[h] % 2 = 0 THEN Hash(node, sibling) ELSE Hash(sibling, node)

PathFromProof(leaf, k, siblings) ==
  LET node[h \in 0..Height] ==
        IF h = 0 THEN leaf ELSE Combine(node[h - 1], k, h - 1, siblings[h])
  IN  node

RootFromProof(leaf, k, siblings) == PathFromProof(leaf, k, siblings)[Height]
=============================================================================

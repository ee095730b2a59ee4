----------------------------- MODULE Bisection -----------------------------
(***************************************************************************)
(* The comparison of two Merkle trees: the server holds the snapshot of    *)
(* the client's tree, builds its own with the same configuration, and      *)
(* refines the ranges that differ, layer by layer, with sub-trees it asks  *)
(* the client for.  A block's hash is the block's number; a block a node   *)
(* does not have is padded, so a leaf is known by the blocks that are in   *)
(* it.                                                                     *)
(***************************************************************************)
EXTENDS Batching, FiniteSets, FiniteSetsExt

CONSTANTS
  MergeDivisor,    \* 1 / 0.005: the blocks of a tree over the blocks of a leaf
  SubDivisor,      \* 1 / 0.05: the same for a sub-tree
  LeafThreshold,   \* LEAF_THRESHOLD
  LayerThreshold   \* LAYER_THRESHOLD

ASSUME BisectionAssumption ==
  /\ MergeDivisor \in Nat \ {0} /\ SubDivisor \in Nat \ {0}
  /\ LeafThreshold \in Nat /\ LayerThreshold \in Nat

Ceil(a, b) == (a + b - 1) \div b

\* GenerateMerkleConfig, GenerateMerkleTree: the blocks merged into one leaf.
BlockMerge(count) == Ceil(count, MergeDivisor)

\* calculateSubBlockMerge, at least 1.
SubBlockMerge(count) == Max({Ceil(count, SubDivisor), 1})

\* bisectionWorkItem.
Item(start, count) == [start |-> start, count |-> count]
ItemEnd(item) == item.start + item.count - 1

\* GenerateMerkleTreeWithConfig over the blocks S of a node: leaves of `merge` blocks,
\* gaps padded, the last leaf short.
MerkleTree(S, start, end, merge) ==
  [k \in 0 .. (Ceil(end - start + 1, merge) - 1) |->
     LET first == start + k * merge
         last  == Min({first + merge - 1, end})
     IN [item |-> Item(first, last - first + 1), blocks |-> S \cap first..last]]

\* TreeDiff: the leaves that are not the same in both trees, the longer one's of those
\* that overlap.
TreeDiff(t1, t2) ==
  LET common == DOMAIN t1 \cap DOMAIN t2
      longer(k) == IF t1[k].item.count >= t2[k].item.count THEN t1[k].item ELSE t2[k].item
  IN {longer(k) : k \in {j \in common : t1[j] # t2[j]}}
       \cup {t1[k].item : k \in DOMAIN t1 \ common} \cup {t2[k].item : k \in DOMAIN t2 \ common}

\* REQUEST_MERKLE at the client, and buildLocalSubtree: one configuration for an item.
SubTree(S, item) == MerkleTree(S, item.start, ItemEnd(item), SubBlockMerge(item.count))

\* requestSubTree, and the comparison with the server's own sub-tree.
SubDiff(local, target, item) == TreeDiff(SubTree(local, item), SubTree(target, item))

\* One layer of the loop: small ranges, ranges beyond the client's height and those
\* whose sub-tree request fails (lost) are tagged whole; the others are refined.
LayerDropsLost(local, target, height, lost, state) ==
  LET whole  == {i \in state.items : i.count <= LeafThreshold \/ i.start > height}
      asked  == state.items \ whole
      answer == {i \in asked : i.start \notin lost}
  IN [tagged |-> state.tagged \cup whole,
      items  |-> UNION {SubDiff(local, target, i) : i \in answer}]

Layer(local, target, height, lost, state) ==
  LET whole  == {i \in state.items : i.count <= LeafThreshold \/ i.start > height}
      asked  == state.items \ whole
      failed == {i \in asked : i.start \in lost}
  IN [tagged |-> state.tagged \cup whole \cup failed,
      items  |-> UNION {SubDiff(local, target, i) : i \in asked \ failed}]

\* The state after 0, 1, 2, ... layers, from the leaves that differ.
Layers(local, target, height, lost, diffs) ==
  LET layer[l \in 0..LayerThreshold] ==
        IF l = 0 THEN [tagged |-> {}, items |-> diffs]
        ELSE Layer(local, target, height, lost, layer[l - 1])
  IN layer

\* dataBisect between the server's blocks in start..end and the client's, whose tree has
\* leaves of `merge` blocks up to its height.  What the last layer leaves is tagged.
DataBisect(local, target, start, end, height, merge, lost) ==
  LET diffs == TreeDiff(MerkleTree(local, start, end, merge),
                        MerkleTree(target, start, height, merge))
      final == Layers(local, target, height, lost, diffs)[LayerThreshold]
      ranges == {RangeTag(i.start, ItemEnd(i)) : i \in final.tagged \cup final.items}
  IN Tag(SetToSeq(ranges), <<>>)
=============================================================================

------------------------------ MODULE Tagging ------------------------------
(* Tags: the blocks a node is to fetch, as ranges and as single blocks.     *)
EXTENDS Integers, Sequences, SequencesExt

RangeTag(start, end) == [start |-> start, end |-> end]
Tag(ranges, blocks) == [ranges |-> ranges, blocks |-> blocks]
Ranges == {r \in [start : Nat, end : Nat] : r.start <= r.end}
TagType == [ranges : Seq(Ranges), blocks : Seq(Nat)]

\* The tags that name each block once.
Span(r) == r.start..r.end
Separate(tag) ==
  /\ \A i, j \in DOMAIN tag.ranges : i # j => Span(tag.ranges[i]) \cap Span(tag.ranges[j]) = {}
  /\ \A i, j \in DOMAIN tag.blocks : i # j => tag.blocks[i] # tag.blocks[j]
  /\ \A i \in DOMAIN tag.ranges, j \in DOMAIN tag.blocks : tag.blocks[j] \notin Span(tag.ranges[i])

TagBlocks(tag) ==
  ToSet(tag.blocks) \cup UNION {r.start..r.end : r \in ToSet(tag.ranges)}
=============================================================================

---------------------------- MODULE MCBlockSync ----------------------------
(* Small chains and remotes for TLC.                                        *)
EXTENDS BlockSync

\* One remote with the whole chain, one that has fallen behind the client's height, and
\* one more with the whole chain.
LaggingPeer == <<0..3, 0..1, 0..3>>

\* One remote, MinBlocks ahead of a client that misses a block below its height.
OneServer == <<0..4>>

\* A PoTS answer with a range and single blocks out of order.
MixedGap == {Tag(<<RangeTag(2, 2)>>, <<3, 1>>)}
=============================================================================

------------------------- MODULE MCAccountDispatcher -------------------------
(* Small sessions for TLC.                                                  *)
EXTENDS AccountDispatcher, TLC

\* Pages of two nonces: a page made of two batches, and a rest.
UnevenBatches == <<<<1>>, <<2, 3>>>>

\* Three batches of one page each: the gate closes between them.
GatedBatches == <<<<1>>, <<2>>, <<3>>>>

\* Batches of several pages: parents that passed the gate push more pages than the
\* channel takes.
LargeBatches == <<<<1, 2, 3, 4>>, <<5, 6, 7, 8>>>>

\* No nonce is in two places of the batches: NoDoubleReport is about such sessions.
ASSUME BatchesAreDistinct == DistinctNonces

Interchangeable == Permutations(Parents) \cup Permutations(Workers)
==============================================================================

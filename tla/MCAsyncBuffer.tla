---------------------------- MODULE MCAsyncBuffer ----------------------------
(* Small instances of the asynchronous WAL buffer for TLC.                  *)
EXTENDS AsyncBuffer

\* One writer pushes an entry and a checkpoint, the others one entry each.
EntryThenCheckpoint ==
  [w \in Writers |-> IF w = "w1" THEN <<"data", "checkpoint">> ELSE <<"data">>]
==============================================================================

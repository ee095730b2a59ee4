-------------------------------- MODULE MCWAL --------------------------------
(* Small instances of the write-ahead log for TLC.                          *)
EXTENDS WAL
==============================================================================

----------------------------- MODULE DurableLog -----------------------------
(***************************************************************************)
(* What a write-ahead log promises, whatever it keeps in memory: entries   *)
(* are only added at its end, under the LSN that is their index; one that  *)
(* it no longer holds in memory can be read; the log is cut at the oldest  *)
(* checkpoint, which is given up only when enough newer ones remain, or    *)
(* where the caller wants it cut.  A crash, a restart and a failed         *)
(* operation change nothing.                                               *)
(***************************************************************************)
EXTENDS Integers, Sequences, FiniteSets

CONSTANT Kept   \* the checkpoints that are kept

VARIABLES
  first, log,   \* log[i] is the entry with index first + i - 1
  checkpoints,  \* the LSNs from which a recovery can start
  durable,      \* the entries that are in the log and nowhere else
  discarded     \* where the caller last had the log cut

LastIndex == first + Len(log) - 1
Readable(e) == first <= e.lsn /\ e.lsn <= LastIndex /\ log[e.lsn - first + 1] = e

Init == first = 1 /\ log = <<>> /\ checkpoints = {} /\ durable = {} /\ discarded = 1

Extend ==
  /\ Len(log') = Len(log) + 1 /\ log' = Append(log, log'[Len(log')])
  /\ log'[Len(log')].lsn = LastIndex + 1
  /\ UNCHANGED <<first, checkpoints, durable, discarded>>

Release ==
  /\ durable \subseteq durable' /\ \A e \in durable' \ durable : Readable(e)
  /\ UNCHANGED <<first, log, checkpoints, discarded>>

Checkpoint ==
  /\ \E lsn \in 0..LastIndex : checkpoints' = checkpoints \cup {lsn}
  /\ UNCHANGED <<first, log, durable, discarded>>

CutAt(lsn) ==
  /\ first < lsn /\ lsn <= LastIndex
  /\ first' = lsn /\ log' = SubSeq(log, lsn - first + 1, Len(log))

\* A checkpoint with as many newer ones as are kept, and none older.
Superfluous(lsn) ==
  /\ Cardinality(checkpoints) > Kept
  /\ lsn \in checkpoints /\ \A other \in checkpoints : lsn <= other

Cut ==
  /\ \E lsn \in checkpoints : Superfluous(lsn) /\ CutAt(lsn)
  /\ UNCHANGED <<checkpoints, durable, discarded>>

Discard ==
  /\ \E lsn \in 1..LastIndex : CutAt(lsn) /\ discarded' = lsn
  /\ UNCHANGED <<checkpoints, durable>>

Forget ==
  /\ \E lsn \in checkpoints : Superfluous(lsn) /\ checkpoints' = checkpoints \ {lsn}
  /\ UNCHANGED <<first, log, durable, discarded>>

Next == Extend \/ Release \/ Checkpoint \/ Cut \/ Discard \/ Forget

Spec == Init /\ [][Next]_<<first, log, checkpoints, durable, discarded>>
=============================================================================

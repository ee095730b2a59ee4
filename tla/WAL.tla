--------------------------------- MODULE WAL ---------------------------------
(***************************************************************************)
(* The write-ahead log of common/WAL over the tidwall/wal library: LSN     *)
(* assignment, the in-memory batch, the flush to disk with its metadata    *)
(* file, checkpoint markers with rotation and truncation, and a process    *)
(* that may crash between any two disk operations and be restarted.        *)
(* Mu serialises the operations, so one operation is under way at a time   *)
(* (pc, op); a step ends at each disk operation.  An event is written      *)
(* once, so its number identifies it.                                      *)
(***************************************************************************)
EXTENDS Integers, Sequences, FiniteSets

CONSTANTS
  BatchSize,         \* the buffer length that triggers a flush
  MaxSnapshotLimit,  \* checkpoint markers kept
  MaxEvents,         \* bound: events submitted
  MaxCrashes,        \* bound: crashes
  Faults             \* what may fail: see FaultKind

FaultKind == {"serialize", "write", "meta", "marker",  \* WriteEvent, flushBuffer, CreateCheckpoint
              "readdir", "truncate", "remove"}         \* the rotation

ASSUME WALAssumption ==
  /\ BatchSize \in Nat \ {0} /\ MaxSnapshotLimit \in Nat \ {0}
  /\ MaxEvents \in Nat /\ MaxCrashes \in Nat
  /\ Faults \subseteq FaultKind

VARIABLES
  \* On disk.
  first, log,       \* the log: log[i] is the entry with index first + i - 1
  meta,             \* lsn_metadata.json
  markers,          \* the LSNs of the files in the checkpoint directory
  \* In memory.
  up,               \* the process has an open WAL
  currentLSN, lastFlushedLSN, Buffer,
  pc, op,           \* the step and the name of the operation that holds Mu
  next,             \* the next entry of Buffer that flushBuffer writes
  \* History.
  submitted,        \* events handed to WriteEvent
  committed,        \* entries that flushBuffer has dropped from Buffer as written
  released,         \* where a caller of TruncateBefore last had the log cut
  crashes

diskVars == <<first, log, meta, markers>>
memVars  == <<up, currentLSN, lastFlushedLSN, Buffer, pc, op, next>>
histVars == <<submitted, committed, released, crashes>>
vars     == <<diskVars, memVars, histVars>>

Entry == [lsn : Nat, event : Nat]
Elems(s) == {s[i] : i \in DOMAIN s}

\* What the metadata file can hold: nothing yet, half a write, or both LSNs.
Absent  == [kind |-> "absent",  cur |-> 0, flushed |-> 0]
Corrupt == [kind |-> "corrupt", cur |-> 0, flushed |-> 0]
Saved(cur, flushed) == [kind |-> "ok", cur |-> cur, flushed |-> flushed]

\* tidwall/wal: the indexes of the log, 0 when it is empty.
LastIndex  == first + Len(log) - 1
FirstIndex == IF log = <<>> THEN 0 ELSE first

Init ==
  /\ first = 1 /\ log = <<>> /\ meta = Absent /\ markers = {}
  /\ up = TRUE /\ currentLSN = 0 /\ lastFlushedLSN = 0 /\ Buffer = <<>>
  /\ pc = "idle" /\ op = "none" /\ next = 1
  /\ submitted = 0 /\ committed = {} /\ released = 1 /\ crashes = 0

-----------------------------------------------------------------------------
(* An operation ends: it releases Mu and answers its caller.               *)

Return == pc' = "idle" /\ op' = "none" /\ next' = 1

\* flushBuffer starts on behalf of operation o.
StartFlush(o) == pc' = "flush" /\ op' = o /\ next' = 1

\* WriteEvent: the LSN is taken before the event is serialised, so a failure
\* leaves a hole.
WriteEvent ==
  /\ up /\ pc = "idle" /\ submitted < MaxEvents
  /\ submitted' = submitted + 1
  /\ currentLSN' = currentLSN + 1
  /\ \/ /\ "serialize" \in Faults
        /\ UNCHANGED <<Buffer, pc, op, next>>
     \/ /\ Buffer' = Append(Buffer, [lsn |-> currentLSN', event |-> submitted'])
        /\ IF Len(Buffer') >= BatchSize THEN StartFlush("write")
                                        ELSE UNCHANGED <<pc, op, next>>
  /\ UNCHANGED <<diskVars, up, lastFlushedLSN, committed, released, crashes>>

\* Flush; with an empty buffer it returns at once and changes nothing.
Flush ==
  /\ up /\ pc = "idle" /\ Buffer # <<>>
  /\ StartFlush("flush")
  /\ UNCHANGED <<diskVars, up, currentLSN, lastFlushedLSN, Buffer, histVars>>

CheckpointSkipsFlush ==
  /\ up /\ pc = "idle"
  /\ pc' = "marker" /\ op' = "checkpoint" /\ next' = 1
  /\ lastFlushedLSN' = currentLSN
  /\ UNCHANGED <<diskVars, up, currentLSN, Buffer, histVars>>

\* CreateCheckpoint flushes what is buffered before it writes its marker.
CreateCheckpoint ==
  /\ up /\ pc = "idle"
  /\ IF Buffer = <<>> THEN pc' = "marker" /\ op' = "checkpoint" /\ UNCHANGED next
                      ELSE StartFlush("checkpoint")
  /\ UNCHANGED <<diskVars, up, currentLSN, lastFlushedLSN, Buffer, histVars>>

\* Close flushes and then closes the log.
Close ==
  /\ up /\ pc = "idle"
  /\ IF Buffer = <<>> THEN up' = FALSE /\ UNCHANGED <<pc, op, next>>
                      ELSE StartFlush("close") /\ UNCHANGED up
  /\ UNCHANGED <<diskVars, currentLSN, lastFlushedLSN, Buffer, histVars>>

-----------------------------------------------------------------------------
(* flushBuffer.                                                            *)

\* tidwall/wal's Write accepts only the next index.
LogWrite(e) == e.lsn = LastIndex + 1 /\ log' = Append(log, e)

FlushEntryCountsFirst ==
  /\ pc = "flush" /\ next <= Len(Buffer)
  /\ lastFlushedLSN' = Buffer[next].lsn
  /\ \/ LogWrite(Buffer[next]) /\ next' = next + 1 /\ UNCHANGED <<pc, op>>
     \/ "write" \in Faults /\ Return /\ UNCHANGED log
  /\ UNCHANGED <<first, meta, markers, up, currentLSN, Buffer, histVars>>

FlushEntrySkipsFailed ==
  /\ pc = "flush" /\ next <= Len(Buffer)
  /\ \/ LogWrite(Buffer[next]) /\ lastFlushedLSN' = Buffer[next].lsn
     \/ "write" \in Faults /\ UNCHANGED <<log, lastFlushedLSN>>
  /\ next' = next + 1
  /\ UNCHANGED <<first, meta, markers, up, currentLSN, Buffer, pc, op, histVars>>

\* One entry goes to disk.  A refused or failed write ends the operation with an
\* error and leaves Buffer as it was, the entries already written included.
FlushEntry ==
  /\ pc = "flush" /\ next <= Len(Buffer)
  /\ \/ /\ LogWrite(Buffer[next])
        /\ lastFlushedLSN' = IF Buffer[next].lsn > lastFlushedLSN
                             THEN Buffer[next].lsn ELSE lastFlushedLSN
        /\ next' = next + 1
        /\ UNCHANGED <<pc, op>>
     \/ /\ Buffer[next].lsn # LastIndex + 1 \/ "write" \in Faults
        /\ Return
        /\ UNCHANGED <<log, lastFlushedLSN>>
  /\ UNCHANGED <<first, meta, markers, up, currentLSN, Buffer, histVars>>

\* Every entry is written: clear the buffer.  saveLSN's os.WriteFile truncates the
\* metadata file, and may fail before or after it has.
SaveTruncates ==
  /\ pc = "flush" /\ next > Len(Buffer)
  /\ Buffer' = <<>>
  /\ committed' = committed \cup Elems(Buffer)
  /\ \/ meta' = Corrupt /\ pc' = "save" /\ UNCHANGED <<op, next>>
     \/ "meta" \in Faults /\ meta' \in {meta, Corrupt} /\ Return
  /\ UNCHANGED <<first, log, markers, up, currentLSN, lastFlushedLSN, submitted, released,
                 crashes>>

\* saveLSN's os.WriteFile has written the file, and flushBuffer returns nil.
SaveWrites ==
  /\ pc = "save"
  /\ meta' = Saved(currentLSN, lastFlushedLSN)
  /\ IF op = "checkpoint" THEN pc' = "marker" /\ UNCHANGED <<op, next>>
                          ELSE Return
  /\ up' = (op # "close")
  /\ UNCHANGED <<first, log, markers, currentLSN, lastFlushedLSN, Buffer, histVars>>

-----------------------------------------------------------------------------
(* The rest of CreateCheckpoint, and TruncateBefore.                       *)

\* The marker file is created (its name holds the LSN) and the directory read.
\* os.WriteFile may fail before or after the file exists, and so may ReadDir.
WriteMarker ==
  /\ pc = "marker"
  /\ \/ /\ markers' = markers \cup {lastFlushedLSN}
        /\ IF Cardinality(markers') > MaxSnapshotLimit
           THEN pc' = "truncate" /\ UNCHANGED <<op, next>>
           ELSE Return
     \/ /\ "marker" \in Faults
        /\ markers' \in {markers, markers \cup {lastFlushedLSN}}
        /\ Return
     \/ "readdir" \in Faults /\ markers' = markers \cup {lastFlushedLSN} /\ Return
  /\ UNCHANGED <<first, log, meta, up, currentLSN, lastFlushedLSN, Buffer, histVars>>

Oldest == CHOOSE m \in markers : \A n \in markers : m <= n
Newest == CHOOSE m \in markers : \A n \in markers : m >= n

\* truncateBeforeUnlocked: nothing at or before the front; otherwise lsn becomes
\* the first index.  tidwall/wal refuses an index past the end.
TruncateFront(lsn) ==
  IF lsn > FirstIndex /\ lsn <= LastIndex
  THEN /\ first' = lsn
       /\ log' = SubSeq(log, lsn - first + 1, Len(log))
  ELSE UNCHANGED <<first, log>>

RotateTruncatesToNewest ==
  /\ pc = "truncate"
  /\ TruncateFront(Newest)
  /\ pc' = "remove"
  /\ UNCHANGED <<meta, markers, up, currentLSN, lastFlushedLSN, Buffer, op, next, histVars>>

RotateTruncatesPastOldest ==
  /\ pc = "truncate"
  /\ TruncateFront(Oldest + 1)
  /\ pc' = "remove"
  /\ UNCHANGED <<meta, markers, up, currentLSN, lastFlushedLSN, Buffer, op, next, histVars>>

\* Rotation: the log is cut at the oldest marker, or the cut fails ...
RotateTruncates ==
  /\ pc = "truncate"
  /\ \/ /\ TruncateFront(Oldest)
        /\ IF Oldest > LastIndex THEN Return ELSE pc' = "remove" /\ UNCHANGED <<op, next>>
     \/ "truncate" \in Faults /\ Return /\ UNCHANGED <<first, log>>
  /\ UNCHANGED <<meta, markers, up, currentLSN, lastFlushedLSN, Buffer, histVars>>

\* ... and then that marker's file is removed, or stays when the removal fails.
RotateRemoves ==
  /\ pc = "remove"
  /\ \/ markers' = markers \ {Oldest}
     \/ "remove" \in Faults /\ UNCHANGED markers
  /\ Return
  /\ UNCHANGED <<first, log, meta, up, currentLSN, lastFlushedLSN, Buffer, histVars>>

\* TruncateBefore, at whatever LSN the caller gives: it is not compared with the
\* checkpoints.
TruncateBefore ==
  /\ up /\ pc = "idle"
  /\ \E lsn \in 0..LastIndex + 1 : TruncateFront(lsn)
  /\ released' = IF first' # first THEN first' ELSE released
  /\ UNCHANGED <<meta, markers, memVars, submitted, committed, crashes>>

-----------------------------------------------------------------------------
(* Crash and restart.                                                      *)

Crash ==
  /\ up /\ crashes < MaxCrashes
  /\ crashes' = crashes + 1
  /\ up' = FALSE /\ currentLSN' = 0 /\ lastFlushedLSN' = 0 /\ Buffer' = <<>>
  /\ Return
  /\ UNCHANGED <<diskVars, submitted, committed, released>>

\* NewWAL on an existing directory: loadLSN takes both LSNs from the metadata file,
\* never from the log; a file that does not parse makes it fail.
NewWAL ==
  /\ ~up /\ meta.kind # "corrupt"
  /\ up' = TRUE
  /\ currentLSN' = meta.cur /\ lastFlushedLSN' = meta.flushed
  /\ Buffer' = <<>>
  /\ UNCHANGED <<diskVars, pc, op, next, histVars>>

Next ==
  \/ WriteEvent \/ Flush \/ CreateCheckpoint \/ Close
  \/ FlushEntry \/ SaveTruncates \/ SaveWrites
  \/ WriteMarker \/ RotateTruncates \/ RotateRemoves \/ TruncateBefore
  \/ Crash \/ NewWAL

Spec == Init /\ [][Next]_vars
-----------------------------------------------------------------------------
(* Properties.                                                             *)

\* The log, the metadata file and the fields of the WAL struct have their declared
\* types: LSNs are unsigned, and the log's first index is never 0.
TypeOK ==
  /\ first \in Nat \ {0} /\ log \in Seq(Entry)
  /\ meta \in [kind : {"absent", "corrupt", "ok"}, cur : Nat, flushed : Nat]
  /\ markers \subseteq Nat
  /\ up \in BOOLEAN /\ currentLSN \in Nat /\ lastFlushedLSN \in Nat
  /\ Buffer \in Seq(Entry)
  /\ pc \in {"idle", "flush", "save", "marker", "truncate", "remove"}
  /\ op \in {"none", "write", "flush", "checkpoint", "close"}
  /\ next \in Nat \ {0}
  /\ submitted \in Nat /\ committed \subseteq Entry /\ released \in Nat /\ crashes \in Nat

\* What flushBuffer has dropped from memory stays readable at its LSN, through
\* crashes, restarts, failed flushes and LSN reuse, until a rotation or the
\* caller's own TruncateBefore cuts the log past it.
CommittedSurvives ==
  \A e \in committed : e.lsn < first \/ (e.lsn <= LastIndex /\ log[e.lsn - first + 1] = e)

\* GetLastFlushedLSN, "the highest LSN that is guaranteed to be on disk", never
\* names an LSN the log does not have, before and after a restart.
FlushedIsOnDisk == lastFlushedLSN <= LastIndex /\ meta.flushed <= LastIndex

\* The newest checkpoint can be read: its LSN is in the log (0 is the checkpoint of
\* an empty log), whatever crash interrupted the flush, the marker or the rotation
\* and whatever step of the rotation failed.  Only a caller of TruncateBefore, which
\* looks at no checkpoint, can cut past it.
CheckpointReadable ==
  markers # {} /\ Newest # 0 => Newest <= LastIndex /\ (first <= Newest \/ first = released)

\* Rotation cuts the log only when MaxSnapshotLimit checkpoints at or after the cut
\* remain to recover from.
RotationKeepsCheckpoints ==
  [][first' # first /\ op = "checkpoint" =>
       Cardinality({m \in markers : m >= first'}) > MaxSnapshotLimit]_vars

\* The write-ahead log implements the durable log: flushes that stop half-way, metadata
\* that is lost, LSNs handed out twice, rotations of which any step fails and crashes
\* between any two disk operations never rewrite, renumber or lose an entry; on its own
\* account the log is cut at nothing but the oldest of more checkpoints than it keeps.
AsDurableLog == INSTANCE DurableLog WITH
  Kept <- MaxSnapshotLimit, checkpoints <- markers, durable <- committed,
  discarded <- released
ImplementsDurableLog == AsDurableLog!Spec

\* "Resume from last LSN + 1": a WAL with nothing buffered hands out as its next LSN
\* the only index the log will accept.
ResumesAfterLog ==
  up /\ pc = "idle" /\ Buffer = <<>> => currentLSN = LastIndex
==============================================================================

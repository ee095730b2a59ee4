------------------------------ MODULE WALProofs ------------------------------
(***************************************************************************)
(* What the write-ahead log keeps through crashes, restarts, failed writes *)
(* and rotations, whatever the batch size, the number of checkpoints kept, *)
(* the number of events and crashes, and whatever fails.                   *)
(***************************************************************************)
EXTENDS WAL, SequenceTheorems, FiniteSetTheorems, WellFoundedInduction, TLAPS

\* The entry can be read from the log at its LSN.
OnDisk(e) == first <= e.lsn /\ e.lsn <= LastIndex /\ log[e.lsn - first + 1] = e

\* tidwall/wal empties no log: only a new one has no entry, and it starts at 1.
EmptyLogIsNew == log = <<>> => first = 1

\* The entries that the flush under way has passed are in the log.
FlushProgress ==
  pc = "flush" => next <= Len(Buffer) + 1 /\ \A i \in 1..next - 1 : OnDisk(Buffer[i])

\* No operation is under way between two of them, nor in a closed WAL.
IdleIsNone == (pc = "idle" => op = "none") /\ (~up => pc = "idle")

\* No checkpoint is ahead of the log, a log that was not last cut by a caller of
\* TruncateBefore has a checkpoint at or after its front (a new one counts as cut by
\* the caller at 1), and a rotation has one checkpoint to spare.
MarkersInv ==
  /\ IsFiniteSet(markers)
  /\ \A m \in markers : m <= LastIndex
  /\ first = released \/ \E m \in markers : m >= first
  /\ pc \in {"truncate", "remove"} => Cardinality(markers) > MaxSnapshotLimit

\* The inductive invariant.
WALInv ==
  /\ TypeOK /\ EmptyLogIsNew /\ FlushedIsOnDisk
  /\ FlushProgress /\ CommittedSurvives
  /\ IdleIsNone /\ MarkersInv

-----------------------------------------------------------------------------
(* Facts about numbers, the log and the set of markers.                    *)

\* A set of LSNs that is not empty has a least one.
LEMMA LeastExists ==
  ASSUME NEW T \in SUBSET Nat, T # {}
  PROVE  \E x \in T : \A y \in T : x <= y
  <1> DEFINE R == {p \in Nat \X Nat : p[1] < p[2]}
  <1>1. IsWellFoundedOn(R, Nat)
    <2>1. R = OpToRel(<, Nat)
      BY DEF OpToRel
    <2> QED BY <2>1, NatLessThanWellFounded
  <1> HIDE DEF R
  <1>2. PICK x \in T : \A y \in T : ~(<<y, x>> \in R)
    BY <1>1, WFMin
  <1>3. \A y \in T : ~(y < x)
    <2> TAKE y \in T
    <2>1. x \in Nat /\ y \in Nat
      OBVIOUS
    <2>2. y < x => <<y, x>> \in R
      BY <2>1 DEF R
    <2> QED BY <1>2, <2>2
  <1> QED BY <1>3

\* A set of LSNs with an upper bound that is not empty has a greatest one.
LEMMA GreatestExists ==
  ASSUME NEW T \in SUBSET Nat, T # {}, NEW b \in Nat, \A x \in T : x <= b
  PROVE  \E x \in T : \A y \in T : x >= y
  <1> DEFINE U == {n \in Nat : \A y \in T : y <= n}
  <1>1. U \in SUBSET Nat /\ U # {}
    OBVIOUS
  <1>2. PICK u \in U : \A v \in U : u <= v
    BY <1>1, LeastExists
  <1>3. u \in Nat /\ \A y \in T : y <= u
    OBVIOUS
  <1>4. u \in T
    <2> SUFFICES ASSUME u \notin T PROVE FALSE
      OBVIOUS
    <2>1. \A y \in T : y < u
      BY <1>3
    <2>2. PICK y \in T : y < u
      BY <2>1
    <2>3. u - 1 \in Nat /\ \A z \in T : z <= u - 1
      BY <1>3, <2>1, <2>2
    <2> QED BY <1>2, <1>3, <2>3
  <1> QED BY <1>3, <1>4

\* The oldest marker is one that none precedes.
LEMMA OldestProperties ==
  ASSUME markers \subseteq Nat, markers # {}
  PROVE  Oldest \in markers /\ \A m \in markers : Oldest <= m
  <1>1. \E m \in markers : \A n \in markers : m <= n
    BY LeastExists
  <1> QED BY <1>1 DEF Oldest

\* The newest marker is one that none follows, when the log is ahead of them all.
LEMMA NewestProperties ==
  ASSUME markers \subseteq Nat, markers # {}, NEW b \in Nat, \A m \in markers : m <= b
  PROVE  Newest \in markers /\ \A m \in markers : Newest >= m
  <1>1. \E m \in markers : \A n \in markers : m >= n
    BY GreatestExists
  <1> QED BY <1>1 DEF Newest

\* The last index is a natural number, 0 for the log of a new directory.
LEMMA LastIndexType ==
  ASSUME TypeOK
  PROVE  LastIndex \in Nat /\ Len(log) \in Nat /\ first \in Nat /\ first >= 1
  BY DEF TypeOK, LastIndex

\* Write appends at the next index and disturbs no other entry.
LEMMA WriteExtendsLog ==
  ASSUME TypeOK, NEW e \in Entry, LogWrite(e), UNCHANGED first
  PROVE  /\ log' \in Seq(Entry) /\ log' # <<>>
         /\ LastIndex' = LastIndex + 1
         /\ OnDisk(e)'
         /\ \A d \in Entry : OnDisk(d) => OnDisk(d)'
         /\ CommittedSurvives /\ UNCHANGED committed => CommittedSurvives'
  <1>1. log \in Seq(Entry) /\ log' = Append(log, e) /\ e.lsn = LastIndex + 1 /\ e.lsn \in Nat
    BY DEF TypeOK, LogWrite, Entry
  <1>2. /\ log' \in Seq(Entry) /\ log' # <<>> /\ Len(log') = Len(log) + 1
        /\ \A i \in 1..Len(log) : log'[i] = log[i]
        /\ log'[Len(log) + 1] = e
    BY <1>1, AppendProperties
  <1>3. LastIndex' = LastIndex + 1
    BY <1>2, LastIndexType DEF LastIndex
  <1>4. OnDisk(e)'
    BY <1>1, <1>2, <1>3, LastIndexType DEF OnDisk, LastIndex
  <1>5. ASSUME NEW d \in Entry, first <= d.lsn, d.lsn <= LastIndex, log[d.lsn - first + 1] = d
        PROVE  first' <= d.lsn /\ d.lsn <= LastIndex' /\ log'[d.lsn - first' + 1] = d
    <2>1. d.lsn \in Nat
      BY DEF Entry
    <2>2. d.lsn - first + 1 \in 1..Len(log)
      BY <1>5, <2>1, LastIndexType DEF LastIndex
    <2> QED BY <1>2, <1>3, <1>5, <2>1, <2>2, LastIndexType
  <1>6. \A d \in Entry : OnDisk(d) => OnDisk(d)'
    BY <1>5 DEF OnDisk
  <1>7. ASSUME CommittedSurvives, UNCHANGED committed
        PROVE  CommittedSurvives'
    <2> SUFFICES ASSUME NEW d \in committed
                 PROVE  d.lsn < first \/ (d.lsn <= LastIndex' /\ log'[d.lsn - first' + 1] = d)
      BY <1>7 DEF CommittedSurvives
    <2>1. d \in Entry /\ d.lsn \in Nat /\ first \in Nat
      BY LastIndexType DEF TypeOK, Entry
    <2>2. CASE d.lsn < first
      BY <2>2
    <2>3. CASE ~(d.lsn < first)
      BY <1>5, <1>7, <2>1, <2>3 DEF CommittedSurvives
    <2> QED BY <2>2, <2>3
  <1> QED BY <1>2, <1>3, <1>4, <1>6, <1>7

\* TruncateFront keeps the end of the log, empties none, and what it keeps it
\* keeps at its index.
LEMMA TruncateKeepsTail ==
  ASSUME TypeOK, EmptyLogIsNew, CommittedSurvives,
         NEW lsn \in Nat, TruncateFront(lsn), UNCHANGED committed
  PROVE  /\ first' \in Nat \ {0} /\ log' \in Seq(Entry)
         /\ LastIndex' = LastIndex
         /\ EmptyLogIsNew' /\ CommittedSurvives'
         /\ first' = first \/ (first' = lsn /\ lsn <= LastIndex)
  <1>1. CASE UNCHANGED <<first, log>>
    BY <1>1 DEF TypeOK, LastIndex, EmptyLogIsNew, CommittedSurvives
  <1>2. CASE /\ lsn > FirstIndex /\ lsn <= LastIndex
             /\ first' = lsn /\ log' = SubSeq(log, lsn - first + 1, Len(log))
    <2> DEFINE k == lsn - first + 1
    <2>1. log # <<>>
      BY <1>2, LastIndexType DEF EmptyLogIsNew, LastIndex, FirstIndex
    <2>2. k \in 1..Len(log) /\ lsn > first
      BY <1>2, <2>1, LastIndexType DEF LastIndex, FirstIndex
    <2>3. log \in Seq(Entry) /\ \A i \in k..Len(log) : log[i] \in Entry
      BY <2>2 DEF TypeOK
    <2>4. /\ log' \in Seq(Entry)
          /\ Len(log') = Len(log) - k + 1
          /\ \A i \in 1..Len(log) - k + 1 : log'[i] = log[k + i - 1]
      BY <1>2, <2>2, <2>3, SubSeqProperties, LastIndexType, SMTT(30)
    <2> HIDE DEF k
    <2>5. LastIndex' = LastIndex
      BY <1>2, <2>2, <2>4, LastIndexType, SMTT(30) DEF LastIndex, k
    <2>6. log' # <<>>
      BY <2>2, <2>4, LastIndexType
    <2>7. CommittedSurvives'
      <3> SUFFICES ASSUME NEW d \in committed
                   PROVE  d.lsn < lsn \/ (d.lsn <= LastIndex /\ log'[d.lsn - lsn + 1] = d)
        BY <1>2, <2>5 DEF CommittedSurvives
      <3>1. d.lsn \in Nat
        BY DEF TypeOK, Entry
      <3>2. CASE d.lsn < lsn
        BY <3>2
      <3>3. CASE d.lsn >= lsn
        <4>1. d.lsn <= LastIndex /\ log[d.lsn - first + 1] = d
          BY <2>2, <3>1, <3>3, LastIndexType DEF CommittedSurvives
        <4>2. d.lsn - lsn + 1 \in 1..Len(log) - k + 1
          BY <2>2, <3>1, <3>3, <4>1, LastIndexType, SMTT(30) DEF LastIndex, k
        <4>3. log'[d.lsn - lsn + 1] = log[k + (d.lsn - lsn + 1) - 1]
          BY <2>4, <4>2
        <4>4. k + (d.lsn - lsn + 1) - 1 = d.lsn - first + 1
          BY <3>1, LastIndexType DEF k
        <4> QED BY <4>1, <4>3, <4>4
      <3> QED BY <3>1, <3>2, <3>3
    <2> QED BY <1>2, <2>2, <2>4, <2>5, <2>6, <2>7, LastIndexType, SMTT(30) DEF EmptyLogIsNew
  <1> QED BY <1>1, <1>2 DEF TruncateFront

\* One marker more or less leaves a finite set of them.
LEMMA MarkersFinite ==
  ASSUME IsFiniteSet(markers), NEW m
  PROVE  /\ IsFiniteSet(markers \cup {m}) /\ IsFiniteSet(markers \ {m})
         /\ Cardinality(markers) \in Nat
  BY FS_AddElement, FS_RemoveElement, FS_CardinalityType


-----------------------------------------------------------------------------
(* Every step keeps the inductive invariant.                               *)

\* A step that leaves the log alone leaves what is on disk there.
LEMMA LogUnchanged ==
  ASSUME UNCHANGED <<first, log>>
  PROVE  /\ LastIndex' = LastIndex
         /\ \A e : OnDisk(e)' <=> OnDisk(e)
         /\ EmptyLogIsNew => EmptyLogIsNew'
         /\ CommittedSurvives /\ UNCHANGED committed => CommittedSurvives'
  BY DEF LastIndex, OnDisk, EmptyLogIsNew, CommittedSurvives

\* A step outside of the rotation that changes neither the log nor the markers.
LEMMA MarkersUnchanged ==
  ASSUME MarkersInv, LastIndex' = LastIndex, UNCHANGED <<first, markers, released>>,
         pc' \in {"truncate", "remove"} => pc \in {"truncate", "remove"}
  PROVE  MarkersInv'
  BY DEF MarkersInv

\* The log of a new directory satisfies the inductive invariant.
LEMMA WALInit == Init => WALInv
  <1> SUFFICES ASSUME Init PROVE WALInv
    OBVIOUS
  <1>1. TypeOK
    BY DEF Init, TypeOK, Absent
  <1>2. Len(log) = 0 /\ LastIndex = 0
    BY DEF Init, LastIndex
  <1>3. EmptyLogIsNew /\ FlushedIsOnDisk /\ FlushProgress /\ CommittedSurvives /\ IdleIsNone
    BY <1>2 DEF Init, EmptyLogIsNew, FlushedIsOnDisk, FlushProgress, CommittedSurvives,
                IdleIsNone, Absent
  <1>4. MarkersInv
    BY FS_EmptySet DEF Init, MarkersInv
  <1> QED BY <1>1, <1>3, <1>4 DEF WALInv

\* WriteEvent appends to the buffer alone.
LEMMA WriteEventStep == WALInv /\ WriteEvent => WALInv'
  <1> SUFFICES ASSUME WALInv, WriteEvent PROVE WALInv'
    OBVIOUS
  <1> USE DEF WALInv
  <1>1. UNCHANGED <<first, log, meta, markers, up, lastFlushedLSN, committed, released, crashes>>
    BY DEF WriteEvent, diskVars
  <1>2. [lsn |-> currentLSN', event |-> submitted'] \in Entry
    BY DEF WriteEvent, TypeOK, Entry
  <1>3. Buffer' \in Seq(Entry)
    <2>1. Append(Buffer, [lsn |-> currentLSN', event |-> submitted']) \in Seq(Entry)
      BY <1>2, AppendProperties DEF TypeOK
    <2>2. CASE UNCHANGED Buffer
      BY <2>2 DEF TypeOK
    <2> QED BY <2>1, <2>2 DEF WriteEvent
  <1>4. TypeOK'
    BY <1>1, <1>3 DEF WriteEvent, TypeOK, StartFlush
  <1>5. FlushedIsOnDisk'
    BY <1>1, LogUnchanged DEF FlushedIsOnDisk
  <1>6. FlushProgress'
    BY <1>3 DEF WriteEvent, FlushProgress, StartFlush
  <1>7. IdleIsNone' /\ (pc' \in {"truncate", "remove"} => pc \in {"truncate", "remove"})
    BY DEF WriteEvent, IdleIsNone, StartFlush
  <1> QED BY <1>1, <1>4, <1>5, <1>6, <1>7, LogUnchanged, MarkersUnchanged

\* Flush, CreateCheckpoint and Close start a flush, or have nothing to flush.
LEMMA StartStep == WALInv /\ (Flush \/ CreateCheckpoint \/ Close) => WALInv'
  <1> SUFFICES ASSUME WALInv, Flush \/ CreateCheckpoint \/ Close PROVE WALInv'
    OBVIOUS
  <1> USE DEF WALInv
  <1>1. /\ UNCHANGED <<first, log, meta, markers, currentLSN, lastFlushedLSN, Buffer>>
        /\ UNCHANGED <<submitted, committed, released, crashes>>
    BY DEF Flush, CreateCheckpoint, Close, diskVars, histVars
  <1>2. TypeOK'
    <2>1. CASE Flush
      BY <1>1, <2>1 DEF Flush, TypeOK, StartFlush
    <2>2. CASE CreateCheckpoint
      BY <1>1, <2>2 DEF CreateCheckpoint, TypeOK, StartFlush
    <2>3. CASE Close
      <3>1. up' \in BOOLEAN
        BY <2>3 DEF Close, TypeOK
      <3>2. /\ pc' \in {pc, "flush"} /\ op' \in {op, "close"} /\ next' \in {next, 1}
        BY <2>3 DEF Close, StartFlush
      <3> QED BY <1>1, <3>1, <3>2 DEF TypeOK
    <2> QED BY <2>1, <2>2, <2>3
  <1>3. FlushedIsOnDisk'
    BY <1>1, LogUnchanged DEF FlushedIsOnDisk
  <1>4. FlushProgress'
    BY <1>1 DEF Flush, CreateCheckpoint, Close, FlushProgress, StartFlush, TypeOK
  <1>5. IdleIsNone' /\ (pc' \in {"truncate", "remove"} => pc \in {"truncate", "remove"})
    BY DEF Flush, CreateCheckpoint, Close, IdleIsNone, StartFlush
  <1> QED BY <1>1, <1>2, <1>3, <1>4, <1>5, LogUnchanged, MarkersUnchanged

\* FlushEntry writes the next entry at the next index, or gives up.
LEMMA FlushEntryStep == WALInv /\ FlushEntry => WALInv'
  <1> SUFFICES ASSUME WALInv, FlushEntry PROVE WALInv'
    OBVIOUS
  <1> USE DEF WALInv
  <1>1. /\ UNCHANGED <<first, meta, markers, up, currentLSN, Buffer>>
        /\ UNCHANGED <<submitted, committed, released, crashes>>
        /\ next \in 1..Len(Buffer) /\ pc = "flush"
    BY DEF FlushEntry, histVars, TypeOK
  <1>2. PICK e \in Entry : e = Buffer[next]
    BY <1>1, ElementOfSeq DEF TypeOK
  <1>5. e.lsn \in Nat
    BY DEF Entry
  <1>3. CASE /\ LogWrite(e) /\ next' = next + 1 /\ UNCHANGED <<pc, op>>
             /\ lastFlushedLSN' = IF e.lsn > lastFlushedLSN THEN e.lsn ELSE lastFlushedLSN
    <2>1. /\ log' \in Seq(Entry) /\ log' # <<>> /\ LastIndex' = LastIndex + 1
          /\ OnDisk(e)' /\ \A d \in Entry : OnDisk(d) => OnDisk(d)'
          /\ CommittedSurvives'
      BY <1>1, <1>3, WriteExtendsLog
    <2>2. TypeOK' /\ EmptyLogIsNew'
      BY <1>1, <1>3, <1>5, <2>1 DEF TypeOK, EmptyLogIsNew
    <2>3. FlushedIsOnDisk'
      BY <1>1, <1>3, <1>5, <2>1, LastIndexType DEF FlushedIsOnDisk, TypeOK, LogWrite
    <2>4. FlushProgress'
      <3>1. next' <= Len(Buffer') + 1
        BY <1>1, <1>3 DEF TypeOK
      <3>2. ASSUME NEW i \in 1..next' - 1 PROVE OnDisk(Buffer[i])'
        <4>1. i \in 1..next - 1 \/ i = next
          BY <1>1, <1>3, <3>2 DEF TypeOK
        <4>2. CASE i = next
          BY <1>1, <1>2, <2>1, <4>2 DEF OnDisk
        <4>3. CASE i \in 1..next - 1
          <5>1. Buffer[i] \in Entry
            BY <1>1, <4>3 DEF TypeOK
          <5>2. OnDisk(Buffer[i])
            BY <1>1, <4>3 DEF FlushProgress
          <5> QED BY <1>1, <2>1, <5>1, <5>2 DEF OnDisk
        <4> QED BY <4>1, <4>2, <4>3
      <3> QED BY <3>1, <3>2 DEF FlushProgress
    <2>5. MarkersInv' /\ IdleIsNone'
      BY <1>1, <1>3, <2>1, LastIndexType DEF MarkersInv, IdleIsNone, TypeOK
    <2> QED BY <2>1, <2>2, <2>3, <2>4, <2>5
  <1>4. CASE Return /\ UNCHANGED <<log, lastFlushedLSN>>
    <2>1. TypeOK' /\ FlushProgress' /\ IdleIsNone'
      BY <1>1, <1>4 DEF TypeOK, Return, FlushProgress, IdleIsNone
    <2>2. FlushedIsOnDisk'
      BY <1>1, <1>4, LogUnchanged DEF FlushedIsOnDisk
    <2>3. MarkersInv'
      BY <1>1, <1>4, LogUnchanged, MarkersUnchanged DEF Return
    <2> QED BY <1>1, <1>4, <2>1, <2>2, <2>3, LogUnchanged
  <1> QED BY <1>2, <1>3, <1>4 DEF FlushEntry

\* The buffer is dropped only when each of its entries is in the log.
LEMMA SaveTruncatesStep == WALInv /\ SaveTruncates => WALInv'
  <1> SUFFICES ASSUME WALInv, SaveTruncates PROVE WALInv'
    OBVIOUS
  <1> USE DEF WALInv
  <1>1. /\ UNCHANGED <<first, log, markers, up, currentLSN, lastFlushedLSN, submitted, crashes>>
        /\ UNCHANGED released
        /\ Buffer' = <<>> /\ pc = "flush" /\ next > Len(Buffer)
        /\ committed' = committed \cup Elems(Buffer)
        /\ meta' \in {meta, Corrupt} /\ pc' \in {"save", "idle"}
    BY DEF SaveTruncates, Return
  <1>2. Elems(Buffer) \subseteq Entry
    BY DEF Elems, TypeOK
  <1>3. TypeOK'
    BY <1>1, <1>2 DEF SaveTruncates, TypeOK, Corrupt, Return
  <1>4. FlushedIsOnDisk'
    BY <1>1, LogUnchanged, LastIndexType DEF FlushedIsOnDisk, Corrupt
  <1>5. CommittedSurvives'
    <2> SUFFICES ASSUME NEW d \in committed'
                 PROVE  d.lsn < first \/ (d.lsn <= LastIndex /\ log[d.lsn - first + 1] = d)
      BY <1>1, LogUnchanged DEF CommittedSurvives
    <2>1. CASE d \in committed
      BY <2>1 DEF CommittedSurvives
    <2>2. CASE d \in Elems(Buffer)
      <3>1. PICK i \in 1..Len(Buffer) : d = Buffer[i]
        BY <2>2 DEF Elems, TypeOK
      <3>2. i \in 1..next - 1
        BY <1>1 DEF TypeOK
      <3> QED BY <1>1, <3>1, <3>2 DEF FlushProgress, OnDisk
    <2> QED BY <1>1, <2>1, <2>2
  <1>6. FlushProgress' /\ IdleIsNone'
    BY <1>1 DEF FlushProgress, IdleIsNone, SaveTruncates, Return
  <1>7. MarkersInv'
    BY <1>1, LogUnchanged, MarkersUnchanged
  <1> QED BY <1>1, <1>3, <1>4, <1>5, <1>6, <1>7, LogUnchanged

\* saveLSN writes LSNs that are in the log.
LEMMA SaveWritesStep == WALInv /\ SaveWrites => WALInv'
  <1> SUFFICES ASSUME WALInv, SaveWrites PROVE WALInv'
    OBVIOUS
  <1> USE DEF WALInv
  <1>1. /\ UNCHANGED <<first, log, markers, currentLSN, lastFlushedLSN, Buffer>>
        /\ UNCHANGED <<submitted, committed, released, crashes>>
        /\ meta' = Saved(currentLSN, lastFlushedLSN)
        /\ pc' \in {"marker", "idle"}
    BY DEF SaveWrites, histVars, Return
  <1>2. TypeOK'
    BY <1>1 DEF SaveWrites, TypeOK, Saved, Return
  <1>3. FlushedIsOnDisk'
    BY <1>1, LogUnchanged DEF FlushedIsOnDisk, Saved
  <1>4. FlushProgress' /\ IdleIsNone'
    BY <1>1 DEF FlushProgress, IdleIsNone, SaveWrites, Return
  <1>5. MarkersInv'
    BY <1>1, LogUnchanged, MarkersUnchanged
  <1> QED BY <1>1, <1>2, <1>3, <1>4, <1>5, LogUnchanged

\* A new marker names an LSN of the log; rotation starts when there are too many.
LEMMA WriteMarkerStep == WALInv /\ WriteMarker => WALInv'
  <1> SUFFICES ASSUME WALInv, WriteMarker PROVE WALInv'
    OBVIOUS
  <1> USE DEF WALInv
  <1>1. /\ UNCHANGED <<first, log, meta, up, currentLSN, lastFlushedLSN, Buffer>>
        /\ UNCHANGED <<submitted, committed, released, crashes>>
        /\ markers' = markers \cup {lastFlushedLSN} \/ markers' = markers
        /\ pc' \in {"truncate", "idle"}
    BY DEF WriteMarker, histVars, Return
  <1>2. TypeOK'
    <2>1. markers' \subseteq Nat
      BY <1>1 DEF TypeOK
    <2>2. op' \in {op, "none"} /\ next' \in {next, 1}
      BY DEF WriteMarker, Return
    <2> QED BY <1>1, <2>1, <2>2 DEF TypeOK
  <1>3. FlushedIsOnDisk'
    BY <1>1, LogUnchanged DEF FlushedIsOnDisk
  <1>4. FlushProgress' /\ IdleIsNone'
    BY <1>1 DEF FlushProgress, IdleIsNone, WriteMarker, Return
  <1>5. MarkersInv'
    <2>1. IsFiniteSet(markers')
      BY <1>1, MarkersFinite DEF MarkersInv
    <2>2. \A m \in markers' : m <= LastIndex'
      BY <1>1, LogUnchanged DEF MarkersInv, FlushedIsOnDisk
    <2>3. first' = released' \/ \E m \in markers' : m >= first'
      BY <1>1 DEF MarkersInv
    <2>4. pc' = "truncate" => Cardinality(markers') > MaxSnapshotLimit
      BY DEF WriteMarker, Return
    <2> QED BY <1>1, <2>1, <2>2, <2>3, <2>4 DEF MarkersInv
  <1> QED BY <1>1, <1>2, <1>3, <1>4, <1>5, LogUnchanged

\* A cut keeps the end of the log, wherever it is made.
LEMMA CutFacts ==
  ASSUME WALInv, RotateTruncates \/ TruncateBefore
  PROVE  /\ UNCHANGED <<meta, markers, up, currentLSN, lastFlushedLSN, Buffer>>
         /\ UNCHANGED <<submitted, committed, crashes>>
         /\ pc' \in {"remove", "idle"} /\ (pc' = "remove" => pc = "truncate")
         /\ first' \in Nat \ {0} /\ log' \in Seq(Entry)
         /\ LastIndex' = LastIndex
         /\ EmptyLogIsNew' /\ CommittedSurvives'
         /\ TypeOK' /\ FlushedIsOnDisk' /\ FlushProgress' /\ IdleIsNone'
         /\ first' # first => first' \in 1..LastIndex
  <1> USE DEF WALInv
  <1>1. /\ UNCHANGED <<meta, markers, up, currentLSN, lastFlushedLSN, Buffer>>
        /\ UNCHANGED <<submitted, committed, crashes>>
        /\ pc' \in {"remove", "idle"} /\ (pc' = "remove" => pc = "truncate")
    BY DEF RotateTruncates, TruncateBefore, histVars, memVars, Return
  <1>2. \/ UNCHANGED <<first, log>>
        \/ \E lsn \in Nat : TruncateFront(lsn)
    <2>1. CASE RotateTruncates
      <3>1. markers # {}
        BY <2>1, WALAssumption, FS_EmptySet DEF RotateTruncates, MarkersInv
      <3>2. Oldest \in Nat
        BY <3>1, OldestProperties DEF TypeOK
      <3> QED BY <2>1, <3>2 DEF RotateTruncates
    <2>2. CASE TruncateBefore
      BY <2>2, LastIndexType DEF TruncateBefore
    <2> QED BY <2>1, <2>2
  <1>3. /\ first' \in Nat \ {0} /\ log' \in Seq(Entry)
        /\ LastIndex' = LastIndex
        /\ EmptyLogIsNew' /\ CommittedSurvives'
        /\ first' # first => first' \in 1..LastIndex
    <2>1. CASE UNCHANGED <<first, log>>
      BY <1>1, <2>1, LogUnchanged DEF TypeOK
    <2>2. ASSUME NEW lsn \in Nat, TruncateFront(lsn)
          PROVE  /\ first' \in Nat \ {0} /\ log' \in Seq(Entry)
                 /\ LastIndex' = LastIndex
                 /\ EmptyLogIsNew' /\ CommittedSurvives'
                 /\ first' # first => first' \in 1..LastIndex
      BY <1>1, <2>2, TruncateKeepsTail, LastIndexType
    <2> QED BY <1>2, <2>1, <2>2
  <1>4. TypeOK'
    <2>1. released' \in Nat
      BY <1>3 DEF RotateTruncates, TruncateBefore, TypeOK, histVars
    <2>2. pc' \in {"remove", "idle"} /\ op' \in {op, "none"} /\ next' \in {next, 1}
      BY DEF RotateTruncates, TruncateBefore, memVars, Return
    <2> QED BY <1>1, <1>3, <2>1, <2>2 DEF TypeOK
  <1>5. FlushedIsOnDisk' /\ FlushProgress'
    BY <1>1, <1>3 DEF FlushedIsOnDisk, FlushProgress
  <1>6. IdleIsNone'
    BY DEF IdleIsNone, RotateTruncates, TruncateBefore, memVars, Return
  <1> QED BY <1>1, <1>3, <1>4, <1>5, <1>6

\* A cut in a rotation keeps the oldest marker's entry; a cut by TruncateBefore is the
\* caller's.
LEMMA TruncateStep == WALInv /\ (RotateTruncates \/ TruncateBefore) => WALInv'
  <1> SUFFICES ASSUME WALInv, RotateTruncates \/ TruncateBefore PROVE WALInv'
    OBVIOUS
  <1>1. /\ UNCHANGED markers /\ LastIndex' = LastIndex /\ (pc' = "remove" => pc = "truncate")
        /\ pc' \in {"remove", "idle"}
    BY CutFacts
  <1>2. first' = released' \/ \E m \in markers : m >= first'
    <2>1. CASE first' = first
      <3>1. released' = released
        BY <2>1 DEF RotateTruncates, TruncateBefore, histVars
      <3> QED BY <2>1, <3>1 DEF WALInv, MarkersInv
    <2>2. CASE first' # first /\ TruncateBefore
      BY <2>2 DEF TruncateBefore
    <2>3. CASE first' # first /\ RotateTruncates
      <3>1. markers # {} /\ markers \subseteq Nat
        BY <2>3, WALAssumption, FS_EmptySet DEF RotateTruncates, WALInv, MarkersInv, TypeOK
      <3>2. Oldest \in markers /\ Oldest \in Nat
        BY <3>1, OldestProperties
      <3>3. first' = Oldest
        BY <2>3 DEF RotateTruncates, TruncateFront
      <3> QED BY <3>2, <3>3
    <2> QED BY <2>1, <2>2, <2>3
  <1>3. MarkersInv'
    BY <1>1, <1>2 DEF WALInv, MarkersInv
  <1> QED BY <1>3, CutFacts DEF WALInv

\* Rotation removes the oldest of two markers or more, or none.
LEMMA RotateRemovesStep == WALInv /\ RotateRemoves => WALInv'
  <1> SUFFICES ASSUME WALInv, RotateRemoves PROVE WALInv'
    OBVIOUS
  <1> USE DEF WALInv
  <1>1. /\ UNCHANGED <<first, log, meta, up, currentLSN, lastFlushedLSN, Buffer>>
        /\ UNCHANGED <<submitted, committed, released, crashes>>
        /\ (markers' = markers \ {Oldest} \/ markers' = markers) /\ pc = "remove"
        /\ pc' = "idle" /\ op' = "none" /\ next' = 1
    BY DEF RotateRemoves, histVars, Return
  <1>2. TypeOK' /\ FlushProgress' /\ IdleIsNone'
    <2>1. markers' \subseteq Nat
      BY <1>1 DEF TypeOK
    <2>2. TypeOK'
      BY <1>1, <2>1 DEF TypeOK
    <2> QED BY <1>1, <2>2 DEF FlushProgress, IdleIsNone
  <1>3. FlushedIsOnDisk'
    BY <1>1, LogUnchanged DEF FlushedIsOnDisk
  <1>4. IsFiniteSet(markers) /\ Cardinality(markers) >= 2 /\ Cardinality(markers) \in Nat
    <2>1. Cardinality(markers) > MaxSnapshotLimit /\ IsFiniteSet(markers)
      BY <1>1 DEF MarkersInv
    <2>2. Cardinality(markers) \in Nat
      BY <2>1, FS_CardinalityType
    <2> QED BY <2>1, <2>2, WALAssumption
  <1>5. markers # {}
    BY <1>4, FS_EmptySet
  <1>6. Oldest \in markers /\ \A m \in markers : Oldest <= m
    BY <1>5, OldestProperties DEF TypeOK
  <1>7. markers \ {Oldest} # {}
    <2>1. Cardinality(markers \ {Oldest}) = Cardinality(markers) - 1
      BY <1>4, <1>6, FS_RemoveElement
    <2> QED BY <1>4, <2>1, FS_EmptySet
  <1>8. MarkersInv'
    <2>1. IsFiniteSet(markers')
      BY <1>1, <1>4, MarkersFinite
    <2>2. \A m \in markers' : m <= LastIndex'
      BY <1>1, LogUnchanged DEF MarkersInv
    <2>3. first' = released' \/ \E m \in markers' : m >= first'
      <3> SUFFICES ASSUME first # released, markers' = markers \ {Oldest}
                   PROVE  \E m \in markers \ {Oldest} : m >= first
        BY <1>1 DEF MarkersInv
      <3>1. PICK m \in markers : m >= first
        BY DEF MarkersInv
      <3>2. PICK n \in markers \ {Oldest} : TRUE
        BY <1>7
      <3>3. n >= Oldest /\ n \in Nat /\ m \in Nat /\ first \in Nat
        BY <1>6 DEF TypeOK
      <3>4. CASE m = Oldest
        BY <3>1, <3>2, <3>3, <3>4
      <3>5. CASE m # Oldest
        BY <3>1, <3>5
      <3> QED BY <3>4, <3>5
    <2> QED BY <1>1, <2>1, <2>2, <2>3 DEF MarkersInv
  <1> QED BY <1>1, <1>2, <1>3, <1>8, LogUnchanged

\* A crash forgets the memory and a restart reads the metadata file.
LEMMA CrashStep == WALInv /\ (Crash \/ NewWAL) => WALInv'
  <1> SUFFICES ASSUME WALInv, Crash \/ NewWAL PROVE WALInv'
    OBVIOUS
  <1> USE DEF WALInv
  <1>1. /\ UNCHANGED <<first, log, meta, markers, submitted, committed, released>>
        /\ Buffer' = <<>>
        /\ pc' \in {pc, "idle"}
    BY DEF Crash, NewWAL, diskVars, histVars, Return
  <1>2. CASE Crash
    <2>1. /\ crashes' \in Nat /\ up' = FALSE /\ currentLSN' = 0 /\ lastFlushedLSN' = 0
          /\ pc' = "idle" /\ op' = "none" /\ next' = 1
      BY <1>2 DEF Crash, Return, TypeOK
    <2>3. TypeOK'
      <3>1. up' \in BOOLEAN
        BY <2>1
      <3>2. Buffer' \in Seq(Entry)
        BY <1>1, EmptySeq
      <3>3. currentLSN' \in Nat /\ lastFlushedLSN' \in Nat /\ next' \in Nat \ {0}
        BY <2>1
      <3> QED BY <1>1, <2>1, <3>1, <3>2, <3>3 DEF TypeOK
    <2>4. FlushProgress' /\ IdleIsNone'
      BY <2>1 DEF FlushProgress, IdleIsNone
    <2>2. FlushedIsOnDisk'
      BY <1>1, <1>2, LogUnchanged, LastIndexType DEF Crash, FlushedIsOnDisk
    <2> QED BY <1>1, <2>2, <2>3, <2>4, LogUnchanged, MarkersUnchanged
  <1>3. CASE NewWAL
    <2>1. meta.cur \in Nat /\ meta.flushed \in Nat
      BY DEF TypeOK
    <2>2. TypeOK' /\ IdleIsNone'
      BY <1>1, <1>3, <2>1 DEF NewWAL, TypeOK, IdleIsNone, histVars
    <2>3. FlushedIsOnDisk'
      BY <1>1, <1>3, LogUnchanged DEF NewWAL, FlushedIsOnDisk
    <2>4. FlushProgress'
      BY <1>1, <1>3 DEF NewWAL, FlushProgress, IdleIsNone
    <2> QED BY <1>1, <2>2, <2>3, <2>4, LogUnchanged, MarkersUnchanged
  <1> QED BY <1>2, <1>3

\* Every step keeps the inductive invariant.
LEMMA WALStep == WALInv /\ [Next]_vars => WALInv'
  <1> SUFFICES ASSUME WALInv, [Next]_vars PROVE WALInv'
    OBVIOUS
  <1>1. CASE UNCHANGED vars
    BY <1>1, LogUnchanged, MarkersUnchanged
       DEF vars, diskVars, memVars, histVars, WALInv, TypeOK, FlushedIsOnDisk, FlushProgress,
           IdleIsNone
  <1> QED BY <1>1, WriteEventStep, StartStep, FlushEntryStep, SaveTruncatesStep, SaveWritesStep,
             WriteMarkerStep, TruncateStep, RotateRemovesStep, CrashStep DEF Next

-----------------------------------------------------------------------------
(* The theorems.                                                           *)

\* The inductive invariant holds throughout.
LEMMA WALInvariant == Spec => []WALInv
  <1> QED BY WALInit, WALStep, PTL DEF Spec

\* The log, the metadata file and the fields of the WAL struct keep their types.
THEOREM TypeCorrect == Spec => []TypeOK
  <1>1. WALInv => TypeOK
    BY DEF WALInv
  <1> QED BY <1>1, WALInvariant, PTL

\* What flushBuffer drops from memory stays readable at its LSN through crashes,
\* restarts, failed flushes and LSN reuse, until a rotation or the caller cuts past it.
THEOREM Durable == Spec => []CommittedSurvives
  <1>1. WALInv => CommittedSurvives
    BY DEF WALInv
  <1> QED BY <1>1, WALInvariant, PTL

\* GetLastFlushedLSN and the metadata file never name an LSN that is not in the log.
THEOREM FlushedOnDisk == Spec => []FlushedIsOnDisk
  <1>1. WALInv => FlushedIsOnDisk
    BY DEF WALInv
  <1> QED BY <1>1, WALInvariant, PTL

\* The newest checkpoint can be read from the log, whatever crash interrupted the
\* flush, the marker or the rotation and whatever of them failed, unless a caller of
\* TruncateBefore has cut the log past it.
THEOREM NewestCheckpointReadable == Spec => []CheckpointReadable
  <1>1. WALInv => CheckpointReadable
    <2> SUFFICES ASSUME WALInv, markers # {}, Newest # 0
                 PROVE  Newest <= LastIndex /\ (first <= Newest \/ first = released)
      BY DEF CheckpointReadable
    <2>1. /\ TypeOK /\ markers \subseteq Nat /\ LastIndex \in Nat /\ first \in Nat
          /\ \A m \in markers : m <= LastIndex
      BY LastIndexType DEF WALInv, TypeOK, MarkersInv
    <2>2. Newest \in markers /\ \A m \in markers : Newest >= m
      BY <2>1, NewestProperties
    <2>3. CASE first # released
      <3>1. PICK m \in markers : m >= first
        BY <2>3 DEF WALInv, MarkersInv
      <3> QED BY <2>1, <2>2, <3>1
    <2> QED BY <2>1, <2>2, <2>3
  <1> QED BY <1>1, WALInvariant, PTL

\* Rotation cuts the log only when MaxSnapshotLimit checkpoints, and the one it is
\* about to remove, lie at or after the cut.
THEOREM RotationSafe == Spec => RotationKeepsCheckpoints
  <1> DEFINE Safe == first' # first /\ op = "checkpoint" =>
                       Cardinality({m \in markers : m >= first'}) > MaxSnapshotLimit
  <1>1. WALInv /\ [Next]_vars => Safe
    <2> SUFFICES ASSUME WALInv, [Next]_vars, first' # first, op = "checkpoint"
                 PROVE  Cardinality({m \in markers : m >= first'}) > MaxSnapshotLimit
      OBVIOUS
    <2>1. RotateTruncates
      <3>1. ~TruncateBefore
        BY DEF WALInv, IdleIsNone, TruncateBefore
      <3> QED BY <3>1 DEF Next, WriteEvent, Flush, CreateCheckpoint, Close, FlushEntry,
                 SaveTruncates, SaveWrites, WriteMarker, RotateRemoves, Crash, NewWAL,
                 vars, diskVars
    <2>2. Cardinality(markers) > MaxSnapshotLimit /\ IsFiniteSet(markers) /\ markers \subseteq Nat
      BY <2>1 DEF WALInv, MarkersInv, TypeOK, RotateTruncates
    <2>3. markers # {}
      BY <2>2, WALAssumption, FS_EmptySet
    <2>4. first' = Oldest
      BY <2>1 DEF RotateTruncates, TruncateFront
    <2>5. {m \in markers : m >= first'} = markers
      BY <2>2, <2>3, <2>4, OldestProperties
    <2> QED BY <2>2, <2>5
  <1>2. WALInv /\ [Next]_vars => [Safe]_vars
    BY <1>1
  <1> QED BY <1>2, WALInvariant, PTL DEF Spec, RotationKeepsCheckpoints

-----------------------------------------------------------------------------
(* The refinement of DurableLog.                                           *)

Promised == <<first, log, markers, committed, released>>

LEMMA ExtendStep ==
  ASSUME WALInv, FlushEntry
  PROVE  AsDurableLog!Extend \/ UNCHANGED Promised
  <1>1. UNCHANGED <<first, markers, committed, released>>
    BY DEF FlushEntry, histVars
  <1>2. CASE UNCHANGED log
    BY <1>1, <1>2 DEF Promised
  <1>3. CASE LogWrite(Buffer[next])
    <2>1. log \in Seq(Entry) /\ Buffer[next] \in Entry
      BY DEF WALInv, TypeOK, FlushEntry
    <2>2. log' = Append(log, Buffer[next]) /\ Buffer[next].lsn = LastIndex + 1
      BY <1>3 DEF LogWrite
    <2>3. Len(log') = Len(log) + 1 /\ log'[Len(log')] = Buffer[next]
      BY <2>1, <2>2, AppendProperties
    <2> QED BY <1>1, <2>2, <2>3 DEF AsDurableLog!Extend, AsDurableLog!LastIndex, LastIndex
  <1> QED BY <1>2, <1>3 DEF FlushEntry

LEMMA ReleaseStep ==
  ASSUME WALInv, SaveTruncates
  PROVE  AsDurableLog!Release
  <1>1. /\ pc = "flush" /\ next > Len(Buffer) /\ committed' = committed \cup Elems(Buffer)
        /\ UNCHANGED <<first, log, markers, released>>
    BY DEF SaveTruncates
  <1>2. Buffer \in Seq(Entry) /\ next \in Nat /\ next <= Len(Buffer) + 1
    BY <1>1 DEF WALInv, TypeOK, FlushProgress
  <1>3. next - 1 = Len(Buffer)
    BY <1>1, <1>2
  <1>4. \A e \in Elems(Buffer) : OnDisk(e)
    BY <1>1, <1>2, <1>3 DEF WALInv, FlushProgress, Elems
  <1>5. \A e \in committed' \ committed : OnDisk(e)
    BY <1>1, <1>4
  <1> QED BY <1>1, <1>5 DEF AsDurableLog!Release, AsDurableLog!Readable, AsDurableLog!LastIndex, OnDisk, LastIndex

LEMMA CheckpointStep ==
  ASSUME WALInv, WriteMarker
  PROVE  AsDurableLog!Checkpoint \/ UNCHANGED Promised
  <1>1. /\ UNCHANGED <<first, log, committed, released>>
        /\ markers' = markers \cup {lastFlushedLSN} \/ markers' = markers
    BY DEF WriteMarker, histVars
  <1>2. lastFlushedLSN \in 0..LastIndex
    BY LastIndexType DEF WALInv, TypeOK, FlushedIsOnDisk
  <1> QED BY <1>1, <1>2 DEF Promised, AsDurableLog!Checkpoint, AsDurableLog!LastIndex, LastIndex

\* A cut that changes the log, seen by DurableLog.
LEMMA CutIsCutAt ==
  ASSUME WALInv, NEW lsn \in Nat, TruncateFront(lsn)
  PROVE  AsDurableLog!CutAt(lsn) \/ UNCHANGED <<first, log>>
  <1>1. CASE /\ lsn > FirstIndex /\ lsn <= LastIndex
             /\ first' = lsn /\ log' = SubSeq(log, lsn - first + 1, Len(log))
    <2>1. TypeOK /\ EmptyLogIsNew
      BY DEF WALInv
    <2>2. log # <<>>
      BY <1>1, <2>1, LastIndexType DEF EmptyLogIsNew, LastIndex, FirstIndex
    <2>3. first < lsn
      BY <1>1, <2>1, <2>2, LastIndexType DEF FirstIndex
    <2> QED BY <1>1, <2>3 DEF AsDurableLog!CutAt, AsDurableLog!LastIndex, LastIndex
  <1> QED BY <1>1 DEF TruncateFront

\* While a rotation is under way its oldest marker is superfluous.
LEMMA OldestSuperfluous ==
  ASSUME WALInv, pc \in {"truncate", "remove"}
  PROVE  AsDurableLog!Superfluous(Oldest) /\ Oldest \in markers /\ Oldest \in Nat
  <1>1. Cardinality(markers) > MaxSnapshotLimit /\ markers \subseteq Nat
    BY DEF WALInv, TypeOK, MarkersInv
  <1>2. markers # {}
    BY <1>1, WALAssumption, FS_EmptySet
  <1>3. Oldest \in markers /\ \A m \in markers : Oldest <= m
    BY <1>1, <1>2, OldestProperties
  <1>4. AsDurableLog!Cardinality(markers) = Cardinality(markers)
    BY DEF AsDurableLog!Cardinality, Cardinality
  <1> QED BY <1>1, <1>3, <1>4 DEF AsDurableLog!Superfluous

LEMMA CutStep ==
  ASSUME WALInv, RotateTruncates
  PROVE  AsDurableLog!Cut \/ UNCHANGED Promised
  <1>1. UNCHANGED <<markers, committed, released>>
    BY DEF RotateTruncates, histVars
  <1>2. AsDurableLog!Superfluous(Oldest) /\ Oldest \in markers /\ Oldest \in Nat
    BY OldestSuperfluous DEF RotateTruncates
  <1>3. AsDurableLog!CutAt(Oldest) \/ UNCHANGED <<first, log>>
    BY <1>2, CutIsCutAt DEF RotateTruncates
  <1> QED BY <1>1, <1>2, <1>3 DEF AsDurableLog!Cut, Promised

LEMMA DiscardStep ==
  ASSUME WALInv, TruncateBefore
  PROVE  AsDurableLog!Discard \/ UNCHANGED Promised
  <1>1. /\ UNCHANGED <<markers, committed>>
        /\ released' = IF first' # first THEN first' ELSE released
    BY DEF TruncateBefore
  <1>2. PICK lsn \in Nat : TruncateFront(lsn)
    BY LastIndexType DEF TruncateBefore, WALInv
  <1>3. CASE UNCHANGED <<first, log>>
    BY <1>1, <1>3 DEF Promised
  <1>4. CASE AsDurableLog!CutAt(lsn)
    <2>1. first < lsn /\ lsn <= LastIndex /\ first' = lsn /\ first \in Nat /\ LastIndex \in Nat
      BY <1>4, LastIndexType DEF AsDurableLog!CutAt, AsDurableLog!LastIndex, LastIndex, WALInv
    <2>2. lsn \in 1..AsDurableLog!LastIndex /\ released' = lsn
      BY <1>1, <2>1 DEF AsDurableLog!LastIndex, LastIndex
    <2> QED BY <1>1, <1>4, <2>2 DEF AsDurableLog!Discard
  <1> QED BY <1>2, <1>3, <1>4, CutIsCutAt

LEMMA ForgetStep ==
  ASSUME WALInv, RotateRemoves
  PROVE  AsDurableLog!Forget \/ UNCHANGED Promised
  <1>1. AsDurableLog!Superfluous(Oldest) /\ Oldest \in markers
    BY OldestSuperfluous DEF RotateRemoves
  <1>2. UNCHANGED <<first, log, committed, released>>
    BY DEF RotateRemoves, histVars
  <1>3. markers' = markers \ {Oldest} \/ markers' = markers
    BY DEF RotateRemoves
  <1> QED BY <1>1, <1>2, <1>3 DEF AsDurableLog!Forget, Promised

LEMMA DurableStep == WALInv /\ [Next]_vars => [AsDurableLog!Next]_Promised
  <1> SUFFICES ASSUME WALInv, [Next]_vars PROVE AsDurableLog!Next \/ UNCHANGED Promised
    OBVIOUS
  <1>1. CASE FlushEntry
    BY <1>1, ExtendStep DEF AsDurableLog!Next
  <1>2. CASE SaveTruncates
    BY <1>2, ReleaseStep DEF AsDurableLog!Next
  <1>3. CASE WriteMarker
    BY <1>3, CheckpointStep DEF AsDurableLog!Next
  <1>4. CASE RotateTruncates
    BY <1>4, CutStep DEF AsDurableLog!Next
  <1>7. CASE TruncateBefore
    BY <1>7, DiscardStep DEF AsDurableLog!Next
  <1>5. CASE RotateRemoves
    BY <1>5, ForgetStep DEF AsDurableLog!Next
  <1>6. CASE \/ WriteEvent \/ Flush \/ CreateCheckpoint \/ Close \/ SaveWrites \/ Crash \/ NewWAL
             \/ UNCHANGED vars
    BY <1>6 DEF WriteEvent, Flush, CreateCheckpoint, Close, SaveWrites, Crash, NewWAL, vars, diskVars,
                histVars, Promised
  <1> QED BY <1>1, <1>2, <1>3, <1>4, <1>5, <1>6, <1>7 DEF Next

\* The write-ahead log implements DurableLog, for any batch size, number of checkpoints
\* kept, events, crashes and faults: flushBuffer's log writes extend it, the buffer is
\* dropped when all of it can be read, markers are checkpoints of what is in the log, a
\* rotation cuts at the oldest of more checkpoints than are kept and a caller where it
\* likes, and every other step, a crash, a failure and a restart with them, leaves the
\* promise alone.
THEOREM Refinement == Spec => ImplementsDurableLog
  <1>1. Init => AsDurableLog!Init
    BY DEF Init, AsDurableLog!Init
  <1> QED BY <1>1, DurableStep, WALInvariant, PTL
          DEF Spec, ImplementsDurableLog, AsDurableLog!Spec, Promised

==============================================================================

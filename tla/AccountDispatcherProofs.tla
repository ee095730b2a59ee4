----------------------- MODULE AccountDispatcherProofs -----------------------
(***************************************************************************)
(* What holds of an AccountSync session whatever the number of parents,    *)
(* workers, batches and retries, and whatever fails.                       *)
(***************************************************************************)
EXTENDS AccountDispatcher, SequenceTheorems, FiniteSetTheorems, TLAPS

\* A page built from a sequence of nonces is a page, and so is a retried one.
LEMMA PageType ==
  /\ NoPage \in Page
  /\ \A s \in Seq(Nat) : [nonces |-> s, retries |-> 0] \in Page
  /\ \A pg \in Page : pg.nonces \in Seq(Nat) /\ pg.retries \in 0..MaxRetries
  BY DispatcherAssumption DEF NoPage, Page

\* What Admit and FlushPage cut from a parent's nonces are sequences of nonces.
LEMMA SliceType ==
  ASSUME NEW s \in Seq(Nat), Len(s) >= PageSize
  PROVE  /\ SubSeq(s, 1, PageSize) \in Seq(Nat)
         /\ SubSeq(s, PageSize + 1, Len(s)) \in Seq(Nat)
  <1>1. PageSize \in Nat /\ PageSize >= 1 /\ Len(s) \in Nat
    BY DispatcherAssumption
  <1>2. \A m \in 1..Len(s)+1, n \in 0..Len(s) : SubSeq(s, m, n) \in Seq(Nat)
    BY SubSeqProperties
  <1> QED BY <1>1, <1>2

\* The nonces of a page are natural numbers.
LEMMA ElemsType ==
  ASSUME NEW s \in Seq(Nat)
  PROVE  Elems(s) \subseteq Nat /\ Len(s) \in Nat
  BY DEF Elems

\* HandleFailure keeps the worker's page and control well typed.
LEMMA HandleFailureType ==
  ASSUME TypeOK, NEW w \in Workers, HandleFailure(w)
  PROVE  wpage' \in [Workers -> Page] /\ wpc' \in [Workers -> WorkerPC]
  <1>1. MaxRetries \in Nat /\ wpage[w] \in Page /\ wpage[w].retries \in 0..MaxRetries
    BY DispatcherAssumption, PageType DEF TypeOK
  <1>2. CASE wpage[w].retries < MaxRetries
    <2>1. [wpage[w] EXCEPT !.retries = @ + 1] \in Page
      BY <1>1, <1>2 DEF Page
    <2> QED BY <1>2, <2>1 DEF HandleFailure, WorkerGoto, TypeOK, WorkerPC
  <1>3. CASE ~(wpage[w].retries < MaxRetries)
    BY <1>3 DEF HandleFailure, WorkerGoto, TypeOK, WorkerPC
  <1> QED BY <1>2, <1>3

\* Admit keeps the parent's page and control and the counter well typed.
LEMMA AdmitType ==
  ASSUME TypeOK, NEW p \in Parents, NEW s \in Seq(Nat), NEW next \in ParentPC,
         Admit(p, s, next)
  PROVE  /\ ppage' \in [Parents -> Page]
         /\ inflight' \in Int
         /\ ppc' \in [Parents -> ParentPC]
  <1>1. [nonces |-> s, retries |-> 0] \in Page
    BY PageType
  <1> QED BY <1>1 DEF Admit, ParentGoto, TypeOK

\* The initial state is well typed: New starts with empty buffers and counters.
LEMMA InitTypeOK == Init => TypeOK
  <1> SUFFICES ASSUME Init PROVE TypeOK
    OBVIOUS
  <1>1. Batches \in Seq(Seq(Nat)) /\ NoPage \in Page
    BY DispatcherAssumption, PageType
  <1>2. <<>> \in Seq(Page) /\ <<>> \in Seq(Nat)
    BY EmptySeq
  <1>3. /\ ppc \in [Parents -> ParentPC] /\ localNonces \in [Parents -> Seq(Nat)]
        /\ ppage \in [Parents -> Page] /\ perr \in [Parents -> BOOLEAN]
    BY <1>1, <1>2 DEF Init, ParentPC
  <1>4. /\ wpc \in [Workers -> WorkerPC] /\ wpage \in [Workers -> Page]
        /\ stream \in [Workers -> BOOLEAN]
    BY <1>1 DEF Init, WorkerPC
  <1>5. nonceChan \in Seq(Page) /\ work \in Seq(Seq(Nat))
    BY <1>1, <1>2 DEF Init
  <1>6. /\ nonceBufferCount \in Int /\ inflight \in Int /\ deliveredAccounts \in Nat
        /\ pauseMu \in Parents \cup {"free"}
        /\ spc \in {"diff", "close", "summary", "ended"}
    BY DEF Init
  <1>7. /\ waiters \subseteq Parents /\ watchers \subseteq Parents /\ delivered \subseteq Nat
        /\ deadLetters \subseteq Page /\ clientHas \subseteq Nat
    BY DEF Init
  <1>8. /\ inputClosed \in BOOLEAN /\ done \in BOOLEAN /\ ctxDone \in BOOLEAN
        /\ iterErr \in BOOLEAN /\ diffErr \in BOOLEAN
    BY DEF Init
  <1> QED BY <1>3, <1>4, <1>5, <1>6, <1>7, <1>8 DEF TypeOK

\* Every step of a diff parent keeps the types.
LEMMA ParentTypeOK ==
  ASSUME TypeOK, NEW p \in Parents, Parent(p)
  PROVE  TypeOK'
  <1> USE DEF TypeOK, ParentPC, ParentGoto
  <1>1. CASE GateFast(p)
    BY <1>1 DEF GateFast, bufferVars, workerVars, resultVars, sessionVars
  <1>2. CASE GateCheck(p)
    BY <1>2 DEF GateCheck, bufferVars, workerVars, resultVars, sessionVars
  <1>3. CASE GateWait(p)
    BY <1>3 DEF GateWait, bufferVars, workerVars, resultVars, sessionVars
  <1>4. CASE WatcherFires(p)
    BY <1>4 DEF WatcherFires, bufferVars, parentVars, workerVars, resultVars, sessionVars
  <1>5. CASE PullBatch(p)
    <2>1. work # <<>> => Tail(work) \in Seq(Seq(Nat)) /\ Head(work) \in Seq(Nat)
      BY HeadTailProperties
    <2>2. work # <<>> => localNonces[p] \o Head(work) \in Seq(Nat)
      BY <2>1, ConcatProperties
    <2> QED
      BY <1>5, <2>1, <2>2, ZenonT(60)
      DEF PullBatch, bufferVars, gateVars, workerVars, resultVars, sessionVars
  <1>6. CASE FlushPage(p)
    <2>1. CASE Len(localNonces[p]) >= PageSize
      <3>1. /\ SubSeq(localNonces[p], 1, PageSize) \in Seq(Nat)
            /\ SubSeq(localNonces[p], PageSize + 1, Len(localNonces[p])) \in Seq(Nat)
        BY <2>1, SliceType
      <3>2. Admit(p, SubSeq(localNonces[p], 1, PageSize), "sendFlush")
        BY <1>6, <2>1 DEF FlushPage
      <3>3. localNonces' \in [Parents -> Seq(Nat)]
        BY <1>6, <2>1, <3>1 DEF FlushPage
      <3> QED
        BY <1>6, <3>1, <3>2, <3>3, AdmitType
        DEF FlushPage, gateVars, workerVars, resultVars, sessionVars
    <2>2. CASE ~(Len(localNonces[p]) >= PageSize)
      BY <1>6, <2>2 DEF FlushPage, gateVars, workerVars, resultVars, sessionVars
    <2> QED BY <2>1, <2>2
  <1>7. CASE FlushFinal(p)
    <2>1. CASE localNonces[p] # <<>>
      <3>1. Admit(p, localNonces[p], "sendFinal")
        BY <1>7, <2>1 DEF FlushFinal
      <3>2. localNonces' \in [Parents -> Seq(Nat)]
        BY <1>7, <2>1, EmptySeq, ZenonT(60) DEF FlushFinal
      <3> QED
        BY <1>7, <3>1, <3>2, AdmitType
        DEF FlushFinal, gateVars, workerVars, resultVars, sessionVars
    <2>2. CASE localNonces[p] = <<>>
      BY <1>7, <2>2 DEF FlushFinal, gateVars, workerVars, resultVars, sessionVars
    <2> QED BY <2>1, <2>2
  <1>8. CASE Abort(p)
    <2>1. CASE localNonces[p] # <<>>
      <3>1. Admit(p, localNonces[p], "sendFinal")
        BY <1>8, <2>1 DEF Abort
      <3>2. localNonces' \in [Parents -> Seq(Nat)]
        BY <1>8, <2>1, EmptySeq, ZenonT(60) DEF Abort
      <3> QED
        BY <1>8, <3>1, <3>2, AdmitType
        DEF Abort, gateVars, workerVars, resultVars, sessionVars
    <2>2. CASE localNonces[p] = <<>>
      BY <1>8, <2>2 DEF Abort, gateVars, workerVars, resultVars, sessionVars
    <2> QED BY <2>1, <2>2
  <1>9. CASE EnqueueSend(p)
    <2>1. Append(nonceChan, ppage[p]) \in Seq(Page)
      OBVIOUS
    <2> QED
      BY <1>9, <2>1 DEF EnqueueSend, gateVars, workerVars, resultVars, sessionVars
  <1>10. CASE EnqueueCount(p)
    <2>1. Len(ppage[p].nonces) \in Nat
      BY PageType, ElemsType
    <2> QED
      BY <1>10, <2>1, PageType
      DEF EnqueueCount, gateVars, workerVars, resultVars, sessionVars
  <1>11. CASE EnqueueCancelled(p)
    BY <1>11, PageType
    DEF EnqueueCancelled, Sending, gateVars, workerVars, resultVars, sessionVars
  <1>12. CASE ParentTryClose(p)
    BY <1>12
    DEF ParentTryClose, TryCloseDone, bufferVars, gateVars, workerVars, resultVars
  <1> QED
    BY <1>1, <1>2, <1>3, <1>4, <1>5, <1>6, <1>7, <1>8, <1>9, <1>10, <1>11, <1>12
    DEF Parent

\* Every step of a dispatch worker keeps the types.
LEMMA WorkerTypeOK ==
  ASSUME TypeOK, NEW w \in Workers, Worker(w)
  PROVE  TypeOK'
  <1> USE DEF TypeOK, WorkerPC, WorkerGoto
  <1>a. /\ wpage[w] \in Page /\ wpage[w].nonces \in Seq(Nat)
        /\ Len(wpage[w].nonces) \in Nat /\ Elems(wpage[w].nonces) \subseteq Nat
    BY PageType, ElemsType
  <1>1. CASE TakePage(w)
    <2>1. Tail(nonceChan) \in Seq(Page) /\ Head(nonceChan) \in Page
      BY <1>1, HeadTailProperties DEF TakePage
    <2> QED
      BY <1>1, <2>1 DEF TakePage, gateVars, parentVars, resultVars, sessionVars
  <1>2. CASE WorkerExit(w)
    BY <1>2 DEF WorkerExit, bufferVars, gateVars, parentVars, resultVars, sessionVars
  <1>3. CASE OpenStream(w)
    <2>1. stream' \in [Workers -> BOOLEAN]
      BY <1>3 DEF OpenStream
    <2>2. wpage' \in [Workers -> Page] /\ wpc' \in [Workers -> WorkerPC]
      <3>1. CASE HandleFailure(w)
        BY <3>1, HandleFailureType
      <3>2. CASE ~HandleFailure(w)
        BY <1>3, <3>2 DEF OpenStream
      <3> QED BY <3>1, <3>2
    <2> QED
      BY <1>3, <2>1, <2>2
      DEF OpenStream, bufferVars, gateVars, parentVars, resultVars, sessionVars
  <1>4. CASE ProcessPage(w)
    BY <1>4, <1>a DEF ProcessPage, gateVars, parentVars, resultVars, sessionVars
  <1>5. CASE BroadcastResume(w)
    BY <1>5 DEF BroadcastResume, bufferVars, parentVars, resultVars, sessionVars
  <1>6. CASE FetchAccounts(w)
    <2>1. wpage' \in [Workers -> Page] /\ wpc' \in [Workers -> WorkerPC]
      <3>1. CASE HandleFailure(w)
        BY <3>1, HandleFailureType
      <3>2. CASE ~HandleFailure(w)
        BY <1>6, <3>2 DEF FetchAccounts
      <3> QED BY <3>1, <3>2
    <2> QED
      BY <1>6, <2>1
      DEF FetchAccounts, bufferVars, gateVars, parentVars, resultVars, sessionVars
  <1>7. CASE SendPage(w)
    <2>1. /\ delivered' \subseteq Nat
          /\ deliveredAccounts' \in Nat
          /\ clientHas' \subseteq Nat
          /\ inflight' \in Int
          /\ stream' \in [Workers -> BOOLEAN]
      <3>1. delivered' \subseteq Nat
        BY <1>7, <1>a DEF SendPage
      <3>2. clientHas' \subseteq Nat
        BY <1>7, <1>a DEF SendPage, ClientPage
      <3>3. deliveredAccounts' \in Nat /\ inflight' \in Int
        <4>1. /\ \/ deliveredAccounts' = deliveredAccounts + Len(wpage[w].nonces)
                 \/ deliveredAccounts' = deliveredAccounts
              /\ inflight' = inflight - 1 \/ inflight' = inflight
          BY <1>7 DEF SendPage
        <4> QED BY <4>1, <1>a
      <3>4. stream' \in [Workers -> BOOLEAN]
        BY <1>7 DEF SendPage
      <3> QED BY <3>1, <3>2, <3>3, <3>4
    <2>2. wpage' \in [Workers -> Page] /\ wpc' \in [Workers -> WorkerPC]
      <3>1. CASE HandleFailure(w)
        BY <3>1, HandleFailureType
      <3>2. CASE wpage' = [wpage EXCEPT ![w] = NoPage] /\ WorkerGoto(w, "tryClose")
        BY <3>2, PageType
      <3> QED BY <1>7, <3>1, <3>2 DEF SendPage
    <2> QED
      BY <1>7, <2>1, <2>2 DEF SendPage, gateVars, parentVars, sessionVars
  <1>8. CASE Requeue(w)
    <2>1. Append(nonceChan, wpage[w]) \in Seq(Page)
      BY <1>a
    <2> QED
      BY <1>8, <2>1 DEF Requeue, gateVars, parentVars, resultVars, sessionVars
  <1>9. CASE Recount(w)
    BY <1>9, <1>a, PageType DEF Recount, gateVars, parentVars, resultVars, sessionVars
  <1>10. CASE DeadLetter(w)
    BY <1>10, <1>a, PageType DEF DeadLetter, gateVars, parentVars, sessionVars
  <1>11. CASE WorkerTryClose(w)
    BY <1>11
    DEF WorkerTryClose, TryCloseDone, bufferVars, gateVars, parentVars, resultVars
  <1> QED
    BY <1>1, <1>2, <1>3, <1>4, <1>5, <1>6, <1>7, <1>8, <1>9, <1>10, <1>11 DEF Worker

\* Every step of the session goroutine keeps the types.
LEMMA SessionTypeOK ==
  ASSUME TypeOK, Session \/ IteratorStops \/ Cancel
  PROVE  TypeOK'
  <1> USE DEF TypeOK
  <1>1. CASE CloseInput
    BY <1>1 DEF CloseInput, bufferVars, gateVars, parentVars, workerVars, resultVars
  <1>2. CASE CloseInputSignals
    BY <1>2
    DEF CloseInputSignals, TryCloseDone, bufferVars, parentVars, workerVars, resultVars
  <1>3. CASE RunReturns
    BY <1>3 DEF RunReturns, bufferVars, gateVars, parentVars, workerVars, resultVars
  <1>4. CASE IteratorStops
    <2>1. \A n \in 0..Len(work) : SubSeq(work, 1, n) \in Seq(Seq(Nat))
      BY SubSeqProperties
    <2> QED
      BY <1>4, <2>1 DEF IteratorStops, bufferVars, gateVars, workerVars, resultVars
  <1>5. CASE Cancel
    BY <1>5 DEF Cancel, bufferVars, gateVars, parentVars, workerVars, resultVars
  <1> QED BY <1>1, <1>2, <1>3, <1>4, <1>5 DEF Session

\* Every step keeps the types.
LEMMA NextTypeOK == TypeOK /\ [Next]_vars => TypeOK'
  <1> SUFFICES ASSUME TypeOK, [Next]_vars PROVE TypeOK'
    OBVIOUS
  <1>1. CASE UNCHANGED vars
    BY <1>1
    DEF TypeOK, vars, bufferVars, gateVars, parentVars, workerVars, resultVars, sessionVars
  <1> QED
    BY <1>1, ParentTypeOK, WorkerTypeOK, SessionTypeOK DEF Next, Ended

\* Every variable keeps the type the Go code declares for it, and no page is
\* retried more than DispatchMaxRetries times, through every path of
\* handleFailure.
THEOREM TypeCorrect == Spec => []TypeOK
  BY InitTypeOK, NextTypeOK, PTL DEF Spec

-----------------------------------------------------------------------------
(* The page count.  InflightExact alone is inductive for the pages; that     *)
(* `done` is not closed early also needs that no parent can admit a page     *)
(* once the input is closed.                                                 *)

InputClosedLast ==
  /\ inputClosed <=> spc # "diff"
  /\ inputClosed => \A p \in Parents : ppc[p] = "exited"

DoneAtZero == done => inputClosed /\ inflight = 0

IInv == TypeOK /\ InflightExact /\ InputClosedLast /\ DoneAtZero

SendPC == {"sendFlush", "sendFinal"}
HoldPC == {"open", "process", "broadcast", "fetch", "send", "requeue", "dead"}

\* The two finite sets of page owners, and how their sizes follow a control move.
LEMMA OwnersFinite ==
  /\ IsFiniteSet(Admitting) /\ Cardinality(Admitting) \in Nat
  /\ IsFiniteSet(Holding) /\ Cardinality(Holding) \in Nat
  <1>1. Admitting \subseteq Parents /\ Holding \subseteq Workers
    BY DEF Admitting, Holding
  <1>2. IsFiniteSet(Admitting) /\ IsFiniteSet(Holding)
    BY <1>1, DispatcherAssumption, FS_Subset
  <1> QED BY <1>2, FS_CardinalityType

\* Moving one parent's control changes the number of admitting parents by that parent.
LEMMA AdmittingMove ==
  ASSUME TypeOK, NEW p \in Parents, NEW pc, ParentGoto(p, pc)
  PROVE  Cardinality(Admitting') = Cardinality(Admitting)
           + (IF pc \in SendPC THEN 1 ELSE 0) - (IF ppc[p] \in SendPC THEN 1 ELSE 0)
  <1>1. Admitting' = IF pc \in SendPC THEN Admitting \cup {p} ELSE Admitting \ {p}
    BY DEF ParentGoto, TypeOK, Admitting, Sending, SendPC
  <1>2. p \in Admitting <=> ppc[p] \in SendPC
    BY DEF Admitting, Sending, SendPC
  <1>3. Cardinality(Admitting \cup {p})
          = IF p \in Admitting THEN Cardinality(Admitting) ELSE Cardinality(Admitting) + 1
    BY OwnersFinite, FS_AddElement
  <1>4. Cardinality(Admitting \ {p})
          = IF p \in Admitting THEN Cardinality(Admitting) - 1 ELSE Cardinality(Admitting)
    BY OwnersFinite, FS_RemoveElement
  <1> QED BY <1>1, <1>2, <1>3, <1>4, OwnersFinite

\* Moving one worker's control changes the number of page holders by that worker.
LEMMA HoldingMove ==
  ASSUME TypeOK, NEW w \in Workers, NEW pc, WorkerGoto(w, pc)
  PROVE  Cardinality(Holding') = Cardinality(Holding)
           + (IF pc \in HoldPC THEN 1 ELSE 0) - (IF wpc[w] \in HoldPC THEN 1 ELSE 0)
  <1>1. Holding' = IF pc \in HoldPC THEN Holding \cup {w} ELSE Holding \ {w}
    BY DEF WorkerGoto, TypeOK, Holding, HoldPC
  <1>2. w \in Holding <=> wpc[w] \in HoldPC
    BY DEF Holding, HoldPC
  <1>3. Cardinality(Holding \cup {w})
          = IF w \in Holding THEN Cardinality(Holding) ELSE Cardinality(Holding) + 1
    BY OwnersFinite, FS_AddElement
  <1>4. Cardinality(Holding \ {w})
          = IF w \in Holding THEN Cardinality(Holding) - 1 ELSE Cardinality(Holding)
    BY OwnersFinite, FS_RemoveElement
  <1> QED BY <1>1, <1>2, <1>3, <1>4, OwnersFinite

\* The same when the control of the parents, or of the workers, does not move.
LEMMA OwnersStay ==
  /\ ppc' = ppc => Cardinality(Admitting') = Cardinality(Admitting)
  /\ wpc' = wpc => Cardinality(Holding') = Cardinality(Holding)
  <1>1. ppc' = ppc => Admitting' = Admitting
    BY DEF Admitting, Sending
  <1>2. wpc' = wpc => Holding' = Holding
    BY DEF Holding
  <1> QED BY <1>1, <1>2

\* A parent that moves between states which own no page, or keep their page.
LEMMA ParentInflight ==
  ASSUME TypeOK, InflightExact, NEW p \in Parents, Parent(p)
  PROVE  InflightExact'
  <1> USE OwnersFinite, OwnersStay DEF InflightExact
  <1>a. Len(nonceChan) \in Nat /\ inflight \in Int
    BY DEF TypeOK
  <1>w. wpc' = wpc
    BY DEF Parent, GateFast, GateCheck, GateWait, WatcherFires, PullBatch, FlushPage,
           FlushFinal, Abort, EnqueueSend, EnqueueCount, EnqueueCancelled,
           ParentTryClose, workerVars
  <1>1. CASE GateFast(p) \/ GateCheck(p) \/ GateWait(p) \/ PullBatch(p)
             \/ EnqueueCount(p) \/ ParentTryClose(p)
    <2>1. nonceChan' = nonceChan /\ inflight' = inflight
      BY <1>1 DEF GateFast, GateCheck, GateWait, PullBatch, EnqueueCount,
                  ParentTryClose, bufferVars
    <2>2. \E pc : ParentGoto(p, pc) /\ pc \notin SendPC
      <3>1. \/ ParentGoto(p, "pull") \/ ParentGoto(p, "locking") \/ ParentGoto(p, "entering")
            \/ ParentGoto(p, "abort") \/ ParentGoto(p, "waiting") \/ ParentGoto(p, "flush")
            \/ ParentGoto(p, "final") \/ ParentGoto(p, "exited")
        BY <1>1 DEF GateFast, GateCheck, GateWait, PullBatch, EnqueueCount, ParentTryClose
      <3> QED BY <3>1 DEF SendPC
    <2>3. ppc[p] \notin SendPC
      BY <1>1 DEF GateFast, GateCheck, GateWait, PullBatch, EnqueueCount,
                  ParentTryClose, SendPC
    <2> QED BY <1>a, <1>w, <2>1, <2>2, <2>3, AdmittingMove
  <1>2. CASE WatcherFires(p)
    BY <1>2, <1>w DEF WatcherFires, bufferVars, parentVars
  <1>3. CASE FlushPage(p) \/ FlushFinal(p) \/ Abort(p)
    <2>1. nonceChan' = nonceChan /\ ppc[p] \notin SendPC
      BY <1>3 DEF FlushPage, FlushFinal, Abort, SendPC
    <2>2. \/ inflight' = inflight + 1 /\ \E pc : ParentGoto(p, pc) /\ pc \in SendPC
          \/ inflight' = inflight /\ \E pc : ParentGoto(p, pc) /\ pc \notin SendPC
      BY <1>3 DEF FlushPage, FlushFinal, Abort, Admit, SendPC
    <2> QED BY <1>a, <1>w, <2>1, <2>2, AdmittingMove
  <1>4. CASE EnqueueSend(p)
    <2>1. inflight' = inflight /\ Len(nonceChan') = Len(nonceChan) + 1
      BY <1>4 DEF EnqueueSend, TypeOK
    <2>2. ppc[p] \in SendPC /\ \E pc : ParentGoto(p, pc) /\ pc \notin SendPC
      BY <1>4 DEF EnqueueSend, Sending, SendPC
    <2> QED BY <1>a, <1>w, <2>1, <2>2, AdmittingMove
  <1>5. CASE EnqueueCancelled(p)
    <2>1. inflight' = inflight - 1 /\ nonceChan' = nonceChan
      BY <1>5 DEF EnqueueCancelled
    <2>2. ppc[p] \in SendPC /\ \E pc : ParentGoto(p, pc) /\ pc \notin SendPC
      BY <1>5 DEF EnqueueCancelled, Sending, SendPC
    <2> QED BY <1>a, <1>w, <2>1, <2>2, AdmittingMove
  <1> QED BY <1>1, <1>2, <1>3, <1>4, <1>5 DEF Parent

\* A worker takes a page out of the channel, keeps it, puts it back or finalises it.
LEMMA WorkerInflight ==
  ASSUME TypeOK, InflightExact, NEW w \in Workers, Worker(w)
  PROVE  InflightExact' /\ (inflight' # inflight => wpc[w] \in HoldPC)
  <1> USE OwnersFinite, OwnersStay DEF InflightExact
  <1>a. Len(nonceChan) \in Nat /\ inflight \in Int
    BY DEF TypeOK
  <1>p. ppc' = ppc
    BY DEF Worker, TakePage, WorkerExit, OpenStream, ProcessPage, BroadcastResume,
           FetchAccounts, SendPage, Requeue, Recount, DeadLetter, WorkerTryClose,
           parentVars
  <1>1. CASE WorkerExit(w) \/ Recount(w) \/ WorkerTryClose(w)
    <2>1. nonceChan' = nonceChan /\ inflight' = inflight /\ wpc[w] \notin HoldPC
      BY <1>1 DEF WorkerExit, Recount, WorkerTryClose, bufferVars, HoldPC
    <2>2. \E pc : WorkerGoto(w, pc) /\ pc \notin HoldPC
      BY <1>1 DEF WorkerExit, Recount, WorkerTryClose, HoldPC
    <2> QED BY <1>a, <1>p, <2>1, <2>2, HoldingMove
  <1>2. CASE OpenStream(w) \/ ProcessPage(w) \/ BroadcastResume(w) \/ FetchAccounts(w)
    <2>1. nonceChan' = nonceChan /\ inflight' = inflight /\ wpc[w] \in HoldPC
      BY <1>2 DEF OpenStream, ProcessPage, BroadcastResume, FetchAccounts, bufferVars,
                  HoldPC
    <2>2. \E pc : WorkerGoto(w, pc) /\ pc \in HoldPC
      BY <1>2 DEF OpenStream, ProcessPage, BroadcastResume, FetchAccounts,
                  HandleFailure, HoldPC
    <2> QED BY <1>a, <1>p, <2>1, <2>2, HoldingMove
  <1>3. CASE TakePage(w)
    <2>1. inflight' = inflight /\ Len(nonceChan') = Len(nonceChan) - 1
      BY <1>3, HeadTailProperties DEF TakePage, TypeOK
    <2>2. wpc[w] \notin HoldPC /\ \E pc : WorkerGoto(w, pc) /\ pc \in HoldPC
      BY <1>3 DEF TakePage, HoldPC
    <2> QED BY <1>a, <1>p, <2>1, <2>2, HoldingMove
  <1>4. CASE SendPage(w) \/ DeadLetter(w)
    <2>1. nonceChan' = nonceChan /\ wpc[w] \in HoldPC
      BY <1>4 DEF SendPage, DeadLetter, HoldPC
    <2>2. \/ inflight' = inflight - 1 /\ \E pc : WorkerGoto(w, pc) /\ pc \notin HoldPC
          \/ inflight' = inflight /\ \E pc : WorkerGoto(w, pc) /\ pc \in HoldPC
      <3>1. \/ inflight' = inflight - 1 /\ WorkerGoto(w, "tryClose")
            \/ inflight' = inflight /\ (WorkerGoto(w, "requeue") \/ WorkerGoto(w, "dead"))
        BY <1>4 DEF SendPage, DeadLetter, HandleFailure
      <3> QED BY <3>1 DEF HoldPC
    <2> QED BY <1>a, <1>p, <2>1, <2>2, HoldingMove
  <1>5. CASE Requeue(w)
    <2>1. inflight' = inflight /\ wpc[w] \in HoldPC
      BY <1>5 DEF Requeue, HoldPC
    <2>2. \/ Len(nonceChan') = Len(nonceChan) + 1
             /\ \E pc : WorkerGoto(w, pc) /\ pc \notin HoldPC
          \/ nonceChan' = nonceChan /\ \E pc : WorkerGoto(w, pc) /\ pc \in HoldPC
      <3>1. \/ nonceChan' = Append(nonceChan, wpage[w]) /\ WorkerGoto(w, "recount")
            \/ nonceChan' = nonceChan /\ WorkerGoto(w, "dead")
        BY <1>5 DEF Requeue
      <3>2. Len(Append(nonceChan, wpage[w])) = Len(nonceChan) + 1
        BY DEF TypeOK
      <3>3. "recount" \notin HoldPC /\ "dead" \in HoldPC
        BY DEF HoldPC
      <3> QED BY <3>1, <3>2, <3>3
    <2>3. CASE Len(nonceChan') = Len(nonceChan) + 1 /\ \E pc : WorkerGoto(w, pc) /\ pc \notin HoldPC
      BY <1>a, <1>p, <2>1, <2>3, HoldingMove
    <2>4. CASE nonceChan' = nonceChan /\ \E pc : WorkerGoto(w, pc) /\ pc \in HoldPC
      BY <1>a, <1>p, <2>1, <2>4, HoldingMove
    <2> QED BY <2>2, <2>3, <2>4
  <1> QED BY <1>1, <1>2, <1>3, <1>4, <1>5 DEF Worker

\* A worker that owns a page keeps the count above zero.
LEMMA HeldPageCounts ==
  ASSUME TypeOK, InflightExact, NEW w \in Workers, wpc[w] \in HoldPC
  PROVE  inflight > 0
  <1>1. w \in Holding
    BY DEF Holding, HoldPC
  <1>2. Cardinality(Holding) # 0
    BY <1>1, OwnersFinite, FS_EmptySet
  <1> QED BY <1>2, OwnersFinite DEF InflightExact, TypeOK

\* The inductive invariant holds initially.
LEMMA InitIInv == Init => IInv
  <1> SUFFICES ASSUME Init PROVE IInv
    OBVIOUS
  <1>1. Admitting = {} /\ Holding = {}
    BY DEF Init, Admitting, Sending, Holding
  <1>2. InflightExact
    BY <1>1, FS_EmptySet DEF Init, InflightExact
  <1>3. InputClosedLast /\ DoneAtZero
    BY DEF Init, InputClosedLast, DoneAtZero
  <1> QED BY <1>2, <1>3, InitTypeOK DEF IInv

\* Every step keeps the inductive invariant.
LEMMA NextIInv == IInv /\ [Next]_vars => IInv'
  <1> SUFFICES ASSUME IInv, [Next]_vars PROVE IInv'
    OBVIOUS
  <1>0. TypeOK /\ InflightExact /\ InputClosedLast /\ DoneAtZero /\ TypeOK'
    BY NextTypeOK DEF IInv
  <1>1. ASSUME NEW p \in Parents, Parent(p) PROVE IInv'
    <2>1. InflightExact'
      BY <1>0, <1>1, ParentInflight
    <2>2. spc' = spc /\ inputClosed' = inputClosed
      BY <1>1 DEF Parent, GateFast, GateCheck, GateWait, WatcherFires, PullBatch,
           FlushPage, FlushFinal, Abort, EnqueueSend, EnqueueCount, EnqueueCancelled,
           ParentTryClose, sessionVars
    <2>3. CASE ppc[p] = "exited"
      <3>1. WatcherFires(p)
        BY <1>1, <2>3 DEF Parent, GateFast, GateCheck, GateWait, PullBatch, FlushPage,
           FlushFinal, Abort, EnqueueSend, EnqueueCount, EnqueueCancelled, Sending,
           ParentTryClose
      <3>2. ppc' = ppc /\ inflight' = inflight /\ done' = done
        BY <3>1 DEF WatcherFires, parentVars, bufferVars, sessionVars
      <3> QED
        BY <1>0, <2>1, <2>2, <3>2 DEF IInv, InputClosedLast, DoneAtZero
    <2>4. CASE ppc[p] # "exited"
      <3>1. ~inputClosed /\ ~done
        BY <1>0, <2>4 DEF InputClosedLast, DoneAtZero
      <3>2. ~done'
        BY <1>1, <3>1 DEF Parent, GateFast, GateCheck, GateWait, WatcherFires, PullBatch,
           FlushPage, FlushFinal, Abort, EnqueueSend, EnqueueCount, EnqueueCancelled,
           ParentTryClose, TryCloseDone, sessionVars
      <3> QED
        BY <1>0, <2>1, <2>2, <3>1, <3>2 DEF IInv, InputClosedLast, DoneAtZero
    <2> QED BY <2>3, <2>4
  <1>2. ASSUME NEW w \in Workers, Worker(w) PROVE IInv'
    <2>1. InflightExact' /\ (inflight' # inflight => inflight > 0)
      BY <1>0, <1>2, WorkerInflight, HeldPageCounts
    <2>2. spc' = spc /\ inputClosed' = inputClosed /\ ppc' = ppc
      BY <1>2 DEF Worker, TakePage, WorkerExit, OpenStream, ProcessPage, BroadcastResume,
           FetchAccounts, SendPage, Requeue, Recount, DeadLetter, WorkerTryClose,
           parentVars, sessionVars
    <2>3. done' => done \/ (inputClosed /\ inflight = 0)
      BY <1>2 DEF Worker, TakePage, WorkerExit, OpenStream, ProcessPage, BroadcastResume,
           FetchAccounts, SendPage, Requeue, Recount, DeadLetter, WorkerTryClose,
           TryCloseDone, sessionVars
    <2> QED
      BY <1>0, <2>1, <2>2, <2>3 DEF IInv, InputClosedLast, DoneAtZero
  <1>3. ASSUME Session \/ IteratorStops \/ Cancel \/ UNCHANGED vars PROVE IInv'
    <2>1. ppc' = ppc /\ wpc' = wpc /\ nonceChan' = nonceChan /\ inflight' = inflight
      BY <1>3 DEF Session, CloseInput, CloseInputSignals, RunReturns, IteratorStops,
           Cancel, vars, bufferVars, parentVars, workerVars
    <2>2. InflightExact'
      BY <1>0, <2>1, OwnersStay DEF InflightExact
    <2>3. InputClosedLast'
      BY <1>0, <1>3, <2>1 DEF InputClosedLast, Session, CloseInput, CloseInputSignals,
           RunReturns, IteratorStops, Cancel, vars, sessionVars
    <2>4. DoneAtZero'
      BY <1>0, <1>3, <2>1 DEF DoneAtZero, TryCloseDone, Session, CloseInput,
           CloseInputSignals, RunReturns, IteratorStops, Cancel, vars, sessionVars
    <2> QED BY <1>0, <2>2, <2>3, <2>4 DEF IInv
  <1> QED BY <1>1, <1>2, <1>3 DEF Next, Ended

\* The inductive invariant holds throughout every session.
LEMMA IInvInvariant == Spec => []IInv
  BY InitIInv, NextIInv, PTL DEF Spec

\* inflight counts exactly the unfinalised pages in every session, however many
\* parents and workers admit, requeue, deliver and dead-letter concurrently.
THEOREM InflightCorrect == Spec => []InflightExact
  <1>1. IInv => InflightExact
    BY DEF IInv
  <1> QED BY <1>1, IInvInvariant, PTL

\* With the count exact and `done` closed only at zero, no page is left anywhere.
LEMMA IInvDone == IInv => DoneOnlyWhenFinalised
  <1> SUFFICES ASSUME IInv, done PROVE /\ inputClosed /\ Admitting = {}
                                       /\ nonceChan = <<>> /\ Holding = {}
    BY DEF DoneOnlyWhenFinalised
  <1>1. inputClosed /\ inflight = 0 /\ TypeOK
    BY DEF IInv, DoneAtZero
  <1>2. Len(nonceChan) \in Nat
    BY <1>1 DEF TypeOK
  <1>3. Cardinality(Admitting) = 0 /\ Len(nonceChan) = 0 /\ Cardinality(Holding) = 0
    BY <1>1, <1>2, OwnersFinite DEF IInv, InflightExact
  <1>4. Admitting = {} /\ Holding = {}
    BY <1>3, OwnersFinite, FS_EmptySet
  <1>5. nonceChan = <<>>
    BY <1>1, <1>3, EmptySeq DEF TypeOK
  <1> QED BY <1>1, <1>4, <1>5

\* tryCloseDone never closes `done` while a page is queued, being admitted or in a
\* worker's hands, so no worker exits on `done` and leaves a page undelivered.
THEOREM DoneIsLast == Spec => []DoneOnlyWhenFinalised
  BY IInvDone, IInvInvariant, PTL

-----------------------------------------------------------------------------
(* No nonce is lost.  A nonce of the batches is always in some place of the  *)
(* session (a batch, a parent's slice, a page on its way or in the channel,  *)
(* a worker's hands, the summary), unless the context or the iterator ended  *)
(* the diff early; and when the session ends the only place left is the      *)
(* summary.                                                                  *)

\* x is in a batch, or in a page, of the sequence.
InBatches(x, s) == \E i \in 1..Len(s) : x \in Elems(s[i])
InPages(x, s)   == \E i \in 1..Len(s) : x \in Elems(s[i].nonces)

\* Where a nonce can be.
SliceOf(p)   == Elems(localNonces[p])
AdmittedBy(p) == IF ppc[p] \in SendPC THEN Elems(ppage[p].nonces) ELSE {}
HeldBy(w)    == IF wpc[w] \in HoldPC THEN Elems(wpage[w].nonces) ELSE {}
Queued(x)    == InBatches(x, work)
Buffered(x)  == InPages(x, nonceChan)
Finalised(x) == x \in delivered \cup DeadNonces

Somewhere(x) ==
  \/ Queued(x) \/ Buffered(x) \/ Finalised(x)
  \/ \E p \in Parents : x \in SliceOf(p) \cup AdmittedBy(p)
  \/ \E w \in Workers : x \in HeldBy(w)

\* The nonces of two slices joined are the nonces of each.
LEMMA ElemsCat ==
  ASSUME NEW s \in Seq(Nat), NEW t \in Seq(Nat)
  PROVE  Elems(s \o t) = Elems(s) \cup Elems(t)
  <1>1. PICK m \in Nat, n \in Nat : m = Len(s) /\ n = Len(t)
    OBVIOUS
  <1>2. PICK u \in Seq(Nat) : u = s \o t
    BY ConcatProperties
  <1>3. Len(u) = m + n /\ \A i \in 1..m + n : u[i] = IF i <= m THEN s[i] ELSE t[i - m]
    BY <1>1, <1>2, ConcatProperties
  <1>4. \A i \in 1..m : u[i] = s[i]
    BY <1>3
  <1>5. \A i \in 1..n : m + i \in 1..m + n /\ u[m + i] = t[i]
    BY <1>3
  <1>6. DOMAIN s = 1..m /\ DOMAIN t = 1..n /\ DOMAIN u = 1..m + n
    BY <1>1, <1>3
  <1>7. \A i \in 1..m + n : i \in 1..m \/ i - m \in 1..n
    OBVIOUS
  <1>8. Elems(u) \subseteq Elems(s) \cup Elems(t)
    <2> SUFFICES ASSUME NEW i \in 1..m + n PROVE u[i] \in Elems(s) \cup Elems(t)
      BY <1>6 DEF Elems
    <2>1. CASE i \in 1..m
      BY <1>4, <1>6, <2>1 DEF Elems
    <2>2. CASE i \notin 1..m
      <3>1. i - m \in 1..n /\ u[i] = t[i - m]
        BY <1>3, <2>2
      <3> QED BY <1>6, <3>1 DEF Elems
    <2> QED BY <2>1, <2>2
  <1>9. Elems(s) \subseteq Elems(u)
    <2>1. 1..m \subseteq 1..m + n
      OBVIOUS
    <2> QED BY <1>4, <1>6, <2>1 DEF Elems
  <1>10. Elems(t) \subseteq Elems(u)
    BY <1>5, <1>6 DEF Elems
  <1> QED BY <1>2, <1>8, <1>9, <1>10
  
\* Cutting a page off a slice keeps every nonce in one of the two parts.
LEMMA ElemsSplit ==
  ASSUME NEW s \in Seq(Nat), NEW k \in 0..Len(s)
  PROVE  Elems(s) = Elems(SubSeq(s, 1, k)) \cup Elems(SubSeq(s, k + 1, Len(s)))
  <1>0. /\ Len(s) \in Nat /\ 1 \in 1..Len(s) + 1
        /\ k \in 1 - 1..Len(s) /\ Len(s) \in k..Len(s)
        /\ 1 \in Int /\ k \in Int /\ k + 1 \in Int /\ Len(s) \in Int
    OBVIOUS
  <1>1. SubSeq(s, 1, k) \in Seq(Nat)
    <2>1. \A i \in 1..k : s[i] \in Nat
      OBVIOUS
    <2> QED BY <1>0, <2>1, SubSeqProperties, Zenon
  <1>2. SubSeq(s, k + 1, Len(s)) \in Seq(Nat)
    <2>1. \A i \in k + 1..Len(s) : s[i] \in Nat
      OBVIOUS
    <2> QED BY <1>0, <2>1, SubSeqProperties, Zenon
  <1>3. s = SubSeq(s, 1, k) \o SubSeq(s, k + 1, Len(s))
    <2>1. SubSeq(s, 1, Len(s)) = s
      BY SubSeqFull
    <2>2. SubSeq(s, 1, k) \o SubSeq(s, k + 1, Len(s)) = SubSeq(s, 1, Len(s))
      BY <1>0, ConcatAdjacentSubSeq, Zenon
    <2> QED BY <2>1, <2>2
  <1> QED BY <1>1, <1>2, <1>3, ElemsCat

\* An empty slice, an empty queue and an empty channel hold nothing.
LEMMA EmptyHolds ==
  /\ Elems(<<>>) = {}
  /\ \A x : ~InBatches(x, <<>>) /\ ~InPages(x, <<>>)
  BY DEF Elems, InBatches, InPages

\* Pulling a batch takes its nonces, and no others, out of the queue.
LEMMA PullHolds ==
  ASSUME NEW s \in Seq(Seq(Nat)), s # <<>>, NEW x
  PROVE  InBatches(x, s) <=> x \in Elems(Head(s)) \/ InBatches(x, Tail(s))
  <1>1. PICK n \in Nat : n = Len(s) /\ n >= 1
    BY EmptySeq
  <1>2. PICK t \in Seq(Seq(Nat)) : t = Tail(s) /\ Len(t) = n - 1
    BY <1>1, HeadTailProperties
  <1>3. Head(s) = s[1] /\ \A i \in 1..n - 1 : t[i] = s[i + 1]
    BY <1>1, <1>2, HeadTailProperties
  <1>4. ASSUME InBatches(x, s) PROVE x \in Elems(Head(s)) \/ InBatches(x, t)
    <2>1. PICK i \in 1..n : x \in Elems(s[i])
      BY <1>1, <1>4 DEF InBatches
    <2>2. CASE i = 1
      BY <1>3, <2>1, <2>2
    <2>3. CASE i # 1
      <3>1. i - 1 \in 1..n - 1 /\ (i - 1) + 1 = i
        BY <2>1, <2>3
      <3>2. t[i - 1] = s[i]
        BY <1>3, <3>1
      <3> QED BY <1>2, <2>1, <3>1, <3>2 DEF InBatches
    <2> QED BY <2>2, <2>3
  <1>5. ASSUME x \in Elems(Head(s)) PROVE InBatches(x, s)
    <2>1. 1 \in 1..n
      BY <1>1
    <2> QED BY <1>1, <1>3, <1>5, <2>1 DEF InBatches
  <1>6. ASSUME InBatches(x, t) PROVE InBatches(x, s)
    <2>1. PICK i \in 1..n - 1 : x \in Elems(t[i])
      BY <1>2, <1>6 DEF InBatches
    <2>2. i + 1 \in 1..n /\ t[i] = s[i + 1]
      BY <1>3, <2>1
    <2> QED BY <1>1, <2>1, <2>2 DEF InBatches
  <1> QED BY <1>2, <1>4, <1>5, <1>6

\* Taking a page takes its nonces, and no others, out of the channel.
LEMMA TakeHolds ==
  ASSUME NEW s \in Seq(Page), s # <<>>, NEW x
  PROVE  InPages(x, s) <=> x \in Elems(Head(s).nonces) \/ InPages(x, Tail(s))
  <1>1. PICK n \in Nat : n = Len(s) /\ n >= 1
    BY EmptySeq
  <1>2. PICK t \in Seq(Page) : t = Tail(s) /\ Len(t) = n - 1
    BY <1>1, HeadTailProperties
  <1>3. Head(s) = s[1] /\ \A i \in 1..n - 1 : t[i] = s[i + 1]
    BY <1>1, <1>2, HeadTailProperties
  <1>4. ASSUME InPages(x, s) PROVE x \in Elems(Head(s).nonces) \/ InPages(x, t)
    <2>1. PICK i \in 1..n : x \in Elems(s[i].nonces)
      BY <1>1, <1>4 DEF InPages
    <2>2. CASE i = 1
      BY <1>3, <2>1, <2>2
    <2>3. CASE i # 1
      <3>1. i - 1 \in 1..n - 1 /\ (i - 1) + 1 = i
        BY <2>1, <2>3
      <3>2. t[i - 1] = s[i]
        BY <1>3, <3>1
      <3> QED BY <1>2, <2>1, <3>1, <3>2 DEF InPages
    <2> QED BY <2>2, <2>3
  <1>5. ASSUME x \in Elems(Head(s).nonces) PROVE InPages(x, s)
    <2>1. 1 \in 1..n
      BY <1>1
    <2> QED BY <1>1, <1>3, <1>5, <2>1 DEF InPages
  <1>6. ASSUME InPages(x, t) PROVE InPages(x, s)
    <2>1. PICK i \in 1..n - 1 : x \in Elems(t[i].nonces)
      BY <1>2, <1>6 DEF InPages
    <2>2. i + 1 \in 1..n /\ t[i] = s[i + 1]
      BY <1>3, <2>1
    <2> QED BY <1>1, <2>1, <2>2 DEF InPages
  <1> QED BY <1>2, <1>4, <1>5, <1>6

\* A send adds the nonces of the page, and no others, to the channel.
LEMMA SendHolds ==
  ASSUME NEW s \in Seq(Page), NEW pg \in Page, NEW x
  PROVE  InPages(x, Append(s, pg)) <=> InPages(x, s) \/ x \in Elems(pg.nonces)
  <1>1. PICK n \in Nat : n = Len(s)
    OBVIOUS
  <1>2. PICK t \in Seq(Page) : t = Append(s, pg) /\ Len(t) = n + 1
    BY <1>1, AppendProperties
  <1>3. t[n + 1] = pg /\ \A i \in 1..n : t[i] = s[i]
    BY <1>1, <1>2, AppendProperties
  <1>4. ASSUME InPages(x, t) PROVE InPages(x, s) \/ x \in Elems(pg.nonces)
    <2>1. PICK i \in 1..n + 1 : x \in Elems(t[i].nonces)
      BY <1>2, <1>4 DEF InPages
    <2>2. i = n + 1 \/ i \in 1..n
      BY <2>1
    <2> QED BY <1>1, <1>3, <2>1, <2>2 DEF InPages
  <1>5. ASSUME InPages(x, s) PROVE InPages(x, t)
    <2>1. PICK i \in 1..n : x \in Elems(s[i].nonces)
      BY <1>1, <1>5 DEF InPages
    <2>2. i \in 1..n + 1 /\ t[i] = s[i]
      BY <1>3, <2>1
    <2> QED BY <1>2, <2>1, <2>2 DEF InPages
  <1>6. ASSUME x \in Elems(pg.nonces) PROVE InPages(x, t)
    <2>1. n + 1 \in 1..n + 1
      OBVIOUS
    <2> QED BY <1>2, <1>3, <1>6, <2>1 DEF InPages
  <1> QED BY <1>2, <1>4, <1>5, <1>6

\* A step of one parent leaves alone what the other parents and the workers have,
\* and the summary.
LEMMA ParentFrame ==
  ASSUME TypeOK, NEW p \in Parents, Parent(p)
  PROVE  /\ \A q \in Parents \ {p} : SliceOf(q)' = SliceOf(q) /\ AdmittedBy(q)' = AdmittedBy(q)
         /\ \A w \in Workers : HeldBy(w)' = HeldBy(w)
         /\ \A x : Finalised(x)' <=> Finalised(x)
  <1>1. wpc' = wpc /\ wpage' = wpage /\ delivered' = delivered /\ deadLetters' = deadLetters
    BY DEF Parent, GateFast, GateCheck, GateWait, WatcherFires, PullBatch, FlushPage,
           FlushFinal, Abort, EnqueueSend, EnqueueCount, EnqueueCancelled,
           ParentTryClose, workerVars, resultVars
  <1>2. ASSUME NEW q \in Parents \ {p} PROVE ppc'[q] = ppc[q]
    BY DEF TypeOK, Parent, GateFast, GateCheck, GateWait, WatcherFires, PullBatch, FlushPage,
           FlushFinal, Abort, EnqueueSend, EnqueueCount, EnqueueCancelled,
           ParentTryClose, parentVars, ParentGoto, Admit
  <1>3. ASSUME NEW q \in Parents \ {p} PROVE ppage'[q] = ppage[q]
    BY DEF TypeOK, Parent, GateFast, GateCheck, GateWait, WatcherFires, PullBatch, FlushPage,
           FlushFinal, Abort, EnqueueSend, EnqueueCount, EnqueueCancelled,
           ParentTryClose, parentVars, Admit
  <1>4. ASSUME NEW q \in Parents \ {p} PROVE localNonces'[q] = localNonces[q]
    BY DEF TypeOK, Parent, GateFast, GateCheck, GateWait, WatcherFires, PullBatch, FlushPage,
           FlushFinal, Abort, EnqueueSend, EnqueueCount, EnqueueCancelled,
           ParentTryClose, parentVars
  <1>5. \A w \in Workers : HeldBy(w)' = HeldBy(w)
    BY <1>1 DEF HeldBy
  <1>6. \A x : Finalised(x)' <=> Finalised(x)
    BY <1>1 DEF Finalised, DeadNonces
  <1>7. ASSUME NEW q \in Parents \ {p}
        PROVE  SliceOf(q)' = SliceOf(q) /\ AdmittedBy(q)' = AdmittedBy(q)
    BY <1>2, <1>3, <1>4 DEF SliceOf, AdmittedBy
  <1> QED BY <1>5, <1>6, <1>7

\* What a parent has or has in its reach: the queue, its slice, its page, the channel.
Reach(p, x) == Queued(x) \/ Buffered(x) \/ x \in SliceOf(p) \cup AdmittedBy(p)

\* A parent moves nonces from the queue to its slice, from there to a page and from
\* there to the channel; only a cancelled enqueue drops a page.
LEMMA ParentMoves ==
  ASSUME TypeOK, NEW p \in Parents, Parent(p), NEW x
  PROVE  /\ Reach(p, x)' => Reach(p, x)
         /\ Reach(p, x) => Reach(p, x)' \/ ctxDone
  <1> USE DEF TypeOK
  <1>a. ppage[p] \in Page /\ localNonces[p] \in Seq(Nat) /\ nonceChan \in Seq(Page)
    OBVIOUS
  <1>1. CASE GateFast(p) \/ GateCheck(p) \/ GateWait(p) \/ ParentTryClose(p)
    <2>1. /\ nonceChan' = nonceChan /\ work' = work /\ ppage' = ppage
          /\ localNonces' = localNonces
      BY <1>1 DEF GateFast, GateCheck, GateWait, ParentTryClose, bufferVars
    <2>2. ppc[p] \notin SendPC /\ ppc'[p] \notin SendPC
      BY <1>1 DEF GateFast, GateCheck, GateWait, ParentTryClose, ParentGoto, SendPC
    <2> QED BY <2>1, <2>2 DEF Reach, Queued, Buffered, SliceOf, AdmittedBy
  <1>2. CASE WatcherFires(p)
    <2>1. nonceChan' = nonceChan /\ UNCHANGED parentVars
      BY <1>2 DEF WatcherFires, bufferVars
    <2> QED BY <2>1 DEF parentVars, Reach, Queued, Buffered, SliceOf, AdmittedBy
  <1>3. CASE PullBatch(p)
    <2>1. /\ nonceChan' = nonceChan /\ ppage' = ppage
          /\ ppc[p] \notin SendPC /\ ppc'[p] \notin SendPC
      BY <1>3 DEF PullBatch, bufferVars, ParentGoto, SendPC
    <2>2. CASE work' = work /\ localNonces' = localNonces
      BY <2>1, <2>2 DEF Reach, Queued, Buffered, SliceOf, AdmittedBy
    <2>3. CASE /\ work # <<>> /\ work' = Tail(work)
               /\ localNonces' = [localNonces EXCEPT ![p] = @ \o Head(work)]
      <3>1. work \in Seq(Seq(Nat)) /\ Head(work) \in Seq(Nat)
        BY <2>3, HeadTailProperties
      <3>2. localNonces'[p] = localNonces[p] \o Head(work)
        BY <2>3
      <3>3. SliceOf(p)' = SliceOf(p) \cup Elems(Head(work))
        BY <1>a, <3>1, <3>2, ElemsCat DEF SliceOf
      <3>4. Queued(x) <=> x \in Elems(Head(work)) \/ Queued(x)'
        BY <2>3, <3>1, PullHolds DEF Queued
      <3>5. AdmittedBy(p)' = AdmittedBy(p) /\ (Buffered(x)' <=> Buffered(x))
        BY <2>1 DEF AdmittedBy, Buffered
      <3> QED BY <3>3, <3>4, <3>5 DEF Reach
    <2> QED BY <1>3, <2>2, <2>3 DEF PullBatch
  <1>4. CASE FlushPage(p) \/ FlushFinal(p) \/ Abort(p)
    <2>1. nonceChan' = nonceChan /\ work' = work /\ ppc[p] \notin SendPC
      BY <1>4 DEF FlushPage, FlushFinal, Abort, SendPC
    <2>2. /\ Queued(x)' <=> Queued(x)
          /\ Buffered(x)' <=> Buffered(x)
          /\ AdmittedBy(p) = {}
      BY <2>1 DEF Queued, Buffered, AdmittedBy
    <2>3. CASE localNonces' = localNonces /\ \E pc : ParentGoto(p, pc) /\ pc \notin SendPC
      <3>1. ppc'[p] \notin SendPC
        BY <2>3 DEF ParentGoto
      <3> QED BY <2>2, <2>3, <3>1 DEF Reach, SliceOf, AdmittedBy
    <2>4. ASSUME NEW s, NEW t,
                 ppage' = [ppage EXCEPT ![p] = [nonces |-> s, retries |-> 0]],
                 localNonces' = [localNonces EXCEPT ![p] = t],
                 ppc'[p] \in SendPC,
                 Elems(localNonces[p]) = Elems(s) \cup Elems(t)
          PROVE  Reach(p, x)' <=> Reach(p, x)
      <3>1. AdmittedBy(p)' = Elems(s) /\ SliceOf(p)' = Elems(t)
        BY <2>4 DEF AdmittedBy, SliceOf
      <3> QED BY <2>2, <2>4, <3>1 DEF Reach, SliceOf
    <2>5. CASE FlushPage(p) /\ Len(localNonces[p]) >= PageSize
      <3>1. /\ Admit(p, SubSeq(localNonces[p], 1, PageSize), "sendFlush")
            /\ localNonces' = [localNonces EXCEPT
                  ![p] = SubSeq(localNonces[p], PageSize + 1, Len(localNonces[p]))]
        BY <2>5 DEF FlushPage
      <3>2. ppc'[p] \in SendPC
        BY <3>1 DEF Admit, ParentGoto, SendPC
      <3>3. PageSize \in 0..Len(localNonces[p])
        BY <1>a, <2>5, DispatcherAssumption
      <3> QED BY <1>a, <2>4, <3>1, <3>2, <3>3, ElemsSplit DEF Admit
    <2>6. CASE (FlushFinal(p) \/ Abort(p)) /\ localNonces[p] # <<>>
      <3>1. /\ Admit(p, localNonces[p], "sendFinal")
            /\ localNonces' = [localNonces EXCEPT ![p] = <<>>]
        BY <2>6 DEF FlushFinal, Abort
      <3>2. ppc'[p] \in SendPC
        BY <3>1 DEF Admit, ParentGoto, SendPC
      <3> QED BY <2>4, <3>1, <3>2, EmptyHolds DEF Admit
    <2>7. CASE \/ FlushPage(p) /\ ~(Len(localNonces[p]) >= PageSize)
               \/ (FlushFinal(p) \/ Abort(p)) /\ localNonces[p] = <<>>
      <3>1. localNonces' = localNonces /\ (ParentGoto(p, "gate") \/ ParentGoto(p, "exited"))
        BY <2>7 DEF FlushPage, FlushFinal, Abort
      <3>2. "gate" \notin SendPC /\ "exited" \notin SendPC
        BY DEF SendPC
      <3> QED BY <2>3, <3>1, <3>2
    <2> QED BY <1>4, <2>5, <2>6, <2>7
  <1>5. CASE EnqueueSend(p)
    <2>1. /\ nonceChan' = Append(nonceChan, ppage[p]) /\ work' = work
          /\ localNonces' = localNonces /\ ppage' = ppage
          /\ ppc[p] \in SendPC /\ ppc'[p] \notin SendPC
      BY <1>5 DEF EnqueueSend, Sending, SendPC, ParentGoto
    <2>2. Buffered(x)' <=> Buffered(x) \/ x \in Elems(ppage[p].nonces)
      BY <1>a, <2>1, SendHolds DEF Buffered
    <2> QED BY <2>1, <2>2 DEF Reach, Queued, SliceOf, AdmittedBy
  <1>6. CASE EnqueueCount(p)
    <2>1. /\ nonceChan' = nonceChan /\ work' = work /\ localNonces' = localNonces
          /\ ppc[p] \notin SendPC /\ ppc'[p] \notin SendPC
      BY <1>6 DEF EnqueueCount, SendPC, ParentGoto
    <2> QED BY <2>1 DEF Reach, Queued, Buffered, SliceOf, AdmittedBy
  <1>7. CASE EnqueueCancelled(p)
    <2>1. /\ nonceChan' = nonceChan /\ work' = work /\ localNonces' = localNonces
          /\ ctxDone /\ ppc'[p] \notin SendPC
      BY <1>7 DEF EnqueueCancelled, SendPC, ParentGoto
    <2> QED BY <2>1 DEF Reach, Queued, Buffered, SliceOf, AdmittedBy
  <1> QED BY <1>1, <1>2, <1>3, <1>4, <1>5, <1>6, <1>7 DEF Parent

\* A step of one worker leaves alone what the parents and the other workers have.
LEMMA WorkerFrame ==
  ASSUME TypeOK, NEW w \in Workers, Worker(w)
  PROVE  /\ \A p \in Parents : SliceOf(p)' = SliceOf(p) /\ AdmittedBy(p)' = AdmittedBy(p)
         /\ \A v \in Workers \ {w} : HeldBy(v)' = HeldBy(v)
         /\ \A x : Queued(x)' <=> Queued(x)
  <1>1. UNCHANGED parentVars
    BY DEF Worker, TakePage, WorkerExit, OpenStream, ProcessPage, BroadcastResume,
           FetchAccounts, SendPage, Requeue, Recount, DeadLetter, WorkerTryClose
  <1>2. ASSUME NEW v \in Workers \ {w} PROVE wpc'[v] = wpc[v]
    BY DEF TypeOK, Worker, TakePage, WorkerExit, OpenStream, ProcessPage, BroadcastResume,
           FetchAccounts, SendPage, Requeue, Recount, DeadLetter, WorkerTryClose,
           WorkerGoto, HandleFailure
  <1>3. ASSUME NEW v \in Workers \ {w} PROVE wpage'[v] = wpage[v]
    BY DEF TypeOK, Worker, TakePage, WorkerExit, OpenStream, ProcessPage, BroadcastResume,
           FetchAccounts, SendPage, Requeue, Recount, DeadLetter, WorkerTryClose,
           HandleFailure
  <1>4. ASSUME NEW v \in Workers \ {w} PROVE HeldBy(v)' = HeldBy(v)
    BY <1>2, <1>3 DEF HeldBy
  <1> QED BY <1>1, <1>4 DEF parentVars, SliceOf, AdmittedBy, Queued

\* HandleFailure keeps the page in the worker's hands.
LEMMA FailureKeeps ==
  ASSUME TypeOK, NEW w \in Workers, HandleFailure(w), wpc[w] \in HoldPC
  PROVE  HeldBy(w)' = HeldBy(w)
  <1>1. wpage'[w].nonces = wpage[w].nonces
    BY DEF TypeOK, HandleFailure, Page
  <1>2. wpc'[w] \in HoldPC
    BY DEF TypeOK, HandleFailure, WorkerGoto, HoldPC
  <1> QED BY <1>1, <1>2 DEF HeldBy

\* A worker moves a page from the channel to its hands, and from there back to the
\* channel or into the summary; it drops nothing.
LEMMA WorkerMoves ==
  ASSUME TypeOK, NEW w \in Workers, Worker(w), NEW x
  PROVE  Buffered(x)' \/ Finalised(x)' \/ x \in HeldBy(w)'
           <=> Buffered(x) \/ Finalised(x) \/ x \in HeldBy(w)
  <1> USE DEF TypeOK
  <1>a. wpage[w] \in Page /\ nonceChan \in Seq(Page)
    OBVIOUS
  <1>1. CASE WorkerExit(w) \/ Recount(w) \/ WorkerTryClose(w)
    <2>1. /\ nonceChan' = nonceChan /\ UNCHANGED resultVars
          /\ wpc[w] \notin HoldPC /\ wpc'[w] \notin HoldPC
      BY <1>1 DEF WorkerExit, Recount, WorkerTryClose, bufferVars, HoldPC, WorkerGoto
    <2> QED BY <2>1 DEF resultVars, Buffered, Finalised, DeadNonces, HeldBy
  <1>2. CASE OpenStream(w) \/ ProcessPage(w) \/ BroadcastResume(w) \/ FetchAccounts(w)
    <2>1. nonceChan' = nonceChan /\ UNCHANGED resultVars /\ wpc[w] \in HoldPC
      BY <1>2 DEF OpenStream, ProcessPage, BroadcastResume, FetchAccounts, bufferVars,
                  HoldPC
    <2>2. HandleFailure(w) \/ (wpage' = wpage /\ wpc'[w] \in HoldPC)
      BY <1>2 DEF OpenStream, ProcessPage, BroadcastResume, FetchAccounts, WorkerGoto,
                  HoldPC
    <2>3. HeldBy(w)' = HeldBy(w)
      BY <2>1, <2>2, FailureKeeps DEF HeldBy
    <2> QED BY <2>1, <2>3 DEF resultVars, Buffered, Finalised, DeadNonces
  <1>3. CASE TakePage(w)
    <2>1. /\ nonceChan # <<>> /\ nonceChan' = Tail(nonceChan) /\ UNCHANGED resultVars
          /\ wpage'[w] = Head(nonceChan)
          /\ wpc[w] \notin HoldPC /\ wpc'[w] \in HoldPC
      BY <1>3 DEF TakePage, WorkerGoto, HoldPC
    <2>2. Buffered(x) <=> x \in Elems(Head(nonceChan).nonces) \/ Buffered(x)'
      BY <1>a, <2>1, TakeHolds DEF Buffered
    <2>3. HeldBy(w) = {} /\ HeldBy(w)' = Elems(Head(nonceChan).nonces)
      BY <2>1 DEF HeldBy
    <2> QED BY <2>1, <2>2, <2>3 DEF resultVars, Finalised, DeadNonces
  <1>4. CASE SendPage(w)
    <2>1. nonceChan' = nonceChan /\ deadLetters' = deadLetters /\ wpc[w] \in HoldPC
      BY <1>4 DEF SendPage, HoldPC
    <2>2. CASE delivered' = delivered /\ HandleFailure(w)
      <3>1. HeldBy(w)' = HeldBy(w)
        BY <2>1, <2>2, FailureKeeps
      <3> QED BY <2>1, <2>2, <3>1 DEF Buffered, Finalised, DeadNonces
    <2>3. CASE /\ delivered' = delivered \cup Elems(wpage[w].nonces)
               /\ WorkerGoto(w, "tryClose")
      <3>1. wpc'[w] \notin HoldPC
        BY <2>3 DEF WorkerGoto, HoldPC
      <3> QED BY <2>1, <2>3, <3>1 DEF Buffered, Finalised, DeadNonces, HeldBy
    <2> QED BY <1>4, <2>2, <2>3 DEF SendPage
  <1>5. CASE Requeue(w)
    <2>1. UNCHANGED resultVars /\ wpage' = wpage /\ wpc[w] \in HoldPC
      BY <1>5 DEF Requeue, HoldPC
    <2>2. CASE nonceChan' = Append(nonceChan, wpage[w]) /\ WorkerGoto(w, "recount")
      <3>1. wpc'[w] \notin HoldPC
        BY <2>2 DEF WorkerGoto, HoldPC
      <3>2. Buffered(x)' <=> Buffered(x) \/ x \in Elems(wpage[w].nonces)
        BY <1>a, <2>2, SendHolds DEF Buffered
      <3> QED BY <2>1, <3>1, <3>2 DEF resultVars, Finalised, DeadNonces, HeldBy
    <2>3. CASE nonceChan' = nonceChan /\ WorkerGoto(w, "dead")
      <3>1. wpc'[w] \in HoldPC
        BY <2>3 DEF WorkerGoto, HoldPC
      <3> QED BY <2>1, <2>3, <3>1 DEF resultVars, Buffered, Finalised, DeadNonces, HeldBy
    <2> QED BY <1>5, <2>2, <2>3 DEF Requeue
  <1>6. CASE DeadLetter(w)
    <2>1. /\ nonceChan' = nonceChan /\ delivered' = delivered
          /\ deadLetters' = deadLetters \cup {wpage[w]}
          /\ wpc[w] \in HoldPC /\ wpc'[w] \notin HoldPC
      BY <1>6 DEF DeadLetter, WorkerGoto, HoldPC
    <2>2. x \in DeadNonces' <=> x \in DeadNonces \/ x \in Elems(wpage[w].nonces)
      BY <2>1 DEF DeadNonces
    <2> QED BY <2>1, <2>2 DEF Buffered, Finalised, HeldBy
  <1> QED BY <1>1, <1>2, <1>3, <1>4, <1>5, <1>6 DEF Worker

\* The session holds nothing but the missing nonces, and all of them unless the
\* context or the iterator cut the diff short.
Kept ==
  /\ \A x : Somewhere(x) => x \in Missing
  /\ ~ctxDone /\ ~iterErr => \A x \in Missing : Somewhere(x)

\* A parent that has passed the closed workChan left nothing in the queue, and
\* nothing in its slice once it has flushed the rest.
Finishing ==
  ~ctxDone => \A p \in Parents :
    /\ ppc[p] \notin {"abort", "tryClose"}
    /\ ppc[p] \in {"final", "sendFinal", "countFinal", "exited"} => work = <<>>
    /\ ppc[p] \in {"sendFinal", "countFinal", "exited"} => localNonces[p] = <<>>

\* The verdict of the diff covers the iterator's error, and a session that was not
\* cancelled ends only on `done`.
Verdict ==
  /\ spc # "diff" /\ ~diffErr => ~iterErr
  /\ spc = "ended" /\ ~ctxDone => done

NonceInv == IInv /\ Kept /\ Finishing /\ Verdict

\* Missing is what the queue holds before the parents start.
LEMMA MissingIsQueued == \A x : x \in Missing <=> InBatches(x, Batches)
  <1>1. DOMAIN Batches = 1..Len(Batches)
    BY DispatcherAssumption
  <1> QED BY <1>1 DEF Missing, InBatches

\* Before any step every missing nonce is queued and nothing is anywhere else.
LEMMA InitNonceInv == Init => NonceInv
  <1> SUFFICES ASSUME Init PROVE NonceInv
    OBVIOUS
  <1>1. /\ \A p \in Parents : SliceOf(p) = {} /\ AdmittedBy(p) = {}
        /\ \A w \in Workers : HeldBy(w) = {}
    BY EmptyHolds DEF Init, SliceOf, AdmittedBy, HeldBy, SendPC, HoldPC
  <1>2. \A x : ~Buffered(x) /\ ~Finalised(x)
    BY EmptyHolds DEF Init, Buffered, Finalised, DeadNonces
  <1>3. \A x : Queued(x) <=> x \in Missing
    BY MissingIsQueued DEF Init, Queued
  <1>4. Kept
    BY <1>1, <1>2, <1>3 DEF Kept, Somewhere
  <1>5. Finishing /\ Verdict
    BY DEF Init, Finishing, Verdict
  <1> QED BY <1>4, <1>5, InitIInv DEF NonceInv

\* No step invents a nonce, and one that drops a nonce leaves the context cancelled
\* or the iterator failed.
LEMMA NextKept ==
  ASSUME TypeOK, [Next]_vars, NEW x
  PROVE  /\ Somewhere(x)' => Somewhere(x)
         /\ Somewhere(x) => Somewhere(x)' \/ ctxDone' \/ iterErr'
         /\ ctxDone => ctxDone'
         /\ iterErr => iterErr'
  <1>1. ASSUME NEW p \in Parents, Parent(p)
        PROVE  /\ Somewhere(x)' => Somewhere(x)
               /\ Somewhere(x) => Somewhere(x)' \/ ctxDone
               /\ ctxDone' = ctxDone /\ iterErr' = iterErr
    <2>1. ctxDone' = ctxDone /\ iterErr' = iterErr
      BY <1>1 DEF Parent, GateFast, GateCheck, GateWait, WatcherFires, PullBatch,
           FlushPage, FlushFinal, Abort, EnqueueSend, EnqueueCount, EnqueueCancelled,
           ParentTryClose, sessionVars
    <2>2. /\ Reach(p, x)' => Reach(p, x)
          /\ Reach(p, x) => Reach(p, x)' \/ ctxDone
      BY <1>1, ParentMoves
    <2>3. /\ \A q \in Parents \ {p} : SliceOf(q)' = SliceOf(q) /\ AdmittedBy(q)' = AdmittedBy(q)
          /\ \A w \in Workers : HeldBy(w)' = HeldBy(w)
          /\ Finalised(x)' <=> Finalised(x)
      BY <1>1, ParentFrame
    <2> HIDE <1>1
    <2>4. Somewhere(x) <=> \/ Reach(p, x) \/ Finalised(x)
                           \/ \E q \in Parents \ {p} : x \in SliceOf(q) \cup AdmittedBy(q)
                           \/ \E w \in Workers : x \in HeldBy(w)
      BY DEF Somewhere, Reach
    <2>5. Somewhere(x)' <=> \/ Reach(p, x)' \/ Finalised(x)'
                            \/ \E q \in Parents \ {p} : x \in SliceOf(q)' \cup AdmittedBy(q)'
                            \/ \E w \in Workers : x \in HeldBy(w)'
      BY DEF Somewhere, Reach
    <2> QED BY <2>1, <2>2, <2>3, <2>4, <2>5
  <1>2. ASSUME NEW w \in Workers, Worker(w)
        PROVE  /\ Somewhere(x)' <=> Somewhere(x)
               /\ ctxDone' = ctxDone /\ iterErr' = iterErr
    <2>1. ctxDone' = ctxDone /\ iterErr' = iterErr
      BY <1>2 DEF Worker, TakePage, WorkerExit, OpenStream, ProcessPage, BroadcastResume,
           FetchAccounts, SendPage, Requeue, Recount, DeadLetter, WorkerTryClose,
           sessionVars
    <2>2. Buffered(x)' \/ Finalised(x)' \/ x \in HeldBy(w)'
            <=> Buffered(x) \/ Finalised(x) \/ x \in HeldBy(w)
      BY <1>2, WorkerMoves
    <2>3. /\ \A p \in Parents : SliceOf(p)' = SliceOf(p) /\ AdmittedBy(p)' = AdmittedBy(p)
          /\ \A v \in Workers \ {w} : HeldBy(v)' = HeldBy(v)
          /\ Queued(x)' <=> Queued(x)
      BY <1>2, WorkerFrame
    <2>4. Somewhere(x) <=> \/ Buffered(x) \/ Finalised(x) \/ x \in HeldBy(w)
                           \/ Queued(x)
                           \/ \E p \in Parents : x \in SliceOf(p) \cup AdmittedBy(p)
                           \/ \E v \in Workers \ {w} : x \in HeldBy(v)
      BY DEF Somewhere
    <2>5. Somewhere(x)' <=> \/ Buffered(x)' \/ Finalised(x)' \/ x \in HeldBy(w)'
                            \/ Queued(x)'
                            \/ \E p \in Parents : x \in SliceOf(p)' \cup AdmittedBy(p)'
                            \/ \E v \in Workers \ {w} : x \in HeldBy(v)'
      BY DEF Somewhere
    <2> QED BY <2>1, <2>2, <2>3, <2>4, <2>5
  <1>3. ASSUME Session \/ Cancel \/ UNCHANGED vars
        PROVE  /\ Somewhere(x)' <=> Somewhere(x)
               /\ ctxDone => ctxDone'
               /\ iterErr' = iterErr
    <2>1. /\ UNCHANGED bufferVars /\ UNCHANGED parentVars /\ UNCHANGED workerVars
          /\ UNCHANGED resultVars
          /\ ctxDone => ctxDone'
          /\ iterErr' = iterErr
      BY <1>3 DEF Session, CloseInput, CloseInputSignals, RunReturns, Cancel, vars,
                  sessionVars
    <2>2. Somewhere(x)' <=> Somewhere(x)
      BY <2>1 DEF bufferVars, parentVars, workerVars, resultVars, Somewhere, Queued,
           Buffered, Finalised, DeadNonces, SliceOf, AdmittedBy, HeldBy
    <2> QED BY <2>1, <2>2
  <1>4. ASSUME IteratorStops
        PROVE  /\ Somewhere(x)' => Somewhere(x)
               /\ ctxDone' = ctxDone /\ (ctxDone' \/ iterErr')
               /\ iterErr => iterErr'
    <2>1. /\ UNCHANGED bufferVars /\ UNCHANGED workerVars /\ UNCHANGED resultVars
          /\ ppc' = ppc /\ localNonces' = localNonces /\ ppage' = ppage
          /\ ctxDone' = ctxDone /\ (ctxDone' \/ iterErr')
          /\ iterErr => iterErr'
      BY <1>4 DEF IteratorStops
    <2>2. Queued(x)' => Queued(x)
      <3>1. PICK n \in 0..Len(work) : work' = SubSeq(work, 1, n)
        BY <1>4 DEF IteratorStops
      <3>2. work \in Seq(Seq(Nat)) /\ n \in Nat /\ n <= Len(work)
        BY DEF TypeOK
      <3>3. Len(work') = n /\ \A i \in 1..n : i \in 1..Len(work) /\ work'[i] = work[i]
        BY <3>1, <3>2
      <3> QED BY <3>3 DEF Queued, InBatches
    <2> QED
      BY <2>1, <2>2 DEF bufferVars, workerVars, resultVars, Somewhere, Buffered,
         Finalised, DeadNonces, SliceOf, AdmittedBy, HeldBy
  <1> QED BY <1>1, <1>2, <1>3, <1>4 DEF Next, Ended

\* A parent reaches the end of its loop only through the closed workChan or the
\* cancelled context.
LEMMA NextFinishing ==
  ASSUME TypeOK, [Next]_vars, Finishing
  PROVE  Finishing'
  <1> SUFFICES ASSUME ~ctxDone', NEW p \in Parents
               PROVE  /\ ppc'[p] \notin {"abort", "tryClose"}
                      /\ ppc'[p] \in {"final", "sendFinal", "countFinal", "exited"}
                            => work' = <<>>
                      /\ ppc'[p] \in {"sendFinal", "countFinal", "exited"}
                            => localNonces'[p] = <<>>
    BY DEF Finishing
  <1>1. ~ctxDone
    <2>1. ctxDone => ctxDone'
      BY NextKept
    <2> QED BY <2>1
  <1>2. /\ ppc[p] \notin {"abort", "tryClose"}
        /\ ppc[p] \in {"final", "sendFinal", "countFinal", "exited"} => work = <<>>
        /\ ppc[p] \in {"sendFinal", "countFinal", "exited"} => localNonces[p] = <<>>
    BY <1>1 DEF Finishing
  <1>3. work = <<>> => work' = <<>>
    <2>1. CASE IteratorStops
      <3>1. PICK n \in 0..Len(work) : work' = SubSeq(work, 1, n)
        BY <2>1 DEF IteratorStops
      <3> QED BY <3>1
    <2>2. ASSUME NEW q \in Parents, PullBatch(q) PROVE work = <<>> => work' = <<>>
      BY <2>2 DEF PullBatch
    <2>3. ASSUME NEW q \in Parents, Parent(q), ~PullBatch(q) PROVE work' = work
      BY <2>3 DEF Parent, GateFast, GateCheck, GateWait, WatcherFires,
           FlushPage, FlushFinal, Abort, EnqueueSend, EnqueueCount, EnqueueCancelled,
           ParentTryClose, parentVars
    <2>4. ASSUME NEW w \in Workers, Worker(w) PROVE work' = work
      BY <2>4 DEF Worker, TakePage, WorkerExit, OpenStream, ProcessPage, BroadcastResume,
           FetchAccounts, SendPage, Requeue, Recount, DeadLetter, WorkerTryClose,
           parentVars
    <2>5. CASE Session \/ Cancel \/ UNCHANGED vars
      BY <2>5 DEF Session, CloseInput, CloseInputSignals, RunReturns, Cancel, vars,
           parentVars
    <2> QED BY <2>1, <2>2, <2>3, <2>4, <2>5 DEF Next, Ended
  <1>4. ASSUME ppc'[p] = ppc[p], localNonces'[p] = localNonces[p]
        PROVE  /\ ppc'[p] \notin {"abort", "tryClose"}
               /\ ppc'[p] \in {"final", "sendFinal", "countFinal", "exited"}
                     => work' = <<>>
               /\ ppc'[p] \in {"sendFinal", "countFinal", "exited"}
                     => localNonces'[p] = <<>>
    BY <1>2, <1>3, <1>4
  <1>5. CASE Parent(p)
    <2> USE DEF TypeOK, ParentGoto
    <2>1. CASE GateFast(p) \/ GateCheck(p) \/ GateWait(p) \/ WatcherFires(p)
      BY <1>1, <1>4, <2>1 DEF GateFast, GateCheck, GateWait, WatcherFires, parentVars
    <2>2. CASE PullBatch(p)
      BY <1>1, <1>3, <2>2 DEF PullBatch
    <2>3. CASE FlushPage(p)
      BY <2>3 DEF FlushPage, Admit
    <2>4. CASE FlushFinal(p)
      BY <1>2, <1>3, <2>4 DEF FlushFinal, Admit
    <2>5. CASE Abort(p) \/ EnqueueCancelled(p) \/ ParentTryClose(p)
      BY <1>1, <1>2, <2>5 DEF Abort, EnqueueCancelled, ParentTryClose
    <2>6. CASE EnqueueSend(p) \/ EnqueueCount(p)
      BY <1>2, <1>3, <2>6 DEF EnqueueSend, EnqueueCount, Sending
    <2> QED BY <1>5, <2>1, <2>2, <2>3, <2>4, <2>5, <2>6 DEF Parent
  <1>6. CASE ~Parent(p)
    <2>1. ppc'[p] = ppc[p]
      <3>1. ASSUME NEW q \in Parents \ {p}, Parent(q) PROVE ppc'[p] = ppc[p]
        BY <3>1 DEF TypeOK, Parent, GateFast, GateCheck, GateWait, WatcherFires, PullBatch,
           FlushPage, FlushFinal, Abort, EnqueueSend, EnqueueCount, EnqueueCancelled,
           ParentTryClose, parentVars, ParentGoto, Admit
      <3>2. ASSUME NEW w \in Workers, Worker(w) PROVE ppc' = ppc
        BY <3>2 DEF Worker, TakePage, WorkerExit, OpenStream, ProcessPage, BroadcastResume,
           FetchAccounts, SendPage, Requeue, Recount, DeadLetter, WorkerTryClose,
           parentVars
      <3>3. CASE Session \/ IteratorStops \/ Cancel \/ UNCHANGED vars
        BY <3>3 DEF Session, CloseInput, CloseInputSignals, RunReturns, IteratorStops,
           Cancel, vars, parentVars
      <3> QED BY <1>6, <3>1, <3>2, <3>3 DEF Next, Ended
    <2>2. localNonces'[p] = localNonces[p]
      <3>1. ASSUME NEW q \in Parents \ {p}, Parent(q) PROVE localNonces'[p] = localNonces[p]
        BY <3>1 DEF TypeOK, Parent, GateFast, GateCheck, GateWait, WatcherFires, PullBatch,
           FlushPage, FlushFinal, Abort, EnqueueSend, EnqueueCount, EnqueueCancelled,
           ParentTryClose, parentVars
      <3>2. ASSUME NEW w \in Workers, Worker(w) PROVE localNonces' = localNonces
        BY <3>2 DEF Worker, TakePage, WorkerExit, OpenStream, ProcessPage, BroadcastResume,
           FetchAccounts, SendPage, Requeue, Recount, DeadLetter, WorkerTryClose,
           parentVars
      <3>3. CASE Session \/ IteratorStops \/ Cancel \/ UNCHANGED vars
        BY <3>3 DEF Session, CloseInput, CloseInputSignals, RunReturns, IteratorStops,
           Cancel, vars, parentVars
      <3> QED BY <1>6, <3>1, <3>2, <3>3 DEF Next, Ended
    <2> QED BY <1>4, <2>1, <2>2
  <1> QED BY <1>5, <1>6

\* The diff's verdict and the reason for the end of Run stay true.
LEMMA NextVerdict ==
  ASSUME TypeOK, [Next]_vars, Verdict
  PROVE  Verdict'
  <1>1. ASSUME NEW p \in Parents, Parent(p)
        PROVE  /\ spc' = spc /\ diffErr' = diffErr /\ iterErr' = iterErr /\ ctxDone' = ctxDone
               /\ done => done'
    <2>1. spc' = spc /\ diffErr' = diffErr /\ iterErr' = iterErr /\ ctxDone' = ctxDone
      BY <1>1 DEF Parent, GateFast, GateCheck, GateWait, WatcherFires, PullBatch,
           FlushPage, FlushFinal, Abort, EnqueueSend, EnqueueCount, EnqueueCancelled,
           ParentTryClose, sessionVars
    <2>2. done' = done \/ TryCloseDone
      BY <1>1 DEF Parent, GateFast, GateCheck, GateWait, WatcherFires, PullBatch,
           FlushPage, FlushFinal, Abort, EnqueueSend, EnqueueCount, EnqueueCancelled,
           ParentTryClose, sessionVars
    <2>3. TryCloseDone /\ done => done'
      BY Zenon DEF TryCloseDone
    <2> QED BY <2>1, <2>2, <2>3
  <1>2. ASSUME NEW w \in Workers, Worker(w)
        PROVE  /\ spc' = spc /\ diffErr' = diffErr /\ iterErr' = iterErr /\ ctxDone' = ctxDone
               /\ done => done'
    <2>1. spc' = spc /\ diffErr' = diffErr /\ iterErr' = iterErr /\ ctxDone' = ctxDone
      BY <1>2 DEF Worker, TakePage, WorkerExit, OpenStream, ProcessPage, BroadcastResume,
           FetchAccounts, SendPage, Requeue, Recount, DeadLetter, WorkerTryClose,
           sessionVars
    <2>2. done' = done \/ TryCloseDone
      BY <1>2 DEF Worker, TakePage, WorkerExit, OpenStream, ProcessPage, BroadcastResume,
           FetchAccounts, SendPage, Requeue, Recount, DeadLetter, WorkerTryClose,
           sessionVars
    <2>3. TryCloseDone /\ done => done'
      BY Zenon DEF TryCloseDone
    <2> QED BY <2>1, <2>2, <2>3
  <1>3. CASE Session
    <2>1. CASE CloseInput
      <3>1. spc' = "close" /\ (~diffErr' => ~iterErr) /\ iterErr' = iterErr
        BY <2>1, Zenon DEF CloseInput
      <3> QED BY <3>1 DEF Verdict
    <2>2. CASE CloseInputSignals
      <3>1. spc = "close" /\ spc' = "summary" /\ diffErr' = diffErr /\ iterErr' = iterErr
        BY <2>2 DEF CloseInputSignals
      <3> QED BY <3>1 DEF Verdict
    <2>3. CASE RunReturns
      <3>1. /\ spc = "summary" /\ spc' = "ended" /\ diffErr' = diffErr /\ iterErr' = iterErr
            /\ done' = done /\ ctxDone' = ctxDone /\ (done \/ ctxDone)
        BY <2>3 DEF RunReturns
      <3> QED BY <3>1 DEF Verdict
    <2> QED BY <1>3, <2>1, <2>2, <2>3 DEF Session
  <1>4. CASE IteratorStops \/ Cancel \/ UNCHANGED vars
    BY <1>4 DEF Verdict, IteratorStops, Cancel, vars, sessionVars
  <1>5. ASSUME spc' = spc, diffErr' = diffErr, iterErr' = iterErr, ctxDone' = ctxDone,
               done => done'
        PROVE  Verdict'
    BY <1>5 DEF Verdict
  <1> QED BY <1>1, <1>2, <1>3, <1>4, <1>5 DEF Next, Ended

LEMMA NextNonceInv == NonceInv /\ [Next]_vars => NonceInv'
  <1> SUFFICES ASSUME NonceInv, [Next]_vars PROVE NonceInv'
    OBVIOUS
  <1>1. IInv /\ TypeOK /\ Kept /\ Finishing /\ Verdict
    BY DEF NonceInv, IInv
  <1>2. IInv' /\ Finishing' /\ Verdict'
    BY <1>1, NextIInv, NextFinishing, NextVerdict
  <1>3. \A x : /\ Somewhere(x)' => Somewhere(x)
               /\ Somewhere(x) => Somewhere(x)' \/ ctxDone' \/ iterErr'
               /\ ctxDone => ctxDone'
               /\ iterErr => iterErr'
    BY <1>1, NextKept
  <1>4. Missing' = Missing
    BY DEF Missing
  <1>5. Kept'
    BY <1>1, <1>3, <1>4 DEF Kept
  <1> QED BY <1>2, <1>5 DEF NonceInv

\* A session that was not cancelled and whose diff did not fail reports, for every
\* batch, page size, number of goroutines and pattern of failures, exactly the
\* missing nonces as delivered or dead-lettered.
THEOREM NothingLost == Spec => []NoNonceLost
  <1>1. NonceInv => NoNonceLost
    <2> SUFFICES ASSUME NonceInv, EndOk, ~ctxDone
                 PROVE  delivered \cup DeadNonces = Missing
      BY DEF NoNonceLost
    <2>1. done /\ ~iterErr
      BY DEF NonceInv, Verdict, EndOk
    <2>2. inputClosed /\ Admitting = {} /\ nonceChan = <<>> /\ Holding = {}
      BY <2>1, IInvDone DEF NonceInv, DoneOnlyWhenFinalised
    <2>3. \A p \in Parents : ppc[p] = "exited"
      BY <2>2 DEF NonceInv, IInv, InputClosedLast
    <2>4. work = <<>> /\ \A p \in Parents : localNonces[p] = <<>>
      BY <2>3, DispatcherAssumption DEF NonceInv, Finishing
    <2>5. \A x : ~Queued(x) /\ ~Buffered(x)
      BY <2>2, <2>4, EmptyHolds DEF Queued, Buffered
    <2>6. \A p \in Parents : SliceOf(p) = {} /\ AdmittedBy(p) = {}
      BY <2>3, <2>4, EmptyHolds DEF SliceOf, AdmittedBy, SendPC
    <2>7. \A w \in Workers : HeldBy(w) = {}
      BY <2>2 DEF HeldBy, Holding, HoldPC
    <2>8. \A x : Somewhere(x) <=> x \in delivered \cup DeadNonces
      BY <2>5, <2>6, <2>7 DEF Somewhere, Finalised
    <2> QED BY <2>1, <2>8 DEF NonceInv, Kept
  <1> QED BY <1>1, InitNonceInv, NextNonceInv, PTL DEF Spec

-----------------------------------------------------------------------------
(* No nonce is reported twice.  When the iterator returns each nonce once,   *)
(* a nonce is in one place of the session at a time: every step that moves   *)
(* it takes it from where it was.                                            *)

\* x is the k-th nonce of a batch, a slice or a page.
Nth(x, s, k) == k \in 1..Len(s) /\ x = s[k]

\* x is at position k of the place of kind c that belongs to a.
At(x, c, a, k) ==
  \/ c = "queue" /\ a \in 1..Len(work) /\ Nth(x, work[a], k)
  \/ c = "slice" /\ a \in Parents /\ Nth(x, localNonces[a], k)
  \/ c = "page" /\ a \in Parents /\ ppc[a] \in SendPC /\ Nth(x, ppage[a].nonces, k)
  \/ c = "channel" /\ a \in 1..Len(nonceChan) /\ Nth(x, nonceChan[a].nonces, k)
  \/ c = "held" /\ a \in Workers /\ wpc[a] \in HoldPC /\ Nth(x, wpage[a].nonces, k)
  \/ c = "delivered" /\ a = 0 /\ k = 0 /\ x \in delivered
  \/ c = "dead" /\ a = 0 /\ k = 0 /\ x \in DeadNonces

OnePlaceEach ==
  \A x, c, a, k, d, b, m : At(x, c, a, k) /\ At(x, d, b, m) => c = d /\ a = b /\ k = m

\* Positions in two slices joined.
LEMMA NthCat ==
  ASSUME NEW s \in Seq(Nat), NEW t \in Seq(Nat), NEW x, NEW k, Nth(x, s \o t, k)
  PROVE  /\ k \in Nat \ {0}
         /\ \/ k <= Len(s) /\ Nth(x, s, k)
            \/ k > Len(s) /\ Nth(x, t, k - Len(s))
  <1>1. PICK m \in Nat, n \in Nat : m = Len(s) /\ n = Len(t)
    OBVIOUS
  <1>2. k \in 1..m + n /\ x = (s \o t)[k]
    BY <1>1, ConcatProperties DEF Nth
  <1>3. (s \o t)[k] = IF k <= m THEN s[k] ELSE t[k - m]
    BY <1>1, <1>2, ConcatProperties
  <1>4. CASE k <= m
    BY <1>1, <1>2, <1>3, <1>4 DEF Nth
  <1>5. CASE ~(k <= m)
    <2>1. k - m \in 1..n /\ k > m
      BY <1>2, <1>5
    <2> QED BY <1>1, <1>2, <1>3, <1>5, <2>1 DEF Nth
  <1> QED BY <1>4, <1>5

\* Positions in the two parts of a slice that was cut.
LEMMA NthCut ==
  ASSUME NEW s \in Seq(Nat), NEW n \in 0..Len(s), NEW x, NEW k
  PROVE  /\ Nth(x, SubSeq(s, 1, n), k) => k \in Nat \ {0} /\ k <= n /\ Nth(x, s, k)
         /\ Nth(x, SubSeq(s, n + 1, Len(s)), k) => k \in Nat \ {0} /\ Nth(x, s, k + n)
  <1>1. PICK l \in Nat : l = Len(s) /\ n \in Nat /\ n <= l
    OBVIOUS
  <1>2. Nth(x, SubSeq(s, 1, n), k) => k \in Nat \ {0} /\ k <= n /\ Nth(x, s, k)
    <2>1. Len(SubSeq(s, 1, n)) = n /\ \A i \in 1..n : SubSeq(s, 1, n)[i] = s[i]
      BY <1>1
    <2> QED BY <1>1, <2>1 DEF Nth
  <1>3. Nth(x, SubSeq(s, n + 1, Len(s)), k) => k \in Nat \ {0} /\ Nth(x, s, k + n)
    <2>1. /\ Len(SubSeq(s, n + 1, l)) = l - n
          /\ \A i \in 1..l - n : SubSeq(s, n + 1, l)[i] = s[i + n]
      BY <1>1
    <2>2. \A i \in 1..l - n : i + n \in 1..l
      BY <1>1
    <2>3. PICK t : t = SubSeq(s, n + 1, l)
      OBVIOUS
    <2>4. Nth(x, t, k) => k \in 1..l - n /\ x = s[k + n] /\ k + n \in 1..l
      BY <2>1, <2>2, <2>3 DEF Nth
    <2>5. k \in 1..l - n => k \in Nat \ {0}
      BY <1>1
    <2> QED BY <1>1, <2>3, <2>4, <2>5 DEF Nth
  <1> QED BY <1>2, <1>3

\* Each nonce of a slice has a position.
LEMMA NthOf ==
  ASSUME NEW s \in Seq(Nat), NEW x \in Elems(s)
  PROVE  \E k : Nth(x, s, k)
  <1>1. DOMAIN s = 1..Len(s)
    OBVIOUS
  <1>2. PICK k \in DOMAIN s : x = s[k]
    BY DEF Elems
  <1> QED BY <1>1, <1>2 DEF Nth

\* A slice without repetitions has as many nonces as positions.
LEMMA CardElems ==
  ASSUME NEW s \in Seq(Nat), \A x, k, m : Nth(x, s, k) /\ Nth(x, s, m) => k = m
  PROVE  IsFiniteSet(Elems(s)) /\ Cardinality(Elems(s)) = Len(s)
  <1>1. PICK n \in Nat : n = Len(s) /\ DOMAIN s = 1..n
    OBVIOUS
  <1>2. s \in [1..n -> Elems(s)]
    BY <1>1 DEF Elems
  <1>3. \A i, j \in 1..n : s[i] = s[j] => i = j
    BY <1>1 DEF Nth
  <1>4. \A y \in Elems(s) : \E i \in 1..n : s[i] = y
    BY <1>1 DEF Elems
  <1>5. s \in Bijection(1..n, Elems(s))
    BY <1>2, <1>3, <1>4 DEF Bijection, Injection, Surjection, IsInjective
  <1>6. ExistsBijection(1..n, Elems(s))
    BY <1>5 DEF ExistsBijection
  <1>7. IsFiniteSet(1..n) /\ Cardinality(1..n) = n
    BY FS_Interval
  <1> QED BY <1>1, <1>6, <1>7, FS_Bijection

\* The batch a parent pulls leaves the queue for the end of its slice.
LEMMA PullOne ==
  ASSUME TypeOK, OnePlaceEach, NEW p \in Parents,
         work # <<>>, work' = Tail(work),
         localNonces' = [localNonces EXCEPT ![p] = @ \o Head(work)],
         \A x, a, k : At(x, "page", a, k)' => At(x, "page", a, k),
         nonceChan' = nonceChan, UNCHANGED workerVars, UNCHANGED resultVars
  PROVE  OnePlaceEach'
  <1>1. /\ work \in Seq(Seq(Nat)) /\ Len(work) \in Nat /\ Len(work) >= 1
        /\ localNonces \in [Parents -> Seq(Nat)] /\ Head(work) \in Seq(Nat)
        /\ Head(work) = work[1]
    BY HeadTailProperties, EmptySeq DEF TypeOK
  <1>2. PICK l \in Nat : l = Len(localNonces[p])
    BY <1>1
  <1>3. ASSUME NEW x, NEW a, NEW k, At(x, "queue", a, k)'
        PROVE  a \in Nat \ {0} /\ At(x, "queue", a + 1, k)
    <2>1. a \in 1..Len(Tail(work)) /\ Nth(x, Tail(work)[a], k)
      BY <1>3 DEF At
    <2>2. a \in Nat \ {0} /\ a + 1 \in 1..Len(work) /\ Tail(work)[a] = work[a + 1]
      BY <1>1, <2>1
    <2> QED BY <2>1, <2>2 DEF At
  <1>4. ASSUME NEW x, NEW a, NEW k, At(x, "slice", a, k)'
        PROVE  \/ At(x, "slice", a, k) /\ (a = p => k \in Nat /\ k <= l)
               \/ a = p /\ k \in Nat /\ k > l /\ At(x, "queue", 1, k - l)
    <2>1. a \in Parents /\ Nth(x, localNonces'[a], k)
      BY <1>4 DEF At
    <2>2. CASE a # p
      BY <1>1, <2>1, <2>2 DEF At
    <2>3. CASE a = p
      <3>1. Nth(x, localNonces[p] \o Head(work), k)
        BY <1>1, <2>1, <2>3
      <3>2. /\ k \in Nat
            /\ \/ k <= l /\ Nth(x, localNonces[p], k)
               \/ k > l /\ Nth(x, work[1], k - l)
        BY <1>1, <1>2, <3>1, NthCat
      <3>3. 1 \in 1..Len(work)
        BY <1>1
      <3> QED BY <2>1, <2>3, <3>2, <3>3 DEF At
    <2> QED BY <2>2, <2>3
  <1>5. ASSUME NEW x, NEW c, NEW a, NEW k, At(x, c, a, k)', c # "queue", c # "slice"
        PROVE  At(x, c, a, k)
    <2>1. CASE c = "page"
      BY <1>5, <2>1
    <2>2. CASE c # "page"
      BY <1>5, <2>2 DEF At, workerVars, resultVars, DeadNonces
    <2> QED BY <2>1, <2>2
  <1>6. SUFFICES ASSUME NEW x, NEW c, NEW a, NEW k, NEW d, NEW b, NEW m,
                        At(x, c, a, k)', At(x, d, b, m)'
                 PROVE  c = d /\ a = b /\ k = m
    BY DEF OnePlaceEach
  <1>7. \A c1, a1, k1, c2, a2, k2 :
           At(x, c1, a1, k1) /\ At(x, c2, a2, k2) => c1 = c2 /\ a1 = a2 /\ k1 = k2
    BY DEF OnePlaceEach
  <1> HIDE DEF At
  <1>8. \/ c = "queue" /\ a \in Nat \ {0} /\ At(x, "queue", a + 1, k)
        \/ c = "slice" /\ a = p /\ k \in Nat /\ k > l /\ At(x, "queue", 1, k - l)
        \/ /\ c # "queue" /\ At(x, c, a, k)
           /\ c = "slice" /\ a = p => k \in Nat /\ k <= l
    BY <1>3, <1>4, <1>5, <1>6
  <1>9. \/ d = "queue" /\ b \in Nat \ {0} /\ At(x, "queue", b + 1, m)
        \/ d = "slice" /\ b = p /\ m \in Nat /\ m > l /\ At(x, "queue", 1, m - l)
        \/ /\ d # "queue" /\ At(x, d, b, m)
           /\ d = "slice" /\ b = p => m \in Nat /\ m <= l
    BY <1>3, <1>4, <1>5, <1>6
  <1>10. CASE c = "queue" /\ a \in Nat \ {0} /\ At(x, "queue", a + 1, k)
    BY <1>7, <1>9, <1>10
  <1>11. CASE c = "slice" /\ a = p /\ k \in Nat /\ k > l /\ At(x, "queue", 1, k - l)
    BY <1>7, <1>9, <1>11
  <1>12. CASE c # "queue" /\ At(x, c, a, k)
    BY <1>7, <1>9, <1>12
  <1> QED BY <1>8, <1>10, <1>11, <1>12

\* A step that moves nothing, or only drops.
LEMMA StayOne ==
  ASSUME OnePlaceEach, \A x, c, a, k : At(x, c, a, k)' => At(x, c, a, k)
  PROVE  OnePlaceEach'
  BY DEF OnePlaceEach

\* The first n nonces of a slice leave it for the parent's page.
LEMMA CutOne ==
  ASSUME TypeOK, OnePlaceEach, NEW p \in Parents,
         NEW n \in 0..Len(localNonces[p]), NEW s, NEW t,
         \A x, k : Nth(x, s, k) => k \in Nat \ {0} /\ k <= n /\ Nth(x, localNonces[p], k),
         \A x, k : Nth(x, t, k) => k \in Nat \ {0} /\ Nth(x, localNonces[p], k + n),
         ppc[p] \notin SendPC,
         ppage' = [ppage EXCEPT ![p] = [nonces |-> s, retries |-> 0]],
         localNonces' = [localNonces EXCEPT ![p] = t],
         \A q \in Parents \ {p} : ppc'[q] = ppc[q],
         work' = work, nonceChan' = nonceChan, UNCHANGED workerVars, UNCHANGED resultVars
  PROVE  OnePlaceEach'
  <1>1. n \in Nat /\ localNonces \in [Parents -> Seq(Nat)] /\ ppage \in [Parents -> Page]
    BY DEF TypeOK
  <1>2. ASSUME NEW x, NEW a, NEW k, At(x, "slice", a, k)'
        PROVE  \/ a # p /\ At(x, "slice", a, k)
               \/ a = p /\ k \in Nat \ {0} /\ At(x, "slice", p, k + n)
    <2>1. a \in Parents /\ Nth(x, localNonces'[a], k)
      BY <1>2 DEF At
    <2>2. CASE a # p
      BY <1>1, <2>1, <2>2 DEF At
    <2>3. CASE a = p
      <3>1. Nth(x, t, k)
        BY <1>1, <2>1, <2>3
      <3> QED BY <2>3, <3>1 DEF At
    <2> QED BY <2>2, <2>3
  <1>3. ASSUME NEW x, NEW a, NEW k, At(x, "page", a, k)'
        PROVE  \/ a # p /\ At(x, "page", a, k)
               \/ a = p /\ k \in Nat \ {0} /\ k <= n /\ At(x, "slice", p, k)
    <2>1. a \in Parents /\ ppc'[a] \in SendPC /\ Nth(x, ppage'[a].nonces, k)
      BY <1>3 DEF At
    <2>2. CASE a # p
      BY <1>1, <2>1, <2>2 DEF At
    <2>3. CASE a = p
      <3>1. Nth(x, s, k)
        BY <1>1, <2>1, <2>3
      <3> QED BY <2>3, <3>1 DEF At
    <2> QED BY <2>2, <2>3
  <1>4. ASSUME NEW x, NEW c, NEW a, NEW k, At(x, c, a, k)', c # "page", c # "slice"
        PROVE  At(x, c, a, k)
    BY <1>4 DEF At, workerVars, resultVars, DeadNonces
  <1>5. SUFFICES ASSUME NEW x, NEW c, NEW a, NEW k, NEW d, NEW b, NEW m,
                        At(x, c, a, k)', At(x, d, b, m)'
                 PROVE  c = d /\ a = b /\ k = m
    BY DEF OnePlaceEach
  <1>6. \A c1, a1, k1, c2, a2, k2 :
           At(x, c1, a1, k1) /\ At(x, c2, a2, k2) => c1 = c2 /\ a1 = a2 /\ k1 = k2
    BY DEF OnePlaceEach
  <1>7. \/ c = "slice" /\ a = p /\ k \in Nat \ {0} /\ At(x, "slice", p, k + n)
        \/ c = "page" /\ a = p /\ k \in Nat \ {0} /\ k <= n /\ At(x, "slice", p, k)
        \/ (c \in {"slice", "page"} => a # p) /\ At(x, c, a, k)
    BY <1>2, <1>3, <1>4, <1>5
  <1>8. \/ d = "slice" /\ b = p /\ m \in Nat \ {0} /\ At(x, "slice", p, m + n)
        \/ d = "page" /\ b = p /\ m \in Nat \ {0} /\ m <= n /\ At(x, "slice", p, m)
        \/ (d \in {"slice", "page"} => b # p) /\ At(x, d, b, m)
    BY <1>2, <1>3, <1>4, <1>5
  <1>9. CASE c = "slice" /\ a = p /\ k \in Nat \ {0} /\ At(x, "slice", p, k + n)
    BY <1>1, <1>6, <1>8, <1>9
  <1>10. CASE c = "page" /\ a = p /\ k \in Nat \ {0} /\ k <= n /\ At(x, "slice", p, k)
    BY <1>1, <1>6, <1>8, <1>10
  <1>11. CASE (c \in {"slice", "page"} => a # p) /\ At(x, c, a, k)
    BY <1>1, <1>6, <1>8, <1>11
  <1> QED BY <1>7, <1>9, <1>10, <1>11

\* A page that is sent leaves its owner (a parent's page or a worker's) for the end
\* of the channel.
LEMMA AppendOne ==
  ASSUME TypeOK, OnePlaceEach, NEW pg \in Page, nonceChan' = Append(nonceChan, pg),
         NEW c0, NEW a0, c0 # "channel",
         \A x, k : Nth(x, pg.nonces, k) => At(x, c0, a0, k),
         \A x, k : ~At(x, c0, a0, k)',
         \A x, c, a, k : At(x, c, a, k)' /\ c # "channel" => At(x, c, a, k)
  PROVE  OnePlaceEach'
  <1>1. PICK n \in Nat : n = Len(nonceChan) /\ nonceChan \in Seq(Page)
    BY DEF TypeOK
  <1>2. ASSUME NEW x, NEW a, NEW k, At(x, "channel", a, k)'
        PROVE  \/ a \in 1..n /\ At(x, "channel", a, k)
               \/ a = n + 1 /\ At(x, c0, a0, k)
    <2>1. PICK t \in Seq(Page) : t = Append(nonceChan, pg)
      BY <1>1, AppendProperties
    <2>2. Len(t) = n + 1 /\ t[n + 1] = pg /\ \A i \in 1..n : t[i] = nonceChan[i]
      BY <1>1, <2>1, AppendProperties
    <2>3. a \in 1..n + 1 /\ Nth(x, t[a].nonces, k)
      BY <1>2, <2>1, <2>2 DEF At
    <2>4. a = n + 1 \/ a \in 1..n
      BY <2>3
    <2> QED BY <1>1, <2>2, <2>3, <2>4 DEF At
  <1>3. \A x, a, k : At(x, "channel", a, k) => a \in 1..n
    BY <1>1 DEF At
  <1>4. SUFFICES ASSUME NEW x, NEW c, NEW a, NEW k, NEW d, NEW b, NEW m,
                        At(x, c, a, k)', At(x, d, b, m)'
                 PROVE  c = d /\ a = b /\ k = m
    BY DEF OnePlaceEach
  <1>5. \A c1, a1, k1, c2, a2, k2 :
           At(x, c1, a1, k1) /\ At(x, c2, a2, k2) => c1 = c2 /\ a1 = a2 /\ k1 = k2
    BY DEF OnePlaceEach
  <1>6. \/ c = "channel" /\ a = n + 1 /\ At(x, c0, a0, k)
        \/ ~(c = c0 /\ a = a0) /\ At(x, c, a, k)
    BY <1>2, <1>4
  <1>7. \/ d = "channel" /\ b = n + 1 /\ At(x, c0, a0, m)
        \/ ~(d = c0 /\ b = a0) /\ At(x, d, b, m)
    BY <1>2, <1>4
  <1> QED BY <1>5, <1>6, <1>7

\* The page a worker takes leaves the head of the channel for the worker's hands.
LEMMA TakeOne ==
  ASSUME TypeOK, OnePlaceEach, NEW w \in Workers, nonceChan # <<>>,
         nonceChan' = Tail(nonceChan), wpage'[w] = Head(nonceChan), wpc[w] \notin HoldPC,
         \A v \in Workers \ {w} : wpc'[v] = wpc[v] /\ wpage'[v] = wpage[v],
         UNCHANGED parentVars, UNCHANGED resultVars
  PROVE  OnePlaceEach'
  <1>1. /\ nonceChan \in Seq(Page) /\ Len(nonceChan) \in Nat /\ Len(nonceChan) >= 1
        /\ Head(nonceChan) = nonceChan[1]
    BY HeadTailProperties, EmptySeq DEF TypeOK
  <1>2. ASSUME NEW x, NEW a, NEW k, At(x, "channel", a, k)'
        PROVE  a \in Nat \ {0} /\ At(x, "channel", a + 1, k)
    <2>1. a \in 1..Len(Tail(nonceChan)) /\ Nth(x, Tail(nonceChan)[a].nonces, k)
      BY <1>2 DEF At
    <2>2. /\ a \in Nat \ {0} /\ a + 1 \in 1..Len(nonceChan)
          /\ Tail(nonceChan)[a] = nonceChan[a + 1]
      BY <1>1, <2>1
    <2> QED BY <2>1, <2>2 DEF At
  <1>3. ASSUME NEW x, NEW a, NEW k, At(x, "held", a, k)'
        PROVE  \/ a # w /\ At(x, "held", a, k)
               \/ a = w /\ At(x, "channel", 1, k)
    <2>1. a \in Workers /\ wpc'[a] \in HoldPC /\ Nth(x, wpage'[a].nonces, k)
      BY <1>3 DEF At
    <2>2. 1 \in 1..Len(nonceChan)
      BY <1>1
    <2> QED BY <1>1, <2>1, <2>2 DEF At
  <1>4. ASSUME NEW x, NEW c, NEW a, NEW k, At(x, c, a, k)', c # "channel", c # "held"
        PROVE  At(x, c, a, k)
    BY <1>4 DEF At, parentVars, resultVars, DeadNonces
  <1>5. SUFFICES ASSUME NEW x, NEW c, NEW a, NEW k, NEW d, NEW b, NEW m,
                        At(x, c, a, k)', At(x, d, b, m)'
                 PROVE  c = d /\ a = b /\ k = m
    BY DEF OnePlaceEach
  <1>6. \A c1, a1, k1, c2, a2, k2 :
           At(x, c1, a1, k1) /\ At(x, c2, a2, k2) => c1 = c2 /\ a1 = a2 /\ k1 = k2
    BY DEF OnePlaceEach
  <1>7. \/ c = "channel" /\ a \in Nat \ {0} /\ At(x, "channel", a + 1, k)
        \/ c = "held" /\ a = w /\ At(x, "channel", 1, k)
        \/ c # "channel" /\ At(x, c, a, k) /\ ~(c = "held" /\ a = w)
    BY <1>2, <1>3, <1>4, <1>5
  <1>8. \/ d = "channel" /\ b \in Nat \ {0} /\ At(x, "channel", b + 1, m)
        \/ d = "held" /\ b = w /\ At(x, "channel", 1, m)
        \/ d # "channel" /\ At(x, d, b, m) /\ ~(d = "held" /\ b = w)
    BY <1>2, <1>3, <1>4, <1>5
  <1>9. CASE c = "channel" /\ a \in Nat \ {0} /\ At(x, "channel", a + 1, k)
    BY <1>6, <1>8, <1>9
  <1>10. CASE c = "held" /\ a = w /\ At(x, "channel", 1, k)
    BY <1>6, <1>8, <1>10
  <1>11. CASE c # "channel" /\ At(x, c, a, k) /\ ~(c = "held" /\ a = w)
    BY <1>6, <1>8, <1>11
  <1> QED BY <1>7, <1>9, <1>10, <1>11

\* The nonces of a finalised page leave the worker's hands for the summary.
LEMMA FinaliseOne ==
  ASSUME TypeOK, OnePlaceEach, NEW w \in Workers, NEW c0 \in {"delivered", "dead"},
         \A x : At(x, c0, 0, 0)' => At(x, c0, 0, 0) \/ \E k : At(x, "held", w, k),
         \A x, k : ~At(x, "held", w, k)',
         \A x, c, a, k : At(x, c, a, k)' /\ c # c0 => At(x, c, a, k)
  PROVE  OnePlaceEach'
  <1>1. \A x, a, k : At(x, c0, a, k)' => a = 0 /\ k = 0
    BY DEF At
  <1>2. SUFFICES ASSUME NEW x, NEW c, NEW a, NEW k, NEW d, NEW b, NEW m,
                        At(x, c, a, k)', At(x, d, b, m)'
                 PROVE  c = d /\ a = b /\ k = m
    BY DEF OnePlaceEach
  <1>3. \A c1, a1, k1, c2, a2, k2 :
           At(x, c1, a1, k1) /\ At(x, c2, a2, k2) => c1 = c2 /\ a1 = a2 /\ k1 = k2
    BY DEF OnePlaceEach
  <1>4. \/ c = c0 /\ a = 0 /\ k = 0 /\ (At(x, c0, 0, 0) \/ \E j : At(x, "held", w, j))
        \/ c # c0 /\ At(x, c, a, k) /\ ~(c = "held" /\ a = w)
    BY <1>1, <1>2
  <1>5. \/ d = c0 /\ b = 0 /\ m = 0 /\ (At(x, c0, 0, 0) \/ \E j : At(x, "held", w, j))
        \/ d # c0 /\ At(x, d, b, m) /\ ~(d = "held" /\ b = w)
    BY <1>1, <1>2
  <1> QED BY <1>3, <1>4, <1>5

\* Every step of a parent keeps each nonce in one place.
LEMMA ParentOne ==
  ASSUME TypeOK, OnePlaceEach, NEW p \in Parents, Parent(p)
  PROVE  OnePlaceEach'
  <1> USE DEF TypeOK
  <1>a. ppage[p] \in Page /\ localNonces[p] \in Seq(Nat) /\ nonceChan \in Seq(Page)
    OBVIOUS
  <1>b. UNCHANGED workerVars /\ UNCHANGED resultVars
    BY DEF Parent, GateFast, GateCheck, GateWait, WatcherFires, PullBatch, FlushPage,
           FlushFinal, Abort, EnqueueSend, EnqueueCount, EnqueueCancelled,
           ParentTryClose
  <1>c. \A q \in Parents \ {p} : ppc'[q] = ppc[q]
    BY DEF Parent, GateFast, GateCheck, GateWait, WatcherFires, PullBatch, FlushPage,
           FlushFinal, Abort, EnqueueSend, EnqueueCount, EnqueueCancelled,
           ParentTryClose, parentVars, ParentGoto, Admit
  <1>d. \A q \in Parents \ {p} : ppage'[q] = ppage[q]
    BY DEF Parent, GateFast, GateCheck, GateWait, WatcherFires, PullBatch, FlushPage,
           FlushFinal, Abort, EnqueueSend, EnqueueCount, EnqueueCancelled,
           ParentTryClose, parentVars, Admit
  <1>e. ASSUME ppc'[p] \in SendPC => ppc[p] \in SendPC /\ ppage'[p] = ppage[p],
               NEW x, NEW a, NEW k, At(x, "page", a, k)'
        PROVE  At(x, "page", a, k) /\ (a = p => ppc'[p] \in SendPC)
    <2>1. a \in Parents /\ ppc'[a] \in SendPC /\ Nth(x, ppage'[a].nonces, k)
      BY <1>e DEF At
    <2>2. CASE a = p
      BY <1>e, <2>1, <2>2 DEF At
    <2>3. CASE a # p
      BY <1>c, <1>d, <2>1, <2>3 DEF At
    <2> QED BY <2>2, <2>3
  <1>f. ASSUME work' = work, localNonces' = localNonces,
               ppc'[p] \in SendPC => ppc[p] \in SendPC /\ ppage'[p] = ppage[p],
               NEW x, NEW c, NEW a, NEW k, At(x, c, a, k)', c # "channel"
        PROVE  At(x, c, a, k)
    <2>1. CASE c = "page"
      BY <1>e, <1>f, <2>1
    <2>2. CASE c # "page"
      BY <1>b, <1>f, <2>2 DEF At, workerVars, resultVars, DeadNonces
    <2> QED BY <2>1, <2>2
  <1>g. ASSUME work' = work, localNonces' = localNonces, nonceChan' = nonceChan,
               ppc'[p] \in SendPC => ppc[p] \in SendPC /\ ppage'[p] = ppage[p]
        PROVE  OnePlaceEach'
    <2>1. ASSUME NEW x, NEW a, NEW k, At(x, "channel", a, k)' PROVE At(x, "channel", a, k)
      BY <1>g, <2>1 DEF At
    <2>2. \A x, c, a, k : At(x, c, a, k)' => At(x, c, a, k)
      BY <1>f, <1>g, <2>1
    <2> QED BY <2>2, StayOne
  <1>1. CASE GateFast(p) \/ GateCheck(p) \/ GateWait(p) \/ ParentTryClose(p)
             \/ EnqueueCount(p) \/ EnqueueCancelled(p)
    <2>1. nonceChan' = nonceChan /\ work' = work /\ localNonces' = localNonces
      BY <1>1 DEF GateFast, GateCheck, GateWait, ParentTryClose, EnqueueCount,
                  EnqueueCancelled, bufferVars
    <2>2. ppc'[p] \notin SendPC
      BY <1>1 DEF GateFast, GateCheck, GateWait, ParentTryClose, EnqueueCount,
                  EnqueueCancelled, ParentGoto, SendPC
    <2> QED BY <1>g, <2>1, <2>2
  <1>2. CASE WatcherFires(p)
    <2>1. nonceChan' = nonceChan /\ UNCHANGED parentVars
      BY <1>2 DEF WatcherFires, bufferVars
    <2> QED BY <1>g, <2>1 DEF parentVars
  <1>3. CASE PullBatch(p)
    <2>1. nonceChan' = nonceChan /\ ppc'[p] \notin SendPC
      BY <1>3 DEF PullBatch, bufferVars, ParentGoto, SendPC
    <2>2. CASE work' = work /\ localNonces' = localNonces
      BY <1>g, <2>1, <2>2
    <2>3. CASE /\ work # <<>> /\ work' = Tail(work)
               /\ localNonces' = [localNonces EXCEPT ![p] = @ \o Head(work)]
      <3>1. \A x, a, k : At(x, "page", a, k)' => At(x, "page", a, k)
        BY <1>e, <2>1
      <3> QED BY <1>b, <2>1, <2>3, <3>1, PullOne
    <2> QED BY <1>3, <2>2, <2>3 DEF PullBatch
  <1>4. CASE FlushPage(p) /\ Len(localNonces[p]) >= PageSize
    <2>1. /\ Admit(p, SubSeq(localNonces[p], 1, PageSize), "sendFlush")
          /\ localNonces' = [localNonces EXCEPT
                ![p] = SubSeq(localNonces[p], PageSize + 1, Len(localNonces[p]))]
          /\ work' = work /\ nonceChan' = nonceChan /\ ppc[p] \notin SendPC
      BY <1>4 DEF FlushPage, SendPC
    <2>2. PageSize \in 0..Len(localNonces[p])
      BY <1>a, <1>4, DispatcherAssumption
    <2>3. PICK s, t : /\ s = SubSeq(localNonces[p], 1, PageSize)
                      /\ t = SubSeq(localNonces[p], PageSize + 1, Len(localNonces[p]))
      OBVIOUS
    <2>4. \A x, k :
            /\ Nth(x, s, k) => k \in Nat \ {0} /\ k <= PageSize /\ Nth(x, localNonces[p], k)
            /\ Nth(x, t, k) => k \in Nat \ {0} /\ Nth(x, localNonces[p], k + PageSize)
      BY <1>a, <2>2, <2>3, NthCut
    <2>5. /\ ppage' = [ppage EXCEPT ![p] = [nonces |-> s, retries |-> 0]]
          /\ localNonces' = [localNonces EXCEPT ![p] = t]
      BY <2>1, <2>3 DEF Admit
    <2> HIDE DEF TypeOK
    <2> QED BY <1>b, <1>c, <2>1, <2>2, <2>4, <2>5, CutOne
  <1>5. CASE (FlushFinal(p) \/ Abort(p)) /\ localNonces[p] # <<>>
    <2>1. /\ Admit(p, localNonces[p], "sendFinal")
          /\ localNonces' = [localNonces EXCEPT ![p] = <<>>]
          /\ work' = work /\ nonceChan' = nonceChan /\ ppc[p] \notin SendPC
      BY <1>5 DEF FlushFinal, Abort, SendPC
    <2>2. PICK n \in Nat : n = Len(localNonces[p]) /\ n \in 0..Len(localNonces[p])
      BY <1>a
    <2>3. PICK s, t : s = localNonces[p] /\ t = <<>>
      OBVIOUS
    <2>4. \A x, k :
            /\ Nth(x, s, k) => k \in Nat \ {0} /\ k <= n /\ Nth(x, localNonces[p], k)
            /\ Nth(x, t, k) => k \in Nat \ {0} /\ Nth(x, localNonces[p], k + n)
      BY <1>a, <2>2, <2>3 DEF Nth
    <2>5. /\ ppage' = [ppage EXCEPT ![p] = [nonces |-> s, retries |-> 0]]
          /\ localNonces' = [localNonces EXCEPT ![p] = t]
      BY <2>1, <2>3 DEF Admit
    <2> HIDE DEF TypeOK
    <2> QED BY <1>b, <1>c, <2>1, <2>2, <2>4, <2>5, CutOne
  <1>6. CASE \/ FlushPage(p) /\ ~(Len(localNonces[p]) >= PageSize)
             \/ (FlushFinal(p) \/ Abort(p)) /\ localNonces[p] = <<>>
    <2>1. nonceChan' = nonceChan /\ work' = work /\ localNonces' = localNonces
      BY <1>6 DEF FlushPage, FlushFinal, Abort
    <2>2. ppc'[p] \notin SendPC
      BY <1>6 DEF FlushPage, FlushFinal, Abort, ParentGoto, SendPC
    <2> QED BY <1>g, <2>1, <2>2
  <1>7. CASE EnqueueSend(p)
    <2>1. /\ nonceChan' = Append(nonceChan, ppage[p]) /\ work' = work
          /\ localNonces' = localNonces
          /\ ppc[p] \in SendPC /\ ppc'[p] \notin SendPC
      BY <1>7 DEF EnqueueSend, Sending, SendPC, ParentGoto
    <2>2. \A x, k : Nth(x, ppage[p].nonces, k) => At(x, "page", p, k)
      BY <2>1 DEF At
    <2>3. \A x, k : ~At(x, "page", p, k)'
      BY <1>e, <2>1
    <2>4. \A x, c, a, k : At(x, c, a, k)' /\ c # "channel" => At(x, c, a, k)
      BY <1>f, <2>1
    <2> HIDE DEF TypeOK
    <2> QED BY <1>a, <2>1, <2>2, <2>3, <2>4, AppendOne
  <1> QED BY <1>1, <1>2, <1>3, <1>4, <1>5, <1>6, <1>7 DEF Parent

\* Every step of a worker keeps each nonce in one place.
LEMMA WorkerOne ==
  ASSUME TypeOK, OnePlaceEach, NEW w \in Workers, Worker(w)
  PROVE  OnePlaceEach'
  <1> USE DEF TypeOK
  <1>a. wpage[w] \in Page /\ nonceChan \in Seq(Page)
    OBVIOUS
  <1>b. UNCHANGED parentVars
    BY DEF Worker, TakePage, WorkerExit, OpenStream, ProcessPage, BroadcastResume,
           FetchAccounts, SendPage, Requeue, Recount, DeadLetter, WorkerTryClose
  <1>c. \A v \in Workers \ {w} : wpc'[v] = wpc[v]
    BY DEF Worker, TakePage, WorkerExit, OpenStream, ProcessPage, BroadcastResume,
           FetchAccounts, SendPage, Requeue, Recount, DeadLetter, WorkerTryClose,
           WorkerGoto, HandleFailure
  <1>d. \A v \in Workers \ {w} : wpage'[v] = wpage[v]
    BY DEF Worker, TakePage, WorkerExit, OpenStream, ProcessPage, BroadcastResume,
           FetchAccounts, SendPage, Requeue, Recount, DeadLetter, WorkerTryClose,
           HandleFailure
  <1>e. ASSUME wpc'[w] \in HoldPC => wpc[w] \in HoldPC /\ wpage'[w].nonces = wpage[w].nonces,
               NEW x, NEW c, NEW a, NEW k, At(x, c, a, k)', c = "held"
        PROVE  At(x, c, a, k) /\ (a = w => wpc'[w] \in HoldPC)
    <2>1. a \in Workers /\ wpc'[a] \in HoldPC /\ Nth(x, wpage'[a].nonces, k)
      BY <1>e DEF At
    <2>2. CASE a = w
      BY <1>e, <2>1, <2>2 DEF At
    <2>3. CASE a # w
      BY <1>c, <1>d, <1>e, <2>1, <2>3 DEF At
    <2> QED BY <2>2, <2>3
  <1>f. ASSUME NEW x, NEW c, NEW a, NEW k, At(x, c, a, k)', c \in {"queue", "slice", "page"}
        PROVE  At(x, c, a, k)
    BY <1>b, <1>f DEF At, parentVars
  <1>g. ASSUME nonceChan' = nonceChan, NEW x, NEW c, NEW a, NEW k,
               At(x, c, a, k)', c = "channel"
        PROVE  At(x, c, a, k)
    BY <1>g DEF At
  <1>h. ASSUME delivered' = delivered, NEW x, NEW c, NEW a, NEW k,
               At(x, c, a, k)', c = "delivered"
        PROVE  At(x, c, a, k)
    BY <1>h DEF At
  <1>i. ASSUME deadLetters' = deadLetters, NEW x, NEW c, NEW a, NEW k,
               At(x, c, a, k)', c = "dead"
        PROVE  At(x, c, a, k)
    BY <1>i DEF At, DeadNonces
  <1>j. \A x, c, a, k : At(x, c, a, k)' =>
          c \in {"queue", "slice", "page", "channel", "held", "delivered", "dead"}
    BY DEF At
  <1>1. CASE \/ WorkerExit(w) \/ Recount(w) \/ WorkerTryClose(w) \/ OpenStream(w)
             \/ ProcessPage(w) \/ BroadcastResume(w) \/ FetchAccounts(w)
    <2>1. nonceChan' = nonceChan /\ UNCHANGED resultVars
      BY <1>1 DEF WorkerExit, Recount, WorkerTryClose, OpenStream, ProcessPage,
                  BroadcastResume, FetchAccounts, bufferVars
    <2>2. wpc'[w] \in HoldPC => wpc[w] \in HoldPC
      BY <1>1 DEF WorkerExit, Recount, WorkerTryClose, OpenStream, ProcessPage,
                  BroadcastResume, FetchAccounts, HandleFailure, WorkerGoto, HoldPC
    <2>3. wpc'[w] \in HoldPC => wpage'[w].nonces = wpage[w].nonces
      <3>1. HandleFailure(w) => wpage'[w].nonces = wpage[w].nonces
        BY DEF HandleFailure, Page
      <3>2. HandleFailure(w) \/ wpage' = wpage \/ wpc'[w] = "idle"
        BY <1>1 DEF WorkerExit, Recount, WorkerTryClose, OpenStream, ProcessPage,
                  BroadcastResume, FetchAccounts, WorkerGoto
      <3> QED BY <3>1, <3>2 DEF HoldPC
    <2> HIDE DEF TypeOK
    <2>4. \A x, c, a, k : At(x, c, a, k)' => At(x, c, a, k)
      BY <1>e, <1>f, <1>g, <1>h, <1>i, <1>j, <2>1, <2>2, <2>3 DEF resultVars
    <2> QED BY <2>4, StayOne
  <1>2. CASE TakePage(w)
    <2>1. /\ nonceChan # <<>> /\ nonceChan' = Tail(nonceChan) /\ UNCHANGED resultVars
          /\ wpage'[w] = Head(nonceChan) /\ wpc[w] \notin HoldPC
      BY <1>2 DEF TakePage, HoldPC
    <2> HIDE DEF TypeOK
    <2> QED BY <1>b, <1>c, <1>d, <2>1, TakeOne
  <1>3. CASE SendPage(w)
    <2>1. nonceChan' = nonceChan /\ deadLetters' = deadLetters /\ wpc[w] \in HoldPC
      BY <1>3 DEF SendPage, HoldPC
    <2>2. CASE delivered' = delivered /\ HandleFailure(w)
      <3>1. wpage'[w].nonces = wpage[w].nonces
        BY <2>2 DEF HandleFailure, Page
      <3>2. \A x, c, a, k : At(x, c, a, k)' => At(x, c, a, k)
        BY <1>e, <1>f, <1>g, <1>h, <1>i, <1>j, <2>1, <2>2, <3>1
      <3> QED BY <3>2, StayOne
    <2>3. CASE /\ delivered' = delivered \cup Elems(wpage[w].nonces)
               /\ WorkerGoto(w, "tryClose")
      <3>1. wpc'[w] \notin HoldPC
        BY <2>3 DEF WorkerGoto, HoldPC
      <3>2. \A x, k : ~At(x, "held", w, k)'
        BY <1>e, <3>1
      <3>3. \A x, c, a, k : At(x, c, a, k)' /\ c # "delivered" => At(x, c, a, k)
        BY <1>e, <1>f, <1>g, <1>i, <1>j, <2>1, <3>1
      <3>4. ASSUME NEW x, At(x, "delivered", 0, 0)'
            PROVE  At(x, "delivered", 0, 0) \/ \E k : At(x, "held", w, k)
        <4>1. x \in delivered \/ x \in Elems(wpage[w].nonces)
          BY <2>3, <3>4 DEF At
        <4>2. x \in Elems(wpage[w].nonces) => \E k : Nth(x, wpage[w].nonces, k)
          <5>1. wpage[w].nonces \in Seq(Nat)
            BY <1>a, PageType
          <5> QED BY <5>1, NthOf
        <4> QED BY <2>1, <4>1, <4>2 DEF At
      <3> HIDE DEF TypeOK
      <3> QED BY <3>2, <3>3, <3>4, FinaliseOne
    <2> QED BY <1>3, <2>2, <2>3 DEF SendPage
  <1>4. CASE Requeue(w)
    <2>1. UNCHANGED resultVars /\ wpage' = wpage /\ wpc[w] \in HoldPC
      BY <1>4 DEF Requeue, HoldPC
    <2>2. CASE nonceChan' = Append(nonceChan, wpage[w]) /\ WorkerGoto(w, "recount")
      <3>1. wpc'[w] \notin HoldPC
        BY <2>2 DEF WorkerGoto, HoldPC
      <3>2. \A x, k : Nth(x, wpage[w].nonces, k) => At(x, "held", w, k)
        BY <2>1 DEF At
      <3>3. \A x, k : ~At(x, "held", w, k)'
        BY <1>e, <3>1
      <3>4. \A x, c, a, k : At(x, c, a, k)' /\ c # "channel" => At(x, c, a, k)
        BY <1>e, <1>f, <1>h, <1>i, <1>j, <2>1, <3>1 DEF resultVars
      <3> HIDE DEF TypeOK
      <3> QED BY <1>a, <2>2, <3>2, <3>3, <3>4, AppendOne
    <2>3. CASE nonceChan' = nonceChan /\ WorkerGoto(w, "dead")
      <3>1. \A x, c, a, k : At(x, c, a, k)' => At(x, c, a, k)
        BY <1>e, <1>f, <1>g, <1>h, <1>i, <1>j, <2>1, <2>3 DEF resultVars
      <3> QED BY <3>1, StayOne
    <2> QED BY <1>4, <2>2, <2>3 DEF Requeue
  <1>5. CASE DeadLetter(w)
    <2>1. /\ nonceChan' = nonceChan /\ delivered' = delivered
          /\ deadLetters' = deadLetters \cup {wpage[w]}
          /\ wpc[w] \in HoldPC /\ wpc'[w] \notin HoldPC
      BY <1>5 DEF DeadLetter, WorkerGoto, HoldPC
    <2>2. \A x, k : ~At(x, "held", w, k)'
      BY <1>e, <2>1
    <2>3. \A x, c, a, k : At(x, c, a, k)' /\ c # "dead" => At(x, c, a, k)
      BY <1>e, <1>f, <1>g, <1>h, <1>j, <2>1
    <2>4. ASSUME NEW x, At(x, "dead", 0, 0)'
          PROVE  At(x, "dead", 0, 0) \/ \E k : At(x, "held", w, k)
      <3>1. x \in DeadNonces \/ x \in Elems(wpage[w].nonces)
        BY <2>1, <2>4 DEF At, DeadNonces
      <3>2. x \in Elems(wpage[w].nonces) => \E k : Nth(x, wpage[w].nonces, k)
        <4>1. wpage[w].nonces \in Seq(Nat)
          BY <1>a, PageType
        <4> QED BY <4>1, NthOf
      <3> QED BY <2>1, <3>1, <3>2 DEF At
    <2> HIDE DEF TypeOK
    <2> QED BY <2>2, <2>3, <2>4, FinaliseOne
  <1> QED BY <1>1, <1>2, <1>3, <1>4, <1>5 DEF Worker

\* The summary's count is the number of delivered nonces, and each nonce is in one
\* place.
ReportInv ==
  /\ TypeOK /\ OnePlaceEach
  /\ IsFiniteSet(delivered) /\ deliveredAccounts = Cardinality(delivered)

\* The queue of distinct nonces the session starts with.
LEMMA InitReportInv ==
  ASSUME DistinctNonces, Init
  PROVE  ReportInv
  <1>1. DOMAIN Batches = 1..Len(Batches) /\ \A i \in DOMAIN Batches : Batches[i] \in Seq(Nat)
    BY DispatcherAssumption
  <1>2. \A i \in DOMAIN Batches : DOMAIN Batches[i] = 1..Len(Batches[i])
    BY <1>1
  <1>3. ASSUME NEW x, NEW c, NEW a, NEW k, At(x, c, a, k)
        PROVE  /\ c = "queue" /\ a \in DOMAIN Batches /\ k \in DOMAIN Batches[a]
               /\ x = Batches[a][k]
    <2>1. \A p \in Parents : ~Nth(x, localNonces[p], k)
      BY DEF Init, Nth
    <2>2. \A p \in Parents : ppc[p] \notin SendPC
      BY DEF Init, SendPC
    <2>3. \A w \in Workers : wpc[w] \notin HoldPC
      BY DEF Init, HoldPC
    <2>4. nonceChan = <<>> /\ x \notin delivered /\ x \notin DeadNonces
      BY DEF Init, DeadNonces
    <2>5. a \notin 1..Len(<<>>)
      OBVIOUS
    <2>6. c = "queue" /\ a \in 1..Len(work) /\ Nth(x, work[a], k)
      BY <1>3, <2>1, <2>2, <2>3, <2>4, <2>5 DEF At
    <2> QED BY <1>1, <1>2, <2>6 DEF Nth, Init
  <1>4. OnePlaceEach
    <2> SUFFICES ASSUME NEW x, NEW c, NEW a, NEW k, NEW d, NEW b, NEW m,
                        At(x, c, a, k), At(x, d, b, m)
                 PROVE  c = d /\ a = b /\ k = m
      BY DEF OnePlaceEach
    <2>1. /\ c = "queue" /\ a \in DOMAIN Batches /\ k \in DOMAIN Batches[a]
          /\ d = "queue" /\ b \in DOMAIN Batches /\ m \in DOMAIN Batches[b]
          /\ Batches[a][k] = Batches[b][m]
      BY <1>3
    <2> QED BY <2>1 DEF DistinctNonces
  <1>5. IsFiniteSet(delivered) /\ deliveredAccounts = Cardinality(delivered)
    BY FS_EmptySet DEF Init
  <1> QED BY <1>4, <1>5, InitTypeOK DEF ReportInv

\* A delivered page adds to the count as many nonces as the set gains.
LEMMA SendCounts ==
  ASSUME ReportInv, NEW w \in Workers, SendPage(w)
  PROVE  IsFiniteSet(delivered') /\ deliveredAccounts' = Cardinality(delivered')
  <1>1. TypeOK /\ OnePlaceEach
    BY DEF ReportInv
  <1>2. IsFiniteSet(delivered) /\ deliveredAccounts = Cardinality(delivered)
    BY DEF ReportInv
  <1>3. CASE delivered' = delivered /\ deliveredAccounts' = deliveredAccounts
    BY <1>2, <1>3
  <1>4. CASE /\ delivered' = delivered \cup Elems(wpage[w].nonces)
             /\ deliveredAccounts' = deliveredAccounts + Len(wpage[w].nonces)
    <2>1. PICK s \in Seq(Nat) : s = wpage[w].nonces
      BY <1>1, PageType DEF TypeOK
    <2>2. \A x, k : Nth(x, s, k) => At(x, "held", w, k)
      BY <2>1 DEF At, SendPage, HoldPC
    <2>3. \A x, k, m : Nth(x, s, k) /\ Nth(x, s, m) => k = m
      BY <1>1, <2>2 DEF OnePlaceEach
    <2>4. IsFiniteSet(Elems(s)) /\ Cardinality(Elems(s)) = Len(s)
      BY <2>3, CardElems
    <2>5. ASSUME NEW x \in delivered, x \in Elems(s) PROVE FALSE
      <3>1. PICK k : At(x, "held", w, k)
        BY <2>2, <2>5, NthOf
      <3>2. At(x, "delivered", 0, 0)
        BY DEF At
      <3>3. "held" = "delivered"
        BY <1>1, <3>1, <3>2 DEF OnePlaceEach
      <3> QED BY <3>3
    <2>6. delivered \cap Elems(s) = {}
      BY <2>5
    <2>7. /\ IsFiniteSet(delivered \cup Elems(s))
          /\ Cardinality(delivered \cup Elems(s))
               = Cardinality(delivered) + Cardinality(Elems(s)) - Cardinality({})
      BY <1>2, <2>4, <2>6, FS_Union
    <2>8. Cardinality({}) = 0 /\ Cardinality(delivered) \in Nat /\ Len(s) \in Nat
      BY <1>2, FS_EmptySet, FS_CardinalityType
    <2> QED BY <1>2, <1>4, <2>1, <2>4, <2>7, <2>8
  <1> QED BY <1>3, <1>4 DEF SendPage

LEMMA NextReportInv == ReportInv /\ [Next]_vars => ReportInv'
  <1> SUFFICES ASSUME ReportInv, [Next]_vars PROVE ReportInv'
    OBVIOUS
  <1>1. TypeOK /\ OnePlaceEach /\ TypeOK'
    BY NextTypeOK DEF ReportInv
  <1>2. ASSUME OnePlaceEach', delivered' = delivered, deliveredAccounts' = deliveredAccounts
        PROVE  ReportInv'
    BY <1>1, <1>2 DEF ReportInv
  <1>3. ASSUME NEW p \in Parents, Parent(p) PROVE ReportInv'
    <2>1. delivered' = delivered /\ deliveredAccounts' = deliveredAccounts
      BY <1>3 DEF Parent, GateFast, GateCheck, GateWait, WatcherFires, PullBatch,
           FlushPage, FlushFinal, Abort, EnqueueSend, EnqueueCount, EnqueueCancelled,
           ParentTryClose, resultVars
    <2> QED BY <1>1, <1>2, <1>3, <2>1, ParentOne
  <1>4. ASSUME NEW w \in Workers, Worker(w) PROVE ReportInv'
    <2>1. OnePlaceEach'
      BY <1>1, <1>4, WorkerOne
    <2>2. CASE SendPage(w)
      BY <1>1, <2>1, <2>2, SendCounts DEF ReportInv
    <2>3. CASE ~SendPage(w)
      <3>1. delivered' = delivered /\ deliveredAccounts' = deliveredAccounts
        BY <1>4, <2>3 DEF Worker, TakePage, WorkerExit, OpenStream, ProcessPage,
             BroadcastResume, FetchAccounts, Requeue, Recount, DeadLetter, WorkerTryClose,
             resultVars
      <3> QED BY <1>2, <2>1, <3>1
    <2> QED BY <2>2, <2>3
  <1>5. ASSUME Session \/ IteratorStops \/ Cancel \/ UNCHANGED vars PROVE ReportInv'
    <2>1. /\ UNCHANGED bufferVars /\ UNCHANGED workerVars /\ UNCHANGED resultVars
          /\ ppc' = ppc /\ localNonces' = localNonces /\ ppage' = ppage
      BY <1>5 DEF Session, CloseInput, CloseInputSignals, RunReturns, IteratorStops,
           Cancel, vars, parentVars
    <2>2. work' = work \/ \E n \in 0..Len(work) : work' = SubSeq(work, 1, n)
      BY <1>5 DEF Session, CloseInput, CloseInputSignals, RunReturns, IteratorStops,
           Cancel, vars, parentVars
    <2>3. \A a \in 1..Len(work') : a \in 1..Len(work) /\ work'[a] = work[a]
      <3>1. CASE work' = work
        BY <3>1
      <3>2. ASSUME NEW n \in 0..Len(work), work' = SubSeq(work, 1, n)
            PROVE  \A a \in 1..Len(work') : a \in 1..Len(work) /\ work'[a] = work[a]
        <4>1. work \in Seq(Seq(Nat)) /\ n \in Nat /\ n <= Len(work)
          BY <1>1 DEF TypeOK
        <4> QED BY <3>2, <4>1
      <3> QED BY <2>2, <3>1, <3>2
    <2>4. ASSUME NEW x, NEW c, NEW a, NEW k, At(x, c, a, k)' PROVE At(x, c, a, k)
      BY <2>1, <2>3, <2>4 DEF At, bufferVars, workerVars, resultVars, DeadNonces
    <2>5. OnePlaceEach'
      BY <1>1, <2>4, StayOne
    <2> QED BY <1>2, <2>1, <2>5 DEF resultVars
  <1> QED BY <1>3, <1>4, <1>5 DEF Next, Ended

\* When the account iterator returns each nonce once, the summary of every session,
\* whatever fails and is retried in it, counts no nonce twice and reports none both
\* as delivered and as permanently failed.
THEOREM ReportedOnce == DistinctNonces /\ Spec => []NoDoubleReport
  <1>1. ReportInv => NoDoubleReport
    <2> SUFFICES ASSUME ReportInv PROVE NoDoubleReport
      OBVIOUS
    <2>1. ASSUME NEW x \in delivered \cap DeadNonces PROVE FALSE
      <3>1. At(x, "delivered", 0, 0) /\ At(x, "dead", 0, 0)
        BY DEF At
      <3>2. "delivered" = "dead"
        BY <3>1 DEF ReportInv, OnePlaceEach
      <3> QED BY <3>2
    <2> QED BY <2>1 DEF ReportInv, NoDoubleReport
  <1>2. DistinctNonces /\ Init => ReportInv
    BY InitReportInv
  <1> QED BY <1>1, <1>2, NextReportInv, PTL DEF Spec

-----------------------------------------------------------------------------
(* The refinement of Delivery.  The two invariants above say what a page in  *)
(* a worker's hands is: nonces that are missing and not settled.             *)

\* Run's summary, and with it the answer, waits for every worker.
WorkersGone == spc = "ended" => \A w \in Workers : wpc[w] = "exited"

DeliveryInv == NonceInv /\ ReportInv /\ WorkersGone

Report == <<clientHas, delivered, deliveredAccounts, DeadNonces, ctxDone, AnswerSent>>

\* A worker that takes a step has not exited, so nothing has been answered.
LEMMA WorkerIsRunning ==
  ASSUME WorkersGone, NEW w \in Workers, Worker(w)
  PROVE  spc # "ended" /\ spc' = spc /\ diffErr' = diffErr
  <1>1. wpc[w] # "exited"
    BY DEF Worker, TakePage, WorkerExit, OpenStream, ProcessPage, BroadcastResume,
           FetchAccounts, SendPage, Requeue, Recount, DeadLetter, WorkerTryClose
  <1>2. spc' = spc /\ diffErr' = diffErr
    BY DEF Worker, TakePage, WorkerExit, OpenStream, ProcessPage, BroadcastResume,
           FetchAccounts, SendPage, Requeue, Recount, DeadLetter, WorkerTryClose, sessionVars
  <1> QED BY <1>1, <1>2 DEF WorkersGone

\* The diff parents settle nothing and answer nothing.
LEMMA ParentReports ==
  ASSUME NEW p \in Parents, Parent(p)
  PROVE  UNCHANGED Report /\ UNCHANGED wpc /\ UNCHANGED spc
  <1>1. UNCHANGED resultVars /\ UNCHANGED wpc /\ UNCHANGED <<spc, diffErr, ctxDone>>
    BY DEF Parent, GateFast, GateCheck, GateWait, WatcherFires, PullBatch, FlushPage,
           FlushFinal, Abort, EnqueueSend, EnqueueCount, EnqueueCancelled, ParentTryClose,
           workerVars, sessionVars
  <1> QED BY <1>1 DEF Report, resultVars, DeadNonces, AnswerSent, EndOk

LEMMA NextWorkersGone == WorkersGone /\ [Next]_vars => WorkersGone'
  <1> SUFFICES ASSUME WorkersGone, [Next]_vars PROVE WorkersGone'
    OBVIOUS
  <1>1. ASSUME NEW p \in Parents, Parent(p) PROVE WorkersGone'
    BY <1>1, ParentReports DEF WorkersGone
  <1>2. ASSUME NEW w \in Workers, Worker(w) PROVE WorkersGone'
    BY <1>2, WorkerIsRunning DEF WorkersGone
  <1>3. CASE RunReturns
    BY <1>3 DEF RunReturns, workerVars, WorkersGone
  <1>4. CASE CloseInput \/ CloseInputSignals \/ IteratorStops \/ Cancel \/ UNCHANGED vars
    BY <1>4 DEF CloseInput, CloseInputSignals, IteratorStops, Cancel, vars, workerVars,
                sessionVars, WorkersGone
  <1> QED BY <1>1, <1>2, <1>3, <1>4 DEF Next, Session, Ended

LEMMA HeldIsUnsettled ==
  ASSUME DeliveryInv, NEW w \in Workers, wpc[w] \in HoldPC
  PROVE  /\ Elems(wpage[w].nonces) \subseteq Missing \ (delivered \cup DeadNonces)
         /\ Cardinality(Elems(wpage[w].nonces)) = Len(wpage[w].nonces)
  <1>1. TypeOK /\ OnePlaceEach
    BY DEF DeliveryInv, ReportInv
  <1>2. PICK s \in Seq(Nat) : s = wpage[w].nonces
    BY <1>1, PageType DEF TypeOK
  <1>3. \A x, k : Nth(x, s, k) => At(x, "held", w, k)
    BY <1>2 DEF At
  <1>4. \A x, k, m : Nth(x, s, k) /\ Nth(x, s, m) => k = m
    BY <1>1, <1>3 DEF OnePlaceEach
  <1>5. Cardinality(Elems(s)) = Len(s)
    BY <1>4, CardElems
  <1>6. ASSUME NEW x \in Elems(s) PROVE x \in Missing /\ x \notin delivered /\ x \notin DeadNonces
    <2>1. PICK k : At(x, "held", w, k)
      BY <1>3, NthOf
    <2>2. ~At(x, "delivered", 0, 0)
      <3>1. "held" # "delivered"
        OBVIOUS
      <3> QED BY <1>1, <2>1, <3>1 DEF OnePlaceEach
    <2>3. ~At(x, "dead", 0, 0)
      <3>1. "held" # "dead"
        OBVIOUS
      <3> QED BY <1>1, <2>1, <3>1 DEF OnePlaceEach
    <2>4. x \notin delivered
      BY <2>2 DEF At
    <2>5. x \notin DeadNonces
      BY <2>3 DEF At
    <2>6. x \in HeldBy(w)
      BY <1>2 DEF HeldBy
    <2>7. x \in Missing
      BY <2>6 DEF DeliveryInv, NonceInv, Kept, Somewhere
    <2> QED BY <2>4, <2>5, <2>7
  <1> QED BY <1>2, <1>5, <1>6

\* An acknowledged page is delivered; one whose ACK is lost may have been stored.
LEMMA SendDelivers ==
  ASSUME DeliveryInv, NEW w \in Workers, SendPage(w)
  PROVE  AsDelivery!Deliver \/ AsDelivery!Store \/ UNCHANGED Report
  <1>1. PICK page : page = Elems(wpage[w].nonces)
    OBVIOUS
  <1>2. wpc[w] \in HoldPC /\ Worker(w)
    BY DEF SendPage, HoldPC, Worker
  <1>3. page \in SUBSET AsDelivery!Unsettled /\ Cardinality(page) = Len(wpage[w].nonces)
    BY <1>1, <1>2, HeldIsUnsettled DEF AsDelivery!Unsettled
  <1>4. AnswerSent = "none" /\ AnswerSent' = AnswerSent
    BY <1>2, WorkerIsRunning DEF DeliveryInv, AnswerSent
  <1>5. DeadNonces' = DeadNonces /\ ctxDone' = ctxDone
    BY DEF SendPage, DeadNonces, sessionVars
  <1>6. AsDelivery!Cardinality(page) = Cardinality(page)
    BY DEF AsDelivery!Cardinality, Cardinality
  <1>7. CASE /\ clientHas' = clientHas \cup page /\ delivered' = delivered \cup page
             /\ deliveredAccounts' = deliveredAccounts + Len(wpage[w].nonces)
    <2>1. deliveredAccounts' = deliveredAccounts + AsDelivery!Cardinality(page)
      BY <1>3, <1>6, <1>7
    <2> QED BY <1>3, <1>4, <1>5, <1>7, <2>1 DEF AsDelivery!Deliver
  <1>8. CASE /\ clientHas' \in {clientHas, clientHas \cup page}
             /\ UNCHANGED <<delivered, deliveredAccounts>>
    <2>1. CASE clientHas' = clientHas
      BY <1>4, <1>5, <1>8, <2>1 DEF Report
    <2>2. CASE clientHas' = clientHas \cup page
      BY <1>3, <1>4, <1>5, <1>8, <2>2 DEF AsDelivery!Store
    <2> QED BY <1>8, <2>1, <2>2
  <1> QED BY <1>1, <1>7, <1>8 DEF SendPage, ClientPage

\* A dead letter gives its page up.
LEMMA DeadLetterGivesUp ==
  ASSUME DeliveryInv, NEW w \in Workers, DeadLetter(w)
  PROVE  AsDelivery!GiveUp
  <1>1. PICK page : page = Elems(wpage[w].nonces)
    OBVIOUS
  <1>2. wpc[w] \in HoldPC /\ Worker(w)
    BY DEF DeadLetter, HoldPC, Worker
  <1>3. page \in SUBSET AsDelivery!Unsettled
    BY <1>1, <1>2, HeldIsUnsettled DEF AsDelivery!Unsettled
  <1>4. AnswerSent = "none" /\ AnswerSent' = AnswerSent
    BY <1>2, WorkerIsRunning DEF DeliveryInv, AnswerSent
  <1>5. DeadNonces' = DeadNonces \cup page
    BY <1>1 DEF DeadLetter, DeadNonces
  <1>6. /\ clientHas' \in {clientHas, clientHas \cup page}
        /\ UNCHANGED <<delivered, deliveredAccounts, ctxDone>>
    BY <1>1 DEF DeadLetter, sessionVars
  <1> QED BY <1>3, <1>4, <1>5, <1>6 DEF AsDelivery!GiveUp

\* The answer: with no error and no cancellation everything is settled.
LEMMA RunReturnsAnswers ==
  ASSUME NoNonceLost', RunReturns
  PROVE  AsDelivery!Answer
  <1>1. /\ UNCHANGED <<clientHas, delivered, deliveredAccounts, ctxDone, diffErr, DeadNonces>>
        /\ spc = "summary" /\ spc' = "ended"
    BY DEF RunReturns, resultVars, DeadNonces
  <1>2. AnswerSent = "none" /\ AnswerSent' = IF diffErr THEN "error" ELSE "ok"
    BY <1>1 DEF AnswerSent, EndOk
  <1>3. CASE diffErr
    BY <1>1, <1>2, <1>3 DEF AsDelivery!Answer
  <1>4. CASE ~diffErr
    <2>1. ~ctxDone => (delivered \cup DeadNonces)' = Missing'
      BY <1>1, <1>4 DEF NoNonceLost, EndOk
    <2>2. Missing' = Missing
      BY DEF Missing
    <2>3. ~ctxDone => AsDelivery!Unsettled = {}
      BY <1>1, <2>1, <2>2 DEF AsDelivery!Unsettled
    <2> QED BY <1>1, <1>2, <1>4, <2>3 DEF AsDelivery!Answer
  <1> QED BY <1>3, <1>4

LEMMA DeliveryStep ==
  ASSUME DeliveryInv, NoNonceLost', [Next]_vars
  PROVE  AsDelivery!Next \/ UNCHANGED Report
  <1>1. ASSUME NEW p \in Parents, Parent(p) PROVE UNCHANGED Report
    BY <1>1, ParentReports
  <1>2. ASSUME NEW w \in Workers, Worker(w) PROVE AsDelivery!Next \/ UNCHANGED Report
    <2>1. CASE SendPage(w)
      BY <2>1, SendDelivers DEF AsDelivery!Next
    <2>2. CASE DeadLetter(w)
      BY <2>2, DeadLetterGivesUp DEF AsDelivery!Next
    <2>3. CASE ~SendPage(w) /\ ~DeadLetter(w)
      <3>1. UNCHANGED resultVars /\ UNCHANGED <<spc, diffErr, ctxDone>>
        BY <1>2, <2>3 DEF Worker, TakePage, WorkerExit, OpenStream, ProcessPage,
             BroadcastResume, FetchAccounts, Requeue, Recount, WorkerTryClose, sessionVars
      <3> QED BY <3>1 DEF Report, resultVars, DeadNonces, AnswerSent, EndOk
    <2> QED BY <2>1, <2>2, <2>3
  <1>3. CASE RunReturns
    BY <1>3, RunReturnsAnswers DEF AsDelivery!Next
  <1>4. CASE Cancel
    <2>1. /\ UNCHANGED resultVars /\ UNCHANGED <<spc, diffErr>>
          /\ spc # "ended" /\ ctxDone' = TRUE
      BY <1>4 DEF Cancel
    <2>2. AnswerSent = "none" /\ AnswerSent' = AnswerSent /\ DeadNonces' = DeadNonces
      BY <2>1 DEF AnswerSent, EndOk, resultVars, DeadNonces
    <2>3. AsDelivery!Cancel
      BY <2>1, <2>2 DEF AsDelivery!Cancel, resultVars
    <2> QED BY <2>3 DEF AsDelivery!Next
  <1>5. CASE CloseInput \/ CloseInputSignals \/ IteratorStops \/ UNCHANGED vars
    <2>1. /\ UNCHANGED resultVars /\ UNCHANGED ctxDone
          /\ (spc # "ended" /\ spc' # "ended") \/ UNCHANGED <<spc, diffErr>>
      BY <1>5 DEF CloseInput, CloseInputSignals, IteratorStops, vars, sessionVars
    <2>2. AnswerSent' = AnswerSent
      BY <2>1 DEF AnswerSent, EndOk
    <2> QED BY <2>1, <2>2 DEF Report, resultVars, DeadNonces
  <1> QED BY <1>1, <1>2, <1>3, <1>4, <1>5 DEF Next, Session, Ended

\* When the account iterator returns each nonce once, a session implements Delivery, for
\* any batches, page size, numbers of goroutines, retries and faults: every nonce is settled
\* at most once and only while the session runs, what is delivered was stored by the
\* client, and a good answer to a session that was not cancelled means all are settled.
THEOREM Refinement == DistinctNonces /\ Spec => ImplementsDelivery
  <1>1. Init => AsDelivery!Init
    <2> SUFFICES ASSUME Init PROVE AsDelivery!Init
      OBVIOUS
    <2>1. DeadNonces = {} /\ AnswerSent = "none"
      BY DEF Init, DeadNonces, AnswerSent
    <2> QED BY <2>1 DEF Init, AsDelivery!Init
  <1>2. DistinctNonces /\ Init => DeliveryInv
    <2>1. Init => WorkersGone
      BY DEF Init, WorkersGone
    <2> QED BY <2>1, InitNonceInv, InitReportInv DEF DeliveryInv
  <1>3. DeliveryInv /\ [Next]_vars => DeliveryInv'
    BY NextNonceInv, NextReportInv, NextWorkersGone DEF DeliveryInv
  <1>4. DeliveryInv /\ NoNonceLost' /\ [Next]_vars => [AsDelivery!Next]_Report
    BY DeliveryStep
  <1> QED BY <1>1, <1>2, <1>3, <1>4, NothingLost, PTL
          DEF Spec, ImplementsDelivery, AsDelivery!Spec, AsDelivery!deliveryVars, Report

==============================================================================

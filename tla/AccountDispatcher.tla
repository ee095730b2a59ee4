-------------------------- MODULE AccountDispatcher --------------------------
(***************************************************************************)
(* One AccountSync session on the server, from the last ART chunk to the   *)
(* EndOfStream it answers with (ACCOUNTS_SYNC in data_router.go).  Three   *)
(* groups of goroutines share the dispatcher:                              *)
(*   - the diff parents (diffWithGRO) pull batches of accounts, keep the   *)
(*     nonces the client is missing and push them as pages;                *)
(*   - the dispatch workers (Run) take pages, fetch the accounts and send  *)
(*     them on a stream, requeueing or dead-lettering what fails;          *)
(*   - the session goroutine waits for the parents, closes the input and   *)
(*     waits for Run.                                                      *)
(* A step is what one goroutine does between two operations another one    *)
(* can see: a channel operation, an atomic add, a lock, a callback.  The   *)
(* parents' context is taken to end with the session's.                    *)
(***************************************************************************)
EXTENDS Integers, Sequences, FiniteSets

CONSTANTS
  Parents,         \* the diff parent goroutines
  Workers,         \* the dispatch worker goroutines
  Batches,         \* what NextBatch returns, each batch as the sequence of the
                   \* nonces in it that the client's ART does not contain
  PageSize,        \* NoncePageSize
  PauseThreshold,  \* NonceBufferPauseThreshold
  ResumePct,       \* NonceBufferResumePct
  NumDiffParents,  \* the parents the channel's capacity is computed for
  MaxRetries,      \* DispatchMaxRetries
  Faults           \* what the environment may do: see FaultKind

FaultKind == {"open",    \* OpenStream fails
              "fetch",   \* FetchAccounts fails
              "send",    \* a page or its ACK is lost, or the client NAKs it
              "iter",    \* NextBatch fails
              "cancel"}  \* the session's context is cancelled

ASSUME DispatcherAssumption ==
  /\ IsFiniteSet(Parents) /\ IsFiniteSet(Workers)
  /\ Parents # {} /\ Workers # {} /\ Parents \cap Workers = {}
  /\ Batches \in Seq(Seq(Nat))
  /\ PageSize \in Nat \ {0}
  /\ PauseThreshold \in Nat /\ PageSize <= PauseThreshold
  /\ ResumePct \in 1..99
  /\ NumDiffParents \in Nat
  /\ MaxRetries \in Nat
  /\ Faults \subseteq FaultKind

VARIABLES
  nonceChan,         \* the buffered channel: a sequence of pages
  nonceBufferCount,  \* the atomic count the pause gate reads
  inflight,          \* pages admitted minus pages finalised
  inputClosed, done, \* CloseInput was called; the done channel is closed
  ctxDone,           \* the session's context is cancelled
  pauseMu,           \* the goroutine that holds pauseMu, or "free"
  waiters,           \* the parents asleep in pauseCond.Wait
  watchers,          \* the parents whose context watcher has not fired
  work,              \* the batches not yet pulled from workChan
  ppc, localNonces, ppage, perr, \* per parent: control, nonces, page, error
  wpc, wpage, stream,            \* per worker: control, page, stream is open
  iterErr,           \* NextBatch failed
  spc, diffErr,      \* the session goroutine: control, ComputeAccountDiff failed
  delivered, deliveredAccounts,  \* the nonces of the pages that were ACKed, and
                                 \* the sum the summary reports
  deadLetters,       \* the pages recorded as permanently failed
  clientHas          \* the nonces the client has persisted

bufferVars  == <<nonceChan, nonceBufferCount, inflight>>
gateVars    == <<pauseMu, waiters, watchers>>
parentVars  == <<work, ppc, localNonces, ppage, perr>>
workerVars  == <<wpc, wpage, stream>>
resultVars  == <<delivered, deliveredAccounts, deadLetters, clientHas>>
sessionVars == <<inputClosed, done, ctxDone, iterErr, spc, diffErr>>
vars == <<bufferVars, gateVars, parentVars, workerVars, resultVars, sessionVars>>

Elems(s) == {s[i] : i \in DOMAIN s}

\* The nonces the client is missing: what the session has to deliver.
Missing == UNION {Elems(Batches[i]) : i \in DOMAIN Batches}

\* A noncePage.  Its index is only echoed in the client's ACK and is left out.
Page == [nonces : Seq(Nat), retries : 0..MaxRetries]
NoPage == [nonces |-> <<>>, retries |-> 0]

\* The capacity New gives nonceChan: worst-case nonces over nonces per page,
\* rounded up.
ChanCap == (PauseThreshold + NumDiffParents * PageSize + PageSize - 1) \div PageSize

ResumeThreshold == (PauseThreshold * ResumePct) \div 100

Init ==
  /\ nonceChan = <<>> /\ nonceBufferCount = 0 /\ inflight = 0
  /\ inputClosed = FALSE /\ done = FALSE /\ ctxDone = FALSE
  /\ pauseMu = "free" /\ waiters = {} /\ watchers = {}
  /\ work = Batches
  /\ ppc = [p \in Parents |-> "gate"]
  /\ localNonces = [p \in Parents |-> <<>>]
  /\ ppage = [p \in Parents |-> NoPage]
  /\ perr = [p \in Parents |-> FALSE]
  /\ wpc = [w \in Workers |-> "idle"]
  /\ wpage = [w \in Workers |-> NoPage]
  /\ stream = [w \in Workers |-> FALSE]
  /\ iterErr = FALSE /\ spc = "diff" /\ diffErr = FALSE
  /\ delivered = {} /\ deliveredAccounts = 0 /\ deadLetters = {}
  /\ clientHas = {}

-----------------------------------------------------------------------------
(* Lifecycle shared by every goroutine.                                    *)

\* tryCloseDone: both loads and the close as one step, taken at the load that
\* decides.  inputClosed is never reset, so no outcome is lost.
TryCloseDone == done' = (done \/ (inputClosed /\ inflight = 0))

\* The context is cancelled by the caller or by a failed heartbeat.
Cancel ==
  /\ "cancel" \in Faults /\ ~ctxDone /\ spc # "ended"
  /\ ctxDone' = TRUE
  /\ UNCHANGED <<bufferVars, gateVars, parentVars, workerVars, resultVars,
                 inputClosed, done, iterErr, spc, diffErr>>

-----------------------------------------------------------------------------
(* The diff parents.                                                       *)

ParentGoto(p, pc) == ppc' = [ppc EXCEPT ![p] = pc]

\* WaitForBatchStart, fast path, and the launch of the watcher on the slow one.
GateFast(p) ==
  /\ ppc[p] = "gate"
  /\ IF nonceBufferCount < PauseThreshold
     THEN ParentGoto(p, "pull") /\ UNCHANGED watchers
     ELSE ParentGoto(p, "locking") /\ watchers' = watchers \cup {p}
  /\ UNCHANGED <<bufferVars, pauseMu, waiters, work, localNonces, ppage, perr,
                 workerVars, resultVars, sessionVars>>

\* WaitForBatchStart, slow path: take pauseMu (for the first time or on being
\* woken), evaluate the loop condition, and leave or prepare to wait with the
\* lock still held.
GateCheck(p) ==
  /\ \/ ppc[p] = "locking"
     \/ ppc[p] = "waiting" /\ p \notin waiters
  /\ pauseMu = "free"
  /\ IF nonceBufferCount >= PauseThreshold /\ ~ctxDone
     THEN /\ pauseMu' = p
          /\ ParentGoto(p, "entering")
          /\ UNCHANGED watchers
     ELSE /\ ParentGoto(p, IF ctxDone THEN "abort" ELSE "pull")
          /\ watchers' = watchers \ {p}
          /\ UNCHANGED pauseMu
  /\ UNCHANGED <<bufferVars, waiters, work, localNonces, ppage, perr,
                 workerVars, resultVars, sessionVars>>

\* pauseCond.Wait: join the waiters and release pauseMu.
GateWait(p) ==
  /\ ppc[p] = "entering"
  /\ pauseMu' = "free"
  /\ waiters' = waiters \cup {p}
  /\ ParentGoto(p, "waiting")
  /\ UNCHANGED <<bufferVars, watchers, work, localNonces, ppage, perr,
                 workerVars, resultVars, sessionVars>>

\* The watcher goroutine: broadcast once when the context ends.  It does not
\* take pauseMu.
WatcherFires(p) ==
  /\ p \in watchers /\ ctxDone
  /\ waiters' = {}
  /\ watchers' = watchers \ {p}
  /\ UNCHANGED <<bufferVars, pauseMu, parentVars, workerVars, resultVars, sessionVars>>

\* One select of the parent's loop: a batch, the closed workChan, or the context.
PullBatch(p) ==
  /\ ppc[p] = "pull"
  /\ \/ /\ work # <<>>
        /\ work' = Tail(work)
        /\ localNonces' = [localNonces EXCEPT ![p] = @ \o Head(work)]
        /\ ParentGoto(p, "flush")
     \/ /\ work = <<>>
        /\ ParentGoto(p, "final")
        /\ UNCHANGED <<work, localNonces>>
     \/ /\ ctxDone
        /\ ParentGoto(p, "abort")
        /\ UNCHANGED <<work, localNonces>>
  /\ UNCHANGED <<bufferVars, gateVars, ppage, perr, workerVars, resultVars, sessionVars>>

\* EnqueueNonces up to its select: the page is counted in flight before the
\* channel send.  `next` is where the parent goes when the send has happened.
Admit(p, nonces, next) ==
  /\ ppage' = [ppage EXCEPT ![p] = [nonces |-> nonces, retries |-> 0]]
  /\ inflight' = inflight + 1
  /\ ParentGoto(p, next)

\* Flush one full page, or go back to the gate when less than a page is left.
FlushPage(p) ==
  /\ ppc[p] = "flush"
  /\ IF Len(localNonces[p]) >= PageSize
     THEN /\ Admit(p, SubSeq(localNonces[p], 1, PageSize), "sendFlush")
          /\ localNonces' = [localNonces EXCEPT
                               ![p] = SubSeq(@, PageSize + 1, Len(@))]
     ELSE /\ ParentGoto(p, "gate")
          /\ UNCHANGED <<inflight, ppage, localNonces>>
  /\ UNCHANGED <<nonceChan, nonceBufferCount, gateVars, work, perr,
                 workerVars, resultVars, sessionVars>>

FlushFinalDropsRest(p) ==
  /\ ppc[p] = "final"
  /\ ParentGoto(p, "exited")
  /\ UNCHANGED <<bufferVars, gateVars, work, localNonces, ppage, perr,
                 workerVars, resultVars, sessionVars>>

\* workChan is closed: the rest is the final, smaller page.
FlushFinal(p) ==
  /\ ppc[p] = "final"
  /\ IF localNonces[p] # <<>>
     THEN /\ Admit(p, localNonces[p], "sendFinal")
          /\ localNonces' = [localNonces EXCEPT ![p] = <<>>]
     ELSE /\ ParentGoto(p, "exited")
          /\ UNCHANGED <<inflight, ppage, localNonces>>
  /\ UNCHANGED <<nonceChan, nonceBufferCount, gateVars, work, perr,
                 workerVars, resultVars, sessionVars>>

\* The context ended in the gate or the select: push what is left, ignore the
\* outcome, return the context's error.
Abort(p) ==
  /\ ppc[p] = "abort"
  /\ perr' = [perr EXCEPT ![p] = TRUE]
  /\ IF localNonces[p] # <<>>
     THEN /\ Admit(p, localNonces[p], "sendFinal")
          /\ localNonces' = [localNonces EXCEPT ![p] = <<>>]
     ELSE /\ ParentGoto(p, "exited")
          /\ UNCHANGED <<inflight, ppage, localNonces>>
  /\ UNCHANGED <<nonceChan, nonceBufferCount, gateVars, work,
                 workerVars, resultVars, sessionVars>>

Sending(p) == ppc[p] \in {"sendFlush", "sendFinal"}

\* The select of EnqueueNonces: the channel accepted the page.
EnqueueSend(p) ==
  /\ Sending(p)
  /\ Len(nonceChan) < ChanCap
  /\ nonceChan' = Append(nonceChan, ppage[p])
  /\ ParentGoto(p, IF ppc[p] = "sendFlush" THEN "countFlush" ELSE "countFinal")
  /\ UNCHANGED <<nonceBufferCount, inflight, gateVars, work, localNonces, ppage,
                 perr, workerVars, resultVars, sessionVars>>

\* The count follows the send; a worker may already have taken the page.
EnqueueCount(p) ==
  /\ ppc[p] \in {"countFlush", "countFinal"}
  /\ nonceBufferCount' = nonceBufferCount + Len(ppage[p].nonces)
  /\ ppage' = [ppage EXCEPT ![p] = NoPage]
  /\ ParentGoto(p, IF ppc[p] = "countFlush" THEN "flush" ELSE "exited")
  /\ UNCHANGED <<nonceChan, inflight, gateVars, work, localNonces, perr,
                 workerVars, resultVars, sessionVars>>

\* The select of EnqueueNonces: the context ended; undo the admission.
EnqueueCancelled(p) ==
  /\ Sending(p)
  /\ ctxDone
  /\ inflight' = inflight - 1
  /\ ppage' = [ppage EXCEPT ![p] = NoPage]
  /\ perr' = [perr EXCEPT ![p] = TRUE]
  /\ ParentGoto(p, "tryClose")
  /\ UNCHANGED <<nonceChan, nonceBufferCount, gateVars, work, localNonces,
                 workerVars, resultVars, sessionVars>>

ParentTryClose(p) ==
  /\ ppc[p] = "tryClose"
  /\ TryCloseDone
  /\ ParentGoto(p, "exited")
  /\ UNCHANGED <<bufferVars, gateVars, work, localNonces, ppage, perr, workerVars,
                 resultVars, inputClosed, ctxDone, iterErr, spc, diffErr>>

\* The producer goroutine's NextBatch fails, or the context ends it: workChan is
\* closed with only some of the batches in it.
IteratorStops ==
  /\ spc = "diff"
  /\ \/ "iter" \in Faults /\ ~iterErr /\ iterErr' = TRUE
     \/ ctxDone /\ UNCHANGED iterErr
  /\ \E n \in 0..Len(work) : work' = SubSeq(work, 1, n)
  /\ UNCHANGED <<bufferVars, gateVars, ppc, localNonces, ppage, perr, workerVars,
                 resultVars, inputClosed, done, ctxDone, spc, diffErr>>

Parent(p) ==
  \/ GateFast(p) \/ GateCheck(p) \/ GateWait(p) \/ WatcherFires(p)
  \/ PullBatch(p) \/ FlushPage(p) \/ FlushFinal(p) \/ Abort(p)
  \/ EnqueueSend(p) \/ EnqueueCount(p) \/ EnqueueCancelled(p) \/ ParentTryClose(p)

-----------------------------------------------------------------------------
(* The dispatch workers.                                                   *)

WorkerGoto(w, pc) == wpc' = [wpc EXCEPT ![w] = pc]

\* The worker's select: a page ...
TakePage(w) ==
  /\ wpc[w] = "idle" /\ nonceChan # <<>>
  /\ wpage' = [wpage EXCEPT ![w] = Head(nonceChan)]
  /\ nonceChan' = Tail(nonceChan)
  /\ WorkerGoto(w, IF stream[w] THEN "process" ELSE "open")
  /\ UNCHANGED <<nonceBufferCount, inflight, gateVars, parentVars, stream,
                 resultVars, sessionVars>>

\* ... or the done channel or the context, which end it.
WorkerExit(w) ==
  /\ wpc[w] = "idle" /\ (done \/ ctxDone)
  /\ WorkerGoto(w, "exited")
  /\ stream' = [stream EXCEPT ![w] = FALSE]
  /\ UNCHANGED <<bufferVars, gateVars, parentVars, wpage, resultVars, sessionVars>>

\* handleFailure decides: requeue while retries remain, else dead-letter.
HandleFailure(w) ==
  IF wpage[w].retries < MaxRetries
  THEN /\ wpage' = [wpage EXCEPT ![w].retries = @ + 1]
       /\ WorkerGoto(w, "requeue")
  ELSE /\ WorkerGoto(w, "dead")
       /\ UNCHANGED wpage

\* The lazy OpenStream.  A failure goes to handleFailure without the decrement
\* of nonceBufferCount that processPage starts with.
OpenStream(w) ==
  /\ wpc[w] = "open"
  /\ \/ /\ stream' = [stream EXCEPT ![w] = TRUE]
        /\ WorkerGoto(w, "process")
        /\ UNCHANGED wpage
     \/ /\ "open" \in Faults \/ ctxDone
        /\ HandleFailure(w)
        /\ UNCHANGED stream
  /\ UNCHANGED <<bufferVars, gateVars, parentVars, resultVars, sessionVars>>

\* processPage, step 1: the page has left the buffer.
ProcessPage(w) ==
  /\ wpc[w] = "process"
  /\ nonceBufferCount' = nonceBufferCount - Len(wpage[w].nonces)
  /\ WorkerGoto(w, IF nonceBufferCount' < ResumeThreshold THEN "broadcast" ELSE "fetch")
  /\ UNCHANGED <<nonceChan, inflight, gateVars, parentVars, wpage, stream,
                 resultVars, sessionVars>>

\* broadcastResume: wake every paused parent, under pauseMu.
BroadcastResume(w) ==
  /\ wpc[w] = "broadcast"
  /\ pauseMu = "free"
  /\ waiters' = {}
  /\ WorkerGoto(w, "fetch")
  /\ UNCHANGED <<bufferVars, pauseMu, watchers, parentVars, wpage, stream,
                 resultVars, sessionVars>>

\* processPage, step 3: the DB fetch.  Its failure leaves the stream alone.
FetchAccounts(w) ==
  /\ wpc[w] = "fetch"
  /\ \/ WorkerGoto(w, "send") /\ UNCHANGED wpage
     \/ ("fetch" \in Faults \/ ctxDone) /\ HandleFailure(w)
  /\ UNCHANGED <<bufferVars, gateVars, parentVars, stream, resultVars, sessionVars>>

\* The client's HandleAccountsSyncData: persist the page, then ACK it.  A send
\* that fails may have been persisted (its ACK was lost) or not.
ClientPage(nonces, ok) ==
  \/ ok /\ clientHas' = clientHas \cup nonces
  \/ ~ok /\ clientHas' \in {clientHas, clientHas \cup nonces}

\* processPage, steps 4 and 5: send the page and wait for the ACK.
SendPage(w) ==
  LET nonces == Elems(wpage[w].nonces)
  IN
  /\ wpc[w] = "send"
  /\ \/ /\ ClientPage(nonces, TRUE)
        /\ delivered' = delivered \cup nonces
        /\ deliveredAccounts' = deliveredAccounts + Len(wpage[w].nonces)
        /\ inflight' = inflight - 1
        /\ wpage' = [wpage EXCEPT ![w] = NoPage]
        /\ WorkerGoto(w, "tryClose")
        /\ UNCHANGED stream
     \/ /\ "send" \in Faults \/ ctxDone
        /\ ClientPage(nonces, FALSE)
        /\ HandleFailure(w)
        /\ stream' = [stream EXCEPT ![w] = FALSE]
        /\ UNCHANGED <<delivered, deliveredAccounts, inflight>>
  /\ UNCHANGED <<nonceChan, nonceBufferCount, gateVars, parentVars, deadLetters,
                 sessionVars>>

RequeueFallsThrough(w) ==
  /\ wpc[w] = "requeue"
  /\ \/ Len(nonceChan) < ChanCap /\ nonceChan' = Append(nonceChan, wpage[w])
     \/ ctxDone /\ UNCHANGED nonceChan
  /\ WorkerGoto(w, "dead")
  /\ UNCHANGED <<nonceBufferCount, inflight, gateVars, parentVars, wpage, stream,
                 resultVars, sessionVars>>

\* handleFailure, requeue path: the channel accepts the page, or the context ends
\* and the page falls through to the dead-letter path.
Requeue(w) ==
  /\ wpc[w] = "requeue"
  /\ \/ /\ Len(nonceChan) < ChanCap
        /\ nonceChan' = Append(nonceChan, wpage[w])
        /\ WorkerGoto(w, "recount")
     \/ /\ ctxDone
        /\ WorkerGoto(w, "dead")
        /\ UNCHANGED nonceChan
  /\ UNCHANGED <<nonceBufferCount, inflight, gateVars, parentVars, wpage, stream,
                 resultVars, sessionVars>>

RecountFinalises(w) ==
  /\ wpc[w] = "recount"
  /\ nonceBufferCount' = nonceBufferCount + Len(wpage[w].nonces)
  /\ inflight' = inflight - 1
  /\ wpage' = [wpage EXCEPT ![w] = NoPage]
  /\ WorkerGoto(w, "idle")
  /\ UNCHANGED <<nonceChan, gateVars, parentVars, stream, resultVars, sessionVars>>

\* The requeued page is counted back into the buffer; it is still in flight.
Recount(w) ==
  /\ wpc[w] = "recount"
  /\ nonceBufferCount' = nonceBufferCount + Len(wpage[w].nonces)
  /\ wpage' = [wpage EXCEPT ![w] = NoPage]
  /\ WorkerGoto(w, "idle")
  /\ UNCHANGED <<nonceChan, inflight, gateVars, parentVars, stream, resultVars,
                 sessionVars>>

\* handleFailure, dead-letter path: record the page, let OnDeadLetter try once
\* more on a stream of its own, finalise.
DeadLetter(w) ==
  /\ wpc[w] = "dead"
  /\ deadLetters' = deadLetters \cup {wpage[w]}
  /\ clientHas' \in {clientHas, clientHas \cup Elems(wpage[w].nonces)}
  /\ inflight' = inflight - 1
  /\ wpage' = [wpage EXCEPT ![w] = NoPage]
  /\ WorkerGoto(w, "tryClose")
  /\ UNCHANGED <<nonceChan, nonceBufferCount, gateVars, parentVars, stream,
                 delivered, deliveredAccounts, sessionVars>>

WorkerSkipsTryClose(w) ==
  /\ wpc[w] = "tryClose"
  /\ WorkerGoto(w, "idle")
  /\ UNCHANGED <<bufferVars, gateVars, parentVars, wpage, stream, resultVars, sessionVars>>

WorkerTryClose(w) ==
  /\ wpc[w] = "tryClose"
  /\ TryCloseDone
  /\ WorkerGoto(w, "idle")
  /\ UNCHANGED <<bufferVars, gateVars, parentVars, wpage, stream, resultVars,
                 inputClosed, ctxDone, iterErr, spc, diffErr>>

Worker(w) ==
  \/ TakePage(w) \/ WorkerExit(w) \/ OpenStream(w) \/ ProcessPage(w)
  \/ BroadcastResume(w) \/ FetchAccounts(w) \/ SendPage(w)
  \/ Requeue(w) \/ Recount(w) \/ DeadLetter(w) \/ WorkerTryClose(w)

-----------------------------------------------------------------------------
(* The session goroutine.                                                  *)

\* wg.Wait returned: ComputeAccountDiff reports the iterator's or a parent's
\* error, or calls CloseInput; on an error ACCOUNTS_SYNC calls CloseInput itself.
CloseInput ==
  /\ spc = "diff"
  /\ \A p \in Parents : ppc[p] = "exited"
  /\ diffErr' = (iterErr \/ \E p \in Parents : perr[p])
  /\ inputClosed' = TRUE
  /\ spc' = "close"
  /\ UNCHANGED <<bufferVars, gateVars, parentVars, workerVars, resultVars,
                 done, ctxDone, iterErr>>

\* The rest of CloseInput: tryCloseDone and the final broadcast.
CloseInputSignals ==
  /\ spc = "close"
  /\ TryCloseDone
  /\ waiters' = {}
  /\ spc' = "summary"
  /\ UNCHANGED <<bufferVars, pauseMu, watchers, parentVars, workerVars, resultVars,
                 inputClosed, ctxDone, iterErr, diffErr>>

RunReturnsEarly ==
  /\ spc = "summary"
  /\ done \/ ctxDone
  /\ spc' = "ended"
  /\ UNCHANGED <<bufferVars, gateVars, parentVars, workerVars, resultVars,
                 inputClosed, done, ctxDone, iterErr, diffErr>>

\* Run returned its summary: done or the context, and every worker has exited.
\* Its error is dropped.
RunReturns ==
  /\ spc = "summary"
  /\ done \/ ctxDone
  /\ \A w \in Workers : wpc[w] = "exited"
  /\ spc' = "ended"
  /\ UNCHANGED <<bufferVars, gateVars, parentVars, workerVars, resultVars,
                 inputClosed, done, ctxDone, iterErr, diffErr>>

Session == CloseInput \/ CloseInputSignals \/ RunReturns

\* The EndOfStream has Ack.Ok.
EndOk == spc = "ended" /\ ~diffErr

Ended == spc = "ended" /\ UNCHANGED vars

Next ==
  \/ \E p \in Parents : Parent(p)
  \/ \E w \in Workers : Worker(w)
  \/ Session \/ IteratorStops \/ Cancel \/ Ended

Spec == Init /\ [][Next]_vars

\* Every goroutine that can run is scheduled; the environment's faults are not
\* owed to anyone.
FairSpec ==
  /\ Spec
  /\ \A p \in Parents : WF_vars(Parent(p))
  /\ \A w \in Workers : WF_vars(Worker(w))
  /\ WF_vars(Session)
-----------------------------------------------------------------------------
(* Properties.                                                             *)

ParentPC == {"gate", "locking", "entering", "waiting", "pull", "flush", "final", "abort",
             "sendFlush", "sendFinal", "countFlush", "countFinal", "tryClose", "exited"}
WorkerPC == {"idle", "open", "process", "broadcast", "fetch", "send", "requeue",
             "recount", "dead", "tryClose", "exited"}

\* Every variable has the type the Go struct declares for it; inflight and
\* nonceBufferCount are int64 counters that may pass below zero, and no page is
\* ever retried more than MaxRetries times.
TypeOK ==
  /\ nonceChan \in Seq(Page) /\ nonceBufferCount \in Int /\ inflight \in Int
  /\ inputClosed \in BOOLEAN /\ done \in BOOLEAN /\ ctxDone \in BOOLEAN
  /\ pauseMu \in Parents \cup {"free"}
  /\ waiters \subseteq Parents /\ watchers \subseteq Parents
  /\ work \in Seq(Seq(Nat))
  /\ ppc \in [Parents -> ParentPC] /\ localNonces \in [Parents -> Seq(Nat)]
  /\ ppage \in [Parents -> Page] /\ perr \in [Parents -> BOOLEAN]
  /\ wpc \in [Workers -> WorkerPC] /\ wpage \in [Workers -> Page]
  /\ stream \in [Workers -> BOOLEAN]
  /\ iterErr \in BOOLEAN /\ diffErr \in BOOLEAN
  /\ spc \in {"diff", "close", "summary", "ended"}
  /\ delivered \subseteq Nat /\ deliveredAccounts \in Nat
  /\ deadLetters \subseteq Page /\ clientHas \subseteq Nat

\* The parents between the admission of a page and its send, and the workers that
\* own a page no channel holds: with the channel, where unfinalised pages are.
Admitting == {p \in Parents : Sending(p)}
Holding == {w \in Workers : wpc[w] \in {"open", "process", "broadcast", "fetch", "send",
                                        "requeue", "dead"}}

\* tryCloseDone never fires early: once `done` is closed no page is being
\* admitted, queued or delivered, so no worker can leave a page behind when it
\* exits on `done` (EnqueueNonces counts a page before it sends it for this).
DoneOnlyWhenFinalised ==
  done => inputClosed /\ Admitting = {} /\ nonceChan = <<>> /\ Holding = {}

\* inflight counts exactly the unfinalised pages, through requeues, cancelled
\* enqueues and dead letters (the comment at the field and handleFailure's
\* "inflight is NOT changed").
InflightExact ==
  inflight = Cardinality(Admitting) + Len(nonceChan) + Cardinality(Holding)

DeadNonces == UNION {Elems(pg.nonces) : pg \in deadLetters}

\* A session that was not cancelled and whose diff did not fail answers only when
\* each missing nonce was delivered or is in the dead-letter list: no nonce is
\* dropped between the gate, the page splitting, the channel and the retries.
NoNonceLost ==
  EndOk /\ ~ctxDone => delivered \cup DeadNonces = Missing

\* The account iterator returns each nonce once (a nonce identifies an account).
DistinctNonces ==
  \A i, j \in DOMAIN Batches :
    \A k \in DOMAIN Batches[i], m \in DOMAIN Batches[j] :
      Batches[i][k] = Batches[j][m] => i = j /\ k = m

\* The summary counts no page twice: the accounts reported as delivered are
\* distinct, and none of them is reported as permanently failed as well.
NoDoubleReport ==
  /\ deliveredAccounts = Cardinality(delivered)
  /\ delivered \cap DeadNonces = {}

\* The EndOfStream's Ack, once there is one.
AnswerSent == IF spc # "ended" THEN "none" ELSE IF EndOk THEN "ok" ELSE "error"

AsDelivery == INSTANCE Delivery WITH
  Owed <- Missing, stored <- clientHas, counted <- deliveredAccounts, failed <- DeadNonces,
  cancelled <- ctxDone, answer <- AnswerSent

\* The session implements Delivery when the iterator returns each nonce once: through
\* requeues, lost ACKs, dead letters and cancellations every step settles nonces that
\* were not settled, or none, the answer is good only when all are settled or the session
\* was cancelled, and no worker delivers or gives up a page after it.
ImplementsDelivery == AsDelivery!Spec

\* Run returns, and with it the session, once every page is delivered or
\* dead-lettered: no goroutine waits for ever on the gate, the channel or done.
SessionEnds == <>(spc = "ended")

\* Every worker wants to put its page back, the channel is full and only workers
\* take pages from it.
Jammed == Len(nonceChan) = ChanCap /\ \A w \in Workers : wpc[w] = "requeue"

\* While streams open, the one way for a session not to end is the re-queue of
\* handleFailure, which takes it for granted that the channel has room: the
\* parents fill it past the gate while the last worker fails its page.  The
\* gate, the shutdown and the retries never hold the session up.
SessionEndsOrJams == <>(spc = "ended" \/ Jammed)
==============================================================================

----------------------------- MODULE AsyncBuffer -----------------------------
(***************************************************************************)
(* The coalescing write buffer in front of the WAL: AddToBufferWAL and     *)
(* AddCheckpointToBuffer push into the buffer in the WAL's atomic slot or  *)
(* install a fresh one, each buffer's goroutine flushes its stack on a     *)
(* tick and closes itself when idle or drained, and Close drains whatever  *)
(* the slot holds before it closes the log.  The WAL below is taken as     *)
(* reliable while it is open: one critical section of WAL.Mu appends one   *)
(* node.  Module WAL has its failures.                                     *)
(***************************************************************************)
EXTENDS Integers, Sequences, FiniteSets, SequencesExt

CONSTANTS
  Writers,     \* the goroutines that call AddToBufferWAL and AddCheckpointToBuffer
  Plan,        \* what each of them pushes: a sequence of "data" and "checkpoint"
  MaxBuffers   \* bound: buffers ever created

ASSUME AsyncBufferAssumption ==
  /\ IsFiniteSet(Writers)
  /\ Plan \in [Writers -> Seq({"data", "checkpoint"})]
  /\ MaxBuffers \in Nat

VARIABLES
  slot,     \* asyncBuf: the registered buffer, or 0 for nil
  used,     \* the buffers created so far
  stack, closed, done, drainDone, \* per buffer: its fields
  bpc, snapshot,                  \* per buffer: its goroutine and what it writes
  wpc, wbuf, at,                  \* per writer: control, loaded buffer, plan index
  cpc, cbuf,                      \* the goroutine that calls Close
  wal,      \* what the log holds: the pushes in the order they were written
  walClosed,
  pushed,   \* per buffer: the pushes it accepted, in order
  lost      \* the first pushes that met a closed buffer: their callers were told nil

bufVars    == <<slot, used, stack, closed, done, drainDone, bpc, snapshot>>
writerVars == <<wpc, wbuf, at>>
closeVars  == <<cpc, cbuf, walClosed>>
vars == <<bufVars, writerVars, closeVars, wal, pushed, lost>>

Buffer == 1..MaxBuffers

\* A pendingEntry or a checkpoint sentinel: the writer, its index, the buffer.
Item(w, b) == [kind |-> Plan[w][at[w]], by |-> w, n |-> at[w], buf |-> b]

\* A stackEntry: adjacent data pushes, or one checkpoint.
Node(kind, items) == [kind |-> kind, items |-> items]

Init ==
  /\ slot = 0 /\ used = 0
  /\ stack = [b \in Buffer |-> <<>>] /\ snapshot = [b \in Buffer |-> <<>>]
  /\ closed = [b \in Buffer |-> FALSE]
  /\ done = [b \in Buffer |-> FALSE] /\ drainDone = [b \in Buffer |-> FALSE]
  /\ bpc = [b \in Buffer |-> "unborn"]
  /\ wpc = [w \in Writers |-> "load"] /\ wbuf = [w \in Writers |-> 0]
  /\ at = [w \in Writers |-> 1]
  /\ cpc = "running" /\ cbuf = 0
  /\ wal = <<>> /\ walClosed = FALSE
  /\ pushed = [b \in Buffer |-> <<>>] /\ lost = {}

-----------------------------------------------------------------------------
(* Writers.                                                                *)

Top(b) == stack[b][Len(stack[b])]

PushDataUnmerged(b, item) ==
  /\ stack' = [stack EXCEPT ![b] = Append(@, Node("data", <<item>>))]
  /\ pushed' = [pushed EXCEPT ![b] = Append(@, item)]

\* The item joins the data entries of the top node.
Merged(nodes, item) == [nodes EXCEPT ![Len(nodes)].items = Append(@, item)]

\* pushData and pushCheckpoint under b.mu, on a buffer that is not closed.
PushData(b, item) ==
  /\ stack' = [stack EXCEPT ![b] = IF @ # <<>> /\ Top(b).kind = "data"
                                   THEN Merged(@, item)
                                   ELSE Append(@, Node("data", <<item>>))]
  /\ pushed' = [pushed EXCEPT ![b] = Append(@, item)]

PushCheckpoint(b, item) ==
  IF stack[b] # <<>> /\ Top(b).kind = "checkpoint"
  THEN UNCHANGED <<stack, pushed>>
  ELSE /\ stack' = [stack EXCEPT ![b] = Append(@, Node("checkpoint", <<item>>))]
       /\ pushed' = [pushed EXCEPT ![b] = Append(@, item)]

Push(b, w) ==
  IF Plan[w][at[w]] = "data" THEN PushData(b, Item(w, b)) ELSE PushCheckpoint(b, Item(w, b))

Returns(w) ==
  /\ at' = [at EXCEPT ![w] = @ + 1]
  /\ wpc' = [wpc EXCEPT ![w] = "load"]

\* The loop's Load of the slot.
LoadSlot(w) ==
  /\ wpc[w] = "load" /\ at[w] <= Len(Plan[w])
  /\ wbuf' = [wbuf EXCEPT ![w] = slot]
  /\ wpc' = [wpc EXCEPT ![w] = IF slot = 0 THEN "cas" ELSE "push"]
  /\ UNCHANGED <<bufVars, at, closeVars, wal, pushed, lost>>

PushLoadedOnce(w) ==
  /\ wpc[w] = "push"
  /\ IF closed[wbuf[w]] THEN UNCHANGED <<stack, pushed>> ELSE Push(wbuf[w], w)
  /\ Returns(w)
  /\ UNCHANGED <<slot, used, closed, done, drainDone, bpc, snapshot, wbuf, closeVars, wal,
                 lost>>

\* Push into the loaded buffer; retry from the top when it has closed.
PushLoaded(w) ==
  LET b == wbuf[w] IN
  /\ wpc[w] = "push"
  /\ \/ ~closed[b] /\ Push(b, w) /\ Returns(w)
     \/ /\ closed[b]
        /\ wpc' = [wpc EXCEPT ![w] = "load"]
        /\ UNCHANGED <<at, stack, pushed>>
  /\ UNCHANGED <<slot, used, closed, done, drainDone, bpc, snapshot, wbuf, closeVars, wal,
                 lost>>

InstallBlindly(w) ==
  /\ wpc[w] = "cas" /\ used < MaxBuffers
  /\ used' = used + 1 /\ slot' = used'
  /\ bpc' = [bpc EXCEPT ![used'] = "select"]
  /\ wbuf' = [wbuf EXCEPT ![w] = used']
  /\ wpc' = [wpc EXCEPT ![w] = "first"]
  /\ UNCHANGED <<stack, closed, done, drainDone, snapshot, at, closeVars, wal, pushed, lost>>

\* CompareAndSwap a fresh buffer into the slot and start its goroutine, or lose the
\* race and retry.
Install(w) ==
  /\ wpc[w] = "cas"
  /\ \/ /\ slot = 0 /\ used < MaxBuffers
        /\ used' = used + 1 /\ slot' = used'
        /\ bpc' = [bpc EXCEPT ![used'] = "select"]
        /\ wbuf' = [wbuf EXCEPT ![w] = used']
        /\ wpc' = [wpc EXCEPT ![w] = "first"]
     \/ /\ slot # 0
        /\ wpc' = [wpc EXCEPT ![w] = "load"]
        /\ UNCHANGED <<slot, used, bpc, wbuf>>
  /\ UNCHANGED <<stack, closed, done, drainDone, snapshot, at, closeVars, wal, pushed, lost>>

\* The push into the buffer just installed.  Its result is ignored: when the buffer
\* was drained or closed itself in between, the call returns all the same.
PushFirst(w) ==
  LET b == wbuf[w] IN
  /\ wpc[w] = "first"
  /\ \/ ~closed[b] /\ Push(b, w) /\ UNCHANGED lost
     \/ /\ closed[b]
        /\ lost' = lost \cup {Item(w, b)}
        /\ UNCHANGED <<stack, pushed>>
  /\ Returns(w)
  /\ UNCHANGED <<slot, used, closed, done, drainDone, bpc, snapshot, wbuf, closeVars, wal>>

-----------------------------------------------------------------------------
(* A buffer's goroutine: run.                                              *)

Goto(b, pc) == bpc' = [bpc EXCEPT ![b] = pc]

\* The ticker: flushAndReport swaps the stack out under b.mu.
Tick(b) ==
  /\ bpc[b] = "select" /\ stack[b] # <<>>
  /\ snapshot' = [snapshot EXCEPT ![b] = stack[b]]
  /\ stack' = [stack EXCEPT ![b] = <<>>]
  /\ Goto(b, "flush")
  /\ UNCHANGED <<slot, used, closed, done, drainDone, writerVars, closeVars, wal, pushed, lost>>

\* writeToWAL, one node: data entries or a checkpoint, in one critical section of
\* WAL.Mu.  On a closed log the error is only printed.
WriteNode(b) ==
  /\ bpc[b] \in {"flush", "drain"} /\ snapshot[b] # <<>>
  /\ wal' = IF walClosed THEN wal ELSE wal \o Head(snapshot[b]).items
  /\ snapshot' = [snapshot EXCEPT ![b] = Tail(@)]
  /\ UNCHANGED <<slot, used, stack, closed, done, drainDone, bpc, writerVars, closeVars,
                 pushed, lost>>

\* The snapshot is written: back to the select, or drainDone is closed.
WriteDone(b) ==
  /\ bpc[b] \in {"flush", "drain"} /\ snapshot[b] = <<>>
  /\ IF bpc[b] = "flush" THEN Goto(b, "select") /\ UNCHANGED drainDone
     ELSE Goto(b, "exited") /\ drainDone' = [drainDone EXCEPT ![b] = TRUE]
  /\ UNCHANGED <<slot, used, stack, closed, done, snapshot, writerVars, closeVars, wal,
                 pushed, lost>>

\* The idle timer fires after a period without a push, in which the ticks have
\* emptied the stack; or Drain has closed b.done.  A push may still come before
\* closeAndDrain takes b.mu, and the creator may not have made its first one.
StopRunning(b) ==
  /\ bpc[b] = "select"
  /\ stack[b] = <<>> \/ done[b]
  /\ Goto(b, "close")
  /\ UNCHANGED <<slot, used, stack, closed, done, drainDone, snapshot, writerVars,
                 closeVars, wal, pushed, lost>>

CloseForgetsStack(b) ==
  /\ bpc[b] = "close"
  /\ closed' = [closed EXCEPT ![b] = TRUE]
  /\ stack' = [stack EXCEPT ![b] = <<>>]
  /\ Goto(b, "unregister")
  /\ UNCHANGED <<slot, used, done, drainDone, snapshot, writerVars, closeVars, wal, pushed, lost>>

\* closeAndDrain under b.mu: close, and take what is left.
CloseBuffer(b) ==
  /\ bpc[b] = "close"
  /\ closed' = [closed EXCEPT ![b] = TRUE]
  /\ snapshot' = [snapshot EXCEPT ![b] = stack[b]]
  /\ stack' = [stack EXCEPT ![b] = <<>>]
  /\ Goto(b, "unregister")
  /\ UNCHANGED <<slot, used, done, drainDone, writerVars, closeVars, wal, pushed, lost>>

UnregisterNever(b) ==
  /\ bpc[b] = "unregister"
  /\ Goto(b, "drain")
  /\ UNCHANGED <<slot, used, stack, closed, done, drainDone, snapshot, writerVars,
                 closeVars, wal, pushed, lost>>

\* closeAndDrain clears the slot before it writes.
Unregister(b) ==
  /\ bpc[b] = "unregister"
  /\ slot' = IF slot = b THEN 0 ELSE slot
  /\ Goto(b, "drain")
  /\ UNCHANGED <<used, stack, closed, done, drainDone, snapshot, writerVars, closeVars,
                 wal, pushed, lost>>

Run(b) ==
  \/ Tick(b) \/ WriteNode(b) \/ WriteDone(b) \/ StopRunning(b)
  \/ CloseBuffer(b) \/ Unregister(b)

-----------------------------------------------------------------------------
(* DrainAsyncBuffer, on its own or at the start of Close, which then       *)
(* flushes and closes the log.  Nothing in the code holds the writers off. *)

\* Drain closes b.done and waits for drainDone.
DrainAsyncBuffer ==
  /\ cpc = "running"
  /\ cbuf' = slot
  /\ IF slot = 0 THEN cpc' = "drained" /\ UNCHANGED done
                 ELSE cpc' = "waiting" /\ done' = [done EXCEPT ![slot] = TRUE]
  /\ UNCHANGED <<slot, used, stack, closed, drainDone, bpc, snapshot, writerVars,
                 walClosed, wal, pushed, lost>>

Drained ==
  /\ cpc = "waiting" /\ drainDone[cbuf]
  /\ cpc' = "drained"
  /\ UNCHANGED <<bufVars, writerVars, cbuf, walClosed, wal, pushed, lost>>

\* The drain was not Close's.
DrainReturns ==
  /\ cpc = "drained"
  /\ cpc' = "running"
  /\ UNCHANGED <<bufVars, writerVars, cbuf, walClosed, wal, pushed, lost>>

CloseLog ==
  /\ cpc = "drained"
  /\ cpc' = "closed" /\ walClosed' = TRUE
  /\ UNCHANGED <<bufVars, writerVars, cbuf, wal, pushed, lost>>

Closing == DrainAsyncBuffer \/ Drained \/ DrainReturns \/ CloseLog

Writer(w) == LoadSlot(w) \/ PushLoaded(w) \/ Install(w) \/ PushFirst(w)

Next ==
  \/ \E w \in Writers : Writer(w)
  \/ \E b \in Buffer : Run(b)
  \/ Closing

Spec == Init /\ [][Next]_vars

\* Every goroutine that can run is scheduled: the writers, the ticker's flushes and
\* the drain.  Nobody is owed an idle timeout or a Close.
FairSpec ==
  /\ Spec
  /\ \A w \in Writers : WF_vars(Writer(w))
  /\ \A b \in Buffer : WF_vars(Tick(b) \/ WriteNode(b) \/ WriteDone(b) \/ CloseBuffer(b)
                               \/ Unregister(b))
-----------------------------------------------------------------------------
(* Properties.                                                             *)


\* Every buffer's state is one its goroutine can be in; the slot never names a
\* buffer that was not created; adjacent nodes of a stack never have the same kind
\* (the merge rules), so a flush takes one critical section per run of pushes.
TypeOK ==
  /\ slot \in 0..used /\ used \in 0..MaxBuffers
  /\ closed \in [Buffer -> BOOLEAN] /\ done \in [Buffer -> BOOLEAN]
  /\ drainDone \in [Buffer -> BOOLEAN] /\ walClosed \in BOOLEAN
  /\ bpc \in [Buffer -> {"unborn", "select", "flush", "close", "unregister", "drain", "exited"}]
  /\ wpc \in [Writers -> {"load", "cas", "push", "first"}]
  /\ wbuf \in [Writers -> 0..MaxBuffers] /\ cbuf \in 0..MaxBuffers
  /\ cpc \in {"running", "waiting", "drained", "closed"}
  /\ \A b \in Buffer : \A i \in 1..Len(stack[b]) - 1 :
       stack[b][i].kind # stack[b][i + 1].kind

Flat(nodes) == FlattenSeq([i \in DOMAIN nodes |-> nodes[i].items])

\* What a buffer has accepted and not yet written.
Held(b) == Flat(snapshot[b]) \o Flat(stack[b])

\* What the log holds of the pushes that b accepted.
WrittenBy(b) ==
  FlattenSeq([i \in DOMAIN wal |-> IF wal[i].buf = b THEN <<wal[i]>> ELSE <<>>])

\* Each buffer writes what it accepted, in the order it accepted it and once, and a
\* checkpoint fires after all the data pushed before it ("The checkpoint fires after
\* all data entries already in the buffer have been flushed").
BufferFIFO ==
  ~walClosed => \A b \in Buffer : WrittenBy(b) \o Held(b) = pushed[b]

Copies(w, n, s) == Cardinality({i \in DOMAIN s : s[i].by = w /\ s[i].n = n})

\* The push of writer w's n-th entry was dropped.
Lost(w, n) == \E x \in lost : x.by = w /\ x.n = n

\* An AddToBufferWAL that returned nil has put its entry in exactly one buffer, while
\* buffers close and are replaced and however often it retried; the one exception is
\* the ignored first push ("Returns false if the buffer is already closed; the caller
\* must create a new one"), which is then in none.
EntryAccounted ==
  \A w \in Writers : \A n \in 1..at[w] - 1 :
    Plan[w][n] = "data" =>
      \/ /\ ~Lost(w, n)
         /\ \E b \in Buffer : /\ Copies(w, n, pushed[b]) = 1
                             /\ \A c \in Buffer \ {b} : Copies(w, n, pushed[c]) = 0
      \/ Lost(w, n) /\ \A c \in Buffer : Copies(w, n, pushed[c]) = 0

\* A buffer that still accepts pushes is the one in the slot, where Drain and Close
\* will find it: the CompareAndSwap leaves no open buffer behind.
OpenBufferRegistered ==
  \A b \in 1..used : ~closed[b] => slot = b

Written(w, n) == Copies(w, n, wal) > 0

\* Every accepted entry reaches the log, unless the log is closed first.
EntriesReachLog ==
  \A w \in Writers : \A n \in DOMAIN Plan[w] :
    (at[w] > n /\ Plan[w][n] = "data" /\ ~Lost(w, n)) ~> (Written(w, n) \/ walClosed)

\* No writer spins for ever on a closed buffer: each returns from its calls (short
\* of the bound on the buffers the model creates).
Quiet == \A w \in Writers : wpc[w] = "load" /\ at[w] > Len(Plan[w])
OutOfBuffers == used = MaxBuffers /\ \E w \in Writers : wpc[w] = "cas"
WritersReturn == <>(Quiet \/ OutOfBuffers)
==============================================================================

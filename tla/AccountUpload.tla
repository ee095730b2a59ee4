--------------------------- MODULE AccountUpload ---------------------------
(***************************************************************************)
(* The client's side of AccountSync: a pipeline (a producer, parallel      *)
(* encoders, a reorder stage) turns the account nonces into chunks, one    *)
(* stream uploads them with an ACK for each, and the server merges them    *)
(* into its session ART and computes the diff when the last one arrives.   *)
(* The pages of the diff go over other streams (module AccountDispatcher). *)
(* A chunk is its batch index and its is_last flag.                        *)
(***************************************************************************)
EXTENDS Integers, Sequences, FiniteSets, SequencesExt

CONSTANTS
  MaxBatches,     \* bound: batches of the client's accounts
  Drift,          \* bound: batches by which the accounts change after they were counted
  EncodeWorkers,  \* encodeWorkers
  JobCap,         \* capacity of jobChan and of resultChan, encodeWorkers * 2
  OutCap,         \* capacity of out, encodeWorkers
  Faults          \* see FaultKinds

FaultKinds ==
  {"count", "iter", "encode", "cancel", "net", "slow", "disk", "shutdown", "auth", "merge", "diff"}

ASSUME AccountUploadAssumption ==
  /\ MaxBatches \in Nat /\ Drift \in Nat /\ EncodeWorkers \in Nat \ {0}
  /\ JobCap \in Nat \ {0} /\ OutCap \in Nat \ {0}
  /\ Faults \subseteq FaultKinds

Encoders == 1..EncodeWorkers

VARIABLES
  counted,      \* the batches that TotalAccounts makes
  actual,       \* the batches that NextBatch returns
  producer,     \* control, next batch index and producerErr
  jobs,         \* jobChan
  encoder,      \* per worker: the batch it encodes, or Idle, or Exited
  encoded,      \* resultChan
  reorder,      \* buildChunks' own goroutine: control, pending, nextExpected
  out,          \* the channel of chunks
  errCh,        \* "open", or closed with or without an error in it
  cancelled,    \* buildCtx
  client,       \* AccountSync and the upload of the chunks
  link,         \* the stream: "none", "open", "reset", "closed" by the server, "gone": by the client
  up, down,     \* frames on the way to the server, to the client
  server,       \* HandleAccountsSync: control and the answer to be written
  merged,       \* the batches in the session ART, in order
  heartbeat,    \* its heartbeat goroutine is running
  diffed        \* history: the diff was computed

pipeVars   == <<counted, actual, producer, jobs, encoder, encoded, reorder, out, errCh>>
wireVars   == <<link, up, down>>
serverVars == <<server, merged, heartbeat, diffed>>
vars == <<pipeVars, cancelled, client, wireVars, serverVars>>

Idle   == -1
Exited == -2
Chunk(i) == [index |-> i, isLast |-> i = counted - 1 \/ counted = 0]
Upload   == [i \in 1..(IF counted = 0 THEN 1 ELSE counted) |-> i - 1]

Ack       == [kind |-> "ack", ok |-> TRUE]
End(ok)   == [kind |-> "end", ok |-> ok]
Heartbeat == [kind |-> "heartbeat", ok |-> TRUE]
Torn      == [kind |-> "torn", ok |-> FALSE]   \* what is left of a frame

Init ==
  /\ counted \in 0..MaxBatches
  /\ actual \in {n \in 0..MaxBatches + Drift : n \in (counted - Drift)..(counted + Drift)}
  /\ producer = [pc |-> "off", next |-> 0, err |-> "none"] /\ jobs = <<>>
  /\ encoder = [w \in Encoders |-> Exited] /\ encoded = <<>>
  /\ reorder = [pc |-> "count", pending |-> {}, next |-> 0]
  /\ out = <<>> /\ errCh = "open" /\ cancelled = FALSE
  /\ client = "connect" /\ link = "none" /\ up = <<>> /\ down = <<>>
  /\ server = [pc |-> "none", reply |-> Ack] /\ merged = <<>> /\ heartbeat = FALSE /\ diffed = FALSE

-----------------------------------------------------------------------------
(* buildChunks.                                                            *)

InPipeline == UNCHANGED <<cancelled, client, wireVars, serverVars>>

\* The goroutine returns: errCh and out are closed.
Finish(err) ==
  /\ errCh' = IF err THEN "error" ELSE "nil"
  /\ reorder' = [reorder EXCEPT !.pc = "done"]

\* TotalAccounts, and the start of the producer and the workers.
Count ==
  /\ reorder.pc = "count"
  /\ \/ /\ "count" \in Faults /\ Finish(TRUE) /\ UNCHANGED <<producer, encoder>>
     \/ /\ counted = 0 /\ reorder' = [reorder EXCEPT !.pc = "zero"]
        /\ UNCHANGED <<producer, encoder, errCh>>
     \/ /\ counted # 0 /\ reorder' = [reorder EXCEPT !.pc = "collect"]
        /\ producer' = [producer EXCEPT !.pc = "pull"]
        /\ encoder' = [w \in Encoders |-> Idle] /\ UNCHANGED errCh
  /\ UNCHANGED <<counted, actual, jobs, encoded, out>> /\ InPipeline

\* Without accounts one empty chunk is sent, so that the server returns all of its own.
EmitZero ==
  /\ reorder.pc = "zero"
  /\ \/ out' = Append(out, Chunk(0)) /\ Finish(FALSE)
     \/ (cancelled \/ "encode" \in Faults) /\ Finish(TRUE) /\ UNCHANGED out
  /\ UNCHANGED <<counted, actual, producer, jobs, encoder, encoded>> /\ InPipeline

ProducerReturns(err) == producer' = [producer EXCEPT !.pc = "done", !.err = err]

\* The producer: NextBatch, then a job; an empty batch is the end.
Produce ==
  /\ producer.pc = "pull"
  /\ \/ cancelled /\ ProducerReturns("error") /\ UNCHANGED jobs
     \/ "iter" \in Faults /\ ProducerReturns("error") /\ UNCHANGED jobs
     \/ producer.next = actual /\ ProducerReturns("nil") /\ UNCHANGED jobs
     \/ /\ producer.next < actual /\ Len(jobs) < JobCap
        /\ jobs' = Append(jobs, producer.next) /\ producer' = [producer EXCEPT !.next = @ + 1]
  /\ UNCHANGED <<counted, actual, encoder, encoded, reorder, out, errCh>> /\ InPipeline

TakeJob(w) ==
  /\ encoder[w] = Idle
  /\ \/ jobs # <<>> /\ encoder' = [encoder EXCEPT ![w] = Head(jobs)] /\ jobs' = Tail(jobs)
     \/ jobs = <<>> /\ producer.pc = "done" /\ encoder' = [encoder EXCEPT ![w] = Exited] /\ UNCHANGED jobs
  /\ UNCHANGED <<counted, actual, producer, encoded, reorder, out, errCh>> /\ InPipeline

\* makeChunk, whose checksum can fail, and the result.
Encode(w) ==
  /\ encoder[w] >= 0
  /\ \/ /\ Len(encoded) < JobCap
        /\ \E ok \in {TRUE, "encode" \notin Faults} :
             encoded' = Append(encoded, [index |-> encoder[w], ok |-> ok])
        /\ encoder' = [encoder EXCEPT ![w] = Idle]
     \/ cancelled /\ encoder' = [encoder EXCEPT ![w] = Exited] /\ UNCHANGED encoded
  /\ UNCHANGED <<counted, actual, producer, jobs, reorder, out, errCh>> /\ InPipeline

CollectUnordered ==
  /\ reorder.pc = "collect"
  /\ \/ /\ encoded # <<>> /\ encoded' = Tail(encoded)
        /\ IF ~Head(encoded).ok THEN Finish(TRUE)
           ELSE reorder' = [pc |-> "emit", pending |-> {Head(encoded).index},
                            next |-> Head(encoded).index] /\ UNCHANGED errCh
     \/ /\ encoded = <<>> /\ \A w \in Encoders : encoder[w] = Exited
        /\ reorder' = [reorder EXCEPT !.pc = "join"] /\ UNCHANGED <<encoded, errCh>>
  /\ UNCHANGED <<counted, actual, producer, jobs, encoder, out>> /\ InPipeline

\* The reorder stage takes a result, or finds resultChan closed.
Collect ==
  /\ reorder.pc = "collect"
  /\ \/ /\ encoded # <<>> /\ encoded' = Tail(encoded)
        /\ LET r == Head(encoded) IN
           IF ~r.ok THEN Finish(TRUE)
           ELSE reorder' = [reorder EXCEPT !.pending = @ \cup {r.index},
                                           !.pc = IF r.index = reorder.next THEN "emit" ELSE "collect"]
                /\ UNCHANGED errCh
     \/ /\ encoded = <<>> /\ \A w \in Encoders : encoder[w] = Exited
        /\ reorder' = [reorder EXCEPT !.pc = "join"] /\ UNCHANGED <<encoded, errCh>>
  /\ UNCHANGED <<counted, actual, producer, jobs, encoder, out>> /\ InPipeline

\* Every chunk that is next in order goes to the bounded channel.
Emit ==
  /\ reorder.pc = "emit"
  /\ \/ /\ Len(out) < OutCap /\ out' = Append(out, Chunk(reorder.next))
        /\ reorder' = [pc      |-> IF reorder.next + 1 \in reorder.pending THEN "emit" ELSE "collect",
                       pending |-> reorder.pending \ {reorder.next}, next |-> reorder.next + 1]
        /\ UNCHANGED errCh
     \/ cancelled /\ Finish(TRUE) /\ UNCHANGED out
  /\ UNCHANGED <<counted, actual, producer, jobs, encoder, encoded>> /\ InPipeline

\* The producer's error is reported last.
Join ==
  /\ reorder.pc = "join" /\ producer.err # "none"
  /\ Finish(producer.err = "error")
  /\ UNCHANGED <<counted, actual, producer, jobs, encoder, encoded, out>> /\ InPipeline

BuildChunks ==
  \/ Count \/ EmitZero \/ Produce \/ Collect \/ Emit \/ Join
  \/ \E w \in Encoders : TakeJob(w) \/ Encode(w)

-----------------------------------------------------------------------------
(* The client: AccountSync, SendAccountsSyncAllChunksWithHeartbeat.        *)

Returned == {"ok", "error"}

ReturnNoCancel(result) ==
  /\ client' = result /\ link' = "gone" /\ UNCHANGED cancelled

\* Every return closes the stream and runs the deferred buildCancel.
Return(result) ==
  /\ client' = result /\ link' = "gone" /\ cancelled' = TRUE

InClient == UNCHANGED <<counted, actual, producer, jobs, encoder, encoded, reorder, errCh, merged, heartbeat, diffed>>

Connect ==
  /\ client = "connect"
  /\ \/ /\ client' = "next" /\ link' = "open" /\ server' = [server EXCEPT !.pc = "setup"]
        /\ UNCHANGED cancelled
     \/ "net" \in Faults /\ Return("error") /\ UNCHANGED server
  /\ UNCHANGED <<out, up, down>> /\ InClient

\* A chunk is written; the loop ends with an error when the channel is closed before the last one.
NextChunk ==
  /\ client = "next"
  /\ \/ /\ out # <<>> /\ out' = Tail(out)
        /\ \/ /\ link # "reset"
              /\ client' = IF Head(out).isLast THEN "final" ELSE "ack"
              /\ up' = IF link = "open" THEN Append(up, Head(out)) ELSE up
              /\ UNCHANGED <<link, cancelled>>
           \/ link # "open" /\ Return("error") /\ UNCHANGED up
     \/ /\ out = <<>> /\ reorder.pc = "done" /\ Return("error") /\ UNCHANGED <<out, up>>
  /\ UNCHANGED <<down, server>> /\ InClient

\* ReadDelimited buffers what has arrived, decodes the first frame and drops the buffer.
\* Frames that arrived together with it are lost, or torn when the buffer ended inside of one.
AfterRead ==
  {SubSeq(down, i, Len(down)) : i \in 2..Len(down) + 1}
    \cup {[SubSeq(down, i, Len(down)) EXCEPT ![1] = Torn] : i \in 2..Len(down)}

\* ReadAccountsSyncServerMessageSkippingHeartbeats and the use of the message.  The rest of
\* a torn frame is read as a length and a message: a heartbeat or a page, which are skipped,
\* or nothing of use; or the length is never reached and the deadline passes.
ReadFrame ==
  /\ client \in {"ack", "final"} /\ link # "reset" /\ down # <<>>
  /\ down' \in AfterRead
  /\ LET f == Head(down) IN
     \/ f.kind \in {"heartbeat", "torn"} /\ UNCHANGED <<client, link, cancelled>>
     \/ /\ f.kind = "ack" /\ client' = (IF client = "ack" THEN "next" ELSE client)
        /\ UNCHANGED <<link, cancelled>>
     \/ /\ f.kind = "end" /\ client = "final" /\ f.ok
        /\ client' = "wait" /\ link' = "gone" /\ UNCHANGED cancelled
     \/ f.kind \in {"end", "torn"} /\ ~(client = "final" /\ f.ok) /\ Return("error")
  /\ UNCHANGED <<out, up, server>> /\ InClient

\* The stream was reset, or the server closed it and no frame is left.
ReadFails ==
  /\ client \in {"ack", "final"} /\ (link = "reset" \/ (link = "closed" /\ down = <<>>))
  /\ Return("error")
  /\ UNCHANGED <<out, up, down, server>> /\ InClient

\* <-errCh
WaitErr ==
  /\ client = "wait" /\ errCh # "open"
  /\ Return(IF errCh = "nil" THEN "ok" ELSE "error")
  /\ UNCHANGED <<out, up, down, server>> /\ InClient

\* The caller's context ends.
CallerCancels ==
  /\ "cancel" \in Faults /\ ~cancelled /\ cancelled' = TRUE
  /\ UNCHANGED <<pipeVars, client, wireVars, serverVars>>

Client == Connect \/ NextChunk \/ ReadFrame \/ ReadFails \/ WaitErr

-----------------------------------------------------------------------------
(* The server: HandleAccountsSync of the stream and of the router.         *)

InServer == UNCHANGED <<pipeVars, cancelled, client>>

\* The handler returns: the stream is closed and computeCtx cancelled.
HandlerReturns ==
  /\ server' = [server EXCEPT !.pc = "done"]
  /\ link' = IF link = "open" THEN "closed" ELSE link

\* The session directory and its ART.
Setup ==
  /\ server.pc = "setup"
  /\ \/ /\ server' = [server EXCEPT !.pc = "read"] /\ heartbeat' = TRUE
        /\ UNCHANGED link
     \/ /\ "disk" \in Faults /\ server' = [server EXCEPT !.pc = "drain"]
        /\ UNCHANGED <<link, heartbeat>>
     \/ "shutdown" \in Faults /\ HandlerReturns /\ UNCHANGED heartbeat
  /\ UNCHANGED <<up, down, merged, diffed>> /\ InServer

Answer(r) == server' = [pc |-> "reply", reply |-> r]

\* One chunk: authentication, checksum, Merge; the last one starts the diff.
ReadChunk ==
  /\ server.pc = "read" /\ link # "reset" /\ up # <<>> /\ up' = Tail(up)
  /\ \/ {"auth", "merge"} \cap Faults # {} /\ Answer(End(FALSE)) /\ UNCHANGED merged
     \/ /\ merged' = Append(merged, Head(up).index)
        /\ IF Head(up).isLast THEN server' = [server EXCEPT !.pc = "diff"] ELSE Answer(Ack)
  /\ UNCHANGED <<link, down, heartbeat, diffed>> /\ InServer

\* ComputeAccountDiff and the dispatcher; a failed heartbeat has cancelled both.
Diff ==
  /\ server.pc = "diff"
  /\ \/ Answer(End(TRUE)) /\ diffed' = TRUE
     \/ ("diff" \in Faults \/ ~heartbeat) /\ Answer(End(FALSE)) /\ UNCHANGED diffed
  /\ UNCHANGED <<wireVars, merged, heartbeat>> /\ InServer

Reply ==
  /\ server.pc = "reply"
  /\ down' = IF link = "open" THEN Append(down, server.reply) ELSE down
  /\ IF server.reply.kind = "ack" /\ link = "open"
     THEN server' = [server EXCEPT !.pc = "read"] /\ UNCHANGED link
     ELSE HandlerReturns
  /\ UNCHANGED <<up, merged, heartbeat, diffed>> /\ InServer

DrainEndsOk ==
  /\ server.pc = "drain" /\ link # "reset" /\ up # <<>> /\ up' = Tail(up)
  /\ down' = Append(down, IF Head(up).isLast THEN End(TRUE) ELSE Ack)
  /\ IF Head(up).isLast THEN HandlerReturns ELSE UNCHANGED <<server, link>>
  /\ UNCHANGED <<merged, heartbeat, diffed>> /\ InServer

\* drainAndRejectAccountsSync: chunks are acknowledged and thrown away, the last is refused.
DrainChunk ==
  /\ server.pc = "drain" /\ link # "reset" /\ up # <<>> /\ up' = Tail(up)
  /\ down' = Append(down, IF Head(up).isLast THEN End(FALSE) ELSE Ack)
  /\ IF Head(up).isLast THEN HandlerReturns ELSE UNCHANGED <<server, link>>
  /\ UNCHANGED <<merged, heartbeat, diffed>> /\ InServer

\* The client waits for an answer that the server has already sent.
Starved ==
  client \in {"ack", "final"} /\ \A i \in 1..Len(down) : down[i].kind \in {"heartbeat", "torn"}

\* The read of the next chunk fails: reset, end of file, or the read deadline.
ReadChunkFails ==
  /\ server.pc \in {"read", "drain"}
  /\ link = "reset" \/ (up = <<>> /\ (link = "gone" \/ Starved))
  /\ HandlerReturns
  /\ UNCHANGED <<up, down, merged, heartbeat, diffed>> /\ InServer

\* The next chunk takes the client longer than the read deadline.
SlowClient ==
  /\ "slow" \in Faults /\ server.pc \in {"read", "drain"} /\ up = <<>> /\ client = "next"
  /\ HandlerReturns
  /\ UNCHANGED <<up, down, merged, heartbeat, diffed>> /\ InServer

Server == Setup \/ ReadChunk \/ Diff \/ Reply \/ DrainChunk \/ ReadChunkFails

\* The ticker; at most one unread heartbeat is kept.
SendHeartbeat ==
  /\ heartbeat /\ server.pc # "done"
  /\ \/ /\ link = "open" /\ \A i \in 1..Len(down) : down[i].kind # "heartbeat"
        /\ down' = Append(down, Heartbeat) /\ UNCHANGED heartbeat
     \/ link # "open" /\ heartbeat' = FALSE /\ UNCHANGED down
  /\ UNCHANGED <<link, up, server, merged, diffed>> /\ InServer

HeartbeatEnds ==
  /\ heartbeat /\ server.pc = "done" /\ heartbeat' = FALSE
  /\ UNCHANGED <<wireVars, server, merged, diffed>> /\ InServer

\* The connection breaks; what was under way is lost.
Reset ==
  /\ "net" \in Faults /\ link \in {"open", "closed"}
  /\ link' = "reset" /\ up' = <<>> /\ down' = <<>>
  /\ UNCHANGED serverVars /\ InServer

Next ==
  \/ BuildChunks \/ Client \/ CallerCancels
  \/ Server \/ SlowClient \/ SendHeartbeat \/ HeartbeatEnds \/ Reset

\* Every goroutine runs; the faults, a slow client and a heartbeat may or may not happen.
Spec ==
  /\ Init /\ [][Next]_vars
  /\ WF_vars(BuildChunks) /\ WF_vars(Client) /\ WF_vars(Server) /\ WF_vars(HeartbeatEnds)

-----------------------------------------------------------------------------
(* Properties.                                                             *)

\* The diff is computed against the whole upload: when the last chunk has been
\* merged, every batch was merged exactly once and in order, however the
\* encoders overtake each other and whatever part of the pipeline fails.
DiffSeesWholeUpload == (diffed \/ server.pc = "diff") => merged = Upload

\* AccountSync succeeds only when the server has computed the diff of this
\* upload and every goroutine of the pipeline that produced it has reported no
\* error: a rejected, drained, cancelled or cut upload never looks complete.
SuccessIsAnswered ==
  /\ client \in {"wait", "ok"} => diffed
  /\ client = "ok" => errCh = "nil" /\ (counted # 0 => producer.err = "nil" /\ producer.next >= counted)

\* The server has answered, but the pipeline still has more chunks than out has room for:
\* the accounts grew after they were counted.  Nobody reads out any more, buildCancel is
\* deferred, and AccountSync waits at <-errCh.
Overfull ==
  /\ client = "wait" /\ ~cancelled /\ reorder.pc = "emit" /\ Len(out) = OutCap
  /\ actual > counted + OutCap

\* The upload ends on both sides, through full channels, late answers and every fault:
\* AccountSync returns, buildCancel releases the producer, the encoders and the reorder
\* stage, and the server's handler and its heartbeat goroutine are gone.  The one thing that
\* keeps AccountSync for ever is the surplus of Overfull, unless its caller cancels.
UploadEnds ==
  <>[](/\ server.pc \in {"none", "done"} /\ ~heartbeat
       /\ \/ Overfull
          \/ /\ client \in Returned /\ reorder.pc = "done" /\ producer.pc \in {"off", "done"}
             /\ \A w \in Encoders : encoder[w] = Exited)

=============================================================================

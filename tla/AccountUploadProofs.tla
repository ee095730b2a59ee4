------------------------- MODULE AccountUploadProofs -------------------------
(***************************************************************************)
(* An upload of the account nonces is merged whole and in order, and its   *)
(* success is the server's, for every number of batches and of encoders,   *)
(* every drift of the accounts while they are read, and every fault.       *)
(***************************************************************************)
EXTENDS AccountUpload, SequenceTheorems, TLAPS

\* The batches that NextBatch has returned, those a chunk can stand for, and
\* the chunks made of them. Without accounts there is one chunk.
Produced == 0..producer.next - 1
Batches  == IF counted = 0 THEN {0} ELSE Produced
Chunks   == {Chunk(i) : i \in Batches}

\* Every stage of the pipeline holds batches that the producer has read, and it
\* reports nil only when the producer did.
PipelineOK ==
  /\ counted \in Nat
  /\ producer \in [pc : {"off", "pull", "done"}, next : Nat, err : {"none", "error", "nil"}]
  /\ jobs \in Seq(Produced)
  /\ encoder \in [Encoders -> {Idle, Exited} \cup Produced]
  /\ encoded \in Seq([index : Produced, ok : BOOLEAN])
  /\ reorder \in [pc : {"count", "zero", "collect", "emit", "join", "done"}, pending : SUBSET Produced, next : Nat]
  /\ errCh \in {"open", "nil", "error"}
  /\ reorder.pc = "emit" => reorder.next \in reorder.pending
  /\ reorder.pc \in {"count", "zero"} => reorder.next = 0 /\ producer.pc = "off"
  /\ reorder.pc = "zero" => counted = 0
  /\ reorder.pc \in {"collect", "emit", "join"} => counted # 0
  /\ reorder.pc = "done" <=> errCh # "open"
  /\ producer.err # "none" => producer.pc = "done"
  /\ errCh = "nil" /\ counted # 0 => producer.err = "nil"

\* The handler has merged every chunk it read, so far.
Merging == server.pc \in {"none", "setup", "read"} \/ (server.pc = "reply" /\ server.reply.kind = "ack")

\* The batches that were merged, the chunks on the wire, those in the channel and
\* the next one to be emitted follow each other, until something is lost.
ChunksOK ==
  /\ out \in Seq(Chunks) /\ up \in Seq(Chunks) /\ merged \in Seq(Batches)
  /\ \A i \in 1..Len(merged) : merged[i] = i - 1
  /\ server.pc = "none" => up = <<>> /\ merged = <<>>
  /\ Merging => \A j \in 1..Len(up) : up[j].index = Len(merged) + j - 1
  /\ Merging /\ link \in {"none", "open"} =>
       /\ \A j \in 1..Len(out) : out[j].index = Len(merged) + Len(up) + j - 1
       /\ reorder.pc \in {"count", "zero", "collect", "emit"} =>
            reorder.next = Len(merged) + Len(up) + Len(out)

Replies == {Ack, End(TRUE), End(FALSE), Heartbeat, Torn}

\* A good End is written, sent and believed only after the diff.
AnswersOK ==
  /\ client \in {"connect", "next", "ack", "final", "wait"} \cup Returned
  /\ link \in {"none", "open", "reset", "closed", "gone"}
  /\ down \in Seq(Replies)
  /\ server \in [pc : {"none", "setup", "read", "drain", "reply", "diff", "done"}, reply : {Ack, End(TRUE), End(FALSE)}]
  /\ diffed \in BOOLEAN
  /\ client = "connect" <=> link = "none"
  /\ client = "connect" => server.pc = "none"
  /\ server.pc = "none" => link \in {"none", "gone"}
  /\ diffed => server.pc = "done" \/ (server.pc = "reply" /\ server.reply.kind = "end")
  /\ server.pc = "reply" /\ server.reply = End(TRUE) => diffed
  /\ \A i \in 1..Len(down) : down[i] = End(TRUE) => diffed
  /\ client \in {"wait", "ok"} => diffed
  /\ client = "ok" => errCh = "nil"

\* The inductive invariant.
UploadInv == PipelineOK /\ ChunksOK /\ AnswersOK /\ DiffSeesWholeUpload

-----------------------------------------------------------------------------
(* The pipeline.                                                           *)

\* A queue keeps its type when its head is taken and when its element set grows.
LEMMA QueueTail ==
  ASSUME NEW S, NEW q \in Seq(S), q # <<>>
  PROVE  /\ Head(q) \in S /\ Tail(q) \in Seq(S) /\ Len(Tail(q)) = Len(q) - 1 /\ Len(q) \in Nat /\ Len(q) > 0
         /\ Head(q) = q[1] /\ \A i \in 1..Len(q) - 1 : Tail(q)[i] = q[i + 1]
  <1>1. Len(q) \in Nat /\ Len(q) > 0
    BY EmptySeq
  <1> QED BY <1>1, HeadTailProperties

LEMMA QueueGrows ==
  ASSUME NEW S, NEW T, S \subseteq T, NEW q \in Seq(S)
  PROVE  q \in Seq(T)
  OBVIOUS

\* The steps of the pipeline leave the rest alone, and those of the rest leave it alone.
PipelineStays == UNCHANGED <<counted, producer, jobs, encoder, encoded, reorder, errCh>>

LEMMA OutsidePipeline ==
  Client \/ CallerCancels \/ Server \/ SlowClient \/ SendHeartbeat \/ HeartbeatEnds \/ Reset \/ UNCHANGED vars
    => PipelineStays
  BY DEF Client, CallerCancels, Server, SlowClient, SendHeartbeat, HeartbeatEnds, Reset, vars, pipeVars,
         PipelineStays, Connect, NextChunk, ReadFrame, ReadFails, WaitErr, InClient, Setup, ReadChunk, Diff,
         Reply, DrainChunk, ReadChunkFails, InServer

LEMMA InsidePipeline ==
  BuildChunks => UNCHANGED <<counted, client, link, up, down, server, merged, diffed>>
  BY DEF BuildChunks, Count, EmitZero, Produce, Collect, Emit, Join, TakeJob, Encode, InPipeline, wireVars, serverVars

LEMMA PipelineKept == PipelineOK /\ PipelineStays => PipelineOK'
  BY DEF PipelineOK, PipelineStays, Produced

\* The producer reads one batch more, or returns.
LEMMA ProduceStep == PipelineOK /\ Produce => PipelineOK'
  <1> SUFFICES ASSUME PipelineOK, Produce PROVE PipelineOK'
    OBVIOUS
  <1>1. producer.pc = "pull" /\ producer.err = "none" /\ producer.next \in Nat
        /\ UNCHANGED <<counted, encoder, encoded, reorder, errCh>>
    BY DEF Produce, PipelineOK, InPipeline
  <1>2. CASE \E e \in {"error", "nil"} : ProducerReturns(e) /\ UNCHANGED jobs
    <2>1. PICK e \in {"error", "nil"} : producer' = [producer EXCEPT !.pc = "done", !.err = e] /\ jobs' = jobs
      BY <1>2 DEF ProducerReturns
    <2>2. /\ producer' \in [pc : {"off", "pull", "done"}, next : Nat, err : {"none", "error", "nil"}]
          /\ producer'.pc = "done" /\ producer'.next = producer.next
      BY <2>1 DEF PipelineOK
    <2>3. Produced' = Produced
      BY <2>2 DEF Produced
    <2> QED BY <1>1, <2>1, <2>2, <2>3 DEF PipelineOK
  <1>3. CASE jobs' = Append(jobs, producer.next) /\ producer' = [producer EXCEPT !.next = @ + 1]
    <2>1. /\ producer' \in [pc : {"off", "pull", "done"}, next : Nat, err : {"none", "error", "nil"}]
          /\ producer'.pc = "pull" /\ producer'.next = producer.next + 1 /\ producer'.err = "none"
      <3> DEFINE m == producer.next + 1
      <3>2. m \in Nat /\ producer' = [producer EXCEPT !.next = m]
        BY <1>1, <1>3
      <3>1. PICK n \in Nat : n = producer.next + 1 /\ producer' = [producer EXCEPT !.next = n]
        BY <3>2
      <3> QED BY <1>1, <3>1 DEF PipelineOK
    <2>2. PICK P, Q : P = Produced /\ Q = Produced' /\ P \subseteq Q /\ producer.next \in Q
      BY <1>1, <2>1 DEF Produced
    <2>3. jobs' \in Seq(Q)
      <3>1. jobs \in Seq(Q)
        BY <2>2, QueueGrows DEF PipelineOK
      <3> QED BY <1>3, <2>2, <3>1
    <2>4. encoder' \in [Encoders -> {Idle, Exited} \cup Q]
      BY <1>1, <2>2 DEF PipelineOK
    <2>5. encoded' \in Seq([index : Q, ok : BOOLEAN])
      <3>1. [index : P, ok : BOOLEAN] \subseteq [index : Q, ok : BOOLEAN]
        BY <2>2
      <3>2. encoded' = encoded /\ encoded \in Seq([index : P, ok : BOOLEAN])
        BY <1>1, <2>2 DEF PipelineOK
      <3> QED BY <3>1, <3>2, QueueGrows
    <2>6. reorder' \in [pc : {"count", "zero", "collect", "emit", "join", "done"}, pending : SUBSET Q, next : Nat]
      BY <1>1, <2>2 DEF PipelineOK
    <2> QED BY <1>1, <2>1, <2>2, <2>3, <2>4, <2>5, <2>6 DEF PipelineOK
  <1> QED BY <1>2, <1>3 DEF Produce

LEMMA EncoderStep == ASSUME PipelineOK, NEW w \in Encoders, TakeJob(w) \/ Encode(w) PROVE PipelineOK'
  <1> DEFINE P == Produced
  <1>1. Produced' = P /\ UNCHANGED <<counted, producer, reorder, errCh>>
    BY DEF TakeJob, Encode, Produced
  <1>2. /\ jobs \in Seq(P) /\ encoded \in Seq([index : P, ok : BOOLEAN])
        /\ encoder \in [Encoders -> {Idle, Exited} \cup P]
    BY DEF PipelineOK
  <1> HIDE DEF P
  <1>3. jobs' \in Seq(P) /\ encoded' \in Seq([index : P, ok : BOOLEAN]) /\ encoder' \in [Encoders -> {Idle, Exited} \cup P]
    <2>1. CASE jobs # <<>> /\ encoder' = [encoder EXCEPT ![w] = Head(jobs)] /\ jobs' = Tail(jobs) /\ UNCHANGED encoded
      BY <1>2, <2>1, QueueTail
    <2>2. CASE encoder' = [encoder EXCEPT ![w] = Exited] /\ UNCHANGED <<jobs, encoded>>
      BY <1>2, <2>2
    <2>3. CASE /\ encoder[w] >= 0 /\ encoder' = [encoder EXCEPT ![w] = Idle] /\ UNCHANGED jobs
               /\ \E ok \in {TRUE, "encode" \notin Faults} : encoded' = Append(encoded, [index |-> encoder[w], ok |-> ok])
      <3>1. encoder[w] \in P
        BY <1>2, <2>3 DEF Idle, Exited
      <3>2. PICK ok \in BOOLEAN : encoded' = Append(encoded, [index |-> encoder[w], ok |-> ok])
        BY <2>3
      <3>3. [index |-> encoder[w], ok |-> ok] \in [index : P, ok : BOOLEAN]
        BY <3>1
      <3> QED BY <1>2, <2>3, <3>2, <3>3
    <2> QED BY <2>1, <2>2, <2>3 DEF TakeJob, Encode
  <1> QED BY <1>1, <1>3 DEF PipelineOK, P

\* The goroutine of buildChunks.
LEMMA ReorderStep == PipelineOK /\ (Count \/ EmitZero \/ Collect \/ Emit \/ Join) => PipelineOK'
  <1> SUFFICES ASSUME PipelineOK, Count \/ EmitZero \/ Collect \/ Emit \/ Join PROVE PipelineOK'
    OBVIOUS
  <1> DEFINE P == Produced
             Reorders == [pc : {"count", "zero", "collect", "emit", "join", "done"}, pending : SUBSET P, next : Nat]
  <1>1. /\ jobs \in Seq(P) /\ encoded \in Seq([index : P, ok : BOOLEAN]) /\ reorder \in Reorders
        /\ encoder \in [Encoders -> {Idle, Exited} \cup P] /\ counted \in Nat
    BY DEF PipelineOK
  <1>2. Produced' = P /\ producer'.next = producer.next
    BY DEF Count, EmitZero, Collect, Emit, Join, Produced, PipelineOK
  <1>3. P \subseteq Nat
    BY DEF Produced, PipelineOK
  <1> HIDE DEF P
  <1>4. ASSUME NEW e \in BOOLEAN, Finish(e), UNCHANGED <<counted, producer, jobs, encoder>>,
               encoded' \in Seq([index : P, ok : BOOLEAN]), ~e => counted = 0 \/ producer.err = "nil"
        PROVE  PipelineOK'
    <2>1. reorder' \in Reorders /\ reorder'.pc = "done"
      BY <1>1, <1>4 DEF Finish
    <2>2. errCh' \in {"nil", "error"} /\ (errCh' = "nil" => ~e)
      BY <1>4 DEF Finish
    <2> QED BY <1>1, <1>2, <1>4, <2>1, <2>2 DEF PipelineOK
  <1>5. CASE Count
    <2>1. CASE Finish(TRUE) /\ UNCHANGED <<producer, encoder>>
      BY <1>1, <1>4, <1>5, <2>1 DEF Count
    <2>2. CASE counted = 0 /\ reorder' = [reorder EXCEPT !.pc = "zero"] /\ UNCHANGED <<producer, encoder, errCh>>
      BY <1>1, <1>2, <1>5, <2>2 DEF Count, PipelineOK
    <2>3. CASE /\ counted # 0 /\ reorder' = [reorder EXCEPT !.pc = "collect"]
               /\ producer' = [producer EXCEPT !.pc = "pull"]
               /\ encoder' = [w \in Encoders |-> Idle] /\ UNCHANGED errCh
      <3>1. producer' \in [pc : {"off", "pull", "done"}, next : Nat, err : {"none", "error", "nil"}]
        BY <2>3 DEF PipelineOK
      <3>2. encoder' \in [Encoders -> {Idle, Exited} \cup P]
        BY <2>3
      <3>3. producer.err = "none" /\ producer'.err = "none"
        BY <1>5, <2>3 DEF Count, PipelineOK
      <3> QED BY <1>1, <1>2, <1>5, <2>3, <3>1, <3>2, <3>3 DEF Count, PipelineOK
    <2> QED BY <1>5, <2>1, <2>2, <2>3 DEF Count
  <1>6. CASE EmitZero
    <2>1. reorder.pc = "zero" /\ counted = 0 /\ UNCHANGED <<counted, producer, jobs, encoder, encoded>>
      BY <1>6 DEF EmitZero, PipelineOK
    <2>2. PICK e \in BOOLEAN : Finish(e)
      BY <1>6 DEF EmitZero
    <2> QED BY <1>1, <1>4, <2>1, <2>2
  <1>7. CASE Collect
    <2>1. reorder.pc = "collect" /\ counted # 0 /\ UNCHANGED <<counted, producer, jobs, encoder>>
      BY <1>7 DEF Collect, PipelineOK
    <2>2. CASE encoded = <<>> /\ reorder' = [reorder EXCEPT !.pc = "join"] /\ UNCHANGED <<encoded, errCh>>
      BY <1>1, <1>2, <2>1, <2>2 DEF PipelineOK
    <2>3. CASE encoded # <<>> /\ encoded' = Tail(encoded)
      <3>1. Head(encoded) \in [index : P, ok : BOOLEAN] /\ encoded' \in Seq([index : P, ok : BOOLEAN])
        BY <1>1, <2>3, QueueTail
      <3>2. CASE Finish(TRUE)
        BY <1>4, <2>1, <3>1, <3>2
      <3>3. CASE /\ UNCHANGED errCh
                 /\ reorder' = [reorder EXCEPT !.pending = @ \cup {Head(encoded).index},
                                               !.pc = IF Head(encoded).index = reorder.next THEN "emit" ELSE "collect"]
        <4>1. PICK i \in P : i = Head(encoded).index
          BY <3>1
        <4>2. reorder' = [reorder EXCEPT !.pending = reorder.pending \cup {i},
                                         !.pc = IF i = reorder.next THEN "emit" ELSE "collect"]
          BY <3>3, <4>1
        <4>3. reorder' \in Reorders /\ reorder'.next = reorder.next /\ reorder'.pending = reorder.pending \cup {i}
              /\ reorder'.pc = IF i = reorder.next THEN "emit" ELSE "collect"
          BY <1>1, <4>1, <4>2
        <4> QED BY <1>1, <1>2, <2>1, <3>1, <3>3, <4>3 DEF PipelineOK
      <3> QED BY <1>7, <2>1, <2>3, <3>2, <3>3 DEF Collect
    <2> QED BY <1>7, <2>1, <2>2, <2>3 DEF Collect
  <1>8. CASE Emit
    <2>1. /\ reorder.pc = "emit" /\ counted # 0 /\ reorder.next \in Nat
          /\ UNCHANGED <<counted, producer, jobs, encoder, encoded>>
      BY <1>1, <1>8 DEF Emit, PipelineOK
    <2>2. CASE Finish(TRUE)
      BY <1>1, <1>4, <2>1, <2>2
    <2>3. CASE /\ reorder' = [pc      |-> IF reorder.next + 1 \in reorder.pending THEN "emit" ELSE "collect",
                              pending |-> reorder.pending \ {reorder.next}, next |-> reorder.next + 1]
               /\ UNCHANGED errCh
      <3>1. reorder' \in Reorders /\ reorder'.next = reorder.next + 1
            /\ reorder'.pending = reorder.pending \ {reorder.next}
            /\ reorder'.pc = IF reorder.next + 1 \in reorder.pending THEN "emit" ELSE "collect"
        BY <1>1, <2>1, <2>3
      <3>2. reorder'.pc = "emit" => reorder'.next \in reorder'.pending
        BY <2>1, <3>1
      <3> QED BY <1>1, <1>2, <2>1, <2>3, <3>1, <3>2 DEF PipelineOK
    <2> QED BY <1>8, <2>2, <2>3 DEF Emit
  <1>9. CASE Join
    <2>1. /\ reorder.pc = "join" /\ producer.err # "none" /\ UNCHANGED <<counted, producer, jobs, encoder, encoded>>
          /\ producer.err \in {"none", "error", "nil"}
      BY <1>9 DEF Join, PipelineOK
    <2>2. PICK e \in BOOLEAN : e = (producer.err = "error")
      OBVIOUS
    <2>3. Finish(e)
      BY <1>9, <2>2 DEF Join
    <2>4. ~e => producer.err = "nil"
      BY <2>1, <2>2
    <2> QED BY <1>1, <1>4, <2>1, <2>3, <2>4
  <1> QED BY <1>5, <1>6, <1>7, <1>8, <1>9

LEMMA PipelineStep == PipelineOK /\ [Next]_vars => PipelineOK'
  <1> SUFFICES ASSUME PipelineOK, [Next]_vars PROVE PipelineOK'
    OBVIOUS
  <1>1. CASE BuildChunks
    BY <1>1, ProduceStep, EncoderStep, ReorderStep DEF BuildChunks
  <1>2. CASE ~BuildChunks
    BY <1>2, OutsidePipeline, PipelineKept DEF Next
  <1> QED BY <1>1, <1>2

-----------------------------------------------------------------------------
(* The chunks, from the reorder stage to the session ART.                  *)

Emitting == {"count", "zero", "collect", "emit"}

\* What has been read from the database is never taken back.
LEMMA BatchesGrow ==
  ASSUME PipelineOK, PipelineOK', [Next]_vars
  PROVE  /\ counted' = counted /\ Batches \subseteq Batches' /\ Chunks \subseteq Chunks'
         /\ \A i : Chunk(i)' = Chunk(i)
  <1>1. counted' = counted
    BY OutsidePipeline, InsidePipeline DEF Next, PipelineStays
  <1>2. \A i : Chunk(i)' = Chunk(i)
    BY <1>1 DEF Chunk
  <1>3. producer.next \in Nat /\ producer'.next \in Nat /\ producer'.next >= producer.next
    <2>1. producer.next \in Nat /\ producer'.next \in Nat
      BY DEF PipelineOK
    <2>2. producer'.next \in {producer.next, producer.next + 1}
      <3>1. CASE PipelineStays
        BY <3>1 DEF PipelineStays
      <3>2. CASE BuildChunks
        <4>1. CASE Produce
          <5>1. CASE producer' = [producer EXCEPT !.next = @ + 1]
            <6> DEFINE m == producer.next + 1
            <6>1. producer' = [producer EXCEPT !.next = m]
              BY <5>1
            <6> HIDE DEF m
            <6>2. producer'.next = m
              BY <6>1 DEF PipelineOK
            <6> QED BY <6>2 DEF m
          <5>2. CASE \E e : ProducerReturns(e)
            BY <5>2 DEF ProducerReturns, PipelineOK
          <5> QED BY <4>1, <5>1, <5>2 DEF Produce
        <4>2. CASE Count
          BY <4>2 DEF Count, PipelineOK
        <4>3. CASE UNCHANGED producer
          BY <4>3
        <4> QED BY <3>2, <4>1, <4>2, <4>3 DEF BuildChunks, EmitZero, Collect, Emit, Join, TakeJob, Encode
      <3> QED BY <3>1, <3>2, OutsidePipeline DEF Next
    <2> QED BY <2>1, <2>2
  <1>4. Batches \subseteq Batches'
    BY <1>1, <1>3 DEF Batches, Produced
  <1>5. Chunks \subseteq Chunks'
    <2> SUFFICES ASSUME NEW i \in Batches PROVE Chunk(i) \in Chunks'
      BY DEF Chunks
    <2>1. i \in Batches' /\ Chunk(i) = Chunk(i)'
      BY <1>2, <1>4
    <2> QED BY <2>1 DEF Chunks
  <1> QED BY <1>1, <1>2, <1>4, <1>5

\* Steps that neither move a chunk nor start a part of the upload again.
LEMMA ChunksKept ==
  ASSUME PipelineOK, PipelineOK', ChunksOK, [Next]_vars, UNCHANGED <<out, up, merged>>,
         Merging' => Merging, server'.pc = "none" => server.pc = "none",
         link' \in {"none", "open"} => link \in {"none", "open"},
         reorder'.pc \in Emitting => reorder.pc \in Emitting /\ reorder'.next = reorder.next
  PROVE  ChunksOK'
  <1>1. PICK C, B, D, A : /\ C = Chunks /\ D = Chunks' /\ B = Batches /\ A = Batches'
                          /\ C \subseteq D /\ B \subseteq A
    BY BatchesGrow
  <1>2. out' \in Seq(D) /\ up' \in Seq(D) /\ merged' \in Seq(A)
    BY <1>1, QueueGrows DEF ChunksOK
  <1> QED BY <1>1, <1>2 DEF ChunksOK, Emitting

\* The reorder stage emits the next chunk.
LEMMA EmitChunks ==
  ASSUME PipelineOK, PipelineOK', ChunksOK, [Next]_vars, Emit \/ EmitZero,
         out' = Append(out, Chunk(reorder.next))
  PROVE  ChunksOK'
  <1>1. PICK C, B, D, A : /\ C = Chunks /\ D = Chunks' /\ B = Batches /\ A = Batches'
                          /\ C \subseteq D /\ B \subseteq A
    BY BatchesGrow
  <1>2. UNCHANGED <<up, merged, link, server>> /\ Merging' = Merging
    BY DEF Emit, EmitZero, InPipeline, wireVars, serverVars, Merging
  <1>3. reorder.next \in Batches /\ reorder.next \in Nat
    BY DEF Emit, EmitZero, PipelineOK, Batches
  <1>4. Chunk(reorder.next) \in D /\ Chunk(reorder.next).index = reorder.next
    <2>1. Chunk(reorder.next) \in Chunks
      BY <1>3 DEF Chunks
    <2> QED BY <1>1, <2>1 DEF Chunk
  <1>5. PICK c : c = Chunk(reorder.next) /\ c \in D /\ c.index = reorder.next
    BY <1>4
  <1>6. out \in Seq(D) /\ Len(out) \in Nat /\ Len(up) \in Nat /\ Len(merged) \in Nat
    BY <1>1, QueueGrows DEF ChunksOK
  <1>7. /\ out' \in Seq(D) /\ Len(out') = Len(out) + 1 /\ \A i \in 1..Len(out) : out'[i] = out[i]
        /\ out'[Len(out) + 1] = c
    BY <1>5, <1>6, AppendProperties
  <1>8. up' \in Seq(D) /\ merged' \in Seq(A)
    BY <1>1, <1>2, QueueGrows DEF ChunksOK
  <1>9. ASSUME Merging, link \in {"none", "open"}
        PROVE  /\ \A j \in 1..Len(out') : out'[j].index = Len(merged) + Len(up) + j - 1
               /\ reorder'.pc \in Emitting => reorder'.next = Len(merged) + Len(up) + Len(out')
    <2>1. /\ \A j \in 1..Len(out) : out[j].index = Len(merged) + Len(up) + j - 1
          /\ reorder.next = Len(merged) + Len(up) + Len(out)
      BY <1>9 DEF ChunksOK, Emit, EmitZero
    <2>2. ASSUME NEW j \in 1..Len(out) + 1 PROVE out'[j].index = Len(merged) + Len(up) + j - 1
      <3>1. CASE j = Len(out) + 1
        BY <1>5, <1>6, <1>7, <2>1, <3>1
      <3>2. CASE j # Len(out) + 1
        <4>1. j \in 1..Len(out)
          BY <1>6, <3>2
        <4> QED BY <1>7, <2>1, <4>1
      <3> QED BY <3>1, <3>2
    <2>3. reorder'.pc \in Emitting => reorder'.next = reorder.next + 1
      <3>1. CASE reorder' = [reorder EXCEPT !.pc = "done"]
        BY <3>1 DEF PipelineOK, Emitting
      <3>2. CASE reorder' = [pc      |-> IF reorder.next + 1 \in reorder.pending THEN "emit" ELSE "collect",
                             pending |-> reorder.pending \ {reorder.next}, next |-> reorder.next + 1]
        BY <3>2
      <3> QED BY <3>1, <3>2 DEF Emit, EmitZero, Finish
    <2> QED BY <1>6, <1>7, <2>1, <2>2, <2>3
  <1> QED BY <1>1, <1>2, <1>7, <1>8, <1>9 DEF ChunksOK, Emitting

\* A chunk is written to the stream, or is lost with it.
LEMMA NextChunkChunks ==
  ASSUME PipelineOK, PipelineOK', ChunksOK, AnswersOK, [Next]_vars, NextChunk, out # <<>>
  PROVE  ChunksOK'
  <1>1. PICK C, B : /\ C = Chunks /\ C = Chunks' /\ B = Batches /\ B = Batches'
    BY DEF NextChunk, InClient, Chunks, Batches, Produced, Chunk
  <1>2. UNCHANGED <<merged, server, reorder>> /\ Merging' = Merging /\ out' = Tail(out)
    BY DEF NextChunk, InClient, Merging
  <1>3. /\ out \in Seq(C) /\ up \in Seq(C) /\ merged \in Seq(B)
        /\ Len(out) \in Nat /\ Len(up) \in Nat /\ Len(merged) \in Nat
    BY <1>1 DEF ChunksOK
  <1>4. /\ Head(out) \in C /\ Head(out) = out[1] /\ out' \in Seq(C) /\ Len(out) > 0 /\ Len(out') = Len(out) - 1
        /\ \A i \in 1..Len(out) - 1 : out'[i] = out[i + 1]
    BY <1>2, <1>3, QueueTail
  <1>5. link # "none"
    BY DEF NextChunk, AnswersOK
  <1>6. CASE link = "open" /\ up' = Append(up, Head(out)) /\ UNCHANGED link
    <2>1. PICK c \in C : c = out[1] /\ up' = Append(up, c)
      BY <1>4, <1>6
    <2>2. /\ up' \in Seq(C) /\ Len(up') = Len(up) + 1 /\ \A i \in 1..Len(up) : up'[i] = up[i]
          /\ up'[Len(up) + 1] = c
      BY <1>3, <2>1, AppendProperties
    <2>3. ASSUME Merging
          PROVE  /\ \A j \in 1..Len(up') : up'[j].index = Len(merged) + j - 1
                 /\ \A j \in 1..Len(out') : out'[j].index = Len(merged) + Len(up') + j - 1
                 /\ reorder.pc \in Emitting => reorder.next = Len(merged) + Len(up') + Len(out')
      <3>1. /\ \A j \in 1..Len(up) : up[j].index = Len(merged) + j - 1
            /\ \A j \in 1..Len(out) : out[j].index = Len(merged) + Len(up) + j - 1
            /\ reorder.pc \in Emitting => reorder.next = Len(merged) + Len(up) + Len(out)
        BY <1>6, <2>3 DEF ChunksOK, Emitting
      <3>2. c.index = Len(merged) + Len(up) + 1 - 1
        BY <1>4, <2>1, <3>1
      <3>3. ASSUME NEW j \in 1..Len(up) + 1 PROVE up'[j].index = Len(merged) + j - 1
        <4>1. CASE j = Len(up) + 1
          BY <1>3, <2>2, <3>2, <4>1
        <4>2. CASE j # Len(up) + 1
          <5>1. j \in 1..Len(up)
            BY <1>3, <4>2
          <5> QED BY <2>2, <3>1, <5>1
        <4> QED BY <4>1, <4>2
      <3>4. ASSUME NEW j \in 1..Len(out) - 1 PROVE out'[j].index = Len(merged) + (Len(up) + 1) + j - 1
        <4>1. j + 1 \in 1..Len(out) /\ Len(merged) + Len(up) + (j + 1) - 1 = Len(merged) + (Len(up) + 1) + j - 1
          BY <1>3
        <4> QED BY <1>4, <3>1, <4>1
      <3>5. Len(merged) + Len(up) + Len(out) = Len(merged) + (Len(up) + 1) + (Len(out) - 1)
        BY <1>3
      <3> QED BY <1>4, <2>2, <3>1, <3>3, <3>4, <3>5
    <2>4. server.pc # "none"
      BY <1>6 DEF ChunksOK, AnswersOK, NextChunk
    <2> QED BY <1>1, <1>2, <1>3, <1>4, <1>6, <2>2, <2>3, <2>4 DEF ChunksOK, Emitting
  <1>7. CASE up' = up /\ link' \notin {"none", "open"}
    BY <1>1, <1>2, <1>3, <1>4, <1>7 DEF ChunksOK
  <1>8. CASE link # "open" /\ UNCHANGED <<up, link>>
    BY <1>5, <1>7, <1>8
  <1> QED BY <1>5, <1>6, <1>7, <1>8 DEF NextChunk, Return

LEMMA ChunkFields == \A i : Chunk(i).index = i /\ (Chunk(i).isLast => i = counted - 1 \/ counted = 0)
  <1> TAKE i
  <1>1. PICK z : z = (i = counted - 1 \/ counted = 0)
    OBVIOUS
  <1>2. Chunk(i) = [index |-> i, isLast |-> z]
    BY <1>1 DEF Chunk
  <1>3. Chunk(i).index = i /\ Chunk(i).isLast = z
    BY <1>2
  <1> QED BY <1>1, <1>3

\* The handler merges the first chunk on the wire, or refuses it.
LEMMA ReadChunkChunks ==
  ASSUME PipelineOK, PipelineOK', ChunksOK, AnswersOK, [Next]_vars, ReadChunk
  PROVE  ChunksOK' /\ (server'.pc = "diff" => merged' = Upload')
  <1>1. PICK C, B : /\ C = Chunks /\ C = Chunks' /\ B = Batches /\ B = Batches'
    BY DEF ReadChunk, InServer, pipeVars, Chunks, Batches, Produced, Chunk
  <1>2. /\ UNCHANGED <<counted, out, reorder, link>> /\ up' = Tail(up) /\ up # <<>> /\ Merging
        /\ server.pc = "read"
    BY DEF ReadChunk, InServer, pipeVars, Merging
  <1>3. /\ out \in Seq(C) /\ up \in Seq(C) /\ merged \in Seq(B)
        /\ Len(out) \in Nat /\ Len(up) \in Nat /\ Len(merged) \in Nat
    BY <1>1 DEF ChunksOK
  <1>4. /\ Head(up) \in C /\ Head(up) = up[1] /\ up' \in Seq(C) /\ Len(up) > 0 /\ Len(up') = Len(up) - 1
        /\ \A i \in 1..Len(up) - 1 : up'[i] = up[i + 1]
    BY <1>2, <1>3, QueueTail
  <1>5. CASE Answer(End(FALSE)) /\ UNCHANGED merged
    <2>1. server'.pc = "reply" /\ ~Merging'
      BY <1>5 DEF Answer, End, Merging
    <2> QED BY <1>1, <1>2, <1>3, <1>4, <1>5, <2>1 DEF ChunksOK
  <1>6. CASE /\ merged' = Append(merged, Head(up).index)
             /\ IF Head(up).isLast THEN server' = [server EXCEPT !.pc = "diff"] ELSE Answer(Ack)
    <2>1. PICK i \in B : Head(up) = Chunk(i) /\ Head(up).index = i
      BY <1>1, <1>4, ChunkFields DEF Chunks
    <2>2. i = Len(merged)
      <3>1. up[1].index = Len(merged) + 1 - 1
        BY <1>2, <1>3, <1>4 DEF ChunksOK
      <3> QED BY <1>3, <1>4, <2>1, <3>1
    <2>3. /\ merged' \in Seq(B) /\ Len(merged') = Len(merged) + 1
          /\ \A j \in 1..Len(merged) : merged'[j] = merged[j]
          /\ merged'[Len(merged) + 1] = i
      BY <1>3, <1>6, <2>1, AppendProperties
    <2>4. ASSUME NEW j \in 1..Len(merged) + 1 PROVE merged'[j] = j - 1
      <3>1. CASE j = Len(merged) + 1
        BY <1>3, <2>2, <2>3, <3>1
      <3>2. CASE j # Len(merged) + 1
        <4>1. j \in 1..Len(merged)
          BY <1>3, <3>2
        <4> QED BY <2>3, <4>1 DEF ChunksOK
      <3> QED BY <3>1, <3>2
    <2>5. \A j \in 1..Len(up') : up'[j].index = Len(merged') + j - 1
      <3>1. ASSUME NEW j \in 1..Len(up) - 1 PROVE up'[j].index = (Len(merged) + 1) + j - 1
        <4>1. j + 1 \in 1..Len(up) /\ Len(merged) + (j + 1) - 1 = (Len(merged) + 1) + j - 1
          BY <1>3
        <4> QED BY <1>2, <1>4, <4>1 DEF ChunksOK
      <3> QED BY <1>4, <2>3, <3>1
    <2>6. Len(merged') + Len(up') = Len(merged) + Len(up)
      BY <1>3, <1>4, <2>3
    <2>7. server'.pc # "none"
      BY <1>6 DEF Answer, AnswersOK
    <2>8. ChunksOK'
      BY <1>1, <1>2, <1>3, <1>4, <2>3, <2>4, <2>5, <2>6, <2>7 DEF ChunksOK
    <2>9. ASSUME server'.pc = "diff" PROVE merged' = Upload'
      <3>1. Head(up).isLast
        BY <1>6, <2>9 DEF Answer
      <3>2. i = counted - 1 \/ counted = 0
        BY <2>1, <3>1, ChunkFields
      <3>3. Len(merged') = IF counted = 0 THEN 1 ELSE counted
        <4>1. CASE counted = 0
          BY <1>1, <1>3, <2>1, <2>2, <2>3, <4>1 DEF Batches
        <4>2. CASE counted # 0
          BY <1>3, <2>2, <2>3, <3>2, <4>2 DEF PipelineOK
        <4> QED BY <4>1, <4>2
      <3>4. merged' = [j \in 1..Len(merged') |-> merged'[j]]
        BY <2>3
      <3>5. merged' = [j \in 1..Len(merged') |-> j - 1]
        BY <2>3, <2>4, <3>4
      <3> QED BY <1>2, <3>3, <3>5 DEF Upload
    <2> QED BY <2>8, <2>9
  <1> QED BY <1>5, <1>6 DEF ReadChunk

\* What is drained or lost is no longer merged.
LEMMA LostChunks ==
  ASSUME PipelineOK, PipelineOK', ChunksOK, AnswersOK, [Next]_vars, DrainChunk \/ Reset
  PROVE  ChunksOK'
  <1>1. PICK C, B : /\ C = Chunks /\ C = Chunks' /\ B = Batches /\ B = Batches'
    BY DEF DrainChunk, Reset, InServer, pipeVars, Chunks, Batches, Produced, Chunk
  <1>2. UNCHANGED <<counted, out, reorder, merged>>
    BY DEF DrainChunk, Reset, InServer, pipeVars, serverVars
  <1>3. /\ out \in Seq(C) /\ up \in Seq(C) /\ merged \in Seq(B)
    BY <1>1 DEF ChunksOK
  <1>4. CASE DrainChunk
    <2>1. up' \in Seq(C)
      BY <1>3, <1>4, QueueTail DEF DrainChunk
    <2>2. ~Merging' /\ server'.pc # "none"
      BY <1>4 DEF DrainChunk, HandlerReturns, Merging, AnswersOK
    <2> QED BY <1>1, <1>2, <1>3, <2>1, <2>2 DEF ChunksOK
  <1>5. CASE Reset
    <2>1. up' = <<>> /\ link' = "reset" /\ UNCHANGED server /\ up' \in Seq(C) /\ Len(up') = 0
      BY <1>5 DEF Reset, serverVars
    <2> QED BY <1>1, <1>2, <1>3, <2>1 DEF ChunksOK, Merging
  <1> QED BY <1>4, <1>5

LEMMA ChunksStep ==
  ASSUME PipelineOK, PipelineOK', ChunksOK, AnswersOK, [Next]_vars
  PROVE  ChunksOK'
  <1>1. CASE BuildChunks
    <2>1. UNCHANGED <<link, up, server, merged>> /\ Merging' = Merging
      BY <1>1, InsidePipeline DEF Merging
    <2>2. CASE (Emit \/ EmitZero) /\ out' = Append(out, Chunk(reorder.next))
      BY <2>2, EmitChunks
    <2>3. CASE UNCHANGED out
      <3>1. reorder'.pc \in Emitting => reorder.pc \in Emitting /\ reorder'.next = reorder.next
        <4>1. CASE UNCHANGED reorder
          BY <4>1
        <4>2. CASE reorder' = [reorder EXCEPT !.pc = "done"] \/ reorder' = [reorder EXCEPT !.pc = "join"]
          BY <4>2 DEF PipelineOK, Emitting
        <4>3. CASE Count
          BY <4>2, <4>3 DEF Count, Finish, PipelineOK, Emitting
        <4>4. CASE Collect
          <5>1. ASSUME NEW x, NEW y, reorder' = [reorder EXCEPT !.pending = x, !.pc = y]
                PROVE  reorder'.next = reorder.next
            BY <5>1 DEF PipelineOK
          <5>2. reorder.pc \in Emitting
            BY <4>4 DEF Collect, Emitting
          <5>3. \/ reorder' = [reorder EXCEPT !.pc = "done"] \/ reorder' = [reorder EXCEPT !.pc = "join"]
                \/ \E x, y : reorder' = [reorder EXCEPT !.pending = x, !.pc = y]
            BY <4>4 DEF Collect, Finish
          <5> QED BY <4>2, <5>1, <5>2, <5>3
        <4>5. CASE Emit \/ EmitZero
          <5>1. CASE Finish(TRUE)
            BY <4>2, <5>1 DEF Finish
          <5>2. CASE out' = Append(out, Chunk(reorder.next)) \/ out' = Append(out, Chunk(0))
            <6>1. out \in Seq(Chunks) /\ Len(out) \in Nat
              BY DEF ChunksOK
            <6>2. \A c : Len(Append(out, c)) = Len(out) + 1
              BY <6>1
            <6> QED BY <2>3, <5>2, <6>1, <6>2
          <5> QED BY <4>5, <5>1, <5>2 DEF Emit, EmitZero
        <4> QED BY <1>1, <4>1, <4>2, <4>3, <4>4, <4>5
                DEF BuildChunks, Produce, Join, TakeJob, Encode, Finish
      <3> QED BY <2>1, <2>3, <3>1, ChunksKept
    <2>4. CASE Emit \/ EmitZero
      <3>1. EmitZero => reorder.next = 0
        BY DEF EmitZero, PipelineOK
      <3> QED BY <2>2, <2>3, <2>4, <3>1 DEF Emit, EmitZero
    <2> QED BY <1>1, <2>3, <2>4 DEF BuildChunks, Count, Produce, Collect, Join, TakeJob, Encode
  <1>2. CASE NextChunk
    <2>1. CASE out # <<>>
      BY <1>2, <2>1, NextChunkChunks
    <2>2. CASE out = <<>>
      BY <1>2, <2>2, ChunksKept DEF NextChunk, InClient, Return, Merging
    <2> QED BY <2>1, <2>2
  <1>3. CASE Connect
    <2>1. Merging /\ reorder' = reorder /\ UNCHANGED <<out, up, merged>> /\ link = "none"
      BY <1>3 DEF Connect, InClient, Merging, AnswersOK
    <2>2. server'.pc = "none" => server.pc = "none"
      BY <1>3 DEF Connect, AnswersOK
    <2> QED BY <2>1, <2>2, ChunksKept
  <1>4. CASE ReadFrame \/ ReadFails \/ WaitErr
    BY <1>4, ChunksKept DEF ReadFrame, ReadFails, WaitErr, InClient, Return, Merging
  <1>5. CASE ReadChunk
    BY <1>5, ReadChunkChunks
  <1>6. CASE DrainChunk \/ Reset
    BY <1>6, LostChunks
  <1>7. CASE Setup \/ Diff \/ Reply \/ ReadChunkFails \/ SlowClient
    <2>1. UNCHANGED <<out, up, merged, reorder>>
      BY <1>7 DEF Setup, Diff, Reply, ReadChunkFails, SlowClient, InServer, pipeVars, wireVars
    <2>2. link' \in {"none", "open"} => link \in {"none", "open"}
      BY <1>7 DEF Setup, Diff, Reply, ReadChunkFails, SlowClient, HandlerReturns, wireVars
    <2>3. Merging' => Merging
      <3>1. CASE Diff
        BY <3>1 DEF Diff, Answer, End, Merging
      <3>2. CASE Setup
        BY <3>2 DEF Setup, Merging
      <3>3. CASE Reply
        <4>1. CASE server' = [server EXCEPT !.pc = "done"]
          BY <4>1 DEF Merging, AnswersOK
        <4> QED BY <3>3, <4>1 DEF Reply, HandlerReturns, Merging
      <3>4. CASE ReadChunkFails \/ SlowClient
        BY <3>4 DEF ReadChunkFails, SlowClient, HandlerReturns, Merging, AnswersOK
      <3> QED BY <1>7, <3>1, <3>2, <3>3, <3>4
    <2>4. server'.pc = "none" => server.pc = "none"
      <3>1. \A x : [server EXCEPT !.pc = x].pc = x
        BY DEF AnswersOK
      <3>2. CASE Diff
        <4>1. \A r : Answer(r) => server'.pc = "reply"
          BY DEF Answer
        <4> QED BY <3>2, <4>1 DEF Diff
      <3>3. CASE ~Diff
        BY <1>7, <3>1, <3>3 DEF Setup, Reply, ReadChunkFails, SlowClient, HandlerReturns
      <3> QED BY <3>2, <3>3
    <2> QED BY <2>1, <2>2, <2>3, <2>4, ChunksKept
  <1>8. CASE CallerCancels \/ SendHeartbeat \/ HeartbeatEnds \/ UNCHANGED vars
    <2>1. UNCHANGED <<out, up, merged, reorder, server, link>>
      BY <1>8 DEF CallerCancels, SendHeartbeat, HeartbeatEnds, vars, InServer, pipeVars, wireVars, serverVars
    <2> QED BY <2>1, ChunksKept DEF Merging
  <1> QED BY <1>1, <1>2, <1>3, <1>4, <1>5, <1>6, <1>7, <1>8 DEF Next, Client, Server

-----------------------------------------------------------------------------
(* The answers.                                                            *)

\* No two kinds of frame are the same.
LEMMA ReplyKinds ==
  /\ Ack.kind = "ack" /\ Heartbeat.kind = "heartbeat" /\ Torn.kind = "torn"
  /\ \A ok : End(ok).kind = "end" /\ End(ok).ok = ok
  /\ \A r \in Replies : r.kind = "end" /\ r.ok => r = End(TRUE)
  /\ End(TRUE) \notin {Ack, Heartbeat, Torn, End(FALSE)}
  BY DEF Ack, Heartbeat, Torn, End, Replies

LEMMA NoGoodEnd ==
  ASSUME AnswersOK
  PROVE  /\ End(TRUE) # Ack /\ End(TRUE) # Heartbeat /\ End(TRUE) # Torn /\ End(TRUE) # End(FALSE)
         /\ \A k \in 1..Len(down) : down[k] = End(TRUE) => diffed
  BY ReplyKinds DEF AnswersOK

\* What a read leaves in the stream was in it, but for one torn frame.
LEMMA AfterReadReplies ==
  ASSUME down \in Seq(Replies), NEW d \in AfterRead
  PROVE  d \in Seq(Replies) /\ \A j \in 1..Len(d) : d[j] = Torn \/ \E k \in 1..Len(down) : d[j] = down[k]
  <1>1. Len(down) \in Nat /\ \A k \in 1..Len(down) : down[k] \in Replies
    OBVIOUS
  <1>2. PICK i \in 2..Len(down) + 1 :
          \/ d = SubSeq(down, i, Len(down))
          \/ i <= Len(down) /\ d = [SubSeq(down, i, Len(down)) EXCEPT ![1] = Torn]
    <2>1. CASE d \in {SubSeq(down, i, Len(down)) : i \in 2..Len(down) + 1}
      BY <2>1
    <2>2. CASE d \in {[SubSeq(down, i, Len(down)) EXCEPT ![1] = Torn] : i \in 2..Len(down)}
      <3>1. PICK i \in 2..Len(down) : d = [SubSeq(down, i, Len(down)) EXCEPT ![1] = Torn]
        BY <2>2
      <3>2. i \in 2..Len(down) + 1 /\ i <= Len(down)
        BY <1>1
      <3> QED BY <3>1, <3>2
    <2> QED BY <2>1, <2>2 DEF AfterRead
  <1> DEFINE q == SubSeq(down, i, Len(down))  n == Len(down) - i + 1
  <1>3. n \in Nat /\ i \in Int /\ n = Len(down) - i + 1
    BY <1>1, <1>2
  <1>4. q \in Seq(Replies) /\ Len(q) = n /\ \A j \in 1..n : q[j] = down[i + j - 1]
    <2>1. \A k \in i..Len(down) : down[k] \in Replies
      BY <1>1, <1>2
    <2>2. /\ q \in Seq(Replies) /\ Len(q) = IF i <= Len(down) THEN Len(down) - i + 1 ELSE 0
          /\ \A j \in 1..Len(down) - i + 1 : q[j] = down[i + j - 1]
      BY <1>1, <1>2, <2>1, SubSeqProperties
    <2>3. Len(q) = n
      BY <1>1, <1>2, <2>2
    <2> QED BY <2>2, <2>3
  <1>5. \A j \in 1..n : i + j - 1 \in 1..Len(down)
    BY <1>1, <1>2, <1>3
  <1> HIDE DEF q, n
  <1>6. CASE d = q
    BY <1>4, <1>5, <1>6
  <1>7. CASE i <= Len(down) /\ d = [q EXCEPT ![1] = Torn]
    <2>1. 1 \in 1..n /\ DOMAIN q = 1..n /\ Torn \in Replies
      BY <1>1, <1>3, <1>4, <1>7 DEF Replies
    <2>2. d \in Seq(Replies) /\ Len(d) = n /\ \A j \in 1..n : d[j] = IF j = 1 THEN Torn ELSE q[j]
      BY <1>4, <1>7, <2>1
    <2> QED BY <1>4, <1>5, <2>2
  <1> QED BY <1>2, <1>6, <1>7 DEF q

\* A frame is written behind the others.
LEMMA WriteReply ==
  ASSUME down \in Seq(Replies), NEW r \in Replies, NEW d, d = down \/ d = Append(down, r)
  PROVE  d \in Seq(Replies) /\ \A j \in 1..Len(d) : d[j] = r \/ \E k \in 1..Len(down) : d[j] = down[k]
  <1>1. Len(down) \in Nat
    OBVIOUS
  <1>2. CASE d = Append(down, r)
    <2>1. /\ d \in Seq(Replies) /\ Len(d) = Len(down) + 1 /\ d[Len(down) + 1] = r
          /\ \A j \in 1..Len(down) : d[j] = down[j]
      BY <1>2, AppendProperties
    <2>2. \A j \in 1..Len(down) + 1 : j = Len(down) + 1 \/ j \in 1..Len(down)
      BY <1>1
    <2> QED BY <2>1, <2>2
  <1> QED BY <1>2

\* The pipeline's report does not change once it is made.
LEMMA ReportStays == PipelineOK /\ BuildChunks /\ errCh # "open" => errCh' = errCh
  BY DEF PipelineOK, BuildChunks, Count, EmitZero, Produce, Collect, Emit, Join, TakeJob, Encode

Servers == [pc : {"none", "setup", "read", "drain", "reply", "diff", "done"}, reply : {Ack, End(TRUE), End(FALSE)}]

\* Setting the control of the handler.
LEMMA ServerGoes ==
  ASSUME AnswersOK, NEW p \in {"none", "setup", "read", "drain", "reply", "diff", "done"}
  PROVE  /\ [server EXCEPT !.pc = p] \in Servers /\ [server EXCEPT !.pc = p].pc = p
         /\ [server EXCEPT !.pc = p].reply = server.reply
  BY DEF AnswersOK, Servers

LEMMA ClientAnswers ==
  ASSUME PipelineOK, AnswersOK, Client
  PROVE  AnswersOK'
  <1>1. UNCHANGED <<diffed, errCh>>
    BY DEF Client, Connect, NextChunk, ReadFrame, ReadFails, WaitErr, InClient
  <1>2. CASE Connect
    <2>1. CASE client' = "next" /\ link' = "open" /\ server' = [server EXCEPT !.pc = "setup"]
      <3>1. server' \in Servers /\ server'.pc = "setup" /\ server.pc = "none"
        BY <1>2, <2>1, ServerGoes DEF Connect, AnswersOK
      <3> QED BY <1>1, <1>2, <2>1, <3>1 DEF Connect, AnswersOK, Servers
    <2>2. CASE Return("error") /\ UNCHANGED server
      BY <1>1, <1>2, <2>2 DEF Connect, Return, AnswersOK, Returned
    <2> QED BY <1>2, <2>1, <2>2 DEF Connect
  <1>3. CASE NextChunk
    <2>1. UNCHANGED <<down, server>> /\ client = "next"
      BY <1>3 DEF NextChunk
    <2>2. \/ client' \in {"final", "ack"} /\ UNCHANGED link
          \/ client' = "error" /\ link' = "gone"
      BY <1>3 DEF NextChunk, Return
    <2> QED BY <1>1, <2>1, <2>2 DEF AnswersOK, Returned
  <1>4. CASE ReadFrame
    <2>1. down \in Seq(Replies) /\ down # <<>> /\ UNCHANGED server /\ client \in {"ack", "final"} /\ down' \in AfterRead
      BY <1>4 DEF ReadFrame, AnswersOK
    <2>2. down' \in Seq(Replies) /\ \A j \in 1..Len(down') : down'[j] = Torn \/ \E k \in 1..Len(down) : down'[j] = down[k]
      BY <2>1, AfterReadReplies
    <2>3. \A j \in 1..Len(down') : down'[j] = End(TRUE) => diffed
      BY <2>2, NoGoodEnd
    <2>4. Head(down) \in Replies /\ (Head(down) = End(TRUE) => diffed)
      <3>1. Head(down) \in Replies /\ Head(down) = down[1] /\ 1 \in 1..Len(down)
        BY <2>1
      <3> QED BY <3>1 DEF AnswersOK
    <2>5. \/ client' \in {client, "next"} /\ UNCHANGED link
          \/ client' = "wait" /\ link' = "gone" /\ diffed
          \/ client' = "error" /\ link' = "gone"
      BY <1>4, <2>4, ReplyKinds DEF ReadFrame, Return
    <2> QED BY <1>1, <2>1, <2>2, <2>3, <2>5 DEF AnswersOK, Returned
  <1>5. CASE ReadFails
    BY <1>1, <1>5 DEF ReadFails, Return, AnswersOK, Returned
  <1>6. CASE WaitErr
    <2>1. UNCHANGED <<down, server>> /\ client = "wait" /\ link' = "gone" /\ errCh # "open"
      BY <1>6 DEF WaitErr, Return
    <2>2. client' = "error" \/ (client' = "ok" /\ errCh = "nil")
      BY <1>6 DEF WaitErr, Return
    <2> QED BY <1>1, <2>1, <2>2 DEF AnswersOK, Returned
  <1> QED BY <1>2, <1>3, <1>4, <1>5, <1>6 DEF Client

LEMMA ServerAnswers ==
  ASSUME PipelineOK, AnswersOK, Server \/ SlowClient \/ SendHeartbeat \/ HeartbeatEnds \/ Reset
  PROVE  AnswersOK'
  <1>1. UNCHANGED <<client, errCh>>
    BY DEF Server, Setup, ReadChunk, Diff, Reply, DrainChunk, ReadChunkFails, SlowClient, SendHeartbeat,
           HeartbeatEnds, Reset, InServer, pipeVars
  <1>2. ASSUME server.pc # "none", HandlerReturns, UNCHANGED <<down, diffed>> PROVE AnswersOK'
    <2>1. server' \in Servers /\ server'.pc = "done" /\ link' = IF link = "open" THEN "closed" ELSE link
      BY <1>2, ServerGoes DEF HandlerReturns
    <2> QED BY <1>1, <1>2, <2>1 DEF AnswersOK, Servers
  <1>3. ASSUME NEW p \in {"read", "drain", "diff"}, server' = [server EXCEPT !.pc = p], server.pc # "none",
               ~diffed, UNCHANGED <<down, diffed, link>>
        PROVE  AnswersOK'
    <2>1. server' \in Servers /\ server'.pc = p
      BY <1>3, ServerGoes
    <2> QED BY <1>1, <1>3, <2>1 DEF AnswersOK, Servers
  <1>4. ASSUME NEW r \in {Ack, End(TRUE), End(FALSE)}, Answer(r), server.pc # "none", diffed' \in BOOLEAN,
               diffed' <=> r = End(TRUE), ~diffed, UNCHANGED <<down, link>>
        PROVE  AnswersOK'
    <2>1. server' = [pc |-> "reply", reply |-> r]
      BY <1>4 DEF Answer
    <2>2. server' \in Servers /\ server'.pc = "reply" /\ server'.reply = r
      BY <2>1 DEF Servers
    <2>3. r = End(TRUE) => r.kind = "end"
      BY ReplyKinds
    <2> QED BY <1>1, <1>4, <2>2, <2>3 DEF AnswersOK, Servers
  <1>5. CASE Setup
    BY <1>2, <1>3, <1>5 DEF Setup, AnswersOK
  <1>6. CASE ReadChunk
    <2>1. server.pc = "read" /\ ~diffed /\ UNCHANGED <<down, diffed, link>> /\ diffed \in BOOLEAN
      BY <1>6 DEF ReadChunk, AnswersOK
    <2>2. \/ Answer(End(FALSE)) \/ Answer(Ack) \/ server' = [server EXCEPT !.pc = "diff"]
      BY <1>6 DEF ReadChunk
    <2> QED BY <1>3, <1>4, <2>1, <2>2, ReplyKinds
  <1>7. CASE Diff
    <2>1. server.pc = "diff" /\ ~diffed /\ UNCHANGED <<down, link>> /\ diffed \in BOOLEAN
      BY <1>7 DEF Diff, AnswersOK, wireVars
    <2>2. \/ Answer(End(TRUE)) /\ diffed' = TRUE
          \/ Answer(End(FALSE)) /\ diffed' = diffed
      BY <1>7 DEF Diff
    <2> QED BY <1>4, <2>1, <2>2, ReplyKinds
  <1>8. CASE Reply
    <2>1. server.pc = "reply" /\ server.reply \in {Ack, End(TRUE), End(FALSE)} /\ UNCHANGED diffed
      BY <1>8 DEF Reply, AnswersOK
    <2>2. down' \in Seq(Replies) /\ \A j \in 1..Len(down') : down'[j] = server.reply \/ \E k \in 1..Len(down) : down'[j] = down[k]
      <3>1. server.reply \in Replies /\ down \in Seq(Replies)
        BY <2>1 DEF Replies, AnswersOK
      <3>2. down' = down \/ down' = Append(down, server.reply)
        BY <1>8 DEF Reply
      <3> QED BY <3>1, <3>2, WriteReply
    <2>3. \A j \in 1..Len(down') : down'[j] = End(TRUE) => diffed
      BY <2>1, <2>2 DEF AnswersOK
    <2>4. /\ server' \in Servers /\ server'.pc \in {"read", "done"}
          /\ server'.pc = "read" => server.reply.kind = "ack"
          /\ link' \in {link, "closed"} /\ (link' = "closed" => link \in {"open", "closed"})
      <3>1. \/ server' = [server EXCEPT !.pc = "read"] /\ server.reply.kind = "ack" /\ link' = link
            \/ server' = [server EXCEPT !.pc = "done"] /\ link' = IF link = "open" THEN "closed" ELSE link
        BY <1>8 DEF Reply, HandlerReturns
      <3> QED BY <3>1, ServerGoes
    <2>5. server'.pc = "read" => ~diffed
      BY <2>1, <2>4 DEF AnswersOK
    <2> QED BY <1>1, <2>1, <2>2, <2>3, <2>4, <2>5 DEF AnswersOK, Servers
  <1>9. CASE DrainChunk
    <2>1. server.pc = "drain" /\ ~diffed /\ UNCHANGED diffed
      BY <1>9 DEF DrainChunk, AnswersOK
    <2>2. PICK r \in {End(FALSE), Ack} : down' = Append(down, r)
      BY <1>9 DEF DrainChunk
    <2>3. down' \in Seq(Replies) /\ \A j \in 1..Len(down') : down'[j] = r \/ \E k \in 1..Len(down) : down'[j] = down[k]
      <3>1. r \in Replies /\ down \in Seq(Replies)
        BY DEF Replies, AnswersOK
      <3> QED BY <2>2, <3>1, WriteReply
    <2>4. \A j \in 1..Len(down') : down'[j] # End(TRUE)
      BY <2>1, <2>3, NoGoodEnd
    <2>5. /\ server' \in Servers /\ server'.pc \in {"drain", "done"}
          /\ link' \in {link, "closed"} /\ (link' = "closed" => link \in {"open", "closed"})
      <3>1. \/ UNCHANGED <<server, link>>
            \/ server' = [server EXCEPT !.pc = "done"] /\ link' = IF link = "open" THEN "closed" ELSE link
        BY <1>9 DEF DrainChunk, HandlerReturns
      <3>2. server \in Servers
        BY DEF AnswersOK, Servers
      <3> QED BY <2>1, <3>1, <3>2, ServerGoes
    <2> QED BY <1>1, <2>1, <2>3, <2>4, <2>5 DEF AnswersOK, Servers
  <1>10. CASE ReadChunkFails \/ SlowClient
    BY <1>2, <1>10 DEF ReadChunkFails, SlowClient
  <1>11. CASE SendHeartbeat \/ HeartbeatEnds
    <2>1. UNCHANGED <<link, server, diffed>> /\ (down' = down \/ down' = Append(down, Heartbeat))
      BY <1>11 DEF SendHeartbeat, HeartbeatEnds, wireVars
    <2>2. down' \in Seq(Replies) /\ \A j \in 1..Len(down') : down'[j] = Heartbeat \/ \E k \in 1..Len(down) : down'[j] = down[k]
      <3>1. Heartbeat \in Replies /\ down \in Seq(Replies)
        BY DEF Replies, AnswersOK
      <3> QED BY <2>1, <3>1, WriteReply
    <2>3. \A j \in 1..Len(down') : down'[j] = End(TRUE) => diffed
      BY <2>2, NoGoodEnd
    <2>4. diffed' \in BOOLEAN
      BY <2>1 DEF AnswersOK
    <2> QED BY <1>1, <2>1, <2>2, <2>3, <2>4 DEF AnswersOK
  <1>12. CASE Reset
    <2>1. /\ UNCHANGED <<server, diffed>> /\ link \in {"open", "closed"} /\ link' = "reset"
          /\ down' = <<>> /\ down' \in Seq(Replies) /\ Len(down') = 0
      BY <1>12 DEF Reset, serverVars
    <2>2. diffed' \in BOOLEAN /\ server.pc # "none" /\ client # "connect"
      BY <2>1 DEF AnswersOK
    <2>3. \A i \in 1..Len(down') : down'[i] = End(TRUE) => diffed'
      BY <2>1
    <2> QED BY <1>1, <2>1, <2>2, <2>3 DEF AnswersOK
  <1> QED BY <1>5, <1>6, <1>7, <1>8, <1>9, <1>10, <1>11, <1>12 DEF Server

LEMMA AnswersStep == PipelineOK /\ AnswersOK /\ [Next]_vars => AnswersOK'
  <1> SUFFICES ASSUME PipelineOK, AnswersOK, [Next]_vars PROVE AnswersOK'
    OBVIOUS
  <1>1. CASE BuildChunks
    <2>1. UNCHANGED <<client, link, down, server, diffed>> /\ (errCh = "nil" => errCh' = "nil")
      BY <1>1, InsidePipeline, ReportStays
    <2> QED BY <2>1 DEF AnswersOK
  <1>2. CASE CallerCancels \/ UNCHANGED vars
    <2>1. UNCHANGED <<client, link, down, server, diffed, errCh>>
      BY <1>2 DEF CallerCancels, vars, pipeVars, wireVars, serverVars
    <2>2. diffed' \in BOOLEAN
      BY <2>1 DEF AnswersOK
    <2> QED BY <2>1, <2>2 DEF AnswersOK
  <1> QED BY <1>1, <1>2, ClientAnswers, ServerAnswers DEF Next

LEMMA DiffStep ==
  ASSUME UploadInv, PipelineOK', [Next]_vars
  PROVE  DiffSeesWholeUpload'
  <1>1. counted' = counted /\ Upload' = Upload
    BY BatchesGrow DEF UploadInv, Upload
  <1>2. CASE ReadChunk
    <2>1. ~diffed' /\ (server'.pc = "diff" => merged' = Upload')
      BY <1>2, ReadChunkChunks DEF UploadInv, ReadChunk, AnswersOK
    <2> QED BY <2>1 DEF DiffSeesWholeUpload
  <1>3. CASE ~ReadChunk
    <2>1. UNCHANGED merged
      BY <1>3, InsidePipeline DEF Next, Client, Connect, NextChunk, ReadFrame, ReadFails, WaitErr, InClient,
         CallerCancels, Server, Setup, Diff, Reply, DrainChunk, ReadChunkFails, SlowClient, SendHeartbeat,
         HeartbeatEnds, Reset, serverVars, vars
    <2>2. diffed' \/ server'.pc = "diff" => diffed \/ server.pc = "diff"
      <3>1. CASE Diff
        BY <3>1 DEF Diff
      <3>2. CASE ~Diff
        <4>1. diffed' = diffed
          BY <1>3, <3>2, InsidePipeline DEF Next, Client, Connect, NextChunk, ReadFrame, ReadFails, WaitErr, InClient,
             CallerCancels, Server, Setup, Reply, DrainChunk, ReadChunkFails, SlowClient, SendHeartbeat,
             HeartbeatEnds, Reset, serverVars, vars
        <4>2. \/ UNCHANGED server
              \/ \E p \in {"setup", "read", "drain", "done"} : server' = [server EXCEPT !.pc = p]
          BY <1>3, <3>2, InsidePipeline DEF Next, Client, Connect, NextChunk, ReadFrame, ReadFails, WaitErr, InClient,
             CallerCancels, Server, Setup, Reply, DrainChunk, ReadChunkFails, SlowClient, SendHeartbeat,
             HeartbeatEnds, Reset, serverVars, vars, HandlerReturns
        <4>3. \A p \in {"setup", "read", "drain", "done"} : [server EXCEPT !.pc = p].pc = p
          BY DEF UploadInv, AnswersOK
        <4> QED BY <4>1, <4>2, <4>3
      <3> QED BY <3>1, <3>2
    <2> QED BY <1>1, <2>1, <2>2 DEF UploadInv, DiffSeesWholeUpload
  <1> QED BY <1>2, <1>3

-----------------------------------------------------------------------------

LEMMA InitUpload == Init => UploadInv
  <1> SUFFICES ASSUME Init PROVE UploadInv
    OBVIOUS
  <1>1. counted \in Nat /\ \A S : <<>> \in Seq(S) /\ Len(<<>>) = 0
    BY AccountUploadAssumption DEF Init
  <1>2. PipelineOK
    BY <1>1 DEF Init, PipelineOK
  <1>3. ChunksOK
    BY <1>1 DEF Init, ChunksOK
  <1>4. AnswersOK
    <2>1. down \in Seq(Replies) /\ Len(down) = 0 /\ diffed = FALSE
      BY <1>1 DEF Init
    <2>2. server \in [pc : {"none", "setup", "read", "drain", "reply", "diff", "done"}, reply : {Ack, End(TRUE), End(FALSE)}]
          /\ server.pc = "none"
      BY DEF Init
    <2>3. client = "connect" /\ link = "none" /\ diffed \in BOOLEAN /\ ~diffed
      BY DEF Init
    <2>4. \A i \in 1..Len(down) : down[i] = End(TRUE) => diffed
      BY <2>1
    <2> QED BY <2>1, <2>2, <2>3, <2>4 DEF AnswersOK
  <1>5. DiffSeesWholeUpload
    BY DEF Init, DiffSeesWholeUpload
  <1> QED BY <1>2, <1>3, <1>4, <1>5 DEF UploadInv

LEMMA UploadInvariant == Spec => []UploadInv
  <1>1. UploadInv /\ [Next]_vars => UploadInv'
    BY PipelineStep, ChunksStep, AnswersStep, DiffStep DEF UploadInv
  <1> QED BY <1>1, InitUpload, PTL DEF Spec

\* The diff is computed against the whole upload, whatever overtakes what in the
\* pipeline and whatever fails.
THEOREM DiffIsComplete == Spec => []DiffSeesWholeUpload
  <1>1. UploadInv => DiffSeesWholeUpload
    BY DEF UploadInv
  <1> QED BY <1>1, UploadInvariant, PTL

\* AccountSync succeeds only after the server's diff of the whole upload and with
\* a pipeline that has read and encoded all that was counted.
THEOREM SuccessIsReal == Spec => []SuccessIsAnswered
  <1>1. UploadInv => SuccessIsAnswered
    <2> SUFFICES ASSUME UploadInv PROVE SuccessIsAnswered
      OBVIOUS
    <2>1. client \in {"wait", "ok"} => diffed
      BY DEF UploadInv, AnswersOK
    <2>2. ASSUME client = "ok", counted # 0 PROVE producer.err = "nil" /\ producer.next >= counted
      <3>1. producer.err = "nil" /\ producer.next \in Nat /\ counted \in Nat
        BY <2>2 DEF UploadInv, AnswersOK, PipelineOK
      <3>2. merged = Upload
        BY <2>1, <2>2 DEF UploadInv, DiffSeesWholeUpload
      <3>3. merged \in Seq(Produced) /\ Len(merged) = counted /\ merged[counted] = counted - 1
        BY <2>2, <3>1, <3>2 DEF UploadInv, ChunksOK, Batches, Upload
      <3>4. counted - 1 \in 0..producer.next - 1
        BY <2>2, <3>1, <3>3 DEF Produced
      <3> QED BY <3>1, <3>4
    <2> QED BY <2>1, <2>2 DEF UploadInv, AnswersOK, SuccessIsAnswered
  <1> QED BY <1>1, UploadInvariant, PTL

=============================================================================

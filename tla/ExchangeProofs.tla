--------------------------- MODULE ExchangeProofs ---------------------------
(***************************************************************************)
(* An exchange is safe for all deadlines, intervals, delays and lengths of *)
(* a computation that satisfy ExchangeAssumption, and for every fault.     *)
(***************************************************************************)
EXTENDS Exchange, SequenceTheorems, TLAPS

\* The frames of a wire on their way to the client.
Frames(w) ==
  [content : {"heartbeat", "answer", "refused"}, wire : {w}, age : 0..Delay, torn : BOOLEAN]

ExchangeTypeOK ==
  /\ setup \in Setups
  /\ client \in [pc : {"dial", "redial", "open", "read"} \cup Returned, transport : {"none", "tcp", "quic"},
                 wire : {"none", ReaderWire}, left : Nat, waiting : BOOLEAN,
                 got : {"nothing", "answer", "refused", "garbled"}]
  /\ link \in {"none", "open", "silent", "dead", "closed", "gone"}
  /\ up \in {<<>>} \cup {<<a>> : a \in 0..Delay} /\ down \in Seq(Frames(ReaderWire))
  /\ server \in [pc : {"none", "read", "compute", "write", "done"}, wire : {"none", ReaderWire},
                 left : Nat, reply : {"nothing", "answer", "refused"}]
  /\ heartbeat \in [on : BOOLEAN, left : 0..HeartbeatInterval]

\* Where client, handler and heartbeat goroutine can be at the same time: the
\* handler exists once the stream does, both ends use the wire that was
\* negotiated, nothing is written before the request is read, heartbeats go on
\* while the handler computes, and one that has returned leaves no open stream.
Stages ==
  /\ server.pc = "none" => /\ client.pc \in {"dial", "redial", "open", "failed"} /\ link = "none"
                           /\ up = <<>> /\ client.wire = "none"
  /\ server.pc # "none" => /\ client.pc \in {"read"} \cup Returned /\ link # "none"
                           /\ server.wire = ReaderWire /\ client.wire = ReaderWire
  /\ server.pc \in {"none", "read"} => down = <<>> /\ ~heartbeat.on
  /\ server.pc = "read" /\ link = "open" => up # <<>>
  /\ server.pc = "compute" /\ link = "open" /\ ReaderWire = "envelope" => heartbeat.on
  /\ server.pc = "write" => server.reply # "nothing"
  /\ server.pc = "done" => link # "open"
  /\ client.pc = "read" => link # "gone"

\* A frame that is no heartbeat is the reply of the handler, which has returned.
RepliesOnly ==
  \A i \in 1..Len(down) :
    down[i].content # "heartbeat" => server.pc = "done" /\ down[i].content = server.reply

\* On the envelope wire, while the stream works and no torn frame is waited for: a
\* frame under way arrives before the read deadline, and otherwise the next one is
\* written and arrives before it.
DeadlineAhead ==
  client.pc = "read" /\ ~client.waiting /\ ReaderWire = "envelope" /\ link \in {"open", "closed"} =>
    /\ client.left > 0
    /\ down # <<>> => client.left + down[1].age > Delay
    /\ down = <<>> /\ link = "open" =>
         /\ server.pc = "read" => client.left + up[1] >= StreamDeadline
         /\ heartbeat.on => client.left > heartbeat.left + Delay
         /\ server.pc = "write" => client.left > Delay

\* On the bare wire nothing precedes the response, so that no read takes a part of it.
BareWhole ==
  ReaderWire = "bare" =>
    /\ ~client.waiting /\ ~heartbeat.on
    /\ server.pc # "done" => down = <<>>
    /\ Len(down) <= 1 /\ \A i \in 1..Len(down) : ~down[i].torn

\* The inductive invariant, together with BareWhole.
ExchangeInv ==
  /\ ExchangeTypeOK /\ Stages /\ RepliesOnly /\ DeadlineAhead
  /\ ResponseIsTheHandlers /\ NoSpuriousTimeout

-----------------------------------------------------------------------------
(* Frames.                                                                 *)

\* Setting a field of a frame.
LEMMA TornFrame ==
  ASSUME NEW w, NEW f \in Frames(w), NEW x \in BOOLEAN
  PROVE  /\ [f EXCEPT !.torn = x] \in Frames(w) /\ [f EXCEPT !.torn = x].content = f.content
         /\ [f EXCEPT !.torn = x].age = f.age
  BY DEF Frames

LEMMA AgedFrame ==
  ASSUME NEW w, NEW f \in Frames(w), NEW a \in 0..Delay
  PROVE  /\ [f EXCEPT !.age = a] \in Frames(w) /\ [f EXCEPT !.age = a].content = f.content
         /\ [f EXCEPT !.age = a].age = a /\ [f EXCEPT !.age = a].torn = f.torn
  BY DEF Frames

\* What a read leaves in the stream are frames that were in it, one of them torn
\* at most: no content appears that was not written.
LEMMA AfterReadFrames ==
  ASSUME NEW w, down \in Seq(Frames(w)), NEW d \in AfterRead
  PROVE  /\ d \in Seq(Frames(w))
         /\ \A j \in 1..Len(d) : \E k \in 1..Len(down) : d[j].content = down[k].content
  <1>1. Len(down) \in Nat /\ \A k \in 1..Len(down) : down[k] \in Frames(w)
    OBVIOUS
  <1>2. PICK i \in 2..Len(down) + 1 :
          \/ d = SubSeq(down, i, Len(down))
          \/ i <= Len(down) /\ d = [SubSeq(down, i, Len(down)) EXCEPT ![1].torn = TRUE]
    <2>1. CASE d \in {SubSeq(down, i, Len(down)) : i \in 2..Len(down) + 1}
      BY <2>1
    <2>2. CASE d \in {[SubSeq(down, i, Len(down)) EXCEPT ![1].torn = TRUE] : i \in 2..Len(down)}
      <3>1. PICK i \in 2..Len(down) : d = [SubSeq(down, i, Len(down)) EXCEPT ![1].torn = TRUE]
        BY <2>2
      <3>2. i \in 2..Len(down) + 1 /\ i <= Len(down)
        BY <1>1
      <3> QED BY <3>1, <3>2
    <2> QED BY <2>1, <2>2 DEF AfterRead
  <1> DEFINE q == SubSeq(down, i, Len(down))  n == Len(down) - i + 1
  <1>3. n \in Nat /\ i \in Int /\ n = Len(down) - i + 1
    BY <1>1, <1>2
  <1>4. q \in Seq(Frames(w)) /\ Len(q) = n /\ \A j \in 1..n : q[j] = down[i + j - 1]
    <2>1. \A k \in i..Len(down) : down[k] \in Frames(w)
      BY <1>1, <1>2
    <2>2. /\ q \in Seq(Frames(w)) /\ Len(q) = IF i <= Len(down) THEN Len(down) - i + 1 ELSE 0
          /\ \A j \in 1..Len(down) - i + 1 : q[j] = down[i + j - 1]
      BY <1>1, <1>2, <2>1, SubSeqProperties, SMTT(30)
    <2>3. Len(q) = n
      BY <1>1, <1>2, <2>2
    <2> QED BY <2>2, <2>3
  <1>5. \A j \in 1..n : i + j - 1 \in 1..Len(down)
    BY <1>1, <1>2, <1>3
  <1> HIDE DEF q, n
  <1>6. CASE d = q
    BY <1>4, <1>5, <1>6
  <1>7. CASE i <= Len(down) /\ d = [q EXCEPT ![1].torn = TRUE]
    <2>1. 1 \in 1..n /\ DOMAIN q = 1..n
      BY <1>1, <1>3, <1>4, <1>7
    <2>2. q[1] \in Frames(w)
      BY <1>4, <2>1
    <2>3. PICK g : g = [q[1] EXCEPT !.torn = TRUE] /\ g \in Frames(w) /\ g.content = q[1].content
      BY <2>2, TornFrame
    <2>4. d = [q EXCEPT ![1] = g]
      BY <1>7, <2>3
    <2>5. d \in Seq(Frames(w)) /\ Len(d) = n /\ \A j \in 1..n : d[j] = IF j = 1 THEN g ELSE q[j]
      BY <1>4, <2>1, <2>3, <2>4
    <2>6. ASSUME NEW j \in 1..n PROVE d[j].content = down[i + j - 1].content
      BY <1>4, <2>3, <2>5
    <2> QED BY <1>5, <2>5, <2>6
  <1> QED BY <1>2, <1>6, <1>7 DEF q

-----------------------------------------------------------------------------
(* The invariant.                                                          *)

\* No step changes what was set up, nor the wire that is negotiated.
LEMMA WireStays == [Next]_vars => setup' = setup /\ ReaderWire' = ReaderWire
  BY DEF Next, Client, Dial, OpenStream, Read, ReadFails, InClient, Server, ServerReads, ServerReadFails,
         Compute, Respond, InServer, Beat, BeatEnds, Break, Detect, Tick, vars, ReaderWire

LEMMA InitInv == Init => ExchangeInv
  <1> SUFFICES ASSUME Init PROVE ExchangeInv
    OBVIOUS
  <1>1. down \in Seq(Frames(ReaderWire)) /\ Len(down) = 0
    BY DEF Init
  <1>2. ExchangeTypeOK
    BY <1>1, ExchangeAssumption DEF Init, ExchangeTypeOK, Returned
  <1>3. Stages /\ RepliesOnly /\ DeadlineAhead /\ ResponseIsTheHandlers /\ NoSpuriousTimeout
    BY <1>1 DEF Init, Stages, RepliesOnly, DeadlineAhead, ResponseIsTheHandlers, NoSpuriousTimeout
  <1> QED BY <1>2, <1>3 DEF ExchangeInv

\* Connecting: no stream exists yet.
LEMMA DialStep == ExchangeInv /\ Dial => ExchangeInv'
  <1> SUFFICES ASSUME ExchangeInv, Dial PROVE ExchangeInv'
    OBVIOUS
  <1>1. setup' = setup /\ ReaderWire' = ReaderWire
    BY DEF Dial, InClient, ReaderWire
  <1>2. server.pc = "none" /\ UNCHANGED <<link, up, down, server, heartbeat>>
    BY DEF Dial, InClient, Return, ExchangeInv, Stages, ExchangeTypeOK, Returned
  <1>3. \E p \in {"redial", "open", "failed"}, x \in {"none", "tcp", "quic"} :
           client' = [client EXCEPT !.pc = p, !.transport = x]
    <2>1. SelectTransportAddrWithFallback(setup.addrs, setup.version).primary \in {"none", "tcp", "quic"}
      BY DEF SelectTransportAddrWithFallback
    <2>2. SelectTransportAddrWithFallback(setup.addrs, setup.version).fallback \in {"none", "tcp", "quic"}
      BY DEF SelectTransportAddrWithFallback
    <2>3. client.transport \in {"none", "tcp", "quic"}
      BY DEF ExchangeInv, ExchangeTypeOK
    <2>4. \A p : [client EXCEPT !.pc = p] = [client EXCEPT !.pc = p, !.transport = client.transport]
      BY DEF ExchangeInv, ExchangeTypeOK
    <2>5. CASE \E p \in {"redial", "failed"} : client' = [client EXCEPT !.pc = p]
      BY <2>3, <2>4, <2>5
    <2>6. CASE \E x \in {"none", "tcp", "quic"} : client' = [client EXCEPT !.pc = "open", !.transport = x]
      BY <2>6
    <2> QED BY <2>1, <2>2, <2>5, <2>6 DEF Dial, Return
  <1>4. ExchangeTypeOK'
    <2>1. PICK p \in {"redial", "open", "failed"}, x \in {"none", "tcp", "quic"} :
            client' = [client EXCEPT !.pc = p, !.transport = x]
      BY <1>3
    <2>2. client' \in [pc : {"dial", "redial", "open", "read"} \cup Returned, transport : {"none", "tcp", "quic"},
                       wire : {"none", ReaderWire}, left : Nat, waiting : BOOLEAN,
                       got : {"nothing", "answer", "refused", "garbled"}]
      BY <2>1 DEF ExchangeInv, ExchangeTypeOK, Returned
    <2>3. Frames(ReaderWire)' = Frames(ReaderWire)
      BY <1>1 DEF Frames
    <2> QED BY <1>1, <1>2, <2>2, <2>3 DEF ExchangeInv, ExchangeTypeOK
  <1>5. Stages' /\ RepliesOnly' /\ DeadlineAhead' /\ ResponseIsTheHandlers' /\ NoSpuriousTimeout'
    BY <1>1, <1>2, <1>3 DEF ExchangeInv, ExchangeTypeOK, Stages, RepliesOnly, DeadlineAhead,
       ResponseIsTheHandlers, NoSpuriousTimeout
  <1> QED BY <1>4, <1>5 DEF ExchangeInv

\* The request is on its way and the first read deadline is set.
LEMMA OpenStep == ExchangeInv /\ OpenStream => ExchangeInv'
  <1> SUFFICES ASSUME ExchangeInv, OpenStream PROVE ExchangeInv'
    OBVIOUS
  <1>1. setup' = setup /\ ReaderWire' = ReaderWire
    BY DEF OpenStream, InClient, ReaderWire
  <1>2. server.pc = "none" /\ down = <<>> /\ UNCHANGED <<down, heartbeat>> /\ ~heartbeat.on
    BY DEF OpenStream, InClient, ExchangeInv, Stages, ExchangeTypeOK, Returned
  <1>3. CASE Return("failed") /\ UNCHANGED <<up, server>>
    <2>1. link' = link /\ client' = [client EXCEPT !.pc = "failed"]
      BY <1>2, <1>3 DEF Return, ExchangeInv, Stages
    <2>2. ExchangeTypeOK'
      BY <1>1, <1>2, <1>3, <2>1 DEF ExchangeInv, ExchangeTypeOK, Returned
    <2>3. Stages' /\ RepliesOnly' /\ DeadlineAhead' /\ ResponseIsTheHandlers' /\ NoSpuriousTimeout'
      BY <1>1, <1>2, <1>3, <2>1 DEF ExchangeInv, ExchangeTypeOK, Stages, RepliesOnly, DeadlineAhead,
         ResponseIsTheHandlers, NoSpuriousTimeout
    <2> QED BY <2>2, <2>3 DEF ExchangeInv
  <1>4. CASE /\ link' = "open" /\ up' = <<0>>
             /\ client' = [client EXCEPT !.pc = "read", !.wire = ReaderWire, !.left = StreamDeadline]
             /\ server' = [server EXCEPT !.pc = "read", !.wire = NegotiatedWire(setup.protocol, setup.old),
                                         !.left = Handlers[setup.protocol].deadline]
    <2>1. Handlers[setup.protocol].deadline \in Nat
      <3>1. setup.protocol \in Protocols
        BY DEF ExchangeInv, ExchangeTypeOK, Setups
      <3> QED BY <3>1, ExchangeAssumption DEF Protocols, Senders, Handlers, Handler, HandleAvailability,
                 HandlePriorSync, HandleMerkle, HandleHeaderSync, HandleDataSync, HandlePoTSSync,
                 HandleAccountsFetch
    <2>2. PICK n \in Nat :
            server' = [server EXCEPT !.pc = "read", !.wire = ReaderWire, !.left = n]
      BY <1>4, <2>1 DEF ReaderWire
    <2>3. StreamDeadline \in Nat /\ StreamDeadline > 0 /\ 0 \in 0..Delay
      BY ExchangeAssumption
    <2>4. ExchangeTypeOK'
      BY <1>1, <1>2, <1>4, <2>2, <2>3 DEF ExchangeInv, ExchangeTypeOK, Returned
    <2>5. /\ client'.pc = "read" /\ client'.wire = ReaderWire /\ client'.left = StreamDeadline
          /\ server'.pc = "read" /\ server'.wire = ReaderWire /\ down' = <<>> /\ ~heartbeat'.on
          /\ up'[1] = 0 /\ up' # <<>> /\ link' = "open" /\ Len(down') = 0
      BY <1>2, <1>4, <2>2 DEF ExchangeInv, ExchangeTypeOK
    <2>6. Stages' /\ RepliesOnly' /\ DeadlineAhead' /\ ResponseIsTheHandlers' /\ NoSpuriousTimeout'
      BY <1>1, <2>3, <2>5 DEF Stages, RepliesOnly, DeadlineAhead, ResponseIsTheHandlers, NoSpuriousTimeout
    <2> QED BY <2>4, <2>6 DEF ExchangeInv
  <1> QED BY <1>3, <1>4 DEF OpenStream

\* A read: a heartbeat starts the deadline again, the rest of a torn frame may be waited
\* for, and anything else ends the exchange.
LEMMA ReadStep == ExchangeInv /\ BareWhole /\ Read => ExchangeInv'
  <1> SUFFICES ASSUME ExchangeInv, BareWhole, Read PROVE ExchangeInv'
    OBVIOUS
  <1>1. setup' = setup /\ ReaderWire' = ReaderWire /\ UNCHANGED <<up, server, heartbeat>>
    BY DEF Read, InClient, ReaderWire
  <1>2. server.pc \in {"compute", "write", "done"} /\ client.pc = "read" /\ client.wire = ReaderWire
    BY DEF Read, ExchangeInv, Stages, ExchangeTypeOK
  <1>3. /\ down' \in Seq(Frames(ReaderWire))
        /\ \A j \in 1..Len(down') : \E k \in 1..Len(down) : down'[j].content = down[k].content
    <2>1. down \in Seq(Frames(ReaderWire)) /\ down' \in AfterRead
      BY DEF Read, ExchangeInv, ExchangeTypeOK
    <2> QED BY <2>1, AfterReadFrames
  <1>4. RepliesOnly'
    <2> SUFFICES ASSUME NEW j \in 1..Len(down'), down'[j].content # "heartbeat"
                 PROVE  server.pc = "done" /\ down'[j].content = server.reply
      BY <1>1 DEF RepliesOnly
    <2> QED BY <1>3 DEF ExchangeInv, RepliesOnly
  <1> DEFINE f == Head(down)
  <1>5. /\ f \in Frames(ReaderWire) /\ f.wire = client.wire
        /\ f.content # "heartbeat" => server.pc = "done" /\ f.content = server.reply
    <2>1. f = down[1] /\ 1 \in 1..Len(down) /\ f \in Frames(ReaderWire)
      BY DEF Read, ExchangeInv, ExchangeTypeOK
    <2> QED BY <1>2, <2>1 DEF ExchangeInv, RepliesOnly, Frames
  <1>6. PICK d \in Decoded(f) :
          \/ d = "heartbeat" /\ client' = OnHeartbeat /\ UNCHANGED link
          \/ d = "wait" /\ client' = [client EXCEPT !.waiting = TRUE] /\ UNCHANGED link
          \/ d = "error" /\ Return("failed")
          \/ /\ d \notin {"heartbeat", "wait", "error"} /\ link' = "gone"
             /\ client' = [client EXCEPT !.got = d,
                  !.pc = IF Senders[setup.protocol].checksAck /\ d # "answer" THEN "refused" ELSE "ok"]
    BY DEF Read
  <1>7. /\ f.content \in {"heartbeat", "answer", "refused"}
        /\ \/ (f.torn \/ client.waiting) /\ d \in {"error", "heartbeat", "wait"}
           \/ (f.torn \/ client.waiting) /\ d = "garbled" /\ f.content # "heartbeat"
           \/ d = f.content
    BY <1>5, Zenon DEF Decoded, Frames
  <1>8. StreamDeadline \in Nat /\ StreamDeadline > 0 /\ Delay \in Nat /\ HeartbeatInterval \in Nat
        /\ StreamDeadline > HeartbeatInterval + Delay
    BY ExchangeAssumption
  <1> HIDE DEF f
  <1>9. CASE d = "heartbeat" /\ client' = OnHeartbeat /\ UNCHANGED link
    <2>1. client' = [client EXCEPT !.waiting = FALSE, !.left = StreamDeadline]
      BY <1>9 DEF OnHeartbeat
    <2>2. ExchangeTypeOK'
      <3>1. client' \in [pc : {"dial", "redial", "open", "read"} \cup Returned, transport : {"none", "tcp", "quic"},
                         wire : {"none", ReaderWire}, left : Nat, waiting : BOOLEAN,
                         got : {"nothing", "answer", "refused", "garbled"}]
        BY <1>8, <2>1 DEF ExchangeInv, ExchangeTypeOK
      <3> QED BY <1>1, <1>3, <1>9, <3>1 DEF ExchangeInv, ExchangeTypeOK
    <2>3. client'.left = StreamDeadline /\ client'.pc = client.pc /\ client'.wire = client.wire
      BY <2>1 DEF ExchangeInv, ExchangeTypeOK
    <2>4. Stages' /\ ResponseIsTheHandlers' /\ NoSpuriousTimeout'
      BY <1>1, <1>2, <1>9, <2>3 DEF ExchangeInv, Stages, ResponseIsTheHandlers, NoSpuriousTimeout
    <2>5. DeadlineAhead'
      <3>1. down' # <<>> => down'[1] \in Frames(ReaderWire)
        BY <1>3
      <3>2. down' # <<>> => down'[1].age \in Nat
        BY <1>8, <3>1 DEF Frames
      <3>3. heartbeat.left \in 0..HeartbeatInterval
        BY DEF ExchangeInv, ExchangeTypeOK
      <3> QED BY <1>1, <1>2, <1>8, <1>9, <2>3, <3>2, <3>3 DEF DeadlineAhead
    <2> QED BY <1>4, <2>2, <2>4, <2>5 DEF ExchangeInv
  <1>10. CASE Return("failed")
    <2>1. client' = [client EXCEPT !.pc = "failed"] /\ link' \in {"dead", "gone"}
      BY <1>2, <1>10 DEF Return, ExchangeInv, Stages
    <2>2. ExchangeTypeOK'
      <3>1. client' \in [pc : {"dial", "redial", "open", "read"} \cup Returned, transport : {"none", "tcp", "quic"},
                         wire : {"none", ReaderWire}, left : Nat, waiting : BOOLEAN,
                         got : {"nothing", "answer", "refused", "garbled"}]
        BY <2>1 DEF ExchangeInv, ExchangeTypeOK, Returned
      <3> QED BY <1>1, <1>3, <2>1, <3>1 DEF ExchangeInv, ExchangeTypeOK
    <2>3. client'.pc = "failed" /\ client'.wire = client.wire
      BY <2>1 DEF ExchangeInv, ExchangeTypeOK
    <2>4. Stages' /\ DeadlineAhead' /\ ResponseIsTheHandlers' /\ NoSpuriousTimeout'
      BY <1>1, <1>2, <2>1, <2>3 DEF ExchangeInv, Stages, DeadlineAhead, ResponseIsTheHandlers, NoSpuriousTimeout,
         Returned
    <2> QED BY <1>4, <2>2, <2>4 DEF ExchangeInv
  <1>11. CASE /\ d \notin {"heartbeat", "wait", "error"} /\ link' = "gone"
              /\ client' = [client EXCEPT !.got = d,
                   !.pc = IF Senders[setup.protocol].checksAck /\ d # "answer" THEN "refused" ELSE "ok"]
    <2>1. /\ server.pc = "done" /\ d \in {"answer", "refused", "garbled"}
          /\ d = server.reply \/ (d = "garbled" /\ ReaderWire # "bare")
      <3>1. d # f.content => d = "garbled" /\ f.content # "heartbeat" /\ (f.torn \/ client.waiting)
        BY <1>7, <1>11
      <3>2. f.torn \/ client.waiting => ReaderWire # "bare"
        <4>1. f = down[1] /\ 1 \in 1..Len(down)
          BY DEF Read, ExchangeInv, ExchangeTypeOK, f
        <4> QED BY <4>1 DEF BareWhole
      <3> QED BY <1>5, <1>7, <1>11, <3>1, <3>2
    <2>2. PICK p \in {"refused", "ok"} : client' = [client EXCEPT !.got = d, !.pc = p]
      BY <1>11, <2>1
    <2>3. ExchangeTypeOK'
      BY <1>1, <1>3, <1>11, <2>1, <2>2 DEF ExchangeInv, ExchangeTypeOK, Returned
    <2>4. client'.pc \in {"refused", "ok"} /\ client'.wire = client.wire /\ client'.got = d
      BY <2>2 DEF ExchangeInv, ExchangeTypeOK
    <2>5. Stages' /\ DeadlineAhead' /\ ResponseIsTheHandlers' /\ NoSpuriousTimeout'
      BY <1>1, <1>2, <1>11, <2>1, <2>4 DEF ExchangeInv, Stages, DeadlineAhead, ResponseIsTheHandlers,
         NoSpuriousTimeout, Returned
    <2> QED BY <1>4, <2>3, <2>5 DEF ExchangeInv
  <1>12. CASE d = "wait" /\ client' = [client EXCEPT !.waiting = TRUE] /\ UNCHANGED link
    <2>1. ExchangeTypeOK'
      BY <1>1, <1>3, <1>12 DEF ExchangeInv, ExchangeTypeOK
    <2>2. client'.pc = client.pc /\ client'.wire = client.wire /\ client'.waiting
      BY <1>12, Zenon DEF ExchangeInv, ExchangeTypeOK
    <2>3. Stages' /\ DeadlineAhead' /\ ResponseIsTheHandlers' /\ NoSpuriousTimeout'
      BY <1>1, <1>2, <1>12, <2>2 DEF ExchangeInv, Stages, DeadlineAhead, ResponseIsTheHandlers, NoSpuriousTimeout
    <2> QED BY <1>4, <2>1, <2>3 DEF ExchangeInv
  <1> QED BY <1>6, <1>9, <1>10, <1>11, <1>12

\* A deadline that passes on the envelope wire passes on a broken connection, or while
\* the rest of a torn frame is waited for.
LEMMA ReadFailsStep == ExchangeInv /\ ReadFails => ExchangeInv'
  <1> SUFFICES ASSUME ExchangeInv, ReadFails PROVE ExchangeInv'
    OBVIOUS
  <1>1. setup' = setup /\ ReaderWire' = ReaderWire /\ UNCHANGED <<up, down, server, heartbeat>>
    BY DEF ReadFails, InClient, ReaderWire
  <1>2. client.pc = "read" /\ link \in {"open", "silent", "dead", "closed"} /\ server.pc # "none"
    BY DEF ReadFails, ExchangeInv, Stages, ExchangeTypeOK
  <1>3. PICK r \in {"timeout", "failed"} : Return(r) /\ (r = "timeout" => client.left = 0)
    BY DEF ReadFails
  <1>4. client' = [client EXCEPT !.pc = r] /\ link' = IF link \in {"silent", "dead"} THEN "dead" ELSE "gone"
    BY <1>2, <1>3 DEF Return
  <1>5. r = "timeout" /\ client.wire = "envelope" => link \in {"silent", "dead"} \/ client.waiting
    BY <1>2, <1>3 DEF ExchangeInv, DeadlineAhead, Stages
  <1>6. ExchangeTypeOK'
    BY <1>1, <1>4 DEF ExchangeInv, ExchangeTypeOK, Returned
  <1>7. client'.pc = r /\ client'.wire = client.wire /\ client'.waiting = client.waiting
    BY <1>4, Zenon DEF ExchangeInv, ExchangeTypeOK
  <1>8. /\ Stages' /\ RepliesOnly' /\ DeadlineAhead'
        /\ ResponseIsTheHandlers' /\ NoSpuriousTimeout'
    BY <1>1, <1>2, <1>4, <1>5, <1>7 DEF ExchangeInv, Stages, RepliesOnly, DeadlineAhead,
       ResponseIsTheHandlers, NoSpuriousTimeout, Returned
  <1> QED BY <1>6, <1>8 DEF ExchangeInv

\* A frame is written behind the others.
LEMMA AppendFrame ==
  ASSUME NEW w, NEW q \in Seq(Frames(w)), NEW f \in Frames(w)
  PROVE  /\ Append(q, f) \in Seq(Frames(w)) /\ Append(q, f) # <<>> /\ Len(Append(q, f)) = Len(q) + 1
         /\ \A i \in 1..Len(q) : Append(q, f)[i] = q[i]
         /\ Append(q, f)[Len(q) + 1] = f
         /\ Append(q, f)[1] = IF q = <<>> THEN f ELSE q[1]
  <1>1. Len(q) \in Nat /\ (q = <<>> => Len(q) = 0) /\ (q # <<>> => 1 \in 1..Len(q))
    OBVIOUS
  <1>2. /\ Append(q, f) \in Seq(Frames(w)) /\ Len(Append(q, f)) = Len(q) + 1
        /\ \A i \in 1..Len(q) : Append(q, f)[i] = q[i]
        /\ Append(q, f)[Len(q) + 1] = f
    BY AppendProperties
  <1>3. Append(q, f) # <<>>
    <2>1. Len(q) + 1 # 0 /\ Len(<<>>) = 0
      BY <1>1
    <2> QED BY <1>2, <2>1
  <1> QED BY <1>1, <1>2, <1>3

\* The request arrives in time for the first heartbeat.
LEMMA ServerReadsStep == ExchangeInv /\ ServerReads => ExchangeInv'
  <1> SUFFICES ASSUME ExchangeInv, ServerReads PROVE ExchangeInv'
    OBVIOUS
  <1>1. setup' = setup /\ ReaderWire' = ReaderWire /\ UNCHANGED <<client, link, down>>
    BY DEF ServerReads, InServer, ReaderWire
  <1>2. server.pc = "read" /\ down = <<>> /\ up # <<>> /\ server.wire = ReaderWire /\ link # "none"
    BY DEF ServerReads, ExchangeInv, Stages
  <1>3. PICK n \in Nat : server' = [server EXCEPT !.pc = "compute", !.left = n]
    <2>1. setup.compute \in {0, 1, StreamDeadline + 1, MaxCompute, Hung}
      BY DEF ExchangeInv, ExchangeTypeOK, Setups
    <2>2. setup.compute \in Nat
      BY <2>1, ExchangeAssumption DEF Hung
    <2> QED BY <2>2 DEF ServerReads
  <1>4. up' = <<>> /\ heartbeat' = [on |-> ReaderWire = "envelope", left |-> HeartbeatInterval]
    BY <1>2 DEF ServerReads
  <1>5. HeartbeatInterval \in 0..HeartbeatInterval
    BY ExchangeAssumption
  <1>6. ExchangeTypeOK'
    BY <1>1, <1>3, <1>4, <1>5 DEF ExchangeInv, ExchangeTypeOK
  <1>7. server'.pc = "compute" /\ server'.wire = server.wire
    BY <1>3 DEF ExchangeInv, ExchangeTypeOK
  <1>8. Stages' /\ RepliesOnly' /\ ResponseIsTheHandlers' /\ NoSpuriousTimeout'
    BY <1>1, <1>2, <1>4, <1>7 DEF ExchangeInv, Stages, RepliesOnly, ResponseIsTheHandlers, NoSpuriousTimeout
  <1>9. DeadlineAhead'
    <2>1. up[1] \in 0..Delay /\ client.left \in Nat
      BY <1>2 DEF ExchangeInv, ExchangeTypeOK
    <2>2. client.left + up[1] >= StreamDeadline => client.left > HeartbeatInterval + Delay
      BY <2>1, ExchangeAssumption
    <2> QED BY <1>1, <1>2, <1>4, <1>7, <2>2 DEF ExchangeInv, DeadlineAhead
  <1> QED BY <1>6, <1>8, <1>9 DEF ExchangeInv

\* The handler returns without a response.
LEMMA ServerReadFailsStep == ExchangeInv /\ ServerReadFails => ExchangeInv'
  <1> SUFFICES ASSUME ExchangeInv, ServerReadFails PROVE ExchangeInv'
    OBVIOUS
  <1>1. setup' = setup /\ ReaderWire' = ReaderWire /\ UNCHANGED <<client, up, down, heartbeat>>
    BY DEF ServerReadFails, InServer, ReaderWire
  <1>2. /\ server.pc = "read" /\ down = <<>> /\ server' = [server EXCEPT !.pc = "done"]
        /\ link' = IF link = "open" THEN "closed" ELSE link
    BY DEF ServerReadFails, HandlerReturns, ExchangeInv, Stages
  <1>3. ExchangeTypeOK'
    BY <1>1, <1>2 DEF ExchangeInv, ExchangeTypeOK
  <1>4. server'.pc = "done" /\ server'.wire = server.wire /\ Len(down) = 0
    BY <1>2 DEF ExchangeInv, ExchangeTypeOK
  <1>5. Stages' /\ RepliesOnly' /\ DeadlineAhead' /\ ResponseIsTheHandlers' /\ NoSpuriousTimeout'
    BY <1>1, <1>2, <1>4 DEF ExchangeInv, Stages, RepliesOnly, DeadlineAhead, ResponseIsTheHandlers,
       NoSpuriousTimeout
  <1> QED BY <1>3, <1>5 DEF ExchangeInv

LEMMA ComputeStep == ExchangeInv /\ Compute => ExchangeInv'
  <1> SUFFICES ASSUME ExchangeInv, Compute PROVE ExchangeInv'
    OBVIOUS
  <1>1. setup' = setup /\ ReaderWire' = ReaderWire /\ UNCHANGED <<client, link, up, down, heartbeat>>
    BY DEF Compute, InServer, ReaderWire
  <1>2. server.pc = "compute"
    BY DEF Compute
  <1>3. PICK r \in {"answer", "refused"} : server' = [server EXCEPT !.pc = "write", !.reply = r]
    <2>1. Route \subseteq {"answer", "refused"}
      BY DEF Route, RouteAvailability
    <2> QED BY <2>1 DEF Compute
  <1>4. ExchangeTypeOK'
    <2>1. r \in {"nothing", "answer", "refused"}
      OBVIOUS
    <2>2. server' \in [pc : {"none", "read", "compute", "write", "done"}, wire : {"none", ReaderWire},
                       left : Nat, reply : {"nothing", "answer", "refused"}]
      BY <1>3, <2>1 DEF ExchangeInv, ExchangeTypeOK
    <2> QED BY <1>1, <2>2 DEF ExchangeInv, ExchangeTypeOK
  <1>5. server'.pc = "write" /\ server'.wire = server.wire /\ server'.reply # "nothing"
    BY <1>3 DEF ExchangeInv, ExchangeTypeOK
  <1>6. Stages' /\ RepliesOnly' /\ ResponseIsTheHandlers' /\ NoSpuriousTimeout'
    BY <1>1, <1>2, <1>5 DEF ExchangeInv, Stages, RepliesOnly, ResponseIsTheHandlers, NoSpuriousTimeout
  <1>7. DeadlineAhead'
    <2>1. heartbeat.left \in Nat /\ client.left \in Nat /\ Delay \in Nat
      BY ExchangeAssumption DEF ExchangeInv, ExchangeTypeOK
    <2>2. client.left > heartbeat.left + Delay => client.left > Delay
      BY <2>1
    <2> QED BY <1>1, <1>2, <1>5, <2>2 DEF ExchangeInv, Stages, DeadlineAhead
  <1> QED BY <1>4, <1>6, <1>7 DEF ExchangeInv

\* The response is the last frame of the stream.
LEMMA RespondStep == ExchangeInv /\ Respond => ExchangeInv'
  <1> SUFFICES ASSUME ExchangeInv, Respond PROVE ExchangeInv'
    OBVIOUS
  <1>1. setup' = setup /\ ReaderWire' = ReaderWire /\ UNCHANGED <<client, up, heartbeat>>
    BY DEF Respond, InServer, ReaderWire
  <1>2. /\ server.pc = "write" /\ server.reply \in {"answer", "refused"} /\ server.wire = ReaderWire
        /\ server' = [server EXCEPT !.pc = "done"] /\ link' = IF link = "open" THEN "closed" ELSE link
    BY DEF Respond, HandlerReturns, ExchangeInv, Stages, ExchangeTypeOK
  <1>3. server'.pc = "done" /\ server'.wire = server.wire /\ server'.reply = server.reply
    BY <1>2 DEF ExchangeInv, ExchangeTypeOK
  <1>4. down \in Seq(Frames(ReaderWire)) /\ Len(down) \in Nat
    BY DEF ExchangeInv, ExchangeTypeOK
  <1>5. PICK f \in Frames(ReaderWire) : f = Frame(server.reply) /\ f.content = server.reply /\ f.age = 0
    <2>1. 0 \in 0..Delay
      BY ExchangeAssumption
    <2>2. Frame(server.reply) = [content |-> server.reply, wire |-> ReaderWire, age |-> 0, torn |-> FALSE]
      BY <1>2 DEF Frame
    <2>3. [content |-> server.reply, wire |-> ReaderWire, age |-> 0, torn |-> FALSE] \in Frames(ReaderWire)
      BY <1>2, <2>1 DEF Frames
    <2> QED BY <2>2, <2>3
  <1>6. CASE link = "open"
    <2>1. down' = Append(down, f)
      BY <1>5, <1>6 DEF Respond
    <2>2. /\ down' \in Seq(Frames(ReaderWire)) /\ down' # <<>> /\ Len(down') = Len(down) + 1
          /\ \A i \in 1..Len(down) : down'[i] = down[i]
          /\ down'[Len(down) + 1] = f
          /\ down'[1] = IF down = <<>> THEN f ELSE down[1]
      BY <1>4, <2>1, AppendFrame
    <2>3. ExchangeTypeOK'
      BY <1>1, <1>2, <2>2 DEF ExchangeInv, ExchangeTypeOK
    <2>4. RepliesOnly'
      <3> SUFFICES ASSUME NEW i \in 1..Len(down) + 1, down'[i].content # "heartbeat"
                   PROVE  down'[i].content = server.reply
        BY <1>3, <2>2 DEF RepliesOnly
      <3>1. CASE i = Len(down) + 1
        BY <1>5, <2>2, <3>1
      <3>2. CASE i \in 1..Len(down)
        BY <1>2, <2>2, <3>2 DEF ExchangeInv, RepliesOnly
      <3> QED BY <1>4, <3>1, <3>2
    <2>5. Stages' /\ ResponseIsTheHandlers' /\ NoSpuriousTimeout'
      BY <1>1, <1>2, <1>3, <1>6 DEF ExchangeInv, Stages, ResponseIsTheHandlers, NoSpuriousTimeout
    <2>6. DeadlineAhead'
      <3>1. client.left \in Nat /\ Delay \in Nat
        BY ExchangeAssumption DEF ExchangeInv, ExchangeTypeOK
      <3> QED BY <1>1, <1>2, <1>3, <1>5, <1>6, <2>2, <3>1 DEF ExchangeInv, DeadlineAhead
    <2> QED BY <2>3, <2>4, <2>5, <2>6 DEF ExchangeInv
  <1>7. CASE link # "open"
    <2>1. down' = down /\ link' = link
      BY <1>2, <1>7 DEF Respond
    <2>2. ExchangeTypeOK'
      BY <1>1, <1>2, <2>1 DEF ExchangeInv, ExchangeTypeOK
    <2>3. Stages' /\ RepliesOnly' /\ DeadlineAhead' /\ ResponseIsTheHandlers' /\ NoSpuriousTimeout'
      BY <1>1, <1>2, <1>3, <1>7, <2>1 DEF ExchangeInv, Stages, RepliesOnly, DeadlineAhead,
         ResponseIsTheHandlers, NoSpuriousTimeout
    <2> QED BY <2>2, <2>3 DEF ExchangeInv
  <1> QED BY <1>6, <1>7

\* The heartbeat goroutine is started or ended.
LEMMA HeartbeatSwitched ==
  ASSUME NEW h \in [on : BOOLEAN, left : 0..HeartbeatInterval], NEW z \in BOOLEAN
  PROVE  [h EXCEPT !.on = z] \in [on : BOOLEAN, left : 0..HeartbeatInterval] /\ [h EXCEPT !.on = z].on = z
  OBVIOUS

\* A heartbeat is written while the stream is open, and ends the goroutine otherwise.
LEMMA BeatStep == ExchangeInv /\ Beat => ExchangeInv'
  <1> SUFFICES ASSUME ExchangeInv, Beat PROVE ExchangeInv'
    OBVIOUS
  <1>1. setup' = setup /\ ReaderWire' = ReaderWire /\ UNCHANGED <<client, link, up, server>>
    BY DEF Beat, InServer, ReaderWire
  <1>2. /\ heartbeat.on /\ heartbeat.left = 0 /\ server.pc \in {"compute", "write", "done"}
        /\ server.wire = ReaderWire
    BY DEF Beat, ExchangeInv, Stages, ExchangeTypeOK
  <1>3. down \in Seq(Frames(ReaderWire)) /\ Len(down) \in Nat
    BY DEF ExchangeInv, ExchangeTypeOK
  <1>4. HeartbeatInterval \in 0..HeartbeatInterval /\ client.left \in Nat /\ Delay \in Nat
    BY ExchangeAssumption DEF ExchangeInv, ExchangeTypeOK
  <1>5. CASE /\ link = "open" /\ heartbeat' = [heartbeat EXCEPT !.left = HeartbeatInterval]
             /\ down' = Append(down, Frame("heartbeat"))
    <2>1. PICK f \in Frames(ReaderWire) : f = Frame("heartbeat") /\ f.content = "heartbeat" /\ f.age = 0
      <3>1. 0 \in 0..Delay
        BY ExchangeAssumption
      <3>2. Frame("heartbeat") = [content |-> "heartbeat", wire |-> ReaderWire, age |-> 0, torn |-> FALSE]
        BY <1>2 DEF Frame
      <3>3. [content |-> "heartbeat", wire |-> ReaderWire, age |-> 0, torn |-> FALSE] \in Frames(ReaderWire)
        BY <3>1 DEF Frames
      <3> QED BY <3>2, <3>3
    <2>2. /\ down' \in Seq(Frames(ReaderWire)) /\ down' # <<>> /\ Len(down') = Len(down) + 1
          /\ \A i \in 1..Len(down) : down'[i] = down[i]
          /\ down'[Len(down) + 1] = f
          /\ down'[1] = IF down = <<>> THEN f ELSE down[1]
      BY <1>3, <1>5, <2>1, AppendFrame
    <2>3. ExchangeTypeOK'
      BY <1>1, <1>4, <1>5, <2>2 DEF ExchangeInv, ExchangeTypeOK
    <2>4. heartbeat'.on = heartbeat.on
      BY <1>5 DEF ExchangeInv, ExchangeTypeOK
    <2>5. RepliesOnly'
      <3> SUFFICES ASSUME NEW i \in 1..Len(down) + 1, down'[i].content # "heartbeat"
                   PROVE  server.pc = "done" /\ down'[i].content = server.reply
        BY <1>1, <2>2 DEF RepliesOnly
      <3>1. CASE i = Len(down) + 1
        BY <2>1, <2>2, <3>1
      <3>2. CASE i \in 1..Len(down)
        BY <2>2, <3>2 DEF ExchangeInv, RepliesOnly
      <3> QED BY <1>3, <3>1, <3>2
    <2>6. Stages' /\ ResponseIsTheHandlers' /\ NoSpuriousTimeout'
      BY <1>1, <1>2, <1>5, <2>4 DEF ExchangeInv, Stages, ResponseIsTheHandlers, NoSpuriousTimeout
    <2>7. DeadlineAhead'
      <3>1. down = <<>> /\ client.left > 0 + Delay => client.left + f.age > Delay
        BY <1>4, <2>1
      <3> QED BY <1>1, <1>2, <1>5, <2>2, <3>1 DEF ExchangeInv, DeadlineAhead
    <2> QED BY <2>3, <2>5, <2>6, <2>7 DEF ExchangeInv
  <1>6. CASE /\ link = "silent" /\ heartbeat' = [heartbeat EXCEPT !.left = HeartbeatInterval] /\ down' = down
    <2>1. ExchangeTypeOK'
      BY <1>1, <1>4, <1>6 DEF ExchangeInv, ExchangeTypeOK
    <2>2. heartbeat'.on = heartbeat.on
      BY <1>6 DEF ExchangeInv, ExchangeTypeOK
    <2>3. Stages' /\ RepliesOnly' /\ DeadlineAhead' /\ ResponseIsTheHandlers' /\ NoSpuriousTimeout'
      BY <1>1, <1>2, <1>6, <2>2 DEF ExchangeInv, Stages, RepliesOnly, DeadlineAhead, ResponseIsTheHandlers,
         NoSpuriousTimeout
    <2> QED BY <2>1, <2>3 DEF ExchangeInv
  <1>7. CASE link \notin {"open", "silent"} /\ BeatFails /\ UNCHANGED down
    <2>1. heartbeat' = [heartbeat EXCEPT !.on = FALSE]
      BY <1>7 DEF BeatFails
    <2>2. heartbeat' \in [on : BOOLEAN, left : 0..HeartbeatInterval] /\ heartbeat'.on = FALSE
      BY <2>1, HeartbeatSwitched DEF ExchangeInv, ExchangeTypeOK
    <2>3. ExchangeTypeOK'
      BY <1>1, <1>7, <2>2 DEF ExchangeInv, ExchangeTypeOK
    <2>4. Stages' /\ RepliesOnly' /\ DeadlineAhead' /\ ResponseIsTheHandlers' /\ NoSpuriousTimeout'
      BY <1>1, <1>2, <1>7, <2>2 DEF ExchangeInv, Stages, RepliesOnly, DeadlineAhead, ResponseIsTheHandlers,
         NoSpuriousTimeout
    <2> QED BY <2>3, <2>4 DEF ExchangeInv
  <1> QED BY <1>5, <1>6, <1>7 DEF Beat

\* The goroutine ends after the computation, when the response is due.
LEMMA BeatEndsStep == ExchangeInv /\ BeatEnds => ExchangeInv'
  <1> SUFFICES ASSUME ExchangeInv, BeatEnds PROVE ExchangeInv'
    OBVIOUS
  <1>1. setup' = setup /\ ReaderWire' = ReaderWire /\ UNCHANGED <<client, link, up, down, server>>
    BY DEF BeatEnds, InServer, ReaderWire
  <1>2. server.pc \in {"write", "done"} /\ heartbeat' = [heartbeat EXCEPT !.on = FALSE]
    BY DEF BeatEnds
  <1>3. heartbeat' \in [on : BOOLEAN, left : 0..HeartbeatInterval] /\ heartbeat'.on = FALSE
    BY <1>2, HeartbeatSwitched DEF ExchangeInv, ExchangeTypeOK
  <1>4. ExchangeTypeOK'
    BY <1>1, <1>3 DEF ExchangeInv, ExchangeTypeOK
  <1>5. Stages' /\ RepliesOnly' /\ DeadlineAhead' /\ ResponseIsTheHandlers' /\ NoSpuriousTimeout'
    BY <1>1, <1>2, <1>3 DEF ExchangeInv, Stages, RepliesOnly, DeadlineAhead, ResponseIsTheHandlers,
       NoSpuriousTimeout
  <1> QED BY <1>4, <1>5 DEF ExchangeInv

\* A broken connection carries nothing, and no deadline is promised on it.
LEMMA NetworkStep == ExchangeInv /\ (Break \/ Detect) => ExchangeInv'
  <1> SUFFICES ASSUME ExchangeInv, Break \/ Detect PROVE ExchangeInv'
    OBVIOUS
  <1>1. setup' = setup /\ ReaderWire' = ReaderWire /\ UNCHANGED <<client, server, heartbeat>>
    BY DEF Break, Detect, ReaderWire
  <1>2. /\ \/ link \in {"open", "closed"} /\ link' = "silent" /\ up' = <<>> /\ down' = <<>>
           \/ link = "silent" /\ link' = "dead" /\ UNCHANGED <<up, down>>
    BY DEF Break, Detect
  <1>3. ExchangeTypeOK'
    <2>1. <<>> \in Seq(Frames(ReaderWire))
      OBVIOUS
    <2>2. up' \in {<<>>} \cup {<<a>> : a \in 0..Delay} /\ down' \in Seq(Frames(ReaderWire))
      BY <1>2, <2>1 DEF ExchangeInv, ExchangeTypeOK
    <2>3. link' \in {"none", "open", "silent", "dead", "closed", "gone"}
      BY <1>2
    <2> QED BY <1>1, <2>2, <2>3 DEF ExchangeInv, ExchangeTypeOK
  <1>4. RepliesOnly'
    BY <1>1, <1>2 DEF ExchangeInv, RepliesOnly
  <1>5. Stages' /\ DeadlineAhead' /\ ResponseIsTheHandlers' /\ NoSpuriousTimeout'
    BY <1>1, <1>2 DEF ExchangeInv, Stages, DeadlineAhead, ResponseIsTheHandlers, NoSpuriousTimeout
  <1> QED BY <1>3, <1>4, <1>5 DEF ExchangeInv

\* Time passes: all that is awaited comes nearer at the same pace.
LEMMA TickStep == ExchangeInv /\ Tick => ExchangeInv'
  <1> SUFFICES ASSUME ExchangeInv, Tick PROVE ExchangeInv'
    OBVIOUS
  <1>1. setup' = setup /\ ReaderWire' = ReaderWire /\ UNCHANGED link
    BY DEF Tick, ReaderWire
  <1>2. \A n \in Nat : Less(n) \in Nat /\ Less(n) <= n /\ (n > 0 => Less(n) = n - 1)
    BY DEF Less
  <1>3. /\ client \in [pc : {"dial", "redial", "open", "read"} \cup Returned, transport : {"none", "tcp", "quic"},
                       wire : {"none", ReaderWire}, left : Nat, waiting : BOOLEAN,
                       got : {"nothing", "answer", "refused", "garbled"}]
        /\ client.left \in Nat /\ server.left \in Nat /\ heartbeat.left \in 0..HeartbeatInterval
        /\ HeartbeatInterval \in Nat /\ Delay \in Nat /\ StreamDeadline \in Nat /\ Hung \in Nat
        /\ 2 * Delay + HeartbeatInterval < StreamDeadline
    BY ExchangeAssumption DEF ExchangeInv, ExchangeTypeOK, Hung
  <1>4. PICK c \in Nat : /\ client' = [client EXCEPT !.left = c]
                         /\ client.pc = "read" => client.left > 0 /\ c = client.left - 1
    BY <1>2, <1>3 DEF Tick
  <1>5. PICK s \in Nat : server' = [server EXCEPT !.left = s]
    BY <1>2, <1>3 DEF Tick
  <1>6. PICK h \in 0..HeartbeatInterval :
          /\ heartbeat' = [heartbeat EXCEPT !.left = h]
          /\ heartbeat.on => heartbeat.left > 0 /\ h = heartbeat.left - 1
    <2>1. heartbeat.on => heartbeat.left > 0
      BY <1>3 DEF Tick
    <2>2. Less(heartbeat.left) \in 0..HeartbeatInterval
      BY <1>2, <1>3
    <2>4. heartbeat' = [heartbeat EXCEPT !.left = IF heartbeat.on THEN Less(heartbeat.left) ELSE heartbeat.left]
      BY DEF Tick
    <2>5. CASE heartbeat.on
      BY <1>2, <1>3, <2>1, <2>2, <2>4, <2>5
    <2>6. CASE ~heartbeat.on
      BY <1>3, <2>4, <2>6
    <2> QED BY <2>5, <2>6
  <1>7. /\ client'.left = c /\ client'.pc = client.pc /\ client'.wire = client.wire /\ client'.got = client.got
        /\ client'.waiting = client.waiting
        /\ server'.pc = server.pc /\ server'.wire = server.wire /\ server'.reply = server.reply
        /\ heartbeat'.on = heartbeat.on /\ heartbeat'.left = h
    BY <1>4, <1>5, <1>6 DEF ExchangeInv, ExchangeTypeOK
  <1>8. /\ up' \in {<<>>} \cup {<<a>> : a \in 0..Delay} /\ (up' = <<>> <=> up = <<>>)
        /\ server.pc = "read" /\ up # <<>> => up'[1] = up[1] + 1 /\ up[1] \in 0..Delay /\ up[1] < Delay
    <2>1. CASE up = <<>>
      BY <2>1 DEF Tick
    <2>2. ASSUME NEW a \in 0..Delay, up = <<a>>
          PROVE  up' = <<IF a < Delay THEN a + 1 ELSE Delay>> /\ (server.pc = "read" => a < Delay)
      BY <2>2 DEF Tick
    <2>3. \A a \in 0..Delay : (IF a < Delay THEN a + 1 ELSE Delay) \in 0..Delay
      BY <1>3
    <2>4. CASE up # <<>>
      <3>1. PICK a \in 0..Delay : up = <<a>>
        BY <2>4 DEF ExchangeInv, ExchangeTypeOK
      <3>2. up' = <<IF a < Delay THEN a + 1 ELSE Delay>> /\ (server.pc = "read" => a < Delay)
        BY <2>2, <3>1
      <3> QED BY <2>3, <3>1, <3>2
    <2> QED BY <2>1, <2>4
  <1> DEFINE age(f) == IF f.age < Delay THEN f.age + 1 ELSE f.age
  <1>9. /\ down' \in Seq(Frames(ReaderWire)) /\ Len(down') = Len(down) /\ (down' = <<>> <=> down = <<>>)
        /\ \A i \in 1..Len(down) : down'[i].content = down[i].content /\ down'[i].age = age(down[i])
    <2>1. down \in Seq(Frames(ReaderWire)) /\ Len(down) \in Nat /\ DOMAIN down = 1..Len(down)
      BY DEF ExchangeInv, ExchangeTypeOK
    <2>2. ASSUME NEW i \in 1..Len(down)
          PROVE  /\ [down[i] EXCEPT !.age = age(down[i])] \in Frames(ReaderWire)
                 /\ [down[i] EXCEPT !.age = age(down[i])].content = down[i].content
                 /\ [down[i] EXCEPT !.age = age(down[i])].age = age(down[i])
      <3>1. down[i] \in Frames(ReaderWire)
        BY <2>1
      <3>2. age(down[i]) \in 0..Delay
        BY <1>3, <3>1 DEF Frames
      <3> QED BY <3>1, <3>2, AgedFrame
    <2>3. down' = [i \in 1..Len(down) |-> [down[i] EXCEPT !.age = age(down[i])]]
      BY <2>1 DEF Tick
    <2> HIDE DEF age
    <2>4. down' \in Seq(Frames(ReaderWire)) /\ Len(down') = Len(down)
      BY <2>1, <2>2, <2>3
    <2>5. down' = <<>> <=> down = <<>>
      BY <2>1, <2>4, EmptySeq
    <2> QED BY <2>1, <2>2, <2>3, <2>4, <2>5
  <1>10. ExchangeTypeOK'
    BY <1>1, <1>4, <1>5, <1>6, <1>8, <1>9 DEF ExchangeInv, ExchangeTypeOK
  <1>11. Stages' /\ RepliesOnly' /\ ResponseIsTheHandlers' /\ NoSpuriousTimeout'
    BY <1>1, <1>7, <1>8, <1>9 DEF ExchangeInv, Stages, RepliesOnly, ResponseIsTheHandlers, NoSpuriousTimeout
  <1>12. DeadlineAhead'
    <2> SUFFICES ASSUME client.pc = "read", ~client.waiting, ReaderWire = "envelope", link \in {"open", "closed"}
                 PROVE  /\ c > 0
                        /\ down # <<>> => c + down'[1].age > Delay
                        /\ down = <<>> /\ link = "open" =>
                             /\ server.pc = "read" => c + up'[1] >= StreamDeadline
                             /\ heartbeat.on => c > h + Delay
                             /\ server.pc = "write" => c > Delay
      BY <1>1, <1>7, <1>9 DEF DeadlineAhead
    <2>1. CASE down # <<>>
      <3>1. 1 \in 1..Len(down) /\ down[1] \in Frames(ReaderWire)
        BY <2>1 DEF ExchangeInv, ExchangeTypeOK
      <3>2. down[1].age \in Nat /\ down[1].age < Delay
        BY <1>3, <3>1, SMTT(30) DEF Tick, Frames
      <3>3. client.left + down[1].age > Delay
        BY <2>1 DEF ExchangeInv, DeadlineAhead
      <3>4. down'[1].age = down[1].age + 1
        BY <1>9, <3>1, <3>2
      <3>5. c = client.left - 1
        BY <1>4
      <3>6. c > 0 /\ c + (down[1].age + 1) > Delay
        BY <1>3, <3>2, <3>3, <3>5
      <3> QED BY <2>1, <3>4, <3>6
    <2>2. CASE down = <<>>
      <3>1. link = "open" /\ server.pc \in {"read", "compute"}
        BY <2>2 DEF Tick, ExchangeInv, Stages, ExchangeTypeOK
      <3>2. CASE server.pc = "read"
        <4>1. ~heartbeat.on /\ up # <<>> /\ client.left + up[1] >= StreamDeadline
          BY <2>2, <3>1, <3>2 DEF ExchangeInv, Stages, DeadlineAhead
        <4>2. up'[1] = up[1] + 1 /\ up[1] \in 0..Delay /\ up[1] < Delay
          BY <1>8, <3>2, <4>1
        <4>3. c > 0 /\ c + up'[1] >= StreamDeadline
          BY <1>3, <1>4, <4>1, <4>2, SMTT(30)
        <4> QED BY <2>2, <3>2, <4>1, <4>3
      <3>3. CASE server.pc = "compute"
        <4>1. heartbeat.on /\ client.left > heartbeat.left + Delay
          BY <2>2, <3>1, <3>3 DEF ExchangeInv, Stages, DeadlineAhead
        <4>2. c > 0 /\ c > h + Delay
          BY <1>3, <1>4, <1>6, <4>1
        <4> QED BY <2>2, <3>3, <4>2
      <3> QED BY <3>1, <3>2, <3>3
    <2> QED BY <2>1, <2>2
  <1> QED BY <1>10, <1>11, <1>12 DEF ExchangeInv

\* A bare response is alone in its stream, whatever the two ends do.
LEMMA BareStep == ExchangeInv /\ BareWhole /\ [Next]_vars => BareWhole'
  <1> SUFFICES ASSUME ExchangeInv, BareWhole, [Next]_vars, ReaderWire = "bare"
               PROVE  /\ ~client'.waiting /\ ~heartbeat'.on
                      /\ server'.pc # "done" => down' = <<>>
                      /\ Len(down') <= 1 /\ \A i \in 1..Len(down') : ~down'[i].torn
    BY WireStays DEF BareWhole
  <1>1. /\ ~client.waiting /\ ~heartbeat.on
        /\ server.pc # "done" => down = <<>>
        /\ Len(down) <= 1 /\ \A i \in 1..Len(down) : ~down[i].torn
    BY DEF BareWhole
  <1>2. /\ down \in Seq(Frames(ReaderWire)) /\ Len(down) \in Nat
        /\ \A i \in 1..Len(down) : down[i] \in Frames(ReaderWire)
    BY DEF ExchangeInv, ExchangeTypeOK
  <1>3. ASSUME down' = down \/ down' = <<>>
        PROVE  /\ Len(down') <= 1 /\ \A i \in 1..Len(down') : ~down'[i].torn
               /\ down = <<>> => down' = <<>>
    BY <1>1, <1>3
  <1>4. CASE Dial \/ OpenStream \/ ReadFails
    <2>1. UNCHANGED <<down, heartbeat>> /\ client'.waiting = client.waiting
      BY <1>4, Zenon DEF Dial, OpenStream, ReadFails, InClient, Return, ExchangeInv, ExchangeTypeOK
    <2>2. server.pc = "done" => server'.pc = "done"
      BY <1>4 DEF Dial, OpenStream, ReadFails, ExchangeInv, Stages, Returned
    <2> QED BY <1>1, <1>3, <2>1, <2>2
  <1>5. CASE Read
    <2>1. Len(down) = 1 /\ Head(down) = down[1] /\ 1 \in 1..Len(down)
      <3>1. down # <<>>
        BY <1>5 DEF Read
      <3>2. Len(down) # 0
        BY <1>2, <3>1, EmptySeq
      <3>3. Len(down) = 1
        <4>1. Len(down) <= 1
          BY <1>1, Zenon
        <4>2. Len(down) \in Nat
          BY <1>2, Zenon
        <4>3. \A n \in Nat : n <= 1 /\ n # 0 => n = 1
          OBVIOUS
        <4> QED BY <3>2, <4>1, <4>2, <4>3, Zenon
      <3>4. Head(down) = down[1]
        BY <1>2, <3>1
      <3> QED BY <3>3, <3>4
    <2>2. AfterRead = {<<>>}
      <3>1. 2..Len(down) + 1 = {2} /\ 2..Len(down) = {}
        BY <2>1
      <3>2. SubSeq(down, 2, Len(down)) = <<>>
        BY <1>2, <2>1, SubSeqProperties, EmptySeq
      <3> QED BY <3>1, <3>2 DEF AfterRead
    <2>3. Decoded(Head(down)) = {down[1].content} /\ down[1].content # "wait"
      <3>1. down[1].wire = client.wire /\ down[1].content # "wait"
        BY <1>2, <1>5, <2>1 DEF Frames, Read, ExchangeInv, Stages
      <3> QED BY <1>1, <2>1, <3>1, Zenon DEF Decoded
    <2>4. PICK d \in Decoded(Head(down)) :
            \/ client' = OnHeartbeat
            \/ d = "wait" /\ client' = [client EXCEPT !.waiting = TRUE]
            \/ Return("failed")
            \/ \E p : client' = [client EXCEPT !.got = d, !.pc = p]
      BY <1>5, Zenon DEF Read
    <2>5. ~client'.waiting
      BY <1>1, <2>3, <2>4, Zenon DEF OnHeartbeat, Return, ExchangeInv, ExchangeTypeOK
    <2>6. down' = <<>> /\ UNCHANGED <<server, heartbeat>>
      BY <1>5, <2>2 DEF Read, InClient
    <2> QED BY <1>1, <1>3, <2>5, <2>6
  <1>6. CASE ServerReads
    <2>1. UNCHANGED <<client, down>> /\ heartbeat'.on = FALSE /\ server.pc = "read"
      BY <1>6 DEF ServerReads, InServer, ExchangeInv, Stages
    <2> QED BY <1>1, <1>3, <2>1
  <1>7. CASE ServerReadFails \/ Compute \/ Detect \/ Break
    <2>1. UNCHANGED <<client, heartbeat>> /\ (down' = down \/ down' = <<>>)
      BY <1>7 DEF ServerReadFails, Compute, Detect, Break, InServer
    <2>2. server.pc = "done" => server'.pc = "done"
      BY <1>7 DEF ServerReadFails, Compute, Detect, Break
    <2> QED BY <1>1, <1>3, <2>1, <2>2
  <1>8. CASE Respond
    <2>1. UNCHANGED <<client, heartbeat>> /\ server'.pc = "done" /\ down = <<>>
      BY <1>1, <1>8 DEF Respond, HandlerReturns, InServer, ExchangeInv, ExchangeTypeOK
    <2>2. CASE down' = down
      BY <1>1, <2>1, <2>2
    <2>3. CASE down' = Append(down, Frame(server.reply))
      <3>1. down' = <<Frame(server.reply)>> /\ Len(down') = 1
        BY <2>1, <2>3
      <3>2. ~Frame(server.reply).torn
        BY DEF Frame
      <3>3. \A i \in 1..Len(down') : down'[i] = Frame(server.reply)
        BY <3>1
      <3> QED BY <1>1, <2>1, <3>1, <3>2, <3>3
    <2> QED BY <1>8, <2>2, <2>3 DEF Respond
  <1>9. CASE Beat \/ BeatEnds
    BY <1>1, <1>9 DEF Beat, BeatEnds
  <1>10. CASE Tick
    <2>1. /\ client'.waiting = client.waiting /\ heartbeat'.on = heartbeat.on /\ server'.pc = server.pc
      BY <1>10, Zenon DEF Tick, ExchangeInv, ExchangeTypeOK
    <2>2. down' = [i \in 1..Len(down) |-> [down[i] EXCEPT !.age = IF @ < Delay THEN @ + 1 ELSE @]]
      BY <1>2, <1>10 DEF Tick
    <2>3. \A i \in 1..Len(down) : down'[i].torn = down[i].torn
      BY <1>2, <2>2 DEF Frames
    <2>4. Len(down') = Len(down) /\ (down = <<>> => down' = <<>>)
      BY <1>2, <2>2
    <2> QED BY <1>1, <2>1, <2>3, <2>4
  <1>11. CASE UNCHANGED vars
    BY <1>1, <1>11 DEF vars
  <1> QED BY <1>4, <1>5, <1>6, <1>7, <1>8, <1>9, <1>10, <1>11 DEF Next, Client, Server

LEMMA ExchangeInvariant == Spec => [](ExchangeInv /\ BareWhole)
  <1>1. Init => ExchangeInv /\ BareWhole
    BY InitInv DEF Init, BareWhole
  <1>2. ExchangeInv /\ BareWhole /\ [Next]_vars => (ExchangeInv /\ BareWhole)'
    <2> SUFFICES ASSUME ExchangeInv, BareWhole, [Next]_vars PROVE ExchangeInv'
      BY BareStep
    <2>1. CASE UNCHANGED vars
      BY <2>1 DEF vars, ExchangeInv, ExchangeTypeOK, Stages, RepliesOnly, DeadlineAhead,
         ResponseIsTheHandlers, NoSpuriousTimeout, ReaderWire
    <2> QED BY <2>1, DialStep, OpenStep, ReadStep, ReadFailsStep, ServerReadsStep, ServerReadFailsStep,
               ComputeStep, RespondStep, BeatStep, BeatEndsStep, NetworkStep, TickStep
            DEF Next, Client, Server
  <1> QED BY <1>1, <1>2, PTL DEF Spec

\* A sender never returns as the response anything but what the handler of its
\* request wrote, on whichever wire the two versions agree, and only on the envelope
\* wire can it be a misread rest of that.
THEOREM ResponseIsGenuine == Spec => []ResponseIsTheHandlers
  <1>1. ExchangeInv => ResponseIsTheHandlers
    BY DEF ExchangeInv
  <1> QED BY <1>1, ExchangeInvariant, PTL

\* However long a handler computes, the read deadline of the envelope wire only
\* passes on a broken connection or behind a torn frame, given that a heartbeat
\* interval and two delays are shorter than the deadline.
THEOREM HeartbeatsSuffice == Spec => []NoSpuriousTimeout
  <1>1. ExchangeInv => NoSpuriousTimeout
    BY DEF ExchangeInv
  <1> QED BY <1>1, ExchangeInvariant, PTL

=============================================================================

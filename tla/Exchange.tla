------------------------------ MODULE Exchange ------------------------------
(***************************************************************************)
(* One request and its response between two nodes, as package messaging    *)
(* sends it and package sync serves it: the choice of a transport with a   *)
(* fallback, the negotiation of the wire format, the heartbeats that keep  *)
(* the client's read deadline alive during a long computation, and the     *)
(* cancellation of that computation when the client is gone. Time is       *)
(* discrete; a handler and a sender of the code are a record of what they  *)
(* do differently. Two wires exist: "envelope" (heartbeats, then the       *)
(* wrapped response) and "bare" (the response alone).                      *)
(***************************************************************************)
EXTENDS Integers, Sequences

CONSTANTS
  StreamDeadline,     \* StreamDeadline, 15 s
  RequestDeadline,    \* 10 s
  HeartbeatInterval,  \* HeartbeatInterval, 5 s
  Delay,              \* bound: a frame takes at most this long
  MaxCompute,         \* bound: the longest computation that ends by itself
  Faults              \* "connect", "net", "shutdown", "token", "db", "limit"

ASSUME ExchangeAssumption ==
  /\ {StreamDeadline, RequestDeadline, HeartbeatInterval} \subseteq Nat \ {0}
  /\ Delay \in Nat /\ MaxCompute \in Nat
  /\ 2 * Delay + HeartbeatInterval < StreamDeadline   \* what the heartbeat is for
  /\ Delay < RequestDeadline
  /\ Faults \subseteq {"connect", "net", "shutdown", "token", "db", "limit"}

Hung == MaxCompute + 1   \* a computation that only its context ends

-----------------------------------------------------------------------------
(* What the senders and the handlers do differently.                       *)

\* Wires in order of preference; PriorSync and FetchAccounts look at the Ack of the response.
Sender(wires, checksAck) == [wires |-> wires, checksAck |-> checksAck]

SendPriorSync           == Sender(<<"envelope">>, TRUE)
SendMerkleRequest       == Sender(<<"bare">>, FALSE)
SendHeaderSyncRequest   == Sender(<<"envelope", "bare">>, FALSE)
SendDataSyncRequest     == Sender(<<"envelope">>, FALSE)
SendAvailabilityRequest == Sender(<<"bare">>, FALSE)
FetchAccounts           == Sender(<<"bare">>, TRUE)
SendPoTSRequest         == Sender(<<"envelope">>, FALSE)

Senders ==
  [availability |-> SendAvailabilityRequest, priorsync |-> SendPriorSync, merkle |-> SendMerkleRequest,
   headersync |-> SendHeaderSyncRequest, datasync |-> SendDataSyncRequest,
   pots |-> SendPoTSRequest, fetch |-> FetchAccounts]
Protocols == DOMAIN Senders

\* The wires served, and the deadline for the request.
Handler(wires, deadline) == [wires |-> wires, deadline |-> deadline]

HandleAvailability  == Handler({"bare"}, RequestDeadline)
HandlePriorSync     == Handler({"envelope"}, StreamDeadline)
HandleMerkle        == Handler({"bare"}, RequestDeadline)
HandleHeaderSync    == Handler({"envelope", "bare"}, RequestDeadline)
HandleDataSync      == Handler({"envelope"}, RequestDeadline)
HandlePoTSSync      == Handler({"envelope"}, RequestDeadline)
HandleAccountsFetch == Handler({"bare"}, StreamDeadline)

Handlers ==
  [availability |-> HandleAvailability, priorsync |-> HandlePriorSync, merkle |-> HandleMerkle,
   headersync |-> HandleHeaderSync, datasync |-> HandleDataSync,
   pots |-> HandlePoTSSync, fetch |-> HandleAccountsFetch]

\* A server from before the envelope registers the bare header wire alone.
ServedBy(p, old) == IF old /\ p = "headersync" THEN {"bare"} ELSE Handlers[p].wires

\* NewStream takes the first protocol ID of the client that the server serves.
NegotiatedWire(p, old) ==
  LET wires == Senders[p].wires
  IN  IF wires[1] \in ServedBy(p, old) THEN wires[1] ELSE wires[Len(wires)]

\* Primary and fallback transport; no primary is an error.
SelectTransportAddrWithFallback(addrs, version) ==
  IF version >= 2 /\ "quic" \in addrs
  THEN [primary |-> "quic", fallback |-> IF "tcp" \in addrs THEN "tcp" ELSE "none"]
  ELSE [primary |-> IF "tcp" \in addrs THEN "tcp" ELSE "none", fallback |-> "none"]

-----------------------------------------------------------------------------

VARIABLES
  setup,      \* protocol, version and addresses; an old server; the length of the computation
  client,     \* control, transport, wire, time to the read deadline, waiting for the rest of a
              \* frame that is none, what was decoded
  link,       \* "none", "open", "silent": broken, "dead": known to be, "closed" by the server, "gone": by the client
  up, down,   \* frames on the way, with their age
  server,     \* control, wire, time left of its deadline or its computation, the reply
  heartbeat,  \* its goroutine and the time to its next tick
  cancelled   \* computeCtx

vars == <<setup, client, link, up, down, server, heartbeat, cancelled>>

Setups ==
  {s \in [protocol : Protocols, version : 0..2, addrs : SUBSET {"tcp", "quic"}, old : BOOLEAN,
          compute : {0, 1, StreamDeadline + 1, MaxCompute, Hung}] :
     s.old => s.protocol = "headersync"}

Init ==
  /\ setup \in Setups
  /\ client = [pc |-> "dial", transport |-> "none", wire |-> "none", left |-> 0, waiting |-> FALSE,
               got |-> "nothing"]
  /\ link = "none" /\ up = <<>> /\ down = <<>>
  /\ server = [pc |-> "none", wire |-> "none", left |-> 0, reply |-> "nothing"]
  /\ heartbeat = [on |-> FALSE, left |-> 0] /\ cancelled = FALSE

-----------------------------------------------------------------------------
(* The client.                                                             *)

Returned == {"ok", "refused", "failed", "timeout"}

InClient == UNCHANGED <<setup, heartbeat, cancelled>>

\* A return closes the stream, if there is one.
Return(result) ==
  /\ client' = [client EXCEPT !.pc = result]
  /\ link' = CASE link = "none" -> "none" [] link \in {"silent", "dead"} -> "dead" [] OTHER -> "gone"

\* host.Connect, to the primary address and then to the fallback.
Dial ==
  /\ client.pc \in {"dial", "redial"}
  /\ LET addr == SelectTransportAddrWithFallback(setup.addrs, setup.version)
         to   == IF client.pc = "dial" THEN addr.primary ELSE addr.fallback
     IN  \/ to = "none" /\ Return("failed")
         \/ to # "none" /\ client' = [client EXCEPT !.pc = "open", !.transport = to] /\ UNCHANGED link
         \/ /\ "connect" \in Faults /\ to # "none" /\ client.pc = "dial" /\ addr.fallback # "none"
            /\ client' = [client EXCEPT !.pc = "redial"] /\ UNCHANGED link
         \/ /\ "connect" \in Faults /\ to # "none" /\ (client.pc = "redial" \/ addr.fallback = "none")
            /\ Return("failed")
  /\ UNCHANGED <<up, down, server>> /\ InClient

LegacyWire == LET wires == Senders[setup.protocol].wires IN wires[Len(wires)]

\* The reader follows stream.Protocol(), what was negotiated.
ReaderWire == NegotiatedWire(setup.protocol, setup.old)

\* The stream, the request and the first read deadline.
OpenStream ==
  /\ client.pc = "open"
  /\ \/ /\ link' = "open" /\ up' = <<0>>
        /\ client' = [client EXCEPT !.pc = "read", !.wire = ReaderWire, !.left = StreamDeadline]
        /\ server' = [server EXCEPT !.pc = "read", !.wire = NegotiatedWire(setup.protocol, setup.old),
                                    !.left = Handlers[setup.protocol].deadline]
     \/ "connect" \in Faults /\ Return("failed") /\ UNCHANGED <<up, server>>
  /\ UNCHANGED down /\ InClient

\* What a reader of its wire makes of a frame; the wrong wire decodes to nothing, without an
\* error.  The rest of a torn frame is taken for a length and a message: an error, a
\* heartbeat, some other response, or a length for which the reader waits and swallows what
\* comes next.
Decoded(f) ==
  IF f.torn \/ client.waiting
  THEN {"error", "heartbeat", "wait"} \cup (IF f.content = "heartbeat" THEN {} ELSE {"garbled"})
  ELSE IF f.wire = client.wire THEN {f.content}
  ELSE IF client.wire = "envelope" THEN {"heartbeat"} ELSE {"nothing"}

\* ReadDelimited buffers what has arrived, decodes the first frame and drops the
\* buffer: later frames are lost, or torn when the buffer ended inside of one.
AfterRead ==
  {SubSeq(down, i, Len(down)) : i \in 2..Len(down) + 1}
    \cup {[SubSeq(down, i, Len(down)) EXCEPT ![1].torn = TRUE] : i \in 2..Len(down)}

KeepDeadline == [client EXCEPT !.waiting = FALSE]

\* A heartbeat starts the read deadline again.
OnHeartbeat == [client EXCEPT !.waiting = FALSE, !.left = StreamDeadline]

\* The read loop: the first frame that is no heartbeat is the response.
Read ==
  /\ client.pc = "read" /\ down # <<>> /\ link \in {"open", "closed"}
  /\ down' \in AfterRead
  /\ \E d \in Decoded(Head(down)) :
     \/ d = "heartbeat" /\ client' = OnHeartbeat /\ UNCHANGED link
     \/ d = "wait" /\ client' = [client EXCEPT !.waiting = TRUE] /\ UNCHANGED link
     \/ d = "error" /\ Return("failed")
     \/ /\ d \notin {"heartbeat", "wait", "error"} /\ link' = "gone"
        /\ client' = [client EXCEPT !.got = d,
                        !.pc = IF Senders[setup.protocol].checksAck /\ d # "answer" THEN "refused" ELSE "ok"]
  /\ UNCHANGED <<up, server>> /\ InClient

\* The deadline passes, the stream ends or the connection is found to be dead.
ReadFails ==
  /\ client.pc = "read"
  /\ \/ client.left = 0 /\ Return("timeout")
     \/ (link = "dead" \/ (link = "closed" /\ down = <<>>)) /\ Return("failed")
  /\ UNCHANGED <<up, down, server>> /\ InClient

Client == Dial \/ OpenStream \/ Read \/ ReadFails

-----------------------------------------------------------------------------
(* The server.                                                             *)

InServer == UNCHANGED <<setup, client>>

HandlerReturns ==
  /\ server' = [server EXCEPT !.pc = "done"] /\ link' = IF link = "open" THEN "closed" ELSE link

\* The request is read; on the envelope wire the heartbeat goroutine starts.
ServerReads ==
  /\ server.pc = "read" /\ up # <<>> /\ link \in {"open", "gone"}
  /\ up' = <<>> /\ server' = [server EXCEPT !.pc = "compute", !.left = setup.compute]
  /\ heartbeat' = [on |-> server.wire = "envelope", left |-> HeartbeatInterval]
  /\ UNCHANGED <<link, down, cancelled>> /\ InServer

\* The node is shutting down, or the request does not come.
ServerReadFails ==
  /\ server.pc = "read"
  /\ \/ "shutdown" \in Faults
     \/ link = "dead" \/ server.left = 0 \/ (link = "gone" /\ up = <<>>)
  /\ HandlerReturns
  /\ UNCHANGED <<up, down, heartbeat, cancelled>> /\ InServer

\* Authenticate: the node is available and the token is the one recorded for the peer.
Authenticate == {TRUE} \cup (IF "token" \in Faults THEN {FALSE} ELSE {})

\* The router's answers; availability asks for no token but limits the rate.
RouteAvailability == {"answer"} \cup (IF "limit" \in Faults THEN {"refused"} ELSE {})
Route ==
  IF setup.protocol = "availability" THEN RouteAvailability
  ELSE {IF ok THEN "answer" ELSE "refused" : ok \in Authenticate}
         \cup (IF "db" \in Faults \/ cancelled THEN {"refused"} ELSE {})

\* The computation ends, and close(done) with it.
Compute ==
  /\ server.pc = "compute" /\ (server.left = 0 \/ cancelled)
  /\ \E r \in Route : server' = [server EXCEPT !.pc = "write", !.reply = r]
  /\ UNCHANGED <<link, up, down, heartbeat, cancelled>> /\ InServer

Frame(content) == [content |-> content, wire |-> server.wire, age |-> 0, torn |-> FALSE]

Respond ==
  /\ server.pc = "write"
  /\ down' = IF link = "open" THEN Append(down, Frame(server.reply)) ELSE down
  /\ HandlerReturns
  /\ UNCHANGED <<up, heartbeat, cancelled>> /\ InServer

BeatFailsQuietly == heartbeat' = [heartbeat EXCEPT !.on = FALSE] /\ UNCHANGED cancelled

\* A heartbeat cannot be written: the client is gone and computeCancel is called.
BeatFails == heartbeat' = [heartbeat EXCEPT !.on = FALSE] /\ cancelled' = TRUE

Beat ==
  /\ heartbeat.on /\ heartbeat.left = 0
  /\ \/ /\ link \in {"open", "silent"} /\ heartbeat' = [heartbeat EXCEPT !.left = HeartbeatInterval]
        /\ down' = IF link = "open" THEN Append(down, Frame("heartbeat")) ELSE down
        /\ UNCHANGED cancelled
     \/ link \notin {"open", "silent"} /\ BeatFails /\ UNCHANGED down
  /\ UNCHANGED <<link, up, server>> /\ InServer

\* done is closed; the goroutine may have ticked once more before it looks.
BeatEnds ==
  /\ heartbeat.on /\ server.pc \in {"write", "done"}
  /\ heartbeat' = [heartbeat EXCEPT !.on = FALSE]
  /\ UNCHANGED <<link, up, down, server, cancelled>> /\ InServer

Server == ServerReads \/ ServerReadFails \/ Compute \/ Respond

-----------------------------------------------------------------------------
(* Time and the network.                                                   *)

Break ==
  /\ "net" \in Faults /\ link \in {"open", "closed"}
  /\ link' = "silent" /\ up' = <<>> /\ down' = <<>>
  /\ UNCHANGED <<setup, client, server, heartbeat, cancelled>>

\* The transport finds out.
Detect ==
  /\ link = "silent" /\ link' = "dead"
  /\ UNCHANGED <<setup, client, up, down, server, heartbeat, cancelled>>

Less(n) == IF n = 0 THEN 0 ELSE n - 1

\* Time passes when nobody has to act first.
Tick ==
  /\ client.pc = "read" => /\ client.left > 0 /\ ~(link = "closed" /\ down = <<>>)
                           /\ \A i \in 1..Len(down) : down[i].age < Delay
  /\ server.pc = "read" => server.left > 0 /\ \A i \in 1..Len(up) : up[i] < Delay
  /\ server.pc = "compute" => server.left > 0 /\ ~cancelled
  /\ server.pc # "write" /\ ~(heartbeat.on /\ heartbeat.left = 0)
  /\ client.pc \in {"read"} \cup Returned
  /\ client' = [client EXCEPT !.left = IF client.pc = "read" THEN Less(@) ELSE @]
  /\ server' = [server EXCEPT !.left = IF @ = Hung THEN Hung ELSE Less(@)]
  /\ heartbeat' = [heartbeat EXCEPT !.left = IF heartbeat.on THEN Less(@) ELSE @]
  /\ up' = [i \in DOMAIN up |-> IF up[i] < Delay THEN up[i] + 1 ELSE Delay]
  /\ down' = [i \in DOMAIN down |-> [down[i] EXCEPT !.age = IF @ < Delay THEN @ + 1 ELSE @]]
  /\ UNCHANGED <<setup, link, cancelled>>

Next == Client \/ Server \/ Beat \/ BeatEnds \/ Break \/ Detect \/ Tick

\* Both nodes run and time passes; a broken connection is noticed.
Spec ==
  /\ Init /\ [][Next]_vars
  /\ WF_vars(Client) /\ WF_vars(Server) /\ WF_vars(Beat) /\ WF_vars(BeatEnds)
  /\ WF_vars(Detect) /\ WF_vars(Tick)

-----------------------------------------------------------------------------
(* Properties.                                                             *)

\* What a sender returns as the response is what this request's handler wrote: in a mixed
\* fleet no node takes another wire's bytes for an empty response, and no lost frame, late
\* heartbeat or closed stream looks like one.  Only on a wire with heartbeats can it be
\* something else: the rest of a response of which a read before took the beginning.
ResponseIsTheHandlers ==
  client.pc = "ok" =>
    server.pc = "done" /\ (client.got = server.reply \/ (client.got = "garbled" /\ client.wire # "bare"))

\* On the envelope wire the read deadline never passes while the connection works, however
\* long the handler computes; a client that waits too long does so for a connection that is
\* broken, or for the end of a frame whose length it took from the middle of another.
NoSpuriousTimeout ==
  client.pc = "timeout" /\ client.wire = "envelope" => link = "dead" \/ client.waiting

\* An endless computation for a bare response: no heartbeat tells that the client is gone.
Abandoned == setup.compute = Hung /\ server.wire = "bare" /\ server.pc = "compute"

\* Nothing of an exchange stays behind: the client returns, unless heartbeats go on for
\* ever, and then the handler and the heartbeat goroutine end, too.  A computation that only
\* its context can stop is stopped by the heartbeat that finds the client gone; on the bare
\* wire, where there is none, it is abandoned.
NothingLeftBehind ==
  (setup.compute # Hung \/ client.wire = "bare" \/ client.pc \in Returned) ~>
    (client.pc \in Returned /\ (server.pc \in {"none", "done"} \/ Abandoned) /\ ~heartbeat.on)

=============================================================================

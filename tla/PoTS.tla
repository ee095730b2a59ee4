-------------------------------- MODULE PoTS --------------------------------
(***************************************************************************)
(* Blocks produced while a node synchronises: the server's publisher pushes*)
(* them over subscribed streams, the subscriber writes them to the PoTS    *)
(* WAL, and a PoTS request asks the server for what was missed.  A block   *)
(* is its number and a version, for its hash.  A flush either writes the   *)
(* whole buffer or nothing (module WAL has the partial ones).  The log is  *)
(* the main log, as in CatchUp: it has entries of other types, and the     *)
(* rotation of checkpoints cuts it.                                        *)
(***************************************************************************)
EXTENDS Tagging, FiniteSets, FiniteSetsExt

CONSTANTS
  StartBlocks,  \* the blocks an earlier run left: at the server and in the client's WAL
  MaxBlock,     \* bound: blocks of the server
  MaxSubs,      \* bound: subscriptions the client opens
  MaxToggles,   \* bound: changes of the server's availability, the end of its publisher included
  MaxRequests,  \* bound: PoTS requests
  MaxCut,       \* bound: the last LSN a rotation cuts
  ReadLimits,   \* the limits a caller passes to Read
  Faults        \* "net", "wal", "crash", "reorg", "rotate"

ASSUME PoTSAssumption ==
  /\ StartBlocks \in Nat /\ MaxBlock \in Nat /\ MaxSubs \in Nat /\ MaxToggles \in Nat
  /\ MaxRequests \in Nat /\ MaxCut \in Nat /\ ReadLimits \subseteq Nat
  /\ Faults \subseteq {"net", "wal", "crash", "reorg", "rotate"}

Subs == 1..MaxSubs

VARIABLES
  chain,      \* the server's database: chain[b] is the version of block b
  nextPub,    \* the next block the server's node passes to Publish
  available,  \* FastsyncReady().AmIAvailable()
  toggles,    \* changes of it and of pubClosed so far
  pubClosed,  \* the publisher's context is cancelled
  watcher,    \* watchAvailability is running
  streams,    \* Publisher.streams
  handler,    \* per stream: where HandlePubsub is
  sub,        \* the subscriber: control and number of its stream
  frames,     \* its stream: written by the server, not yet read by the client
  link,       \* its stream: "open", "reset", "closed" by the server, "gone": by the client
  owed,       \* history: the blocks published on its stream and not received yet
  missed,     \* history: the blocks published and not received, not indexed or cut
  log, buf,   \* the WAL: entries on disk and buffered ones
  cut,        \* the entries up to this LSN were removed from the log
  logOpen,
  index, order, latest,  \* PoTSWAL: blockIndex, lsnOrder, latestBlock
  request     \* the PoTS request: control, what was sent and what was answered

serverVars == <<chain, nextPub, available, toggles>>
pubVars    == <<pubClosed, watcher, streams, handler>>
wireVars   == <<frames, link, owed, missed>>
indexVars  == <<index, order, latest>>
walVars    == <<log, buf, cut, logOpen, indexVars>>
vars == <<serverVars, pubVars, wireVars, sub, walVars, request>>

Block(b, v)  == [kind |-> "block", block |-> b, version |-> v]
Frame(kind)  == [kind |-> kind, block |-> 0, version |-> 0]
OtherEvent   == Frame("other")   \* an entry of another component in the same log
NoRequest(n) == [pc |-> "idle", done |-> n, blocks |-> {}, latest |-> 0, tip |-> 0,
                 tag |-> Tag(<<>>, <<>>)]
EmptyIndex   == [b \in {} |-> 0]

\* A finite set of numbers, from the least to the greatest.
Rank(S, x) == Cardinality({y \in S : y <= x})
InOrder(S) == [i \in 1..Cardinality(S) |-> CHOOSE x \in S : Rank(S, x) = i]

Init ==
  /\ chain = [b \in 1..StartBlocks |-> 1] /\ nextPub = StartBlocks + 1 /\ available = TRUE /\ toggles = 0
  /\ pubClosed = FALSE /\ watcher = TRUE /\ streams = {}
  /\ handler = [s \in Subs |-> "none"]
  /\ sub = [pc |-> "idle", stream |-> 0] /\ frames = <<>> /\ link = "gone" /\ owed = <<>> /\ missed = {}
  /\ log = Append([b \in 1..StartBlocks |-> Block(b, 1)], OtherEvent)
  /\ buf = <<>> /\ cut = 0 /\ logOpen = TRUE
  /\ index = [b \in 1..StartBlocks |-> b] /\ order = [b \in 1..StartBlocks |-> b]
  /\ latest = StartBlocks
  /\ request = NoRequest(0)

-----------------------------------------------------------------------------
(* The server's node, which is not part of this repository.                *)

Produce ==
  /\ Len(chain) < MaxBlock
  /\ chain' = Append(chain, 1)
  /\ UNCHANGED <<nextPub, available, toggles, pubVars, wireVars, sub, walVars, request>>

\* The newest block is replaced, once; the node publishes its successor too.
Reorg ==
  /\ "reorg" \in Faults /\ chain # <<>> /\ ToSet(chain) = {1}
  /\ chain' = [chain EXCEPT ![Len(chain)] = 2]
  /\ nextPub' = Min({nextPub, Len(chain)})
  /\ UNCHANGED <<available, toggles, pubVars, wireVars, sub, walVars, request>>

SetAvailability ==
  /\ toggles < MaxToggles
  /\ available' = ~available /\ toggles' = toggles + 1
  /\ UNCHANGED <<chain, nextPub, pubVars, wireVars, sub, walVars, request>>

-----------------------------------------------------------------------------
(* The publisher.                                                          *)

\* The client still uses stream s.
Live(s) == s = sub.stream /\ link = "open"

\* What a write to stream s does to it: nothing once the client has left it.
WriteTo(s, frame) == frames' = IF Live(s) THEN Append(frames, frame) ELSE frames

\* A write to a stream can fail, above all when the client has gone.
WriteFails(s) == "net" \in Faults \/ ~Live(s)

PublishKeepsStreams ==
  /\ nextPub <= Len(chain) /\ nextPub' = nextPub + 1
  /\ LET b == Block(nextPub, chain[nextPub]) s == sub.stream IN
     \E failed \in SUBSET {t \in streams : WriteFails(t)} :
       /\ IF s \in streams \ failed THEN WriteTo(s, b) ELSE UNCHANGED frames
       /\ owed' = IF s \in streams /\ Live(s) THEN Append(owed, b) ELSE owed
       /\ missed' = IF s \in streams /\ Live(s) THEN missed ELSE missed \cup {b}
  /\ UNCHANGED <<chain, available, toggles, pubVars, link, sub, walVars, request>>

\* Publish: a stream whose write fails is reset and dropped.
Publish ==
  /\ nextPub <= Len(chain) /\ nextPub' = nextPub + 1
  /\ LET b == Block(nextPub, chain[nextPub]) s == sub.stream IN
     \E failed \in SUBSET {t \in streams : WriteFails(t)} :
       /\ IF s \in streams \ failed THEN WriteTo(s, b) ELSE UNCHANGED frames
       /\ IF s \in streams /\ Live(s) THEN owed' = Append(owed, b) /\ UNCHANGED missed
          ELSE missed' = missed \cup {b} /\ UNCHANGED owed
       /\ link' = IF s \in failed /\ Live(s) THEN "reset" ELSE link
       /\ streams' = streams \ failed
  /\ UNCHANGED <<chain, available, toggles, pubClosed, watcher, handler, sub, walVars, request>>

\* Close.
ClosePublisher ==
  /\ ~pubClosed /\ toggles < MaxToggles
  /\ pubClosed' = TRUE /\ toggles' = toggles + 1
  /\ UNCHANGED <<chain, nextPub, available, watcher, streams, handler, wireVars, sub, walVars, request>>

\* terminateAll: PubSubDone to every stream, whose end is then closed.
TerminateAll ==
  /\ IF sub.stream \in streams /\ Live(sub.stream)
     THEN WriteTo(sub.stream, Frame("done")) /\ link' = "closed"
     ELSE UNCHANGED <<frames, link>>
  /\ streams' = {}

WatchOnlyClose ==
  /\ watcher /\ pubClosed /\ watcher' = FALSE /\ TerminateAll
  /\ UNCHANGED <<serverVars, pubClosed, handler, owed, missed, sub, walVars, request>>

\* watchAvailability: a tick that finds the node unavailable, or the cancelled context.
Watch ==
  /\ watcher
  /\ \/ pubClosed /\ watcher' = FALSE
     \/ ~available /\ streams # {} /\ UNCHANGED watcher
  /\ TerminateAll
  /\ UNCHANGED <<serverVars, pubClosed, handler, owed, missed, sub, walVars, request>>

-----------------------------------------------------------------------------
(* HandlePubsub.                                                           *)

SetHandler(s, pc) == handler' = [handler EXCEPT ![s] = pc]

\* Available and authenticated, or not; the token may be unknown or expired.
Decide(s) ==
  /\ handler[s] = "request"
  /\ \/ available /\ SetHandler(s, "accept")
     \/ SetHandler(s, "refuse")
  /\ UNCHANGED <<serverVars, pubClosed, watcher, streams, wireVars, sub, walVars, request>>

\* AddStream, before the response is written.
AddStream(s) ==
  /\ handler[s] = "accept"
  /\ streams' = streams \cup {s} /\ SetHandler(s, "added")
  /\ UNCHANGED <<serverVars, pubClosed, watcher, wireVars, sub, walVars, request>>

\* The SubscribeResponse, its write error ignored; a refused stream is closed.
Respond(s) ==
  /\ handler[s] \in {"added", "refuse"} /\ SetHandler(s, "done")
  /\ WriteTo(s, Frame(IF handler[s] = "added" THEN "accepted" ELSE "refused"))
  /\ link' = IF Live(s) /\ handler[s] = "refuse" THEN "closed" ELSE link
  /\ UNCHANGED <<serverVars, pubClosed, watcher, streams, owed, missed, sub, walVars, request>>

-----------------------------------------------------------------------------
(* The PoTS WAL.                                                           *)

\* The index after the entries lsns of l are added to it.
Indexed(l, lsns, old) ==
  LET new == {l[lsn].block : lsn \in lsns}
  IN [b \in DOMAIN old \cup new |->
        IF b \in new THEN Max({lsn \in lsns : l[lsn].block = b}) ELSE old[b]]

NewLatest(l, lsns, old) == Max({old} \cup {l[lsn].block : lsn \in lsns})

AddToIndex(l, lsns) ==
  /\ index' = Indexed(l, lsns, index)
  /\ order' = order \o InOrder(lsns)
  /\ latest' = NewLatest(l, lsns, latest)

\* Write, and WriteBatch, which nothing calls: buffer the blocks, flush once, then index what this call wrote.
\* A failed flush leaves the entries in the buffer for the next one, and unindexed.
Write(blocks) ==
  /\ LET entries == log \o buf \o blocks IN
     \/ logOpen /\ log' = entries /\ buf' = <<>>
        /\ AddToIndex(entries, (Len(log) + Len(buf) + 1)..Len(entries))
     \/ ("wal" \in Faults \/ ~logOpen) /\ buf' = buf \o blocks /\ UNCHANGED <<log, indexVars>>
  /\ UNCHANGED <<logOpen, cut>>

\* Close: flush, then close the log.
CloseLog ==
  /\ \/ logOpen /\ log' = log \o buf /\ buf' = <<>> /\ logOpen' = FALSE
     \/ ("wal" \in Faults \/ ~logOpen) /\ UNCHANGED <<log, buf, logOpen>>
  /\ UNCHANGED <<indexVars, cut>>

\* CreateCheckpoint of another component rotates: the front of the log goes, up to the
\* oldest checkpoint kept (module WAL).  The index is not told.
Rotate ==
  /\ "rotate" \in Faults /\ logOpen
  /\ cut' \in cut + 1..Min({MaxCut, Len(log) - 1})
  /\ UNCHANGED <<serverVars, pubVars, wireVars, sub, log, buf, logOpen, indexVars, request>>

\* The blocks that are still in the log.
Entries == {lsn \in cut + 1..Len(log) : log[lsn].kind = "block"}

RebuildFirstWins ==
  LET lsns == Entries IN
  /\ index' = [b \in {log[lsn].block : lsn \in lsns} |->
                 Min({lsn \in lsns : log[lsn].block = b})]
  /\ order' = InOrder(lsns) /\ latest' = NewLatest(log, lsns, 0)

\* rebuildIndex: the PoTS entries of the log, replayed in order.
RebuildIndex ==
  /\ index' = Indexed(log, Entries, EmptyIndex)
  /\ order' = InOrder(Entries) /\ latest' = NewLatest(log, Entries, 0)

\* Read(0, limit), the blocks in insertion order; it fails at an entry that was cut.
Read(limit) == [i \in 1..Min({limit, Len(order)}) |-> log[order[i]]]
ReadFails(limit) == \E i \in 1..Min({limit, Len(order)}) : order[i] <= cut

-----------------------------------------------------------------------------
(* The subscriber.                                                         *)

\* Subscribe returns; whatever is left of the stream is lost.
Leave(lost) ==
  /\ sub' = [sub EXCEPT !.pc = "idle"]
  /\ frames' = <<>> /\ link' = "gone" /\ owed' = <<>> /\ missed' = missed \cup ToSet(owed) \cup lost
Return == Leave({})

\* Subscribe: connect, open a stream, send the request.
Subscribe ==
  /\ sub.pc = "idle" /\ sub.stream < MaxSubs
  /\ sub' = [pc |-> "handshake", stream |-> sub.stream + 1]
  /\ SetHandler(sub.stream + 1, "request") /\ link' = "open"
  /\ UNCHANGED <<serverVars, pubClosed, watcher, streams, frames, owed, missed, walVars, request>>

\* The next frame is taken for a SubscribeResponse: any other frame decodes to one that
\* does not accept.
ReadResponse ==
  /\ sub.pc = "handshake" /\ link # "reset" /\ frames # <<>>
  /\ IF Head(frames).kind = "accepted"
     THEN sub' = [sub EXCEPT !.pc = "loop"] /\ frames' = Tail(frames) /\ UNCHANGED <<link, owed, missed>>
     ELSE Return
  /\ UNCHANGED <<serverVars, pubVars, walVars, request>>

\* The loop: a block is written to the WAL, or skipped when that fails.
ReceiveBlock ==
  /\ sub.pc = "loop" /\ link # "reset" /\ frames # <<>> /\ Head(frames).kind = "block"
  /\ Write(<<Head(frames)>>)
  /\ frames' = Tail(frames) /\ owed' = Tail(owed)
  /\ missed' = IF log' = log THEN missed \cup {Head(frames)} ELSE missed
  /\ UNCHANGED <<serverVars, pubVars, sub, link, request>>

\* PubSubDone, the end of the loop.
ReceiveDone ==
  /\ sub.pc = "loop" /\ link # "reset" /\ frames # <<>> /\ Head(frames).kind = "done"
  /\ Return /\ UNCHANGED <<serverVars, pubVars, walVars, request>>

\* The stream was reset or has ended, or the answer did not come in 10 s.
ReadError ==
  /\ \/ sub.pc # "idle" /\ link = "reset"
     \/ sub.pc # "idle" /\ link = "closed" /\ frames = <<>>
     \/ sub.pc = "handshake" /\ frames = <<>> /\ "net" \in Faults
  /\ Return /\ UNCHANGED <<serverVars, pubVars, walVars, request>>

EndSubscription ==
  /\ sub.pc = "loop"
  /\ Return /\ UNCHANGED <<serverVars, pubVars, walVars, request>>

-----------------------------------------------------------------------------
(* The PoTS request.                                                       *)

\* runPoTS: the request holds what Read returns, by number, and the WAL's highest block.
RequestBlocks(limit) == ToSet(Read(limit))

\* SendPoTSRequest; nothing is sent when Read failed or returned nothing.
SendPoTSRequest ==
  /\ request.pc = "idle" /\ request.done < MaxRequests /\ logOpen
  /\ \E limit \in ReadLimits :
       request' = IF ReadFails(limit) \/ RequestBlocks(limit) = {} THEN NoRequest(request.done + 1)
                  ELSE [request EXCEPT !.pc = "asked", !.blocks = RequestBlocks(limit), !.latest = latest]
  /\ UNCHANGED <<serverVars, pubVars, wireVars, sub, walVars>>

\* CompareMaps: the server's blocks in the range that the request does not have with the
\* same hash.
CompareMaps(from, blocks) ==
  {b \in from..Len(chain) : Block(b, chain[b]) \notin blocks}

TagsWithoutSingles(S) ==
  LET starts == {b \in S : b - 1 \notin S}
      end(b) == Max({e \in S : b <= e /\ b..e \subseteq S})
  IN Tag(SetToSeq({RangeTag(b, end(b)) : b \in {c \in starts : end(c) > c}}), <<>>)

\* GenerateTagsFromMap: consecutive blocks as ranges, the others one by one.
GenerateTagsFromMap(S) ==
  LET starts == {b \in S : b - 1 \notin S}
      end(b) == Max({e \in S : b <= e /\ b..e \subseteq S})
  IN Tag(SetToSeq({RangeTag(b, end(b)) : b \in {c \in starts : end(c) > c}}),
         InOrder({b \in starts : end(b) = b}))

\* HandlePoTSync, ProcessPoTSRequest.  The request may also be refused or lost.
ProcessPoTSRequest ==
  /\ request.pc = "asked"
  /\ \/ request' = [request EXCEPT
           !.pc = "answered", !.tip = Len(chain),
           !.tag = IF request.latest >= Len(chain) THEN Tag(<<>>, <<>>)
                   ELSE GenerateTagsFromMap(CompareMaps(request.latest + 1, request.blocks))]
     \/ (~available \/ "net" \in Faults) /\ request' = NoRequest(request.done + 1)
  /\ UNCHANGED <<serverVars, pubVars, wireVars, sub, walVars>>

\* HeaderSync and DataSync for the tag (module BlockSync) end; then the WAL is closed if
\* there was a gap.
GapFilled ==
  /\ request.pc = "answered" /\ request' = NoRequest(request.done + 1)
  /\ IF TagBlocks(request.tag) = {} THEN UNCHANGED walVars
     ELSE CloseLog
  /\ UNCHANGED <<serverVars, pubVars, wireVars, sub>>

-----------------------------------------------------------------------------
\* The client's process dies and starts again with NewPoTSWAL.
Crash ==
  /\ "crash" \in Faults /\ (sub.pc # "idle" \/ buf # <<>> \/ ~logOpen)
  /\ buf' = <<>> /\ logOpen' = TRUE /\ UNCHANGED <<log, cut>> /\ RebuildIndex
  /\ Leave({log[lsn] : lsn \in 1..cut}) /\ request' = NoRequest(request.done)
  /\ UNCHANGED <<serverVars, pubVars>>

Server == Publish \/ Watch \/ \E s \in Subs : Decide(s) \/ AddStream(s) \/ Respond(s)
Client == ReadResponse \/ ReceiveBlock \/ ReceiveDone \/ ReadError
Environment == \/ Produce \/ Reorg \/ SetAvailability \/ ClosePublisher \/ Crash
               \/ Subscribe \/ EndSubscription \/ Rotate
Repair == SendPoTSRequest \/ ProcessPoTSRequest \/ GapFilled

Next == Server \/ Client \/ Environment \/ Repair

Spec == Init /\ [][Next]_vars

\* The watcher's ticker, the stream handlers and the subscriber's loop keep running.
FairSpec ==
  /\ Spec /\ WF_vars(Watch) /\ WF_vars(Client)
  /\ \A s \in Subs : WF_vars(Decide(s) \/ AddStream(s) \/ Respond(s))
-----------------------------------------------------------------------------
(* Properties.                                                             *)

\* blockIndex, lsnOrder and latestBlock describe what is on disk: through failed flushes
\* whose entries a later flush writes, entries of other components, replaced blocks,
\* crashes and rebuilds, every block in the index is found in the log under its LSN, in
\* its newest indexed version, unless a rotation has cut it, and latestBlock is the highest
\* of them.
IndexMatchesLog ==
  /\ \A lsn \in ToSet(order) : lsn \in DOMAIN log /\ log[lsn].kind = "block"
  /\ \A i, j \in DOMAIN order : i < j => order[i] < order[j]
  /\ LET ofBlock(b) == {lsn \in ToSet(order) : log[lsn].block = b}
         blocks == {log[lsn].block : lsn \in ToSet(order)}
     IN index = [b \in blocks |-> Max(ofBlock(b))] /\ latest = Max({0} \cup blocks)

\* A subscription that is alive has no hole: every block written to its stream since
\* AddStream was received or is still on the way, in the order of publication and with
\* nothing else but PubSubDone, at the end, although AddStream comes before the response,
\* other writes fail and the server comes and goes.
NoSilentHole ==
  sub.pc = "loop" /\ link # "reset" => frames \in {owed, Append(owed, Frame("done"))}

\* What a client still lacks when its PoTS request has been answered.  Above the highest
\* block it held nothing: the tag has every block of the server.  Below, its index has each
\* one in the server's version, or the block is on its way or still to be published, or it was
\* missed: published without a stream or on one that ended first, not written, or cut before
\* a restart.  Such a hole is never asked for.
OnlyOldHolesRemain ==
  request.pc = "answered" =>
    \A b \in 1..request.tip :
      \/ b \in TagBlocks(request.tag)
      \/ b <= request.latest /\ LET current == Block(b, chain[b]) IN
           \/ b \in DOMAIN index /\ log[index[b]] = current
           \/ b >= nextPub \/ current \in ToSet(owed) \cup missed

\* A server that is no longer available ends every subscription: also one accepted just
\* before, whose stream is added after the streams were terminated.
SubscriptionsEnd ==
  <>[](~available) /\ [](~pubClosed) => <>[](sub.pc # "loop")
=============================================================================

----------------------------- MODULE BlockSync -----------------------------
(***************************************************************************)
(* The client's block pipeline: a Tag of missing blocks (from PriorSync,   *)
(* from CatchUp or from a PoTS answer) goes through HeaderSync, with its   *)
(* Merkle confirmation rounds, and then through DataSync.  Each phase cuts *)
(* the tag into batches, fetches them with a pool of workers that retry    *)
(* and fail over, and writes them to the WAL and then to the database.     *)
(* A block is its number: a header that differs from the remotes' counts   *)
(* as missing.  One WAL append with its flush is one step (module WAL has  *)
(* its failures), and CreateCheckpoint, whose errors are only logged, is   *)
(* left out.                                                               *)
(***************************************************************************)
EXTENDS Bisection

CONSTANTS
  Serves,         \* Serves[r]: the blocks remote r has, r in 1..number of remotes
  Unparsable,     \* the remotes whose availability response has a nodeinfo that does not parse
  InitialBlocks,  \* the blocks the client starts with
  Entries,        \* how a session may start: "prior", "catchup", "gap"
  GapTags,        \* the tags a PoTS response may hold
  MinBlocks,      \* MIN_BLOCKS
  Wrap,           \* bound: the modulus of unsigned block arithmetic, for 2^64
  MergeWrap,      \* bound: the modulus of a response's uint32 BlockMerge, for 2^32
  MaxWorkers, MaxRetries, MaxSyncRounds,
  MaxSessions,    \* bound: sessions started
  Faults          \* "net", "wal", "db", "crash"

Remotes == DOMAIN Serves
Workers == 1..MaxWorkers
Tip(r)  == Max(Serves[r])
Blocks  == 0..Max((UNION {Serves[r] : r \in Remotes}) \cup InitialBlocks)

ASSUME BlockSyncAssumption ==
  /\ Serves \in Seq(SUBSET Nat) /\ Remotes # {}
  /\ \A r \in Remotes : Serves[r] # {} /\ IsFiniteSet(Serves[r])
  /\ Unparsable \subseteq Remotes
  /\ InitialBlocks \subseteq Nat /\ IsFiniteSet(InitialBlocks) /\ InitialBlocks # {}
  /\ Entries \subseteq {"prior", "catchup", "gap"} /\ GapTags \subseteq {t \in TagType : Separate(t)}
  /\ MinBlocks \in Nat /\ Wrap \in Nat /\ MergeWrap \in Nat \ {0} /\ \A b \in Blocks : b + MinBlocks < Wrap
  /\ MaxWorkers \in Nat \ {0} /\ MaxRetries \in Nat \ {0} /\ MaxSyncRounds \in Nat \ {0}
  /\ MaxSessions \in Nat
  /\ Faults \subseteq {"net", "wal", "db", "crash"}

VARIABLES
  headers, bodies,    \* the database: blocks with a header, with their other data
  wal,                \* what the WAL has on disk: kind and block
  pc, phase,          \* the session goroutine, and whose pool is running
  confirm,            \* syncConfirmation
  peers,              \* the remotes, in the order workers try them
  originalTag, round,
  queue, nextJob,     \* the batches, and the next one workCh holds
  worker,             \* per worker: control, batch, position in peers, attempt, result
  resultCh,           \* the results channel
  results,            \* results received and not yet written
  expected,           \* expectedBatchID
  cur,                \* the result being written
  written,            \* the batches the running phase has written, in order
  tagged,             \* the blocks whose accounts aggregatedTags has
  cancelled,          \* workerCtx is cancelled
  confirmedBy,        \* the remote that confirmed the headers, 0 for none
  session             \* sessions started so far

dbVars    == <<headers, bodies, wal>>
poolVars  == <<queue, nextJob, worker, resultCh>>
writeVars == <<results, expected, cur, written, tagged>>
callVars  == <<phase, confirm, peers, originalTag, round, cancelled, confirmedBy, session>>
vars == <<dbVars, poolVars, writeVars, pc, callVars>>

EmptyTag == Tag(<<>>, <<>>)
NoResult == [id |-> 0, blocks |-> {}, ok |-> TRUE, tries |-> {}]
Idle(state) == [pc |-> state, job |-> 0, remote |-> 1, attempt |-> 1, res |-> NoResult]
Logged(kind, blocks) == {[kind |-> kind, block |-> b] : b \in blocks}

Init ==
  /\ headers = InitialBlocks /\ bodies = InitialBlocks /\ wal = {}
  /\ pc = "start" /\ phase = "header" /\ confirm = TRUE /\ peers = <<>>
  /\ originalTag = EmptyTag /\ round = 1
  /\ queue = <<>> /\ nextJob = 1 /\ worker = [w \in Workers |-> Idle("exited")]
  /\ resultCh = <<>> /\ results = {} /\ expected = 1 /\ cur = NoResult /\ written = <<>>
  /\ tagged = {} /\ cancelled = FALSE /\ confirmedBy = 0 /\ session = 1

-----------------------------------------------------------------------------
(* The remote's side.                                                      *)

\* GetBlockDetails().Blocknumber.
Height == Max(headers)

\* The first condition of SYNC_REQUEST, on an unsigned height difference: a short chain
\* is sent to a full sync.
FullSync(r) == Height <= MinBlocks /\ (Tip(r) - Height) % Wrap >= MinBlocks

\* The sub-tree requests that may fail, by the first block they ask for.
LostRequests == IF "net" \in Faults THEN SUBSET Blocks ELSE {{}}

\* The comparisons: at a remote, of its tree for a range that ends at `end` with the
\* snapshot of the tree of a client that has the headers `of`.
Compare(r, of, end, lost) ==
  LET last   == IF end > Tip(r) THEN Tip(r) ELSE end
      merge  == BlockMerge(Max(of) + 1)
      synced == MerkleTree(Serves[r], 0, last, merge) = MerkleTree(of, 0, Max(of), merge)
  IN [remote |-> r, of |-> of, end |-> end, synced |-> synced,
      tag |-> IF synced THEN EmptyTag
              ELSE DataBisect(Serves[r], of, 0, last, Max(of), merge, lost)]
Comparisons == {Compare(r, of, end, lost) : r \in Remotes, of \in (SUBSET Blocks) \ {{}},
                                            end \in Blocks, lost \in LostRequests}

\* SYNC_REQUEST: FULL_SYNC or a comparison.
SyncRequest(r, end) ==
  IF FullSync(r) THEN {[synced |-> FALSE, tag |-> DivideTags(Height, Tip(r))]}
  ELSE {c \in Comparisons : c.remote = r /\ c.of = headers /\ c.end = end}

\* HandleAvailability: the response's BlockMerge, computed from the request's range, whose
\* end is MaxUint64, and cut to 32 bits.
AvailabilityBlockMerge(start) == BlockMerge((Wrap - start) % Wrap) % MergeWrap

\* filterAvailable: the peers whose BlockMerge reaches fromBlock, all or none of them
\* because every peer answers with the same; so it is highestBlock too.
FilterAvailable(order, fromBlock) ==
  IF AvailabilityBlockMerge(fromBlock) >= fromBlock THEN order ELSE <<>>

\* The tag of a catch-up.
CatchUpTag(fromBlock) == Tag(<<RangeTag(fromBlock, AvailabilityBlockMerge(fromBlock))>>, <<>>)

\* The tags a session can be given, each with its batches in the two phases.
Tags ==
  GapTags \cup {c.tag : c \in Comparisons}
    \cup {DivideTags(b, Tip(r)) : b \in Blocks, r \in Remotes}
    \cup {CatchUpTag(b + 1) : b \in Blocks}
Plans == {[tag |-> t, header |-> BuildBatches(t), data |-> BuildDataBatches(t)] : t \in Tags}
Plan(tag) == CHOOSE p \in Plans : p.tag = tag

-----------------------------------------------------------------------------
(* Starting a pool: workCh filled and closed, min(maxWorkers, batches)     *)
(* workers.                                                                *)

Launch(batches) ==
  /\ queue' = batches /\ nextJob' = 1 /\ resultCh' = <<>>
  /\ worker' = [w \in Workers |-> Idle(IF w <= Len(batches) THEN "take" ELSE "exited")]
  /\ results' = {} /\ expected' = 1 /\ cur' = NoResult /\ written' = <<>> /\ tagged' = {}
  /\ pc' = "fetch"

NoLaunch == UNCHANGED <<poolVars, writeVars>>

\* HeaderSync is called with a tag and the remotes that answered an availability probe,
\* in the order of their answers.
CallHeaderSync(tag, order, confirmation) ==
  /\ Launch(Plan(tag).header)
  /\ originalTag' = tag /\ peers' = order /\ confirm' = confirmation
  /\ phase' = "header" /\ round' = 1 /\ cancelled' = FALSE /\ confirmedBy' = 0

Answering == {S \in SUBSET Remotes : S # {} /\ ("net" \in Faults \/ S = Remotes)}
Orders == UNION {SetToSeqs(S) : S \in Answering}

\* PriorSync with one of them: the response is logged; a tag starts HeaderSync, and
\* without one HeaderSync returns at once.
StartPriorSync ==
  /\ pc = "start" /\ "prior" \in Entries
  /\ \E order \in Orders : \E answer \in SyncRequest(order[1], Tip(order[1])) :
       /\ wal' = wal \cup Logged("prior", {0})
       /\ \/ ~answer.synced /\ CallHeaderSync(answer.tag, order, TRUE)
          \/ answer.synced /\ pc' = "done" /\ phase' = "header" /\ NoLaunch
             /\ UNCHANGED <<confirm, peers, originalTag, round, cancelled, confirmedBy>>
  /\ UNCHANGED <<headers, bodies, session>>

\* CatchUp: everything from the next block to highestBlock, from the peers that pass
\* filterAvailable.
StartCatchUp ==
  /\ pc = "start" /\ "catchup" \in Entries
  /\ LET fromBlock == Height + 1 IN
     \E order \in {FilterAvailable(o, fromBlock) : o \in Orders} :
       \/ order # <<>> /\ CallHeaderSync(CatchUpTag(fromBlock), order, FALSE)
       \/ /\ order = <<>> /\ pc' = "failed" /\ NoLaunch
          /\ UNCHANGED <<phase, confirm, peers, originalTag, round, cancelled, confirmedBy>>
  /\ UNCHANGED <<dbVars, session>>

\* The probe, the PriorSync request or the WAL write of its response fails.
StartFails ==
  /\ pc = "start" /\ Faults \cap {"net", "wal"} # {}
  /\ pc' = "failed"
  /\ NoLaunch /\ UNCHANGED <<dbVars, callVars>>

\* HeaderSync's PoTS path: a caller passes the tag of a PoTS response.  (CatchUp's own
\* runPoTS stops before this call, because its Read with limit 0 returns no block.)
StartGapFill ==
  /\ pc = "start" /\ "gap" \in Entries
  /\ \E order \in Orders : \E tag \in GapTags : CallHeaderSync(tag, order, FALSE)
  /\ UNCHANGED <<dbVars, session>>

Fail ==
  /\ pc' = "failed" /\ cancelled' = (phase = "data")

-----------------------------------------------------------------------------
(* The fetch workers.                                                      *)

SetWorker(w, state) == worker' = [worker EXCEPT ![w] = state]
InWorkers == UNCHANGED <<dbVars, queue, writeVars, pc, callVars>>

TakeJob(w) ==
  /\ worker[w].pc = "take"
  /\ IF nextJob <= Len(queue)
     THEN SetWorker(w, [Idle("fetch") EXCEPT !.job = nextJob]) /\ nextJob' = nextJob + 1
     ELSE SetWorker(w, Idle("exited")) /\ UNCHANGED nextJob
  /\ UNCHANGED resultCh /\ InWorkers

\* The worker can ask the remote it is at.
Asking(w) == worker[w].pc = "fetch" /\ peers[worker[w].remote] \notin Unparsable

\* What the remote returns of the batch; nothing at all counts as a failure.
Fetched(w) == Serves[peers[worker[w].remote]] \cap queue[worker[w].job]

FetchOk(w) ==
  /\ Asking(w) /\ Fetched(w) # {}
  /\ SetWorker(w, [Idle("send") EXCEPT
                     !.res = [NoResult EXCEPT !.id = worker[w].job, !.blocks = Fetched(w)]])
  /\ UNCHANGED <<nextJob, resultCh>> /\ InWorkers

\* The next remote, or none is left and the batch is given up.
NextRemote(me) ==
  IF me.remote < Len(peers) THEN [me EXCEPT !.remote = @ + 1, !.attempt = 1]
  ELSE [Idle("send") EXCEPT !.res = [me.res EXCEPT !.id = me.job, !.ok = FALSE]]

FetchFailsWithoutRetry(w) ==
  LET me == [worker[w] EXCEPT !.res.tries = @ \cup {<<worker[w].remote, worker[w].attempt>>}] IN
  /\ Asking(w) /\ (Fetched(w) = {} \/ "net" \in Faults \/ cancelled)
  /\ SetWorker(w, NextRemote(me))
  /\ UNCHANGED <<nextJob, resultCh>> /\ InWorkers

\* A failed attempt: the same remote again, then the next one, then give up.
FetchFails(w) ==
  LET me == [worker[w] EXCEPT !.res.tries = @ \cup {<<worker[w].remote, worker[w].attempt>>}] IN
  /\ Asking(w) /\ (Fetched(w) = {} \/ "net" \in Faults \/ cancelled)
  /\ SetWorker(w, IF me.attempt < MaxRetries THEN [me EXCEPT !.attempt = @ + 1] ELSE NextRemote(me))
  /\ UNCHANGED <<nextJob, resultCh>> /\ InWorkers

\* The remote's nodeinfo does not parse: it is not asked at all.
SkipRemote(w) ==
  /\ worker[w].pc = "fetch" /\ ~Asking(w)
  /\ SetWorker(w, NextRemote(worker[w]))
  /\ UNCHANGED <<nextJob, resultCh>> /\ InWorkers

\* make(chan ..., len(queue)).
ResultCap == Len(queue)

SendResult(w) ==
  /\ worker[w].pc = "send" /\ Len(resultCh) < ResultCap
  /\ resultCh' = Append(resultCh, worker[w].res)
  /\ SetWorker(w, Idle("take"))
  /\ UNCHANGED nextJob /\ InWorkers

Work(w) == TakeJob(w) \/ FetchOk(w) \/ FetchFails(w) \/ SkipRemote(w) \/ SendResult(w)

\* The results channel is closed and empty.
PoolDone == (\A w \in Workers : worker[w].pc = "exited") /\ resultCh = <<>>

-----------------------------------------------------------------------------
(* Writing a batch: the WAL first, then the database.                      *)

LogBatchSkipped ==
  /\ pc = "log" /\ pc' = "store"
  /\ UNCHANGED <<dbVars, poolVars, writeVars, callVars>>

LogBatch ==
  /\ pc = "log"
  /\ \/ wal' = wal \cup Logged(phase, cur.blocks) /\ pc' = "store" /\ UNCHANGED cancelled
     \/ "wal" \in Faults /\ Fail /\ UNCHANGED wal
  /\ UNCHANGED <<headers, bodies, poolVars, writeVars, phase, confirm, peers, originalTag,
                 round, confirmedBy, session>>

StoreBatch ==
  /\ pc = "store"
  /\ \/ /\ IF phase = "header" THEN headers' = headers \cup cur.blocks /\ UNCHANGED bodies
                               ELSE bodies' = bodies \cup cur.blocks /\ UNCHANGED headers
        /\ written' = Append(written, cur.id)
        /\ expected' = IF phase = "data" THEN expected + 1 ELSE expected
        /\ pc' = "next"
        /\ UNCHANGED cancelled
     \/ "db" \in Faults /\ Fail /\ UNCHANGED <<headers, bodies, written, expected>>
  /\ UNCHANGED <<wal, poolVars, results, cur, tagged, phase, confirm, peers, originalTag,
                 round, confirmedBy, session>>

\* The batch r is taken from the results received; its accounts are tagged at once.
Write(r, rest) ==
  /\ cur' = r /\ results' = rest /\ pc' = "log"
  /\ tagged' = IF phase = "data" THEN tagged \cup r.blocks ELSE tagged

-----------------------------------------------------------------------------
(* processQueue: every result is collected before the first is written.    *)

CollectHeaders ==
  /\ pc = "fetch" /\ phase = "header" /\ resultCh # <<>>
  /\ results' = results \cup {Head(resultCh)}
  /\ resultCh' = Tail(resultCh)
  /\ UNCHANGED <<dbVars, queue, nextJob, worker, expected, cur, written, tagged, pc, callVars>>

HeadersCollected ==
  /\ pc = "fetch" /\ phase = "header" /\ PoolDone
  /\ IF \E r \in results : ~r.ok THEN Fail ELSE pc' = "next" /\ UNCHANGED cancelled
  /\ UNCHANGED <<dbVars, poolVars, writeVars, phase, confirm, peers, originalTag, round,
                 confirmedBy, session>>

\* The batch whose first block is the lowest.
NextHeaders ==
  /\ pc = "next" /\ phase = "header" /\ results # {}
  /\ \E r \in results :
       /\ \A s \in results : Min(r.blocks) <= Min(s.blocks)
       /\ Write(r, results \ {r})
  /\ UNCHANGED <<dbVars, poolVars, expected, written, callVars>>

\* DataSync is called with the DataSyncRequest, which holds the original tag.
CallDataSync ==
  /\ Launch(Plan(originalTag).data)
  /\ phase' = "data"
  /\ UNCHANGED <<confirm, peers, originalTag, round, cancelled, session>>

\* syncConfirmation is off: one pass is enough.
SkipConfirmation ==
  /\ pc = "next" /\ phase = "header" /\ results = {} /\ ~confirm
  /\ CallDataSync /\ UNCHANGED <<dbVars, confirmedBy>>

ConfirmLastRoundCounts ==
  /\ pc = "next" /\ phase = "header" /\ results = {} /\ confirm
  /\ \E r \in Remotes : \E answer \in SyncRequest(r, Height) :
       \/ (answer.synced \/ round = MaxSyncRounds)
          /\ CallDataSync /\ confirmedBy' = r
       \/ ~answer.synced /\ round < MaxSyncRounds
          /\ Launch(Plan(answer.tag).header) /\ round' = round + 1
          /\ UNCHANGED <<phase, confirm, peers, originalTag, cancelled, confirmedBy, session>>
  /\ UNCHANGED dbVars

NextRoundUncounted(tag) ==
  /\ Launch(Plan(tag).header)
  /\ UNCHANGED <<phase, confirm, peers, originalTag, round, cancelled, confirmedBy, session>>

\* The trees still differ: another round for the new tag, or no convergence.
NextRound(tag) ==
  \/ /\ round < MaxSyncRounds
     /\ Launch(Plan(tag).header) /\ round' = round + 1
     /\ UNCHANGED <<phase, confirm, peers, originalTag, cancelled, confirmedBy, session>>
  \/ /\ round = MaxSyncRounds
     /\ Fail /\ NoLaunch
     /\ UNCHANGED <<phase, confirm, peers, originalTag, round, confirmedBy, session>>

\* SyncConfirmation: the first remote with a definitive answer decides; which one is
\* first depends on the order of the re-authentications.
SyncConfirmation ==
  /\ pc = "next" /\ phase = "header" /\ results = {} /\ confirm
  /\ \/ \E r \in ToSet(peers) \ Unparsable : \E answer \in SyncRequest(r, Height) :
          \/ answer.synced /\ CallDataSync /\ confirmedBy' = r
          \/ ~answer.synced /\ NextRound(answer.tag)
     \/ /\ "net" \in Faults \/ ToSet(peers) \subseteq Unparsable
        /\ Fail /\ NoLaunch
        /\ UNCHANGED <<phase, confirm, peers, originalTag, round, confirmedBy, session>>
  /\ UNCHANGED dbVars

-----------------------------------------------------------------------------
(* processDataQueue: results are written as they arrive, in batch order.   *)

CollectDataUnordered ==
  /\ pc = "fetch" /\ phase = "data" /\ resultCh # <<>>
  /\ resultCh' = Tail(resultCh)
  /\ IF Head(resultCh).ok THEN Write(Head(resultCh), results) /\ UNCHANGED cancelled
                          ELSE Fail /\ UNCHANGED <<cur, results, tagged>>
  /\ UNCHANGED <<dbVars, queue, nextJob, worker, expected, written, phase, confirm, peers,
                 originalTag, round, confirmedBy, session>>

CollectData ==
  /\ pc = "fetch" /\ phase = "data" /\ resultCh # <<>>
  /\ resultCh' = Tail(resultCh)
  /\ LET r == Head(resultCh) IN
       \/ ~r.ok /\ Fail /\ UNCHANGED <<cur, results, tagged>>
       \/ r.ok /\ r.id = expected /\ Write(r, results) /\ UNCHANGED cancelled
       \/ r.ok /\ r.id # expected /\ results' = results \cup {r}
          /\ UNCHANGED <<pc, cur, tagged, cancelled>>
  /\ UNCHANGED <<dbVars, queue, nextJob, worker, expected, written, phase, confirm, peers,
                 originalTag, round, confirmedBy, session>>

NextDataForgetsBuffered ==
  /\ pc = "next" /\ phase = "data"
  /\ pc' = "fetch"
  /\ UNCHANGED <<dbVars, poolVars, writeVars, callVars>>

\* The drain loop over outOfOrderBatches.
NextData ==
  /\ pc = "next" /\ phase = "data"
  /\ \/ \E r \in results : r.id = expected /\ Write(r, results \ {r})
     \/ (\A r \in results : r.id # expected) /\ pc' = "fetch" /\ UNCHANGED <<cur, results, tagged>>
  /\ UNCHANGED <<dbVars, poolVars, expected, written, callVars>>

DataFinished ==
  /\ pc = "fetch" /\ phase = "data" /\ PoolDone
  /\ pc' = "done"
  /\ UNCHANGED <<dbVars, poolVars, writeVars, callVars>>

-----------------------------------------------------------------------------
(* Sessions, crashes.                                                      *)

Crash ==
  /\ "crash" \in Faults /\ pc \notin {"start", "done", "failed"}
  /\ pc' = "failed"
  /\ worker' = [w \in Workers |-> Idle("exited")] /\ resultCh' = <<>> /\ results' = {}
  /\ UNCHANGED <<dbVars, queue, nextJob, expected, cur, written, tagged, callVars>>

\* The next session finds the database the last one left.
Restart ==
  /\ pc \in {"done", "failed"} /\ session < MaxSessions
  /\ \A w \in Workers : worker[w].pc = "exited"
  /\ pc' = "start" /\ session' = session + 1
  /\ queue' = <<>> /\ nextJob' = 1 /\ resultCh' = <<>> /\ peers' = <<>>
  /\ results' = {} /\ expected' = 1 /\ cur' = NoResult /\ written' = <<>> /\ tagged' = {}
  /\ originalTag' = EmptyTag /\ round' = 1 /\ cancelled' = FALSE /\ confirmedBy' = 0
  /\ phase' = "header"
  /\ UNCHANGED <<dbVars, worker, confirm>>

Step ==
  \/ StartPriorSync \/ StartCatchUp \/ StartGapFill \/ StartFails
  \/ CollectHeaders \/ HeadersCollected \/ NextHeaders \/ SkipConfirmation \/ SyncConfirmation
  \/ CollectData \/ NextData \/ DataFinished
  \/ LogBatch \/ StoreBatch

Next == Step \/ (\E w \in Workers : Work(w)) \/ Crash \/ Restart

Spec == Init /\ [][Next]_vars

\* The session goroutine and the workers are scheduled; requests fail or return: each
\* read and write is made under StreamDeadline, which only the remote's heartbeats renew.
FairSpec == Spec /\ WF_vars(Step) /\ \A w \in Workers : WF_vars(Work(w))
-----------------------------------------------------------------------------
(* Properties.                                                             *)

\* "Each batch is written to the WAL before being written to the local database":
\* through failed writes, crashes and repeated sessions, whatever the database gained is
\* in the WAL.
StoredIsLogged ==
  /\ Logged("header", headers \ InitialBlocks) \subseteq wal
  /\ Logged("data", bodies \ InitialBlocks) \subseteq wal

\* However the workers finish, DataSync writes batch 1, 2, 3, ...: a failed or crashed
\* session leaves the bodies of a prefix of its batches.
BodiesInBatchOrder ==
  phase = "data" => \A i \in DOMAIN written : written[i] = i

\* DataSync reports success only when every batch was written, no early batch is left
\* in outOfOrderBatches, and each batch brought bodies that are stored and whose accounts
\* were tagged for reconciliation.
SuccessIsComplete ==
  pc = "done" /\ phase = "data" =>
    /\ Len(written) = Len(queue) /\ results = {}
    /\ \A i \in DOMAIN queue : queue[i] \cap bodies \cap tagged # {}

\* The batches of a phase ask for every block of the tag, each in one batch, and a data
\* batch holds at most MaxData blocks.
BatchesPartitionTag ==
  /\ pc = "fetch" /\ (phase = "data" \/ round = 1) => UNION ToSet(queue) = TagBlocks(originalTag)
  /\ phase = "data" => \A i \in DOMAIN queue : Cardinality(queue[i]) <= MaxData
  /\ \A i, j \in DOMAIN queue : i # j => queue[i] \cap queue[j] = {}

\* "retry the same range with the same remote ... then retry the same range with another
\* remote": unless DataSync was cancelled, a batch is given up only after each remote
\* that could be asked at all was asked MaxRetries times; the others are the ones whose
\* nodeinfo does not parse, and a batch may fail without a single request.
Askable == {i \in DOMAIN peers : peers[i] \notin Unparsable}
FailureIsLastResort ==
  ~cancelled => \A r \in results \cup ToSet(resultCh) :
                  ~r.ok => r.tries = Askable \X (1..MaxRetries)

\* A HeaderSync that ran its confirmation hands over to DataSync only with exactly the
\* headers of the remote that confirmed, up to the client's height: no round that ended
\* with holes, with a partial answer or against a lagging remote counts.
ConfirmedHeadersMatch ==
  phase = "data" /\ confirm =>
    /\ confirmedBy # 0
    /\ headers = Serves[confirmedBy] \cap 0..Height

\* Every session ends, in spite of failures, lagging remotes and rounds that do not
\* converge, and no worker is left behind on a channel nobody reads.
SessionEndsAndPoolDrains ==
  /\ []<>(pc \in {"done", "failed"})
  /\ \A w \in Workers : []<>(worker[w].pc = "exited")

\* The tag of a comparison holds every block on which the client and the remote that
\* compared differ, whatever the sizes of the leaves, the number of layers and the
\* sub-tree requests that failed.
TagCoversDifference ==
  pc = "fetch" /\ phase = "header" /\ confirm /\ round = 1 /\ ~FullSync(peers[1]) =>
    SymDiff(headers, Serves[peers[1]]) \subseteq TagBlocks(originalTag)

\* DataSync fetches "the full block data ... for synchronized blocks": a session that
\* succeeds leaves no header without its body.
SynchronizedBlocksHaveBodies == pc = "done" /\ phase = "data" => headers \subseteq bodies
=============================================================================

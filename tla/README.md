# JMDN-FastSync: a TLA+ development

FastSync brings a node's chain and accounts up to date from its peers. This directory holds TLA+
models of its concurrent, persistent and communicating parts, the TLC configurations that check
them on small instances, and TLAPS proofs, for every instance, of nearly all the safety properties
those checks find to hold.
Paths below are relative to the repository (`src/`).

## Inventory

| Part | State it keeps | Operations | What is hard | What makes it correct |
|---|---|---|---|---|
| Account dispatcher and diff (`core/protocol/router/helper/accounts`) | page channel, buffer count, inflight count, done, pause lock, dead letters | WaitForBatchStart, EnqueueNonces, CloseInput, Run, processPage, handleFailure | producers, workers, watchers and the session interleave; lost ACKs; cancellation | `done` closes last, no nonce lost silently or counted twice, delivered means stored, sessions end |
| WAL (`common/WAL`) | log, metadata file, checkpoint markers; LSNs and buffer in memory | WriteEvent, Flush, CreateCheckpoint, TruncateBefore, Close, NewWAL | crashes between disk operations, partial flushes | what was flushed stays readable, checkpoints stay usable |
| WAL async buffer | slot, per-buffer stack and flags | AddToBufferWAL, AddCheckpointToBuffer, run, Drain, Close | buffers close themselves while writers push; CAS race | each entry written once, in order, and eventually |
| HeaderSync, DataSync (`core/headersync`, `core/datasync`) | queue, workers, results, rounds; database and WAL | HeaderSync, DataSync, fetch workers, SyncConfirmation | out-of-order results, retries and failover, rounds that do not converge, crash mid-write | logged before stored, ordered, complete on success, always ends |
| PriorSync, Merkle comparison, bisection | none beyond the session | PriorSync, SYNC_REQUEST, FULL_SYNC, dataBisect | unsigned heights, lagging peers | every difference is tagged |
| CatchUp (`core/catchup`) | none beyond its phases | Run, runPoTS | peers answer in any order, phases fail half-way | each phase sees what the one before wrote |
| Reconciliation and its LRU cache | account updates in memory, database, WAL | Reconcile, ReconcileWithDeltas | pre-created accounts, crash between log and commit, repeated deltas | all or nothing, applied once |
| PoTS, PoTS WAL, pubsub | block index, LSN order, streams | Write, Read, SendPoTSRequest, Publish, Subscribe | lost blocks, eviction, streams dropped | gaps found and filled |
| AccountSync client (`core/accountsync`) | job, result and chunk channels, reorder buffer | AccountSync, buildChunks, makeChunk | encoders overtake each other, a stage fails while others are blocked | the server sees the whole upload, in order; nothing leaks |
| Hydration | none | HydrateAll | uncommitted entries | the last batch is what was committed last |
| Messaging, communication, stream handlers (`common/messaging`, `core/sync`) | streams, deadlines, heartbeat goroutines | SendProtoDelimited and its heartbeat variants, the handlers | deadlines against long computations, two wires, frames that arrive together | responses are not mistaken, every exchange ends |

Interactions: CatchUp and the application call PriorSync, HeaderSync and DataSync in turn, on one
WAL and one database; each asks peers whose router answers (`core/protocol/router`,
`core/sync`). In AccountSync the server's router starts a dispatcher, whose workers send pages on
streams to the client's `HandleAccountsSyncData`, which stores and then acknowledges them. The
async buffer writes into the same WAL. Calls that cross the network fail, time out or are answered
late; the heartbeat of a session cancels the server's computation when the client is gone.

## Modules

* **AccountDispatcher** is one AccountSync session on the server. Parents are the diff goroutines
  of `diffWithGRO`, workers those of `Run`, the session goroutine is `ACCOUNTS_SYNC`. A step ends
  at each operation another goroutine can see: a channel operation, an atomic add, a lock, a
  callback. So `EnqueueNonces` is `Admit` (inflight), `EnqueueSend`, `EnqueueCount`;
  `WaitForBatchStart` is `GateFast`, `GateCheck`, `GateWait`, with `WatcherFires` for its
  watcher; `handleFailure` is `HandleFailure`, `Requeue`, `Recount`, `DeadLetter`. `ClientPage`
  is the remote handler, which stores a page before its ACK is sent or lost.
* **Delivery** says what such a session promises: each missing account is settled at most once, as
  delivered, and then the client has stored it, or as failed; a good answer means that all are settled
  or the session was cancelled; nothing is settled after the answer. `AsDelivery == INSTANCE Delivery
  WITH ...` in AccountDispatcher is the refinement: `failed` are the nonces of the dead letters, the
  answer is sent when the session goroutine has ended.
* **WAL** is one process and its disk. `Mu` serialises operations, so `pc`/`op` name the one under
  way, and a step is one disk operation: one log write, the truncation and the writing of the
  metadata file, the marker, the truncation and the removal of a rotation. `Crash` may come between
  any two, and each can fail, as can the listing of the markers. `TruncateBefore` takes any LSN, as
  `docs/WAL.md:174` and `wal_demo/example_usage.go:286` use it, and `released` remembers where it cut.
  tidwall/wal is external: an append must have the index after the last one, a cut one in the log.
* **DurableLog** says what the WAL promises: entries are added at the end, under the LSN that is their
  index; what memory no longer holds can be read; the log is cut where its caller wants it (`Discard`),
  or on its own account at the oldest checkpoint, which is given up only when enough newer ones remain;
  failures, crashes and restarts change nothing. `AsDurableLog == INSTANCE DurableLog WITH ...` in WAL is the refinement: the checkpoints are
  the markers, and what is durable are the entries `flushBuffer` has dropped from memory.
* **AsyncBuffer** is the slot, the buffers with their goroutines, the writers, one drain and one Close,
  both at any time. The WAL under it is taken as reliable. `lost` records the first push to a buffer
  that has closed before its creator came to it; `AddToBufferWAL` ignores that push's result
  (`operations.go:346`), against the comment of `pushData`.
* **Tagging** is the tag of missing blocks, **Batching** the operators `buildBatches`,
  `buildDataBatches` and `DivideTags`; a batch is the set of blocks it asks for. Their loops are
  recursive functions of the number of ranges or blocks handled so far, and `sort.Slice` is a
  permutation that puts the keys in order (`SortBy`).
* **Bisection** is the Merkle comparison: the leaves of a tree from the block merge of
  `merkle.go`, and `dataBisect` layer by layer (`Layer`, `Layers`) with its leaf and layer thresholds, ranges
  above the peer's height and sub-trees that could not be fetched. The tree library is external:
  two leaves differ when the blocks in them do.
* **BlockSync** is the client's pipeline on top of these: a session starts from PriorSync, CatchUp or
  a PoTS tag, runs HeaderSync with its confirmation rounds, then DataSync. A block is its number; a
  header that differs counts as missing. A worker passes over a remote whose nodeinfo does not parse
  (`Unparsable`) without an attempt (`SkipRemote`).
* **Ledger** says what a reconciliation promises: the net effect of a block range is posted to all
  tagged accounts in one step, or the call answers with an error and posts nothing; no balance falls
  below zero. Accounts registered on the way stay. What a posting may miss is explicit: fee shares of
  unreadable headers, and an account that somebody else registered while the call ran (`late`).
  Postings are counted (`posted`).
* **Reconciliation** is `Reconcile` and `ReconcileWithDeltas`: goroutines that replay an account's
  transactions one by one, reading headers through the shared LRU cache (`LookUp`, `ReadHeader`),
  then the steps of the caller: collect, fetch and pre-create missing accounts, WAL batch, flush,
  commit, checkpoint. Each may fail; pages of AccountSync and crashes come in between, and a call can
  be repeated after any outcome. An update carries `isNew`: where the commit would create an account
  that exists by now (`Late`), the application may keep the record, write over it or refuse. The header
  cache lives from call to call, until the process ends.
  `AsLedger == INSTANCE Ledger WITH ...` is the refinement: `balance` is the balance column, and
  the state is `applied` from the commit to the return.
* **PoTS** is a server with its publisher, availability watcher and `HandlePubsub` handlers, one
  stream at a time to a subscriber, the subscriber's PoTS WAL (log, buffer, index, order, latest
  block), and the PoTS request with the comparison of maps and the tags of the gap. The WAL is the
  main log, as CatchUp passes it (`catchup.go:114`), so entries of other components are in it and their
  checkpoints cut it (`Rotate`). `missed` records the published blocks that the client did not get.
* **AccountUpload** is the client's side of AccountSync against `HandleAccountsSync`: the producer,
  the encoders and the reorder stage of `buildChunks` as processes on bounded channels (`JobCap` for
  jobs and results, `OutCap` for chunks; 8 and 4 in the code), the upload
  with its ACKs, the server's loop with its heartbeat goroutine and the drain after a failed setup.
  The pages of the diff are AccountDispatcher's.
* **Exchange** is one request and its response, in discrete time. The seven senders of
  `communication.go` and the seven handlers of `sync_protocols.go` are records of what they do
  differently (wires, deadline, whether the response's Ack is looked at); the control they share is
  modelled once: transport and fallback, negotiation, read deadline and heartbeats, computation
  and its cancellation, response. A torn frame is decoded as the code would do it: as an error, a
  heartbeat, another response (`garbled`), or a length that the reader waits for (`waiting`).
* **MC\*** modules give constants their values.
* **AccountDispatcherProofs**, **WALProofs**, **AsyncBufferProofs**, **ReconciliationProofs**,
  **ExchangeProofs**, **AccountUploadProofs**, **BlockSyncProofs** (with Bisection, Batching and
  Tagging) and **PoTSProofs** hold the theorems about the module they are named after.

How they fit: Bisection extends Batching and Tagging and is used by BlockSync; PoTS uses Tagging
and its `GapFilled` stands for a BlockSync session; AccountUpload's `Diff` stands for
an AccountDispatcher session; the requests of BlockSync and PoTS are Exchanges, whose outcomes
(answer, refusal, failure, nothing left behind) are the faults those modules take.

Operators named for a mistake (`FlushFinalDropsRest`, `LayerDropsLost` and others)
are not part of any specification. Each is a variant of the definition after it, with one plausible
error, and each property is violated when its variant is put in.

## Runs

| Run | Instance | Shows |
|---|---|---|
| `dispatcher_safety` | 1 parent, 2 workers, batches `<<1>>`, `<<2,3>>`, pages of 2, one retry, all faults | `done` last, exact inflight, no nonce lost or counted twice, refinement of Delivery |
| `dispatcher_liveness` | 2 parents, 1 worker, two batches of two pages, room for three pages, gate at 2; fetches may fail | the session ends, or the channel is full when the worker re-queues |
| `dispatcher_drift` | 1 parent, 1 worker, streams may fail to open | violated: finding 1 |
| `wal_safety` | 5 events, batches of 2, one checkpoint kept, 2 crashes, cuts at any LSN, every file operation may fail | refinement of DurableLog, flushed entries survive, the flushed LSN is on disk, the newest checkpoint readable, rotation keeps enough |
| `wal_resume` | 3 events, 1 crash, no other fault | violated: finding 2 |
| `async_buffer` | 2 writers (an entry and a checkpoint; one entry), 3 buffers, a drain and a Close | order, exactly one place for an entry that was not lost, one open buffer, entries reach the log, writers return |
| `block_sync` | peers with blocks 0-3, 0-1 and 0-3, the last not parsable, client with 0 and 2, 2 workers, 2 attempts, 2 rounds, 2 sessions; leaves of one and more blocks, two layers; network, WAL, database faults and crashes; three entries | the tag covers every difference, logged first, bodies in order, complete success, batches partition the tag, failure as last resort, confirmed headers match, sessions and workers end |
| `block_bodies` | one peer with 0-4, client with 0 and 2 | violated: finding 3 |
| `reconcile` | 3 accounts (one poor, one without identity, one not held), 3 blocks, cache of 2 headers, 2 goroutines, 2 calls of either kind, every step may fail | cache consistent, identity kept, commit behind the log, posted once, refinement of Ledger |
| `pots` | a chain of up to 3 blocks, 2 subscriptions, 1 change of availability or end of the publisher, 1 request, read limits 0 and 9; failing streams and flushes, crashes, a replaced block, a rotation | index matches log, no hole in a live subscription, a request leaves only holes below the highest block held, subscriptions end |
| `upload` | up to 2 counted batches and up to two more or less found, 2 encoders, channels of one, all faults | the diff sees the whole upload, success is answered, everything ends unless a surplus fills the output |
| `exchange` | deadlines 6 and 4, heartbeat 2, delay up to 1, computations of 0, 1, 7, 9 and without end; 7 protocols, 3 versions, 4 address sets, old and new servers | responses are the handler's or a torn rest of it, no timeout but on a dead connection or behind a torn frame, nothing left behind but an endless bare computation |

Why the bounds are enough. The dispatcher needs a page made of two batches and a rest (uneven
batches), two workers that race to finish, and one retry so that both outcomes of a failure occur;
the gate needs more pages than its threshold, and threshold 2 is the smallest
for which the resume threshold (80%, rounded down) is not zero; the re-queue needs a channel that can
be full, so batches of two pages: four, and room for three. The WAL needs a flush of more than
one entry, a rotation (one checkpoint kept, so a second one rotates) and a second crash after a
recovery. The buffers need a writer of both kinds of node and one competitor, and a successor of a
closed buffer, and a writer whose first push comes too late. The pipeline needs a peer ahead of and one behind the client (the latter gives
partial answers and the wrapped height difference), a hole below the client's height, more batches
than workers, one peer that cannot be asked, and a session after a crash; the comparison needs leaves of more than one block, so
that it refines, and a second layer. A reconciliation needs an account that hits zero, one to be
fetched and one whose identity arrives late, more headers than the cache holds with two goroutines
that miss the same one, and a second call after a failure, a crash or a success. PoTS needs a block before the
subscription, one pushed and one missed, and a second subscription after the first ended; cutting the
first entry already loses a block. The
upload needs two encoders that overtake each other, a count that is too high and one too low by more
than the output takes, and channels that fill, which those of the code (8 and 4) would not do with so
few batches: they have one slot. Exchange keeps the proportions of the code's 15 s, 10 s and 5 s (a
heartbeat interval, two delays and one missed tick still fit into the deadline) and computations
shorter and longer than the deadline. `Wrap` stands for 2^64 and `MergeWrap` for 2^32; `MaxEvents`,
`MaxCrashes`, `MaxBuffers`, `MaxSessions`, `MaxBlock`, `MaxSubs`, `MaxToggles`, `MaxRequests`,
`MaxCut`, `MaxBatches`, `Drift`, `Delay` and `MaxCompute` bound what is unbounded in the code.

Deadlock checking is off because the systems may stop: the dispatcher's runs contain the hangs of
finding 1 and of the observations below, which `SessionEndsOrJams` and `DoneOnlyWhenFinalised` tell
from others; the other models end when their events, pushes, sessions, blocks or exchanges are used up.

Fairness. A goroutine that can run is scheduled by Go, so each parent, worker and the session
(AccountDispatcher), each writer and buffer goroutine (AsyncBuffer), and the session and each
fetch worker (BlockSync) is weakly fair. Faults, cancellation, crashes, the idle timeout, Drain and
Close are owed to nobody. In BlockSync a fetch ends because connects, reads and writes are made
under `StreamDeadline` (`common/messaging/messaging.go`), which only heartbeats renew: a peer that
sends heartbeats for ever and never answers is excluded. In AccountUpload the pipeline, the client
and the server's handler are weakly fair, a heartbeat is never owed, and a read ends because of its
deadline (`ReadChunkFails` needs the client to be gone or waiting). In Exchange both nodes run, time
passes when nobody has to act first, and a broken connection is noticed in the end, as the transports' keep-alive
does. In PoTS the watcher's ticker, the handlers and the subscriber's loop run; that blocks are
produced or published is not assumed. `reconcile` checks safety only.

### Findings

1. *A failed OpenStream blocks the session* (`dispatcher/run.go:117`). The failed page's nonces are
   added to the buffer count a second time; the count never falls below the threshold again and
   producers wait for ever.
2. *The WAL resumes before the end of its log* (`common/WAL/operations.go:195`) after a crash
   between the log and the metadata write. New entries are then refused.
3. *Blocks found in a later round get no body* (`core/headersync/headersync.go:192`).

### Observations without a run of their own

The models contain these behaviours; the properties are stated so that they are true of the code.

* *A cancellation can be missed* (`dispatcher/account_dispatcher.go:82`). The watcher broadcasts
  without the lock, between a producer's test and its wait.
* *The page channel can be full at a re-queue* (`dispatcher/run.go:240`, whose comment says it never
  is): the capacity counts one page for each producer, and a batch can be several. When every worker
  is there, nobody reads the channel and the session hangs. `Jammed` is that state, and
  `SessionEndsOrJams` says that it is the only one in which a session stays (while streams open).
* *A first push can be lost* (`common/WAL/operations.go:346`): between the CompareAndSwap and the push
  a drain, a Close or an idle exit can close the new buffer; `pushData` then returns false, which
  nobody looks at, and `AddToBufferWAL` returns nil. `EntryAccounted` allows exactly this loss.
* *TruncateBefore looks at no checkpoint* (`common/WAL/operations.go:386`): a caller can cut the log
  past the newest one, which then names an entry that is gone. `CheckpointReadable` says that nothing
  else does it.
* *Close can lose entries* (`common/WAL/operations.go:379`): a buffer that closed itself has left
  the slot and is not waited for.
* *Frames that arrive together are lost* (`internal/pbstream/pbstream.go:32`): each read makes a
  buffered reader of its own and drops what it read too much. The subscriber knows
  (`core/pubsub/subscriber/subscriber.go:102`) and keeps one reader; the readers with heartbeats do
  not. The rest of a frame that was cut is read as a length and a message: mostly an error, but it can
  be another response (a PoTS response that lost its first byte can decode to one with another tag), or
  a length for which the reader waits until its deadline, swallowing heartbeats.
  `ResponseIsTheHandlers` and `NoSpuriousTimeout` allow these two and no other; the account upload, whose
  frames are short, has only errors and waits (all cut positions of an ACK and an End were decoded).
* *An upload can wait for ever after its success* (`core/accountsync/accountsync.go:124`) when so many
  more batches are found than were counted that the output channel fills (four, in the code): nobody reads the
  chunks after the last, the reorder stage blocks and never reports, and the cancel that would release it
  (lines 80-83, "cancelled on any return path") is deferred to a return that does not come. `Overfull`
  is that state, and `UploadEnds` has it as its one exception.
* *An endless computation on the bare wire is not stopped* (`core/sync/sync_protocols.go:368`): no
  heartbeat finds out that the client is gone. `Abandoned` is that state in `NothingLeftBehind`.
* *The End message is Ok also after dead letters* (`router/data_router.go:1576`).
* *The hydrator takes an entry for committed that was only flushed*
  (`common/WAL/hydration/hydration.go:20`). `CommitIsLogged` is the direction that holds: a commit
  is always found by the hydrator.
* *A repeated reconciliation posts its deltas again* after a success, and after a crash between commit
  and return (`core/reconsillation/reconsillation.go:618`), although `core/reconsillation/interface.go:26` calls it safe for
  repeated runs. After an error it does not: `PostedOnce` says so for every caller that repeats only then.
* *An error can leave accounts behind* (`core/reconsillation/reconsillation.go:254`): those that
  Phase 1.5 created stay, with balance 0, when a later step fails; the comment at line 127 says that the
  database is not mutated. No balance is: Ledger has both.
* *A late page can cost an account its effect*: an update planned as a creation meets an account that a
  page of AccountSync created meanwhile. If the application's CreateAccount keeps what exists, the
  commit succeeds without this account's effect; if it refuses, the call fails. Ledger's `late` is this.
* *CatchUp's gap phase reads the PoTS WAL with limit 0* (`core/catchup/catchup.go:265`), which its
  comment takes for all blocks and `Read` for none, so it finds the WAL empty and sends no request.
* *Old holes are not repaired*: a PoTS request asks for what is above the highest block held. A block
  below it that a failed write skipped (`core/pubsub/subscriber/subscriber.go:143`), that was published
  between two subscriptions or on a stream that ended first, is not asked for again, although
  `README.md:155`, `:164` and `:302` and `docs/POTS.md` promise the blocks produced meanwhile.
  `OnlyOldHolesRemain` says exactly which blocks a request leaves out.
* *The PoTS WAL is not separate*: `docs/POTS.md:213` and `core/pots/pots.go:126` speak of an isolated
  one, CatchUp passes the main log. A rotation of it cuts PoTS entries; the index keeps naming them
  until a restart, and `Read` fails at them.
* *A remote that cannot be parsed gets no attempt, the others two* (`core/headersync/headersync.go:360`,
  `:373`); the comment at line 90 promises three on the same remote. Header batches have no upper limit either:
  a range is kept whole (`BatchesPartitionTag` bounds data batches only), where `core/headersync/headersync.go:697`
  and `README.md:113` say 1500.
* *CatchUp takes a peer's BlockMerge for its height* (`core/catchup/catchup.go:100`): the number is
  the leaf size of a tree over the requested range, cut to 32 bits; `AvailabilityBlockMerge` and
  `CatchUpTag` model it.

## Proofs

Each theorem holds for every value of the constants that satisfies the named assumptions, so for
any number of goroutines, peers, blocks, events, retries and crashes. The bounds of the runs
(`MaxEvents`, `MaxSessions` and so on) are constants of any size there.

**AccountDispatcherProofs** (`DispatcherAssumption`: the checks of `dispatcher/helper.go`, finite
nonempty sets of goroutines): `TypeCorrect`, `InflightCorrect` (`InflightExact`), `DoneIsLast`
(`DoneOnlyWhenFinalised`), `NothingLost` (`NoNonceLost`), `ReportedOnce` (`NoDoubleReport`) and `Refinement`
(`ImplementsDelivery`): all its safety properties.
`DoneOnlyWhenFinalised` is not inductive: a state in which a parent may still admit a page after
`done` satisfies it. The invariant is `IInv`: types, `InflightExact`, that no parent is left when
the input is closed (`InputClosedLast`), and that `done` was closed with inflight at zero
(`DoneAtZero`). `InflightExact` relates a counter to the cardinalities of two sets of goroutines,
those admitting and those holding a page; the lemmas `AdmittingMove` and `HoldingMove` say how a
move of one goroutine changes them, and every action is a combination of such moves.

`NothingLost` follows the nonces. `NonceInv` adds to `IInv` that a missing nonce is always in a
batch, a parent's slice, an admitted page, the channel, a worker's hands or the summary, unless the
context or the iterator ended the diff (`Kept`); that a parent which has seen the closed `workChan`
left neither a batch nor a slice behind (`Finishing`); and that the diff's verdict includes the
iterator's error (`Verdict`). When the session ends, `DoneOnlyWhenFinalised` and `Finishing` empty
every place but the summary. `ReportedOnce` has one hypothesis, `DistinctNonces`: the account
iterator, which the application implements, returns each nonce once (the session's own code does
not check it; MCAccountDispatcher assumes it of its batches, and TLC evaluates it there). Its
invariant `ReportInv` says that a nonce is at one position of one place (`OnePlaceEach`); there is
a lemma for each way nonces move (`PullOne`, `CutOne`, `AppendOne`, `TakeOne`, `FinaliseOne`), and
`CardElems` turns it into the count of accounts.

`Refinement` has the same hypothesis and puts the two arguments together. By `Kept` and `OnePlaceEach` a
page in a worker's hands holds nonces that are missing and not settled (`HeldIsUnsettled`), so an
acknowledged page is a `Deliver`, one whose ACK is lost a `Store` or nothing, a dead letter a `GiveUp`;
`NoNonceLost` makes the end of the session an `Answer`; and because `Run` waits for its workers
(`WorkersGone`) no such step comes after it. The run checks the refinement instead of the types, which
`TypeCorrect` proves.

**WALProofs** (`WALAssumption`: batches and kept checkpoints of at least one): `TypeCorrect`,
`Durable` (`CommittedSurvives`), `FlushedOnDisk` (`FlushedIsOnDisk`), `NewestCheckpointReadable`
(`CheckpointReadable`) and the action property `RotationSafe` (`RotationKeepsCheckpoints`). They need
one invariant, `WALInv`. Durability rests on `FlushProgress`: the entries which the flush under way
has passed are in the log, so the buffer is dropped only when all of it is. The checkpoints rest on
`MarkersInv`: none is ahead of the log, a log that a rotation was the last to cut has one at or after
its front, and a rotation always has one to spare.

`Refinement` (`ImplementsDurableLog`) uses the same invariant: the log write of one entry in a flush is
`Extend`, the end of a complete flush is `Release`, the marker is `Checkpoint`, the truncation of a
rotation is `Cut`, `TruncateBefore` is `Discard`, the removal of the old marker is `Forget`, and every other step, a crash
and a recovery among them, changes nothing the abstract log has (`DurableStep`). That the entries a flush
releases are readable at that moment is `FlushProgress`; that a rotation finds a marker to cut at, and
removes the oldest of more than `MaxSnapshotLimit`, is `MarkersInv`. The
run checks the refinement on its instance instead of the types, which `TypeCorrect` proves.

**AsyncBufferProofs** (`AsyncBufferAssumption`: the types of the constants): `TypeCorrect`,
`OpenIsRegistered` (`OpenBufferRegistered`), `FIFO` (`BufferFIFO`) and `OnePlace` (`EntryAccounted`),
which are all safety properties that the run `async_buffer` checks. The invariant `AsyncInv` adds to
them where the goroutines can be at the same time (`Control`): a closed buffer has passed
`closeAndDrain`, and an open one is not yet there. It also says that a snapshot is swapped in only when
the previous one is written, and that a buffer holds items of calls that have returned (`Contents`).
The order rests on facts about `FlattenSeq`: how the items of a stack change when a node is pushed,
extended or taken (`FlatSnoc`, `MergeTop`, `FlatCons`), and that what one buffer writes does not
count for another (`FlatPiecesConcat`). `OnePlace` holds at any time of the drain and of the idle exit:
a call that has returned has its entry in one buffer, or in `lost` and in none.

**ReconciliationProofs** (`ReconciliationAssumption`: the types of the constants): the action
properties `IdentityNeverChanges` (`IdentityStable`) and `CommitAfterLog` (`CommitIsLogged`),
`CacheCorrect` (`CacheConsistent`), `PostsOnce` (`PostedOnce`), and `Refinement`, that Reconciliation
implements Ledger (`ImplementsLedger`). The invariant `RInv` follows the plan of an account from the replay to the
commit: a replay that has passed i transactions has their running total, less fee shares of headers
it could not read (`ReplayOK`); a planned balance is the stored one plus the effect of the range and
a planned identity the stored one, through pages and pre-created accounts that come in between
(`PlansRight`, `PlansIdentity`); no tagged account is forgotten; the batch of this call is the last
in the log (`BatchLogged`). With it each step maps to a step of Ledger or leaves it alone
(`LedgerStep`). The cache is apart: `CacheOK`, that the list holds each key once, is kept by `Get`
and `Put`.

**ExchangeProofs** (`ExchangeAssumption`: an interval and two delays fit into `StreamDeadline`, a
delay into `RequestDeadline`): `ResponseIsGenuine` (`ResponseIsTheHandlers`) and `HeartbeatsSuffice`
(`NoSpuriousTimeout`). The invariant has where client, handler and heartbeat goroutine can be at
the same time (`Stages`), that every frame but a heartbeat is the handler's reply, whatever a
buffered reader drops (`RepliesOnly`), and a bound in time: on the envelope wire the next frame
arrives before the read deadline, unless the client waits for the rest of a torn one (`DeadlineAhead`).
On the bare wire a response is alone in its stream and no frame is torn (`BareWhole`), which is why
only the envelope wire can garble one.

**AccountUploadProofs** (`AccountUploadAssumption`): `DiffIsComplete` (`DiffSeesWholeUpload`) and
`SuccessIsReal` (`SuccessIsAnswered`). The invariant says that every stage of the pipeline holds
batches the producer has read and reports nil only when the producer did (`PipelineOK`), that the
merged batches, the chunks on the wire, those in the channel and the next one to be emitted follow
each other until something is lost (`ChunksOK`), and that a good End is written, sent and believed
only after the diff (`AnswersOK`).

**BlockSyncProofs** begins with the operators (`BisectionAssumption`, `BatchingAssumption`: divisors
and batch sizes of at least one). `BisectionCovers`: the tag of `dataBisect` names each block once and
holds every block on which two chains differ, within the ranges of the two trees, for any chains,
leaf size, thresholds and lost sub-tree requests. The argument is one predicate on the state of the
loop, kept by every layer (`Covering`): tagged and open ranges are disjoint and hold all differences.
`HeaderBatches`, `DataBatches`: the batches of a tag ask for exactly its blocks, each in one batch if
the tag names each once, and a data batch holds at most `MaxData`. A header batch has no such bound:
`buildBatches` keeps a range whole.

Then come all safety properties that the run `block_sync` checks, from these and
`BlockSyncAssumption` (finite nonempty chains, heights below the wrap-around, PoTS tags that name each
block once; `GapTagUsable` below proves this of the tags PoTS answers with).

* `LogFirst` (`StoredIsLogged`): what is about to be stored is logged.
* `GivesUpLast` (`FailureIsLastResort`) from `PoolInv`: a fetching worker's count of tries is fixed
  by its position in the peers and its attempt.
* `BatchesPartition` (`BatchesPartitionTag`) from `QueueInv`, with the theorems about the builders,
  for the tags of comparisons, full syncs, catch-ups and PoTS answers.
* `TagCovers` (`TagCoversDifference`) and `ConfirmationIsSound` (`ConfirmedHeadersMatch`) from
  `Answers`, which says what an answer to SYNC_REQUEST means: without a difference the client has
  the remote's blocks, otherwise the tag covers the difference.
* `BodiesInOrder` (`BodiesInBatchOrder`) from `OrderInv`.
* `SuccessComplete` (`SuccessIsComplete`). Its invariant accounts for every job of the pool: those
  from the first unwritten to the last taken are each in one place, with a worker, in the channel
  or in `outOfOrderBatches`, and no other job is anywhere (`Accounted`). One lemma for each way a job
  can move (`AccountTake`, `AccountSend`, `AccountBuffer`, `AccountWrite`, ...) keeps it. When all
  workers have left, the first unwritten job would have to be in `outOfOrderBatches`, where the
  drain loop would have found it.

**PoTSProofs** (`PoTSAssumption`: the types of the constants): two of the three safety properties that
the run `pots` checks, and what a tag holds.

* `NoHole` (`NoSilentHole`) from `WireInv`. The property speaks of a subscriber in its loop, but the
  server adds the stream before it answers, so blocks may precede the answer on the wire. The
  invariant therefore follows the handshake: nothing is on the wire or owed before the stream is added
  (`SilentInv`), from then on what is on the wire is what is owed (`EarlyInv`), also behind an answer
  that accepts (`GreetedInv`), and so it is when the loop begins (`LoopInv`). A subscriber that meets a block in place of the answer
  gives the stream up. That a stream the server holds belongs to a handler that has added it, and
  that later streams have not begun, are `StreamInv`, `AddedInv` and `LaterInv`.
* `IndexIsTrue` (`IndexMatchesLog`) from `IndexInv`. `Describes(l, o, i, m)` is the property as a
  predicate of a log, an order, an index and a highest block. It is kept when the log grows, when the
  entries of a flush are indexed in order behind those that are, and it holds of what `rebuildIndex`
  makes from any log; each action is one of these.
* `GapIsCovered` (the tag is the server's blocks above the highest one held) and `GapTagUsable` (`TagNamesOnce`) from `RequestInv`, which adds
  that the blocks of a request are not above the highest it names. The tag of `GenerateTagsFromMap` is
  treated for any finite set of numbers: the maximal runs cover the set, are disjoint, and the sorted
  sequence of their starts has each start once. `GapTagUsable` is the assumption BlockSync makes of PoTS
  tags, so nothing is assumed between the two modules.

Numbers and loops. The library's induction theorems cannot be instantiated, so induction over
numbers is done with the least counterexample: `LeastExists` follows from the well-foundedness of
the naturals and `UpTo` from `LeastExists`. That a recursive function over `0..n` exists and obeys
its equation is the lemma `Iterates` in BlockSyncProofs and AsyncBufferProofs (`RunningTotals` in
ReconciliationProofs).

Only model-checked: the liveness properties `SessionEndsOrJams`, `EntriesReachLog`, `WritersReturn`,
`SessionEndsAndPoolDrains`, `SubscriptionsEnd`, `UploadEnds` and `NothingLeftBehind` (the prover has no
fairness or ENABLED reasoning). Of the invariants, action properties and refinements of the passing runs, all
but `OnlyOldHolesRemain` are proved.

## Abstractions and omissions

* AccountDispatcher: `collectAll` (the full-sync path, one producer that does not flush its rest on
  cancellation), the failure to spawn a parent, the child pool inside a batch and page numbers are
  left out; `FetchAccounts` returns an account for each nonce; the parents' context ends with the
  session's.
* WAL: a corrupt
  metadata file keeps the WAL from opening, as in the code; nothing recovers it.
* AsyncBuffer: the WAL under the buffers accepts every entry until it is closed; its failures are
  WAL's.
* BlockSync: a WAL append and its flush are one step; checkpoints, whose errors are only logged,
  are left out, and so are tokens and re-authentication, except that any peer may confirm first.
  CatchUp's own PoTS phase never reaches its gap fetch, because it reads the PoTS WAL with limit 0;
  the entry `gap` is an application that passes a PoTS answer's tag to HeaderSync.
* Bisection: the hash of a block is its number, so two headers of one height that differ are a
  missing one; errors that end the whole comparison are failures of the request.
* Reconciliation: addresses are model values, their normalisation to lower-case hex included;
  `SyncVars.WAL` is set; a commit is one database transaction, which is external.
* PoTS: a flush of the WAL is all or nothing (WAL has the partial ones); the version of a block
  stands for its hash; the producing node is external.
* AccountUpload: a chunk is its batch index; checksum, decoding and merge fail or succeed. At most
  one unread heartbeat is kept.
* Exchange: what a router answers is an answer or a refusal (bad token, database error, rate
  limit).
* Not modelled: SYNC_REQUEST_V2 and the raw `SendMessage` helpers, which no phase uses; the expiry
  of tokens, kept by the application; conversions, checksums, serialisation, generated protocol
  buffers, logging and the command line, which keep no protocol state.

## Plan

1. Done: AccountDispatcher and its refinement of Delivery; WAL and its refinement of DurableLog;
   AsyncBuffer; Batching, Bisection and BlockSync; Reconciliation with the header cache and its
   refinement of Ledger; PoTS and pubsub; AccountUpload; Exchange; the proofs above.
2. CatchUp as a composition: its phases in one run, with a crash between them.

--------------------------- MODULE Reconciliation ---------------------------
(***************************************************************************)
(* Reconcile and ReconcileWithDeltas: goroutines compute the new balance   *)
(* of every tagged account in memory, missing accounts are created from    *)
(* the remote's answer, the batch goes to the WAL and is flushed, and one  *)
(* database transaction commits it.  The replay reads block headers        *)
(* through an LRU cache the goroutines share.                              *)
(* Addresses are model values; the normalisation to lower-case hex with a  *)
(* 0x prefix is what makes equality of addresses equality of accounts.     *)
(* SyncVars.WAL is set: without one the WAL steps are skipped.             *)
(***************************************************************************)
EXTENDS Integers, Sequences, FiniteSets, FiniteSetsExt, SequencesExt

CONSTANTS
  Accounts,
  Tagged,        \* the accounts DataSync tagged, or the keys of the deltas
  Txs,           \* per account, its transactions of [fromBlock, toBlock], as sender or receiver
  Headers,       \* the block headers: coinbase and zkvm address of each block
  InitialDB,     \* per account, a record or NoAccount
  RemoteNonce,   \* the identity nonce of each account at the remote, 0 where it has none
  Entries,       \* the calls made: "Reconcile", "ReconcileWithDeltas"
  Routines,      \* ATMOST_ACCOUNT_ROUTINES
  Capacity,      \* LRU_CACHE_CAPACITY
  MaxSessions,   \* bound: calls made
  Faults,        \* "compute", "header", "remote", "create", "wal", "commit", "crash", "page"
  NoAccount, Nil

Account == [balance : Int, nonce : Nat]
Planned == [balance : Int, nonce : Nat, isNew : BOOLEAN]   \* AccountUpdate

\* DBTransaction: amounts are unsigned; an address, a price or a value may be missing.
Transaction ==
  [from : Accounts \cup {Nil}, to : Accounts \cup {Nil}, type : Nat, nonce : Nat, gasLimit : Nat,
   value : Nat \cup {Nil}, gasPrice : Nat \cup {Nil}, maxFee : Nat \cup {Nil},
   maxPriorityFee : Nat \cup {Nil}, block : DOMAIN Headers]

ASSUME ReconciliationAssumption ==
  /\ Tagged \subseteq Accounts
  /\ Capacity \in Nat \ {0}
  /\ Txs \in [Accounts -> Seq(Transaction)]
  /\ InitialDB \in [Accounts -> Account \cup {NoAccount}]
  /\ RemoteNonce \in [Accounts -> Nat]
  /\ NoAccount \notin Account /\ Nil \notin Planned /\ Nil \notin [Tagged -> Int]

VARIABLES
  db,            \* the account table: balance and identity nonce
  buffer, log,   \* the WAL's reconciliation batches in memory and on disk
  pc, entry,     \* the calling goroutine, and which call it is in
  task,          \* per computing goroutine: accounts to do, the account, its next transaction
  lru,           \* the header cache: list from head to tail, keys of the map, current_capacity
  updates,       \* the planned AccountUpdate of each account, Nil before it is computed
  failed,        \* failedAccounts
  fetched,       \* accounts of the remote's answer not yet looked at
  result, session,
  posted, again  \* history: the commits made; whether a call followed a success or a crash

vars == <<db, buffer, log, pc, entry, task, lru, updates, failed, fetched, result, session, posted, again>>

-----------------------------------------------------------------------------
(* The replay of transactions.                                             *)

NotNegative(n) == IF n < 0 THEN 0 ELSE n

\* calculateGasCostFromTx: the limit times the price of the transaction's type; 0 for an
\* unknown type and for a price that is not set.
GasCost(tx) ==
  LET price == CASE tx.type = 0          -> tx.gasPrice
                 [] tx.type \in {1, 2}   -> IF tx.maxFee # Nil THEN tx.maxFee ELSE tx.maxPriorityFee
                 [] OTHER                -> Nil
  IN IF tx.gasLimit = 0 \/ price = Nil THEN 0 ELSE tx.gasLimit * price

\* The coinbase gets the odd unit of a halved fee.  Without a header nobody gets a share.
FeeShare(a, tx, header) ==
  IF header = Nil THEN 0
  ELSE   (IF header.coinbase = a THEN (GasCost(tx) \div 2) + (GasCost(tx) % 2) ELSE 0)
       + (IF header.zkvm = a THEN GasCost(tx) \div 2 ELSE 0)

\* The roles of an account in one transaction: sender, receiver, coinbase, zkvm.
TxEffect(a, tx, header) ==
  LET value == IF tx.value # Nil /\ tx.value > 0 THEN tx.value ELSE 0
  IN   (IF tx.to = a THEN value ELSE 0) - (IF tx.from = a THEN GasCost(tx) + value ELSE 0)
     + FeeShare(a, tx, header)

\* The totals of the first 0, 1, 2, ... of a sequence of amounts.
Running(s) ==
  LET sum[n \in 0..Len(s)] == IF n = 0 THEN 0 ELSE sum[n - 1] + s[n]
  IN sum

\* What each of an account's transactions does to it, and the fee share in that.
EffectsOf(a) == [i \in 1..Len(Txs[a]) |-> TxEffect(a, Txs[a][i], Headers[Txs[a][i].block])]
SharesOf(a)  == [i \in 1..Len(Txs[a]) |-> FeeShare(a, Txs[a][i], Headers[Txs[a][i].block])]

Effects   == [a \in Accounts |-> Running(EffectsOf(a))[Len(Txs[a])]]
FeeShares == [a \in Accounts |-> Running(SharesOf(a))[Len(Txs[a])]]

-----------------------------------------------------------------------------
(* The LRU cache.  A cached header is its block number: headers do not     *)
(* change during a session.                                                *)

NewLRUCache == [list |-> <<>>, keys |-> {}, size |-> 0]

\* removeFromLinkedList: the map knows the node of a key.
Unlink(list, b) == RemoveAt(list, CHOOSE i \in 1..Len(list) : list[i] = b)

\* moveToHead.
CacheGet(c, b) == [c EXCEPT !.list = <<b>> \o Unlink(@, b)]

\* Put, without the first decrement.
CachePutCountsTwice(c, b) ==
  LET full   == c.size >= Capacity /\ c.list # <<>>
      rest   == Remove(IF full THEN Front(c.list) ELSE c.list, b)
      keys   == IF full THEN c.keys \ {Last(c.list)} ELSE c.keys
  IN [list |-> <<b>> \o rest, keys |-> keys \cup {b}, size |-> c.size + (IF full THEN 0 ELSE 1)]

\* Put: an existing key leaves the list first, a full cache drops its tail.
CachePut(c, b) ==
  LET out  == IF b \in c.keys THEN [c EXCEPT !.list = Unlink(@, b), !.size = @ - 1] ELSE c
      kept == IF out.size >= Capacity /\ out.list # <<>>
              THEN [list |-> Front(out.list), keys |-> out.keys \ {Last(out.list)}, size |-> out.size - 1]
              ELSE out
  IN [list |-> <<b>> \o kept.list, keys |-> kept.keys \cup {b}, size |-> kept.size + 1]

-----------------------------------------------------------------------------
(* Phase 1: the computation, no database writes.                           *)

Ceil(n, d) == (n + d - 1) \div d
BatchSize == LET n == Cardinality(Tagged) IN Ceil(n, Min({n, Routines}))
Goroutines == IF Tagged = {} THEN {} ELSE 1..Ceil(Cardinality(Tagged), BatchSize)

\* SplitIntoBatches, over a map's arbitrary order: every batch but the last is full.
Batches ==
  {b \in [Goroutines -> SUBSET Tagged] :
     /\ UNION Range(b) = Tagged
     /\ \A g \in Goroutines : Cardinality(b[g]) = IF g < Max(Goroutines) THEN BatchSize
                                                  ELSE Cardinality(Tagged) - (g - 1) * BatchSize}

Resting(todo) == [todo |-> todo, pc |-> "next", acct |-> Nil, i |-> 1, delta |-> 0]

Init ==
  /\ db = InitialDB /\ buffer = <<>> /\ log = <<>>
  /\ pc = "idle" /\ entry = "Reconcile" /\ task = [g \in Goroutines |-> Resting({})]
  /\ lru = NewLRUCache /\ updates = [a \in Tagged |-> Nil] /\ failed = {} /\ fetched = {}
  /\ result = "idle" /\ session = 0 /\ posted = 0 /\ again = FALSE

\* A call, the first one or a repetition: after an error, after a crash, or of a call that
\* answered well.  Nothing tagged is success at once.  The header cache stays filled.
Start(e) ==
  /\ pc = "idle" /\ session < MaxSessions
  /\ session' = session + 1 /\ entry' = e /\ again' = (again \/ result \in {"ok", "crashed"})
  /\ updates' = [a \in Tagged |-> Nil] /\ failed' = {} /\ fetched' = {}
  /\ IF Tagged = {} THEN pc' = "idle" /\ result' = "ok" /\ UNCHANGED task
     ELSE /\ pc' = "compute" /\ result' = "idle"
          /\ \E b \in Batches : task' = [g \in Goroutines |-> Resting(b[g])]
  /\ UNCHANGED <<db, buffer, log, lru, posted>>

Reply(g, a) == task' = [task EXCEPT ![g] = Resting(@.todo \ {a})]

\* The next account of a batch.  Reconcile reads its transactions, which may fail;
\* ReconcileWithDeltas has its net effect already.
TakeAccount(g) ==
  /\ pc = "compute" /\ task[g].pc = "next"
  /\ \E a \in task[g].todo :
       \/ /\ task' = [task EXCEPT ![g].acct = a, ![g].pc = "replay",
                        ![g].delta = IF entry = "Reconcile" THEN 0 ELSE Effects[a],
                        ![g].i = IF entry = "Reconcile" THEN 1 ELSE Len(Txs[a]) + 1]
          /\ UNCHANGED failed
       \/ /\ "compute" \in Faults /\ entry = "Reconcile"
          /\ failed' = failed \cup {a} /\ Reply(g, a)
  /\ UNCHANGED <<db, buffer, log, pc, entry, lru, updates, fetched, result, session, posted, again>>

Tx(g) == Txs[task[g].acct][task[g].i]
Replayed(g) == task[g].i > Len(Txs[task[g].acct])
Credit(g, header) ==
  task' = [task EXCEPT ![g].pc = "replay", ![g].i = @ + 1,
                       ![g].delta = @ + TxEffect(task[g].acct, Tx(g), header)]

\* calculateAccountState, one transaction: GetBlockFromLRUCache finds the header cached...
LookUp(g) ==
  /\ pc = "compute" /\ task[g].pc = "replay" /\ ~Replayed(g)
  /\ IF Tx(g).block \in lru.keys
     THEN lru' = CacheGet(lru, Tx(g).block) /\ Credit(g, Headers[Tx(g).block])
     ELSE task' = [task EXCEPT ![g].pc = "miss"] /\ UNCHANGED lru
  /\ UNCHANGED <<db, buffer, log, pc, entry, updates, failed, fetched, result, session, posted, again>>

\* ... or reads it from the database and caches it; a failed read counts as no header.
ReadHeader(g) ==
  /\ pc = "compute" /\ task[g].pc = "miss"
  /\ \/ lru' = CachePut(lru, Tx(g).block) /\ Credit(g, Headers[Tx(g).block])
     \/ "header" \in Faults /\ Credit(g, Nil) /\ UNCHANGED lru
  /\ UNCHANGED <<db, buffer, log, pc, entry, updates, failed, fetched, result, session, posted, again>>

\* The update of the historical fault: the highest outgoing transaction nonce as identity.
UpdateWithTxNonce(a, delta) ==
  LET sent == {tx.nonce : tx \in {t \in Range(Txs[a]) : t.from = a}}
  IN [balance |-> NotNegative((IF db[a] = NoAccount THEN 0 ELSE db[a].balance) + delta),
      nonce   |-> Max(sent \cup {0}), isNew |-> db[a] = NoAccount]

\* The rest of computeAccountUpdate, and computeUpdateFromDelta: the stored balance plus
\* the net effect, the stored identity unchanged, 0 for an account not held.
Update(a, delta) ==
  [balance |-> NotNegative((IF db[a] = NoAccount THEN 0 ELSE db[a].balance) + delta),
   nonce   |-> IF db[a] = NoAccount THEN 0 ELSE db[a].nonce,
   isNew   |-> db[a] = NoAccount]

PlanUpdate(g) ==
  /\ pc = "compute" /\ task[g].pc = "replay" /\ Replayed(g)
  /\ LET a == task[g].acct
     IN /\ \/ updates' = [updates EXCEPT ![a] = Update(a, task[g].delta)] /\ UNCHANGED failed
           \/ "compute" \in Faults /\ failed' = failed \cup {a} /\ UNCHANGED updates
        /\ Reply(g, a)
  /\ UNCHANGED <<db, buffer, log, pc, entry, lru, fetched, result, session, posted, again>>

-----------------------------------------------------------------------------
(* Phases 1.5, 2 and 3.                                                    *)

Missing == {a \in Tagged : updates[a].isNew}
Return(r) == pc' = "idle" /\ result' = r

\* Collect, committing the accounts that did not fail.
CollectPartial ==
  /\ pc = "compute" /\ \A g \in Goroutines : task[g] = Resting({})
  /\ updates' = [a \in Tagged |-> IF a \in failed THEN Update(a, 0) ELSE updates[a]]
  /\ pc' = "log"
  /\ UNCHANGED <<db, buffer, log, entry, task, lru, failed, fetched, result, session, posted, again>>

\* All results are in: any failed account aborts the call.
Collect ==
  /\ pc = "compute" /\ \A g \in Goroutines : task[g] = Resting({})
  /\ IF failed # {} THEN Return("error")
     ELSE pc' = (IF Missing # {} THEN "fetch" ELSE "log") /\ UNCHANGED result
  /\ UNCHANGED <<db, buffer, log, entry, task, lru, updates, failed, fetched, session, posted, again>>

\* Phase 1.5: FetchAccounts asks for the missing accounts.  The server skips those it
\* does not have and those whose lookup fails; a failed request is only logged.
FetchAccounts ==
  /\ pc = "fetch"
  /\ \/ /\ \E found \in SUBSET {a \in Missing : RemoteNonce[a] # 0} : fetched' = found
        /\ pc' = "create"
     \/ "remote" \in Faults /\ pc' = "log" /\ UNCHANGED fetched
  /\ UNCHANGED <<db, buffer, log, entry, task, lru, updates, failed, result, session, posted, again>>

\* CreateAccount is idempotent.
Created(a) == IF db[a] = NoAccount THEN [balance |-> 0, nonce |-> RemoteNonce[a]] ELSE db[a]

PreCreate ==
  /\ pc = "create"
  /\ IF fetched = {} THEN pc' = "log" /\ UNCHANGED <<db, updates, fetched>>
     ELSE \E a \in fetched :
            /\ fetched' = fetched \ {a} /\ UNCHANGED pc
            /\ \/ db' = [db EXCEPT ![a] = Created(a)] /\ updates' = [updates EXCEPT ![a].isNew = FALSE]
               \/ "create" \in Faults /\ UNCHANGED <<db, updates>>
  /\ UNCHANGED <<buffer, log, entry, task, lru, failed, result, session, posted, again>>

\* Phase 2: one batch event with the new balance of every account...
WriteEvent ==
  /\ pc = "log"
  /\ \/ buffer' = Append(buffer, [a \in Tagged |-> updates[a].balance]) /\ pc' = "flush" /\ UNCHANGED result
     \/ "wal" \in Faults /\ Return("error") /\ UNCHANGED buffer
  /\ UNCHANGED <<db, log, entry, task, lru, updates, failed, fetched, session, posted, again>>

FlushErrorIgnored ==
  /\ pc = "flush" /\ pc' = "commit"
  /\ \/ log' = log \o buffer /\ buffer' = <<>>
     \/ "wal" \in Faults /\ UNCHANGED <<log, buffer>>
  /\ UNCHANGED <<db, entry, task, lru, updates, failed, fetched, result, session, posted, again>>

\* ... and its flush.  A failed flush leaves the event in the WAL's buffer.
Flush ==
  /\ pc = "flush"
  /\ \/ log' = log \o buffer /\ buffer' = <<>> /\ pc' = "commit" /\ UNCHANGED result
     \/ "wal" \in Faults /\ Return("error") /\ UNCHANGED <<log, buffer>>
  /\ UNCHANGED <<db, entry, task, lru, updates, failed, fetched, session, posted, again>>

\* BatchUpdateAccounts, all or none, writes a record for each update; an update without
\* identity keeps the stored one.
Applied(old, u) ==
  [balance |-> u.balance,
   nonce   |-> IF u.nonce # 0 THEN u.nonce ELSE IF old = NoAccount THEN 0 ELSE old.nonce]

\* The creations of accounts that exist by now: a page came after the update was planned.
\* (Accounts are never deleted, so an account to be updated exists.)
Late == {a \in Tagged : updates[a] # Nil /\ updates[a].isNew /\ db[a] # NoAccount}

\* Phase 3.  Where CreateAccount finds a record it may keep it, being idempotent, write
\* over it, or refuse, and the whole batch with it.
Commit ==
  /\ pc = "commit"
  /\ \/ \E kept \in SUBSET Late :
          /\ db' = [a \in Accounts |-> IF a \in Tagged \ kept THEN Applied(db[a], updates[a]) ELSE db[a]]
          /\ posted' = posted + 1 /\ pc' = "checkpoint" /\ UNCHANGED result
     \/ ("commit" \in Faults \/ Late # {}) /\ Return("error") /\ UNCHANGED <<db, posted>>
  /\ UNCHANGED <<buffer, log, entry, task, lru, updates, failed, fetched, session, again>>

\* A failed checkpoint reported as a failed call.
CheckpointErrorReturned ==
  /\ pc = "checkpoint" /\ (Return("ok") \/ ("wal" \in Faults /\ Return("error")))
  /\ UNCHANGED <<db, buffer, log, entry, task, lru, updates, failed, fetched, session, posted, again>>

\* A failed checkpoint is only logged.
Checkpoint ==
  /\ pc = "checkpoint" /\ Return("ok")
  /\ UNCHANGED <<db, buffer, log, entry, task, lru, updates, failed, fetched, session, posted, again>>

-----------------------------------------------------------------------------
(* The environment.                                                        *)

\* A late page of AccountSync, persisted by its stream handler: a new account, balance 0.
AccountPage(a) ==
  /\ "page" \in Faults /\ db[a] = NoAccount /\ RemoteNonce[a] # 0
  /\ db' = [db EXCEPT ![a] = Created(a)]
  /\ UNCHANGED <<buffer, log, pc, entry, task, lru, updates, failed, fetched, result, session, posted, again>>

\* The process stops and the node starts again: the table and the flushed log survive.
Crash ==
  /\ "crash" \in Faults /\ pc # "idle"
  /\ pc' = "idle" /\ result' = "crashed" /\ buffer' = <<>>
  /\ task' = [g \in Goroutines |-> Resting({})] /\ lru' = NewLRUCache
  /\ UNCHANGED <<db, log, entry, updates, failed, fetched, session, posted, again>>

Compute(g) == TakeAccount(g) \/ LookUp(g) \/ ReadHeader(g) \/ PlanUpdate(g)
Call == \/ \E g \in Goroutines : Compute(g)
        \/ Collect \/ FetchAccounts \/ PreCreate \/ WriteEvent \/ Flush \/ Commit \/ Checkpoint
Next == \/ \E e \in Entries : Start(e)
        \/ Call
        \/ \E a \in Accounts : AccountPage(a)
        \/ Crash

Spec == Init /\ [][Next]_vars

-----------------------------------------------------------------------------
(* Properties.                                                             *)

\* The cache's map, list and counter agree and stay within the capacity, whatever lookups
\* the goroutines interleave: a block two of them missed is cached and counted once.
CacheConsistent ==
  /\ Range(lru.list) = lru.keys
  /\ lru.size = Len(lru.list) /\ lru.size = Cardinality(lru.keys) /\ lru.size <= Capacity

\* An account's identity nonce, the key of AccountSync's diff, is never changed once it is
\* known: not by a commit of an update planned before the account was known, not by a retry.
IdentityStable ==
  [][\A a \in Accounts : db[a] # NoAccount /\ db[a].nonce # 0
                           => db'[a] # NoAccount /\ db'[a].nonce = db[a].nonce]_vars

\* The balance of an account; one that is not held has none.
Balance(a) == IF db[a] = NoAccount THEN 0 ELSE db[a].balance

\* HydrateReconciliation: the last batch of the log.
Hydrated == IF log = <<>> THEN Nil ELSE Last(log)

\* A balance changes only when the last batch on disk, the one the hydrator will find,
\* already has the new one, also after failed flushes, crashes and retries.
CommitIsLogged ==
  [][\A a \in Accounts : Balance(a)' # Balance(a)
       => a \in Tagged /\ Hydrated # Nil /\ Hydrated[a] = Balance(a)']_vars

\* A caller that repeats a call only after an error posts its range once: an error means
\* that nothing was posted, by this call or an earlier one, and success that the range was
\* posted by exactly one of them.  (After a crash nobody knows, and a call repeated after a
\* success posts the range again.)
PostedOnce ==
  ~again => /\ posted <= 1
            /\ result = "error" => posted = 0
            /\ result = "ok" /\ Tagged # {} => posted = 1

\* A reconciliation implements the ledger: it posts the effect of its range to all tagged
\* accounts at once or reports an error with every balance as it was; accounts registered
\* on the way stay, and only one that a page registered meanwhile can miss its effect.
AsLedger == INSTANCE Ledger WITH
  Opening   <- [a \in Accounts |-> IF InitialDB[a] = NoAccount THEN 0 ELSE InitialDB[a].balance],
  Held      <- {a \in Accounts : InitialDB[a] # NoAccount},
  Effect    <- Effects,
  balance   <- [a \in Accounts |-> Balance(a)],
  held      <- {a \in Accounts : db[a] # NoAccount},
  late      <- IF pc \in {"idle", "checkpoint"} THEN {} ELSE Late,
  state     <- IF pc = "idle" THEN result
               ELSE IF pc = "checkpoint" THEN "applied" ELSE "running"
ImplementsLedger == AsLedger!Spec
=============================================================================

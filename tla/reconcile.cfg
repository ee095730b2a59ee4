SPECIFICATION Spec
CONSTANTS
  a1 = a1
  a2 = a2
  a3 = a3
  NoAccount = NoAccount
  Nil = Nil
  Accounts = {a1, a2, a3}
  Tagged = {a1, a2, a3}
  Txs <- TransactionsOf
  Headers <- ThreeHeaders
  InitialDB <- Table
  RemoteNonce <- Identities
  Entries = {"Reconcile", "ReconcileWithDeltas"}
  Routines = 2
  Capacity = 2
  MaxSessions = 2
  Faults = {"compute", "header", "remote", "create", "wal", "commit", "crash", "page"}
INVARIANT CacheConsistent
INVARIANT PostedOnce
PROPERTY IdentityStable
PROPERTY CommitIsLogged
PROPERTY ImplementsLedger
CHECK_DEADLOCK FALSE

------------------------- MODULE ReconciliationProofs -------------------------
(***************************************************************************)
(* What a reconciliation does to the account table, whatever the accounts, *)
(* their transactions, the number of goroutines, the capacity of the       *)
(* header cache and the number of calls, and whatever fails.               *)
(***************************************************************************)
EXTENDS Reconciliation, SequenceTheorems, FiniteSetTheorems, WellFoundedInduction, TLAPS

Phases == {"fetch", "create", "log", "flush", "commit"}   \* after the computation
Task   == [todo : SUBSET Tagged, pc : {"next", "replay", "miss"}, acct : Accounts \cup {Nil},
           i : Nat, delta : Int]

\* Every variable the proofs depend on has its type.
RTypeOK ==
  /\ db \in [Accounts -> Account \cup {NoAccount}]
  /\ buffer \in Seq([Tagged -> Int]) /\ log \in Seq([Tagged -> Int])
  /\ pc \in {"idle", "compute", "checkpoint"} \cup Phases
  /\ task \in [Goroutines -> Task]
  /\ updates \in [Tagged -> Planned \cup {Nil}]
  /\ fetched \subseteq Tagged
  /\ result \in {"idle", "ok", "error", "crashed"}

\* The list of a cache holds each key once, and the counter counts them.
Distinct(s) == \A i, j \in 1..Len(s) : s[i] = s[j] => i = j
CacheOK(c) ==
  /\ c \in [list : Seq(DOMAIN Headers), keys : SUBSET DOMAIN Headers, size : Nat]
  /\ Distinct(c.list) /\ c.keys = Range(c.list) /\ c.size = Len(c.list)
  /\ IsFiniteSet(c.keys) /\ c.size = Cardinality(c.keys) /\ c.size <= Capacity

\* A replay that has passed i - 1 transactions has added up their effects, but for
\* fee shares of blocks whose header could not be read.
ReplayOK(a, i, delta) ==
  \E short \in 0..Running(SharesOf(a))[i - 1] : delta = Running(EffectsOf(a))[i - 1] - short

TasksOK ==
  \A g \in Goroutines :
    LET t == task[g] IN
      t.pc # "next" => /\ t.acct \in t.todo /\ t.i \in 1..Len(Txs[t.acct]) + 1
                       /\ ReplayOK(t.acct, t.i, t.delta)
                       /\ t.pc = "miss" => t.i <= Len(Txs[t.acct])

\* No tagged account is forgotten on the way to the commit.
NoneForgotten ==
  /\ pc = "compute" => \A a \in Tagged : \/ updates[a] # Nil \/ a \in failed
                                         \/ \E g \in Goroutines : a \in task[g].todo
  /\ pc \in Phases => \A a \in Tagged : updates[a] # Nil

\* A planned balance is the stored one plus the effect of the range.
PlansRight ==
  pc \in {"compute"} \cup Phases =>
    \A a \in Tagged : updates[a] # Nil =>
      \E short \in 0..FeeShares[a] :
        updates[a].balance = NotNegative(Balance(a) + Effects[a] - short)

\* A planned identity is the stored one.
PlansIdentity ==
  \A a \in Tagged : updates[a] # Nil /\ updates[a].nonce # 0 =>
    db[a] # NoAccount /\ db[a].nonce = updates[a].nonce

\* The batch of this call is the last of the buffer, then of the log.
PlannedBatch == [a \in Tagged |-> updates[a].balance]
BatchLogged ==
  /\ pc = "flush"  => buffer # <<>> /\ Last(buffer) = PlannedBatch
  /\ pc = "commit" => log # <<>> /\ Last(log) = PlannedBatch

\* The inductive invariant.
RInv ==
  /\ RTypeOK /\ TasksOK /\ NoneForgotten /\ PlansRight /\ PlansIdentity /\ BatchLogged

-----------------------------------------------------------------------------
(* Running totals.                                                         *)

\* A set of natural numbers that is not empty has a least one.
LEMMA LeastExists ==
  ASSUME NEW T \in SUBSET Nat, T # {}
  PROVE  \E x \in T : \A y \in T : x <= y
  <1> DEFINE R == {p \in Nat \X Nat : p[1] < p[2]}
  <1>1. IsWellFoundedOn(R, Nat)
    <2>1. R = OpToRel(<, Nat)
      BY DEF OpToRel
    <2> QED BY <2>1, NatLessThanWellFounded
  <1> HIDE DEF R
  <1>2. PICK x \in T : \A y \in T : ~(<<y, x>> \in R)
    BY <1>1, WFMin
  <1>3. \A y \in T : ~(y < x)
    <2> TAKE y \in T
    <2>1. x \in Nat /\ y \in Nat
      OBVIOUS
    <2>2. y < x => <<y, x>> \in R
      BY <2>1 DEF R
    <2> QED BY <1>2, <2>2
  <1> QED BY <1>3

\* What holds of 0, and of each number up to b when it holds of the one before, holds
\* up to b; the set G is where it holds.
LEMMA UpTo ==
  ASSUME NEW b \in Nat, NEW G, 0 \in G, \A n \in 1..b : n - 1 \in G => n \in G
  PROVE  \A n \in 0..b : n \in G
  <1> DEFINE Bad == {n \in 0..b : n \notin G}
  <1> SUFFICES ASSUME Bad # {} PROVE FALSE
    OBVIOUS
  <1>1. PICK x \in Bad : \A y \in Bad : x <= y
    <2>1. Bad \in SUBSET Nat
      OBVIOUS
    <2> HIDE DEF Bad
    <2> QED BY <2>1, LeastExists
  <1>2. x \in 1..b /\ x - 1 \in 0..b /\ x \notin G
    OBVIOUS
  <1>3. x - 1 \in G
    BY <1>1, <1>2
  <1> QED BY <1>2, <1>3

\* f holds the running totals of s up to n.
Totals(f, s, n) == f[0] = 0 /\ \A k \in 1..n : f[k] = f[k - 1] + s[k]

\* Running computes the running totals of a sequence of integers.
LEMMA RunningTotals ==
  ASSUME NEW s \in Seq(Int)
  PROVE  /\ Running(s)[0] = 0
         /\ \A n \in 1..Len(s) : Running(s)[n] = Running(s)[n - 1] + s[n]
         /\ \A n \in 0..Len(s) : Running(s)[n] \in Int
  <1> DEFINE Rec(f) == [n \in 0..Len(s) |-> IF n = 0 THEN 0 ELSE f[n - 1] + s[n]]
  <1> DEFINE G == {n \in 0..Len(s) : \E f \in [0..n -> Int] : Totals(f, s, n)}
  <1>1. Len(s) \in Nat /\ \A i \in 1..Len(s) : s[i] \in Int
    OBVIOUS
  <1>2. 0 \in G
    <2>1. [k \in 0..0 |-> 0] \in [0..0 -> Int] /\ Totals([k \in 0..0 |-> 0], s, 0)
      BY DEF Totals
    <2> QED BY <1>1, <2>1
  <1>3. ASSUME NEW n \in 1..Len(s), n - 1 \in G PROVE n \in G
    <2>1. PICK f \in [0..n - 1 -> Int] : Totals(f, s, n - 1)
      BY <1>3
    <2> DEFINE h == [k \in 0..n |-> IF k < n THEN f[k] ELSE f[n - 1] + s[n]]
    <2>2. h \in [0..n -> Int]
      BY <1>1
    <2>3. Totals(h, s, n)
      BY <1>1, <2>1 DEF Totals
    <2> HIDE DEF h
    <2> QED BY <1>1, <2>2, <2>3
  <1>4. Len(s) \in G
    <2>1. \A n \in 1..Len(s) : n - 1 \in G => n \in G
      BY <1>3
    <2> HIDE DEF G
    <2>2. \A n \in 0..Len(s) : n \in G
      BY <1>1, <1>2, <2>1, UpTo
    <2> QED BY <1>1, <2>2
  <1>5. PICK f \in [0..Len(s) -> Int] : Totals(f, s, Len(s))
    BY <1>4
  <1>6. f = Rec(f)
    BY <1>1, <1>5 DEF Totals
  <1>7. Running(s) = Rec(Running(s))
    <2>1. Running(s) = CHOOSE g : g = Rec(g)
      BY DEF Running
    <2> HIDE DEF Rec
    <2> QED BY <1>6, <2>1
  <1>8. /\ Running(s)[0] = 0
        /\ \A n \in 1..Len(s) : Running(s)[n] = Running(s)[n - 1] + s[n]
    <2>1. \A g : g = Rec(g) => g[0] = 0 /\ \A n \in 1..Len(s) : g[n] = g[n - 1] + s[n]
      BY <1>1
    <2> HIDE DEF Rec
    <2> QED BY <1>7, <2>1
  <1> DEFINE H == {n \in 0..Len(s) : Running(s)[n] \in Int}
  <1>9. 0 \in H /\ \A n \in 1..Len(s) : n - 1 \in H => n \in H
    BY <1>1, <1>8
  <1>10. \A n \in 0..Len(s) : n \in H
    <2> HIDE DEF H
    <2> QED BY <1>1, <1>9, UpTo
  <1> QED BY <1>8, <1>10

\* Running totals of a sequence of amounts that are not negative are not negative.
LEMMA RunningNat ==
  ASSUME NEW s \in Seq(Int), \A i \in 1..Len(s) : s[i] >= 0
  PROVE  \A n \in 0..Len(s) : Running(s)[n] \in Nat
  <1> DEFINE H == {n \in 0..Len(s) : Running(s)[n] \in Nat}
  <1>1. Len(s) \in Nat /\ \A i \in 1..Len(s) : s[i] \in Int
    OBVIOUS
  <1>2. 0 \in H /\ \A n \in 1..Len(s) : n - 1 \in H => n \in H
    <2>1. /\ Running(s)[0] = 0
          /\ \A n \in 1..Len(s) : Running(s)[n] = Running(s)[n - 1] + s[n]
      BY RunningTotals
    <2>2. Running(s)[0] \in Nat
      BY <2>1
    <2>3. \A n \in 1..Len(s) : Running(s)[n - 1] \in Nat => Running(s)[n] \in Nat
      BY <1>1, <2>1
    <2> QED BY <1>1, <2>2, <2>3
  <1> HIDE DEF H
  <1>3. \A n \in 0..Len(s) : n \in H
    BY <1>1, <1>2, UpTo
  <1> QED BY <1>3 DEF H

\* Gas costs and fee shares are not negative.
LEMMA GasCostType ==
  ASSUME NEW tx \in Transaction
  PROVE  GasCost(tx) \in Nat
  <1>1. /\ tx.gasLimit \in Nat /\ tx.gasPrice \in Nat \cup {Nil}
        /\ tx.maxFee \in Nat \cup {Nil} /\ tx.maxPriorityFee \in Nat \cup {Nil}
    BY DEF Transaction
  <1> DEFINE price == CASE tx.type = 0          -> tx.gasPrice
                        [] tx.type \in {1, 2}   -> IF tx.maxFee # Nil THEN tx.maxFee ELSE tx.maxPriorityFee
                        [] OTHER                -> Nil
  <1>2. price \in Nat \cup {Nil}
    BY <1>1
  <1>3. GasCost(tx) = IF tx.gasLimit = 0 \/ price = Nil THEN 0 ELSE tx.gasLimit * price
    BY DEF GasCost
  <1> HIDE DEF price
  <1> QED BY <1>1, <1>2, <1>3

LEMMA FeeShareType ==
  ASSUME NEW tx \in Transaction, NEW a, NEW h
  PROVE  FeeShare(a, tx, h) \in Nat
  <1>1. GasCost(tx) \div 2 \in Nat /\ GasCost(tx) % 2 \in Nat
    BY GasCostType
  <1> QED BY <1>1 DEF FeeShare

\* A header that could not be read costs the account its fee share and nothing else.
LEMMA EffectWithoutHeader ==
  ASSUME NEW tx \in Transaction, NEW a, NEW h
  PROVE  /\ TxEffect(a, tx, h) \in Int
         /\ TxEffect(a, tx, Nil) = TxEffect(a, tx, h) - FeeShare(a, tx, h)
  <1> DEFINE value == IF tx.value # Nil /\ tx.value > 0 THEN tx.value ELSE 0
  <1> DEFINE moved == (IF tx.to = a THEN value ELSE 0) - (IF tx.from = a THEN GasCost(tx) + value ELSE 0)
  <1>1. value \in Nat
    BY DEF Transaction
  <1>2. moved \in Int
    <2> HIDE DEF value
    <2> QED BY <1>1, GasCostType
  <1>3. TxEffect(a, tx, h) = moved + FeeShare(a, tx, h) /\ TxEffect(a, tx, Nil) = moved + FeeShare(a, tx, Nil)
    BY DEF TxEffect
  <1>4. FeeShare(a, tx, Nil) = 0
    BY DEF FeeShare
  <1> HIDE DEF moved
  <1> QED BY <1>2, <1>3, <1>4, FeeShareType

\* The effects of an account's transactions are integers, the shares not negative.
LEMMA EffectsType ==
  ASSUME NEW a \in Accounts
  PROVE  /\ Len(Txs[a]) \in Nat
         /\ EffectsOf(a) \in Seq(Int) /\ Len(EffectsOf(a)) = Len(Txs[a])
         /\ SharesOf(a) \in Seq(Int) /\ Len(SharesOf(a)) = Len(Txs[a])
         /\ \A n \in 0..Len(Txs[a]) : Running(SharesOf(a))[n] \in Nat
         /\ \A n \in 0..Len(Txs[a]) : Running(EffectsOf(a))[n] \in Int
  <1>1. Txs[a] \in Seq(Transaction)
    BY ReconciliationAssumption
  <1>2. Len(Txs[a]) \in Nat /\ \A i \in 1..Len(Txs[a]) : Txs[a][i] \in Transaction
    BY <1>1
  <1>3. /\ EffectsOf(a) \in [1..Len(Txs[a]) -> Int]
        /\ SharesOf(a) \in [1..Len(Txs[a]) -> Nat]
    BY <1>2, EffectWithoutHeader, FeeShareType DEF EffectsOf, SharesOf
  <1>4. /\ EffectsOf(a) \in Seq(Int) /\ Len(EffectsOf(a)) = Len(Txs[a])
        /\ SharesOf(a) \in Seq(Int) /\ Len(SharesOf(a)) = Len(Txs[a])
    BY <1>2, <1>3
  <1>5. \A i \in 1..Len(SharesOf(a)) : SharesOf(a)[i] >= 0
    BY <1>3, <1>4
  <1> QED BY <1>2, <1>4, <1>5, RunningTotals, RunningNat

-----------------------------------------------------------------------------
(* The replay of one account.                                              *)

\* A replay starts at nothing; with deltas it starts, and ends, at the whole effect.
LEMMA ReplayStarts ==
  ASSUME NEW a \in Accounts
  PROVE  ReplayOK(a, 1, 0) /\ ReplayOK(a, Len(Txs[a]) + 1, Effects[a])
  <1>1. Running(SharesOf(a))[0] = 0 /\ Running(EffectsOf(a))[0] = 0
    BY EffectsType, RunningTotals
  <1>2. ReplayOK(a, 1, 0)
    BY <1>1 DEF ReplayOK
  <1>3. /\ Effects[a] = Running(EffectsOf(a))[Len(Txs[a])] /\ Len(Txs[a]) \in Nat
        /\ Running(SharesOf(a))[Len(Txs[a])] \in Nat /\ Effects[a] \in Int
    BY EffectsType DEF Effects
  <1>4. ReplayOK(a, Len(Txs[a]) + 1, Effects[a])
    BY <1>3 DEF ReplayOK
  <1> QED BY <1>2, <1>4

\* One transaction more, with its header or without.
LEMMA ReplayContinues ==
  ASSUME NEW a \in Accounts, NEW i \in 1..Len(Txs[a]), NEW d \in Int, ReplayOK(a, i, d)
  PROVE  LET tx == Txs[a][i] IN
         /\ ReplayOK(a, i + 1, d + TxEffect(a, tx, Headers[tx.block]))
         /\ ReplayOK(a, i + 1, d + TxEffect(a, tx, Nil))
         /\ TxEffect(a, tx, Headers[tx.block]) \in Int /\ TxEffect(a, tx, Nil) \in Int
  <1> DEFINE tx == Txs[a][i]
             eff == TxEffect(a, tx, Headers[tx.block])
             fee == FeeShare(a, tx, Headers[tx.block])
  <1>1. tx \in Transaction
    BY ReconciliationAssumption
  <1>2. eff \in Int /\ fee \in Nat /\ TxEffect(a, tx, Nil) = eff - fee
    BY <1>1, EffectWithoutHeader, FeeShareType
  <1>3. EffectsOf(a)[i] = eff /\ SharesOf(a)[i] = fee
    BY DEF EffectsOf, SharesOf
  <1>4. Len(Txs[a]) \in Nat /\ i - 1 \in 0..Len(Txs[a]) /\ i \in 0..Len(Txs[a]) /\ (i + 1) - 1 = i
    BY EffectsType
  <1>5. /\ Running(EffectsOf(a))[i] = Running(EffectsOf(a))[i - 1] + eff
        /\ Running(SharesOf(a))[i] = Running(SharesOf(a))[i - 1] + fee
    BY <1>3, EffectsType, RunningTotals
  <1>6. /\ Running(EffectsOf(a))[i - 1] \in Int /\ Running(SharesOf(a))[i - 1] \in Nat
    BY <1>4, EffectsType
  <1>7. PICK short \in 0..Running(SharesOf(a))[i - 1] : d = Running(EffectsOf(a))[i - 1] - short
    BY DEF ReplayOK
  <1> HIDE DEF eff, fee, tx
  <1>8. /\ short \in 0..Running(SharesOf(a))[i] /\ d + eff = Running(EffectsOf(a))[i] - short
        /\ short + fee \in 0..Running(SharesOf(a))[i]
        /\ d + (eff - fee) = Running(EffectsOf(a))[i] - (short + fee)
    <2> DEFINE R0 == Running(SharesOf(a))[i - 1]
               R1 == Running(SharesOf(a))[i]
               E0 == Running(EffectsOf(a))[i - 1]
               E1 == Running(EffectsOf(a))[i]
    <2>1. R0 \in Nat /\ E0 \in Int /\ R1 = R0 + fee /\ E1 = E0 + eff /\ short \in 0..R0 /\ d = E0 - short
      BY <1>5, <1>6, <1>7
    <2> HIDE DEF R0, R1, E0, E1
    <2>2. /\ short \in 0..R1 /\ d + eff = E1 - short
          /\ short + fee \in 0..R1 /\ d + (eff - fee) = E1 - (short + fee)
      BY <1>2, <2>1
    <2> QED BY <2>2 DEF R1, E1
  <1>9. ReplayOK(a, i + 1, d + eff) /\ ReplayOK(a, i + 1, d + TxEffect(a, tx, Nil))
    BY <1>2, <1>4, <1>8 DEF ReplayOK
  <1> QED BY <1>2, <1>9 DEF eff, tx

\* A replay that has passed them all has the effect of the range, but for fee shares.
LEMMA ReplayEnds ==
  ASSUME NEW a \in Accounts, NEW d \in Int, ReplayOK(a, Len(Txs[a]) + 1, d)
  PROVE  \E short \in 0..FeeShares[a] : d = Effects[a] - short
  <1>1. Len(Txs[a]) \in Nat /\ (Len(Txs[a]) + 1) - 1 = Len(Txs[a])
    BY EffectsType
  <1> QED BY <1>1 DEF ReplayOK, FeeShares, Effects

-----------------------------------------------------------------------------
(* Every step keeps the inductive invariant.                               *)

\* Creating an account changes no balance and no account that exists.
LEMMA CreateKeeps ==
  ASSUME RTypeOK, NEW a \in Accounts, db' = [db EXCEPT ![a] = Created(a)]
  PROVE  /\ db' \in [Accounts -> Account \cup {NoAccount}]
         /\ \A b \in Accounts : Balance(b)' = Balance(b)
         /\ \A b \in Accounts : db[b] # NoAccount => db'[b] = db[b]
  <1>1. RemoteNonce[a] \in Nat /\ [balance |-> 0, nonce |-> RemoteNonce[a]] \in Account
    BY ReconciliationAssumption DEF Account
  <1>2. Created(a) \in Account \cup {NoAccount} /\ Created(a) # NoAccount
    BY <1>1, ReconciliationAssumption DEF Created, RTypeOK
  <1>3. db' \in [Accounts -> Account \cup {NoAccount}]
    BY <1>2 DEF RTypeOK
  <1>4. \A b \in Accounts : db[b] # NoAccount => db'[b] = db[b]
    BY DEF RTypeOK, Created
  <1>5. ASSUME NEW b \in Accounts PROVE Balance(b)' = Balance(b)
    <2>1. CASE b = a /\ db[a] = NoAccount
      BY <1>2, <2>1 DEF Balance, Created, RTypeOK
    <2>2. CASE ~(b = a /\ db[a] = NoAccount)
      BY <2>2 DEF Balance, Created, RTypeOK
    <2> QED BY <2>1, <2>2
  <1> QED BY <1>3, <1>4, <1>5

\* A task at rest is well typed and owes nothing.
LEMMA RestingType ==
  ASSUME NEW todo \in SUBSET Tagged
  PROVE  Resting(todo) \in Task /\ Resting(todo).pc = "next" /\ Resting(todo).todo = todo
  BY DEF Resting, Task

\* A new directory of the process: nothing is under way.
LEMMA RInit == Init => RInv
  <1> SUFFICES ASSUME Init PROVE RInv
    OBVIOUS
  <1>1. task \in [Goroutines -> Task] /\ \A g \in Goroutines : task[g].pc = "next"
    BY RestingType DEF Init
  <1>2. RTypeOK
    BY <1>1, ReconciliationAssumption DEF Init, RTypeOK
  <1>3. TasksOK
    BY <1>1 DEF TasksOK
  <1>4. NoneForgotten /\ PlansRight /\ PlansIdentity /\ BatchLogged
    BY DEF Init, NoneForgotten, PlansRight, PlansIdentity, BatchLogged, Phases
  <1> QED BY <1>2, <1>3, <1>4 DEF RInv

\* A call starts with no plan and every tagged account in some batch.
LEMMA StartStep == \A e : RInv /\ Start(e) => RInv'
  <1> SUFFICES ASSUME NEW e, RInv, Start(e) PROVE RInv'
    OBVIOUS
  <1> USE DEF RInv
  <1>1. /\ UNCHANGED <<db, buffer, log>> /\ updates' = [a \in Tagged |-> Nil]
        /\ failed' = {} /\ fetched' = {} /\ pc' \in {"idle", "compute"} /\ result' \in {"idle", "ok"}
    BY DEF Start
  <1>2. CASE Tagged = {} /\ UNCHANGED task /\ pc' = "idle"
    <2>1. RTypeOK' /\ TasksOK'
      BY <1>1, <1>2 DEF RTypeOK, TasksOK
    <2>2. NoneForgotten' /\ PlansRight' /\ PlansIdentity' /\ BatchLogged'
      BY <1>1, <1>2 DEF NoneForgotten, PlansRight, PlansIdentity, BatchLogged, Phases
    <2> QED BY <2>1, <2>2
  <1>3. CASE pc' = "compute" /\ \E b \in Batches : task' = [g \in Goroutines |-> Resting(b[g])]
    <2>1. PICK b \in Batches : task' = [g \in Goroutines |-> Resting(b[g])]
      BY <1>3
    <2>2. b \in [Goroutines -> SUBSET Tagged] /\ UNION Range(b) = Tagged
      BY DEF Batches
    <2>3. \A g \in Goroutines : /\ task'[g] \in Task /\ task'[g].pc = "next"
                                /\ task'[g].todo = b[g]
      BY <2>1, <2>2, RestingType
    <2>4. RTypeOK'
      BY <1>1, <1>3, <2>1, <2>3 DEF RTypeOK
    <2>5. TasksOK'
      BY <2>3 DEF TasksOK
    <2>6. ASSUME NEW a \in Tagged PROVE \E g \in Goroutines : a \in task'[g].todo
      <3>1. PICK B \in Range(b) : a \in B
        BY <2>2
      <3>2. PICK g \in Goroutines : B = b[g]
        BY <2>2 DEF Range
      <3> QED BY <2>3, <3>1, <3>2
    <2>7. NoneForgotten'
      BY <1>1, <1>3, <2>6 DEF NoneForgotten, Phases
    <2>8. PlansRight' /\ PlansIdentity' /\ BatchLogged'
      BY <1>1, <1>3 DEF PlansRight, PlansIdentity, BatchLogged
    <2> QED BY <2>4, <2>5, <2>7, <2>8
  <1> QED BY <1>1, <1>2, <1>3 DEF Start

\* A goroutine takes an account of its batch, or gives it up.
LEMMA TakeAccountStep == \A g \in Goroutines : RInv /\ TakeAccount(g) => RInv'
  <1> SUFFICES ASSUME NEW g \in Goroutines, RInv, TakeAccount(g) PROVE RInv'
    OBVIOUS
  <1> USE DEF RInv
  <1>1. /\ UNCHANGED <<db, buffer, log, pc, updates, fetched, result>> /\ pc = "compute"
        /\ task[g] \in Task /\ task[g].pc = "next" /\ task \in [Goroutines -> Task]
    BY DEF TakeAccount, RTypeOK
  <1>2. PlansRight' /\ PlansIdentity' /\ BatchLogged'
    BY <1>1 DEF PlansRight, PlansIdentity, BatchLogged, PlannedBatch, Balance
  <1>3. PICK a \in task[g].todo :
          \/ /\ task' = [task EXCEPT ![g].acct = a, ![g].pc = "replay",
                           ![g].delta = IF entry = "Reconcile" THEN 0 ELSE Effects[a],
                           ![g].i = IF entry = "Reconcile" THEN 1 ELSE Len(Txs[a]) + 1]
             /\ UNCHANGED failed
          \/ failed' = failed \cup {a} /\ Reply(g, a)
    BY DEF TakeAccount
  <1>4. a \in Tagged /\ a \in Accounts
    BY <1>1, ReconciliationAssumption DEF Task
  <1>5. CASE /\ task' = [task EXCEPT ![g].acct = a, ![g].pc = "replay",
                           ![g].delta = IF entry = "Reconcile" THEN 0 ELSE Effects[a],
                           ![g].i = IF entry = "Reconcile" THEN 1 ELSE Len(Txs[a]) + 1]
             /\ UNCHANGED failed
    <2> DEFINE d == IF entry = "Reconcile" THEN 0 ELSE Effects[a]
               i == IF entry = "Reconcile" THEN 1 ELSE Len(Txs[a]) + 1
    <2>1. Effects[a] \in Int /\ Len(Txs[a]) \in Nat
      BY <1>4, EffectsType DEF Effects
    <2>2. d \in Int /\ i \in Nat /\ i \in 1..Len(Txs[a]) + 1 /\ ReplayOK(a, i, d)
      BY <1>4, <2>1, ReplayStarts
    <2> HIDE DEF d, i
    <2>3. task' = [task EXCEPT ![g] = [todo |-> task[g].todo, pc |-> "replay", acct |-> a, i |-> i, delta |-> d]]
      BY <1>1, <1>5 DEF d, i, Task
    <2>4. task' \in [Goroutines -> Task]
      BY <1>1, <1>4, <2>2, <2>3 DEF Task
    <2>5. RTypeOK'
      BY <1>1, <2>4 DEF RTypeOK
    <2>6. TasksOK'
      BY <1>1, <2>2, <2>3 DEF TasksOK
    <2>7. \A h \in Goroutines : task'[h].todo = task[h].todo
      BY <1>1, <2>3
    <2>8. NoneForgotten'
      BY <1>1, <1>5, <2>7 DEF NoneForgotten, Phases
    <2> QED BY <1>2, <2>5, <2>6, <2>8
  <1>6. CASE failed' = failed \cup {a} /\ Reply(g, a)
    <2>1. task' = [task EXCEPT ![g] = Resting(task[g].todo \ {a})] /\ task[g].todo \ {a} \in SUBSET Tagged
      BY <1>1, <1>6 DEF Reply, Task
    <2>2. task' \in [Goroutines -> Task] /\ task'[g].pc = "next" /\ task'[g].todo = task[g].todo \ {a}
      BY <1>1, <2>1, RestingType
    <2>3. \A h \in Goroutines \ {g} : task'[h] = task[h]
      BY <1>1, <2>1
    <2>4. RTypeOK'
      BY <1>1, <2>2 DEF RTypeOK
    <2>5. TasksOK'
      BY <2>2, <2>3 DEF TasksOK
    <2>6. NoneForgotten'
      BY <1>1, <1>6, <2>2, <2>3 DEF NoneForgotten, Phases
    <2> QED BY <1>2, <2>4, <2>5, <2>6
  <1> QED BY <1>3, <1>5, <1>6

\* One transaction is added up, with its header or without.
LEMMA CreditStep ==
  ASSUME RInv, NEW g \in Goroutines, pc = "compute", task[g].pc \in {"replay", "miss"},
         ~Replayed(g), Credit(g, Headers[Tx(g).block]) \/ Credit(g, Nil)
  PROVE  task' \in [Goroutines -> Task] /\ TasksOK' /\ \A h \in Goroutines : task'[h].todo = task[h].todo
  <1> USE DEF RInv
  <1> DEFINE t == task[g]  a == t.acct  n == t.i
  <1>1. /\ task \in [Goroutines -> Task] /\ t \in Task /\ t.todo \subseteq Tagged /\ n \in Nat /\ t.delta \in Int
        /\ t = [todo |-> t.todo, pc |-> t.pc, acct |-> a, i |-> n, delta |-> t.delta]
    BY DEF RTypeOK, Task
  <1>2. a \in t.todo /\ a \in Accounts /\ n \in 1..Len(Txs[a]) + 1 /\ ReplayOK(a, n, t.delta)
    BY <1>1, ReconciliationAssumption DEF TasksOK
  <1>3. n \in 1..Len(Txs[a]) /\ n + 1 \in 1..Len(Txs[a]) + 1
    BY <1>1, <1>2, EffectsType DEF Replayed
  <1>4. PICK d \in Int : /\ ReplayOK(a, n + 1, d)
                         /\ task' = [task EXCEPT ![g].pc = "replay", ![g].i = @ + 1, ![g].delta = d]
    <2> DEFINE tx == Txs[a][n]  with == TxEffect(a, tx, Headers[tx.block])  without == TxEffect(a, tx, Nil)
    <2>1. /\ ReplayOK(a, n + 1, t.delta + with) /\ ReplayOK(a, n + 1, t.delta + without)
          /\ with \in Int /\ without \in Int
      BY <1>1, <1>2, <1>3, ReplayContinues
    <2>2. PICK e \in {with, without} :
            task' = [task EXCEPT ![g].pc = "replay", ![g].i = @ + 1, ![g].delta = @ + e]
      BY DEF Credit, Tx
    <2> HIDE DEF with, without
    <2>3. e \in Int /\ ReplayOK(a, n + 1, t.delta + e)
      BY <2>1, <2>2
    <2>4. t.delta + e \in Int
      BY <1>1, <2>3
    <2> QED BY <1>1, <2>2, <2>3, <2>4
  <1>5. task' = [task EXCEPT ![g] = [todo |-> t.todo, pc |-> "replay", acct |-> a, i |-> n + 1, delta |-> d]]
    BY <1>1, <1>4
  <1>6. task' \in [Goroutines -> Task]
    BY <1>1, <1>2, <1>5 DEF Task
  <1>7. TasksOK'
    BY <1>1, <1>2, <1>3, <1>4, <1>5 DEF TasksOK
  <1> QED BY <1>1, <1>5, <1>6, <1>7

\* LookUp and ReadHeader touch the cache and the goroutine's own task.
LEMMA ReplayStep == \A g \in Goroutines : RInv /\ (LookUp(g) \/ ReadHeader(g)) => RInv'
  <1> SUFFICES ASSUME NEW g \in Goroutines, RInv, LookUp(g) \/ ReadHeader(g) PROVE RInv'
    OBVIOUS
  <1> USE DEF RInv
  <1>1. /\ UNCHANGED <<db, buffer, log, pc, updates, failed, fetched, result>> /\ pc = "compute"
        /\ task[g] \in Task /\ task[g].pc \in {"replay", "miss"} /\ task \in [Goroutines -> Task]
    BY DEF LookUp, ReadHeader, RTypeOK
  <1>2. PlansRight' /\ PlansIdentity' /\ BatchLogged'
    BY <1>1 DEF PlansRight, PlansIdentity, BatchLogged, PlannedBatch, Balance
  <1>3. ~Replayed(g)
    <2>1. CASE LookUp(g)
      BY <2>1 DEF LookUp
    <2>2. CASE ReadHeader(g)
      <3>1. task[g].acct \in Accounts /\ task[g].i \in Nat /\ task[g].i <= Len(Txs[task[g].acct])
        BY <1>1, <2>2, ReconciliationAssumption DEF ReadHeader, TasksOK, Task
      <3> QED BY <3>1, EffectsType DEF Replayed
    <2> QED BY <2>1, <2>2
  <1>4. task' \in [Goroutines -> Task] /\ TasksOK' /\ \A h \in Goroutines : task'[h].todo = task[h].todo
    <2>1. CASE Credit(g, Headers[Tx(g).block]) \/ Credit(g, Nil)
      BY <1>1, <1>3, <2>1, CreditStep
    <2>2. CASE LookUp(g) /\ task' = [task EXCEPT ![g].pc = "miss"]
      <3>0. task[g] = [todo |-> task[g].todo, pc |-> task[g].pc, acct |-> task[g].acct,
                       i |-> task[g].i, delta |-> task[g].delta]
        BY <1>1 DEF Task
      <3>1. task' = [task EXCEPT ![g] = [todo |-> task[g].todo, pc |-> "miss", acct |-> task[g].acct,
                                         i |-> task[g].i, delta |-> task[g].delta]]
        <4>1. [task[g] EXCEPT !.pc = "miss"]
                = [todo |-> task[g].todo, pc |-> "miss", acct |-> task[g].acct,
                   i |-> task[g].i, delta |-> task[g].delta]
          BY <3>0
        <4>2. task' = [task EXCEPT ![g] = [task[g] EXCEPT !.pc = "miss"]]
          BY <2>2
        <4> QED BY <4>1, <4>2
      <3>2. task' \in [Goroutines -> Task] /\ \A h \in Goroutines : task'[h].todo = task[h].todo
        BY <1>1, <3>1 DEF Task
      <3>3. task[g].todo \subseteq Tagged /\ task[g].acct \in task[g].todo
        BY <1>1 DEF TasksOK, Task
      <3>4. task[g].acct \in Accounts /\ task[g].i \in Nat
        BY <1>1, <3>3, ReconciliationAssumption DEF Task
      <3>5. task[g].i <= Len(Txs[task[g].acct])
        BY <1>3, <3>4, EffectsType DEF Replayed
      <3>6. TasksOK'
        <4> SUFFICES ASSUME NEW h \in Goroutines, task'[h].pc # "next"
                     PROVE  LET t == task'[h] IN
                            /\ t.acct \in t.todo /\ t.i \in 1..Len(Txs[t.acct]) + 1
                            /\ ReplayOK(t.acct, t.i, t.delta)
                            /\ t.pc = "miss" => t.i <= Len(Txs[t.acct])
          BY DEF TasksOK
        <4>1. CASE h = g
          BY <1>1, <3>1, <3>5, <4>1 DEF TasksOK
        <4>2. CASE h # g
          BY <1>1, <3>1, <4>2 DEF TasksOK
        <4> QED BY <4>1, <4>2
      <3> QED BY <3>2, <3>6
    <2> QED BY <2>1, <2>2 DEF LookUp, ReadHeader
  <1>5. RTypeOK'
    BY <1>1, <1>4 DEF RTypeOK
  <1>6. NoneForgotten'
    BY <1>1, <1>4 DEF NoneForgotten, Phases
  <1> QED BY <1>2, <1>4, <1>5, <1>6

\* The plan of an account that was replayed to the end.
LEMMA UpdateRight ==
  ASSUME RTypeOK, NEW a \in Tagged, NEW d \in Int, NEW short \in Int, d = Effects[a] - short
  PROVE  /\ Update(a, d) \in Planned /\ Update(a, d) # Nil
         /\ Update(a, d).balance = NotNegative(Balance(a) + Effects[a] - short)
         /\ Update(a, d).nonce # 0 => db[a] # NoAccount /\ db[a].nonce = Update(a, d).nonce
  <1>1. a \in Accounts /\ Effects[a] \in Int /\ (db[a] # NoAccount => db[a] \in Account)
    BY ReconciliationAssumption, EffectsType DEF Effects, RTypeOK
  <1>2. Balance(a) \in Int
    BY <1>1 DEF Balance, Account
  <1>3. Balance(a) + d = Balance(a) + Effects[a] - short /\ NotNegative(Balance(a) + d) \in Int
    BY <1>1, <1>2 DEF NotNegative
  <1>4. Update(a, d) = [balance |-> NotNegative(Balance(a) + d),
                        nonce   |-> IF db[a] = NoAccount THEN 0 ELSE db[a].nonce,
                        isNew   |-> db[a] = NoAccount]
    BY DEF Update, Balance
  <1>5. (IF db[a] = NoAccount THEN 0 ELSE db[a].nonce) \in Nat
    BY <1>1 DEF Account
  <1>6. (db[a] = NoAccount) \in BOOLEAN
    OBVIOUS
  <1>7. Update(a, d) \in Planned
    <2> DEFINE z == db[a] = NoAccount
               n == IF db[a] = NoAccount THEN 0 ELSE db[a].nonce
               b == NotNegative(Balance(a) + d)
    <2>1. z \in BOOLEAN /\ n \in Nat /\ b \in Int /\ Update(a, d) = [balance |-> b, nonce |-> n, isNew |-> z]
      BY <1>3, <1>4, <1>5, <1>6
    <2> HIDE DEF z, n, b
    <2> QED BY <2>1 DEF Planned
  <1> QED BY <1>3, <1>4, <1>7, ReconciliationAssumption

\* A replayed account gets its plan, or counts as failed.
LEMMA PlanUpdateStep == \A g \in Goroutines : RInv /\ PlanUpdate(g) => RInv'
  <1> SUFFICES ASSUME NEW g \in Goroutines, RInv, PlanUpdate(g) PROVE RInv'
    OBVIOUS
  <1> USE DEF RInv
  <1> DEFINE d == task[g].delta
  <1>1. /\ UNCHANGED <<db, buffer, log, pc, fetched, result>> /\ pc = "compute"
        /\ task[g] \in Task /\ task[g].pc = "replay" /\ task \in [Goroutines -> Task]
        /\ Replayed(g) /\ Reply(g, task[g].acct)
    BY DEF PlanUpdate, RTypeOK
  <1>2. PICK a \in Tagged : a = task[g].acct /\ a \in task[g].todo
    BY <1>1 DEF TasksOK, Task
  <1>3. a \in Accounts /\ d \in Int /\ task[g].i \in 1..Len(Txs[a]) + 1 /\ ReplayOK(a, task[g].i, d)
    BY <1>1, <1>2, ReconciliationAssumption DEF TasksOK, Task
  <1>4. task[g].i = Len(Txs[a]) + 1
    BY <1>1, <1>2, <1>3, EffectsType DEF Replayed
  <1>5. PICK short \in 0..FeeShares[a] : d = Effects[a] - short
    BY <1>3, <1>4, ReplayEnds
  <1>6. /\ Update(a, d) \in Planned /\ Update(a, d) # Nil
        /\ Update(a, d).balance = NotNegative(Balance(a) + Effects[a] - short)
        /\ Update(a, d).nonce # 0 => db[a] # NoAccount /\ db[a].nonce = Update(a, d).nonce
    BY <1>3, <1>5, UpdateRight
  <1>7. task' \in [Goroutines -> Task] /\ TasksOK' /\ (\A h \in Goroutines : task[h].todo \ {a} \subseteq task'[h].todo)
    <2>1. task' = [task EXCEPT ![g] = Resting(task[g].todo \ {a})] /\ task[g].todo \ {a} \in SUBSET Tagged
      BY <1>1, <1>2 DEF Reply, Task
    <2>2. task' \in [Goroutines -> Task] /\ task'[g].pc = "next" /\ task'[g].todo = task[g].todo \ {a}
      BY <1>1, <2>1, RestingType
    <2>3. \A h \in Goroutines \ {g} : task'[h] = task[h]
      BY <1>1, <2>1
    <2> QED BY <2>2, <2>3 DEF TasksOK
  <1>8. \/ updates' = [updates EXCEPT ![a] = Update(a, d)] /\ UNCHANGED failed
        \/ failed' = failed \cup {a} /\ UNCHANGED updates
    BY <1>2 DEF PlanUpdate
  <1>9. RTypeOK'
    BY <1>1, <1>6, <1>7, <1>8 DEF RTypeOK
  <1>10. NoneForgotten'
    <2>1. ASSUME NEW b \in Tagged
          PROVE  updates'[b] # Nil \/ b \in failed' \/ \E h \in Goroutines : b \in task'[h].todo
      <3>1. CASE b = a
        BY <1>6, <1>8, <3>1 DEF RTypeOK
      <3>2. CASE b # a
        BY <1>1, <1>7, <1>8, <3>2 DEF NoneForgotten, RTypeOK
      <3> QED BY <3>1, <3>2
    <2> QED BY <1>1, <2>1 DEF NoneForgotten, Phases
  <1>11. \A b \in Accounts : Balance(b)' = Balance(b)
    BY <1>1 DEF Balance
  <1>12. PlansRight'
    <2> SUFFICES ASSUME NEW b \in Tagged, updates'[b] # Nil
                 PROVE  \E s \in 0..FeeShares[b] :
                          updates'[b].balance = NotNegative(Balance(b) + Effects[b] - s)
      BY <1>11, ReconciliationAssumption DEF PlansRight
    <2>1. CASE updates'[b] = updates[b]
      BY <1>1, <2>1 DEF PlansRight
    <2>2. CASE b = a /\ updates'[a] = Update(a, d)
      BY <1>5, <1>6, <2>2
    <2> QED BY <1>8, <2>1, <2>2 DEF RTypeOK
  <1>13. PlansIdentity'
    BY <1>1, <1>6, <1>8 DEF PlansIdentity, RTypeOK
  <1>14. BatchLogged'
    BY <1>1 DEF BatchLogged
  <1> QED BY <1>7, <1>9, <1>10, <1>12, <1>13, <1>14

\* The steps after the computation that touch neither the table nor a plan.
LEMMA PhaseStep ==
  RInv /\ (Collect \/ FetchAccounts \/ WriteEvent \/ Flush \/ Checkpoint) => RInv'
  <1> SUFFICES ASSUME RInv, Collect \/ FetchAccounts \/ WriteEvent \/ Flush \/ Checkpoint PROVE RInv'
    OBVIOUS
  <1> USE DEF RInv
  <1>1. UNCHANGED <<db, task, updates, failed>>
    BY DEF Collect, FetchAccounts, WriteEvent, Flush, Checkpoint
  <1>2. TasksOK' /\ PlansIdentity'
    BY <1>1 DEF TasksOK, PlansIdentity
  <1>3. \A a : Balance(a)' = Balance(a)
    BY <1>1 DEF Balance
  <1>4. PlannedBatch \in [Tagged -> Int] \/ ~(pc \in Phases)
    BY DEF PlannedBatch, NoneForgotten, RTypeOK, Planned
  <1>5. CASE Collect
    <2>1. UNCHANGED <<buffer, log, fetched>> /\ pc = "compute" /\ pc' \in {"idle", "fetch", "log"}
      BY <1>5 DEF Collect, Return
    <2>2. RTypeOK'
      BY <1>1, <1>5, <2>1 DEF Collect, Return, RTypeOK, Phases
    <2>3. pc' # "idle" => \A a \in Tagged : updates[a] # Nil
      <3> SUFFICES ASSUME pc' # "idle", NEW a \in Tagged PROVE updates[a] # Nil
        OBVIOUS
      <3>1. failed = {} /\ \A g \in Goroutines : task[g].todo = {}
        BY <1>5 DEF Collect, Return, Resting
      <3> QED BY <2>1, <3>1 DEF NoneForgotten
    <2>4. NoneForgotten' /\ PlansRight' /\ BatchLogged'
      BY <1>1, <1>3, <2>1, <2>3 DEF NoneForgotten, PlansRight, BatchLogged, Phases
    <2> QED BY <1>2, <2>2, <2>4
  <1>6. CASE FetchAccounts
    <2>1. UNCHANGED <<buffer, log, result>> /\ pc = "fetch" /\ pc' \in {"create", "log"} /\ fetched' \subseteq Tagged
      BY <1>6 DEF FetchAccounts, Missing, RTypeOK
    <2>2. RTypeOK'
      BY <1>1, <2>1 DEF RTypeOK, Phases
    <2>3. NoneForgotten' /\ PlansRight' /\ BatchLogged'
      BY <1>1, <1>3, <2>1 DEF NoneForgotten, PlansRight, BatchLogged, Phases
    <2> QED BY <1>2, <2>2, <2>3
  <1>7. CASE WriteEvent
    <2>1. UNCHANGED <<log, fetched>> /\ pc = "log" /\ pc' \in {"flush", "idle"} /\ result' \in {result, "error"}
      BY <1>7 DEF WriteEvent, Return
    <2>2. \/ buffer' = Append(buffer, PlannedBatch) /\ pc' = "flush"
          \/ buffer' = buffer /\ pc' = "idle"
      BY <1>7 DEF WriteEvent, Return, PlannedBatch
    <2>3. PlannedBatch \in [Tagged -> Int] /\ buffer \in Seq([Tagged -> Int])
      BY <1>4, <2>1 DEF Phases, RTypeOK
    <2>4. /\ Append(buffer, PlannedBatch) \in Seq([Tagged -> Int])
          /\ Append(buffer, PlannedBatch) # <<>>
          /\ Last(Append(buffer, PlannedBatch)) = PlannedBatch
      BY <2>3, AppendProperties DEF Last
    <2>5. RTypeOK'
      BY <1>1, <2>1, <2>2, <2>4 DEF RTypeOK, Phases
    <2>6. NoneForgotten' /\ PlansRight'
      BY <1>1, <1>3, <2>1 DEF NoneForgotten, PlansRight, Phases
    <2>7. PlannedBatch' = PlannedBatch
      BY <1>1 DEF PlannedBatch
    <2>8. BatchLogged'
      BY <2>1, <2>2, <2>4, <2>7 DEF BatchLogged
    <2> QED BY <1>2, <2>5, <2>6, <2>8
  <1>8. CASE Flush
    <2>1. /\ UNCHANGED fetched /\ pc = "flush" /\ pc' \in {"commit", "idle"} /\ result' \in {result, "error"}
          /\ buffer \in Seq([Tagged -> Int]) /\ log \in Seq([Tagged -> Int])
          /\ buffer # <<>> /\ Last(buffer) = PlannedBatch
      BY <1>8 DEF Flush, Return, RTypeOK, BatchLogged
    <2>2. \/ log' = log \o buffer /\ buffer' = <<>> /\ pc' = "commit"
          \/ UNCHANGED <<log, buffer>> /\ pc' = "idle"
      BY <1>8 DEF Flush, Return
    <2>3. log \o buffer \in Seq([Tagged -> Int]) /\ log \o buffer # <<>> /\ Last(log \o buffer) = PlannedBatch
      <3>1. /\ log \o buffer \in Seq([Tagged -> Int]) /\ Len(log \o buffer) = Len(log) + Len(buffer)
            /\ \A i \in 1..Len(log) + Len(buffer) : (log \o buffer)[i] =
                 IF i <= Len(log) THEN log[i] ELSE buffer[i - Len(log)]
        BY <2>1, ConcatProperties
      <3>2. Len(buffer) \in Nat \ {0} /\ Len(log) \in Nat
        BY <2>1
      <3>3. (log \o buffer)[Len(log) + Len(buffer)] = buffer[Len(buffer)]
        BY <3>1, <3>2
      <3>4. Last(log \o buffer) = PlannedBatch
        BY <2>1, <3>1, <3>3 DEF Last
      <3> QED BY <3>1, <3>2, <3>4
    <2>4. RTypeOK'
      <3>1. buffer' \in Seq([Tagged -> Int]) /\ log' \in Seq([Tagged -> Int])
        BY <2>1, <2>2, <2>3, EmptySeq
      <3> QED BY <1>1, <2>1, <3>1 DEF RTypeOK, Phases
    <2>5. NoneForgotten' /\ PlansRight'
      BY <1>1, <1>3, <2>1 DEF NoneForgotten, PlansRight, Phases
    <2>6. PlannedBatch' = PlannedBatch
      BY <1>1 DEF PlannedBatch
    <2>7. BatchLogged'
      BY <2>1, <2>2, <2>3, <2>6 DEF BatchLogged
    <2> QED BY <1>2, <2>4, <2>5, <2>7
  <1>9. CASE Checkpoint
    <2>1. UNCHANGED <<buffer, log, fetched>> /\ pc' = "idle" /\ result' = "ok"
      BY <1>9 DEF Checkpoint, Return
    <2>2. RTypeOK'
      BY <1>1, <2>1 DEF RTypeOK
    <2>3. NoneForgotten' /\ PlansRight' /\ BatchLogged'
      BY <2>1 DEF NoneForgotten, PlansRight, BatchLogged, Phases
    <2> QED BY <1>2, <2>2, <2>3
  <1> QED BY <1>5, <1>6, <1>7, <1>8, <1>9

\* Marking a plan as that of a held account leaves its balance and its identity.
LEMMA PlannedMark ==
  ASSUME NEW u \in Planned, NEW z \in BOOLEAN
  PROVE  /\ [u EXCEPT !.isNew = z] \in Planned
         /\ [u EXCEPT !.isNew = z].balance = u.balance /\ [u EXCEPT !.isNew = z].nonce = u.nonce
  BY DEF Planned

\* Pre-creating an account or storing a page leaves every balance, and so every plan.
LEMMA CreateStep == RInv /\ (PreCreate \/ \E a \in Accounts : AccountPage(a)) => RInv'
  <1> SUFFICES ASSUME RInv, PreCreate \/ \E a \in Accounts : AccountPage(a) PROVE RInv'
    OBVIOUS
  <1> USE DEF RInv
  <1>1. /\ UNCHANGED <<buffer, log, task, failed, result>> /\ fetched' \subseteq fetched
        /\ pc' = pc \/ (pc = "create" /\ pc' = "log")
    BY DEF PreCreate, AccountPage
  <1>2. UNCHANGED db \/ \E a \in Accounts : db' = [db EXCEPT ![a] = Created(a)]
    BY ReconciliationAssumption DEF PreCreate, AccountPage, RTypeOK
  <1>3. /\ db' \in [Accounts -> Account \cup {NoAccount}]
        /\ \A b \in Accounts : Balance(b)' = Balance(b)
        /\ \A b \in Accounts : db[b] # NoAccount => db'[b] = db[b]
    <2>1. CASE UNCHANGED db
      BY <2>1 DEF RTypeOK, Balance
    <2> QED BY <1>2, <2>1, CreateKeeps
  <1>4. UNCHANGED updates \/ \E a \in Tagged : updates[a] # Nil /\ updates' = [updates EXCEPT ![a].isNew = FALSE]
    <2>1. CASE PreCreate
      <3>1. \A a \in fetched : a \in Tagged /\ updates[a] # Nil
        BY <2>1 DEF PreCreate, NoneForgotten, Phases, RTypeOK
      <3> QED BY <2>1, <3>1 DEF PreCreate
    <2> QED BY <2>1 DEF AccountPage
  <1> DEFINE Kept == \A b \in Tagged :
                       /\ updates'[b] # Nil <=> updates[b] # Nil
                       /\ updates[b] # Nil => /\ updates'[b].balance = updates[b].balance
                                              /\ updates'[b].nonce = updates[b].nonce
  <1>5. updates' \in [Tagged -> Planned \cup {Nil}] /\ Kept
    <2>1. CASE UNCHANGED updates
      BY <2>1 DEF RTypeOK
    <2>2. ASSUME NEW a \in Tagged, updates[a] # Nil, updates' = [updates EXCEPT ![a].isNew = FALSE]
          PROVE  updates' \in [Tagged -> Planned \cup {Nil}] /\ Kept
      <3>1. updates[a] \in Planned /\ updates \in [Tagged -> Planned \cup {Nil}]
        BY <2>2 DEF RTypeOK
      <3>2. PICK u \in Planned : /\ u = [updates[a] EXCEPT !.isNew = FALSE]
                                 /\ u.balance = updates[a].balance /\ u.nonce = updates[a].nonce
        BY <3>1, PlannedMark
      <3>3. updates' = [updates EXCEPT ![a] = u] /\ u # Nil
        BY <2>2, <3>2, ReconciliationAssumption
      <3> QED BY <2>2, <3>1, <3>2, <3>3
    <2> QED BY <1>4, <2>1, <2>2
  <1>6. RTypeOK'
    BY <1>1, <1>3, <1>5 DEF RTypeOK, Phases
  <1>7. TasksOK' /\ NoneForgotten'
    BY <1>1, <1>5 DEF TasksOK, NoneForgotten, Phases
  <1>8. PlansRight'
    BY <1>1, <1>3, <1>5, ReconciliationAssumption DEF PlansRight, Phases
  <1>9. PlansIdentity'
    BY <1>3, <1>5, ReconciliationAssumption DEF PlansIdentity
  <1>10. BatchLogged'
    <2>1. pc \in Phases => PlannedBatch' = PlannedBatch
      BY <1>5 DEF PlannedBatch, NoneForgotten
    <2> QED BY <1>1, <2>1 DEF BatchLogged, Phases
  <1> QED BY <1>6, <1>7, <1>8, <1>9, <1>10

\* What the commit makes of an account.
LEMMA AppliedType ==
  ASSUME RTypeOK, PlansIdentity, NEW a \in Tagged, updates[a] # Nil
  PROVE  LET new == Applied(db[a], updates[a]) IN
         /\ new \in Account /\ new # NoAccount /\ new.balance = updates[a].balance
         /\ updates[a].nonce # 0 => new.nonce = updates[a].nonce
         /\ db[a] # NoAccount /\ db[a].nonce # 0 => new.nonce = db[a].nonce
  <1>1. a \in Accounts /\ updates[a] \in Planned /\ (db[a] # NoAccount => db[a] \in Account)
    BY ReconciliationAssumption DEF RTypeOK
  <1>2. updates[a].balance \in Int /\ updates[a].nonce \in Nat /\ (db[a] # NoAccount => db[a].nonce \in Nat)
    BY <1>1 DEF Planned, Account
  <1>3. Applied(db[a], updates[a]) \in Account
    BY <1>2 DEF Applied, Account
  <1> QED BY <1>2, <1>3, ReconciliationAssumption DEF Applied, PlansIdentity

\* The commit applies all plans at once, or fails.
LEMMA CommitStep == RInv /\ Commit => RInv'
  <1> SUFFICES ASSUME RInv, Commit PROVE RInv'
    OBVIOUS
  <1> USE DEF RInv
  <1>1. /\ UNCHANGED <<buffer, log, task, updates, failed, fetched>> /\ pc = "commit"
        /\ pc' \in {"checkpoint", "idle"} /\ result' \in {result, "error"}
    BY DEF Commit, Return
  <1>2. \A a \in Tagged : updates[a] # Nil
    BY <1>1 DEF NoneForgotten, Phases
  <1>3. \/ \E kept \in SUBSET Late :
             db' = [a \in Accounts |-> IF a \in Tagged \ kept THEN Applied(db[a], updates[a]) ELSE db[a]]
        \/ UNCHANGED db
    BY DEF Commit
  <1>4. db' \in [Accounts -> Account \cup {NoAccount}] /\ PlansIdentity'
    <2>1. CASE UNCHANGED db
      BY <1>1, <2>1 DEF RTypeOK, PlansIdentity
    <2>2. ASSUME NEW kept \in SUBSET Late,
                 db' = [a \in Accounts |-> IF a \in Tagged \ kept THEN Applied(db[a], updates[a]) ELSE db[a]]
          PROVE  db' \in [Accounts -> Account \cup {NoAccount}] /\ PlansIdentity'
      <3>1. db' \in [Accounts -> Account \cup {NoAccount}]
        BY <1>2, <2>2, AppliedType DEF RTypeOK
      <3>2. ASSUME NEW a \in Tagged, updates[a].nonce # 0
            PROVE  db'[a] # NoAccount /\ db'[a].nonce = updates[a].nonce
        <4>1. a \in Accounts /\ (db'[a] = db[a] \/ db'[a] = Applied(db[a], updates[a]))
          BY <2>2, ReconciliationAssumption
        <4> QED BY <1>2, <3>2, <4>1, AppliedType DEF PlansIdentity
      <3> QED BY <1>1, <3>1, <3>2 DEF PlansIdentity
    <2> QED BY <1>3, <2>1, <2>2
  <1>5. RTypeOK'
    BY <1>1, <1>4 DEF RTypeOK
  <1>6. TasksOK' /\ NoneForgotten' /\ PlansRight' /\ BatchLogged'
    BY <1>1 DEF TasksOK, NoneForgotten, PlansRight, BatchLogged, Phases
  <1> QED BY <1>4, <1>5, <1>6

\* A crash forgets the call and keeps the table and the log.
LEMMA CrashStep == RInv /\ Crash => RInv'
  <1> SUFFICES ASSUME RInv, Crash PROVE RInv'
    OBVIOUS
  <1> USE DEF RInv
  <1>1. /\ UNCHANGED <<db, log, updates, failed, fetched>> /\ pc' = "idle" /\ result' = "crashed"
        /\ buffer' = <<>> /\ task' = [g \in Goroutines |-> Resting({})]
    BY DEF Crash
  <1>2. \A g \in Goroutines : task'[g] \in Task /\ task'[g].pc = "next"
    BY <1>1, RestingType
  <1>3. RTypeOK'
    <2>1. buffer' \in Seq([Tagged -> Int]) /\ task' \in [Goroutines -> Task]
      BY <1>1, <1>2, EmptySeq
    <2> QED BY <1>1, <2>1 DEF RTypeOK
  <1>4. TasksOK'
    BY <1>2 DEF TasksOK
  <1>5. NoneForgotten' /\ PlansRight' /\ PlansIdentity' /\ BatchLogged'
    BY <1>1 DEF NoneForgotten, PlansRight, PlansIdentity, BatchLogged, Phases
  <1> QED BY <1>3, <1>4, <1>5

\* Every step keeps the inductive invariant.
LEMMA RStep == RInv /\ [Next]_vars => RInv'
  <1> SUFFICES ASSUME RInv, [Next]_vars PROVE RInv'
    OBVIOUS
  <1>1. CASE UNCHANGED vars
    BY <1>1 DEF vars, RInv, RTypeOK, TasksOK, NoneForgotten, PlansRight, PlansIdentity, BatchLogged,
                PlannedBatch, Balance
  <1> QED BY <1>1, StartStep, TakeAccountStep, ReplayStep, PlanUpdateStep, PhaseStep, CreateStep,
             CommitStep, CrashStep DEF Next, Call, Compute

\* The inductive invariant holds throughout.
LEMMA RInvariant == Spec => []RInv
  <1> QED BY RInit, RStep, PTL DEF Spec

-----------------------------------------------------------------------------
(* The theorems.                                                           *)

\* Only a commit changes a balance.
LEMMA BalancesStay ==
  ASSUME RInv, [Next]_vars, ~(Commit /\ pc' = "checkpoint")
  PROVE  \A a \in Accounts : Balance(a)' = Balance(a)
  <1>1. CASE UNCHANGED db
    BY <1>1 DEF Balance
  <1>2. CASE \E a \in Accounts : db' = [db EXCEPT ![a] = Created(a)]
    BY <1>2, CreateKeeps DEF RInv
  <1>3. UNCHANGED db \/ \E a \in Accounts : db' = [db EXCEPT ![a] = Created(a)]
    <2>1. CASE PreCreate
      BY <2>1, ReconciliationAssumption DEF PreCreate, RInv, RTypeOK
    <2>2. CASE \E a \in Accounts : AccountPage(a)
      BY <2>2 DEF AccountPage
    <2>3. CASE Commit
      BY <2>3 DEF Commit, Return
    <2> QED BY <2>1, <2>2, <2>3 DEF Next, Call, Compute, vars, Start, TakeAccount, LookUp, ReadHeader,
          PlanUpdate, Collect, FetchAccounts, WriteEvent, Flush, Checkpoint, Crash
  <1> QED BY <1>1, <1>2, <1>3

\* A known identity nonce is never changed: not by a plan made before the account
\* was known, not by a page of AccountSync, not by a retry.
THEOREM IdentityNeverChanges == Spec => IdentityStable
  <1> DEFINE Stable == \A a \in Accounts : db[a] # NoAccount /\ db[a].nonce # 0
                         => db'[a] # NoAccount /\ db'[a].nonce = db[a].nonce
  <1>1. RInv /\ [Next]_vars => Stable
    <2> SUFFICES ASSUME RInv, [Next]_vars, NEW a \in Accounts, db[a] # NoAccount, db[a].nonce # 0
                 PROVE  db'[a] # NoAccount /\ db'[a].nonce = db[a].nonce
      OBVIOUS
    <2>1. CASE Commit
      <3>1. \A b \in Tagged : updates[b] # Nil
        BY <2>1 DEF RInv, NoneForgotten, Phases, Commit
      <3> QED BY <2>1, <3>1, AppliedType DEF Commit, RInv
    <2>2. CASE PreCreate
      BY <2>2, CreateKeeps, ReconciliationAssumption DEF PreCreate, RInv, RTypeOK
    <2>3. CASE \E b \in Accounts : AccountPage(b)
      BY <2>3, CreateKeeps DEF AccountPage, RInv
    <2> QED BY <2>1, <2>2, <2>3 DEF Next, Call, Compute, vars, Start, TakeAccount, LookUp, ReadHeader,
          PlanUpdate, Collect, FetchAccounts, WriteEvent, Flush, Checkpoint, Crash
  <1>2. RInv /\ [Next]_vars => [Stable]_vars
    BY <1>1
  <1> QED BY <1>2, RInvariant, PTL DEF Spec, IdentityStable

\* A commit writes an account or keeps the record it found.
LEMMA CommitWrites ==
  ASSUME RInv, Commit, pc' = "checkpoint"
  PROVE  /\ pc = "commit" /\ posted' = posted + 1
         /\ \A a \in Accounts \ Tagged : db'[a] = db[a]
         /\ \A a \in Tagged : /\ updates[a] # Nil /\ db'[a] # NoAccount
                              /\ Balance(a)' = updates[a].balance \/ (a \in Late /\ Balance(a)' = Balance(a))
  <1>1. PICK kept \in SUBSET Late :
          db' = [a \in Accounts |-> IF a \in Tagged \ kept THEN Applied(db[a], updates[a]) ELSE db[a]]
    BY DEF Commit, Return
  <1>2. pc = "commit" /\ posted' = posted + 1 /\ \A a \in Accounts \ Tagged : db'[a] = db[a]
    BY <1>1 DEF Commit, Return
  <1>3. ASSUME NEW a \in Tagged
        PROVE  /\ updates[a] # Nil /\ db'[a] # NoAccount
               /\ Balance(a)' = updates[a].balance \/ (a \in Late /\ Balance(a)' = Balance(a))
    <2>1. updates[a] # Nil /\ a \in Accounts
      BY <1>2, ReconciliationAssumption DEF RInv, NoneForgotten, Phases
    <2>2. CASE a \in kept
      <3>1. db'[a] = db[a] /\ a \in Late
        BY <1>1, <2>1, <2>2
      <3> QED BY <2>1, <3>1 DEF Late, Balance
    <2>3. CASE a \notin kept
      <3>1. db'[a] = Applied(db[a], updates[a])
        BY <1>1, <2>1, <2>3
      <3> QED BY <2>1, <3>1, AppliedType DEF Balance, RInv
    <2> QED BY <2>2, <2>3
  <1> QED BY <1>2, <1>3

\* When a balance changes, the last batch on disk has the new one.
THEOREM CommitAfterLog == Spec => CommitIsLogged
  <1> DEFINE Logged == \A a \in Accounts : Balance(a)' # Balance(a)
                         => a \in Tagged /\ Hydrated # Nil /\ Hydrated[a] = Balance(a)'
  <1>1. RInv /\ [Next]_vars => Logged
    <2> SUFFICES ASSUME RInv, [Next]_vars, NEW a \in Accounts, Balance(a)' # Balance(a)
                 PROVE  a \in Tagged /\ Hydrated # Nil /\ Hydrated[a] = Balance(a)'
      OBVIOUS
    <2>1. Commit /\ pc' = "checkpoint"
      BY BalancesStay
    <2>2. log # <<>> /\ Last(log) = PlannedBatch /\ log \in Seq([Tagged -> Int])
      BY <2>1 DEF RInv, BatchLogged, RTypeOK, Commit
    <2>3. PlannedBatch \in [Tagged -> Int] /\ Hydrated = PlannedBatch
      <3>1. Len(log) \in 1..Len(log)
        BY <2>2
      <3> QED BY <2>2, <3>1 DEF Hydrated, Last
    <2>4. a \in Tagged
      BY <2>1, CommitWrites DEF Balance
    <2>5. Balance(a)' = updates[a].balance
      BY <2>1, <2>4, CommitWrites
    <2> QED BY <2>3, <2>4, <2>5, ReconciliationAssumption DEF PlannedBatch
  <1>2. RInv /\ [Next]_vars => [Logged]_vars
    BY <1>1
  <1> QED BY <1>2, RInvariant, PTL DEF Spec, CommitIsLogged

\* The postings before, during and after a call nobody repeated blindly.
PostedOK ==
  /\ posted \in Nat /\ again \in BOOLEAN
  /\ ~again => /\ pc \in {"compute"} \cup Phases => posted = 0
               /\ pc = "checkpoint" => posted = 1
               /\ pc # "idle" => result = "idle" /\ Tagged # {}
               /\ pc = "idle" /\ result \in {"idle", "error"} => posted = 0
               /\ pc = "idle" /\ result = "ok" => posted = IF Tagged = {} THEN 0 ELSE 1
               /\ posted <= 1

\* Every step keeps the count of the postings in order.
LEMMA PostedStep == RInv /\ PostedOK /\ [Next]_vars => PostedOK'
  <1> SUFFICES ASSUME RInv, PostedOK, [Next]_vars PROVE PostedOK'
    OBVIOUS
  <1> USE DEF PostedOK, Phases
  <1>0. result \in {"idle", "ok", "error", "crashed"} /\ pc \in {"idle", "compute", "checkpoint"} \cup Phases
    BY DEF RInv, RTypeOK
  <1>1. ASSUME NEW e \in Entries, Start(e) PROVE PostedOK'
    <2>1. /\ posted' = posted /\ pc = "idle" /\ again' = (again \/ result \in {"ok", "crashed"})
          /\ \/ Tagged = {} /\ pc' = "idle" /\ result' = "ok"
             \/ Tagged # {} /\ pc' = "compute" /\ result' = "idle"
      BY <1>1 DEF Start
    <2>2. again' \in BOOLEAN
      BY <2>1
    <2>3. ~again' => ~again /\ posted = 0
      BY <1>0, <2>1
    <2> QED BY <2>1, <2>2, <2>3
  <1>2. CASE Commit
    BY <1>2 DEF Commit, Return
  <1>3. CASE Collect \/ WriteEvent \/ Flush
    BY <1>3 DEF Collect, WriteEvent, Flush, Return
  <1>4. CASE Checkpoint
    BY <1>4 DEF Checkpoint, Return
  <1>5. CASE Crash
    BY <1>0, <1>5 DEF Crash
  <1>6. CASE FetchAccounts \/ PreCreate
    BY <1>6 DEF FetchAccounts, PreCreate
  <1>7. CASE (\E g \in Goroutines : Compute(g)) \/ (\E a \in Accounts : AccountPage(a)) \/ UNCHANGED vars
    BY <1>7 DEF Compute, TakeAccount, LookUp, ReadHeader, PlanUpdate, AccountPage, vars
  <1> QED BY <1>1, <1>2, <1>3, <1>4, <1>5, <1>6, <1>7 DEF Next, Call

\* A caller that repeats a call only after an error posts its range once: an error means
\* that nothing was posted, success that it was posted exactly once.
THEOREM PostsOnce == Spec => []PostedOnce
  <1>1. Init => PostedOK
    <2> SUFFICES ASSUME Init PROVE PostedOK
      OBVIOUS
    <2>1. again \in BOOLEAN
      BY Zenon DEF Init
    <2>2. posted = 0 /\ pc = "idle" /\ result = "idle"
      BY DEF Init
    <2> QED BY <2>1, <2>2 DEF PostedOK, Phases
  <1>2. RInv /\ PostedOK => PostedOnce
    <2> SUFFICES ASSUME RInv, PostedOK, ~again PROVE PostedOnce
      BY DEF PostedOnce
    <2>1. result = "error" => pc = "idle" /\ posted = 0
      BY DEF PostedOK
    <2>2. result = "ok" /\ Tagged # {} => pc = "idle" /\ posted = 1
      BY DEF PostedOK
    <2> QED BY <2>1, <2>2 DEF PostedOK, PostedOnce
  <1> QED BY <1>1, <1>2, PostedStep, RInvariant, PTL DEF Spec

\* The ledger's view of the state of a call, of the accounts and of the late pages.
Ledgered == IF pc = "idle" THEN result
            ELSE IF pc = "checkpoint" THEN "applied" ELSE "running"
LedgerHeld == {a \in Accounts : db[a] # NoAccount}
LedgerLate == IF pc \in {"idle", "checkpoint"} THEN {} ELSE Late
LedgerBalance == [a \in Accounts |-> Balance(a)]

\* A successful commit posts.
LEMMA CommitPosts ==
  ASSUME RInv, Commit, pc' = "checkpoint"
  PROVE  AsLedger!Apply
  <1>1. Ledgered = "running" /\ Ledgered' = "applied" /\ LedgerLate' = {} /\ LedgerLate = Late
    BY CommitWrites DEF Ledgered, LedgerLate
  <1>2. \A a \in Accounts \ Tagged : Balance(a)' = Balance(a)
    BY CommitWrites DEF Balance
  <1>3. LedgerHeld' = LedgerHeld \cup Tagged
    BY CommitWrites, ReconciliationAssumption DEF LedgerHeld
  <1>4. ASSUME NEW a \in Tagged
        PROVE  \/ \E short \in 0..FeeShares[a] : Balance(a)' = NotNegative(Balance(a) + Effects[a] - short)
               \/ a \in LedgerLate /\ Balance(a)' = Balance(a)
    <2>1. PICK short \in 0..FeeShares[a] :
              updates[a].balance = NotNegative(Balance(a) + Effects[a] - short)
      BY CommitWrites DEF RInv, PlansRight, Phases
    <2> QED BY <1>1, <2>1, CommitWrites
  <1>5. posted' = posted + 1
    BY CommitWrites
  <1> QED BY <1>1, <1>2, <1>3, <1>4, <1>5, ReconciliationAssumption
          DEF AsLedger!Apply, AsLedger!NotNegative, NotNegative, Ledgered, LedgerHeld, LedgerLate

\* A page or a pre-creation registers an account, or recognises one that is there.
LEMMA CreateRegisters ==
  ASSUME RInv, PreCreate \/ \E a \in Accounts : AccountPage(a),
         \A a \in Accounts : Balance(a)' = Balance(a)
  PROVE  AsLedger!Next \/ UNCHANGED <<LedgerBalance, LedgerHeld, LedgerLate, posted, Ledgered>>
  <1>1. LedgerBalance' = LedgerBalance
    BY DEF LedgerBalance
  <1>2. UNCHANGED <<posted, result>> /\ Ledgered' = Ledgered
    BY DEF PreCreate, AccountPage, Ledgered
  <1>3. ASSUME NEW a \in Accounts, AccountPage(a) PROVE AsLedger!Register(a)
    <2>1. db[a] = NoAccount /\ db' = [db EXCEPT ![a] = Created(a)] /\ UNCHANGED <<pc, updates>>
          /\ Created(a) # NoAccount
      BY <1>3, ReconciliationAssumption DEF AccountPage, Created, Account
    <2>2. a \notin LedgerHeld /\ LedgerHeld' = LedgerHeld \cup {a}
      BY <2>1 DEF LedgerHeld, RInv, RTypeOK
    <2>3. LedgerLate' = LedgerLate \/ (Ledgered = "running" /\ LedgerLate' = LedgerLate \cup {a})
      <3>1. CASE pc \in {"idle", "checkpoint"}
        BY <2>1, <3>1 DEF LedgerLate
      <3>2. CASE pc \notin {"idle", "checkpoint"}
        <4>1. Ledgered = "running" /\ LedgerLate = Late /\ LedgerLate' = Late'
          BY <2>1, <3>2 DEF Ledgered, LedgerLate
        <4>2. Late' = IF a \in Tagged /\ updates[a] # Nil /\ updates[a].isNew THEN Late \cup {a} ELSE Late
          BY <2>1, ReconciliationAssumption DEF Late, RInv, RTypeOK
        <4> QED BY <4>1, <4>2
      <3> QED BY <3>1, <3>2
    <2> QED BY <1>1, <1>2, <2>2, <2>3 DEF AsLedger!Register, LedgerHeld, LedgerLate, LedgerBalance, Ledgered
  <1>4. CASE PreCreate /\ UNCHANGED <<db, updates>>
    <2>1. pc \notin {"idle", "checkpoint"} /\ pc' \notin {"idle", "checkpoint"}
      BY <1>4 DEF PreCreate
    <2> QED BY <1>1, <1>2, <1>4, <2>1 DEF LedgerHeld, LedgerLate, Late
  <1>5. ASSUME NEW a \in fetched, PreCreate, db' = [db EXCEPT ![a] = Created(a)],
               updates' = [updates EXCEPT ![a].isNew = FALSE]
        PROVE  AsLedger!Next
    <2>1. a \in Tagged /\ a \in Accounts /\ updates[a] \in Planned /\ pc = "create" /\ pc' \in {"create", "log"}
      BY <1>5, ReconciliationAssumption DEF RInv, RTypeOK, NoneForgotten, Phases, PreCreate
    <2>2. Created(a) # NoAccount
      BY <2>1, ReconciliationAssumption DEF Created, Account
    <2>3. LedgerHeld' = LedgerHeld \cup {a}
      BY <1>5, <2>1, <2>2 DEF LedgerHeld, RInv, RTypeOK
    <2>4. Ledgered = "running" /\ LedgerLate = Late /\ LedgerLate' = Late'
      BY <2>1 DEF Ledgered, LedgerLate
    <2>5. PICK u \in Planned : u.isNew = FALSE /\ updates' = [updates EXCEPT ![a] = u]
      <3>1. [updates[a] EXCEPT !.isNew = FALSE] \in Planned /\ [updates[a] EXCEPT !.isNew = FALSE].isNew = FALSE
        BY <2>1 DEF Planned
      <3> QED BY <1>5, <3>1
    <2>6. a \notin Late'
      BY <2>1, <2>5 DEF Late, RInv, RTypeOK
    <2>7. ASSUME NEW b \in Tagged, b # a PROVE b \in Late' <=> b \in Late
      <3>1. updates'[b] = updates[b] /\ db'[b] = db[b]
        BY <1>5, <2>5, <2>7, ReconciliationAssumption DEF RInv, RTypeOK
      <3> QED BY <3>1 DEF Late
    <2>8. Late' = Late \ {a}
      <3>1. Late \subseteq Tagged /\ Late' \subseteq Tagged
        BY DEF Late
      <3> QED BY <2>6, <2>7, <3>1
    <2>9. CASE db[a] = NoAccount
      <3>1. a \notin LedgerHeld /\ a \notin Late
        BY <2>9 DEF LedgerHeld, Late
      <3>2. AsLedger!Register(a)
        BY <1>1, <1>2, <2>3, <2>4, <2>8, <3>1
           DEF AsLedger!Register, LedgerHeld, LedgerLate, LedgerBalance, Ledgered
      <3> QED BY <2>1, <3>2 DEF AsLedger!Next
    <2>10. CASE db[a] # NoAccount
      <3>1. LedgerHeld' = LedgerHeld
        BY <2>1, <2>3, <2>10 DEF LedgerHeld
      <3>2. AsLedger!Recognise(a)
        BY <1>1, <1>2, <2>4, <2>8, <3>1
           DEF AsLedger!Recognise, LedgerHeld, LedgerLate, LedgerBalance, Ledgered
      <3> QED BY <2>1, <3>2 DEF AsLedger!Next
    <2> QED BY <2>9, <2>10
  <1>6. CASE PreCreate
    BY <1>4, <1>5, <1>6 DEF PreCreate
  <1>7. CASE \E a \in Accounts : AccountPage(a)
    BY <1>3, <1>7 DEF AsLedger!Next
  <1> QED BY <1>6, <1>7

\* Every step of a reconciliation is a step of the ledger or leaves it alone.
LEMMA LedgerStep ==
  RInv /\ [Next]_vars
    => [AsLedger!Next]_<<LedgerBalance, LedgerHeld, LedgerLate, posted, Ledgered>>
  <1> SUFFICES ASSUME RInv, [Next]_vars
               PROVE  AsLedger!Next \/ UNCHANGED <<LedgerBalance, LedgerHeld, LedgerLate, posted, Ledgered>>
    OBVIOUS
  <1>1. CASE Commit /\ pc' = "checkpoint"
    BY <1>1, CommitPosts DEF AsLedger!Next
  <1>2. CASE ~(Commit /\ pc' = "checkpoint")
    <2>1. \A a \in Accounts : Balance(a)' = Balance(a)
      BY <1>2, BalancesStay
    <2>2. LedgerBalance' = LedgerBalance
      BY <2>1 DEF LedgerBalance
    <2>3. result \in {"idle", "ok", "error", "crashed"}
      BY DEF RInv, RTypeOK
    <2> DEFINE Same == UNCHANGED <<LedgerBalance, LedgerHeld, posted>>
    <2>4. CASE \E e \in Entries : Start(e)
      <3>1. Same /\ Ledgered \in {"idle", "ok", "error", "crashed"} /\ LedgerLate = {} /\ LedgerLate' = {}
        BY <2>2, <2>3, <2>4 DEF Start, Ledgered, LedgerHeld, LedgerLate, Late
      <3>2. Ledgered' = "running" \/ (Tagged = {} /\ Ledgered' = "ok")
        BY <2>4 DEF Start, Ledgered
      <3> QED BY <3>1, <3>2 DEF AsLedger!Next, AsLedger!Begin, AsLedger!Skip, AsLedger!Over,
                                LedgerBalance, LedgerHeld, LedgerLate, Ledgered
    <2>5. CASE Checkpoint
      <3>1. Same /\ Ledgered = "applied" /\ Ledgered' = "ok" /\ LedgerLate = {} /\ LedgerLate' = {}
        BY <2>2, <2>5 DEF Checkpoint, Return, Ledgered, LedgerHeld, LedgerLate
      <3> QED BY <3>1 DEF AsLedger!Next, AsLedger!Succeed, LedgerBalance, LedgerHeld, LedgerLate, Ledgered
    <2>6. CASE Crash
      <3>1. Same /\ Ledgered \in {"running", "applied"} /\ Ledgered' = "crashed" /\ LedgerLate' = {}
        BY <2>2, <2>6 DEF Crash, Ledgered, LedgerHeld, LedgerLate
      <3> QED BY <3>1 DEF AsLedger!Next, AsLedger!Crash, LedgerBalance, LedgerHeld, LedgerLate, Ledgered
    <2>7. CASE Collect \/ WriteEvent \/ Flush \/ Commit
      <3>1. Same /\ Ledgered = "running" /\ UNCHANGED <<db, updates>>
            /\ pc' \notin {"checkpoint"} /\ (pc' = "idle" => Ledgered' = "error")
        BY <1>2, <2>2, <2>7 DEF Collect, WriteEvent, Flush, Commit, Return, Ledgered, LedgerHeld
      <3>2. CASE pc' = "idle"
        <4>1. LedgerLate' = {} /\ Ledgered' = "error"
          BY <3>1, <3>2 DEF LedgerLate
        <4> QED BY <3>1, <4>1 DEF AsLedger!Next, AsLedger!Fail, LedgerBalance, LedgerHeld, LedgerLate, Ledgered
      <3>3. CASE pc' # "idle"
        <4>1. Ledgered' = Ledgered /\ LedgerLate' = LedgerLate
          BY <2>3, <2>7, <3>1, <3>3 DEF Ledgered, LedgerLate, Late, Collect, WriteEvent, Flush, Commit
        <4> QED BY <3>1, <4>1
      <3> QED BY <3>2, <3>3
    <2>8. ASSUME NEW g \in Goroutines, PlanUpdate(g)
          PROVE  AsLedger!Next \/ UNCHANGED <<LedgerBalance, LedgerHeld, LedgerLate, posted, Ledgered>>
      <3> DEFINE a == task[g].acct
      <3>1. /\ Same /\ UNCHANGED <<db, pc, result>> /\ pc = "compute" /\ a \in Tagged /\ a \in Accounts
        BY <2>2, <2>8, ReconciliationAssumption DEF PlanUpdate, LedgerHeld, RInv, RTypeOK, TasksOK, Task
      <3>2. Ledgered = "running" /\ Ledgered' = Ledgered /\ LedgerLate = Late /\ LedgerLate' = Late'
        BY <3>1 DEF Ledgered, LedgerLate
      <3>3. UNCHANGED updates \/ updates' = [updates EXCEPT ![a] = Update(a, task[g].delta)]
        BY <2>8 DEF PlanUpdate
      <3>4. CASE UNCHANGED updates
        BY <3>1, <3>2, <3>4 DEF Late
      <3>5. CASE updates' = [updates EXCEPT ![a] = Update(a, task[g].delta)]
        <4>1. a \notin Late'
          <5>1. updates'[a].isNew = (db[a] = NoAccount)
            BY <3>1, <3>5 DEF Update, RInv, RTypeOK
          <5> QED BY <3>1, <5>1 DEF Late
        <4>2. ASSUME NEW b \in Tagged, b # a PROVE b \in Late' <=> b \in Late
          <5>1. updates'[b] = updates[b] /\ db'[b] = db[b]
            BY <3>1, <3>5, <4>2 DEF RInv, RTypeOK
          <5> QED BY <5>1 DEF Late
        <4>3. Late' = Late \ {a}
          <5>1. Late \subseteq Tagged /\ Late' \subseteq Tagged
            BY DEF Late
          <5> QED BY <4>1, <4>2, <5>1
        <4>4. AsLedger!Recognise(a)
          BY <3>1, <3>2, <4>3 DEF AsLedger!Recognise, LedgerBalance, LedgerHeld, LedgerLate, Ledgered
        <4> QED BY <3>1, <4>4 DEF AsLedger!Next
      <3> QED BY <3>3, <3>4, <3>5
    <2>9. CASE PreCreate \/ \E a \in Accounts : AccountPage(a)
      BY <2>1, <2>9, CreateRegisters
    <2>10. CASE \/ \E g \in Goroutines : TakeAccount(g) \/ LookUp(g) \/ ReadHeader(g)
                \/ UNCHANGED vars
      <3>1. UNCHANGED <<db, updates, pc, result, posted>>
        BY <2>10 DEF TakeAccount, LookUp, ReadHeader, vars
      <3> QED BY <2>2, <3>1 DEF LedgerHeld, LedgerLate, Late, Ledgered
    <2>11. CASE FetchAccounts
      <3>1. UNCHANGED <<db, updates, result, posted>> /\ pc = "fetch" /\ pc' \in {"create", "log"}
        BY <2>11 DEF FetchAccounts
      <3> QED BY <2>2, <3>1 DEF LedgerHeld, LedgerLate, Late, Ledgered
    <2> QED BY <2>4, <2>5, <2>6, <2>7, <2>8, <2>9, <2>10, <2>11 DEF Next, Call, Compute
  <1> QED BY <1>1, <1>2

\* A reconciliation implements the ledger: it posts the effect of its range to all tagged
\* accounts in one step, short of nothing but fee shares and accounts a page registered
\* meanwhile, or fails with every balance as it was.
THEOREM Refinement == Spec => ImplementsLedger
  <1>1. Init => AsLedger!Init
    BY DEF Init, AsLedger!Init, Balance
  <1> QED BY <1>1, LedgerStep, RInvariant, PTL
          DEF Spec, ImplementsLedger, AsLedger!Spec, AsLedger!lvars, Ledgered, LedgerHeld, LedgerLate, LedgerBalance

-----------------------------------------------------------------------------
(* The header cache.                                                       *)

\* removeFromLinkedList takes out one node and keeps the order of the others.
LEMMA UnlinkProperties ==
  ASSUME NEW S, NEW s \in Seq(S), NEW b \in Range(s), Distinct(s)
  PROVE  /\ Unlink(s, b) \in Seq(S) /\ Len(Unlink(s, b)) = Len(s) - 1
         /\ Range(Unlink(s, b)) = Range(s) \ {b} /\ Distinct(Unlink(s, b))
  <1> DEFINE k == CHOOSE i \in 1..Len(s) : s[i] = b
             u == SubSeq(s, 1, k - 1)
             v == SubSeq(s, k + 1, Len(s))
             r == Unlink(s, b)
  <1>1. Len(s) \in Nat /\ DOMAIN s = 1..Len(s) /\ \A i \in 1..Len(s) : s[i] \in S
    OBVIOUS
  <1>2. k \in 1..Len(s) /\ s[k] = b
    BY <1>1 DEF Range
  <1>3. r = u \o v
    BY DEF Unlink, RemoveAt
  <1> HIDE DEF k
  <1>4. u \in Seq(S) /\ Len(u) = k - 1 /\ \A i \in 1..k - 1 : u[i] = s[i]
    <2>1. \A i \in 1..k - 1 : s[i] \in S
      BY <1>1, <1>2
    <2> QED BY <1>1, <1>2, <2>1, SubSeqProperties
  <1>5. v \in Seq(S) /\ Len(v) = Len(s) - k /\ \A i \in 1..Len(s) - k : v[i] = s[k + i]
    <2>1. \A i \in k + 1..Len(s) : s[i] \in S
      BY <1>1, <1>2
    <2>2. /\ v \in Seq(S) /\ Len(v) = IF k + 1 <= Len(s) THEN Len(s) - (k + 1) + 1 ELSE 0
          /\ \A i \in 1..Len(s) - (k + 1) + 1 : v[i] = s[(k + 1) + i - 1]
      BY <1>1, <1>2, <2>1, SubSeqProperties
    <2> HIDE DEF v
    <2>3. Len(v) = Len(s) - k
      <3>1. CASE k = Len(s)
        BY <1>1, <2>2, <3>1
      <3>2. CASE k # Len(s)
        <4>1. \A n \in Nat : \A j \in 1..n : j # n => j + 1 <= n /\ n - (j + 1) + 1 = n - j
          OBVIOUS
        <4>2. k + 1 <= Len(s) /\ Len(s) - (k + 1) + 1 = Len(s) - k
          BY <1>1, <1>2, <3>2, <4>1
        <4> QED BY <2>2, <4>2
      <3> QED BY <3>1, <3>2
    <2>4. ASSUME NEW i \in 1..Len(s) - k PROVE v[i] = s[k + i]
      <3>1. i \in 1..Len(s) - (k + 1) + 1 /\ (k + 1) + i - 1 = k + i
        BY <1>1, <1>2
      <3> QED BY <2>2, <3>1
    <2> QED BY <2>2, <2>3, <2>4
  <1> HIDE DEF u, v
  <1>6. /\ r \in Seq(S) /\ Len(r) = Len(s) - 1
        /\ \A i \in 1..Len(s) - 1 : r[i] = IF i < k THEN s[i] ELSE s[i + 1]
    <2>1. /\ u \o v \in Seq(S) /\ Len(u \o v) = Len(u) + Len(v)
          /\ \A i \in 1..Len(u) + Len(v) : (u \o v)[i] = IF i <= Len(u) THEN u[i] ELSE v[i - Len(u)]
      BY <1>4, <1>5, ConcatProperties
    <2>2. Len(u) + Len(v) = Len(s) - 1
      BY <1>1, <1>2, <1>4, <1>5
    <2>3. ASSUME NEW i \in 1..Len(s) - 1 PROVE (u \o v)[i] = IF i < k THEN s[i] ELSE s[i + 1]
      <3>1. (u \o v)[i] = IF i <= k - 1 THEN u[i] ELSE v[i - (k - 1)]
        BY <1>4, <2>1, <2>2
      <3>2. CASE i < k
        BY <1>1, <1>2, <1>4, <3>1, <3>2
      <3>3. CASE ~(i < k)
        <4>1. i - (k - 1) \in 1..Len(s) - k /\ k + (i - (k - 1)) = i + 1 /\ ~(i <= k - 1)
          BY <1>1, <1>2, <3>3
        <4>2. v[i - (k - 1)] = s[i + 1]
          BY <1>5, <4>1
        <4> QED BY <3>1, <3>3, <4>1, <4>2
      <3> QED BY <3>2, <3>3
    <2> QED BY <1>3, <2>1, <2>2, <2>3
  <1> HIDE DEF r
  <1>7. Distinct(r)
    <2> SUFFICES ASSUME NEW i \in 1..Len(s) - 1, NEW j \in 1..Len(s) - 1, r[i] = r[j] PROVE i = j
      BY <1>6 DEF Distinct
    <2> QED BY <1>1, <1>2, <1>6 DEF Distinct
  <1>8. Range(r) = Range(s) \ {b}
    <2>1. /\ \A x : x \in Range(r) <=> \E i \in 1..Len(s) - 1 : x = r[i]
          /\ \A x : x \in Range(s) <=> \E i \in 1..Len(s) : x = s[i]
      BY <1>1, <1>6 DEF Range
    <2>2. ASSUME NEW i \in 1..Len(s) - 1 PROVE r[i] \in Range(s) /\ r[i] # b
      BY <1>1, <1>2, <1>6, <2>1 DEF Distinct
    <2>3. ASSUME NEW i \in 1..Len(s), s[i] # b PROVE s[i] \in Range(r)
      <3>1. CASE i < k
        BY <1>1, <1>2, <1>6, <2>1, <3>1
      <3>2. CASE i > k
        <4>1. i - 1 \in 1..Len(s) - 1 /\ ~(i - 1 < k) /\ (i - 1) + 1 = i
          BY <1>1, <1>2, <3>2
        <4> QED BY <1>6, <2>1, <4>1
      <3> QED BY <1>1, <1>2, <2>3, <3>1, <3>2
    <2> QED BY <2>1, <2>2, <2>3
  <1> QED BY <1>6, <1>7, <1>8 DEF r

\* A key that is not in the list is inserted at its head.
LEMMA InsertProperties ==
  ASSUME NEW S, NEW s \in Seq(S), NEW b \in S, b \notin Range(s), Distinct(s)
  PROVE  /\ <<b>> \o s \in Seq(S) /\ Len(<<b>> \o s) = Len(s) + 1
         /\ Range(<<b>> \o s) = Range(s) \cup {b} /\ Distinct(<<b>> \o s)
  <1> DEFINE r == <<b>> \o s
  <1>1. Len(s) \in Nat /\ DOMAIN s = 1..Len(s)
    OBVIOUS
  <1>2. r \in Seq(S) /\ Len(r) = Len(s) + 1 /\ \A i \in 1..Len(s) + 1 : r[i] = IF i = 1 THEN b ELSE s[i - 1]
    <2>1. <<b>> \in Seq(S) /\ Len(<<b>>) = 1 /\ <<b>>[1] = b
      OBVIOUS
    <2>2. /\ r \in Seq(S) /\ Len(r) = 1 + Len(s)
          /\ \A i \in 1..1 + Len(s) : r[i] = IF i <= 1 THEN <<b>>[i] ELSE s[i - 1]
      BY <2>1, ConcatProperties
    <2> QED BY <1>1, <2>1, <2>2
  <1> HIDE DEF r
  <1>3. \A i \in 1..Len(s) : s[i] # b
    BY <1>1 DEF Range
  <1>4. Distinct(r)
    <2> SUFFICES ASSUME NEW i \in 1..Len(s) + 1, NEW j \in 1..Len(s) + 1, r[i] = r[j] PROVE i = j
      BY <1>2 DEF Distinct
    <2> QED BY <1>1, <1>2, <1>3 DEF Distinct
  <1>5. Range(r) = Range(s) \cup {b}
    <2>1. /\ \A x : x \in Range(r) <=> \E i \in 1..Len(s) + 1 : x = r[i]
          /\ \A x : x \in Range(s) <=> \E i \in 1..Len(s) : x = s[i]
      BY <1>1, <1>2 DEF Range
    <2>2. r[1] = b /\ 1 \in 1..Len(s) + 1
      BY <1>1, <1>2
    <2>3. \A i \in 1..Len(s) : i + 1 \in 1..Len(s) + 1 /\ r[i + 1] = s[i]
      BY <1>1, <1>2
    <2>4. \A i \in 1..Len(s) + 1 : i = 1 \/ (i - 1 \in 1..Len(s) /\ r[i] = s[i - 1])
      BY <1>1, <1>2
    <2>5. ASSUME NEW x \in Range(r) PROVE x \in Range(s) \cup {b}
      BY <2>1, <2>2, <2>4
    <2>6. ASSUME NEW x \in Range(s) \cup {b} PROVE x \in Range(r)
      BY <2>1, <2>2, <2>3
    <2> QED BY <2>5, <2>6
  <1> QED BY <1>2, <1>4, <1>5 DEF r

\* removeTail takes out the last node.
LEMMA FrontProperties ==
  ASSUME NEW S, NEW s \in Seq(S), s # <<>>, Distinct(s)
  PROVE  /\ Front(s) \in Seq(S) /\ Len(Front(s)) = Len(s) - 1 /\ Last(s) \in Range(s)
         /\ Range(Front(s)) = Range(s) \ {Last(s)} /\ Distinct(Front(s))
  <1> DEFINE r == Front(s)  n == Len(s)
  <1>1. n \in Nat \ {0} /\ n = Len(s) /\ DOMAIN s = 1..n /\ \A i \in 1..n : s[i] \in S
    OBVIOUS
  <1>2. r \in Seq(S) /\ Len(r) = n - 1 /\ \A i \in 1..n - 1 : r[i] = s[i]
    <2>1. \A i \in 1..n - 1 : s[i] \in S
      BY <1>1
    <2>2. /\ SubSeq(s, 1, n - 1) \in Seq(S) /\ Len(SubSeq(s, 1, n - 1)) = IF 1 <= n - 1 THEN n - 1 - 1 + 1 ELSE 0
          /\ \A i \in 1..n - 1 - 1 + 1 : SubSeq(s, 1, n - 1)[i] = s[1 + i - 1]
      BY <1>1, <2>1, SubSeqProperties
    <2>3. \A i \in 1..n - 1 : i \in 1..n - 1 - 1 + 1 /\ 1 + i - 1 = i
      BY <1>1
    <2> HIDE DEF n
    <2> QED BY <1>1, <2>2, <2>3 DEF Front
  <1> HIDE DEF r, n
  <1>3. Distinct(r)
    BY <1>1, <1>2 DEF Distinct
  <1>4. Last(s) = s[n] /\ Last(s) \in Range(s)
    BY <1>1 DEF Last, Range
  <1>5. Range(r) = Range(s) \ {Last(s)}
    <2>1. /\ \A x : x \in Range(r) <=> \E i \in 1..n - 1 : x = r[i]
          /\ \A x : x \in Range(s) <=> \E i \in 1..n : x = s[i]
      BY <1>1, <1>2 DEF Range
    <2>2. \A i \in 1..n - 1 : s[i] # s[n] /\ i \in 1..n
      BY <1>1 DEF Distinct
    <2>3. \A i \in 1..n : i = n \/ i \in 1..n - 1
      BY <1>1
    <2>4. ASSUME NEW x \in Range(r) PROVE x \in Range(s) \ {Last(s)}
      BY <1>2, <1>4, <2>1, <2>2
    <2>5. ASSUME NEW x \in Range(s), x # Last(s) PROVE x \in Range(r)
      BY <1>2, <1>4, <2>1, <2>3, <2>5
    <2> QED BY <2>4, <2>5
  <1> QED BY <1>1, <1>2, <1>3, <1>4, <1>5 DEF r

\* A new cache is empty and in order.
LEMMA NewCacheOK == CacheOK(NewLRUCache)
  <1>1. Len(<<>>) = 0 /\ Range(<<>>) = {} /\ <<>> \in Seq(DOMAIN Headers)
    BY DEF Range
  <1> QED BY <1>1, FS_EmptySet, ReconciliationAssumption DEF CacheOK, NewLRUCache, Distinct

\* A hit moves the key to the head: the keys and their number stay.
LEMMA GetKeepsCache ==
  ASSUME NEW c, CacheOK(c), NEW b \in c.keys
  PROVE  CacheOK(CacheGet(c, b))
  <1> DEFINE u == Unlink(c.list, b)  d == CacheGet(c, b)
  <1>1. /\ c.list \in Seq(DOMAIN Headers) /\ b \in DOMAIN Headers /\ b \in Range(c.list) /\ Distinct(c.list)
        /\ Len(c.list) \in Nat
    BY DEF CacheOK
  <1>2. /\ u \in Seq(DOMAIN Headers) /\ Len(u) = Len(c.list) - 1
        /\ Range(u) = Range(c.list) \ {b} /\ Distinct(u)
    BY <1>1, UnlinkProperties
  <1> HIDE DEF u
  <1>3. /\ <<b>> \o u \in Seq(DOMAIN Headers) /\ Len(<<b>> \o u) = Len(u) + 1
        /\ Range(<<b>> \o u) = Range(u) \cup {b} /\ Distinct(<<b>> \o u)
    BY <1>1, <1>2, InsertProperties
  <1>4. d = [list |-> <<b>> \o u, keys |-> c.keys, size |-> c.size]
    <2>1. c = [list |-> c.list, keys |-> c.keys, size |-> c.size]
      BY DEF CacheOK
    <2>2. \A x : [c EXCEPT !.list = x] = [list |-> x, keys |-> c.keys, size |-> c.size]
      BY <2>1
    <2>3. d = [c EXCEPT !.list = <<b>> \o u]
      BY DEF CacheGet, u
    <2> QED BY <2>2, <2>3
  <1> HIDE DEF d
  <1>5. Range(<<b>> \o u) = Range(c.list) /\ Len(<<b>> \o u) = Len(c.list)
    <2>1. (Range(c.list) \ {b}) \cup {b} = Range(c.list)
      BY <1>1
    <2>2. (Len(c.list) - 1) + 1 = Len(c.list)
      BY <1>1
    <2> QED BY <1>2, <1>3, <2>1, <2>2
  <1>6. CacheOK(d)
    BY <1>3, <1>4, <1>5 DEF CacheOK
  <1> QED BY <1>6 DEF d

\* Put takes out an older entry of the key, or makes room when the cache is full,
\* and then inserts the key at the head.
LEMMA PutInserts ==
  ASSUME NEW c, CacheOK(c), NEW b \in DOMAIN Headers
  PROVE  \E l \in Seq(DOMAIN Headers) :
           /\ Distinct(l) /\ b \notin Range(l) /\ Len(l) < Capacity
           /\ IsFiniteSet(Range(l)) /\ Cardinality(Range(l)) = Len(l)
           /\ CachePut(c, b) = [list |-> <<b>> \o l, keys |-> Range(l) \cup {b}, size |-> Len(l) + 1]
  <1> DEFINE out == IF b \in c.keys THEN [c EXCEPT !.list = Unlink(@, b), !.size = @ - 1] ELSE c
             kept == IF out.size >= Capacity /\ out.list # <<>>
                     THEN [list |-> Front(out.list), keys |-> out.keys \ {Last(out.list)}, size |-> out.size - 1]
                     ELSE out
  <1>1. CachePut(c, b) = [list |-> <<b>> \o kept.list, keys |-> kept.keys \cup {b}, size |-> kept.size + 1]
    BY DEF CachePut
  <1>2. /\ c = [list |-> c.list, keys |-> c.keys, size |-> c.size]
        /\ c.list \in Seq(DOMAIN Headers) /\ Distinct(c.list)
        /\ c.keys = Range(c.list) /\ c.size = Len(c.list) /\ Len(c.list) \in Nat
        /\ IsFiniteSet(Range(c.list)) /\ Cardinality(Range(c.list)) = Len(c.list) /\ Len(c.list) <= Capacity
    BY DEF CacheOK
  <1>3. Capacity \in Nat /\ Capacity > 0
    BY ReconciliationAssumption
  <1>4. CASE b \in c.keys
    <2> DEFINE u == Unlink(c.list, b)
    <2>1. /\ u \in Seq(DOMAIN Headers) /\ Len(u) = Len(c.list) - 1
          /\ Range(u) = Range(c.list) \ {b} /\ Distinct(u)
      BY <1>2, <1>4, UnlinkProperties
    <2>2. out = [list |-> u, keys |-> c.keys, size |-> Len(u)]
      BY <1>2, <1>4, <2>1
    <2> HIDE DEF u, out
    <2>3. Len(u) < Capacity /\ kept = [list |-> u, keys |-> c.keys, size |-> Len(u)]
      BY <1>2, <1>3, <2>1, <2>2
    <2>4. c.keys \cup {b} = Range(u) \cup {b} /\ b \notin Range(u)
      BY <1>2, <1>4, <2>1
    <2>5. IsFiniteSet(Range(u)) /\ Cardinality(Range(u)) = Len(u)
      <3>1. IsFiniteSet(Range(c.list) \ {b}) /\ Cardinality(Range(c.list) \ {b}) = Cardinality(Range(c.list)) - 1
        <4>1. b \in Range(c.list) /\ IsFiniteSet(Range(c.list))
          BY <1>2, <1>4
        <4> QED BY <4>1, FS_RemoveElement
      <3> QED BY <1>2, <2>1, <3>1
    <2> HIDE DEF kept
    <2>6. CachePut(c, b) = [list |-> <<b>> \o u, keys |-> Range(u) \cup {b}, size |-> Len(u) + 1]
      BY <1>1, <2>3, <2>4
    <2> QED BY <2>1, <2>3, <2>4, <2>5, <2>6
  <1>5. CASE b \notin c.keys
    <2>1. out = c
      BY <1>5
    <2> HIDE DEF out
    <2>2. CASE c.size >= Capacity /\ c.list # <<>>
      <3> DEFINE f == Front(c.list)
      <3>1. /\ f \in Seq(DOMAIN Headers) /\ Len(f) = Len(c.list) - 1 /\ Last(c.list) \in Range(c.list)
            /\ Range(f) = Range(c.list) \ {Last(c.list)} /\ Distinct(f)
        BY <1>2, <2>2, FrontProperties
      <3>2. kept = [list |-> f, keys |-> Range(f), size |-> Len(f)]
        BY <1>2, <2>1, <2>2, <3>1
      <3> HIDE DEF f, kept
      <3>3. Len(f) < Capacity /\ b \notin Range(f)
        BY <1>2, <1>3, <1>5, <3>1
      <3>4. IsFiniteSet(Range(f)) /\ Cardinality(Range(f)) = Len(f)
        <4>1. /\ IsFiniteSet(Range(c.list) \ {Last(c.list)})
              /\ Cardinality(Range(c.list) \ {Last(c.list)}) = Cardinality(Range(c.list)) - 1
          BY <1>2, <3>1, FS_RemoveElement
        <4> QED BY <1>2, <3>1, <4>1
      <3>5. CachePut(c, b) = [list |-> <<b>> \o f, keys |-> Range(f) \cup {b}, size |-> Len(f) + 1]
        BY <1>1, <3>2
      <3> QED BY <3>1, <3>3, <3>4, <3>5
    <2>3. CASE ~(c.size >= Capacity /\ c.list # <<>>)
      <3>1. kept = c
        BY <2>1, <2>3
      <3> HIDE DEF kept
      <3>2. Len(c.list) < Capacity
        BY <1>2, <1>3, <2>3
      <3>3. CachePut(c, b) = [list |-> <<b>> \o c.list, keys |-> Range(c.list) \cup {b}, size |-> Len(c.list) + 1]
        BY <1>1, <1>2, <3>1
      <3> QED BY <1>2, <1>5, <3>2, <3>3
    <2> QED BY <2>2, <2>3
  <1> QED BY <1>4, <1>5

\* A header read from the database is cached once, within the capacity.
LEMMA PutKeepsCache ==
  ASSUME NEW c, CacheOK(c), NEW b \in DOMAIN Headers
  PROVE  CacheOK(CachePut(c, b))
  <1>1. PICK l \in Seq(DOMAIN Headers) :
           /\ Distinct(l) /\ b \notin Range(l) /\ Len(l) < Capacity
           /\ IsFiniteSet(Range(l)) /\ Cardinality(Range(l)) = Len(l)
           /\ CachePut(c, b) = [list |-> <<b>> \o l, keys |-> Range(l) \cup {b}, size |-> Len(l) + 1]
    BY PutInserts
  <1>2. /\ <<b>> \o l \in Seq(DOMAIN Headers) /\ Len(<<b>> \o l) = Len(l) + 1
        /\ Range(<<b>> \o l) = Range(l) \cup {b} /\ Distinct(<<b>> \o l)
    BY <1>1, InsertProperties
  <1>3. IsFiniteSet(Range(l) \cup {b}) /\ Cardinality(Range(l) \cup {b}) = Len(l) + 1
    BY <1>1, FS_AddElement
  <1>4. Len(l) \in Nat /\ Len(l) + 1 \in Nat /\ Len(l) + 1 <= Capacity
    BY <1>1, ReconciliationAssumption
  <1>5. Range(l) \cup {b} \subseteq DOMAIN Headers
    BY RangeOfSeq
  <1> QED BY <1>1, <1>2, <1>3, <1>4, <1>5 DEF CacheOK

\* Every step keeps the cache in order.
LEMMA CacheStep == RInv /\ CacheOK(lru) /\ [Next]_vars => CacheOK(lru)'
  <1> SUFFICES ASSUME RInv, CacheOK(lru), [Next]_vars PROVE CacheOK(lru')
    BY DEF CacheOK, Distinct
  <1>1. CASE UNCHANGED lru
    BY <1>1
  <1>2. CASE lru' = NewLRUCache
    BY <1>2, NewCacheOK
  <1>3. ASSUME NEW g \in Goroutines, LookUp(g), Tx(g).block \in lru.keys PROVE CacheOK(lru')
    BY <1>3, GetKeepsCache DEF LookUp
  <1>4. ASSUME NEW g \in Goroutines, ReadHeader(g), lru' = CachePut(lru, Tx(g).block) PROVE CacheOK(lru')
    <2>1. task[g] \in Task /\ task[g].pc = "miss"
      BY <1>4 DEF ReadHeader, RInv, RTypeOK
    <2>2. /\ task[g].acct \in Accounts /\ task[g].i \in 1..Len(Txs[task[g].acct]) + 1
          /\ task[g].i <= Len(Txs[task[g].acct])
      BY <2>1, ReconciliationAssumption DEF RInv, TasksOK, Task
    <2>3. Tx(g) \in Transaction
      <3>1. Txs[task[g].acct] \in Seq(Transaction) /\ task[g].i \in 1..Len(Txs[task[g].acct])
        BY <2>2, ReconciliationAssumption, EffectsType
      <3> QED BY <3>1, ElementOfSeq DEF Tx
    <2>4. Tx(g).block \in DOMAIN Headers
      BY <2>3 DEF Transaction
    <2> QED BY <1>4, <2>4, PutKeepsCache
  <1> QED BY <1>1, <1>2, <1>3, <1>4 DEF Next, Call, Compute, vars, Start, TakeAccount, LookUp, ReadHeader,
          PlanUpdate, Collect, FetchAccounts, PreCreate, WriteEvent, Flush, Commit, Checkpoint, AccountPage, Crash

\* The cache's map, list and counter agree and stay within the capacity, whatever
\* lookups the goroutines interleave.
THEOREM CacheCorrect == Spec => []CacheConsistent
  <1>1. Init => CacheOK(lru)
    BY NewCacheOK DEF Init
  <1>2. CacheOK(lru) => CacheConsistent
    BY DEF CacheOK, CacheConsistent
  <1> QED BY <1>1, <1>2, CacheStep, RInvariant, PTL DEF Spec

==============================================================================

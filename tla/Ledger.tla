------------------------------- MODULE Ledger -------------------------------
(***************************************************************************)
(* What a reconciliation promises about the account table.  A call posts   *)
(* the net effect of its block range to every tagged account in one step,  *)
(* or answers with an error and posts nothing; accounts registered on the  *)
(* way, with balance zero, stay registered either way.  A balance never    *)
(* falls below zero.  Two things may be missing from a posting, and        *)
(* nothing else: fee shares of a block whose header could not be read, and *)
(* the whole effect on an account somebody else registered while the call  *)
(* was running.  Every call that reaches its posting posts: the ledger     *)
(* counts the postings, and a call repeated after an answer or a crash     *)
(* posts the range once more.                                              *)
(***************************************************************************)
EXTENDS Integers

CONSTANTS
  Accounts, Tagged,
  Opening, Held,  \* the balances and the registered accounts at the start
  Effect,         \* per account, the net effect of the range
  FeeShares       \* per account, the part of its effect that are fee shares

VARIABLES
  balance, held,
  late,           \* accounts another writer registered after this call planned to create them
  posted,         \* how often the range was posted
  state           \* "idle", "running", "applied", and the outcomes "ok", "error", "crashed"

lvars == <<balance, held, late, posted, state>>

NotNegative(n) == IF n < 0 THEN 0 ELSE n
Over == {"idle", "ok", "error", "crashed"}

Init == balance = Opening /\ held = Held /\ late = {} /\ posted = 0 /\ state = "idle"

Begin == state \in Over /\ state' = "running" /\ UNCHANGED <<balance, held, late, posted>>

\* An account is registered, by the call itself or by somebody else.
Register(a) ==
  /\ a \notin held /\ held' = held \cup {a}
  /\ \/ late' = late
     \/ state = "running" /\ late' = late \cup {a}
  /\ UNCHANGED <<balance, posted, state>>

\* The call finds an account it was going to create registered, and will update it.
Recognise(a) == state = "running" /\ late' = late \ {a} /\ UNCHANGED <<balance, held, posted, state>>

Apply ==
  /\ state = "running" /\ state' = "applied"
  /\ held' = held \cup Tagged /\ late' = {} /\ posted' = posted + 1
  /\ DOMAIN balance' = Accounts
  /\ \A a \in Accounts \ Tagged : balance'[a] = balance[a]
  /\ \A a \in Tagged :
       \/ \E short \in 0..FeeShares[a] : balance'[a] = NotNegative(balance[a] + Effect[a] - short)
       \/ a \in late /\ balance'[a] = balance[a]

Succeed == state = "applied" /\ state' = "ok" /\ UNCHANGED <<balance, held, late, posted>>

Fail == state = "running" /\ state' = "error" /\ late' = {} /\ UNCHANGED <<balance, held, posted>>

\* Nothing to do: success without a step.
Skip == state \in Over /\ Tagged = {} /\ state' = "ok" /\ UNCHANGED <<balance, held, late, posted>>

Crash == state \in {"running", "applied"} /\ state' = "crashed" /\ late' = {} /\ UNCHANGED <<balance, held, posted>>

Next == \/ Begin \/ Apply \/ Succeed \/ Fail \/ Skip \/ Crash
        \/ \E a \in Accounts : Register(a) \/ Recognise(a)

Spec == Init /\ [][Next]_lvars
=============================================================================

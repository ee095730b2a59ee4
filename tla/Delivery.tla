------------------------------ MODULE Delivery ------------------------------
(***************************************************************************)
(* What the server's side of an AccountSync session promises of the        *)
(* accounts a client is missing, however many goroutines, pages and        *)
(* retries it takes: each is settled at most once, as delivered, and then  *)
(* the client has stored it, or as failed; the summary counts the          *)
(* delivered ones; a good answer to a session that was not cancelled means *)
(* that all are settled; and after the answer nothing happens any more.    *)
(***************************************************************************)
EXTENDS Integers, FiniteSets

CONSTANT Owed   \* the accounts the client is missing

VARIABLES
  stored,             \* what the client has stored
  delivered, counted, \* what the summary reports as delivered, and how many
  failed,             \* what it reports as given up
  cancelled,          \* the session was cancelled
  answer              \* "none", "ok" or "error"

deliveryVars == <<stored, delivered, counted, failed, cancelled, answer>>

Unsettled == Owed \ (delivered \cup failed)

Init ==
  /\ stored = {} /\ delivered = {} /\ counted = 0 /\ failed = {}
  /\ cancelled = FALSE /\ answer = "none"

\* Accounts that the client stored without the server knowing.
Store ==
  /\ answer = "none"
  /\ \E page \in SUBSET Unsettled : stored' = stored \cup page
  /\ UNCHANGED <<delivered, counted, failed, cancelled, answer>>

Deliver ==
  /\ answer = "none"
  /\ \E page \in SUBSET Unsettled :
       /\ stored' = stored \cup page /\ delivered' = delivered \cup page
       /\ counted' = counted + Cardinality(page)
  /\ UNCHANGED <<failed, cancelled, answer>>

\* The client may have stored what is given up.
GiveUp ==
  /\ answer = "none"
  /\ \E page \in SUBSET Unsettled :
       stored' \in {stored, stored \cup page} /\ failed' = failed \cup page
  /\ UNCHANGED <<delivered, counted, cancelled, answer>>

Cancel ==
  /\ answer = "none" /\ cancelled' = TRUE
  /\ UNCHANGED <<stored, delivered, counted, failed, answer>>

Answer ==
  /\ answer = "none"
  /\ \/ answer' = "error"
     \/ answer' = "ok" /\ (cancelled \/ Unsettled = {})
  /\ UNCHANGED <<stored, delivered, counted, failed, cancelled>>

Next == Store \/ Deliver \/ GiveUp \/ Cancel \/ Answer

Spec == Init /\ [][Next]_deliveryVars
=============================================================================

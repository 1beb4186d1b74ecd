-------------------------- MODULE WithdrawalStates --------------------------
(***************************************************************************)
(* The vocabulary of the withdrawal subsystem, shared by the abstract book *)
(* of withdrawals (WithdrawalBook) and by the concurrent handlers          *)
(* (Withdrawals): request states, the transition table, circuit states and *)
(* the shape of a persisted withdrawal request.                            *)
(***************************************************************************)
EXTENDS Integers

CONSTANTS
  Users,        \* customers; each has one financial account in one asset
  Workspaces,   \* each has its own withdrawal circuit breaker
  WorkspaceOf,  \* the one workspace that workspace_for resolves for a user
  Keys,         \* idempotency keys (globally unique, they name the requests)
  Amounts,      \* amounts a request may ask for
  NoRequest     \* "no row with this idempotency key"

States == {"requested", "under_review", "approved", "executing", "completed",
           "rejected", "cancelled", "failed", "blocked"}

\* States whose entry posts withdrawal_reservation_release.
Releasing == {"rejected", "cancelled", "failed"}

TRANSITIONS ==
  [s \in States |->
     CASE s = "requested"    -> {"under_review", "cancelled", "blocked"}
       [] s = "under_review" -> {"approved", "rejected", "cancelled", "blocked"}
       [] s = "approved"     -> {"executing", "cancelled", "blocked"}
       [] s = "executing"    -> {"completed", "failed"}
       [] s = "blocked"      -> {"under_review", "cancelled"}
       [] OTHER              -> {}]

\* What the operations route lets a founder ask for: the execution states are
\* refused with 403 before the service is called.
RouteTargets == {"under_review", "approved", "rejected", "cancelled", "blocked"}

CircuitStates == {"enabled", "paused", "emergency_stop"}
Missing == "missing"    \* no circuit row: every use of it fails closed

Request == [user : Users, amount : Amounts, state : States]

ASSUME ConstantsAssumption ==
  /\ WorkspaceOf \in [Users -> Workspaces]
  /\ Amounts \subseteq Nat \ {0}
  /\ NoRequest \notin Request
=============================================================================

--------------------------- MODULE WithdrawalBook ---------------------------
(***************************************************************************)
(* What the withdrawal subsystem promises, with no handlers, no locks and  *)
(* no idempotency bookkeeping: money is reserved exactly once when a       *)
(* request is accepted, a decision follows the transition table, closing a *)
(* request gives its money back exactly once, and nothing is accepted or   *)
(* approved unless the workspace's circuit is enabled.                     *)
(***************************************************************************)
EXTENDS WithdrawalStates

CONSTANT InitialFunds

VARIABLES circuit, requests, available, reserved

bookVars == <<circuit, requests, available, reserved>>

BookInit ==
  /\ circuit \in [Workspaces -> {Missing, "enabled"}]
  /\ requests = [k \in Keys |-> NoRequest]
  /\ available = InitialFunds
  /\ reserved = [u \in Users |-> 0]

\* Accept a request: the circuit is on and the money is there.
Accept(u, k, a) ==
  /\ requests[k] = NoRequest
  /\ circuit[WorkspaceOf[u]] = "enabled"
  /\ a =< available[u]
  /\ requests' = [requests EXCEPT ![k] =
                    [user |-> u, amount |-> a, state |-> "under_review"]]
  /\ available' = [available EXCEPT ![u] = @ - a]
  /\ reserved' = [reserved EXCEPT ![u] = @ + a]
  /\ UNCHANGED circuit

\* Decide a request along the transition table, keeping its reservation.
Decide(k, target) ==
  /\ requests[k] # NoRequest
  /\ target \in TRANSITIONS[requests[k].state] \ Releasing
  /\ target = "approved" => circuit[WorkspaceOf[requests[k].user]] = "enabled"
  /\ requests' = [requests EXCEPT ![k].state = target]
  /\ UNCHANGED <<circuit, available, reserved>>

\* Close a request and give its reservation back: never refused for want of
\* reserved money.
Close(k, target) ==
  /\ requests[k] # NoRequest
  /\ target \in TRANSITIONS[requests[k].state] \cap Releasing
  /\ LET u == requests[k].user
         a == requests[k].amount
     IN  /\ available' = [available EXCEPT ![u] = @ + a]
         /\ reserved' = [reserved EXCEPT ![u] = @ - a]
  /\ requests' = [requests EXCEPT ![k].state = target]
  /\ UNCHANGED circuit

Switch(w, s) ==
  /\ circuit' = [circuit EXCEPT ![w] = s]
  /\ UNCHANGED <<requests, available, reserved>>

BookNext ==
  \/ \E u \in Users, k \in Keys, a \in Amounts : Accept(u, k, a)
  \/ \E k \in Keys, target \in RouteTargets :
       Decide(k, target) \/ Close(k, target)
  \/ \E w \in Workspaces, s \in CircuitStates : Switch(w, s)

BookSpec == BookInit /\ [][BookNext]_bookVars
=============================================================================

---------------------------- MODULE Withdrawals ----------------------------
(***************************************************************************)
(* The withdrawal service as concurrent request handlers over PostgreSQL   *)
(* at READ COMMITTED.  Every handler runs one database transaction: it     *)
(* takes row locks (SELECT ... FOR UPDATE), reads committed data, and its  *)
(* writes become visible together when it commits.  A handler that fails   *)
(* or is refused rolls back.  Locks are not a variable: which rows a       *)
(* handler has locked follows from how far its transaction has come.       *)
(*                                                                         *)
(* `available' and `reserved' stand for LedgerService.balance, the signed  *)
(* sums of the entries that posted transactions wrote to the two buckets;  *)
(* `releases' holds the idempotency keys of the posted release             *)
(* transactions with the actor their fingerprint binds.                    *)
(***************************************************************************)
EXTENDS WithdrawalStates, FiniteSetsExt

CONSTANTS
  Handlers,      \* concurrent HTTP requests being served
  CancelActors,  \* who uses POST /withdrawals/{id}/cancel
  InitialFunds   \* available balance of each user before any withdrawal

Actors == {"customer", "founder"}

ASSUME HandlersAssumption ==
  /\ InitialFunds \in [Users -> Nat]
  /\ CancelActors \subseteq Actors

VARIABLES
  circuit,    \* [Workspaces -> CircuitStates \cup {Missing}]
  requests,   \* [Keys -> Request \cup {NoRequest}]
  available,  \* [Users -> Int]
  reserved,   \* [Users -> Int]
  releases,   \* {<<key, target, actor>>}: posted reservation releases
  txn         \* [Handlers -> Txn]: the open transaction of each handler

vars == <<circuit, requests, available, reserved, releases, txn>>

Idle == [step |-> "idle"]
NotLoaded == "not_loaded"

CreateSteps == {"lockCircuit", "reserve", "insert", "commitCreate"}
TransitionSteps == {"lockRequest", "approve", "release", "commitTransition"}
BreakerSteps == {"lockBreaker", "initBreaker", "commitBreaker"}

CreateTxn == [step : CreateSteps, user : Users, key : Keys, amount : Amounts]
\* `seen' is the state that the cancel route's session.get left in the
\* session's identity map; NotLoaded when the route did not load the row.
TransitionTxn == [step : TransitionSteps, key : Keys, actor : Actors,
                  target : RouteTargets, seen : States \cup {NotLoaded}]
BreakerTxn == [step : BreakerSteps, workspace : Workspaces, to : CircuitStates]

Txn == {Idle} \cup CreateTxn \cup TransitionTxn \cup BreakerTxn

Init ==
  /\ circuit \in [Workspaces -> {Missing, "enabled"}]
  /\ requests = [k \in Keys |-> NoRequest]
  /\ available = InitialFunds
  /\ reserved = [u \in Users |-> 0]
  /\ releases = {}
  /\ txn = [p \in Handlers |-> Idle]

-----------------------------------------------------------------------------
(* Row locks: a row is locked by p from the step that selected it FOR      *)
(* UPDATE (or inserted it) until p's transaction ends.                     *)

HoldsCircuit(p, w) ==
  \/ /\ txn[p].step \in {"reserve", "insert", "commitCreate"}
     /\ WorkspaceOf[txn[p].user] = w
  \/ /\ txn[p].step = "commitTransition"
     /\ txn[p].target = "approved"
     /\ WorkspaceOf[requests[txn[p].key].user] = w
  \/ /\ txn[p].step = "commitBreaker"
     /\ txn[p].workspace = w

HoldsAccount(p, u) ==
  \/ /\ txn[p].step \in {"insert", "commitCreate"}
     /\ txn[p].user = u
  \/ /\ txn[p].step = "commitTransition"
     /\ txn[p].target \in Releasing
     /\ requests[txn[p].key].user = u

HoldsRequest(p, k) ==
  /\ txn[p].step \in {"approve", "release", "commitTransition"}
  /\ txn[p].key = k

\* An uncommitted insert owns its slot of the unique index on idempotency_key:
\* a second insert of the same key waits for its outcome.
HoldsSlot(p, k) == txn[p].step = "commitCreate" /\ txn[p].key = k

CircuitFree(p, w) == \A q \in Handlers \ {p} : ~HoldsCircuit(q, w)
AccountFree(p, u) == \A q \in Handlers \ {p} : ~HoldsAccount(q, u)
RequestFree(p, k) == \A q \in Handlers \ {p} : ~HoldsRequest(q, k)
SlotFree(p, k)    == \A q \in Handlers \ {p} : ~HoldsSlot(q, k)

tables == <<circuit, requests, available, reserved, releases>>

Begin(p, t) == txn[p] = Idle /\ txn' = [txn EXCEPT ![p] = t] /\ UNCHANGED tables
Advance(p, step) == txn' = [txn EXCEPT ![p].step = step] /\ UNCHANGED tables
Finish(p) == txn' = [txn EXCEPT ![p] = Idle]
Rollback(p) == Finish(p) /\ UNCHANGED tables

-----------------------------------------------------------------------------
(* POST /withdrawals: WithdrawalService.create *)

BeginCreate(p, u, k, a) ==
  Begin(p, [step |-> "lockCircuit", user |-> u, key |-> k, amount |-> a])

\* Faulty variant: the circuit row is read without FOR UPDATE.
LockCircuitUnlocked(p) ==
  LET t == txn[p]
      w == WorkspaceOf[t.user]
  IN  /\ t.step = "lockCircuit"
      /\ IF /\ circuit[w] = "enabled"
            /\ requests[t.key] = NoRequest
            /\ t.amount =< available[t.user]
         THEN Advance(p, "reserve")
         ELSE Rollback(p)

\* Lock the circuit row (a missing row locks nothing and fails closed), look
\* the idempotency key up, and compare the amount with an unlocked balance.
\* A key that exists is answered with its request or refused: no effect.
LockCircuit(p) ==
  LET t == txn[p]
      w == WorkspaceOf[t.user]
  IN  /\ t.step = "lockCircuit"
      /\ circuit[w] # Missing => CircuitFree(p, w)
      /\ IF /\ circuit[w] = "enabled"
            /\ requests[t.key] = NoRequest
            /\ t.amount =< available[t.user]
         THEN Advance(p, "reserve")
         ELSE Rollback(p)

\* transfer_bucket AVAILABLE -> RESERVED: lock the account, read the balance
\* again, and post.
Reserve(p) ==
  LET t == txn[p]
  IN  /\ t.step = "reserve"
      /\ AccountFree(p, t.user)
      /\ IF t.amount =< available[t.user]
         THEN Advance(p, "insert")
         ELSE Rollback(p)

\* Flush the request row: a key that another workspace committed meanwhile is
\* an IntegrityError, and the savepoint takes the reservation back with it.
InsertRequest(p) ==
  LET t == txn[p]
  IN  /\ t.step = "insert"
      /\ SlotFree(p, t.key)
      /\ IF requests[t.key] = NoRequest
         THEN Advance(p, "commitCreate")
         ELSE Rollback(p)

\* The receipt email has been sent (or has failed); commit.
CommitCreate(p) ==
  LET t == txn[p]
  IN  /\ t.step = "commitCreate"
      /\ requests' = [requests EXCEPT ![t.key] =
                        [user |-> t.user, amount |-> t.amount,
                         state |-> "under_review"]]
      /\ available' = [available EXCEPT ![t.user] = @ - t.amount]
      /\ reserved' = [reserved EXCEPT ![t.user] = @ + t.amount]
      /\ Finish(p)
      /\ UNCHANGED <<circuit, releases>>

-----------------------------------------------------------------------------
(* POST /withdrawals/operations/{id}/{target} and POST /withdrawals/{id}/  *)
(* cancel: WithdrawalService.transition                                    *)

BeginTransition(p, k, target) ==
  /\ requests[k] # NoRequest
  /\ Begin(p, [step |-> "lockRequest", key |-> k, actor |-> "founder",
               target |-> target, seen |-> NotLoaded])

\* The cancel route loads the request to authorize the actor.  The row stays
\* in the session's identity map, and the SELECT ... FOR UPDATE that follows
\* locks the row without refreshing the loaded attributes.
BeginCancel(p, k, actor) ==
  /\ requests[k] # NoRequest
  /\ Begin(p, [step |-> "lockRequest", key |-> k, actor |-> actor,
               target |-> "cancelled", seen |-> requests[k].state])

\* request.state as the handler sees it.
Current(t) == IF t.seen = NotLoaded THEN requests[t.key].state ELSE t.seen

\* Faulty variant: the row is read without FOR UPDATE.
LockRequestUnlocked(p) ==
  LET t == txn[p]
  IN  /\ t.step = "lockRequest"
      /\ IF t.target \notin TRANSITIONS[Current(t)] THEN Rollback(p)
         ELSE Advance(p, CASE t.target = "approved"     -> "approve"
                           [] t.target \in Releasing    -> "release"
                           [] OTHER                     -> "commitTransition")

LockRequest(p) ==
  LET t == txn[p]
  IN  /\ t.step = "lockRequest"
      /\ RequestFree(p, t.key)
      /\ IF t.target \notin TRANSITIONS[Current(t)] THEN Rollback(p)
         ELSE Advance(p, CASE t.target = "approved"     -> "approve"
                           [] t.target \in Releasing    -> "release"
                           [] OTHER                     -> "commitTransition")

LockApprovalCircuit(p) ==
  LET t == txn[p]
      w == WorkspaceOf[requests[t.key].user]
  IN  /\ t.step = "approve"
      /\ circuit[w] # Missing => CircuitFree(p, w)
      /\ IF circuit[w] = "enabled"
         THEN Advance(p, "commitTransition")
         ELSE Rollback(p)

Posted(k, target) == {r \in releases : r[1] = k /\ r[2] = target}

\* Faulty variant: the reserved balance is not compared before the posting.
ReleaseUnchecked(p) ==
  LET t == txn[p]
  IN  /\ t.step = "release"
      /\ AccountFree(p, requests[t.key].user)
      /\ IF Posted(t.key, t.target) \subseteq {<<t.key, t.target, t.actor>>}
         THEN Advance(p, "commitTransition")
         ELSE Rollback(p)

\* transfer_bucket RESERVED -> AVAILABLE: lock the account, compare with the
\* reserved balance, and post under withdrawal-release:{id}:{target}.  The key
\* may already be posted: by the same actor it is the same payload and the
\* existing transaction is returned, by another it is refused.
Release(p) ==
  LET t == txn[p]
      r == requests[t.key]
  IN  /\ t.step = "release"
      /\ AccountFree(p, r.user)
      /\ IF /\ r.amount =< reserved[r.user]
            /\ Posted(t.key, t.target) \subseteq {<<t.key, t.target, t.actor>>}
         THEN Advance(p, "commitTransition")
         ELSE Rollback(p)

CommitTransition(p) ==
  LET t == txn[p]
      r == requests[t.key]
      moved == IF t.target \in Releasing /\ Posted(t.key, t.target) = {}
               THEN r.amount ELSE 0
  IN  /\ t.step = "commitTransition"
      /\ requests' = [requests EXCEPT ![t.key].state = t.target]
      /\ available' = [available EXCEPT ![r.user] = @ + moved]
      /\ reserved' = [reserved EXCEPT ![r.user] = @ - moved]
      /\ releases' = IF t.target \in Releasing
                     THEN releases \cup {<<t.key, t.target, t.actor>>}
                     ELSE releases
      /\ Finish(p)
      /\ UNCHANGED circuit

-----------------------------------------------------------------------------
(* POST /withdrawals/operations/circuit/{workspace}: change_circuit *)

BeginChangeCircuit(p, w, s) ==
  Begin(p, [step |-> "lockBreaker", workspace |-> w, to |-> s])

LockBreaker(p) ==
  LET w == txn[p].workspace
  IN  /\ txn[p].step = "lockBreaker"
      /\ \/ circuit[w] = Missing /\ Advance(p, "initBreaker")
         \/ circuit[w] # Missing /\ CircuitFree(p, w) /\ Advance(p, "commitBreaker")

\* Faulty variant: an initialization that lost the race waits forever.
InitBreakerStuck(p) ==
  /\ txn[p].step = "initBreaker"
  /\ circuit[txn[p].workspace] = Missing
  /\ CircuitFree(p, txn[p].workspace)
  /\ Advance(p, "commitBreaker")

\* No row was found: insert one.  A concurrent initialization that committed
\* first is either found by _circuit's own select or met as a unique violation.
InitBreaker(p) ==
  LET w == txn[p].workspace
  IN  /\ txn[p].step = "initBreaker"
      /\ CircuitFree(p, w)
      /\ \/ Advance(p, "commitBreaker")
         \/ circuit[w] # Missing /\ Rollback(p)

CommitBreaker(p) ==
  LET t == txn[p]
  IN  /\ t.step = "commitBreaker"
      /\ circuit' = [circuit EXCEPT ![t.workspace] = t.to]
      /\ Finish(p)
      /\ UNCHANGED <<requests, available, reserved, releases>>

-----------------------------------------------------------------------------
\* The client disconnects, the process dies, or the database picks the handler
\* as a deadlock victim: its transaction is rolled back.  The service's retry
\* after a deadlock is a new BeginCreate with the same key.
Abort(p) == txn[p] # Idle /\ Rollback(p)

CreateStep(p) ==
  LockCircuit(p) \/ Reserve(p) \/ InsertRequest(p) \/ CommitCreate(p)
TransitionStep(p) ==
  LockRequest(p) \/ LockApprovalCircuit(p) \/ Release(p) \/ CommitTransition(p)
BreakerStep(p) == LockBreaker(p) \/ InitBreaker(p) \/ CommitBreaker(p)

Progress(p) == CreateStep(p) \/ TransitionStep(p) \/ BreakerStep(p)

Arrive(p) ==
  \/ \E u \in Users, k \in Keys, a \in Amounts : BeginCreate(p, u, k, a)
  \/ \E k \in Keys, target \in RouteTargets : BeginTransition(p, k, target)
  \/ \E k \in Keys, actor \in CancelActors : BeginCancel(p, k, actor)
  \/ \E w \in Workspaces, s \in CircuitStates : BeginChangeCircuit(p, w, s)

Next == \E p \in Handlers : Arrive(p) \/ Progress(p) \/ Abort(p)

Spec == Init /\ [][Next]_vars

\* The database grants a lock to its waiters in order of arrival, so a handler
\* whose next step is possible again and again eventually takes it.
FairSpec == Spec /\ \A p \in Handlers : SF_vars(Progress(p))
-----------------------------------------------------------------------------
(* Properties *)

TypeOK ==
  /\ circuit \in [Workspaces -> CircuitStates \cup {Missing}]
  /\ requests \in [Keys -> Request \cup {NoRequest}]
  /\ available \in [Users -> Int]
  /\ reserved \in [Users -> Int]
  /\ releases \subseteq Keys \X Releasing \X Actors
  /\ txn \in [Handlers -> Txn]

\* No interleaving of creates, releases and decisions drives a bucket of a
\* customer account below zero: the balance that transfer_bucket compares with
\* is still the balance when its handler commits (ledger.py transfer_bucket).
NoOverdraft == \A u \in Users : available[u] >= 0 /\ reserved[u] >= 0

Open(k) == requests[k] # NoRequest /\ requests[k].state \notin Releasing
OpenOf(u) == {k \in Keys : Open(k) /\ requests[k].user = u}
Asked == [k \in Keys |-> requests[k].amount]

\* The reserved bucket of a user is exactly the money of the user's requests
\* that have not been rejected, cancelled or failed: no reservation is
\* stranded and none is given back twice (operations.py create, transition).
ReservedMatchesOpenRequests ==
  \A u \in Users : reserved[u] = SumFunctionOnSet(Asked, OpenOf(u))

\* Exactly one release is posted for a closed request, under the key of the
\* state it closed in, and none for an open one.
ReleasedExactlyWhenClosed ==
  \A k \in Keys :
    {<<r[1], r[2]>> : r \in {x \in releases : x[1] = k}} =
      IF requests[k] # NoRequest /\ ~Open(k)
      THEN {<<k, requests[k].state>>} ELSE {}

\* A request's committed state only moves along TRANSITIONS, so the states
\* with no successors are final.
LegalTransition ==
  \A k \in Keys :
    requests[k] # NoRequest =>
      /\ requests'[k] # NoRequest
      /\ \/ requests'[k].state = requests[k].state
         \/ requests'[k].state \in TRANSITIONS[requests[k].state]
TransitionsAreLegal == [][LegalTransition]_vars

\* Whenever a request is created or becomes approved, its workspace's circuit
\* is enabled at the moment of the commit, not only when it was checked: the
\* breaker cannot trip in between (operations.py _circuit, change_circuit).
PassesCircuit ==
  \A k \in Keys :
    (/\ requests'[k] # requests[k]
     /\ requests[k] = NoRequest \/ requests'[k].state = "approved")
    => circuit[WorkspaceOf[requests'[k].user]] = "enabled"
CircuitGatesCommits == [][PassesCircuit]_vars

\* Every request that is taken up ends: the lock order request, circuit,
\* account, unique-index slot admits no deadlock among these handlers.
HandlersFinish == \A p \in Handlers : txn[p] # Idle ~> txn[p] = Idle

\* The handlers implement the abstract book of withdrawals.
Book == INSTANCE WithdrawalBook
ImplementsBook == Book!BookSpec
-----------------------------------------------------------------------------
(* The inductive strengthening of NoOverdraft: locks are exclusive, and     *)
(* what a handler has checked under a lock stays true while it holds it.    *)

LocksExclusive ==
  \A p, q \in Handlers : p # q =>
    /\ \A w \in Workspaces : ~(HoldsCircuit(p, w) /\ HoldsCircuit(q, w))
    /\ \A u \in Users : ~(HoldsAccount(p, u) /\ HoldsAccount(q, u))
    /\ \A k \in Keys : ~(HoldsRequest(p, k) /\ HoldsRequest(q, k))
    /\ \A k \in Keys : ~(HoldsSlot(p, k) /\ HoldsSlot(q, k))

CreateChecked(t) ==
  /\ t.step \in {"reserve", "insert", "commitCreate"} =>
       circuit[WorkspaceOf[t.user]] = "enabled"
  /\ t.step \in {"insert", "commitCreate"} => t.amount =< available[t.user]
  /\ t.step = "commitCreate" => requests[t.key] = NoRequest

TransitionChecked(t) ==
  /\ t.step \in TransitionSteps => requests[t.key] # NoRequest
  /\ t.step = "approve" => t.target = "approved"
  /\ t.step = "release" => t.target \in Releasing
  /\ t.step = "commitTransition" /\ t.target = "approved" =>
       circuit[WorkspaceOf[requests[t.key].user]] = "enabled"
  /\ t.step = "commitTransition" /\ t.target \in Releasing =>
       requests[t.key].amount =< reserved[requests[t.key].user]

ChecksStillHold ==
  \A p \in Handlers : CreateChecked(txn[p]) /\ TransitionChecked(txn[p])

SafetyInv == TypeOK /\ NoOverdraft /\ LocksExclusive /\ ChecksStillHold

\* For deployments whose cancellations all go through the operations route:
\* a handler that passed the table check still may take its transition.
DecisionsFresh ==
  \A p \in Handlers :
    txn[p].step \in TransitionSteps =>
      /\ txn[p].seen = NotLoaded
      /\ txn[p].step # "lockRequest" =>
           txn[p].target \in TRANSITIONS[requests[txn[p].key].state]

BookInv == SafetyInv /\ DecisionsFresh /\ ReleasedExactlyWhenClosed
=============================================================================

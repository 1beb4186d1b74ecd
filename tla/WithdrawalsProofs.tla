------------------------- MODULE WithdrawalsProofs -------------------------
(***************************************************************************)
(* Theorems about Withdrawals, for any number of handlers, customers,      *)
(* workspaces, keys and amounts.  SafetyInv is inductive whatever routes   *)
(* are in use.                                                             *)
(***************************************************************************)
EXTENDS Withdrawals, FiniteSums

USE ConstantsAssumption, HandlersAssumption

\* The step of a transaction tells which handler it belongs to.
LEMMA TxnKind ==
  ASSUME NEW t \in Txn
  PROVE  /\ t.step \in CreateSteps => t \in CreateTxn
         /\ t.step \in TransitionSteps => t \in TransitionTxn
         /\ t.step \in BreakerSteps => t \in BreakerTxn
         /\ t.step = "idle" => t = Idle
BY DEF Txn, CreateTxn, TransitionTxn, BreakerTxn, Idle, CreateSteps,
       TransitionSteps, BreakerSteps

\* A transaction stays well formed when it moves to a step of its own kind.
LEMMA StepKind ==
  ASSUME NEW t \in Txn, NEW s
  PROVE  /\ t \in CreateTxn /\ s \in CreateSteps =>
              [t EXCEPT !.step = s] \in CreateTxn
         /\ t \in TransitionTxn /\ s \in TransitionSteps =>
              [t EXCEPT !.step = s] \in TransitionTxn
         /\ t \in BreakerTxn /\ s \in BreakerSteps =>
              [t EXCEPT !.step = s] \in BreakerTxn
BY DEF CreateTxn, TransitionTxn, BreakerTxn

LEMMA RequestFields ==
  ASSUME NEW r \in Request
  PROVE  r.user \in Users /\ r.amount \in Nat \ {0} /\ r.state \in States
BY DEF Request

LEMMA InitSafety == Init => SafetyInv
<1> SUFFICES ASSUME Init PROVE SafetyInv
  OBVIOUS
<1>1. TypeOK
  BY DEF Init, TypeOK, Txn, Idle, CircuitStates, Missing
<1>2. NoOverdraft
  <2> SUFFICES ASSUME NEW u \in Users
               PROVE  available[u] >= 0 /\ reserved[u] >= 0
    BY DEF NoOverdraft
  <2>1. available[u] \in Nat
    BY DEF Init
  <2>2. reserved[u] = 0
    BY DEF Init
  <2> QED
    BY <2>1, <2>2
<1>3. \A p \in Handlers : txn[p].step = "idle"
  BY DEF Init, Idle
<1>4. LocksExclusive
  BY <1>3 DEF LocksExclusive, HoldsCircuit, HoldsAccount, HoldsRequest, HoldsSlot
<1>5. ChecksStillHold
  BY <1>3 DEF ChecksStillHold, CreateChecked, TransitionChecked, TransitionSteps
<1> QED
  BY <1>1, <1>2, <1>4, <1>5 DEF SafetyInv

\* A step that changes nothing but p's own transaction keeps SafetyInv if the
\* new transaction is well formed, has checked what its step claims, and holds
\* only locks that no other handler holds.
LEMMA ControlStep ==
  ASSUME SafetyInv, NEW p \in Handlers, NEW t \in Txn,
         txn' = [txn EXCEPT ![p] = t], UNCHANGED tables,
         CreateChecked(t), TransitionChecked(t),
         \A w \in Workspaces : HoldsCircuit(p, w)' => CircuitFree(p, w),
         \A u \in Users : HoldsAccount(p, u)' => AccountFree(p, u),
         \A k \in Keys : HoldsRequest(p, k)' => RequestFree(p, k),
         \A k \in Keys : HoldsSlot(p, k)' => SlotFree(p, k)
  PROVE  SafetyInv'
<1>1. txn \in [Handlers -> Txn]
  BY DEF SafetyInv, TypeOK
<1>2. txn'[p] = t /\ \A q \in Handlers \ {p} : txn'[q] = txn[q]
  BY <1>1
<1>3. TypeOK'
  BY <1>1 DEF SafetyInv, TypeOK, tables
<1>4. NoOverdraft'
  BY DEF SafetyInv, NoOverdraft, tables
<1>5. \A q \in Handlers \ {p} :
        /\ \A w \in Workspaces : HoldsCircuit(q, w)' <=> HoldsCircuit(q, w)
        /\ \A u \in Users : HoldsAccount(q, u)' <=> HoldsAccount(q, u)
        /\ \A k \in Keys : HoldsRequest(q, k)' <=> HoldsRequest(q, k)
        /\ \A k \in Keys : HoldsSlot(q, k)' <=> HoldsSlot(q, k)
  BY <1>2 DEF HoldsCircuit, HoldsAccount, HoldsRequest, HoldsSlot, tables
<1>6. LocksExclusive'
  <2> SUFFICES ASSUME NEW q \in Handlers, NEW r \in Handlers, q # r
               PROVE  /\ \A w \in Workspaces :
                            ~(HoldsCircuit(q, w)' /\ HoldsCircuit(r, w)')
                      /\ \A u \in Users :
                            ~(HoldsAccount(q, u)' /\ HoldsAccount(r, u)')
                      /\ \A k \in Keys :
                            ~(HoldsRequest(q, k)' /\ HoldsRequest(r, k)')
                      /\ \A k \in Keys :
                            ~(HoldsSlot(q, k)' /\ HoldsSlot(r, k)')
    BY DEF LocksExclusive
  <2>1. CASE q # p /\ r # p
    BY <1>5, <2>1 DEF SafetyInv, LocksExclusive
  <2>2. CASE q = p
    BY <1>5, <2>2 DEF CircuitFree, AccountFree, RequestFree, SlotFree
  <2>3. CASE r = p
    BY <1>5, <2>3 DEF CircuitFree, AccountFree, RequestFree, SlotFree
  <2> QED
    BY <2>1, <2>2, <2>3
<1>7. ChecksStillHold'
  BY <1>2 DEF SafetyInv, ChecksStillHold, CreateChecked, TransitionChecked, tables
<1> QED
  BY <1>3, <1>4, <1>6, <1>7 DEF SafetyInv

\* Giving up is always safe.
LEMMA RollbackSafe ==
  ASSUME SafetyInv, NEW p \in Handlers, Rollback(p)
  PROVE  SafetyInv'
<1>1. Idle \in Txn /\ Idle.step = "idle"
  BY DEF Txn, Idle
<1>2. CreateChecked(Idle) /\ TransitionChecked(Idle)
  BY <1>1 DEF CreateChecked, TransitionChecked, TransitionSteps
<1>3. txn' = [txn EXCEPT ![p] = Idle] /\ UNCHANGED tables
  BY DEF Rollback, Finish
<1>4. txn'[p].step = "idle"
  BY <1>1, <1>3 DEF SafetyInv, TypeOK
<1>5. /\ \A w \in Workspaces : ~HoldsCircuit(p, w)'
      /\ \A u \in Users : ~HoldsAccount(p, u)'
      /\ \A k \in Keys : ~HoldsRequest(p, k)' /\ ~HoldsSlot(p, k)'
  BY <1>4 DEF HoldsCircuit, HoldsAccount, HoldsRequest, HoldsSlot
<1> QED
  BY <1>1, <1>2, <1>3, <1>5, ControlStep

LEMMA ArriveSafe ==
  ASSUME SafetyInv, NEW p \in Handlers, Arrive(p)
  PROVE  SafetyInv'
<1> DEFINE Start(t) == /\ t.step \in {"lockCircuit", "lockRequest", "lockBreaker"}
                       /\ t \in Txn
                       /\ t.step \in TransitionSteps => requests[t.key] # NoRequest
<1>1. ASSUME NEW t, Start(t), Begin(p, t) PROVE SafetyInv'
  <2>1. CreateChecked(t) /\ TransitionChecked(t)
    BY <1>1 DEF CreateChecked, TransitionChecked
  <2>2. txn' = [txn EXCEPT ![p] = t] /\ UNCHANGED tables
    BY <1>1 DEF Begin
  <2>3. txn'[p] = t
    BY <2>2 DEF SafetyInv, TypeOK
  <2>4. /\ \A w \in Workspaces : ~HoldsCircuit(p, w)'
        /\ \A u \in Users : ~HoldsAccount(p, u)'
        /\ \A k \in Keys : ~HoldsRequest(p, k)' /\ ~HoldsSlot(p, k)'
    BY <1>1, <2>3 DEF HoldsCircuit, HoldsAccount, HoldsRequest, HoldsSlot
  <2> QED
    BY <1>1, <2>1, <2>2, <2>4, ControlStep
<1>2. ASSUME NEW u \in Users, NEW k \in Keys, NEW a \in Amounts,
             BeginCreate(p, u, k, a)
      PROVE  SafetyInv'
  <2> DEFINE t == [step |-> "lockCircuit", user |-> u, key |-> k, amount |-> a]
  <2>1. t \in CreateTxn /\ t.step = "lockCircuit"
    BY DEF CreateTxn, CreateSteps
  <2>2. Start(t)
    BY <2>1 DEF Txn, TransitionSteps
  <2> QED
    BY <1>1, <1>2, <2>2 DEF BeginCreate
<1>3. ASSUME NEW k \in Keys, NEW actor \in Actors, NEW target \in RouteTargets,
             NEW seen \in States \cup {NotLoaded},
             requests[k] # NoRequest,
             Begin(p, [step |-> "lockRequest", key |-> k, actor |-> actor,
                       target |-> target, seen |-> seen])
      PROVE  SafetyInv'
  <2> DEFINE t == [step |-> "lockRequest", key |-> k, actor |-> actor,
                   target |-> target, seen |-> seen]
  <2>1. t \in TransitionTxn /\ t.step = "lockRequest" /\ t.key = k
    BY DEF TransitionTxn, TransitionSteps
  <2>2. Start(t)
    BY <1>3, <2>1 DEF Txn
  <2> QED
    BY <1>1, <1>3, <2>2
<1>4. ASSUME NEW k \in Keys, NEW target \in RouteTargets,
             BeginTransition(p, k, target)
      PROVE  SafetyInv'
  BY <1>3, <1>4 DEF BeginTransition, Actors
<1>5. ASSUME NEW k \in Keys, NEW actor \in CancelActors, BeginCancel(p, k, actor)
      PROVE  SafetyInv'
  <2>1. requests[k].state \in States
    BY <1>5, RequestFields DEF BeginCancel, SafetyInv, TypeOK
  <2> QED
    BY <1>3, <1>5, <2>1 DEF BeginCancel, RouteTargets
<1>6. ASSUME NEW w \in Workspaces, NEW c \in CircuitStates,
             BeginChangeCircuit(p, w, c)
      PROVE  SafetyInv'
  <2> DEFINE t == [step |-> "lockBreaker", workspace |-> w, to |-> c]
  <2>1. t \in BreakerTxn /\ t.step = "lockBreaker"
    BY DEF BreakerTxn, BreakerSteps
  <2>2. Start(t)
    BY <2>1 DEF Txn, TransitionSteps
  <2> QED
    BY <1>1, <1>6, <2>2 DEF BeginChangeCircuit
<1> QED
  BY <1>2, <1>4, <1>5, <1>6 DEF Arrive

\* Moving on to a step that locks one more row at most.
LEMMA AdvanceSafe ==
  ASSUME SafetyInv, NEW p \in Handlers, NEW s, Advance(p, s),
         [txn[p] EXCEPT !.step = s] \in Txn,
         CreateChecked([txn[p] EXCEPT !.step = s]),
         TransitionChecked([txn[p] EXCEPT !.step = s]),
         \A w \in Workspaces :
           HoldsCircuit(p, w)' => HoldsCircuit(p, w) \/ CircuitFree(p, w),
         \A u \in Users : HoldsAccount(p, u)' => HoldsAccount(p, u) \/ AccountFree(p, u),
         \A k \in Keys : HoldsRequest(p, k)' => HoldsRequest(p, k) \/ RequestFree(p, k),
         \A k \in Keys : HoldsSlot(p, k)' => HoldsSlot(p, k) \/ SlotFree(p, k)
  PROVE  SafetyInv'
<1>1. /\ \A w \in Workspaces : HoldsCircuit(p, w) => CircuitFree(p, w)
      /\ \A u \in Users : HoldsAccount(p, u) => AccountFree(p, u)
      /\ \A k \in Keys : HoldsRequest(p, k) => RequestFree(p, k)
      /\ \A k \in Keys : HoldsSlot(p, k) => SlotFree(p, k)
  BY DEF SafetyInv, LocksExclusive, CircuitFree, AccountFree, RequestFree, SlotFree
<1>2. txn' = [txn EXCEPT ![p] = [txn[p] EXCEPT !.step = s]] /\ UNCHANGED tables
  BY DEF Advance
<1> QED
  BY <1>1, <1>2, ControlStep

LEMMA CreateChecksSafe ==
  ASSUME SafetyInv, NEW p \in Handlers,
         LockCircuit(p) \/ Reserve(p) \/ InsertRequest(p)
  PROVE  SafetyInv'
<1> DEFINE t == txn[p]
           n(s) == [t EXCEPT !.step = s]
<1>1. t \in Txn
  BY DEF SafetyInv, TypeOK
<1>2. t \in CreateTxn /\ t.user \in Users /\ t.key \in Keys /\ t.amount \in Amounts
  BY <1>1, TxnKind DEF LockCircuit, Reserve, InsertRequest, CreateSteps, CreateTxn
<1>3. \A s \in CreateSteps :
        /\ n(s) \in Txn /\ n(s).step = s
        /\ n(s).user = t.user /\ n(s).key = t.key /\ n(s).amount = t.amount
  BY <1>2 DEF CreateTxn, Txn
<1>4. \A s \in CreateSteps : Advance(p, s) => txn'[p] = n(s) /\ requests' = requests
  BY DEF Advance, SafetyInv, TypeOK, tables
<1>5. CASE LockCircuit(p) /\ ~Rollback(p)
  <2>1. /\ Advance(p, "reserve") /\ t.step = "lockCircuit"
        /\ circuit[WorkspaceOf[t.user]] = "enabled"
        /\ CircuitFree(p, WorkspaceOf[t.user])
    BY <1>5 DEF LockCircuit, Missing
  <2>2. CreateChecked(n("reserve")) /\ TransitionChecked(n("reserve"))
    BY <2>1, <1>2, <1>3 DEF CreateChecked, TransitionChecked, CreateSteps, TransitionSteps
  <2>3. /\ \A w \in Workspaces : HoldsCircuit(p, w)' => w = WorkspaceOf[t.user]
        /\ \A u \in Users : ~HoldsAccount(p, u)'
        /\ \A k \in Keys : ~HoldsRequest(p, k)' /\ ~HoldsSlot(p, k)'
    BY <2>1, <1>3, <1>4
       DEF HoldsCircuit, HoldsAccount, HoldsRequest, HoldsSlot, CreateSteps
  <2> QED
    BY <2>1, <2>2, <2>3, <1>3, AdvanceSafe DEF CreateSteps
<1>6. CASE Reserve(p) /\ ~Rollback(p)
  <2>1. /\ Advance(p, "insert") /\ t.step = "reserve"
        /\ t.amount =< available[t.user]
        /\ AccountFree(p, t.user)
    BY <1>6 DEF Reserve
  <2>2. circuit[WorkspaceOf[t.user]] = "enabled"
    BY <2>1 DEF SafetyInv, ChecksStillHold, CreateChecked
  <2>3. CreateChecked(n("insert")) /\ TransitionChecked(n("insert"))
    BY <2>1, <2>2, <1>2, <1>3
       DEF CreateChecked, TransitionChecked, CreateSteps, TransitionSteps
  <2>4. /\ \A w \in Workspaces : HoldsCircuit(p, w)' => HoldsCircuit(p, w)
        /\ \A u \in Users : HoldsAccount(p, u)' => u = t.user
        /\ \A k \in Keys : ~HoldsRequest(p, k)' /\ ~HoldsSlot(p, k)'
    BY <2>1, <1>3, <1>4
       DEF HoldsCircuit, HoldsAccount, HoldsRequest, HoldsSlot, CreateSteps
  <2> QED
    BY <2>1, <2>3, <2>4, <1>3, AdvanceSafe DEF CreateSteps
<1>7. CASE InsertRequest(p) /\ ~Rollback(p)
  <2>1. /\ Advance(p, "commitCreate") /\ t.step = "insert"
        /\ requests[t.key] = NoRequest
        /\ SlotFree(p, t.key)
    BY <1>7 DEF InsertRequest
  <2>2. circuit[WorkspaceOf[t.user]] = "enabled" /\ t.amount =< available[t.user]
    BY <2>1 DEF SafetyInv, ChecksStillHold, CreateChecked
  <2>3. CreateChecked(n("commitCreate")) /\ TransitionChecked(n("commitCreate"))
    BY <2>1, <2>2, <1>2, <1>3
       DEF CreateChecked, TransitionChecked, CreateSteps, TransitionSteps
  <2>4. /\ \A w \in Workspaces : HoldsCircuit(p, w)' => HoldsCircuit(p, w)
        /\ \A u \in Users : HoldsAccount(p, u)' => HoldsAccount(p, u)
        /\ \A k \in Keys : HoldsSlot(p, k)' => k = t.key
        /\ \A k \in Keys : ~HoldsRequest(p, k)'
    BY <2>1, <1>3, <1>4
       DEF HoldsCircuit, HoldsAccount, HoldsRequest, HoldsSlot, CreateSteps
  <2> QED
    BY <2>1, <2>3, <2>4, <1>3, AdvanceSafe DEF CreateSteps
<1> QED
  BY <1>5, <1>6, <1>7, RollbackSafe

LEMMA TransitionChecksSafe ==
  ASSUME SafetyInv, NEW p \in Handlers,
         LockRequest(p) \/ LockApprovalCircuit(p) \/ Release(p)
  PROVE  SafetyInv'
<1> DEFINE t == txn[p]
           n(s) == [t EXCEPT !.step = s]
           r == requests[t.key]
<1>1. t \in Txn
  BY DEF SafetyInv, TypeOK
<1>2. t \in TransitionTxn /\ t.key \in Keys /\ t.target \in RouteTargets
  BY <1>1, TxnKind
     DEF LockRequest, LockApprovalCircuit, Release, TransitionSteps, TransitionTxn
<1>3. \A s \in TransitionSteps :
        /\ n(s) \in Txn /\ n(s).step = s
        /\ n(s).key = t.key /\ n(s).target = t.target
  BY <1>2 DEF TransitionTxn, Txn
<1>4. \A s \in TransitionSteps : Advance(p, s) => txn'[p] = n(s) /\ requests' = requests
  BY DEF Advance, SafetyInv, TypeOK, tables
<1>5. r # NoRequest /\ r \in Request
  BY <1>2 DEF SafetyInv, TypeOK, ChecksStillHold, TransitionChecked, TransitionTxn
<1>6. CASE LockRequest(p) /\ ~Rollback(p)
  <2> DEFINE s == CASE t.target = "approved"     -> "approve"
                    [] t.target \in Releasing    -> "release"
                    [] OTHER                     -> "commitTransition"
  <2>1. Advance(p, s) /\ t.step = "lockRequest" /\ RequestFree(p, t.key)
    BY <1>6 DEF LockRequest
  <2>2. /\ t.target = "approved" => s = "approve"
        /\ t.target \in Releasing => s = "release"
        /\ t.target # "approved" /\ t.target \notin Releasing => s = "commitTransition"
        /\ s \in TransitionSteps
    BY DEF Releasing, TransitionSteps
  <2> HIDE DEF s
  <2>3. CreateChecked(n(s)) /\ TransitionChecked(n(s))
    BY <2>2, <1>2, <1>3, <1>5
       DEF CreateChecked, TransitionChecked, TransitionSteps
  <2>4. /\ \A w \in Workspaces : ~HoldsCircuit(p, w)'
        /\ \A u \in Users : ~HoldsAccount(p, u)'
        /\ \A k \in Keys : HoldsRequest(p, k)' => k = t.key
        /\ \A k \in Keys : ~HoldsSlot(p, k)'
    BY <2>1, <2>2, <1>3, <1>4
       DEF HoldsCircuit, HoldsAccount, HoldsRequest, HoldsSlot, TransitionSteps
  <2> QED
    BY <2>1, <2>2, <2>3, <2>4, <1>3, AdvanceSafe
<1>7. CASE LockApprovalCircuit(p) /\ ~Rollback(p)
  <2>1. /\ Advance(p, "commitTransition") /\ t.step = "approve"
        /\ circuit[WorkspaceOf[r.user]] = "enabled"
        /\ CircuitFree(p, WorkspaceOf[r.user])
    BY <1>7 DEF LockApprovalCircuit, Missing
  <2>2. t.target = "approved"
    BY <2>1 DEF SafetyInv, ChecksStillHold, TransitionChecked
  <2>3. CreateChecked(n("commitTransition")) /\ TransitionChecked(n("commitTransition"))
    BY <2>1, <2>2, <1>3, <1>5
       DEF CreateChecked, TransitionChecked, TransitionSteps, Releasing
  <2>4. /\ \A w \in Workspaces : HoldsCircuit(p, w)' => w = WorkspaceOf[r.user]
        /\ \A u \in Users : ~HoldsAccount(p, u)'
        /\ \A k \in Keys : HoldsRequest(p, k)' => HoldsRequest(p, k)
        /\ \A k \in Keys : ~HoldsSlot(p, k)'
    BY <2>1, <2>2, <1>3, <1>4
       DEF HoldsCircuit, HoldsAccount, HoldsRequest, HoldsSlot, TransitionSteps, Releasing
  <2> QED
    BY <2>1, <2>3, <2>4, <1>3, AdvanceSafe DEF TransitionSteps
<1>8. CASE Release(p) /\ ~Rollback(p)
  <2>1. /\ Advance(p, "commitTransition") /\ t.step = "release"
        /\ r.amount =< reserved[r.user]
        /\ AccountFree(p, r.user)
    BY <1>8 DEF Release
  <2>2. t.target \in Releasing
    BY <2>1 DEF SafetyInv, ChecksStillHold, TransitionChecked
  <2>3. CreateChecked(n("commitTransition")) /\ TransitionChecked(n("commitTransition"))
    BY <2>1, <2>2, <1>3, <1>5
       DEF CreateChecked, TransitionChecked, TransitionSteps, Releasing
  <2>4. /\ \A w \in Workspaces : ~HoldsCircuit(p, w)'
        /\ \A u \in Users : HoldsAccount(p, u)' => u = r.user
        /\ \A k \in Keys : HoldsRequest(p, k)' => HoldsRequest(p, k)
        /\ \A k \in Keys : ~HoldsSlot(p, k)'
    BY <2>1, <2>2, <1>3, <1>4
       DEF HoldsCircuit, HoldsAccount, HoldsRequest, HoldsSlot, TransitionSteps, Releasing
  <2> QED
    BY <2>1, <2>3, <2>4, <1>3, AdvanceSafe DEF TransitionSteps
<1> QED
  BY <1>6, <1>7, <1>8, RollbackSafe

LEMMA BreakerChecksSafe ==
  ASSUME SafetyInv, NEW p \in Handlers, LockBreaker(p) \/ InitBreaker(p)
  PROVE  SafetyInv'
<1> DEFINE t == txn[p]
           n(s) == [t EXCEPT !.step = s]
<1>1. t \in Txn /\ t \in BreakerTxn
  BY TxnKind DEF SafetyInv, TypeOK, LockBreaker, InitBreaker, BreakerSteps
<1>2. \A s \in BreakerSteps :
        n(s) \in Txn /\ n(s).step = s /\ n(s).workspace = t.workspace
  BY <1>1 DEF BreakerTxn, Txn
<1>3. \A s \in BreakerSteps : Advance(p, s) => txn'[p] = n(s)
  BY DEF Advance, SafetyInv, TypeOK
<1>4. \A s \in BreakerSteps : CreateChecked(n(s)) /\ TransitionChecked(n(s))
  BY <1>2 DEF CreateChecked, TransitionChecked, BreakerSteps, TransitionSteps
<1>5. \A s \in BreakerSteps : Advance(p, s) =>
        /\ \A w \in Workspaces :
             HoldsCircuit(p, w)' => s = "commitBreaker" /\ w = t.workspace
        /\ \A u \in Users : ~HoldsAccount(p, u)'
        /\ \A k \in Keys : ~HoldsRequest(p, k)' /\ ~HoldsSlot(p, k)'
  BY <1>2, <1>3 DEF HoldsCircuit, HoldsAccount, HoldsRequest, HoldsSlot, BreakerSteps
<1>6. CASE Advance(p, "initBreaker")
  BY <1>2, <1>4, <1>5, <1>6, AdvanceSafe DEF BreakerSteps
<1>7. CASE Advance(p, "commitBreaker") /\ CircuitFree(p, t.workspace)
  BY <1>2, <1>4, <1>5, <1>7, AdvanceSafe DEF BreakerSteps
<1> QED
  BY <1>6, <1>7, RollbackSafe DEF LockBreaker, InitBreaker

\* The end of a transaction, with its writes: what the other handlers hold and
\* have checked must survive them.
LEMMA CommitStep ==
  ASSUME SafetyInv, NEW p \in Handlers, Finish(p), TypeOK', NoOverdraft',
         \A q \in Handlers \ {p} :
           txn[q].step \in TransitionSteps =>
             requests'[txn[q].key].user = requests[txn[q].key].user,
         \A q \in Handlers \ {p} :
           CreateChecked(txn[q])' /\ TransitionChecked(txn[q])'
  PROVE  SafetyInv'
<1>1. txn'[p] = Idle /\ \A q \in Handlers \ {p} : txn'[q] = txn[q]
  BY DEF Finish, SafetyInv, TypeOK
<1>2. \A q \in Handlers \ {p} :
        /\ \A w \in Workspaces : HoldsCircuit(q, w)' => HoldsCircuit(q, w)
        /\ \A u \in Users : HoldsAccount(q, u)' => HoldsAccount(q, u)
        /\ \A k \in Keys : HoldsRequest(q, k)' => HoldsRequest(q, k)
        /\ \A k \in Keys : HoldsSlot(q, k)' => HoldsSlot(q, k)
  BY <1>1 DEF HoldsCircuit, HoldsAccount, HoldsRequest, HoldsSlot, TransitionSteps
<1>3. /\ \A w \in Workspaces : ~HoldsCircuit(p, w)'
      /\ \A u \in Users : ~HoldsAccount(p, u)'
      /\ \A k \in Keys : ~HoldsRequest(p, k)' /\ ~HoldsSlot(p, k)'
  BY <1>1 DEF HoldsCircuit, HoldsAccount, HoldsRequest, HoldsSlot, Idle
<1>4. LocksExclusive'
  BY <1>2, <1>3 DEF SafetyInv, LocksExclusive
<1>5. CreateChecked(txn[p])' /\ TransitionChecked(txn[p])'
  BY <1>1 DEF CreateChecked, TransitionChecked, TransitionSteps, Idle
<1>6. ChecksStillHold'
  BY <1>5 DEF ChecksStillHold
<1> QED
  BY <1>4, <1>6 DEF SafetyInv

LEMMA CommitCreateSafe ==
  ASSUME SafetyInv, NEW p \in Handlers, CommitCreate(p)
  PROVE  SafetyInv'
<1> DEFINE t == txn[p]
<1>1. t \in CreateTxn /\ t.step = "commitCreate"
  BY TxnKind DEF SafetyInv, TypeOK, CommitCreate, CreateSteps
<1>2. t.user \in Users /\ t.key \in Keys /\ t.amount \in Nat \ {0}
  BY <1>1 DEF CreateTxn
<1>3. requests[t.key] = NoRequest /\ t.amount =< available[t.user]
  BY <1>1 DEF SafetyInv, ChecksStillHold, CreateChecked
<1>4. TypeOK'
  BY <1>1, <1>2 DEF SafetyInv, TypeOK, CommitCreate, Finish, Txn, Request, States, CreateTxn
<1>5. NoOverdraft'
  BY <1>2, <1>3 DEF SafetyInv, TypeOK, NoOverdraft, CommitCreate
<1>6. ASSUME NEW q \in Handlers \ {p}
      PROVE  /\ CreateChecked(txn[q])' /\ TransitionChecked(txn[q])'
             /\ txn[q].step \in TransitionSteps =>
                  /\ txn[q].key # t.key
                  /\ requests'[txn[q].key] = requests[txn[q].key]
  <2>1. txn'[q] = txn[q] /\ txn[q] \in Txn
    BY DEF CommitCreate, Finish, SafetyInv, TypeOK
  <2>2. CreateChecked(txn[q]) /\ TransitionChecked(txn[q])
    BY DEF SafetyInv, ChecksStillHold
  <2>3. txn[q].step \in TransitionSteps =>
          txn[q].key # t.key /\ requests'[txn[q].key] = requests[txn[q].key]
    BY <1>2, <1>3, <2>1, <2>2, TxnKind
       DEF TransitionChecked, TransitionTxn, CommitCreate, SafetyInv, TypeOK
  <2>4. txn[q].step \in CreateSteps => txn[q].user \in Users /\ txn[q].key \in Keys
    BY <2>1, TxnKind DEF CreateTxn
  <2>5. txn[q].step \in {"insert", "commitCreate"} => txn[q].user # t.user
    BY <1>1, <1>2, <2>4 DEF SafetyInv, LocksExclusive, HoldsAccount, CreateSteps
  <2>6. txn[q].step = "commitCreate" => txn[q].key # t.key
    BY <1>1, <1>2, <2>4 DEF SafetyInv, LocksExclusive, HoldsSlot, CreateSteps
  <2>7. CreateChecked(txn[q])'
    BY <2>1, <2>2, <2>4, <2>5, <2>6
       DEF CreateChecked, CommitCreate, SafetyInv, TypeOK, CreateSteps
  <2>8. txn[q].step \in TransitionSteps =>
          requests[txn[q].key].user \in Users /\ requests[txn[q].key].amount \in Nat
    BY <2>1, <2>2, TxnKind, RequestFields
       DEF TransitionChecked, TransitionTxn, SafetyInv, TypeOK
  <2>9. \A u \in Users : reserved'[u] \in Int /\ reserved'[u] >= reserved[u]
    BY <1>2 DEF CommitCreate, SafetyInv, TypeOK
  <2>10. TransitionChecked(txn[q])'
    <3>1. txn[q].step = "commitTransition" /\ txn[q].target \in Releasing =>
            requests'[txn[q].key].amount =< reserved'[requests'[txn[q].key].user]
      BY <2>2, <2>3, <2>8, <2>9
         DEF TransitionChecked, TransitionSteps, SafetyInv, TypeOK
    <3>2. circuit' = circuit
      BY DEF CommitCreate
    <3> QED
      BY <2>1, <2>2, <2>3, <3>1, <3>2 DEF TransitionChecked, TransitionSteps
  <2> QED
    BY <2>3, <2>7, <2>10
<1> QED
  BY <1>4, <1>5, <1>6, CommitStep DEF CommitCreate

LEMMA CommitTransitionSafe ==
  ASSUME SafetyInv, NEW p \in Handlers, CommitTransition(p)
  PROVE  SafetyInv'
<1> DEFINE t == txn[p]
           r == requests[t.key]
           moved == IF t.target \in Releasing /\ Posted(t.key, t.target) = {}
                    THEN r.amount ELSE 0
<1>1. t \in TransitionTxn /\ t.step = "commitTransition"
  BY TxnKind DEF SafetyInv, TypeOK, CommitTransition, TransitionSteps
<1>2. t.key \in Keys /\ t.target \in RouteTargets /\ t.target \in States /\ t.actor \in Actors
  BY <1>1 DEF TransitionTxn, RouteTargets, States
<1>3. r # NoRequest /\ r \in Request
  BY <1>1, <1>2
     DEF SafetyInv, TypeOK, ChecksStillHold, TransitionChecked, TransitionSteps
<1>4. /\ moved \in Nat
      /\ t.target \in Releasing => moved =< reserved[r.user]
      /\ t.target \notin Releasing => moved = 0
  <2>1. r.amount \in Nat
    BY <1>3, RequestFields
  <2>2. t.target \in Releasing => r.amount =< reserved[r.user]
    BY <1>1 DEF SafetyInv, ChecksStillHold, TransitionChecked
  <2>3. reserved[r.user] \in Int /\ reserved[r.user] >= 0
    BY <1>3, RequestFields DEF SafetyInv, TypeOK, NoOverdraft
  <2> QED
    BY <2>1, <2>2, <2>3
<1> DEFINE r2 == [r EXCEPT !.state = t.target]
<1>5. /\ r2 \in Request /\ r2 # NoRequest
      /\ r2.user = r.user /\ r2.amount = r.amount /\ r2.state = t.target
  BY <1>2, <1>3 DEF Request
<1>6. /\ requests' = [requests EXCEPT ![t.key] = r2]
      /\ available' = [available EXCEPT ![r.user] = @ + moved]
      /\ reserved' = [reserved EXCEPT ![r.user] = @ - moved]
      /\ circuit' = circuit
      /\ Finish(p)
  BY <1>1 DEF CommitTransition
<1>7. releases' \subseteq Keys \X Releasing \X Actors
  BY <1>1, <1>2 DEF CommitTransition, SafetyInv, TypeOK
<1> HIDE DEF moved, r2
<1>8. TypeOK'
  BY <1>2, <1>3, <1>4, <1>5, <1>6, <1>7, RequestFields
     DEF SafetyInv, TypeOK, Finish, Txn
<1>9. NoOverdraft'
  BY <1>3, <1>4, <1>6, RequestFields DEF SafetyInv, TypeOK, NoOverdraft
<1>10. ASSUME NEW q \in Handlers \ {p}
       PROVE  /\ CreateChecked(txn[q])' /\ TransitionChecked(txn[q])'
              /\ txn[q].step \in TransitionSteps =>
                   requests'[txn[q].key].user = requests[txn[q].key].user
  <2>1. txn'[q] = txn[q] /\ txn[q] \in Txn
    BY <1>6 DEF Finish, SafetyInv, TypeOK
  <2>2. CreateChecked(txn[q]) /\ TransitionChecked(txn[q])
    BY DEF SafetyInv, ChecksStillHold
  <2>3. txn[q].step \in TransitionSteps =>
          /\ txn[q].key \in Keys
          /\ requests'[txn[q].key] # NoRequest
          /\ requests'[txn[q].key].user = requests[txn[q].key].user
          /\ requests'[txn[q].key].amount = requests[txn[q].key].amount
    BY <1>2, <1>5, <1>6, <2>1, <2>2, TxnKind
       DEF TransitionChecked, TransitionTxn, SafetyInv, TypeOK
  <2>4. CreateChecked(txn[q])'
    <3>1. txn[q].step \in CreateSteps => txn[q].user \in Users /\ txn[q].key \in Keys
                                         /\ txn[q].amount \in Nat
      BY <2>1, TxnKind DEF CreateTxn
    <3>2. \A u \in Users : available[u] \in Int /\ available'[u] \in Int
                           /\ available'[u] >= available[u]
      BY <1>3, <1>4, <1>6, RequestFields DEF SafetyInv, TypeOK
    <3>3. txn[q].step \in {"insert", "commitCreate"} => txn[q].amount =< available'[txn[q].user]
      BY <2>2, <3>1, <3>2 DEF CreateChecked, CreateSteps
    <3>4. \A k \in Keys : requests[k] = NoRequest => requests'[k] = NoRequest
      BY <1>2, <1>3, <1>6 DEF SafetyInv, TypeOK
    <3> QED
      BY <1>6, <2>1, <2>2, <3>1, <3>3, <3>4 DEF CreateChecked, CreateSteps
  <2>5. TransitionChecked(txn[q])'
    <3> SUFFICES ASSUME txn[q].step = "commitTransition", txn[q].target \in Releasing
                 PROVE  requests[txn[q].key].amount =< reserved'[requests[txn[q].key].user]
      BY <1>6, <2>1, <2>2, <2>3 DEF TransitionChecked, TransitionSteps
    <3> DEFINE rq == requests[txn[q].key]
    <3>1. rq \in Request /\ rq.amount =< reserved[rq.user]
      BY <2>1, <2>2, <2>3
         DEF TransitionChecked, TransitionSteps, SafetyInv, TypeOK
    <3>2. rq.user \in Users /\ r.user \in Users
      BY <3>1, <1>3, RequestFields
    <3>3. CASE t.target \in Releasing
      <4>1. HoldsAccount(p, r.user) /\ HoldsAccount(q, rq.user)
        BY <1>1, <3>3 DEF HoldsAccount
      <4>2. r.user # rq.user
        BY <4>1, <3>2 DEF SafetyInv, LocksExclusive
      <4> QED
        BY <4>2, <3>1, <3>2, <1>6 DEF SafetyInv, TypeOK
    <3>4. CASE t.target \notin Releasing
      BY <3>4, <3>1, <3>2, <1>4, <1>6 DEF SafetyInv, TypeOK
    <3> QED
      BY <3>3, <3>4
  <2> QED
    BY <2>3, <2>4, <2>5
<1> QED
  BY <1>6, <1>8, <1>9, <1>10, CommitStep

LEMMA CommitBreakerSafe ==
  ASSUME SafetyInv, NEW p \in Handlers, CommitBreaker(p)
  PROVE  SafetyInv'
<1> DEFINE t == txn[p]
<1>1. t \in BreakerTxn /\ t.step = "commitBreaker"
  BY TxnKind DEF SafetyInv, TypeOK, CommitBreaker, BreakerSteps
<1>2. t.workspace \in Workspaces /\ t.to \in CircuitStates
  BY <1>1 DEF BreakerTxn
<1>3. TypeOK'
  BY <1>2 DEF SafetyInv, TypeOK, CommitBreaker, Finish, Txn
<1>4. NoOverdraft'
  BY DEF SafetyInv, NoOverdraft, CommitBreaker
<1>5. ASSUME NEW q \in Handlers \ {p}
      PROVE  CreateChecked(txn[q])' /\ TransitionChecked(txn[q])'
  <2>1. txn'[q] = txn[q] /\ txn[q] \in Txn
    BY DEF CommitBreaker, Finish, SafetyInv, TypeOK
  <2>2. CreateChecked(txn[q]) /\ TransitionChecked(txn[q])
    BY DEF SafetyInv, ChecksStillHold
  <2>3. \A w \in Workspaces : HoldsCircuit(q, w) => circuit'[w] = circuit[w]
    BY <1>1, <1>2 DEF SafetyInv, LocksExclusive, TypeOK, HoldsCircuit, CommitBreaker
  <2>4. txn[q].step \in {"reserve", "insert", "commitCreate"} =>
          circuit'[WorkspaceOf[txn[q].user]] = "enabled"
    <3> SUFFICES ASSUME txn[q].step \in {"reserve", "insert", "commitCreate"}
                 PROVE  circuit'[WorkspaceOf[txn[q].user]] = "enabled"
      OBVIOUS
    <3>1. txn[q] \in CreateTxn
      BY <2>1, TxnKind DEF CreateSteps
    <3>2. WorkspaceOf[txn[q].user] \in Workspaces
      BY <3>1 DEF CreateTxn
    <3> QED
      BY <2>2, <2>3, <3>2 DEF CreateChecked, HoldsCircuit
  <2>5. txn[q].step = "commitTransition" /\ txn[q].target = "approved" =>
          circuit'[WorkspaceOf[requests[txn[q].key].user]] = "enabled"
    <3> SUFFICES ASSUME txn[q].step = "commitTransition", txn[q].target = "approved"
                 PROVE  circuit'[WorkspaceOf[requests[txn[q].key].user]] = "enabled"
      OBVIOUS
    <3>1. requests[txn[q].key] \in Request
      BY <2>1, <2>2, TxnKind
         DEF TransitionChecked, TransitionTxn, TransitionSteps, SafetyInv, TypeOK
    <3>2. WorkspaceOf[requests[txn[q].key].user] \in Workspaces
      BY <3>1, RequestFields
    <3> QED
      BY <2>2, <2>3, <3>2 DEF TransitionChecked, HoldsCircuit
  <2>6. requests' = requests /\ available' = available /\ reserved' = reserved
    BY DEF CommitBreaker
  <2> QED
    BY <2>1, <2>2, <2>4, <2>5, <2>6 DEF CreateChecked, TransitionChecked
<1> QED
  BY <1>3, <1>4, <1>5, CommitStep DEF CommitBreaker

LEMMA StepSafe == SafetyInv /\ [Next]_vars => SafetyInv'
<1> SUFFICES ASSUME SafetyInv, [Next]_vars PROVE SafetyInv'
  OBVIOUS
<1>1. CASE UNCHANGED vars
  BY <1>1 DEF vars, SafetyInv, TypeOK, NoOverdraft, LocksExclusive, ChecksStillHold,
              HoldsCircuit, HoldsAccount, HoldsRequest, HoldsSlot,
              CreateChecked, TransitionChecked
<1>2. ASSUME NEW p \in Handlers, Arrive(p) PROVE SafetyInv'
  BY <1>2, ArriveSafe
<1>3. ASSUME NEW p \in Handlers, Progress(p) PROVE SafetyInv'
  BY <1>3, CreateChecksSafe, CommitCreateSafe, TransitionChecksSafe,
     CommitTransitionSafe, BreakerChecksSafe, CommitBreakerSafe
     DEF Progress, CreateStep, TransitionStep, BreakerStep
<1>4. ASSUME NEW p \in Handlers, Abort(p) PROVE SafetyInv'
  BY <1>4, RollbackSafe DEF Abort
<1> QED
  BY <1>1, <1>2, <1>3, <1>4 DEF Next

\* The inductive invariant of the withdrawal handlers.
THEOREM Safety == Spec => []SafetyInv
BY InitSafety, StepSafe, PTL DEF Spec

\* Every variable keeps its type, in particular no transition is ever applied
\* to a request that does not exist.
THEOREM TypeCorrect == Spec => []TypeOK
<1>1. SafetyInv => TypeOK
  BY DEF SafetyInv
<1> QED
  BY <1>1, Safety, PTL

\* No bucket of any customer account is ever negative, whatever the number of
\* concurrent handlers and whichever routes they come from (LedgerService
\* transfer_bucket under the account's row lock).
THEOREM NeverOverdrawn == Spec => []NoOverdraft
<1>1. SafetyInv => NoOverdraft
  BY DEF SafetyInv
<1> QED
  BY <1>1, Safety, PTL

-----------------------------------------------------------------------------
(* What a step does to the tables. *)

LEMMA TablesChange ==
  ASSUME Next
  PROVE  \/ UNCHANGED tables
         \/ \E p \in Handlers :
              CommitCreate(p) \/ CommitTransition(p) \/ CommitBreaker(p)
BY DEF Next, Arrive, Progress, CreateStep, TransitionStep, BreakerStep, Abort,
       BeginCreate, BeginTransition, BeginCancel, BeginChangeCircuit, Begin,
       LockCircuit, Reserve, InsertRequest, LockRequest, LockApprovalCircuit,
       Release, LockBreaker, InitBreaker, Advance, Rollback

LEMMA GateStep == SafetyInv /\ [Next]_vars => PassesCircuit
<1> SUFFICES ASSUME SafetyInv, [Next]_vars, NEW k \in Keys, requests'[k] # requests[k],
                    requests[k] = NoRequest \/ requests'[k].state = "approved"
             PROVE  circuit[WorkspaceOf[requests'[k].user]] = "enabled"
  BY DEF PassesCircuit
<1>1. PICK p \in Handlers : CommitCreate(p) \/ CommitTransition(p)
  BY TablesChange DEF vars, tables, CommitBreaker
<1>2. CASE CommitCreate(p)
  <2>1. txn[p] \in CreateTxn /\ txn[p].step = "commitCreate"
    BY <1>2, TxnKind DEF SafetyInv, TypeOK, CommitCreate, CreateSteps
  <2>2. requests'[k].user = txn[p].user
    BY <1>2, <2>1 DEF CommitCreate, SafetyInv, TypeOK, CreateTxn
  <2> QED
    BY <2>1, <2>2 DEF SafetyInv, ChecksStillHold, CreateChecked
<1>3. CASE CommitTransition(p)
  <2> DEFINE t == txn[p]
  <2>1. t \in TransitionTxn /\ t.step = "commitTransition"
    BY <1>3, TxnKind DEF SafetyInv, TypeOK, CommitTransition, TransitionSteps
  <2>2. /\ requests[t.key] # NoRequest
        /\ t.target = "approved" =>
             circuit[WorkspaceOf[requests[t.key].user]] = "enabled"
    BY <2>1 DEF SafetyInv, ChecksStillHold, TransitionChecked, TransitionSteps
  <2>3. requests[t.key] \in Request /\ t.key \in Keys
    BY <2>1, <2>2 DEF SafetyInv, TypeOK, TransitionTxn
  <2>4. k = t.key
    BY <1>3, <2>3 DEF CommitTransition, SafetyInv, TypeOK
  <2>5. requests'[k].user = requests[k].user /\ requests'[k].state = t.target
    BY <1>3, <2>3, <2>4 DEF CommitTransition, SafetyInv, TypeOK, Request
  <2> QED
    BY <2>2, <2>4, <2>5
<1> QED
  BY <1>1, <1>2, <1>3

\* A request is never created or approved in a workspace whose circuit is not
\* enabled at that very commit (WithdrawalService._circuit holds the row lock).
THEOREM CircuitGates == Spec => CircuitGatesCommits
BY Safety, GateStep, PTL DEF Spec, CircuitGatesCommits

-----------------------------------------------------------------------------
(* Without the cancel route, every decision is taken on the locked row.    *)

LEMMA FinalStates ==
  \A s \in States : /\ s \in Releasing => TRANSITIONS[s] = {}
                    /\ TRANSITIONS[s] \subseteq States
BY DEF States, Releasing, TRANSITIONS

LEMMA InitBook == Init => BookInv
<1> SUFFICES ASSUME Init PROVE BookInv
  OBVIOUS
<1>1. DecisionsFresh
  BY DEF Init, DecisionsFresh, Idle, TransitionSteps
<1>2. ReleasedExactlyWhenClosed
  <2> SUFFICES ASSUME NEW k \in Keys
               PROVE  {<<r[1], r[2]>> : r \in {x \in releases : x[1] = k}} =
                        IF requests[k] # NoRequest /\ ~Open(k)
                        THEN {<<k, requests[k].state>>} ELSE {}
    BY DEF ReleasedExactlyWhenClosed
  <2>1. requests[k] = NoRequest /\ {x \in releases : x[1] = k} = {}
    BY DEF Init
  <2> QED
    BY <2>1
<1> QED
  BY <1>1, <1>2, InitSafety DEF BookInv

\* What a commit of a transition finds: an open request with no release.
LEMMA OpenAtCommit ==
  ASSUME BookInv, NEW p \in Handlers, CommitTransition(p)
  PROVE  LET t == txn[p]
             r == requests[t.key]
         IN  /\ t \in TransitionTxn /\ t.key \in Keys /\ t.target \in States
             /\ t.actor \in Actors /\ t.target \in RouteTargets
             /\ r \in Request /\ r # NoRequest
             /\ t.target \in TRANSITIONS[r.state]
             /\ r.state \notin Releasing
             /\ {x \in releases : x[1] = t.key} = {}
             /\ Posted(t.key, t.target) = {}
<1> DEFINE t == txn[p]
           r == requests[t.key]
<1>1. t \in TransitionTxn /\ t.step = "commitTransition"
  BY TxnKind DEF BookInv, SafetyInv, TypeOK, CommitTransition, TransitionSteps
<1>2. t.key \in Keys /\ t.target \in RouteTargets /\ t.target \in States /\ t.actor \in Actors
  BY <1>1 DEF TransitionTxn, RouteTargets, States
<1>3. r # NoRequest /\ r \in Request
  BY <1>1, <1>2 DEF BookInv, SafetyInv, TypeOK, ChecksStillHold, TransitionChecked,
                    TransitionSteps
<1>4. t.target \in TRANSITIONS[r.state]
  BY <1>1 DEF BookInv, DecisionsFresh, TransitionSteps
<1>5. r.state \notin Releasing
  BY <1>3, <1>4, FinalStates, RequestFields
<1>6. {<<x[1], x[2]>> : x \in {y \in releases : y[1] = t.key}} = {}
  BY <1>2, <1>3, <1>5 DEF BookInv, ReleasedExactlyWhenClosed, Open
<1>7. {x \in releases : x[1] = t.key} = {}
  BY <1>6
<1>8. Posted(t.key, t.target) = {}
  BY <1>7 DEF Posted
<1> QED
  BY <1>1, <1>2, <1>3, <1>4, <1>5, <1>7, <1>8

\* A handler that is past its table check and does not move keeps its right to
\* decide: no other handler changes the state of the row it has locked.
LEMMA OthersStayFresh ==
  ASSUME BookInv, NEW p \in Handlers, NEW q \in Handlers \ {p}, txn'[q] = txn[q],
         UNCHANGED tables \/ CommitCreate(p) \/ CommitTransition(p) \/ CommitBreaker(p),
         txn[q].step \in TransitionSteps
  PROVE  /\ txn'[q].seen = NotLoaded
         /\ txn'[q].step # "lockRequest" =>
              txn'[q].target \in TRANSITIONS[requests'[txn'[q].key].state]
<1> DEFINE t == txn[q]
<1>1. t \in TransitionTxn
  BY TxnKind DEF BookInv, SafetyInv, TypeOK
<1>2. t.key \in Keys /\ requests[t.key] # NoRequest
  BY <1>1 DEF TransitionTxn, BookInv, SafetyInv, ChecksStillHold, TransitionChecked
<1>3. t.seen = NotLoaded /\
      (t.step # "lockRequest" => t.target \in TRANSITIONS[requests[t.key].state])
  BY DEF BookInv, DecisionsFresh
<1>4. t.step # "lockRequest" => requests'[t.key] = requests[t.key]
  <2> SUFFICES ASSUME t.step # "lockRequest" PROVE requests'[t.key] = requests[t.key]
    OBVIOUS
  <2>1. CASE UNCHANGED tables \/ CommitBreaker(p)
    BY <2>1 DEF tables, CommitBreaker
  <2>2. CASE CommitCreate(p)
    <3>1. requests[txn[p].key] = NoRequest
      BY <2>2 DEF CommitCreate, BookInv, SafetyInv, ChecksStillHold, CreateChecked
    <3>2. txn[p].key # t.key
      BY <3>1, <1>2
    <3> QED
      BY <2>2, <3>2, <1>2 DEF CommitCreate, BookInv, SafetyInv, TypeOK
  <2>3. CASE CommitTransition(p)
    <3>1. HoldsRequest(q, t.key)
      BY <1>1 DEF HoldsRequest, TransitionTxn, TransitionSteps
    <3>2. ~HoldsRequest(p, t.key)
      BY <3>1, <1>2 DEF BookInv, SafetyInv, LocksExclusive
    <3>3. txn[p].key # t.key
      BY <3>2, <2>3 DEF HoldsRequest, CommitTransition
    <3> QED
      BY <2>3, <3>3, <1>2 DEF CommitTransition, BookInv, SafetyInv, TypeOK
  <2> QED
    BY <2>1, <2>2, <2>3
<1> QED
  BY <1>3, <1>4

LEMMA ProgressIsBusy ==
  ASSUME NEW p, Progress(p)
  PROVE  txn[p].step # "idle"
<1>1. CASE CreateStep(p)
  BY <1>1 DEF CreateStep, LockCircuit, Reserve, InsertRequest, CommitCreate
<1>2. CASE TransitionStep(p)
  BY <1>2 DEF TransitionStep, LockRequest, LockApprovalCircuit, Release, CommitTransition
<1>3. CASE BreakerStep(p)
  BY <1>3 DEF BreakerStep, LockBreaker, InitBreaker, CommitBreaker
<1> QED
  BY <1>1, <1>2, <1>3 DEF Progress

\* Where a handler can go: it ends, or it stays among the steps of its own
\* operation, and a transition gets past its table check only if that succeeds.
LEMMA Moves ==
  ASSUME NEW p, txn[p] \in Txn, Progress(p), ~Finish(p)
  PROVE  \E s :
           /\ Advance(p, s)
           /\ \/ txn[p].step \notin TransitionSteps /\ s \notin TransitionSteps
              \/ /\ txn[p].step \in TransitionSteps /\ s \in TransitionSteps
                 /\ txn[p].step = "lockRequest" =>
                      txn[p].target \in TRANSITIONS[Current(txn[p])]
<1>1. CASE CreateStep(p)
  <2>1. txn[p].step \notin TransitionSteps
    BY <1>1 DEF CreateStep, LockCircuit, Reserve, InsertRequest, CommitCreate,
                TransitionSteps
  <2>2. Advance(p, "reserve") \/ Advance(p, "insert") \/ Advance(p, "commitCreate")
    BY <1>1 DEF CreateStep, LockCircuit, Reserve, InsertRequest, CommitCreate, Rollback
  <2> QED
    BY <2>1, <2>2 DEF TransitionSteps
<1>2. CASE BreakerStep(p)
  <2>1. txn[p].step \notin TransitionSteps
    BY <1>2 DEF BreakerStep, LockBreaker, InitBreaker, CommitBreaker, TransitionSteps
  <2>2. Advance(p, "initBreaker") \/ Advance(p, "commitBreaker")
    BY <1>2 DEF BreakerStep, LockBreaker, InitBreaker, CommitBreaker, Rollback
  <2> QED
    BY <2>1, <2>2 DEF TransitionSteps
<1>3. CASE LockRequest(p)
  <2> DEFINE t == txn[p]
             s == CASE t.target = "approved"     -> "approve"
                    [] t.target \in Releasing    -> "release"
                    [] OTHER                     -> "commitTransition"
  <2>1. Advance(p, s) /\ t.step = "lockRequest" /\ t.target \in TRANSITIONS[Current(t)]
    BY <1>3 DEF LockRequest, Rollback
  <2>2. s \in TransitionSteps
    BY DEF TransitionSteps, Releasing
  <2> HIDE DEF s
  <2> QED
    BY <2>1, <2>2 DEF TransitionSteps
<1>4. CASE LockApprovalCircuit(p) \/ Release(p) \/ CommitTransition(p)
  <2>1. txn[p].step \in {"approve", "release"} /\ Advance(p, "commitTransition")
    BY <1>4 DEF LockApprovalCircuit, Release, CommitTransition, Rollback
  <2> QED
    BY <2>1 DEF TransitionSteps
<1> QED
  BY <1>1, <1>2, <1>3, <1>4 DEF Progress, TransitionStep

LEMMA FreshStep ==
  ASSUME CancelActors = {}, BookInv, Next
  PROVE  DecisionsFresh'
<1> SUFFICES ASSUME NEW q \in Handlers, txn'[q].step \in TransitionSteps
             PROVE  /\ txn'[q].seen = NotLoaded
                    /\ txn'[q].step # "lockRequest" =>
                         txn'[q].target \in TRANSITIONS[requests'[txn'[q].key].state]
  BY DEF DecisionsFresh
<1>1. PICK p \in Handlers : Arrive(p) \/ Progress(p) \/ Abort(p)
  BY DEF Next
<1> USE DEF CreateStep, TransitionStep, BreakerStep
<1>2. txn \in [Handlers -> Txn]
  BY DEF BookInv, SafetyInv, TypeOK
<1>3. CASE q # p
  <2>1. txn'[q] = txn[q]
    BY <1>1, <1>2, <1>3
       DEF Arrive, Progress, Abort, BeginCreate, BeginTransition, BeginCancel,
           BeginChangeCircuit, Begin, LockCircuit, Reserve, InsertRequest,
           CommitCreate, LockRequest, LockApprovalCircuit, Release,
           CommitTransition, LockBreaker, InitBreaker, CommitBreaker, Advance,
           Rollback, Finish
  <2>2. UNCHANGED tables \/ CommitCreate(p) \/ CommitTransition(p) \/ CommitBreaker(p)
    BY <1>1 DEF Arrive, Progress, Abort, BeginCreate, BeginTransition, BeginCancel,
                BeginChangeCircuit, Begin, LockCircuit, Reserve, InsertRequest,
                LockRequest, LockApprovalCircuit, Release, LockBreaker,
                InitBreaker, Advance, Rollback
  <2> QED
    BY <2>1, <2>2, <1>3, OthersStayFresh
<1>4. CASE q = p
  <2> DEFINE t == txn[p]
  <2>1. txn'[p] # Idle
    BY <1>4 DEF Idle, TransitionSteps
  <2>2. CASE Arrive(p)
    BY <2>2, <1>2, <1>4
       DEF Arrive, BeginCreate, BeginTransition, BeginCancel, BeginChangeCircuit,
           Begin, TransitionSteps
  <2>3. CASE Progress(p)
    <3>1. t \in Txn /\ ~Finish(p)
      BY <1>2, <2>1 DEF Finish
    <3>2. PICK s : /\ Advance(p, s)
                   /\ \/ t.step \notin TransitionSteps /\ s \notin TransitionSteps
                      \/ /\ t.step \in TransitionSteps /\ s \in TransitionSteps
                         /\ t.step = "lockRequest" => t.target \in TRANSITIONS[Current(t)]
      BY <3>1, <2>3, Moves
    <3>3. txn'[p] = [t EXCEPT !.step = s] /\ requests' = requests
      BY <3>2, <1>2 DEF Advance, tables
    <3>4. CASE t.step \notin TransitionSteps
      <4>1. t \in CreateTxn \/ t \in TransitionTxn \/ t \in BreakerTxn \/ t = Idle
        BY <3>1 DEF Txn
      <4>2. txn'[p].step = s \/ t = Idle
        BY <3>3, <4>1 DEF CreateTxn, TransitionTxn, BreakerTxn
      <4>3. t # Idle
        BY <2>3, ProgressIsBusy DEF Idle
      <4> QED
        BY <4>2, <4>3, <3>2, <3>4, <1>4
    <3>5. CASE t.step \in TransitionSteps
      <4>1. t \in TransitionTxn
        BY <3>1, <3>5, TxnKind
      <4>2. t.seen = NotLoaded /\
            (t.step # "lockRequest" => t.target \in TRANSITIONS[requests[t.key].state])
        BY <3>5 DEF BookInv, DecisionsFresh
      <4>3. t.target \in TRANSITIONS[requests[t.key].state]
        BY <4>2, <3>2, <3>5 DEF Current
      <4> QED
        BY <4>1, <4>2, <4>3, <3>3, <1>4 DEF TransitionTxn
    <3> QED
      BY <3>4, <3>5
  <2>4. CASE Abort(p)
    BY <2>1, <2>4, <1>2 DEF Abort, Rollback, Finish
  <2> QED
    BY <1>1, <2>2, <2>3, <2>4
<1> QED
  BY <1>3, <1>4

LEMMA ReleaseStep ==
  ASSUME BookInv, Next
  PROVE  ReleasedExactlyWhenClosed'
<1> DEFINE Marks(k) == {<<r[1], r[2]>> : r \in {x \in releases : x[1] = k}}
           Want(k) == IF requests[k] # NoRequest /\ ~Open(k)
                      THEN {<<k, requests[k].state>>} ELSE {}
<1>1. \A k \in Keys : Marks(k) = Want(k)
  BY DEF BookInv, ReleasedExactlyWhenClosed
<1> SUFFICES ASSUME NEW k \in Keys PROVE Marks(k)' = Want(k)'
  BY DEF ReleasedExactlyWhenClosed
<1>2. CASE \E p \in Handlers : CommitCreate(p)
  <2>1. PICK p \in Handlers : CommitCreate(p)
    BY <1>2
  <2>2. txn[p] \in CreateTxn /\ txn[p].step = "commitCreate" /\ txn[p].key \in Keys
    BY <2>1, TxnKind DEF BookInv, SafetyInv, TypeOK, CommitCreate, CreateSteps, CreateTxn
  <2>3. releases' = releases
    BY <2>1 DEF CommitCreate
  <2>4. requests[txn[p].key] = NoRequest
    BY <2>2 DEF BookInv, SafetyInv, ChecksStillHold, CreateChecked
  <2>5. CASE k # txn[p].key
    <3>1. requests'[k] = requests[k]
      BY <2>1, <2>5 DEF CommitCreate, BookInv, SafetyInv, TypeOK
    <3> QED
      BY <1>1, <2>3, <3>1 DEF Open
  <2>6. CASE k = txn[p].key
    <3>1. Want(k) = {}
      BY <2>4, <2>6
    <3>2. requests'[k].state = "under_review"
      BY <2>1, <2>2, <2>6 DEF CommitCreate, BookInv, SafetyInv, TypeOK
    <3>3. Want(k)' = {}
      BY <3>2 DEF Open, Releasing
    <3> QED
      BY <1>1, <2>3, <3>1, <3>3
  <2> QED
    BY <2>5, <2>6
<1>3. CASE \E p \in Handlers : CommitTransition(p)
  <2>1. PICK p \in Handlers : CommitTransition(p)
    BY <1>3
  <2> DEFINE t == txn[p]
             r == requests[t.key]
  <2>2. /\ t.key \in Keys /\ t.target \in States /\ r \in Request /\ r # NoRequest
        /\ {x \in releases : x[1] = t.key} = {}
    BY <2>1, OpenAtCommit
  <2>3. CASE k # t.key
    <3>1. requests'[k] = requests[k]
      BY <2>1, <2>2, <2>3 DEF CommitTransition, BookInv, SafetyInv, TypeOK
    <3>2. {x \in releases' : x[1] = k} = {x \in releases : x[1] = k}
      BY <2>1, <2>3 DEF CommitTransition
    <3> QED
      BY <1>1, <3>1, <3>2 DEF Open
  <2>4. CASE k = t.key
    <3>1. requests'[k] \in Request /\ requests'[k].state = t.target
      BY <2>1, <2>2, <2>4 DEF CommitTransition, BookInv, SafetyInv, TypeOK, Request
    <3>2. CASE t.target \in Releasing
      <4>1. releases' = releases \cup {<<t.key, t.target, t.actor>>}
        BY <2>1, <3>2 DEF CommitTransition
      <4>2. {x \in releases' : x[1] = k} = {<<t.key, t.target, t.actor>>}
        BY <4>1, <2>2, <2>4
      <4>3. Marks(k)' = {<<k, t.target>>}
        <5> DEFINE S == {x \in releases' : x[1] = k}
        <5>1. S = {<<k, t.target, t.actor>>}
          BY <4>2, <2>4
        <5>2. Marks(k)' = {<<x[1], x[2]>> : x \in S}
          OBVIOUS
        <5> HIDE DEF S, Marks
        <5> QED
          BY <5>1, <5>2
      <4>4. Want(k)' = {<<k, t.target>>}
        BY <3>1, <3>2 DEF Open
      <4> QED
        BY <4>3, <4>4
    <3>3. CASE t.target \notin Releasing
      <4>1. releases' = releases
        BY <2>1, <3>3 DEF CommitTransition
      <4>2. Marks(k)' = {}
        BY <4>1, <2>2, <2>4
      <4>3. Want(k)' = {}
        BY <3>1, <3>3 DEF Open
      <4> QED
        BY <4>2, <4>3
    <3> QED
      BY <3>2, <3>3
  <2> QED
    BY <2>3, <2>4
<1>4. CASE UNCHANGED tables \/ \E p \in Handlers : CommitBreaker(p)
  <2>1. requests' = requests /\ releases' = releases
    BY <1>4 DEF tables, CommitBreaker
  <2> QED
    BY <1>1, <2>1 DEF Open
<1> QED
  BY <1>2, <1>3, <1>4, TablesChange

LEMMA BookStep ==
  ASSUME CancelActors = {}
  PROVE  BookInv /\ [Next]_vars => BookInv'
<1> SUFFICES ASSUME BookInv, [Next]_vars PROVE BookInv'
  OBVIOUS
<1>1. SafetyInv'
  BY StepSafe DEF BookInv
<1>2. CASE Next
  BY <1>1, <1>2, FreshStep, ReleaseStep DEF BookInv
<1>3. CASE UNCHANGED vars
  <2>1. DecisionsFresh'
    BY <1>3 DEF vars, BookInv, DecisionsFresh
  <2>2. ReleasedExactlyWhenClosed'
    BY <1>3 DEF vars, BookInv, ReleasedExactlyWhenClosed, Open
  <2> QED
    BY <1>1, <2>1, <2>2 DEF BookInv
<1> QED
  BY <1>2, <1>3

\* When no one uses the cancel route, a closed request has exactly one posted
\* release and an open one has none: the reservation is given back once.
THEOREM ReleasedOnce ==
  ASSUME CancelActors = {}
  PROVE  Spec => []ReleasedExactlyWhenClosed
<1>1. BookInv => ReleasedExactlyWhenClosed
  BY DEF BookInv
<1> QED
  BY <1>1, InitBook, BookStep, PTL DEF Spec

-----------------------------------------------------------------------------
(* Refinement: every step of the handlers is a step of the book, or none.   *)

LEMMA SameVocabulary ==
  /\ Book!Missing = Missing
  /\ Book!Releasing = Releasing
  /\ Book!RouteTargets = RouteTargets
  /\ Book!CircuitStates = CircuitStates
  /\ Book!TRANSITIONS = TRANSITIONS
<1>1. Book!States = States
  BY DEF States, Book!States
<1> QED
  BY <1>1 DEF Missing, Book!Missing, Releasing, Book!Releasing, RouteTargets,
         Book!RouteTargets, CircuitStates, Book!CircuitStates, TRANSITIONS, Book!TRANSITIONS

LEMMA InitRefines == Init => Book!BookInit
BY SameVocabulary DEF Init, Book!BookInit

LEMMA StepRefines == BookInv /\ [Next]_vars => [Book!BookNext]_<<circuit, requests, available, reserved>>
<1> USE SameVocabulary
<1> SUFFICES ASSUME BookInv, Next
             PROVE  Book!BookNext \/ UNCHANGED <<circuit, requests, available, reserved>>
  BY DEF vars
<1>1. ASSUME NEW p \in Handlers, CommitCreate(p) PROVE Book!BookNext
  <2> DEFINE t == txn[p]
  <2>1. t \in CreateTxn /\ t.step = "commitCreate"
    BY <1>1, TxnKind DEF BookInv, SafetyInv, TypeOK, CommitCreate, CreateSteps
  <2>2. /\ circuit[WorkspaceOf[t.user]] = "enabled"
        /\ t.amount =< available[t.user] /\ requests[t.key] = NoRequest
    BY <2>1 DEF BookInv, SafetyInv, ChecksStillHold, CreateChecked
  <2>3. Book!Accept(t.user, t.key, t.amount)
    BY <1>1, <2>2 DEF CommitCreate, Book!Accept
  <2> QED
    BY <2>1, <2>3 DEF CreateTxn, Book!BookNext
<1>2. ASSUME NEW p \in Handlers, CommitTransition(p) PROVE Book!BookNext
  <2> DEFINE t == txn[p]
             r == requests[t.key]
  <2>1. /\ t.key \in Keys /\ t.target \in RouteTargets /\ r # NoRequest
        /\ t.target \in TRANSITIONS[r.state] /\ Posted(t.key, t.target) = {}
        /\ r \in Request
    BY <1>2, OpenAtCommit
  <2>2. CASE t.target \in Releasing
    <3>1. Book!Close(t.key, t.target)
      BY <1>2, <2>1, <2>2 DEF CommitTransition, Book!Close
    <3> QED
      BY <2>1, <3>1 DEF Book!BookNext
  <2>3. CASE t.target \notin Releasing
    <3>1. t.target = "approved" => circuit[WorkspaceOf[r.user]] = "enabled"
      BY <1>2 DEF CommitTransition, BookInv, SafetyInv, ChecksStillHold, TransitionChecked
    <3>2. available' = available /\ reserved' = reserved /\ circuit' = circuit
      BY <1>2, <2>1, <2>3, RequestFields
         DEF CommitTransition, BookInv, SafetyInv, TypeOK
    <3>3. Book!Decide(t.key, t.target)
      BY <1>2, <2>1, <2>3, <3>1, <3>2 DEF CommitTransition, Book!Decide
    <3> QED
      BY <2>1, <3>3 DEF Book!BookNext
  <2> QED
    BY <2>2, <2>3
<1>3. ASSUME NEW p \in Handlers, CommitBreaker(p) PROVE Book!BookNext
  <2>1. txn[p] \in BreakerTxn
    BY <1>3, TxnKind DEF BookInv, SafetyInv, TypeOK, CommitBreaker, BreakerSteps
  <2>2. Book!Switch(txn[p].workspace, txn[p].to)
    BY <1>3 DEF CommitBreaker, Book!Switch
  <2> QED
    BY <2>1, <2>2 DEF BreakerTxn, Book!BookNext
<1> QED
  BY <1>1, <1>2, <1>3, TablesChange DEF tables

\* When no one uses the cancel route, the concurrent handlers implement the
\* abstract book: reservations, decisions and refunds behave as if each request
\* were served alone.
THEOREM Refinement ==
  ASSUME CancelActors = {}
  PROVE  Spec => ImplementsBook
<1>1. Spec => []BookInv
  BY InitBook, BookStep, PTL DEF Spec
<1> QED
  BY <1>1, InitRefines, StepRefines, PTL DEF Spec, ImplementsBook, Book!BookSpec, Book!bookVars

LEMMA LegalStep == BookInv /\ [Next]_vars => LegalTransition
<1> SUFFICES ASSUME BookInv, [Next]_vars, NEW k \in Keys, requests[k] # NoRequest
             PROVE  /\ requests'[k] # NoRequest
                    /\ \/ requests'[k].state = requests[k].state
                       \/ requests'[k].state \in TRANSITIONS[requests[k].state]
  BY DEF LegalTransition
<1>1. CASE requests'[k] = requests[k]
  BY <1>1
<1>2. ASSUME requests'[k] # requests[k], NEW p \in Handlers, CommitCreate(p) PROVE FALSE
  <2>1. requests[txn[p].key] = NoRequest
    BY <1>2 DEF CommitCreate, BookInv, SafetyInv, ChecksStillHold, CreateChecked
  <2> QED
    BY <1>2, <2>1 DEF CommitCreate, BookInv, SafetyInv, TypeOK
<1>3. ASSUME requests'[k] # requests[k], NEW p \in Handlers, CommitTransition(p)
      PROVE  /\ requests'[k] # NoRequest
             /\ requests'[k].state \in TRANSITIONS[requests[k].state]
  <2> DEFINE t == txn[p]
             r == requests[t.key]
  <2>1. t.key \in Keys /\ r \in Request /\ t.target \in States
        /\ t.target \in TRANSITIONS[r.state]
    BY <1>3, OpenAtCommit
  <2>2. k = t.key
    BY <1>3, <2>1 DEF CommitTransition, BookInv, SafetyInv, TypeOK
  <2>3. requests'[k] = [r EXCEPT !.state = t.target]
    BY <1>3, <2>1, <2>2 DEF CommitTransition, BookInv, SafetyInv, TypeOK
  <2>4. requests'[k] \in Request /\ requests'[k].state = t.target
    BY <2>1, <2>3 DEF Request
  <2> QED
    BY <2>1, <2>2, <2>4
<1> QED
  BY <1>1, <1>2, <1>3, TablesChange DEF vars, tables, CommitBreaker

\* When no one uses the cancel route, a committed request only moves along
\* TRANSITIONS; its final states are final.
THEOREM LegalTransitions ==
  ASSUME CancelActors = {}
  PROVE  Spec => TransitionsAreLegal
BY InitBook, BookStep, LegalStep, PTL DEF Spec, TransitionsAreLegal

-----------------------------------------------------------------------------
(* What is reserved *)

\* The keys with a committed request: finitely many, whatever Keys is.
Kept == {k \in Keys : requests[k] # NoRequest}
\* The inductive invariant of the reservations.
ReservedInv == BookInv /\ IsFiniteSet(Kept) /\ ReservedMatchesOpenRequests

\* The sums are of integers, over finite sets.
LEMMA AskedIsInt ==
  ASSUME TypeOK, IsFiniteSet(Kept), NEW u \in Users
  PROVE  /\ IsFiniteSet(OpenOf(u))
         /\ \A k \in OpenOf(u) : Asked[k] \in Int
<1>1. OpenOf(u) \subseteq Kept
  BY DEF OpenOf, Kept, Open
<1>2. IsFiniteSet(OpenOf(u))
  BY <1>1, FS_Subset
<1>3. ASSUME NEW k \in OpenOf(u) PROVE Asked[k] \in Int
  <2>1. k \in Keys /\ requests[k] \in Request
    BY <1>3 DEF OpenOf, Open, TypeOK
  <2> QED
    BY <2>1, RequestFields DEF Asked
<1> QED
  BY <1>2, <1>3

\* Nothing is requested and nothing reserved at first.
LEMMA InitReserved == Init => ReservedInv
<1> SUFFICES ASSUME Init PROVE ReservedInv
  OBVIOUS
<1>1. Kept = {} /\ \A u \in Users : OpenOf(u) = {} /\ reserved[u] = 0
  BY DEF Init, Kept, OpenOf, Open
<1> QED
  BY <1>1, InitBook, SumOfNone, FS_EmptySet DEF ReservedInv, ReservedMatchesOpenRequests

\* The reservations of one user after a step that leaves the user's requests alone.
LEMMA SameReserved ==
  ASSUME ReservedInv, NEW u \in Users, OpenOf(u)' = OpenOf(u), reserved'[u] = reserved[u],
         \A k \in OpenOf(u) : Asked'[k] = Asked[k]
  PROVE  reserved'[u] = SumFunctionOnSet(Asked, OpenOf(u))'
<1>1. IsFiniteSet(OpenOf(u))
  BY AskedIsInt DEF ReservedInv, BookInv, SafetyInv
<1> DEFINE f == Asked
           g == Asked'
           S == OpenOf(u)
<1>2. \A k \in S : f[k] = g[k]
  OBVIOUS
<1>3. reserved[u] = SumFunctionOnSet(f, S)
  BY DEF ReservedInv, ReservedMatchesOpenRequests
<1>4. SumFunctionOnSet(g, S) = SumFunctionOnSet(f, S)
  <2> HIDE DEF f, g, S
  <2> QED
    BY <1>1, <1>2, SumOfSame DEF S
<1> QED
  BY <1>3, <1>4

\* A create adds its amount to what is reserved and its request to what is open.
LEMMA ReservedAtCreate ==
  ASSUME ReservedInv, NEW p \in Handlers, CommitCreate(p)
  PROVE  IsFiniteSet(Kept)' /\ ReservedMatchesOpenRequests'
<1>1. PICK t \in CreateTxn : t = txn[p] /\ t.step = "commitCreate"
  BY TxnKind DEF ReservedInv, BookInv, SafetyInv, TypeOK, CommitCreate, CreateSteps
<1> DEFINE r == [user |-> t.user, amount |-> t.amount, state |-> "under_review"]
<1>2. t.key \in Keys /\ t.user \in Users /\ t.amount \in Int /\ requests[t.key] = NoRequest
  <2>1. t.key \in Keys /\ t.user \in Users /\ t.amount \in Amounts
    BY <1>1 DEF CreateTxn
  <2>2. requests[t.key] = NoRequest
    BY <1>1 DEF ReservedInv, BookInv, SafetyInv, ChecksStillHold, CreateChecked
  <2>3. t.amount \in Int
    <3>1. \A a \in Amounts : a \in Int
      BY ConstantsAssumption
    <3> QED
      BY <2>1, <3>1
  <2> QED
    BY <2>1, <2>2, <2>3
<1>3. r \in Request /\ r # NoRequest
  BY <1>1, ConstantsAssumption DEF CreateTxn, Request, States
<1>4. /\ requests' = [requests EXCEPT ![t.key] = r]
      /\ reserved' = [reserved EXCEPT ![t.user] = @ + t.amount]
  BY <1>1 DEF CommitCreate
<1>5. requests'[t.key] = r /\ \A k \in Keys \ {t.key} : requests'[k] = requests[k]
  BY <1>2, <1>4 DEF ReservedInv, BookInv, SafetyInv, TypeOK
<1> HIDE DEF r
<1>6. r.user = t.user /\ r.amount = t.amount /\ r.state \notin Releasing
  BY DEF r, Releasing
<1>7. Kept' = Kept \cup {t.key}
  BY <1>2, <1>3, <1>5 DEF Kept
<1>8. OpenOf(t.user)' = OpenOf(t.user) \cup {t.key} /\ t.key \notin OpenOf(t.user)
  BY <1>2, <1>3, <1>5, <1>6 DEF OpenOf, Open
<1>9. ASSUME NEW u \in Users PROVE reserved'[u] = SumFunctionOnSet(Asked, OpenOf(u))'
  <2>1. CASE u # t.user
    <3>1. OpenOf(u)' = OpenOf(u)
      BY <2>1, <1>2, <1>5, <1>6 DEF OpenOf, Open
    <3>2. reserved'[u] = reserved[u]
      BY <2>1, <1>4 DEF ReservedInv, BookInv, SafetyInv, TypeOK
    <3>3. \A k \in OpenOf(u) : Asked'[k] = Asked[k]
      BY <1>2, <1>5 DEF OpenOf, Open, Asked
    <3> QED
      BY <3>1, <3>2, <3>3, SameReserved
  <2>2. CASE u = t.user
    <3> DEFINE f == Asked
               g == Asked'
               S == OpenOf(u)
               T == OpenOf(u)'
    <3>1. /\ IsFiniteSet(S) /\ IsFiniteSet(T)
          /\ T = S \cup {t.key} /\ t.key \notin S
      BY <1>8, <2>2, AskedIsInt, FS_AddElement DEF ReservedInv, BookInv, SafetyInv
    <3>2. \A k \in S : g[k] = f[k] /\ f[k] \in Int
      BY <1>2, <1>5, <2>2, AskedIsInt DEF OpenOf, Open, Asked, ReservedInv, BookInv, SafetyInv
    <3>3. g[t.key] = t.amount
      BY <1>2, <1>5, <1>6 DEF Asked
    <3>4. reserved[u] = SumFunctionOnSet(f, S)
      BY DEF ReservedInv, ReservedMatchesOpenRequests
    <3>5. reserved'[u] = reserved[u] + t.amount
      BY <1>2, <1>4, <2>2 DEF ReservedInv, BookInv, SafetyInv, TypeOK
    <3> HIDE DEF f, g, S, T
    <3>6. SumFunctionOnSet(g, T) = g[t.key] + SumFunctionOnSet(g, S)
      <4>1. \A k \in T : g[k] \in Int
        BY <3>1, <3>2, <3>3, <1>2
      <4>2. T \ {t.key} = S /\ t.key \in T
        BY <3>1
      <4>3. SumFunctionOnSet(g, T) = g[t.key] + SumFunctionOnSet(g, T \ {t.key})
        BY <3>1, <4>1, <4>2, SumSplit
      <4> QED
        BY <4>2, <4>3
    <3>7. SumFunctionOnSet(g, S) = SumFunctionOnSet(f, S)
      BY <3>1, <3>2, SumOfSame
    <3>8. SumFunctionOnSet(f, S) \in Int
      BY <3>1, <3>2, SumType
    <3>9. reserved'[u] = SumFunctionOnSet(g, T)
      BY <3>3, <3>4, <3>5, <3>6, <3>7, <3>8, <1>2
    <3> QED
      BY <3>9 DEF g, T
  <2> QED
    BY <2>1, <2>2
<1>10. IsFiniteSet(Kept')
  BY <1>7, FS_AddElement DEF ReservedInv
<1> QED
  BY <1>9, <1>10 DEF ReservedMatchesOpenRequests

\* A transition that releases takes its amount off what is reserved and its request
\* out of what is open; another one changes neither.
LEMMA ReservedAtTransition ==
  ASSUME ReservedInv, NEW p \in Handlers, CommitTransition(p)
  PROVE  IsFiniteSet(Kept)' /\ ReservedMatchesOpenRequests'
<1>1. PICK t \in TransitionTxn : t = txn[p]
  BY OpenAtCommit DEF ReservedInv
<1>2. PICK r \in Request : r = requests[t.key]
  BY <1>1, OpenAtCommit DEF ReservedInv
<1>3. /\ t.key \in Keys /\ t.target \in States /\ r # NoRequest
      /\ r.state \notin Releasing /\ Posted(t.key, t.target) = {}
  BY <1>1, <1>2, OpenAtCommit DEF ReservedInv
<1>4. r.user \in Users /\ r.amount \in Int
  BY RequestFields
<1> DEFINE moved == IF t.target \in Releasing THEN r.amount ELSE 0
           now == [r EXCEPT !.state = t.target]
<1>5. /\ requests' = [requests EXCEPT ![t.key] = now]
      /\ reserved' = [reserved EXCEPT ![r.user] = @ - moved]
  BY <1>1, <1>2, <1>3 DEF CommitTransition
<1>6. now \in Request /\ now.user = r.user /\ now.amount = r.amount /\ now.state = t.target
  BY <1>3 DEF Request
<1>7. now # NoRequest
  BY <1>6, ConstantsAssumption
<1> HIDE DEF now
<1>8. requests'[t.key] = now /\ \A k \in Keys \ {t.key} : requests'[k] = requests[k]
  BY <1>3, <1>5 DEF ReservedInv, BookInv, SafetyInv, TypeOK
<1>9. Kept' = Kept
  BY <1>2, <1>3, <1>7, <1>8 DEF Kept
<1>10. \A k \in Kept : Asked'[k] = Asked[k]
  BY <1>2, <1>6, <1>8 DEF Kept, Asked
<1>11. \A u \in Users : OpenOf(u) \subseteq Kept
  BY DEF OpenOf, Open, Kept
<1>12. ASSUME NEW u \in Users PROVE reserved'[u] = SumFunctionOnSet(Asked, OpenOf(u))'
  <2>1. CASE u # r.user \/ t.target \notin Releasing
    <3>1. OpenOf(u)' = OpenOf(u)
      BY <2>1, <1>2, <1>3, <1>6, <1>7, <1>8 DEF OpenOf, Open
    <3>2. reserved'[u] = reserved[u]
      <4>1. reserved[u] \in Int
        BY DEF ReservedInv, BookInv, SafetyInv, TypeOK
      <4>2. reserved'[u] = IF u = r.user THEN reserved[u] - moved ELSE reserved[u]
        BY <1>5 DEF ReservedInv, BookInv, SafetyInv, TypeOK
      <4> QED
        BY <2>1, <4>1, <4>2
    <3> QED
      BY <1>10, <1>11, <3>1, <3>2, SameReserved
  <2>2. CASE u = r.user /\ t.target \in Releasing
    <3> DEFINE f == Asked
               g == Asked'
               S == OpenOf(u)
               T == OpenOf(u)'
    <3>1. T = S \ {t.key} /\ t.key \in S
      BY <2>2, <1>2, <1>3, <1>6, <1>7, <1>8 DEF OpenOf, Open
    <3>2. IsFiniteSet(S) /\ IsFiniteSet(T) /\ \A k \in S : f[k] \in Int
      BY <3>1, AskedIsInt, FS_RemoveElement DEF ReservedInv, BookInv, SafetyInv
    <3>3. \A k \in T : g[k] = f[k]
      BY <1>10, <1>11, <3>1
    <3>4. f[t.key] = r.amount
      BY <1>2, <1>3 DEF Asked
    <3>5. reserved[u] = SumFunctionOnSet(f, S)
      BY DEF ReservedInv, ReservedMatchesOpenRequests
    <3>6. reserved'[u] = reserved[u] - r.amount
      BY <1>5, <2>2 DEF ReservedInv, BookInv, SafetyInv, TypeOK
    <3> HIDE DEF f, g, S, T
    <3>7. SumFunctionOnSet(f, S) = f[t.key] + SumFunctionOnSet(f, T)
      BY <3>1, <3>2, SumSplit
    <3>8. SumFunctionOnSet(g, T) = SumFunctionOnSet(f, T)
      BY <3>2, <3>3, SumOfSame
    <3>9. SumFunctionOnSet(f, T) \in Int
      <4>1. \A k \in T : f[k] \in Int
        BY <3>1, <3>2
      <4> QED
        BY <3>2, <4>1, SumType
    <3>10. reserved'[u] = SumFunctionOnSet(g, T)
      BY <3>4, <3>5, <3>6, <3>7, <3>8, <3>9, <1>4
    <3> QED
      BY <3>10 DEF g, T
  <2> QED
    BY <2>1, <2>2
<1> QED
  BY <1>9, <1>12 DEF ReservedMatchesOpenRequests, ReservedInv

\* ReservedInv is inductive when no one uses the cancel route.
LEMMA ReservedStep ==
  ASSUME CancelActors = {}
  PROVE  ReservedInv /\ [Next]_vars => ReservedInv'
<1> SUFFICES ASSUME ReservedInv, [Next]_vars PROVE ReservedInv'
  OBVIOUS
<1>1. BookInv'
  BY BookStep DEF ReservedInv
<1>2. IsFiniteSet(Kept)' /\ ReservedMatchesOpenRequests'
  <2>1. CASE UNCHANGED <<requests, reserved>>
    <3>1. Kept' = Kept /\ Asked' = Asked /\ \A u \in Users : OpenOf(u)' = OpenOf(u)
      BY <2>1 DEF Kept, Asked, OpenOf, Open
    <3> QED
      BY <2>1, <3>1 DEF ReservedInv, ReservedMatchesOpenRequests
  <2>2. ASSUME NEW p \in Handlers, CommitCreate(p)
        PROVE  IsFiniteSet(Kept)' /\ ReservedMatchesOpenRequests'
    BY <2>2, ReservedAtCreate
  <2>3. ASSUME NEW p \in Handlers, CommitTransition(p)
        PROVE  IsFiniteSet(Kept)' /\ ReservedMatchesOpenRequests'
    BY <2>3, ReservedAtTransition
  <2> QED
    BY <2>1, <2>2, <2>3, TablesChange DEF vars, tables, CommitBreaker
<1> QED
  BY <1>1, <1>2 DEF ReservedInv

\* When no one uses the cancel route, what is reserved for a customer is at all times
\* the sum of the amounts of the customer's open requests, for any interleaving of any
\* number of handlers: a row is never reserved or released twice (create, transition).
THEOREM ReservedIsWhatIsOpen ==
  ASSUME CancelActors = {}
  PROVE  Spec => []ReservedMatchesOpenRequests
<1>1. ReservedInv => ReservedMatchesOpenRequests
  BY DEF ReservedInv
<1> QED
  BY <1>1, InitReserved, ReservedStep, PTL DEF Spec
=============================================================================

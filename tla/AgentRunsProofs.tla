-------------------------- MODULE AgentRunsProofs --------------------------
(***************************************************************************)
(* Theorems about AgentRuns, for any runs, approvals, executions and       *)
(* attempts.                                                               *)
(***************************************************************************)
EXTENDS AgentRuns, TLAPS

USE AgentRunsAssumption

-----------------------------------------------------------------------------
(* Type correctness: an attempt that has begun has a run.                  *)

TypeInv == TypeOK /\ \A t \in Attempts : pc[t] # "idle" => target[t] \in Runs

LEMMA TypeInit == Init => TypeInv
BY DEF Init, Unloaded, TypeInv, TypeOK, RunStatus, ExecutionStatus, ApprovalStatus, Stage

LEMMA TypeStep == TypeInv /\ [Next]_vars => TypeInv'
<1> SUFFICES ASSUME TypeInv, [Next]_vars PROVE TypeInv'
  OBVIOUS
<1> USE DEF TypeInv, TypeOK, RunStatus, ExecutionStatus, ApprovalStatus, Stage,
           rows, session, history, Goto
<1>1. ASSUME NEW r \in Runs, CreateRun(r)
      PROVE  TypeInv'
  BY <1>1 DEF CreateRun
<1>2. ASSUME NEW r \in Runs, NEW s \in RunStatus, NEW m \in messages \cup {None, output[r]},
             PatchRun(r, s, m)
      PROVE  TypeInv'
  BY <1>2 DEF PatchRun
<1>3. ASSUME NEW a \in Approvals, NEW r \in Runs, NEW e \in Executions \cup {None}, NEW x \in {"never", "later"},
             PostApproval(a, r, e, x)
      PROVE  TypeInv'
  BY <1>3 DEF PostApproval
<1>4. ASSUME NEW a \in Approvals, Lapse(a)
      PROVE  TypeInv'
  BY <1>4 DEF Lapse
<1>5. ASSUME NEW a \in Approvals, NEW s \in {"approved", "rejected", "cancelled"},
             Decide(a, s)
      PROVE  TypeInv'
  BY <1>5 DEF Decide
<1>6. ASSUME NEW a \in Approvals, Expire(a)
      PROVE  TypeInv'
  BY <1>6 DEF Expire
<1>7. ASSUME NEW t \in Attempts, NEW r \in Runs, BeginExecute(t, r)
      PROVE  TypeInv'
  BY <1>7 DEF BeginExecute, Load
<1>8. ASSUME NEW t \in Attempts, NEW r \in Runs, BeginResume(t, r)
      PROVE  TypeInv'
  BY <1>8 DEF BeginResume, Load
<1>9. ASSUME NEW t \in Attempts, NEW r \in Runs, BeginCancel(t, r)
      PROVE  TypeInv'
  BY <1>9 DEF BeginCancel, Load
<1>10. ASSUME NEW t \in Attempts, NEW r \in Runs, BeginWorkflow(t, r)
      PROVE  TypeInv'
  BY <1>10 DEF BeginWorkflow
<1>11. ASSUME NEW t \in Attempts, Start(t)
      PROVE  TypeInv'
  BY <1>11 DEF Start, Transition, Hold
<1>12. ASSUME NEW t \in Attempts, Resume(t)
      PROVE  TypeInv'
  BY <1>12 DEF Resume, Transition, Hold
<1>13. ASSUME NEW t \in Attempts, SelectProvider(t)
      PROVE  TypeInv'
  BY <1>13 DEF SelectProvider, Hold, Rebuilt
<1>14. ASSUME NEW t \in Attempts, ProviderUnavailable(t)
      PROVE  TypeInv'
  BY <1>14 DEF ProviderUnavailable, End, Unloaded, Rebuilt
<1>15. ASSUME NEW t \in Attempts, NEW e \in Executions, NEW s \in {"succeeded", "failed"},
             CallTool(t, e, s)
      PROVE  TypeInv'
  BY <1>15 DEF CallTool, Matches, Reads, Usable
<1>16. ASSUME NEW t \in Attempts, NEW e \in Executions, NEW a \in Approvals,
             RequestApproval(t, e, a)
      PROVE  TypeInv'
  BY <1>16 DEF RequestApproval, Usable
<1>17. ASSUME NEW t \in Attempts, NEW e \in Executions, NEW a \in Approvals,
             AwaitApproval(t, e, a)
      PROVE  TypeInv'
  BY <1>17 DEF AwaitApproval, Matches, Reads, IfRunning, Transition, End, Unloaded
<1>18. ASSUME NEW t \in Attempts, NEW e \in Executions, NEW a \in Approvals,
             ApprovalRefused(t, e, a)
      PROVE  TypeInv'
  <2>1. pc[t] = "tools" /\ UNCHANGED <<rows, history>>
    BY <1>18 DEF ApprovalRefused
  <2>2. CASE view[t] \in TERMINAL_RUN_STATUSES /\ End(t, "done")
    BY <2>1, <2>2 DEF End, Unloaded
  <2>3. CASE view[t] \notin TERMINAL_RUN_STATUSES /\ Goto(t, "listing") /\ UNCHANGED session
    BY <2>1, <2>3
  <2> QED
    BY <1>18, <2>2, <2>3 DEF ApprovalRefused
<1>19. ASSUME NEW t \in Attempts, NEW e \in Executions, ToolRejected(t, e)
      PROVE  TypeInv'
  BY <1>19 DEF ToolRejected, IfRunning, Transition, End, Unloaded
<1>20. ASSUME NEW t \in Attempts, Answer(t)
      PROVE  TypeInv'
  BY <1>20 DEF Answer
<1>21. ASSUME NEW t \in Attempts, Complete(t)
      PROVE  TypeInv'
  BY <1>21 DEF Complete, IfRunning, Transition, End, Unloaded
<1>22. ASSUME NEW t \in Attempts, Fail(t)
      PROVE  TypeInv'
  BY <1>22 DEF Fail, IfRunning, Transition, End, Unloaded
<1>23. ASSUME NEW t \in Attempts, Wait(t)
      PROVE  TypeInv'
  BY <1>23 DEF Wait, IfRunning, Transition, End, Unloaded
<1>24. ASSUME NEW t \in Attempts, ListApprovals(t)
      PROVE  TypeInv'
  BY <1>24 DEF ListApprovals
<1>25. ASSUME NEW t \in Attempts, NEW a \in Approvals, CancelApproval(t, a)
      PROVE  TypeInv'
  BY <1>25 DEF CancelApproval
<1>26. ASSUME NEW t \in Attempts, ListExecutions(t)
      PROVE  TypeInv'
  BY <1>26 DEF ListExecutions
<1>27. ASSUME NEW t \in Attempts, NEW e \in Executions,
             CancelExecution(t, e)
      PROVE  TypeInv'
  BY <1>27 DEF CancelExecution
<1>28. ASSUME NEW t \in Attempts, CancelRefused(t)
      PROVE  TypeInv'
  BY <1>28 DEF CancelRefused, End, Unloaded
<1>29. ASSUME NEW t \in Attempts, CancelRun(t)
      PROVE  TypeInv'
  BY <1>29 DEF CancelRun, Transition, End, Unloaded
<1>30. ASSUME NEW t \in Attempts, Crash(t)
      PROVE  TypeInv'
  BY <1>30 DEF Crash, End, Unloaded, InFlight
<1>31. CASE UNCHANGED vars
  BY <1>31 DEF vars
<1> HIDE DEF TypeInv, TypeOK, RunStatus, ExecutionStatus, ApprovalStatus, Stage,
            rows, session, history, Goto
<1> QED
  BY <1>1, <1>2, <1>3, <1>4, <1>5, <1>6, <1>7, <1>8, <1>9, <1>10, <1>11,
     <1>12, <1>13, <1>14, <1>15, <1>16, <1>17, <1>18, <1>19, <1>20, <1>21,
     <1>22, <1>23, <1>24, <1>25, <1>26, <1>27, <1>28, <1>29, <1>30, <1>31
     DEF Next, ClientRequest, Drive, Cancel

LEMMA TypeHolds == Spec => []TypeInv
BY TypeInit, TypeStep, PTL DEF Spec

(* The types of the rows and of the objects sessions hold (TypeOK).        *)
THEOREM RunsTypeCorrect == Spec => []TypeOK
BY TypeHolds, PTL DEF TypeInv

-----------------------------------------------------------------------------
(* The approval gate.  What a session reads as approved was granted,       *)
(* however old the object; a granted approval exists, so its run and       *)
(* execution no longer change; and so with the execution a tool was called *)
(* for.                                                                    *)

GateInv ==
    /\ \A a \in Approvals : approval[a] = "approved" => a \in granted
    /\ \A t \in Attempts, a \in Approvals : seen[t][a] = "approved" => a \in granted
    /\ \A a \in granted : approval[a] # "absent"
    /\ \A e \in called : execution[e] # "absent"
    /\ ToolsWaitForApproval

LEMMA GateInit == Init => GateInv
BY DEF Init, Unloaded, GateInv, ToolsWaitForApproval

LEMMA GateStep == TypeInv /\ GateInv /\ [Next]_vars => GateInv'
<1> SUFFICES ASSUME TypeInv, GateInv, [Next]_vars PROVE GateInv'
  OBVIOUS
<1> USE DEF TypeInv, TypeOK, GateInv, ToolsWaitForApproval,
           rows, session, history, Goto
<1>1. ASSUME NEW r \in Runs, CreateRun(r)
      PROVE  GateInv'
  BY <1>1 DEF CreateRun
<1>2. ASSUME NEW r \in Runs, NEW s \in RunStatus, NEW m \in messages \cup {None, output[r]},
             PatchRun(r, s, m)
      PROVE  GateInv'
  BY <1>2 DEF PatchRun
<1>3. ASSUME NEW a \in Approvals, NEW r \in Runs, NEW e \in Executions \cup {None}, NEW x \in {"never", "later"},
             PostApproval(a, r, e, x)
      PROVE  GateInv'
  BY <1>3 DEF PostApproval
<1>4. ASSUME NEW a \in Approvals, Lapse(a)
      PROVE  GateInv'
  BY <1>4 DEF Lapse
<1>5. ASSUME NEW a \in Approvals, NEW s \in {"approved", "rejected", "cancelled"},
             Decide(a, s)
      PROVE  GateInv'
  BY <1>5 DEF Decide
<1>6. ASSUME NEW a \in Approvals, Expire(a)
      PROVE  GateInv'
  BY <1>6 DEF Expire
<1>7. ASSUME NEW t \in Attempts, NEW r \in Runs, BeginExecute(t, r)
      PROVE  GateInv'
  BY <1>7 DEF BeginExecute, Load
<1>8. ASSUME NEW t \in Attempts, NEW r \in Runs, BeginResume(t, r)
      PROVE  GateInv'
  BY <1>8 DEF BeginResume, Load
<1>9. ASSUME NEW t \in Attempts, NEW r \in Runs, BeginCancel(t, r)
      PROVE  GateInv'
  BY <1>9 DEF BeginCancel, Load
<1>10. ASSUME NEW t \in Attempts, NEW r \in Runs, BeginWorkflow(t, r)
      PROVE  GateInv'
  BY <1>10 DEF BeginWorkflow
<1>11. ASSUME NEW t \in Attempts, Start(t)
      PROVE  GateInv'
  BY <1>11 DEF Start, Transition, Hold
<1>12. ASSUME NEW t \in Attempts, Resume(t)
      PROVE  GateInv'
  BY <1>12 DEF Resume, Transition, Hold
<1>13. ASSUME NEW t \in Attempts, SelectProvider(t)
      PROVE  GateInv'
  BY <1>13 DEF SelectProvider, Hold, Rebuilt
<1>14. ASSUME NEW t \in Attempts, ProviderUnavailable(t)
      PROVE  GateInv'
  BY <1>14 DEF ProviderUnavailable, End, Unloaded, Rebuilt
<1>15. ASSUME NEW t \in Attempts, NEW e \in Executions, NEW s \in {"succeeded", "failed"},
             CallTool(t, e, s)
      PROVE  GateInv'
  BY <1>15 DEF CallTool, Matches, Reads, Usable
<1>16. ASSUME NEW t \in Attempts, NEW e \in Executions, NEW a \in Approvals,
             RequestApproval(t, e, a)
      PROVE  GateInv'
  BY <1>16 DEF RequestApproval, Usable
<1>17. ASSUME NEW t \in Attempts, NEW e \in Executions, NEW a \in Approvals,
             AwaitApproval(t, e, a)
      PROVE  GateInv'
  BY <1>17 DEF AwaitApproval, Matches, Reads, IfRunning, Transition, End, Unloaded
<1>18. ASSUME NEW t \in Attempts, NEW e \in Executions, NEW a \in Approvals,
             ApprovalRefused(t, e, a)
      PROVE  GateInv'
  <2>1. pc[t] = "tools" /\ UNCHANGED <<rows, history>>
    BY <1>18 DEF ApprovalRefused
  <2>2. CASE view[t] \in TERMINAL_RUN_STATUSES /\ End(t, "done")
    BY <2>1, <2>2 DEF End, Unloaded
  <2>3. CASE view[t] \notin TERMINAL_RUN_STATUSES /\ Goto(t, "listing") /\ UNCHANGED session
    BY <2>1, <2>3
  <2> QED
    BY <1>18, <2>2, <2>3 DEF ApprovalRefused
<1>19. ASSUME NEW t \in Attempts, NEW e \in Executions, ToolRejected(t, e)
      PROVE  GateInv'
  <2>1. seen' = [seen EXCEPT ![t] = Unloaded]
    BY <1>19 DEF ToolRejected, End
  <2>2. UNCHANGED <<approval, covers, granted, called>>
    BY <1>19 DEF ToolRejected
  <2>3. execution[e] = "absent"
    BY <1>19 DEF ToolRejected
  <2>4. CASE view[t] = "running"
    <3>1. /\ execution' = [execution EXCEPT ![e] = "pending"]
          /\ owner' = [owner EXCEPT ![e] = target[t]]
      BY <1>19, <2>4 DEF ToolRejected
    <3> QED
      BY <2>1, <2>2, <2>3, <3>1 DEF Unloaded
  <2>5. CASE view[t] # "running"
    <3>1. UNCHANGED <<execution, owner>>
      BY <1>19, <2>5 DEF ToolRejected
    <3> QED
      BY <2>1, <2>2, <3>1 DEF Unloaded
  <2> QED
    BY <2>4, <2>5
<1>20. ASSUME NEW t \in Attempts, Answer(t)
      PROVE  GateInv'
  BY <1>20 DEF Answer
<1>21. ASSUME NEW t \in Attempts, Complete(t)
      PROVE  GateInv'
  BY <1>21 DEF Complete, IfRunning, Transition, End, Unloaded
<1>22. ASSUME NEW t \in Attempts, Fail(t)
      PROVE  GateInv'
  BY <1>22 DEF Fail, IfRunning, Transition, End, Unloaded
<1>23. ASSUME NEW t \in Attempts, Wait(t)
      PROVE  GateInv'
  BY <1>23 DEF Wait, IfRunning, Transition, End, Unloaded
<1>24. ASSUME NEW t \in Attempts, ListApprovals(t)
      PROVE  GateInv'
  BY <1>24 DEF ListApprovals
<1>25. ASSUME NEW t \in Attempts, NEW a \in Approvals, CancelApproval(t, a)
      PROVE  GateInv'
  BY <1>25 DEF CancelApproval
<1>26. ASSUME NEW t \in Attempts, ListExecutions(t)
      PROVE  GateInv'
  BY <1>26 DEF ListExecutions
<1>27. ASSUME NEW t \in Attempts, NEW e \in Executions,
             CancelExecution(t, e)
      PROVE  GateInv'
  BY <1>27 DEF CancelExecution
<1>28. ASSUME NEW t \in Attempts, CancelRefused(t)
      PROVE  GateInv'
  BY <1>28 DEF CancelRefused, End, Unloaded
<1>29. ASSUME NEW t \in Attempts, CancelRun(t)
      PROVE  GateInv'
  BY <1>29 DEF CancelRun, Transition, End, Unloaded
<1>30. ASSUME NEW t \in Attempts, Crash(t)
      PROVE  GateInv'
  BY <1>30 DEF Crash, End, Unloaded, InFlight
<1>31. CASE UNCHANGED vars
  BY <1>31 DEF vars
<1> HIDE DEF TypeInv, TypeOK, GateInv, ToolsWaitForApproval,
            rows, session, history, Goto
<1> QED
  BY <1>1, <1>2, <1>3, <1>4, <1>5, <1>6, <1>7, <1>8, <1>9, <1>10, <1>11,
     <1>12, <1>13, <1>14, <1>15, <1>16, <1>17, <1>18, <1>19, <1>20, <1>21,
     <1>22, <1>23, <1>24, <1>25, <1>26, <1>27, <1>28, <1>29, <1>30, <1>31
     DEF Next, ClientRequest, Drive, Cancel

(* ToolsWaitForApproval holds in every reachable state.                    *)
THEOREM GateHolds == Spec => []ToolsWaitForApproval
<1>1. Spec => []GateInv
  BY GateInit, GateStep, TypeHolds, PTL DEF Spec
<1> QED
  BY <1>1, PTL DEF GateInv

-----------------------------------------------------------------------------
(* Refusals: only Decide grants, and it asks for a pending row.            *)

LEMMA RefusalStep ==
  TypeInv /\ [Next]_vars =>
    \A a \in Approvals : approval[a] \in Refused => approval'[a] # "approved"
<1> SUFFICES ASSUME TypeInv, [Next]_vars, NEW b \in Approvals, approval[b] \in Refused
             PROVE  approval'[b] # "approved"
  OBVIOUS
<1> USE DEF TypeInv, TypeOK, Refused,
           rows, session, history, Goto
<1>1. ASSUME NEW r \in Runs, CreateRun(r)
      PROVE  approval'[b] # "approved"
  BY <1>1 DEF CreateRun
<1>2. ASSUME NEW r \in Runs, NEW s \in RunStatus, NEW m \in messages \cup {None, output[r]},
             PatchRun(r, s, m)
      PROVE  approval'[b] # "approved"
  BY <1>2 DEF PatchRun
<1>3. ASSUME NEW a \in Approvals, NEW r \in Runs, NEW e \in Executions \cup {None}, NEW x \in {"never", "later"},
             PostApproval(a, r, e, x)
      PROVE  approval'[b] # "approved"
  BY <1>3 DEF PostApproval
<1>4. ASSUME NEW a \in Approvals, Lapse(a)
      PROVE  approval'[b] # "approved"
  BY <1>4 DEF Lapse
<1>5. ASSUME NEW a \in Approvals, NEW s \in {"approved", "rejected", "cancelled"},
             Decide(a, s)
      PROVE  approval'[b] # "approved"
  BY <1>5 DEF Decide
<1>6. ASSUME NEW a \in Approvals, Expire(a)
      PROVE  approval'[b] # "approved"
  BY <1>6 DEF Expire
<1>7. ASSUME NEW t \in Attempts, NEW r \in Runs, BeginExecute(t, r)
      PROVE  approval'[b] # "approved"
  BY <1>7 DEF BeginExecute, Load
<1>8. ASSUME NEW t \in Attempts, NEW r \in Runs, BeginResume(t, r)
      PROVE  approval'[b] # "approved"
  BY <1>8 DEF BeginResume, Load
<1>9. ASSUME NEW t \in Attempts, NEW r \in Runs, BeginCancel(t, r)
      PROVE  approval'[b] # "approved"
  BY <1>9 DEF BeginCancel, Load
<1>10. ASSUME NEW t \in Attempts, NEW r \in Runs, BeginWorkflow(t, r)
      PROVE  approval'[b] # "approved"
  BY <1>10 DEF BeginWorkflow
<1>11. ASSUME NEW t \in Attempts, Start(t)
      PROVE  approval'[b] # "approved"
  BY <1>11 DEF Start, Transition, Hold
<1>12. ASSUME NEW t \in Attempts, Resume(t)
      PROVE  approval'[b] # "approved"
  BY <1>12 DEF Resume, Transition, Hold
<1>13. ASSUME NEW t \in Attempts, SelectProvider(t)
      PROVE  approval'[b] # "approved"
  BY <1>13 DEF SelectProvider, Hold, Rebuilt
<1>14. ASSUME NEW t \in Attempts, ProviderUnavailable(t)
      PROVE  approval'[b] # "approved"
  BY <1>14 DEF ProviderUnavailable, End, Unloaded, Rebuilt
<1>15. ASSUME NEW t \in Attempts, NEW e \in Executions, NEW s \in {"succeeded", "failed"},
             CallTool(t, e, s)
      PROVE  approval'[b] # "approved"
  BY <1>15 DEF CallTool, Matches, Reads, Usable
<1>16. ASSUME NEW t \in Attempts, NEW e \in Executions, NEW a \in Approvals,
             RequestApproval(t, e, a)
      PROVE  approval'[b] # "approved"
  BY <1>16 DEF RequestApproval, Usable
<1>17. ASSUME NEW t \in Attempts, NEW e \in Executions, NEW a \in Approvals,
             AwaitApproval(t, e, a)
      PROVE  approval'[b] # "approved"
  BY <1>17 DEF AwaitApproval, Matches, Reads, IfRunning, Transition, End, Unloaded
<1>18. ASSUME NEW t \in Attempts, NEW e \in Executions, NEW a \in Approvals,
             ApprovalRefused(t, e, a)
      PROVE  approval'[b] # "approved"
  BY <1>18 DEF ApprovalRefused
<1>19. ASSUME NEW t \in Attempts, NEW e \in Executions, ToolRejected(t, e)
      PROVE  approval'[b] # "approved"
  BY <1>19 DEF ToolRejected, IfRunning, Transition, End, Unloaded
<1>20. ASSUME NEW t \in Attempts, Answer(t)
      PROVE  approval'[b] # "approved"
  BY <1>20 DEF Answer
<1>21. ASSUME NEW t \in Attempts, Complete(t)
      PROVE  approval'[b] # "approved"
  BY <1>21 DEF Complete, IfRunning, Transition, End, Unloaded
<1>22. ASSUME NEW t \in Attempts, Fail(t)
      PROVE  approval'[b] # "approved"
  BY <1>22 DEF Fail, IfRunning, Transition, End, Unloaded
<1>23. ASSUME NEW t \in Attempts, Wait(t)
      PROVE  approval'[b] # "approved"
  BY <1>23 DEF Wait, IfRunning, Transition, End, Unloaded
<1>24. ASSUME NEW t \in Attempts, ListApprovals(t)
      PROVE  approval'[b] # "approved"
  BY <1>24 DEF ListApprovals
<1>25. ASSUME NEW t \in Attempts, NEW a \in Approvals, CancelApproval(t, a)
      PROVE  approval'[b] # "approved"
  BY <1>25 DEF CancelApproval
<1>26. ASSUME NEW t \in Attempts, ListExecutions(t)
      PROVE  approval'[b] # "approved"
  BY <1>26 DEF ListExecutions
<1>27. ASSUME NEW t \in Attempts, NEW e \in Executions,
             CancelExecution(t, e)
      PROVE  approval'[b] # "approved"
  BY <1>27 DEF CancelExecution
<1>28. ASSUME NEW t \in Attempts, CancelRefused(t)
      PROVE  approval'[b] # "approved"
  BY <1>28 DEF CancelRefused, End, Unloaded
<1>29. ASSUME NEW t \in Attempts, CancelRun(t)
      PROVE  approval'[b] # "approved"
  BY <1>29 DEF CancelRun, Transition, End, Unloaded
<1>30. ASSUME NEW t \in Attempts, Crash(t)
      PROVE  approval'[b] # "approved"
  BY <1>30 DEF Crash, End, Unloaded, InFlight
<1>31. CASE UNCHANGED vars
  BY <1>31 DEF vars
<1> HIDE DEF TypeInv, TypeOK, Refused,
            rows, session, history, Goto
<1> QED
  BY <1>1, <1>2, <1>3, <1>4, <1>5, <1>6, <1>7, <1>8, <1>9, <1>10, <1>11,
     <1>12, <1>13, <1>14, <1>15, <1>16, <1>17, <1>18, <1>19, <1>20, <1>21,
     <1>22, <1>23, <1>24, <1>25, <1>26, <1>27, <1>28, <1>29, <1>30, <1>31
     DEF Next, ClientRequest, Drive, Cancel

(* RefusalIsFinal holds of every step.                                     *)
THEOREM RefusalStays == Spec => RefusalIsFinal
<1> DEFINE Stays == \A a \in Approvals : approval[a] \in Refused => approval'[a] # "approved"
<1>1. TypeInv /\ [Next]_vars => Stays
  BY RefusalStep
<1>2. Spec => [][Stays]_vars
  <2> HIDE DEF Stays
  <2> QED
    BY <1>1, TypeHolds, PTL DEF Spec
<1> QED
  BY <1>2 DEF RefusalIsFinal

-----------------------------------------------------------------------------
(* Outputs: an attempt about to complete has committed its message.        *)

OutputInv ==
    /\ OutputWasWritten
    /\ \A t \in Attempts : pc[t] = "written" => t \in messages

LEMMA OutputInit == Init => OutputInv
BY DEF Init, OutputInv, OutputWasWritten

LEMMA OutputStep == TypeInv /\ OutputInv /\ [Next]_vars => OutputInv'
<1> SUFFICES ASSUME TypeInv, OutputInv, [Next]_vars PROVE OutputInv'
  OBVIOUS
<1> USE DEF TypeInv, TypeOK, OutputInv, OutputWasWritten,
           rows, session, history, Goto
<1>1. ASSUME NEW r \in Runs, CreateRun(r)
      PROVE  OutputInv'
  BY <1>1 DEF CreateRun
<1>2. ASSUME NEW r \in Runs, NEW s \in RunStatus, NEW m \in messages \cup {None, output[r]},
             PatchRun(r, s, m)
      PROVE  OutputInv'
  BY <1>2 DEF PatchRun
<1>3. ASSUME NEW a \in Approvals, NEW r \in Runs, NEW e \in Executions \cup {None}, NEW x \in {"never", "later"},
             PostApproval(a, r, e, x)
      PROVE  OutputInv'
  BY <1>3 DEF PostApproval
<1>4. ASSUME NEW a \in Approvals, Lapse(a)
      PROVE  OutputInv'
  BY <1>4 DEF Lapse
<1>5. ASSUME NEW a \in Approvals, NEW s \in {"approved", "rejected", "cancelled"},
             Decide(a, s)
      PROVE  OutputInv'
  BY <1>5 DEF Decide
<1>6. ASSUME NEW a \in Approvals, Expire(a)
      PROVE  OutputInv'
  BY <1>6 DEF Expire
<1>7. ASSUME NEW t \in Attempts, NEW r \in Runs, BeginExecute(t, r)
      PROVE  OutputInv'
  BY <1>7 DEF BeginExecute, Load
<1>8. ASSUME NEW t \in Attempts, NEW r \in Runs, BeginResume(t, r)
      PROVE  OutputInv'
  BY <1>8 DEF BeginResume, Load
<1>9. ASSUME NEW t \in Attempts, NEW r \in Runs, BeginCancel(t, r)
      PROVE  OutputInv'
  BY <1>9 DEF BeginCancel, Load
<1>10. ASSUME NEW t \in Attempts, NEW r \in Runs, BeginWorkflow(t, r)
      PROVE  OutputInv'
  BY <1>10 DEF BeginWorkflow
<1>11. ASSUME NEW t \in Attempts, Start(t)
      PROVE  OutputInv'
  BY <1>11 DEF Start, Transition, Hold
<1>12. ASSUME NEW t \in Attempts, Resume(t)
      PROVE  OutputInv'
  BY <1>12 DEF Resume, Transition, Hold
<1>13. ASSUME NEW t \in Attempts, SelectProvider(t)
      PROVE  OutputInv'
  BY <1>13 DEF SelectProvider, Hold, Rebuilt
<1>14. ASSUME NEW t \in Attempts, ProviderUnavailable(t)
      PROVE  OutputInv'
  BY <1>14 DEF ProviderUnavailable, End, Unloaded, Rebuilt
<1>15. ASSUME NEW t \in Attempts, NEW e \in Executions, NEW s \in {"succeeded", "failed"},
             CallTool(t, e, s)
      PROVE  OutputInv'
  BY <1>15 DEF CallTool, Matches, Reads, Usable
<1>16. ASSUME NEW t \in Attempts, NEW e \in Executions, NEW a \in Approvals,
             RequestApproval(t, e, a)
      PROVE  OutputInv'
  BY <1>16 DEF RequestApproval, Usable
<1>17. ASSUME NEW t \in Attempts, NEW e \in Executions, NEW a \in Approvals,
             AwaitApproval(t, e, a)
      PROVE  OutputInv'
  BY <1>17 DEF AwaitApproval, Matches, Reads, IfRunning, Transition, End, Unloaded
<1>18. ASSUME NEW t \in Attempts, NEW e \in Executions, NEW a \in Approvals,
             ApprovalRefused(t, e, a)
      PROVE  OutputInv'
  <2>1. pc[t] = "tools" /\ UNCHANGED <<rows, history>>
    BY <1>18 DEF ApprovalRefused
  <2>2. CASE view[t] \in TERMINAL_RUN_STATUSES /\ End(t, "done")
    BY <2>1, <2>2 DEF End, Unloaded
  <2>3. CASE view[t] \notin TERMINAL_RUN_STATUSES /\ Goto(t, "listing") /\ UNCHANGED session
    BY <2>1, <2>3
  <2> QED
    BY <1>18, <2>2, <2>3 DEF ApprovalRefused
<1>19. ASSUME NEW t \in Attempts, NEW e \in Executions, ToolRejected(t, e)
      PROVE  OutputInv'
  BY <1>19 DEF ToolRejected, IfRunning, Transition, End, Unloaded
<1>20. ASSUME NEW t \in Attempts, Answer(t)
      PROVE  OutputInv'
  BY <1>20 DEF Answer
<1>21. ASSUME NEW t \in Attempts, Complete(t)
      PROVE  OutputInv'
  BY <1>21 DEF Complete, IfRunning, Transition, End, Unloaded
<1>22. ASSUME NEW t \in Attempts, Fail(t)
      PROVE  OutputInv'
  BY <1>22 DEF Fail, IfRunning, Transition, End, Unloaded
<1>23. ASSUME NEW t \in Attempts, Wait(t)
      PROVE  OutputInv'
  BY <1>23 DEF Wait, IfRunning, Transition, End, Unloaded
<1>24. ASSUME NEW t \in Attempts, ListApprovals(t)
      PROVE  OutputInv'
  BY <1>24 DEF ListApprovals
<1>25. ASSUME NEW t \in Attempts, NEW a \in Approvals, CancelApproval(t, a)
      PROVE  OutputInv'
  BY <1>25 DEF CancelApproval
<1>26. ASSUME NEW t \in Attempts, ListExecutions(t)
      PROVE  OutputInv'
  BY <1>26 DEF ListExecutions
<1>27. ASSUME NEW t \in Attempts, NEW e \in Executions,
             CancelExecution(t, e)
      PROVE  OutputInv'
  BY <1>27 DEF CancelExecution
<1>28. ASSUME NEW t \in Attempts, CancelRefused(t)
      PROVE  OutputInv'
  BY <1>28 DEF CancelRefused, End, Unloaded
<1>29. ASSUME NEW t \in Attempts, CancelRun(t)
      PROVE  OutputInv'
  BY <1>29 DEF CancelRun, Transition, End, Unloaded
<1>30. ASSUME NEW t \in Attempts, Crash(t)
      PROVE  OutputInv'
  BY <1>30 DEF Crash, End, Unloaded, InFlight
<1>31. CASE UNCHANGED vars
  BY <1>31 DEF vars
<1> HIDE DEF TypeInv, TypeOK, OutputInv, OutputWasWritten,
            rows, session, history, Goto
<1> QED
  BY <1>1, <1>2, <1>3, <1>4, <1>5, <1>6, <1>7, <1>8, <1>9, <1>10, <1>11,
     <1>12, <1>13, <1>14, <1>15, <1>16, <1>17, <1>18, <1>19, <1>20, <1>21,
     <1>22, <1>23, <1>24, <1>25, <1>26, <1>27, <1>28, <1>29, <1>30, <1>31
     DEF Next, ClientRequest, Drive, Cancel

(* OutputWasWritten holds in every reachable state.                        *)
THEOREM OutputExists == Spec => []OutputWasWritten
<1>1. Spec => []OutputInv
  BY OutputInit, OutputStep, TypeHolds, PTL DEF Spec
<1> QED
  BY <1>1, PTL DEF OutputInv

-----------------------------------------------------------------------------
(* Abandoned runs.  The attempt that last wrote "running" over a run still *)
(* holds it as running at every stage from which it can go on; whoever     *)
(* writes another status ends the claim, whoever writes "running" takes it *)
(* over.                                                                   *)

Engaged == {"started", "tools", "working", "failing", "asking", "written",
            "listing", "cancelling", "closing"}

Claim(r) ==
    run[r] = "running" /\ runner[r] # None =>
        /\ target[runner[r]] = r
        /\ \/ pc[runner[r]] \in {"refused", "crashed"}
           \/ pc[runner[r]] \in Engaged /\ view[runner[r]] = "running"

ClaimInv == \A r \in Runs : Claim(r)

LEMMA ClaimInit == Init => ClaimInv
BY DEF Init, ClaimInv, Claim

LEMMA ClaimStep == TypeInv /\ ClaimInv /\ [Next]_vars => ClaimInv'
<1> SUFFICES ASSUME TypeInv, ClaimInv, [Next]_vars PROVE ClaimInv'
  OBVIOUS
<1> USE DEF TypeInv, TypeOK, ClaimInv, Claim, Engaged, RUN_TRANSITIONS, TERMINAL_RUN_STATUSES,
           rows, session, history, Goto
<1>1. ASSUME NEW r \in Runs, CreateRun(r)
      PROVE  ClaimInv'
  BY <1>1 DEF CreateRun
<1>2. ASSUME NEW r \in Runs, NEW s \in RunStatus, NEW m \in messages \cup {None, output[r]},
             PatchRun(r, s, m)
      PROVE  ClaimInv'
  BY <1>2 DEF PatchRun
<1>3. ASSUME NEW a \in Approvals, NEW r \in Runs, NEW e \in Executions \cup {None}, NEW x \in {"never", "later"},
             PostApproval(a, r, e, x)
      PROVE  ClaimInv'
  BY <1>3 DEF PostApproval
<1>4. ASSUME NEW a \in Approvals, Lapse(a)
      PROVE  ClaimInv'
  BY <1>4 DEF Lapse
<1>5. ASSUME NEW a \in Approvals, NEW s \in {"approved", "rejected", "cancelled"},
             Decide(a, s)
      PROVE  ClaimInv'
  BY <1>5 DEF Decide
<1>6. ASSUME NEW a \in Approvals, Expire(a)
      PROVE  ClaimInv'
  BY <1>6 DEF Expire
<1>7. ASSUME NEW t \in Attempts, NEW r \in Runs, BeginExecute(t, r)
      PROVE  ClaimInv'
  BY <1>7 DEF BeginExecute, Load
<1>8. ASSUME NEW t \in Attempts, NEW r \in Runs, BeginResume(t, r)
      PROVE  ClaimInv'
  BY <1>8 DEF BeginResume, Load
<1>9. ASSUME NEW t \in Attempts, NEW r \in Runs, BeginCancel(t, r)
      PROVE  ClaimInv'
  <2>1. /\ pc[t] = "idle" /\ pc' = [pc EXCEPT ![t] = "listing"]
        /\ target' = [target EXCEPT ![t] = r]
        /\ view' = [view EXCEPT ![t] = run[r]]
        /\ UNCHANGED <<run, runner>>
    BY <1>9 DEF BeginCancel, Load
  <2>2. ASSUME NEW q \in Runs, run[q] = "running", runner[q] # None
        PROVE  Claim(q)'
    <3>1. runner[q] \in Attempts
      BY <2>2
    <3>2. target[runner[q]] = q /\ pc[runner[q]] # "idle"
      BY <2>2
    <3>3. runner[q] # t
      BY <2>1, <3>2
    <3> QED
      BY <2>1, <2>2, <3>1, <3>3
  <2> QED
    BY <2>1, <2>2
<1>10. ASSUME NEW t \in Attempts, NEW r \in Runs, BeginWorkflow(t, r)
      PROVE  ClaimInv'
  BY <1>10 DEF BeginWorkflow
<1>11. ASSUME NEW t \in Attempts, Start(t)
      PROVE  ClaimInv'
  BY <1>11 DEF Start, Transition, Hold
<1>12. ASSUME NEW t \in Attempts, Resume(t)
      PROVE  ClaimInv'
  BY <1>12 DEF Resume, Transition, Hold
<1>13. ASSUME NEW t \in Attempts, SelectProvider(t)
      PROVE  ClaimInv'
  BY <1>13 DEF SelectProvider, Hold, Rebuilt
<1>14. ASSUME NEW t \in Attempts, ProviderUnavailable(t)
      PROVE  ClaimInv'
  BY <1>14 DEF ProviderUnavailable, End, Unloaded, Rebuilt
<1>15. ASSUME NEW t \in Attempts, NEW e \in Executions, NEW s \in {"succeeded", "failed"},
             CallTool(t, e, s)
      PROVE  ClaimInv'
  BY <1>15 DEF CallTool, Matches, Reads, Usable
<1>16. ASSUME NEW t \in Attempts, NEW e \in Executions, NEW a \in Approvals,
             RequestApproval(t, e, a)
      PROVE  ClaimInv'
  BY <1>16 DEF RequestApproval, Usable
<1>17. ASSUME NEW t \in Attempts, NEW e \in Executions, NEW a \in Approvals,
             AwaitApproval(t, e, a)
      PROVE  ClaimInv'
  BY <1>17 DEF AwaitApproval, Matches, Reads, IfRunning, Transition, End, Unloaded
<1>18. ASSUME NEW t \in Attempts, NEW e \in Executions, NEW a \in Approvals,
             ApprovalRefused(t, e, a)
      PROVE  ClaimInv'
  <2>1. pc[t] = "tools" /\ UNCHANGED <<rows, history>>
    BY <1>18 DEF ApprovalRefused
  <2>2. CASE view[t] \in TERMINAL_RUN_STATUSES /\ End(t, "done")
    BY <2>1, <2>2 DEF End, Unloaded
  <2>3. CASE view[t] \notin TERMINAL_RUN_STATUSES /\ Goto(t, "listing") /\ UNCHANGED session
    BY <2>1, <2>3
  <2> QED
    BY <1>18, <2>2, <2>3 DEF ApprovalRefused
<1>19. ASSUME NEW t \in Attempts, NEW e \in Executions, ToolRejected(t, e)
      PROVE  ClaimInv'
  BY <1>19 DEF ToolRejected, IfRunning, Transition, End, Unloaded
<1>20. ASSUME NEW t \in Attempts, Answer(t)
      PROVE  ClaimInv'
  BY <1>20 DEF Answer
<1>21. ASSUME NEW t \in Attempts, Complete(t)
      PROVE  ClaimInv'
  BY <1>21 DEF Complete, IfRunning, Transition, End, Unloaded
<1>22. ASSUME NEW t \in Attempts, Fail(t)
      PROVE  ClaimInv'
  BY <1>22 DEF Fail, IfRunning, Transition, End, Unloaded
<1>23. ASSUME NEW t \in Attempts, Wait(t)
      PROVE  ClaimInv'
  BY <1>23 DEF Wait, IfRunning, Transition, End, Unloaded
<1>24. ASSUME NEW t \in Attempts, ListApprovals(t)
      PROVE  ClaimInv'
  BY <1>24 DEF ListApprovals
<1>25. ASSUME NEW t \in Attempts, NEW a \in Approvals, CancelApproval(t, a)
      PROVE  ClaimInv'
  BY <1>25 DEF CancelApproval
<1>26. ASSUME NEW t \in Attempts, ListExecutions(t)
      PROVE  ClaimInv'
  BY <1>26 DEF ListExecutions
<1>27. ASSUME NEW t \in Attempts, NEW e \in Executions,
             CancelExecution(t, e)
      PROVE  ClaimInv'
  BY <1>27 DEF CancelExecution
<1>28. ASSUME NEW t \in Attempts, CancelRefused(t)
      PROVE  ClaimInv'
  BY <1>28 DEF CancelRefused, End, Unloaded
<1>29. ASSUME NEW t \in Attempts, CancelRun(t)
      PROVE  ClaimInv'
  BY <1>29 DEF CancelRun, Transition, End, Unloaded
<1>30. ASSUME NEW t \in Attempts, Crash(t)
      PROVE  ClaimInv'
  BY <1>30 DEF Crash, End, Unloaded, InFlight
<1>31. CASE UNCHANGED vars
  BY <1>31 DEF vars
<1> HIDE DEF TypeInv, TypeOK, ClaimInv, Claim, Engaged, RUN_TRANSITIONS, TERMINAL_RUN_STATUSES,
            rows, session, history, Goto
<1> QED
  BY <1>1, <1>2, <1>3, <1>4, <1>5, <1>6, <1>7, <1>8, <1>9, <1>10, <1>11,
     <1>12, <1>13, <1>14, <1>15, <1>16, <1>17, <1>18, <1>19, <1>20, <1>21,
     <1>22, <1>23, <1>24, <1>25, <1>26, <1>27, <1>28, <1>29, <1>30, <1>31
     DEF Next, ClientRequest, Drive, Cancel

(* NoRunIsAbandoned holds in every reachable state.                        *)
THEOREM AttemptsMoveOn == Spec => []NoRunIsAbandoned
<1>1. ClaimInv => NoRunIsAbandoned
  BY DEF ClaimInv, Claim, Engaged, NoRunIsAbandoned, InFlight, Ended
<1> QED
  BY <1>1, ClaimInit, ClaimStep, TypeHolds, PTL DEF Spec

(* RunsSafe holds in every reachable state: rows keep their types, gated   *)
(* tools wait for their approval and outputs exist (ToolExecutionEngine,   *)
(* ExecutionEngine.execute).                                               *)
THEOREM RunsAreSafe == Spec => []RunsSafe
BY RunsTypeCorrect, GateHolds, OutputExists, PTL DEF RunsSafe
=============================================================================

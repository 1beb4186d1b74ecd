---------------------------- MODULE AgentRuns ----------------------------
(***************************************************************************)
(* Agent runs, the approvals their tools wait for, and the code that       *)
(* drives them: RunService and ApprovalService (services/agent.py), the    *)
(* ExecutionEngine and its ToolExecutionEngine (execution/), and the two   *)
(* workflows that own a run from creation to its end                       *)
(* (intelligence/workflow.py and voice/orchestration.py).                  *)
(*                                                                         *)
(* An ATTEMPT is one call of execute, resume or cancel, or one workflow,   *)
(* in a database session of its own.  It commits many times, and between   *)
(* two commits other sessions move the same rows.  The session keeps the   *)
(* run it loaded: view[t] is the status it holds.  A later read of the     *)
(* same row, FOR UPDATE included, returns the object the session already   *)
(* has, unrefreshed; only AgentRepositoryBase.update refreshes it.  The    *)
(* approvals loaded with the run are held the same way, in seen[t].        *)
(*                                                                         *)
(* A client request (PATCH /runs, POST and PATCH /approvals) is a session  *)
(* of one locked transaction, so it reads the row as committed: it is one  *)
(* action and keeps no view.                                               *)
(***************************************************************************)
EXTENDS Naturals, FiniteSets

CONSTANTS
    Runs,        \* AgentRun rows
    Executions,  \* AgentToolExecution rows
    Gated,       \* the executions of tools with requires_approval
    Approvals,   \* AgentApproval rows
    Attempts,    \* calls of the engine or of a workflow, and the message each writes
    None

ASSUME AgentRunsAssumption ==
    /\ Gated \subseteq Executions
    /\ None \notin Runs \cup Executions \cup Attempts

VARIABLES
    run,         \* [Runs -> status]
    output,      \* [Runs -> the message in output_message_id]
    messages,    \* assistant messages committed, each named by its attempt
    execution,   \* [Executions -> status]
    owner,       \* [Executions -> the run in run_id]
    approval,    \* [Approvals -> status]
    covers,      \* [Approvals -> run_id and tool_execution_id]
    expiry,      \* [Approvals -> where expires_at stands: never, later, past]
    pc,          \* [Attempts -> where the attempt is]
    target,      \* [Attempts -> its run]
    view,        \* [Attempts -> the status of the run object the session holds]
    seen,        \* [Attempts -> [Approvals -> status of the objects it holds]]
    listed,      \* [Attempts -> approvals a cancel has yet to cancel]
    open,        \* [Attempts -> executions a cancel has yet to cancel]
    granted,     \* history: approvals an approver has approved
    called,      \* history: executions whose tool adapter has been called
    runner       \* history: [Runs -> the attempt that last wrote "running"]

rows == <<run, output, messages, execution, owner, approval, covers, expiry>>
session == <<target, view, seen, listed, open>>
history == <<granted, called, runner>>
vars == <<rows, pc, session, history>>

-----------------------------------------------------------------------------
(* Statuses.                                                               *)

RunStatus == {"queued", "running", "waiting", "completed", "failed", "cancelled"}
TERMINAL_RUN_STATUSES == {"completed", "failed", "cancelled"}
RUN_TRANSITIONS ==
    [queued    |-> {"running", "cancelled"},
     running   |-> {"waiting", "completed", "failed", "cancelled"},
     waiting   |-> {"running", "cancelled"},
     completed |-> {},
     failed    |-> {},
     cancelled |-> {}]

ExecutionStatus == {"pending", "succeeded", "failed", "cancelled"}
ApprovalStatus == {"pending", "approved", "rejected", "cancelled", "expired"}
Refused == {"rejected", "cancelled", "expired"}
Decided == ApprovalStatus \ {"pending"}

\* Where an attempt can be; the last three are ends.
Stage == {"idle", "ready", "created", "resuming", "started", "tools",
          "working", "failing", "asking", "written", "listing", "cancelling", "closing",
          "done", "refused", "crashed"}
Ended == {"done", "refused", "crashed"}
InFlight(t) == pc[t] \notin Ended \cup {"idle"}

-----------------------------------------------------------------------------
(* Shared steps.                                                           *)

\* RunService.transition in the session of an attempt: the legality of the
\* move is judged on the object the session holds, and the row is written.
Transition(t, s) ==
    /\ s \in RUN_TRANSITIONS[view[t]]
    /\ run' = [run EXCEPT ![target[t]] = s]
    /\ runner' = IF s = "running" THEN [runner EXCEPT ![target[t]] = t] ELSE runner

\* _fail_if_active, and the guards of the other handlers: the run is moved
\* only when the object held says "running".
IfRunning(t, s) ==
    IF view[t] = "running" THEN Transition(t, s) ELSE UNCHANGED <<run, runner>>

Goto(t, p) == pc' = [pc EXCEPT ![t] = p]

\* The objects a session holds once it has read the run with status s.
Hold(t, s) ==
    /\ view' = [view EXCEPT ![t] = s]
    /\ seen' = [seen EXCEPT ![t] = approval]
    /\ UNCHANGED <<target, listed, open>>

Unloaded == [a \in Approvals |-> "absent"]

\* An end that leaves a null where the status was.
EndNulled(t, p) ==
    /\ Goto(t, p)
    /\ view' = [view EXCEPT ![t] = None]
    /\ UNCHANGED <<target, seen, listed, open>>

\* The attempt ends and its session is closed.
End(t, p) ==
    /\ Goto(t, p)
    /\ view' = [view EXCEPT ![t] = "absent"]
    /\ seen' = [seen EXCEPT ![t] = Unloaded]
    /\ listed' = [listed EXCEPT ![t] = {}]
    /\ open' = [open EXCEPT ![t] = {}]
    /\ UNCHANGED target

\* ApprovalRepository.get: the object the session holds, or the row.
Reads(t, a) == IF seen[t][a] = "absent" THEN approval[a] ELSE seen[t][a]

\* What _require_approval would accept without comparing the execution.
MatchesRun(t, e, a) ==
    /\ execution[e] # "absent"
    /\ owner[e] = target[t]
    /\ approval[a] # "absent"
    /\ covers[a].run = target[t]

\* The approval named by an invocation is one for this run and execution.
Matches(t, e, a) ==
    /\ execution[e] # "absent"
    /\ owner[e] = target[t]
    /\ approval[a] # "absent"
    /\ covers[a] = [run |-> target[t], execution |-> e]

\* The execution row of an invocation: a new one, or one of this run.
Usable(t, e) == execution[e] = "absent" \/ owner[e] = target[t]

-----------------------------------------------------------------------------
Init ==
    /\ run = [r \in Runs |-> "absent"]
    /\ output = [r \in Runs |-> None]
    /\ messages = {}
    /\ execution = [e \in Executions |-> "absent"]
    /\ owner = [e \in Executions |-> None]
    /\ approval = [a \in Approvals |-> "absent"]
    /\ covers = [a \in Approvals |-> [run |-> None, execution |-> None]]
    /\ expiry = [a \in Approvals |-> "never"]
    /\ pc = [t \in Attempts |-> "idle"]
    /\ target = [t \in Attempts |-> None]
    /\ view = [t \in Attempts |-> "absent"]
    /\ seen = [t \in Attempts |-> Unloaded]
    /\ listed = [t \in Attempts |-> {}]
    /\ open = [t \in Attempts |-> {}]
    /\ granted = {}
    /\ called = {}
    /\ runner = [r \in Runs |-> None]

-----------------------------------------------------------------------------
(* Client requests: one transaction on a locked, freshly read row.         *)

\* POST /runs.
CreateRun(r) ==
    /\ run[r] = "absent"
    /\ run' = [run EXCEPT ![r] = "queued"]
    /\ UNCHANGED <<output, messages, execution, owner, approval, covers, expiry,
                   pc, session, history>>

\* PATCH /runs/{id}: any legal move; output_message_id may be left alone,
\* cleared or set to a message of the conversation.
PatchRun(r, s, m) ==
    /\ run[r] # "absent"
    /\ s \in RUN_TRANSITIONS[run[r]]
    /\ run' = [run EXCEPT ![r] = s]
    /\ output' = [output EXCEPT ![r] = m]
    /\ runner' = IF s = "running" THEN [runner EXCEPT ![r] = None] ELSE runner
    /\ UNCHANGED <<messages, execution, owner, approval, covers, expiry,
                   pc, session, granted, called>>

\* POST /approvals: the status of the run is not looked at.
PostApproval(a, r, e, x) ==
    /\ approval[a] = "absent"
    /\ run[r] # "absent"
    /\ e # None => owner[e] = r
    /\ approval' = [approval EXCEPT ![a] = "pending"]
    /\ covers' = [covers EXCEPT ![a] = [run |-> r, execution |-> e]]
    /\ expiry' = [expiry EXCEPT ![a] = x]
    /\ UNCHANGED <<run, output, messages, execution, owner, pc, session, history>>

\* The clock passes expires_at.
Lapse(a) ==
    /\ expiry[a] = "later"
    /\ expiry' = [expiry EXCEPT ![a] = "past"]
    /\ UNCHANGED <<run, output, messages, execution, owner, approval, covers,
                   pc, session, history>>

\* A decision that does not ask whether one was taken.
DecideAgain(a, s) ==
    /\ approval[a] # "absent"
    /\ approval' = [approval EXCEPT ![a] = s]
    /\ granted' = IF s = "approved" THEN granted \cup {a} ELSE granted
    /\ UNCHANGED <<run, output, messages, execution, owner, covers, expiry,
                   pc, session, called, runner>>

\* PATCH /approvals/{id} with approved, rejected or cancelled.
Decide(a, s) ==
    /\ approval[a] = "pending"
    /\ expiry[a] # "past"
    /\ approval' = [approval EXCEPT ![a] = s]
    /\ granted' = IF s = "approved" THEN granted \cup {a} ELSE granted
    /\ UNCHANGED <<run, output, messages, execution, owner, covers, expiry,
                   pc, session, called, runner>>

\* PATCH /approvals/{id} with expired.
Expire(a) ==
    /\ approval[a] = "pending"
    /\ expiry[a] = "past"
    /\ approval' = [approval EXCEPT ![a] = "expired"]
    /\ UNCHANGED <<run, output, messages, execution, owner, covers, expiry,
                   pc, session, history>>

ClientRequest ==
    \/ \E r \in Runs : CreateRun(r)
    \/ \E r \in Runs, s \in RunStatus :
          \E m \in messages \cup {None, output[r]} : PatchRun(r, s, m)
    \/ \E a \in Approvals, r \in Runs, e \in Executions \cup {None},
          x \in {"never", "later"} : PostApproval(a, r, e, x)
    \/ \E a \in Approvals : Lapse(a)
    \/ \E a \in Approvals, s \in {"approved", "rejected", "cancelled"} : Decide(a, s)
    \/ \E a \in Approvals : Expire(a)

-----------------------------------------------------------------------------
(* An attempt begins by loading the run, with its approvals.               *)

Load(t, r) ==
    /\ pc[t] = "idle"
    /\ run[r] # "absent"
    /\ target' = [target EXCEPT ![t] = r]
    /\ view' = [view EXCEPT ![t] = run[r]]
    /\ seen' = [seen EXCEPT ![t] = approval]
    /\ UNCHANGED <<rows, listed, open, history>>

BeginExecute(t, r) == Load(t, r) /\ run[r] = "queued" /\ Goto(t, "ready")
BeginResume(t, r) == Load(t, r) /\ run[r] = "waiting" /\ Goto(t, "resuming")
BeginCancel(t, r) ==
    Load(t, r) /\ run[r] \notin TERMINAL_RUN_STATUSES /\ Goto(t, "listing")

\* A workflow creates the run it will drive.
BeginWorkflow(t, r) ==
    /\ pc[t] = "idle"
    /\ run[r] = "absent"
    /\ run' = [run EXCEPT ![r] = "queued"]
    /\ target' = [target EXCEPT ![t] = r]
    /\ view' = [view EXCEPT ![t] = "queued"]
    /\ Goto(t, "created")
    /\ UNCHANGED <<output, messages, execution, owner, approval, covers, expiry,
                   seen, listed, open, history>>

Start(t) ==
    /\ pc[t] \in {"ready", "created"}
    /\ Transition(t, "running")
    /\ Hold(t, "running")
    /\ Goto(t, IF pc[t] = "created" THEN "working" ELSE "started")
    /\ UNCHANGED <<output, messages, execution, owner, approval, covers, expiry,
                   granted, called>>

Resume(t) ==
    /\ pc[t] = "resuming"
    /\ Transition(t, "running")
    /\ Hold(t, "running")
    /\ Goto(t, "started")
    /\ UNCHANGED <<output, messages, execution, owner, approval, covers, expiry,
                   granted, called>>

\* ContextBuilder.build ends by writing the snapshot into the run, which
\* locks the row and refreshes the object: the status it holds afterwards.
Rebuilt(t) == run[target[t]]

\* The choice of provider commits what the context wrote.  The status just
\* read is not looked at.
SelectProvider(t) ==
    /\ pc[t] = "started"
    /\ Hold(t, Rebuilt(t))
    /\ Goto(t, "tools")
    /\ UNCHANGED <<rows, history>>

\* The context is built but no provider will take the run: the handler
\* judges the status just refreshed, the lock still held.
ProviderUnavailable(t) ==
    /\ pc[t] = "started"
    /\ run' = IF Rebuilt(t) = "running" THEN [run EXCEPT ![target[t]] = "failed"] ELSE run
    /\ End(t, "done")
    /\ UNCHANGED <<output, messages, execution, owner, approval, covers, expiry,
                   history>>

-----------------------------------------------------------------------------
(* Tools.  An invocation names a tool, and perhaps an execution and an     *)
(* approval from an earlier attempt.                                       *)

\* The tool may run: it needs no approval, or the approval it names is read
\* as approved.  Its adapter is called and the outcome committed.
CallTool(t, e, s) ==
    /\ pc[t] = "tools"
    /\ IF e \in Gated
         THEN \E a \in Approvals : Matches(t, e, a) /\ Reads(t, a) = "approved"
         ELSE Usable(t, e)
    /\ execution' = [execution EXCEPT ![e] = s]
    /\ owner' = [owner EXCEPT ![e] = target[t]]
    /\ called' = called \cup {e}
    /\ Goto(t, IF s = "failed" THEN "failing" ELSE "tools")
    /\ UNCHANGED <<run, output, messages, approval, covers, expiry,
                   session, granted, runner>>

\* No approval is named: one is requested and committed.
RequestApproval(t, e, a) ==
    /\ pc[t] = "tools"
    /\ e \in Gated
    /\ Usable(t, e)
    /\ approval[a] = "absent"
    /\ execution' = [execution EXCEPT ![e] = IF @ = "absent" THEN "pending" ELSE @]
    /\ owner' = [owner EXCEPT ![e] = target[t]]
    /\ approval' = [approval EXCEPT ![a] = "pending"]
    /\ covers' = [covers EXCEPT ![a] = [run |-> target[t], execution |-> e]]
    /\ Goto(t, "asking")
    /\ UNCHANGED <<run, output, messages, expiry, session, history>>

\* The approval named is read as pending: nothing is written before the
\* handler makes the run wait.
AwaitApproval(t, e, a) ==
    /\ pc[t] = "tools"
    /\ e \in Gated
    /\ Matches(t, e, a)
    /\ Reads(t, a) = "pending"
    /\ IfRunning(t, "waiting")
    /\ End(t, "done")
    /\ UNCHANGED <<output, messages, execution, owner, approval, covers, expiry,
                   granted, called>>

\* The approval named is read as refused: ExecutionCancelled, and the run is
\* cancelled if the object held is not at its end.
ApprovalRefused(t, e, a) ==
    /\ pc[t] = "tools"
    /\ e \in Gated
    /\ Matches(t, e, a)
    /\ Reads(t, a) \in Refused
    /\ \/ view[t] \in TERMINAL_RUN_STATUSES /\ End(t, "done")
       \/ view[t] \notin TERMINAL_RUN_STATUSES /\ Goto(t, "listing") /\ UNCHANGED session
    /\ UNCHANGED <<rows, history>>

\* A ToolFailure after the execution row is inserted: the row is committed
\* with the failure of the run, or lost with the session.
ToolRejected(t, e) ==
    /\ pc[t] = "tools"
    /\ execution[e] = "absent"
    /\ IfRunning(t, "failed")
    /\ IF view[t] = "running"
         THEN /\ execution' = [execution EXCEPT ![e] = "pending"]
              /\ owner' = [owner EXCEPT ![e] = target[t]]
         ELSE UNCHANGED <<execution, owner>>
    /\ End(t, "done")
    /\ UNCHANGED <<output, messages, approval, covers, expiry,
                   granted, called>>

-----------------------------------------------------------------------------
(* The answer, and the handlers.                                           *)

\* The provider (or the workflow's orchestration) answers: the assistant
\* message is committed by itself.
Answer(t) ==
    /\ pc[t] \in {"tools", "working"}
    /\ messages' = messages \cup {t}
    /\ Goto(t, "written")
    /\ UNCHANGED <<run, output, execution, owner, approval, covers, expiry,
                   session, history>>

\* The run completed before its message is committed.
CompleteFirst(t) ==
    /\ pc[t] = "working"
    /\ IfRunning(t, "completed")
    /\ output' = IF view[t] = "running" THEN [output EXCEPT ![target[t]] = t] ELSE output
    /\ End(t, "done")
    /\ UNCHANGED <<messages, execution, owner, approval, covers, expiry,
                   granted, called>>

\* RunService.complete with the message just written.  When the object held
\* is no longer running the move is illegal and the handler leaves the run.
Complete(t) ==
    /\ pc[t] = "written"
    /\ IfRunning(t, "completed")
    /\ output' = IF view[t] = "running" THEN [output EXCEPT ![target[t]] = t] ELSE output
    /\ End(t, "done")
    /\ UNCHANGED <<messages, execution, owner, approval, covers, expiry,
                   granted, called>>

\* An error that is raised with no handler.
FailUnhandled(t) ==
    /\ pc[t] \in {"started", "tools", "working", "failing"}
    /\ End(t, "done")
    /\ UNCHANGED <<rows, history>>

\* Any other error, the tool's own included.
Fail(t) ==
    /\ pc[t] \in {"started", "tools", "working", "failing"}
    /\ IfRunning(t, "failed")
    /\ End(t, "done")
    /\ UNCHANGED <<output, messages, execution, owner, approval, covers, expiry,
                   granted, called>>

\* The handler of ApprovalRequired, in a transaction after the request's;
\* a voice workflow whose orchestration asks for approval does the same.
Wait(t) ==
    /\ pc[t] \in {"asking", "working"}
    /\ IfRunning(t, "waiting")
    /\ End(t, "done")
    /\ UNCHANGED <<output, messages, execution, owner, approval, covers, expiry,
                   granted, called>>

-----------------------------------------------------------------------------
(* ExecutionEngine.cancel: a list read without a lock, then one            *)
(* transaction per row, then the run.                                      *)

ListApprovals(t) ==
    /\ pc[t] = "listing"
    /\ listed' = [listed EXCEPT
           ![t] = {a \in Approvals : covers[a].run = target[t] /\ approval[a] = "pending"}]
    /\ Goto(t, "cancelling")
    /\ UNCHANGED <<rows, target, view, seen, open, history>>

\* ApprovalService.cancel: the object listed says pending, whatever the row
\* has become.
CancelApproval(t, a) ==
    /\ pc[t] = "cancelling"
    /\ a \in listed[t]
    /\ expiry[a] # "past"
    /\ approval' = [approval EXCEPT ![a] = "cancelled"]
    /\ listed' = [listed EXCEPT ![t] = @ \ {a}]
    /\ UNCHANGED <<run, output, messages, execution, owner, covers, expiry,
                   pc, target, view, seen, open, history>>

ListExecutions(t) ==
    /\ pc[t] = "cancelling"
    /\ listed[t] = {}
    /\ open' = [open EXCEPT
           ![t] = {e \in Executions : owner[e] = target[t] /\ execution[e] = "pending"}]
    /\ Goto(t, "closing")
    /\ UNCHANGED <<rows, target, view, seen, listed, history>>

\* ToolExecutionEngine.cancel, on the object listed.
CancelExecution(t, e) ==
    /\ pc[t] = "closing"
    /\ e \in open[t]
    /\ execution' = [execution EXCEPT ![e] = "cancelled"]
    /\ open' = [open EXCEPT ![t] = @ \ {e}]
    /\ UNCHANGED <<run, output, messages, owner, approval, covers, expiry,
                   pc, target, view, seen, listed, history>>

\* An error leaves the cancel where it is: a listed approval has expired, or
\* the adapter of a listed execution cannot cancel it.
CancelRefused(t) ==
    /\ \/ pc[t] = "cancelling" /\ \E a \in listed[t] : expiry[a] = "past"
       \/ pc[t] = "closing" /\ open[t] # {}
    /\ End(t, "refused")
    /\ UNCHANGED <<rows, history>>

CancelRun(t) ==
    /\ pc[t] = "closing"
    /\ open[t] = {}
    /\ Transition(t, "cancelled")
    /\ End(t, "done")
    /\ UNCHANGED <<output, messages, execution, owner, approval, covers, expiry,
                   granted, called>>

\* The process dies between two commits.
Crash(t) ==
    /\ InFlight(t)
    /\ End(t, "crashed")
    /\ UNCHANGED <<rows, history>>

-----------------------------------------------------------------------------
Drive(t) ==
    \/ \E r \in Runs : BeginExecute(t, r) \/ BeginResume(t, r) \/ BeginWorkflow(t, r)
    \/ Start(t) \/ Resume(t) \/ SelectProvider(t) \/ ProviderUnavailable(t)
    \/ \E e \in Executions, s \in {"succeeded", "failed"} : CallTool(t, e, s)
    \/ \E e \in Executions, a \in Approvals :
          RequestApproval(t, e, a) \/ AwaitApproval(t, e, a) \/ ApprovalRefused(t, e, a)
    \/ \E e \in Executions : ToolRejected(t, e)
    \/ Answer(t) \/ Complete(t) \/ Fail(t) \/ Wait(t)

Cancel(t) ==
    \/ \E r \in Runs : BeginCancel(t, r)
    \/ ListApprovals(t) \/ ListExecutions(t) \/ CancelRefused(t) \/ CancelRun(t)
    \/ \E a \in Approvals : CancelApproval(t, a)
    \/ \E e \in Executions : CancelExecution(t, e)

Next ==
    \/ ClientRequest
    \/ \E t \in Attempts : Drive(t) \/ Cancel(t) \/ Crash(t)

Spec == Init /\ [][Next]_vars

-----------------------------------------------------------------------------
(* Properties.                                                             *)

(* Every row and every held object has a value of its column.              *)
TypeOK ==
    /\ run \in [Runs -> RunStatus \cup {"absent"}]
    /\ output \in [Runs -> Attempts \cup {None}]
    /\ messages \subseteq Attempts
    /\ execution \in [Executions -> ExecutionStatus \cup {"absent"}]
    /\ owner \in [Executions -> Runs \cup {None}]
    /\ approval \in [Approvals -> ApprovalStatus \cup {"absent"}]
    /\ covers \in [Approvals -> [run : Runs \cup {None},
                                 execution : Executions \cup {None}]]
    /\ expiry \in [Approvals -> {"never", "later", "past"}]
    /\ pc \in [Attempts -> Stage]
    /\ target \in [Attempts -> Runs \cup {None}]
    /\ view \in [Attempts -> RunStatus \cup {"absent"}]
    /\ seen \in [Attempts -> [Approvals -> ApprovalStatus \cup {"absent"}]]
    /\ listed \in [Attempts -> SUBSET Approvals]
    /\ open \in [Attempts -> SUBSET Executions]
    /\ granted \subseteq Approvals
    /\ called \subseteq Executions
    /\ runner \in [Runs -> Attempts \cup {None}]

(* A tool that needs approval is called only if an approver granted an     *)
(* approval requested for that very execution of that very run, however    *)
(* attempts, clients and cancels interleave and however old the objects    *)
(* the engine reads (ToolExecutionEngine._require_approval).               *)
ToolsWaitForApproval ==
    \A e \in called \cap Gated :
        \E a \in granted : covers[a] = [run |-> owner[e], execution |-> e]

(* An approval that was refused, cancelled or left to expire is never      *)
(* granted afterwards: deciders lock the row and read it as committed, and *)
(* the stale objects of a cancel can only cancel (ApprovalService._decide).*)
RefusalIsFinal ==
    [][\A a \in Approvals : approval[a] \in Refused => approval'[a] # "approved"]_vars

(* The message a run points to as its output has been committed: it is     *)
(* written before the run is completed (ExecutionEngine.execute).          *)
OutputWasWritten == \A r \in Runs : output[r] # None => output[r] \in messages

(* Rows keep their types, gated tools wait for their approval and outputs  *)
(* exist, whatever the sessions on a run overwrite (ToolExecutionEngine,   *)
(* ExecutionEngine.execute).                                               *)
RunsSafe == TypeOK /\ ToolsWaitForApproval /\ OutputWasWritten

(* A run that an attempt put in "running" is left there only by a crash or *)
(* by a cancel that was refused halfway: on every other path, another      *)
(* session's interference included, the attempt moves the run on or finds  *)
(* that somebody else has (the handlers of ExecutionEngine.execute).       *)
NoRunIsAbandoned ==
    \A r \in Runs :
        run[r] = "running" /\ runner[r] # None =>
            InFlight(runner[r]) \/ pc[runner[r]] \in {"refused", "crashed"}

(* What RUN_TRANSITIONS says of the three last statuses (agent.py:92-94):  *)
(* nothing follows them.  An attempt that judges the move on the object it *)
(* holds overwrites the end another session has committed.                 *)
EndIsFinal ==
    [][\A r \in Runs : run[r] \in TERMINAL_RUN_STATUSES => run'[r] = run[r]]_vars

=============================================================================

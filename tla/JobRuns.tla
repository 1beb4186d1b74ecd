------------------------------- MODULE JobRuns -------------------------------
(***************************************************************************)
(* The background job runner (background/runner.py): one execution row,    *)
(* its attempts under a retry policy, a timeout that is judged once the    *)
(* work is done, cancellation by correlation id, and the monitor's         *)
(* counters.  A runner has one database session and runs one request after *)
(* the other; cancel() is called by other tasks in between.  The tool,     *)
(* integration and agent services commit that session while they work,     *)
(* which publishes the row as it is at that moment.                        *)
(***************************************************************************)
EXTENDS Integers, FiniteSets, Sequences

CONSTANTS
    Executions,        \* identifiers of execution rows
    Asked,             \* the requests made: see Request
    Correlations,      \* correlation ids
    NoRow,             \* the row that does not exist
    NoGrant,           \* a request without an approval
    MaximumAttempts    \* RetryPolicy.maximum_attempts

Policies == {"none", "user", "admin", "multi_stage"}
Targets == {"mock", "internal_tool", "integration", "agent"}
Grant == [policy : Policies, approved : BOOLEAN, signed : BOOLEAN, stages : Nat]
Request == [policy : Policies, grant : Grant \cup {NoGrant}, permitted : BOOLEAN,
            target : Targets, dryRun : BOOLEAN, correlation : Correlations]

ExecutionStates == {"running", "succeeded", "failed", "cancelled",
                    "waiting_for_approval", "blocked"}
AttemptStates == {"running", "succeeded", "failed", "cancelled"}
Settled == {"succeeded", "failed", "cancelled"}
Execution == [request : Request, status : ExecutionStates, attempts : Seq(AttemptStates)]

ASSUME JobsAssumption ==
    /\ MaximumAttempts \in Nat \ {0}
    /\ Asked \subseteq Request
    /\ NoGrant \notin Grant
    /\ NoRow \notin Execution /\ NoRow \notin ExecutionStates

VARIABLES
    held,        \* [Executions -> row in the runner's session, NoRow]
    saved,       \* [Executions -> status in the database, NoRow]
    worker,      \* the execution in the runner's hands and what comes next
    cancelledIds,  \* _cancelled
    active, failures,   \* monitor.active_jobs, monitor.failed_jobs
    worked,      \* history: [Executions -> how often its plan was carried out]
    lateWork,    \* history: attempts that began although they were cancelled
    leaked,      \* history: runs left without an answer by an error
    twice        \* history: decrements of active_jobs beyond the first of a run

jobVars == <<held, saved, worker, cancelledIds, active, failures, worked, lateWork, leaked, twice>>

\* lost: the commit of a success has failed.
Idle == [at |-> "idle", of |-> NoRow, lost |-> FALSE]
Stages == {"begin", "work", "judge", "failed"}

JobsTypeOK ==
    /\ held \in [Executions -> Execution \cup {NoRow}]
    /\ saved \in [Executions -> ExecutionStates \cup {NoRow}]
    /\ worker \in [at : Stages, of : Executions, lost : BOOLEAN] \cup {Idle}
    /\ cancelledIds \subseteq Correlations
    /\ active \in Int /\ failures \in Nat /\ leaked \in Nat /\ twice \in Nat
    /\ worked \in [Executions -> Nat]
    /\ lateWork \subseteq Executions

JobsInit ==
    /\ held = [x \in Executions |-> NoRow]
    /\ saved = [x \in Executions |-> NoRow]
    /\ worker = Idle
    /\ cancelledIds = {} /\ lateWork = {}
    /\ active = 0 /\ failures = 0 /\ leaked = 0 /\ twice = 0
    /\ worked = [x \in Executions |-> 0]

-----------------------------------------------------------------------------
(* Admission.                                                               *)

\* Faulty variant of ApprovalOutcome: one stage is enough for any policy.
OutcomeOfOneStage(policy, grant) ==
    IF policy = "none" THEN "not_required"
    ELSE IF grant = NoGrant THEN "pending"
    ELSE IF grant.policy # policy \/ ~grant.approved \/ ~grant.signed THEN "denied"
    ELSE "approved"

ApprovalOutcome(policy, grant) ==
    IF policy = "none" THEN "not_required"
    ELSE IF grant = NoGrant THEN "pending"
    ELSE IF grant.policy # policy \/ ~grant.approved \/ ~grant.signed THEN "denied"
    ELSE IF policy = "multi_stage" /\ grant.stages < 2 THEN "pending"
    ELSE "approved"

Admitted(r) == ApprovalOutcome(r.policy, r.grant) \in {"not_required", "approved"}

\* The status a request gets from the permission validator: a grant that was denied
\* waits like one that is missing.
Admission(r) ==
    IF ~r.permitted THEN "blocked"
    ELSE IF ~Admitted(r) THEN "waiting_for_approval"
    ELSE "running"

Row(r, status) == [request |-> r, status |-> status, attempts |-> <<>>]

Current == held[worker.of]
Number == Len(Current.attempts)
At(stage) == worker.at = stage
Go(stage) == worker' = [worker EXCEPT !.at = stage]

\* Every request gets a row of its own.
NewRow(x) == held[x] = NoRow

\* Refused requests are committed at once, with their reason.
Refuse(x, r) ==
    /\ At("idle") /\ NewRow(x)
    /\ Admission(r) # "running"
    /\ held' = [held EXCEPT ![x] = Row(r, Admission(r))]
    /\ saved' = [saved EXCEPT ![x] = Admission(r)]
    /\ UNCHANGED <<worker, cancelledIds, active, failures, worked, lateWork, leaked, twice>>

Begin(x, r) ==
    /\ At("idle") /\ NewRow(x)
    /\ Admission(r) = "running"
    /\ held' = [held EXCEPT ![x] = [Row(r, "running") EXCEPT !.attempts = <<"running">>]]
    /\ worker' = [at |-> "begin", of |-> x, lost |-> FALSE]
    /\ active' = active + 1
    /\ UNCHANGED <<saved, cancelledIds, failures, worked, lateWork, leaked, twice>>

\* The request of retry_execution: no approval, no longer a dry run, and the context
\* of whoever retries.
Again(r, c, permitted) ==
    [r EXCEPT !.grant = NoGrant, !.dryRun = FALSE, !.correlation = c, !.permitted = permitted]

RunNow(x) == \E r \in Asked : Refuse(x, r) \/ Begin(x, r)

FreshIds ==
    {c \in Correlations \ cancelledIds :
        \A z \in Executions : held[z] # NoRow => held[z].request.correlation # c}

\* Any failed execution can be retried, any number of times.
RetryExecution(x, y) ==
    /\ saved[y] = "failed"
    /\ \E c \in FreshIds, permitted \in BOOLEAN :
          LET r == Again(held[y].request, c, permitted) IN Refuse(x, r) \/ Begin(x, r)

-----------------------------------------------------------------------------
(* Attempts.                                                                *)

SetAttempt(status) ==
    held' = [held EXCEPT ![worker.of].attempts[Number] = status]

Cancelled == Current.request.correlation \in cancelledIds

StopCancelled ==
    /\ At("begin") /\ Cancelled
    /\ SetAttempt("cancelled")
    /\ Go("failed")
    /\ UNCHANGED <<saved, cancelledIds, active, failures, worked, lateWork, leaked, twice>>

\* The payload is invalid, or the job makes no plan.
Invalid ==
    /\ At("begin") /\ ~Cancelled
    /\ SetAttempt("failed")
    /\ Go("failed")
    /\ UNCHANGED <<saved, cancelledIds, active, failures, worked, lateWork, leaked, twice>>

StartWork ==
    /\ At("begin") /\ ~Cancelled
    /\ Go("work")
    /\ lateWork' = IF Current.request.correlation \in cancelledIds
                   THEN lateWork \cup {worker.of} ELSE lateWork
    /\ UNCHANGED <<held, saved, cancelledIds, active, failures, worked, leaked, twice>>

CarriedOut(r) == ~r.dryRun /\ r.target # "mock"

\* What a service's commit publishes: the row as it is then.
Publish == saved' = [saved EXCEPT ![worker.of] = Current.status]

WorkedOnce == [worked EXCEPT ![worker.of] = @ + 1]

\* A tool that fails has a result too, which the runner does not look into.
ToolRan == worked' \in {worked, WorkedOnce}

\* Whatever came of it, a service commits its log, and with it all the session holds.
ServiceCommits == Publish /\ ToolRan

\* A dry run and a mock plan have a result without any work.
Work ==
    /\ At("work")
    /\ Go("judge")
    /\ IF CarriedOut(Current.request) THEN ServiceCommits ELSE UNCHANGED <<saved, worked>>
    /\ UNCHANGED <<held, cancelledIds, active, failures, lateWork, leaked, twice>>

\* A connector may have been called without a commit after it.
ConnectorCalled ==
    /\ Current.request.target = "integration"
    /\ worked' = WorkedOnce
    /\ UNCHANGED saved

\* How far a service came when it raised or was cut off.
PartOfTheWork == UNCHANGED <<saved, worked>> \/ ServiceCommits \/ ConnectorCalled

\* The service raises: permission, configuration, an agent run, a failing commit.
WorkRaises ==
    /\ At("work") /\ CarriedOut(Current.request)
    /\ PartOfTheWork
    /\ SetAttempt("failed")
    /\ Go("failed")
    /\ UNCHANGED <<cancelledIds, active, failures, lateWork, leaked, twice>>

\* The timeout is looked at when the result is there.
TooLate ==
    /\ At("judge")
    /\ SetAttempt("failed")
    /\ Go("failed")
    /\ UNCHANGED <<saved, cancelledIds, active, failures, worked, lateWork, leaked, twice>>

Succeed ==
    /\ At("judge") /\ ~worker.lost
    /\ held' = [held EXCEPT ![worker.of].attempts[Number] = "succeeded",
                            ![worker.of].status = "succeeded"]
    /\ saved' = [saved EXCEPT ![worker.of] = "succeeded"]
    /\ active' = active - 1
    /\ worker' = Idle
    /\ UNCHANGED <<cancelledIds, failures, worked, lateWork, leaked, twice>>

Decremented == IF worker.lost THEN 1 ELSE 0

\* The commit of the success fails, after the monitor was told: its error is one of
\* the attempt's like any other.
SuccessIsLost ==
    /\ At("judge")
    /\ SetAttempt("failed")
    /\ active' = active - 1
    /\ twice' = twice + Decremented
    /\ worker' = [worker EXCEPT !.at = "failed", !.lost = TRUE]
    /\ UNCHANGED <<saved, cancelledIds, failures, worked, lateWork, leaked>>

\* Every exception may be tried again, a cancellation included.
ShouldRetry == At("failed") /\ Number < MaximumAttempts

\* After a rollback a row that was saved has to be loaded again, which fails.
NextAttempt ==
    /\ ShouldRetry
    /\ worker.lost => saved[worker.of] = NoRow
    /\ held' = [held EXCEPT ![worker.of].attempts = Append(@, "running")]
    /\ Go("begin")
    /\ UNCHANGED <<saved, cancelledIds, active, failures, worked, lateWork, leaked, twice>>

Verdict == Current.attempts[Number]

Settle(committed) ==
    /\ At("failed") /\ ~ShouldRetry
    /\ committed => ~worker.lost
    /\ twice' = twice + Decremented
    /\ held' = [held EXCEPT ![worker.of].status = Verdict]
    /\ saved' = IF committed THEN [saved EXCEPT ![worker.of] = Verdict] ELSE saved
    /\ active' = active - 1
    /\ failures' = failures + (IF Verdict = "cancelled" THEN 0 ELSE 1)
    /\ worker' = Idle
    /\ UNCHANGED <<cancelledIds, worked, lateWork, leaked>>

\* The task that runs the job is cancelled, or a flush outside an attempt fails:
\* the run ends where it is.
Abandon ==
    /\ ~At("idle")
    /\ \/ UNCHANGED <<saved, worked>>
       \/ At("work") /\ CarriedOut(Current.request) /\ PartOfTheWork
    /\ worker' = Idle
    /\ leaked' = leaked + (1 - Decremented)
    /\ UNCHANGED <<held, cancelledIds, active, failures, lateWork, twice>>

Cancel(c) ==
    /\ c \notin cancelledIds
    /\ cancelledIds' = cancelledIds \cup {c}
    /\ UNCHANGED <<held, saved, worker, active, failures, worked, lateWork, leaked, twice>>

JobsNext ==
    \/ \E x \in Executions : RunNow(x) \/ \E y \in Executions : RetryExecution(x, y)
    \/ StopCancelled \/ Invalid \/ StartWork \/ Work \/ WorkRaises
    \/ TooLate \/ Succeed \/ SuccessIsLost \/ NextAttempt
    \/ \E committed \in BOOLEAN : Settle(committed)
    \/ Abandon
    \/ \E c \in Correlations : Cancel(c)

JobsSpec == JobsInit /\ [][JobsNext]_jobVars

-----------------------------------------------------------------------------
(* Properties.                                                              *)

Last(s) == s[Len(s)]

\* The row of an execution is the verdict over its attempts: at most as many as
\* the policy allows, none after a success, and its end is the last attempt's.
RowTellsAttempts ==
    \A x \in Executions : held[x] # NoRow =>
        LET a == held[x].attempts IN
        /\ Len(a) <= MaximumAttempts
        /\ \A i \in 1 .. Len(a) - 1 : a[i] \in {"failed", "cancelled"}
        /\ held[x].status \in Settled => Len(a) > 0 /\ Last(a) = held[x].status
        /\ held[x].status = "failed" => Len(a) = MaximumAttempts

\* The work of an execution is done at most once per attempt, never for a dry run,
\* never before permission and approval were given, and never in an attempt that
\* began after the cancellation.
GrantedFor(r) ==
    \/ r.policy = "none"
    \/ /\ r.grant # NoGrant
       /\ r.grant.policy = r.policy /\ r.grant.approved /\ r.grant.signed
       /\ r.policy = "multi_stage" => r.grant.stages >= 2

WorkIsAccountedFor ==
    /\ lateWork = {}
    /\ \A x \in Executions : worked[x] > 0 =>
          /\ held[x] # NoRow
          /\ worked[x] <= Len(held[x].attempts)
          /\ CarriedOut(held[x].request)
          /\ held[x].request.permitted /\ GrantedFor(held[x].request)

\* Work inside the database is committed together with the row of its execution,
\* as the services commit in the runner's session; a connector's call is not.
WorkHasARow ==
    \A x \in Executions :
        worked[x] > 0 /\ held[x].request.target # "integration" => saved[x] # NoRow

\* The monitor counts the running job and those that were abandoned, less what a lost
\* success took off a second time, and no committed failure escapes it.
MonitorCounts ==
    /\ active = leaked - twice + (IF At("idle") THEN 0 ELSE 1 - Decremented)
    /\ failures >= Cardinality({x \in Executions : saved[x] = "failed"})

\* The runner keeps its books whatever raises, is too slow or is cancelled
\* (BackgroundJobRunner.run, retry_execution).
JobsSafe ==
    /\ JobsTypeOK
    /\ RowTellsAttempts
    /\ WorkIsAccountedFor
    /\ WorkHasARow
    /\ MonitorCounts

=============================================================================

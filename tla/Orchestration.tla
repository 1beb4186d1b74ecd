---------------------------- MODULE Orchestration ----------------------------
(***************************************************************************)
(* One request in the orchestration pipeline (orchestration/pipeline.py):  *)
(* a route is selected, a plan of at most one executable step is approved  *)
(* and carried out with retries, the model answers, with native tool calls *)
(* or without, the answer is validated, and the execution is committed.    *)
(* A deadline may cut every awaited operation off, and the caller commits  *)
(* the session of a request that failed (voice/orchestration.py).          *)
(***************************************************************************)
EXTENDS Integers, FiniteSets, Sequences, FiniteSetsExt

CONSTANTS
    Plans,            \* the requests that may be made: see OrchestrationRequest
    Calls,            \* the native tool calls the model may make: see Call
    ApprovedCalls,    \* ids in approved_call_ids
    GuardedCalls,     \* ids in destructive_guard_call_ids
    MaximumRetries,   \* OrchestrationPolicy.maximum_retries
    MaximumRounds,    \* NativeToolLoop.max_rounds
    MaxCalls,         \* bound: calls the model makes in one round
    NoText            \* no answer yet

PlanTargets == {"none", "tool", "market", "weather", "integration", "background", "agent"}
Modes == {"conversation", "evidence_backed", "market"}
OrchestrationRequest == [target : PlanTargets, gated : BOOLEAN, native : BOOLEAN,
            deadline : BOOLEAN, evidence : BOOLEAN, mode : Modes]

NativeToolAction == {"read", "draft", "write", "destructive"}

ASSUME OrchestrationAssumption ==
    /\ Plans \subseteq OrchestrationRequest
    /\ IsFiniteSet(Calls)
    /\ \A c \in Calls : c.action \in NativeToolAction \cup {"unknown"}
    /\ MaximumRetries \in Nat
    /\ MaximumRounds \in Nat \ {0} /\ MaxCalls \in Nat

Statuses == {"succeeded", "provider_error", "authorization_denied"}
NativeExecution == [call : Calls, status : Statuses]

\* Evidence ids: supplied with the request, found by the live tool, or standing for
\* live data that is unavailable.
Evidence == {"given", "live", "gap"}

\* What a text says, as far as the validator tells texts apart.
Text == [kind : {"plain", "malformed", "action_claim", "state_claim"}, cites : SUBSET Evidence]
Texts == {t \in Text : t.kind = "state_claim" \/ t.cites = {}}
FallbackText == [kind |-> "plain", cites |-> {}]

VARIABLES
    request,     \* the request under way
    stage,       \* what the pipeline is doing
    tries,       \* failed tries of the operation under way
    acted,       \* the operation under way has had its effect
    performed,   \* history: effects of the planned step
    action,      \* the ExecutedAction of the step
    round, pending,   \* NativeToolLoop.complete: the round and its calls
    executions,  \* NativeToolLoop.complete: executions of this try
    invoked,     \* history: [Calls -> handler invocations]
    recorded,    \* AgentToolExecution rows in the session
    kept,        \* the committed ones
    evidence,    \* metadata["evidence_ids"]
    answer,      \* the response, then the validated response
    expired,     \* the deadline has passed
    outcome      \* of the request

callVars == <<performed, action, evidence>>
loopVars == <<round, pending, executions, invoked>>
endVars == <<recorded, kept, answer, outcome>>
pipelineVars == <<request, stage, tries, acted, callVars, loopVars, endVars, expired>>

ExecutedAction == {"none", "succeeded", "failed"}

OrchestrationTypeOK ==
    /\ request \in OrchestrationRequest
    /\ stage \in {"idle", "route", "step", "model", "calls", "assemble", "done"}
    /\ tries \in 0 .. MaximumRetries
    /\ acted \in BOOLEAN /\ expired \in BOOLEAN
    /\ performed \in Nat
    /\ action \in ExecutedAction
    /\ round \in 0 .. MaximumRounds
    /\ pending \in Seq(Calls)
    /\ executions \in Seq(NativeExecution)
    /\ invoked \in [Calls -> Nat]
    /\ recorded \in Seq(NativeExecution) /\ kept \in Seq(NativeExecution)
    /\ evidence \subseteq Evidence
    /\ answer \in Texts \cup {NoText}
    /\ outcome \in {"idle", "running", "answered", "approval_required", "timeout",
                    "exhausted", "over_budget", "failed", "died"}

OrchestrationInit ==
    /\ request \in Plans
    /\ stage = "idle" /\ outcome = "idle"
    /\ tries = 0 /\ performed = 0 /\ round = 0
    /\ acted = FALSE /\ expired = FALSE
    /\ action = "none" /\ answer = NoText
    /\ pending = <<>> /\ executions = <<>> /\ recorded = <<>> /\ kept = <<>>
    /\ invoked = [c \in Calls |-> 0]
    /\ evidence = {}

-----------------------------------------------------------------------------
(* Ends.                                                                    *)

\* An exception leaves the pipeline; the caller's commit, which may itself fail,
\* takes along what the session holds.
Throw(how) ==
    /\ outcome' = how /\ stage' = "done"
    /\ kept' \in {kept, recorded}
    /\ UNCHANGED <<recorded, answer>>

TurnTo(s) == stage' = s /\ UNCHANGED endVars

FreshOperation == tries' = 0 /\ acted' = FALSE

-----------------------------------------------------------------------------
(* Route, plan and approval.                                                *)

Execute ==
    /\ stage = "idle"
    /\ stage' = "route" /\ outcome' = "running"
    /\ evidence' = IF request.evidence THEN {"given"} ELSE {}
    /\ UNCHANGED <<request, tries, acted, performed, action, loopVars,
                   recorded, kept, answer, expired>>

\* No eligible agent, no healthy provider, no model, or a failing read.
NoRoute ==
    /\ stage = "route"
    /\ Throw("failed")
    /\ UNCHANGED <<request, tries, acted, callVars, loopVars, expired>>

\* Steps get fresh ids when they are planned, so no id of an earlier plan approves one.
RequireApproval ==
    /\ stage = "route" /\ request.gated
    /\ Throw("approval_required")
    /\ UNCHANGED <<request, tries, acted, callVars, loopVars, expired>>

Planned ==
    /\ stage = "route" /\ ~request.gated
    /\ TurnTo(IF request.target = "none" THEN "model" ELSE "step")
    /\ UNCHANGED <<request, tries, acted, callVars, loopVars, expired>>

-----------------------------------------------------------------------------
(* The step of the plan.                                                    *)

\* Whether the retry loop starts an operation, and lets one go on.
WithinDeadline == ~expired

LiveTools == {"market", "weather"}

\* A live tool leaves evidence when it succeeds in the agreed shape, and evidence of
\* the gap when it fails.
EvidenceOf(ok) ==
    IF request.target \notin LiveTools THEN {evidence}
    ELSE IF ok THEN {evidence, evidence \cup {"live"}}
    ELSE {evidence \cup {"gap"}}

StepActs ==
    /\ stage = "step" /\ WithinDeadline /\ ~acted
    /\ acted' = TRUE
    /\ performed' = performed + 1
    /\ UNCHANGED <<request, stage, tries, action, evidence, loopVars, endVars, expired>>

StepSucceeds ==
    /\ stage = "step" /\ WithinDeadline /\ acted
    /\ action' = "succeeded"
    /\ evidence' \in EvidenceOf(TRUE)
    /\ FreshOperation
    /\ TurnTo("model")
    /\ UNCHANGED <<request, performed, loopVars, expired>>

\* Faulty variant of CountTry: the retry loop does not count.
CountNoTry == acted' = FALSE /\ UNCHANGED tries

CountTry == acted' = FALSE /\ tries' = tries + 1

\* Before or after it had its effect.
StepRaises ==
    /\ stage = "step" /\ WithinDeadline /\ tries < MaximumRetries
    /\ CountTry
    /\ UNCHANGED <<request, stage, callVars, loopVars, endVars, expired>>

\* The failed action is part of the context the model gets.
StepDegrades ==
    /\ stage = "step" /\ WithinDeadline /\ tries = MaximumRetries
    /\ action' = "failed"
    /\ evidence' \in EvidenceOf(FALSE)
    /\ FreshOperation
    /\ TurnTo("model")
    /\ UNCHANGED <<request, performed, loopVars, expired>>

-----------------------------------------------------------------------------
(* The model and its native tool calls.                                     *)

ModelAnswers ==
    /\ stage = "model" /\ WithinDeadline
    /\ answer' \in Texts
    /\ recorded' = executions
    /\ stage' = "assemble"
    /\ UNCHANGED <<request, tries, acted, callVars, loopVars, kept, outcome, expired>>

ModelCalls ==
    /\ stage = "model" /\ request.native /\ WithinDeadline
    /\ \E n \in 1 .. MaxCalls : pending' \in [1 .. n -> Calls]
    /\ round' = round + 1
    /\ TurnTo("calls")
    /\ UNCHANGED <<request, tries, acted, callVars, executions, invoked, expired>>

\* Faulty variant of Authorized: any confirmation lets a destructive call through.
AuthorizedOnce(c) ==
    c.action \in {"write", "destructive"} => c.id \in ApprovedCalls

Authorized(c) ==
    /\ c.action \in {"write", "destructive"} => c.id \in ApprovedCalls
    /\ c.action = "destructive" => c.id \in GuardedCalls

HandlesCall == stage = "calls" /\ WithinDeadline /\ pending # <<>>

CallEnds(status) ==
    /\ executions' = Append(executions, [call |-> Head(pending), status |-> status])
    /\ pending' = Tail(pending)

DenyCall ==
    /\ HandlesCall /\ Head(pending).action # "unknown"
    /\ ~Authorized(Head(pending))
    /\ CallEnds("authorization_denied")
    /\ UNCHANGED <<request, stage, tries, acted, callVars, round, invoked, endVars, expired>>

InvokeHandler ==
    /\ HandlesCall /\ Head(pending).action # "unknown"
    /\ Authorized(Head(pending)) /\ ~acted
    /\ acted' = TRUE
    /\ invoked' = [invoked EXCEPT ![Head(pending)] = @ + 1]
    /\ UNCHANGED <<request, stage, tries, callVars, round, pending, executions, endVars, expired>>

\* The handler returns, raises, or exceeds the loop's own timeout.
HandlerReturns ==
    /\ HandlesCall /\ acted
    /\ CallEnds("succeeded") \/ CallEnds("provider_error")
    /\ acted' = FALSE
    /\ UNCHANGED <<request, stage, tries, callVars, round, invoked, endVars, expired>>

NextRound ==
    /\ stage = "calls" /\ pending = <<>> /\ round < MaximumRounds
    /\ TurnTo("model")
    /\ UNCHANGED <<request, tries, acted, callVars, loopVars, expired>>

\* The provider raises, the model names an unknown tool or passes invalid arguments,
\* or the calls of the last round are done.
LoopRaises ==
    \/ stage = "model" /\ WithinDeadline
    \/ HandlesCall /\ Head(pending).action = "unknown"
    \/ stage = "calls" /\ pending = <<>> /\ round = MaximumRounds

\* The loop starts over; what its calls did and their executions are forgotten.
Retry ==
    /\ LoopRaises /\ tries < MaximumRetries
    /\ CountTry
    /\ round' = 0 /\ pending' = <<>> /\ executions' = <<>>
    /\ TurnTo("model")
    /\ UNCHANGED <<request, callVars, invoked, expired>>

Exhausted ==
    /\ LoopRaises /\ tries = MaximumRetries
    /\ Throw("exhausted")
    /\ UNCHANGED <<request, tries, acted, callVars, loopVars, expired>>

\* An operation that times out by itself, the model under the loop's limit for one, is
\* not retried.
OperationTooSlow ==
    /\ stage \in {"step", "model"} /\ WithinDeadline
    /\ Throw("timeout")
    /\ UNCHANGED <<request, tries, acted, callVars, loopVars, expired>>

-----------------------------------------------------------------------------
(* The deadline, cancellation and crashes.                                  *)

DeadlinePasses ==
    /\ request.deadline /\ outcome = "running" /\ ~expired
    /\ expired' = TRUE
    /\ UNCHANGED <<request, stage, tries, acted, callVars, loopVars, endVars>>

\* wait_for cancels the operation under way, or the retry loop starts none.
CutOff ==
    /\ stage \in {"step", "model", "calls"} /\ expired
    /\ Throw("timeout")
    /\ UNCHANGED <<request, tries, acted, callVars, loopVars, expired>>

\* The task is cancelled, or a database statement fails.
Interrupted ==
    /\ outcome = "running"
    /\ Throw("failed")
    /\ UNCHANGED <<request, tries, acted, callVars, loopVars, expired>>

ProcessDies ==
    /\ outcome = "running"
    /\ outcome' = "died" /\ stage' = "done"
    /\ UNCHANGED <<request, tries, acted, callVars, loopVars, recorded, kept, answer, expired>>

-----------------------------------------------------------------------------
(* Validation, budget and commit.                                           *)

Accepted(t, mode) ==
    /\ t.kind \notin {"malformed", "action_claim"}
    /\ t.kind = "state_claim" /\ mode # "conversation" => t.cites \cap evidence # {}

Validated(t, mode) == IF Accepted(t, mode) THEN t ELSE FallbackText

\* A market request gets a text of its own: the quote with its evidence, or, without
\* one, that the price is unavailable.
MarketTexts ==
    {FallbackText} \cup
    {[kind |-> "state_claim", cites |-> {"live"}] : q \in {action} \cap {"succeeded"}}

Responses ==
    IF request.target = "market" THEN {Validated(t, "market") : t \in MarketTexts}
    ELSE {Validated(answer, request.mode)}

OverBudget ==
    /\ stage = "assemble"
    /\ Throw("over_budget")
    /\ UNCHANGED <<request, tries, acted, callVars, loopVars, expired>>

Answer ==
    /\ stage = "assemble"
    /\ answer' \in Responses
    /\ kept' = recorded
    /\ outcome' = "answered" /\ stage' = "done"
    /\ UNCHANGED <<request, tries, acted, callVars, loopVars, recorded, expired>>

PipelineStep ==
    \/ NoRoute \/ RequireApproval \/ Planned
    \/ StepActs \/ StepSucceeds \/ StepRaises \/ StepDegrades
    \/ ModelAnswers \/ ModelCalls \/ DenyCall \/ InvokeHandler \/ HandlerReturns
    \/ NextRound \/ Retry \/ Exhausted \/ OperationTooSlow
    \/ CutOff \/ OverBudget \/ Answer

OrchestrationNext == Execute \/ PipelineStep \/ DeadlinePasses \/ Interrupted \/ ProcessDies

\* Every awaited operation comes back, raises or is cut off by its deadline or by the
\* timeout of its client.
OrchestrationFairness == WF_pipelineVars(PipelineStep)

OrchestrationSpec ==
    OrchestrationInit /\ [][OrchestrationNext]_pipelineVars /\ OrchestrationFairness

-----------------------------------------------------------------------------
(* Properties.                                                              *)

\* Only a confirmed write and a confirmed and guarded destructive call reach their
\* handler, whatever calls the model makes, and nothing does in a gated plan.
CallsWereConfirmed ==
    /\ \A c \in Calls : invoked[c] > 0 =>
          \/ c.action \in {"read", "draft"}
          \/ c.action = "write" /\ c.id \in ApprovedCalls
          \/ c.action = "destructive" /\ c.id \in ApprovedCalls \cap GuardedCalls
    /\ request.gated => performed = 0 /\ \A c \in Calls : invoked[c] = 0

Total == SumFunctionOnSet(invoked, Calls)

\* Retries repeat effects, but only so often.
WorkIsBounded ==
    /\ performed <= MaximumRetries + 1
    /\ Total <= (MaximumRetries + 1) * MaximumRounds * MaxCalls

Done(log, c) ==
    Cardinality({i \in 1 .. Len(log) : log[i].call = c /\ log[i].status # "authorization_denied"})

\* The rows committed with an answer are the executions of the loop that answered:
\* all calls that were made if there was no retry, and never a call that was not.
RowsTellCalls ==
    /\ \A c \in Calls : Done(kept, c) <= invoked[c]
    /\ outcome = "answered" => kept = executions
    /\ outcome = "answered" /\ tries = 0 =>
          \A c \in Calls : Done(kept, c) = invoked[c]

\* A statement about the state of the system that is answered cites evidence of this
\* request, and live evidence is there only when the live tool succeeded.
AnswerIsBacked ==
    /\ "live" \in evidence => action = "succeeded" /\ performed > 0
    /\ "gap" \in evidence => action = "failed"
    /\ outcome = "answered" =>
          /\ answer.kind \notin {"malformed", "action_claim"}
          /\ answer.kind = "state_claim" =>
                \/ request.mode = "conversation" /\ request.target # "market"
                \/ answer.cites \cap evidence # {}

\* The pipeline keeps its promises whatever the model answers, the tools do and the
\* clock says (OrchestrationPipeline.execute, NativeToolLoop.complete).
OrchestrationSafe ==
    /\ OrchestrationTypeOK
    /\ CallsWereConfirmed
    /\ WorkIsBounded
    /\ RowsTellCalls
    /\ AnswerIsBacked

\* Retries, rounds and degradation come to an end: every request is answered, refused
\* or fails (OrchestrationFallback.retry, NativeToolLoop.complete).
EveryRequestEnds == outcome = "running" ~> outcome # "running"
=============================================================================

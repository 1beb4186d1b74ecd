------------------------------- MODULE MCCalls -------------------------------
(* Four ways a call into the system is carried out, each on its own: nothing *)
(* they keep is shared, so a behaviour belongs to the part chosen in Init.   *)
EXTENDS JobRuns, Orchestration, TelegramUpdates, MarketQuotes

CONSTANTS c1, c2

VARIABLE part

callsVars == <<part, jobVars, pipelineVars, telegramVars, marketVars>>

\* Approvals of one and of two stages, a dry run, a refusal, each with a target.
Approval(stages) ==
    [policy |-> "multi_stage", approved |-> TRUE, signed |-> TRUE, stages |-> stages]
JobRequest(policy, grant, permitted, target, dryRun, c) ==
    [policy |-> policy, grant |-> grant, permitted |-> permitted, target |-> target,
     dryRun |-> dryRun, correlation |-> c]
JobRequests ==
    { JobRequest("none", NoGrant, TRUE, "integration", FALSE, c1),
      JobRequest("none", NoGrant, FALSE, "agent", FALSE, c1),
      JobRequest("none", NoGrant, TRUE, "integration", TRUE, c1),
      JobRequest("multi_stage", Approval(1), TRUE, "agent", FALSE, c1),
      JobRequest("multi_stage", Approval(2), TRUE, "agent", FALSE, c2) }

\* The two live tools, and gated plans with and without native tools.
Plan(target, native, gated, deadline, mode) ==
    [target |-> target, gated |-> gated, native |-> native, deadline |-> deadline,
     evidence |-> FALSE, mode |-> mode]
SomePlans ==
    { Plan("market", FALSE, FALSE, TRUE, "market"),
      Plan("weather", FALSE, FALSE, TRUE, "conversation"),
      Plan("integration", TRUE, FALSE, TRUE, "evidence_backed"),
      Plan("background", TRUE, TRUE, FALSE, "conversation"),
      Plan("none", TRUE, FALSE, FALSE, "evidence_backed") }

SomeCalls ==
    { [id |-> "a", action |-> "write"], [id |-> "b", action |-> "destructive"],
      [id |-> "a", action |-> "unknown"], [id |-> "a", action |-> "destructive"] }

\* One update, and the same update with another chat.
SomeEnvelopes == {[update |-> 1, sender |-> "s1", chat |-> c] : c \in {"chat1", "chat2"}}

\* A provider in scope, one that is not, and one without a key.
Provider(realTime, key) == [display |-> TRUE, realTime |-> realTime, key |-> key]
SomeProviders == <<Provider(TRUE, TRUE), Provider(FALSE, TRUE), Provider(TRUE, FALSE)>>

CallsInit ==
    /\ part \in {"jobs", "orchestration", "telegram", "market"}
    /\ JobsInit
    /\ OrchestrationInit
    /\ part # "orchestration" => request = Plan("none", TRUE, FALSE, FALSE, "evidence_backed")
    /\ TelegramInit
    /\ MarketInit
    /\ part # "market" => ~member

CallsNext ==
    /\ UNCHANGED part
    /\ \/ /\ part = "jobs" /\ JobsNext
          /\ UNCHANGED <<pipelineVars, telegramVars, marketVars>>
       \/ /\ part = "orchestration" /\ OrchestrationNext
          /\ UNCHANGED <<jobVars, telegramVars, marketVars>>
       \/ /\ part = "telegram" /\ TelegramNext
          /\ UNCHANGED <<jobVars, pipelineVars, marketVars>>
       \/ /\ part = "market" /\ MarketNext
          /\ UNCHANGED <<jobVars, pipelineVars, telegramVars>>

CallsSpec ==
    /\ CallsInit /\ [][CallsNext]_callsVars
    /\ OrchestrationFairness
    /\ TelegramFairness
=============================================================================

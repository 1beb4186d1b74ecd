---------------------------- MODULE CallsProofs ----------------------------
(***************************************************************************)
(* Proofs about the ways a call enters the system and is carried out: a    *)
(* voice session, for any number of transcripts, interrupts and cancels, a *)
(* background job, for any number of executions and attempts, a request    *)
(* in the orchestration pipeline, for any number of retries, rounds and    *)
(* calls, a Telegram update, for any number of deliveries and users, and a *)
(* market quote, for any number of providers and instruments.              *)
(***************************************************************************)
EXTENDS VoiceSessions, MCCalls, FiniteSums, SequenceTheorems

-----------------------------------------------------------------------------
(* Voice sessions: plans and transitions.                                   *)

VoicePlans ==
    { <<"cancelled">>, <<"interrupted">>, <<"completed">>, <<"error">>, <<"thinking">>,
      <<"awaiting_approval">>, <<"speaking", "interrupted">>, <<"speaking", "completed">>,
      <<"tool_execution", "speaking", "completed">> }

\* Every plan is a sequence of states, and its tail a plan unless it is empty.
LEMMA PlanSteps ==
    /\ Head(<<"cancelled">>) = "cancelled" /\ Tail(<<"cancelled">>) = <<>>
    /\ Head(<<"interrupted">>) = "interrupted" /\ Tail(<<"interrupted">>) = <<>>
    /\ Head(<<"completed">>) = "completed" /\ Tail(<<"completed">>) = <<>>
    /\ Head(<<"error">>) = "error" /\ Tail(<<"error">>) = <<>>
    /\ Head(<<"thinking">>) = "thinking" /\ Tail(<<"thinking">>) = <<>>
    /\ Head(<<"awaiting_approval">>) = "awaiting_approval"
    /\ Tail(<<"awaiting_approval">>) = <<>>
    /\ Head(<<"speaking", "interrupted">>) = "speaking"
    /\ Tail(<<"speaking", "interrupted">>) = <<"interrupted">>
    /\ Head(<<"speaking", "completed">>) = "speaking"
    /\ Tail(<<"speaking", "completed">>) = <<"completed">>
    /\ Head(<<"tool_execution", "speaking", "completed">>) = "tool_execution"
    /\ Tail(<<"tool_execution", "speaking", "completed">>) = <<"speaking", "completed">>
  BY SMT

LEMMA PlanLengths ==
    /\ Len(<<"speaking", "interrupted">>) = 2 /\ Len(<<"speaking", "completed">>) = 2
    /\ Len(<<"tool_execution", "speaking", "completed">>) = 3
    /\ Len(<<"cancelled">>) = 1 /\ Len(<<"interrupted">>) = 1 /\ Len(<<"completed">>) = 1
    /\ Len(<<"error">>) = 1 /\ Len(<<"thinking">>) = 1 /\ Len(<<"awaiting_approval">>) = 1
  BY SMT

LEMMA PlansAreSequences == VoicePlans \subseteq Seq(VoiceState) /\ <<>> \in Seq(VoiceState)
  BY SMT DEF VoicePlans, VoiceState

LEMMA PlansDiffer ==
    /\ \A p \in VoicePlans : p # <<>>
    /\ <<"speaking", "interrupted">> # <<"speaking", "completed">>
    /\ <<"interrupted">> # <<"completed">>
  BY SMT DEF VoicePlans

\* What the table says of the moves the plans make.
LEMMA LegalMoves ==
    /\ \A s \in AtWork : Legal(s, "error")
    /\ \A s \in VoiceState \ {"cancelled"} : Legal(s, "cancelled")
    /\ \A s \in ReadyStates : Legal(s, "processing")
    /\ \A s \in {"processing", "thinking", "tool_execution"} : Legal(s, "speaking")
    /\ Legal("processing", "thinking")
    /\ Legal("thinking", "tool_execution") /\ Legal("thinking", "awaiting_approval")
    /\ Legal("speaking", "interrupted") /\ Legal("speaking", "completed")
  BY DEF Legal, LEGAL_TRANSITIONS, AtWork, VoiceState, ReadyStates

LEMMA IllegalMoves ==
    \A s \in VoiceState : ~Legal(s, "error") => s \in {"completed", "interrupted", "cancelled"}
  BY DEF Legal, LEGAL_TRANSITIONS, VoiceState

-----------------------------------------------------------------------------
(* Type correctness, and what each kind of request has before it. *)

Shape == TypeOK /\ PlanInv

LEMMA ShapeInit == Init => Shape
  BY VoiceAssumption, PlansAreSequences
  DEF Init, Shape, TypeOK, PlanInv, Fresh, VoiceState, Phase, Mode, Requests

\* The plan of a request that is about to check or write, and its kind.
LEMMA KnownPlan ==
  ASSUME Shape, NEW r \in Requests, phase[r] \in {"check", "write"}
  PROVE  /\ plan[r] \in VoicePlans
         /\ \/ mode[r] = "route" /\ plan[r] \in {<<"cancelled">>, <<"interrupted">>}
            \/ /\ mode[r] = "command"
               /\ plan[r] \in { <<"cancelled">>, <<"speaking", "interrupted">>,
                                <<"interrupted">>, <<"speaking", "completed">>,
                                <<"completed">> }
            \/ /\ mode[r] = "orchestration"
               /\ plan[r] \in { <<"thinking">>, <<"tool_execution", "speaking", "completed">>,
                                <<"awaiting_approval">>, <<"speaking", "completed">>,
                                <<"completed">> }
            \/ mode[r] = "failure" /\ plan[r] = <<"error">>
<1>1. mode[r] \in Mode /\ plan[r] \in PlansOf[mode[r]] /\ plan[r] # <<>>
  BY DEF Shape, TypeOK, PlanInv
<1>2. CASE mode[r] = "none"
  BY <1>1, <1>2 DEF PlansOf
<1>3. CASE mode[r] = "route"
  BY <1>1, <1>3 DEF PlansOf, VoicePlans
<1>4. CASE mode[r] = "command"
  BY <1>1, <1>4 DEF PlansOf, VoicePlans
<1>5. CASE mode[r] = "orchestration"
  BY <1>1, <1>5 DEF PlansOf, VoicePlans, Outcomes
<1>6. CASE mode[r] = "failure"
  BY <1>1, <1>6 DEF PlansOf, VoicePlans
<1> QED BY <1>1, <1>2, <1>3, <1>4, <1>5, <1>6 DEF Mode

\* A request may be given any plan of its kind.
LEMMA FittingPlans ==
  /\ {<<"cancelled">>, <<"interrupted">>} \subseteq PlansOf["route"] \ {<<>>}
  /\ { <<"cancelled">>, <<"speaking", "interrupted">>, <<"interrupted">>,
       <<"speaking", "completed">>, <<"completed">> } \subseteq PlansOf["command"] \ {<<>>}
  /\ { <<"thinking">>, <<"speaking", "completed">>, <<"completed">> } \cup Outcomes
        \subseteq PlansOf["orchestration"] \ {<<>>}
  /\ <<"error">> \in PlansOf["failure"] \ {<<>>}
  BY PlansDiffer DEF PlansOf, VoicePlans, Outcomes

\* What a write leaves, by the plan it began with.
Leaves(r, q, s, p, next) ==
    plan[r] = q /\ Head(plan[r]) = s /\ state' = s /\ phase'[r] = p /\ plan'[r] = next

LEMMA WriteOutcome ==
  ASSUME Shape, NEW r \in Requests, Write(r)
  PROVE
    \/ Leaves(r, <<"cancelled">>, "cancelled", "done", <<>>)
    \/ Leaves(r, <<"interrupted">>, "interrupted", "done", <<>>)
    \/ Leaves(r, <<"completed">>, "completed", "done", <<>>)
    \/ Leaves(r, <<"error">>, "error", "done", <<>>)
    \/ Leaves(r, <<"thinking">>, "thinking", "calling", <<>>)
    \/ Leaves(r, <<"awaiting_approval">>, "awaiting_approval", "done", <<>>)
    \/ Leaves(r, <<"speaking", "interrupted">>, "speaking", "check", <<"interrupted">>)
    \/ Leaves(r, <<"speaking", "completed">>, "speaking", "check", <<"completed">>)
    \/ Leaves(r, <<"tool_execution", "speaking", "completed">>, "tool_execution", "check", <<"speaking", "completed">>)
<1>1. /\ plan[r] \in VoicePlans
      /\ state' = Head(plan[r])
      /\ plan'[r] = Tail(plan[r])
      /\ phase'[r] = IF Len(plan[r]) > 1 THEN "check"
                     ELSE IF Head(plan[r]) = "thinking" THEN "calling" ELSE "done"
  BY KnownPlan DEF Write, Shape, TypeOK, Goto, Intend
<1>2. CASE plan[r] = <<"cancelled">>
  BY <1>1, <1>2, PlanSteps, PlanLengths DEF Leaves
<1>3. CASE plan[r] = <<"interrupted">>
  BY <1>1, <1>3, PlanSteps, PlanLengths DEF Leaves
<1>4. CASE plan[r] = <<"completed">>
  BY <1>1, <1>4, PlanSteps, PlanLengths DEF Leaves
<1>5. CASE plan[r] = <<"error">>
  BY <1>1, <1>5, PlanSteps, PlanLengths DEF Leaves
<1>6. CASE plan[r] = <<"thinking">>
  BY <1>1, <1>6, PlanSteps, PlanLengths DEF Leaves
<1>7. CASE plan[r] = <<"awaiting_approval">>
  BY <1>1, <1>7, PlanSteps, PlanLengths DEF Leaves
<1>8. CASE plan[r] = <<"speaking", "interrupted">>
  BY <1>1, <1>8, PlanSteps, PlanLengths DEF Leaves
<1>9. CASE plan[r] = <<"speaking", "completed">>
  BY <1>1, <1>9, PlanSteps, PlanLengths DEF Leaves
<1>10. CASE plan[r] = <<"tool_execution", "speaking", "completed">>
  BY <1>1, <1>10, PlanSteps, PlanLengths DEF Leaves
<1> QED BY <1>1, <1>2, <1>3, <1>4, <1>5, <1>6, <1>7, <1>8, <1>9, <1>10 DEF VoicePlans

\* Where one request is, given that the others stay.
Fits(r, p, m, q) ==
    /\ p \in Phase /\ m \in Mode /\ q \in Seq(VoiceState)
    /\ p \in {"check", "write"} => q \in PlansOf[m] \ {<<>>}
    /\ p \in Fresh => m = "none"
    /\ p = "calling" => m = "orchestration"
    /\ p = "failed" => m = "failure" /\ q = <<"error">>
    /\ m = "route" => r \notin Transcripts
    /\ r \notin Transcripts => p \in {"unsent", "check", "write", "done", "gone"}
    /\ r \notin Transcripts /\ p \in {"check", "write"} => m = "route"

\* One request moves, the others stay.
Moves(r) ==
    /\ phase' = [phase EXCEPT ![r] = phase'[r]]
    /\ mode' = [mode EXCEPT ![r] = mode'[r]]
    /\ plan' = [plan EXCEPT ![r] = plan'[r]]

LEMMA ShapeOfOne ==
  ASSUME Shape, NEW r \in Requests, Moves(r),
         Fits(r, phase'[r], mode'[r], plan'[r]),
         state' \in VoiceState,
         transcript' \in Transcripts \cup {None},
         response' \in Transcripts \cup {None}
  PROVE  Shape'
<1>1. TypeOK'
  BY DEF Shape, TypeOK, Fits, Moves
<1>2. PlanInv'
  BY DEF Shape, TypeOK, PlanInv, Fits, Moves
<1> QED BY <1>1, <1>2 DEF Shape

VoiceStep(r) == Submit(r) \/ Call(r) \/ Proceed(r) \/ Return(r) \/ Raise(r) \/ Vanish(r)

LEMMA StepMovesOne ==
  ASSUME Shape, NEW r \in Requests, VoiceStep(r)
  PROVE  Moves(r)
<1> USE DEF Goto, As, Intend, row, Moves
<1>0. /\ phase \in [Requests -> Phase] /\ mode \in [Requests -> Mode]
      /\ plan \in [Requests -> Seq(VoiceState)]
  BY DEF Shape, TypeOK
<1>1. CASE Submit(r) \/ Read(r) \/ Recover(r) \/ Reread(r) \/ Claim(r) \/ Inspect(r) \/ Vanish(r)
  BY <1>0, <1>1 DEF Submit, Read, Recover, Reread, Claim, Inspect, Vanish
<1>2. CASE Call(r)
  BY <1>0, <1>2 DEF Call, AskCancel
<1>3. CASE Dispatch(r)
  BY <1>0, <1>3 DEF Dispatch, AskCancel, Fail
<1>4. CASE Accept(r) \/ Write(r) \/ Return(r)
  BY <1>0, <1>4 DEF Accept, Write, Return
<1>5. CASE Reject(r) \/ Raise(r) \/ Deadline(r)
  BY <1>0, <1>5 DEF Reject, Raise, Deadline, Fail
<1> QED BY <1>1, <1>2, <1>3, <1>4, <1>5 DEF VoiceStep, Proceed

LEMMA ShapeStep ==
  ASSUME Shape, NEW r \in Requests, VoiceStep(r)
  PROVE  Shape'
<1> USE DEF Goto, As, Intend, row
<1>0. /\ phase \in [Requests -> Phase] /\ mode \in [Requests -> Mode]
      /\ plan \in [Requests -> Seq(VoiceState)]
      /\ state \in VoiceState /\ transcript \in Transcripts \cup {None}
      /\ response \in Transcripts \cup {None}
      /\ Fits(r, phase[r], mode[r], plan[r])
  BY DEF Shape, TypeOK, PlanInv, Fits
<1> USE DEF Fresh
<1> SUFFICES /\ Fits(r, phase'[r], mode'[r], plan'[r])
             /\ state' \in VoiceState
             /\ transcript' \in Transcripts \cup {None}
             /\ response' \in Transcripts \cup {None}
  BY ShapeOfOne, StepMovesOne
<1>1. CASE Submit(r)
  BY <1>0, <1>1 DEF Submit, Fits, Phase
<1>2. CASE Call(r)
  <2>1. r \notin Transcripts
    BY <1>2, VoiceAssumption DEF Call
  <2>2. \A q \in {<<"cancelled">>, <<"interrupted">>} : Fits(r, "check", "route", q)
    BY <2>1, <1>0, PlansAreSequences, FittingPlans DEF Fits, Phase, Mode, VoicePlans
  <2>3. Fits(r, "done", "route", plan[r])
    BY <2>1, <1>0 DEF Fits, Phase, Mode
  <2> QED BY <2>2, <2>3, <1>0, <1>2 DEF Call, AskCancel
<1>3. CASE Read(r) \/ Recover(r) \/ Reread(r)
  BY <1>0, <1>3 DEF Read, Recover, Reread, Fits, Phase, VoiceState
<1>4. CASE Claim(r)
  BY <1>0, <1>4 DEF Claim, Fits, Phase, VoiceState
<1>5. CASE Dispatch(r)
  <2>1. r \in Transcripts /\ mode[r] = "none"
    BY <1>0, <1>5 DEF Dispatch, Fits
  <2>2. \A q \in {<<"cancelled">>, <<"speaking", "interrupted">>, <<"speaking", "completed">>} :
            Fits(r, "check", "command", q)
    BY <2>1, <1>0, PlansAreSequences, FittingPlans DEF Fits, Phase, Mode, VoicePlans
  <2>3. Fits(r, "done", "command", plan[r])
    BY <2>1, <1>0 DEF Fits, Phase, Mode
  <2>4. Fits(r, "check", "orchestration", <<"thinking">>)
    BY <2>1, <1>0, PlansAreSequences, FittingPlans DEF Fits, Phase, Mode, VoicePlans
  <2>5. Fits(r, "failed", "failure", <<"error">>)
    BY <2>1, <1>0, PlansAreSequences DEF Fits, Phase, Mode, VoicePlans
  <2>6. /\ UNCHANGED row
        /\ \/ phase'[r] = "done" /\ mode'[r] = "command" /\ plan'[r] = plan[r]
           \/ phase'[r] = "check" /\ mode'[r] = "command" /\ plan'[r] = <<"cancelled">>
           \/ phase'[r] = "check" /\ mode'[r] = "command" /\ plan'[r] = <<"speaking", "interrupted">>
           \/ phase'[r] = "check" /\ mode'[r] = "command" /\ plan'[r] = <<"speaking", "completed">>
           \/ phase'[r] = "check" /\ mode'[r] = "orchestration" /\ plan'[r] = <<"thinking">>
           \/ phase'[r] = "failed" /\ mode'[r] = "failure" /\ plan'[r] = <<"error">>
    BY <1>0, <1>5, SMTT(30) DEF Dispatch, AskCancel, Fail
  <2> QED BY <2>2, <2>3, <2>4, <2>5, <2>6, <1>0
<1>6. CASE Accept(r)
  BY <1>0, <1>6 DEF Accept, Fits, Phase
<1>7. CASE Reject(r) \/ Raise(r) \/ Deadline(r)
  <2>1. CASE mode[r] = "route"
    <3>1. phase'[r] = "done" /\ mode' = mode /\ plan' = plan /\ UNCHANGED row
      BY <2>1, <1>0, <1>7 DEF Reject, Raise, Deadline, Timed, Fits
    <3> QED BY <3>1, <1>0 DEF Fits, Phase
  <2>2. CASE mode[r] # "route"
    <3>1. phase[r] \in {"check", "calling"} \/ Serving(r)
      BY <1>7 DEF Reject, Raise, Deadline, Timed
    <3>2. r \in Transcripts
      BY <2>2, <3>1, <1>0 DEF Fits, Serving
    <3>3. Fits(r, "failed", "failure", <<"error">>)
      BY <3>2, <1>0, PlansAreSequences DEF Fits, Phase, Mode, VoicePlans
    <3>4. Fits(r, "done", mode[r], plan[r])
      BY <2>2, <1>0 DEF Fits, Phase
    <3> QED BY <3>3, <3>4, <1>0, <1>7 DEF Reject, Raise, Deadline, Fail
  <2> QED BY <2>1, <2>2
<1>8. CASE Inspect(r)
  <2>1. mode[r] = "failure" /\ plan[r] = <<"error">> /\ r \in Transcripts
    BY <1>0, <1>8 DEF Inspect, Fits
  <2>2. Fits(r, "done", mode[r], plan[r]) /\ Fits(r, "check", mode[r], plan[r])
    BY <2>1, <1>0, FittingPlans DEF Fits, Phase
  <2> QED BY <2>2, <1>0, <1>8 DEF Inspect
<1>9. CASE Return(r)
  <2>1. mode[r] = "orchestration" /\ r \in Transcripts
    BY <1>0, <1>9 DEF Return, Fits
  <2>2. \A q \in Outcomes : Fits(r, "check", mode[r], q)
    BY <2>1, <1>0, PlansAreSequences, FittingPlans DEF Fits, Phase, VoicePlans, Outcomes
  <2> QED BY <2>2, <1>0, <1>9 DEF Return
<1>10. CASE Vanish(r)
  BY <1>0, <1>10 DEF Vanish, Fits, Phase
<1>11. CASE Write(r)
  <2>1. phase[r] = "write" /\ state' = Head(plan[r]) /\ mode' = mode /\ transcript' = transcript
    BY <1>11 DEF Write
  <2>2. plan'[r] = Tail(plan[r])
    BY <1>0, <1>11 DEF Write
  <2>3. plan[r] \in VoicePlans
    BY <2>1, KnownPlan
  <2>4. state' \in VoiceState
    BY <2>1, <2>3, PlanSteps DEF VoicePlans, VoiceState
  <2>5. response' \in Transcripts \cup {None}
    BY <1>0, <1>11, KnownPlan DEF Write, Fits
  <2>6. Fits(r, phase'[r], mode'[r], plan'[r])
    <3>1. CASE mode[r] = "route"
      <4>1. plan'[r] = <<>> /\ phase'[r] = "done"
        BY <3>1, <2>1, <1>11, KnownPlan, WriteOutcome, PlanSteps, PlansDiffer DEF Leaves
      <4> QED BY <4>1, <2>1, <1>0, PlansAreSequences DEF Fits, Phase
    <3>2. CASE mode[r] = "failure"
      <4>1. plan'[r] = <<>> /\ phase'[r] = "done"
        BY <3>2, <2>1, <1>11, KnownPlan, WriteOutcome, PlanSteps, PlansDiffer DEF Leaves
      <4> QED BY <4>1, <2>1, <1>0, PlansAreSequences DEF Fits, Phase
    <3>3. CASE mode[r] = "command"
      <4>1. \/ plan'[r] = <<>> /\ phase'[r] = "done"
            \/ plan'[r] \in {<<"interrupted">>, <<"completed">>} /\ phase'[r] = "check"
        BY <3>3, <2>1, <1>11, KnownPlan, WriteOutcome, PlanSteps, PlansDiffer DEF Leaves
      <4> QED BY <4>1, <3>3, <2>1, <1>0, PlansAreSequences, FittingPlans
              DEF Fits, Phase, VoicePlans
    <3>4. CASE mode[r] = "orchestration"
      <4>1. \/ plan'[r] = <<>> /\ phase'[r] \in {"calling", "done"}
            \/ /\ plan'[r] \in {<<"speaking", "completed">>, <<"completed">>}
               /\ phase'[r] = "check"
        BY <3>4, <2>1, <1>11, KnownPlan, WriteOutcome, PlanSteps, PlansDiffer DEF Leaves
      <4>2. r \in Transcripts
        BY <3>4, <2>1, <1>0 DEF Fits
      <4> QED BY <4>1, <4>2, <3>4, <2>1, <1>0, PlansAreSequences, FittingPlans
              DEF Fits, Phase, VoicePlans
    <3> QED BY <3>1, <3>2, <3>3, <3>4, <2>1, KnownPlan
  <2> QED BY <2>1, <2>4, <2>5, <2>6, <1>0
<1> QED BY <1>1, <1>2, <1>3, <1>4, <1>5, <1>6, <1>7, <1>8, <1>9, <1>10, <1>11 DEF VoiceStep, Proceed

-----------------------------------------------------------------------------
(* A session at work has a transcript that works on it. *)

LEMMA WorkStep ==
  ASSUME Shape, WorkInv, NEW r \in Requests, VoiceStep(r)
  PROVE  WorkInv'
<1> USE DEF Goto, As, Intend, row
<1>0. /\ phase \in [Requests -> Phase] /\ state \in VoiceState
      /\ Fits(r, phase[r], mode[r], plan[r]) /\ Moves(r)
  BY StepMovesOne DEF Shape, TypeOK, PlanInv, Fits
\* The worker the session had is still there, unless it is the one that moves.
<1>1. ASSUME state \in AtWork,
             \/ phase'[r] = "gone"
             \/ r \in Transcripts /\ Serving(r)'
             \/ r \notin Transcripts /\ phase[r] # "gone"
             \/ phase[r] # "gone" /\ ~Serving(r)
      PROVE  WorkInv'
  BY <1>0, <1>1 DEF WorkInv, Moves, Serving
<1>2. ASSUME phase'[r] = "gone" \/ (r \in Transcripts /\ Serving(r)')
      PROVE  WorkInv'
  BY <1>2 DEF WorkInv
<1>3. ASSUME state' \notin AtWork
      PROVE  WorkInv'
  BY <1>3 DEF WorkInv
<1>4. CASE Submit(r) \/ Call(r) \/ Read(r) \/ Reread(r)
  <2>1. state' = state /\ phase[r] # "gone" /\ ~Serving(r)
    BY <1>4 DEF Submit, Call, Read, Reread, Serving
  <2> QED BY <2>1, <1>1, <1>3
<1>5. CASE Recover(r)
  <2>1. phase[r] # "gone" /\ ~Serving(r)
    BY <1>5 DEF Recover, Serving
  <2>2. state' = state \/ state' \notin AtWork
    BY <1>5 DEF Recover, AtWork
  <2> QED BY <2>1, <2>2, <1>1, <1>3
<1>6. CASE Claim(r)
  <2>1. CASE state \in ReadyStates
    <3>1. phase'[r] = "claimed" /\ r \in Transcripts
      BY <2>1, <1>0, <1>6 DEF Claim, Fits
    <3> QED BY <3>1, <1>2 DEF Serving
  <2>2. CASE state \notin ReadyStates
    <3>1. state' = state /\ phase[r] # "gone" /\ ~Serving(r)
      BY <2>2, <1>6 DEF Claim, Serving
    <3> QED BY <3>1, <1>1, <1>3
  <2> QED BY <2>1, <2>2
<1>7. CASE Dispatch(r)
  <2>1. r \in Transcripts /\ state' = state
    BY <1>0, <1>7 DEF Dispatch, Fits
  <2>2. state = "cancelled" \/ phase'[r] \in {"check", "failed"}
    BY <1>0, <1>7 DEF Dispatch, AskCancel, Fail
  <2> QED BY <2>1, <2>2, <1>2, <1>3 DEF Serving, AtWork
<1>8. CASE Accept(r)
  <2>1. state' = state /\ phase[r] = "check" /\ phase'[r] = "write"
    BY <1>0, <1>8 DEF Accept
  <2> QED BY <2>1, <1>1, <1>2, <1>3 DEF Serving
<1>9. CASE Reject(r)
  <2>1. state' = state /\ phase[r] = "check"
    BY <1>9 DEF Reject
  <2>2. CASE r \notin Transcripts
    BY <2>1, <2>2, <1>1, <1>3
  <2>3. CASE r \in Transcripts /\ mode[r] # "failure"
    <3>1. phase'[r] = "failed"
      BY <2>3, <1>0, <1>9 DEF Reject, Fail, Fits
    <3> QED BY <3>1, <2>3, <1>2 DEF Serving
  <2>4. CASE mode[r] = "failure"
    <3>1. plan[r] = <<"error">>
      BY <2>1, <2>4, KnownPlan
    <3>2. ~Legal(state, "error")
      BY <3>1, <1>9, PlanSteps DEF Reject
    <3> QED BY <3>2, <2>1, <1>0, <1>3, IllegalMoves DEF AtWork
  <2> QED BY <2>2, <2>3, <2>4
<1>10. CASE Write(r)
  <2>1. phase[r] = "write"
    BY <1>10 DEF Write
  <2>2. CASE state' \in AtWork
    <3>1. phase'[r] \in {"check", "calling"}
      BY <2>2, <1>10, WriteOutcome DEF Leaves, AtWork
    <3>2. r \in Transcripts
      BY <3>1, <2>1, <2>2, <1>0, <1>10, WriteOutcome, KnownPlan, PlanSteps
      DEF Leaves, AtWork, Fits
    <3> QED BY <3>1, <3>2, <1>2 DEF Serving
  <2> QED BY <2>2, <1>3
<1>11. CASE Return(r) \/ Raise(r) \/ Deadline(r)
  <2>1. r \in Transcripts
    BY <1>0, <1>11 DEF Return, Raise, Deadline, Timed, Serving, Fits
  <2>2. phase'[r] \in {"check", "failed"}
    BY <1>0, <1>11 DEF Return, Raise, Deadline, Fail
  <2> QED BY <2>1, <2>2, <1>2 DEF Serving
<1>12. CASE Inspect(r)
  <2>1. r \in Transcripts /\ state' = state
    BY <1>0, <1>12 DEF Inspect, Fits
  <2>2. phase'[r] = "check" \/ state \in {"error", "cancelled", "completed"}
    BY <1>0, <1>12 DEF Inspect
  <2> QED BY <2>1, <2>2, <1>2, <1>3 DEF Serving, AtWork
<1>13. CASE Vanish(r)
  BY <1>0, <1>13, <1>2 DEF Vanish
<1> QED BY <1>4, <1>5, <1>6, <1>7, <1>8, <1>9, <1>10, <1>11, <1>12, <1>13
        DEF VoiceStep, Proceed

-----------------------------------------------------------------------------
(* Transcripts that have the session to themselves. *)

\* A transcript that is served keeps the others off the row.
LEMMA OwnerKeepsRow ==
  ASSUME Shape, Owned, NEW t \in Transcripts, Serving(t),
         NEW r \in Transcripts, r # t, VoiceStep(r)
  PROVE  UNCHANGED row /\ ~Serving(r) /\ ~Serving(r)'
<1> USE DEF Goto, row
<1>0. /\ phase \in [Requests -> Phase] /\ r \in Requests /\ t \in Requests
      /\ ~Serving(r) /\ state \in AtWork
  BY DEF Shape, TypeOK, Owned, Requests
<1>1. CASE Submit(r) \/ Read(r) \/ Reread(r) \/ Vanish(r)
  BY <1>0, <1>1 DEF Submit, Read, Reread, Vanish, Serving
<1>2. CASE Recover(r)
  <2>1. ~Stale
    <3> SUFFICES ASSUME Stale PROVE FALSE
      OBVIOUS
    <3>1. state = "thinking" /\ mode[t] \notin {"orchestration", "failure"}
      BY <1>0 DEF Stale
    <3>2. phase[t] \in {"check", "write"}
      BY <3>1, <1>0 DEF Owned, Serving, Shape, PlanInv
    <3>3. mode[t] = "command"
      BY <3>1, <3>2, <1>0, KnownPlan DEF Shape, PlanInv
    <3> QED BY <3>1, <3>3 DEF Owned
  <2> QED BY <2>1, <1>0, <1>2 DEF Recover, Serving
<1>3. CASE Claim(r)
  <2>1. state \notin ReadyStates
    BY <1>0 DEF AtWork, ReadyStates
  <2> QED BY <2>1, <1>0, <1>3 DEF Claim, Serving
<1>4. ~(Call(r) \/ Dispatch(r) \/ Accept(r) \/ Reject(r) \/ Write(r) \/ Deadline(r)
        \/ Inspect(r) \/ Return(r) \/ Raise(r))
  BY <1>0, VoiceAssumption
  DEF Call, Dispatch, Accept, Reject, Write, Deadline, Timed, Inspect, Return, Raise, Serving
<1> QED BY <1>1, <1>2, <1>3, <1>4 DEF VoiceStep, Proceed

\* What Owned asks of one transcript.
OwnedBy(r) ==
    /\ transcript = r
    /\ state \in AtWork
    /\ phase[r] = "claimed" => state = "processing"
    /\ phase[r] = "calling" => state = "thinking"
    /\ mode[r] = "command" => state \in {"processing", "speaking"}
    /\ phase[r] \in {"check", "write"} => Legal(state, Head(plan[r]))
    /\ phase[r] \in {"check", "write"} /\ plan[r] = <<"completed">> => response = r

\* A served transcript that moves keeps the session in order or is no longer
\* served.
LEMMA OwnerMoves ==
  ASSUME Shape, NEW r \in Transcripts, Serving(r), OwnedBy(r), VoiceStep(r)
  PROVE  /\ Serving(r)' => OwnedBy(r)'
         /\ Legal(state, state')
         /\ transcript' = r
         /\ state' = "completed" => response' = r
<1> USE DEF Goto, As, Intend, row
<1>0. /\ phase \in [Requests -> Phase] /\ mode \in [Requests -> Mode]
      /\ plan \in [Requests -> Seq(VoiceState)] /\ r \in Requests /\ state \in VoiceState
      /\ Fits(r, phase[r], mode[r], plan[r]) /\ Moves(r)
      /\ transcript = r /\ state \in AtWork
  BY StepMovesOne DEF Shape, TypeOK, PlanInv, Fits, Requests, OwnedBy
<1>1. /\ Legal(state, state) /\ "completed" \notin AtWork
      /\ state \in AtWork => Legal(state, "error")
  BY LegalMoves DEF Legal, AtWork
<1>2. CASE Vanish(r)
  BY <1>0, <1>1, <1>2 DEF Vanish, Serving
<1>3. CASE Dispatch(r)
  <2>1. state = "processing" /\ UNCHANGED row
    BY <1>3 DEF Dispatch, OwnedBy
  <2>2. \/ phase'[r] = "check" /\ plan'[r] = <<"cancelled">>
        \/ phase'[r] = "check" /\ plan'[r] = <<"speaking", "interrupted">>
        \/ phase'[r] = "check" /\ plan'[r] = <<"speaking", "completed">>
        \/ phase'[r] = "check" /\ mode'[r] = "orchestration" /\ plan'[r] = <<"thinking">>
        \/ phase'[r] = "failed" /\ mode'[r] = "failure"
    BY <2>1, <1>0, <1>3, SMTT(30) DEF Dispatch, AskCancel, Fail
  <2>3. phase'[r] \in {"check", "write"} =>
            Legal(state, Head(plan'[r])) /\ plan'[r] # <<"completed">>
    <3>1. /\ Legal("processing", "cancelled") /\ Legal("processing", "speaking")
          /\ Legal("processing", "thinking")
      BY LegalMoves DEF VoiceState
    <3> QED BY <3>1, <2>1, <2>2, PlanSteps
  <2> QED BY <2>1, <2>2, <2>3, <1>0, <1>1 DEF OwnedBy
<1>4. CASE Accept(r)
  <2>1. /\ UNCHANGED row /\ phase[r] = "check" /\ phase'[r] = "write"
        /\ mode' = mode /\ plan' = plan
    BY <1>0, <1>4 DEF Accept
  <2> QED BY <2>1, <1>0, <1>1 DEF OwnedBy
<1>5. CASE Reject(r)
  BY <1>5 DEF Reject, OwnedBy
<1>6. CASE Raise(r) \/ Deadline(r)
  <2>1. UNCHANGED row /\ phase'[r] = "failed" /\ mode'[r] = "failure"
    BY <1>0, <1>6 DEF Raise, Deadline, Fail
  <2> QED BY <2>1, <1>0, <1>1 DEF OwnedBy
<1>7. CASE Return(r)
  <2>1. /\ UNCHANGED row /\ phase'[r] = "check" /\ plan'[r] \in Outcomes
        /\ mode'[r] = "orchestration" /\ state = "thinking"
    BY <1>0, <1>7 DEF Return, OwnedBy, Fits
  <2>2. Legal("thinking", "speaking") /\ Legal("thinking", "tool_execution")
        /\ Legal("thinking", "awaiting_approval")
    BY LegalMoves
  <2>3. Legal(state, Head(plan'[r])) /\ plan'[r] # <<"completed">>
    BY <2>1, <2>2, PlanSteps DEF Outcomes
  <2> QED BY <2>1, <2>3, <1>0, <1>1 DEF OwnedBy
<1>8. CASE Inspect(r)
  <2>1. /\ UNCHANGED row /\ phase'[r] = "check" /\ mode'[r] = "failure"
        /\ plan'[r] = <<"error">>
    BY <1>0, <1>8 DEF Inspect, Fits, AtWork
  <2>2. Legal(state, Head(plan'[r])) /\ plan'[r] # <<"completed">>
    BY <2>1, <1>0, <1>1, PlanSteps
  <2> QED BY <2>1, <2>2, <1>0, <1>1 DEF OwnedBy
<1>9. CASE Write(r)
  <2>1. /\ phase[r] = "write" /\ transcript' = r /\ mode'[r] = mode[r]
        /\ state' = Head(plan[r]) /\ Legal(state, state')
    BY <1>0, <1>9 DEF Write, OwnedBy
  <2>2. plan[r] = <<"completed">> => response' = r
    BY <1>9, PlansDiffer, PlanSteps DEF Write, OwnedBy
  <2>3. plan[r] = <<"speaking", "completed">> => response' = r
    BY <1>9 DEF Write
  <2>4. state' = "completed" => response' = r
    <3>1. state' = "completed" => plan[r] = <<"completed">>
      BY <1>0, <1>9, WriteOutcome DEF Leaves
    <3> QED BY <3>1, <2>2
  <2>5. ASSUME Serving(r)' PROVE OwnedBy(r)'
    <3>1. \/ Leaves(r, <<"thinking">>, "thinking", "calling", <<>>)
          \/ Leaves(r, <<"speaking", "interrupted">>, "speaking", "check", <<"interrupted">>)
          \/ Leaves(r, <<"speaking", "completed">>, "speaking", "check", <<"completed">>)
          \/ Leaves(r, <<"tool_execution", "speaking", "completed">>, "tool_execution", "check",
                    <<"speaking", "completed">>)
      BY <2>5, <1>0, <1>9, WriteOutcome DEF Leaves, Serving
    <3>2. state' \in AtWork
      BY <3>1 DEF Leaves, AtWork
    <3>3. mode'[r] = "command" => state' \in {"processing", "speaking"}
      BY <3>1, <2>1, <1>0, KnownPlan, PlanSteps DEF Leaves
    <3>4. phase'[r] \in {"check", "write"} =>
            /\ Legal(state', Head(plan'[r]))
            /\ plan'[r] = <<"completed">> => response' = r
      BY <3>1, <2>3, LegalMoves, PlanSteps, PlansDiffer DEF Leaves
    <3>5. /\ phase'[r] = "calling" => state' = "thinking"
          /\ phase'[r] # "claimed"
      BY <3>1 DEF Leaves
    <3> QED BY <3>2, <3>3, <3>4, <3>5, <2>1 DEF OwnedBy
  <2> QED BY <2>1, <2>4, <2>5
<1>10. ~(Submit(r) \/ Call(r) \/ Read(r) \/ Recover(r) \/ Reread(r) \/ Claim(r))
  BY <1>0, VoiceAssumption DEF Submit, Call, Read, Recover, Reread, Claim, Serving
<1> QED BY <1>2, <1>3, <1>4, <1>5, <1>6, <1>7, <1>8, <1>9, <1>10 DEF VoiceStep, Proceed

\* A transcript that is not served may claim the session or find it stale.
LEMMA NewOwner ==
  ASSUME Shape, NEW r \in Transcripts, ~Serving(r), VoiceStep(r)
  PROVE  /\ Serving(r)' => OwnedBy(r)'
         /\ Legal(state, state')
         /\ state' = "completed" => UNCHANGED row
<1> USE DEF Goto, As, Intend, row
<1>0. /\ phase \in [Requests -> Phase] /\ mode \in [Requests -> Mode]
      /\ r \in Requests /\ state \in VoiceState /\ Fits(r, phase[r], mode[r], plan[r])
      /\ Legal(state, state)
  BY DEF Shape, TypeOK, PlanInv, Fits, Requests, Legal
<1>1. CASE Submit(r) \/ Read(r) \/ Reread(r) \/ Vanish(r)
  BY <1>0, <1>1 DEF Submit, Read, Reread, Vanish, Serving
<1>2. CASE Recover(r)
  <2>1. Legal("thinking", "error")
    BY LegalMoves DEF AtWork
  <2>2. ~Serving(r)'
    BY <1>0, <1>2 DEF Recover, Serving
  <2> QED BY <2>1, <2>2, <1>0, <1>2 DEF Recover, Stale
<1>3. CASE Claim(r)
  <2>1. CASE state \in ReadyStates
    <3>1. /\ state' = "processing" /\ transcript' = r
          /\ phase'[r] = "claimed" /\ mode'[r] = "none"
      BY <2>1, <1>0, <1>3 DEF Claim, Fits, Fresh
    <3>2. Legal(state, "processing")
      BY <2>1, LegalMoves
    <3> QED BY <3>1, <3>2 DEF OwnedBy, AtWork
  <2>2. CASE state \notin ReadyStates
    BY <2>2, <1>0, <1>3 DEF Claim, Serving
  <2> QED BY <2>1, <2>2
<1>4. ~(Call(r) \/ Dispatch(r) \/ Accept(r) \/ Reject(r) \/ Write(r) \/ Deadline(r)
        \/ Inspect(r) \/ Return(r) \/ Raise(r))
  BY <1>0, VoiceAssumption
  DEF Call, Dispatch, Accept, Reject, Write, Deadline, Timed, Inspect, Return, Raise, Serving
<1> QED BY <1>1, <1>2, <1>3, <1>4 DEF VoiceStep, Proceed

\* A step that leaves the interrupts and cancels unsent is a transcript's.
LEMMA UndisturbedStep ==
  ASSUME Shape, NEW r \in Requests, VoiceStep(r), Undisturbed'
  PROVE  Undisturbed /\ r \in Transcripts
<1>1. Moves(r)
  BY StepMovesOne
<1>2. phase'[r] # "unsent"
  <2>0. phase \in [Requests -> Phase]
    BY DEF Shape, TypeOK
  <2>1. CASE Submit(r) \/ Read(r) \/ Recover(r) \/ Reread(r) \/ Claim(r) \/ Inspect(r)
             \/ Vanish(r)
    BY <2>0, <2>1 DEF Submit, Read, Recover, Reread, Claim, Inspect, Vanish, Goto
  <2>2. CASE Call(r) \/ Dispatch(r)
    BY <2>0, <2>2 DEF Call, AskCancel, Dispatch, Fail, Goto
  <2>3. CASE Accept(r) \/ Write(r) \/ Return(r)
    BY <2>0, <2>3 DEF Accept, Write, Return, Goto
  <2>4. CASE Reject(r) \/ Raise(r) \/ Deadline(r)
    BY <2>0, <2>4 DEF Reject, Raise, Deadline, Fail, Goto
  <2> QED BY <2>1, <2>2, <2>3, <2>4 DEF VoiceStep, Proceed
<1>3. r \in Transcripts
  BY <1>2 DEF Undisturbed, Requests
<1>4. \A s \in Requests : s # r => phase'[s] = phase[s]
  BY <1>1 DEF Moves, Shape, TypeOK
<1> QED BY <1>3, <1>4, VoiceAssumption DEF Undisturbed, Requests

LEMMA OwnerStep ==
  ASSUME Shape, OwnerInv, NEW r \in Requests, VoiceStep(r), Undisturbed'
  PROVE  Owned' /\ AnswersItsTranscript' /\ Legal(state, state')
<1>0. /\ Owned /\ AnswersItsTranscript /\ Undisturbed /\ r \in Transcripts
      /\ Transcripts \subseteq Requests
  BY UndisturbedStep DEF OwnerInv, Requests
<1>1. /\ \A t \in Requests : t # r => /\ phase'[t] = phase[t] /\ mode'[t] = mode[t]
                                      /\ plan'[t] = plan[t]
  BY StepMovesOne DEF Moves, Shape, TypeOK
<1>2. \A t \in Transcripts : Serving(t) => OwnedBy(t) /\ \A s \in Transcripts : Serving(s) => s = t
  BY <1>0 DEF Owned, OwnedBy
<1>3. CASE \E t \in Transcripts : t # r /\ Serving(t)
  <2>1. PICK t \in Transcripts : t # r /\ Serving(t)
    BY <1>3
  <2>2. UNCHANGED row /\ ~Serving(r) /\ ~Serving(r)'
    BY <2>1, <1>0, OwnerKeepsRow
  <2>3. \A s \in Transcripts : Serving(s)' => s = t /\ Serving(s)
    BY <2>1, <2>2, <1>0, <1>1, <1>2 DEF Serving
  <2>4. OwnedBy(t)'
    BY <2>1, <2>2, <1>0, <1>1, <1>2 DEF OwnedBy, row
  <2>5. Owned'
    BY <2>3, <2>4 DEF Owned, OwnedBy
  <2>6. AnswersItsTranscript'
    BY <2>2, <1>0 DEF AnswersItsTranscript, row
  <2> QED BY <2>2, <2>5, <2>6 DEF row, Legal
<1>4. CASE \A t \in Transcripts : t # r => ~Serving(t)
  <2>1. \A t \in Transcripts : Serving(t)' => t = r
    BY <1>0, <1>1, <1>4 DEF Serving
  <2>2. CASE Serving(r)
    <3>1. /\ Serving(r)' => OwnedBy(r)'
          /\ Legal(state, state') /\ transcript' = r
          /\ state' = "completed" => response' = r
      BY <2>2, <1>0, <1>2, OwnerMoves
    <3> QED BY <3>1, <2>1 DEF Owned, OwnedBy, AnswersItsTranscript
  <2>3. CASE ~Serving(r)
    <3>1. /\ Serving(r)' => OwnedBy(r)'
          /\ Legal(state, state')
          /\ state' = "completed" => UNCHANGED row
      BY <2>3, <1>0, NewOwner
    <3>2. AnswersItsTranscript'
      BY <3>1, <1>0 DEF AnswersItsTranscript, row
    <3> QED BY <3>1, <3>2, <2>1 DEF Owned, OwnedBy
  <2> QED BY <2>2, <2>3
<1> QED BY <1>3, <1>4

-----------------------------------------------------------------------------
(* The theorems. *)

VInv == Shape /\ WorkInv /\ OwnerInv

LEMMA InvInit == Init => VInv
<1> SUFFICES ASSUME Init PROVE VInv
  OBVIOUS
<1>1. Shape
  BY ShapeInit
<1>2. WorkInv
  BY DEF Init, WorkInv, AtWork
<1>3. \A r \in Transcripts : ~Serving(r)
  BY DEF Init, Serving, Requests
<1>4. OwnerInv
  BY <1>3 DEF Init, OwnerInv, Owned, AnswersItsTranscript
<1> QED BY <1>1, <1>2, <1>4 DEF VInv

LEMMA InvNext == VInv /\ [Next]_vars => VInv'
<1> SUFFICES ASSUME VInv, [Next]_vars PROVE VInv'
  OBVIOUS
<1>1. CASE UNCHANGED vars
  BY <1>1 DEF VInv, Shape, TypeOK, PlanInv, WorkInv, OwnerInv, Owned, Undisturbed,
              AnswersItsTranscript, Serving, vars, row
<1>2. CASE Next
  <2>1. PICK r \in Requests : VoiceStep(r)
    BY <1>2 DEF Next, VoiceStep
  <2>2. Shape' /\ WorkInv'
    BY <2>1, ShapeStep, WorkStep DEF VInv
  <2>3. OwnerInv'
    BY <2>1, OwnerStep DEF VInv, OwnerInv
  <2> QED BY <2>2, <2>3 DEF VInv
<1> QED BY <1>1, <1>2

LEMMA Invariance == Spec => []VInv
  BY InvInit, InvNext, PTL DEF Spec

\* The row and the requests of any number of routes stay well formed.
THEOREM VoiceTypeCorrect == Spec => []TypeOK
<1>1. VInv => TypeOK
  BY DEF VInv, Shape
<1> QED BY <1>1, Invariance, PTL

\* However transcripts, interrupts and cancels interleave and fail, a session
\* that shows work has a worker, or one that vanished.
THEOREM WorkersStay == Spec => []WorkHasAWorker
<1>1. VInv => WorkHasAWorker
  BY DEF VInv, WorkInv, WorkHasAWorker
<1> QED BY <1>1, Invariance, PTL

\* Without interrupts and cancels no two transcripts are served at once.
THEOREM ServedOneByOne == Spec => []OneTranscript
<1>1. VInv => OneTranscript
  BY DEF VInv, OwnerInv, Owned, OneTranscript
<1> QED BY <1>1, Invariance, PTL

\* Without interrupts and cancels a completed session shows its own answer.
THEOREM OwnAnswer == Spec => []AnswersItsTranscript
<1>1. VInv => AnswersItsTranscript
  BY DEF VInv, OwnerInv, AnswersItsTranscript
<1> QED BY <1>1, Invariance, PTL

\* Without interrupts and cancels validation and write agree on the state.
THEOREM TransitionsFollowed == Spec => FollowsTransitions
<1>1. VInv /\ [Next]_vars => [Undisturbed' => Legal(state, state')]_vars
  <2> SUFFICES ASSUME VInv, Next, Undisturbed' PROVE Legal(state, state')
    OBVIOUS
  <2>1. PICK r \in Requests : VoiceStep(r)
    BY DEF Next, VoiceStep
  <2> QED BY <2>1, OwnerStep DEF VInv
<1> QED BY <1>1, Invariance, PTL DEF Spec, FollowsTransitions

-----------------------------------------------------------------------------
(* Background jobs.                                                         *)

\* What an execution's row says of its attempts.
RowFits(entry) ==
    /\ Len(entry.attempts) <= MaximumAttempts
    /\ \A i \in 1 .. Len(entry.attempts) - 1 : entry.attempts[i] \in {"failed", "cancelled"}
    /\ entry.status \in Settled =>
          Len(entry.attempts) > 0 /\ entry.attempts[Len(entry.attempts)] = entry.status
    /\ entry.status = "failed" => Len(entry.attempts) = MaximumAttempts

\* What an execution's row, the status saved of it and the times its plan was carried
\* out have to do with each other.
RunFits(entry, status, times) ==
    \/ entry = NoRow /\ status = NoRow /\ times = 0
    \/ /\ entry \in Execution /\ RowFits(entry)
       /\ times > 0 =>
            /\ times <= Len(entry.attempts)
            /\ CarriedOut(entry.request) /\ entry.request.permitted /\ GrantedFor(entry.request)
            /\ entry.request.target # "integration" => status # NoRow

\* An execution in the runner's hands was admitted and has no verdict yet.
InHand(at, entry, status, times) ==
    /\ entry \in Execution /\ entry.status = "running" /\ status \in {NoRow, "running"}
    /\ entry.request.permitted /\ GrantedFor(entry.request)
    /\ Len(entry.attempts) > 0
    /\ at \in {"begin", "work", "judge"} => entry.attempts[Len(entry.attempts)] = "running"
    /\ at = "failed" => entry.attempts[Len(entry.attempts)] \in {"failed", "cancelled"}
    /\ at \in {"begin", "work"} => times < Len(entry.attempts)

\* The failed rows, and how far the monitor's counters are from the truth: one count is
\* missing for every success that is counted down twice, one too many for every leak.
FailedRows == {x \in Executions : saved[x] = "failed"}

Counted ==
    /\ active = leaked - twice + (IF At("idle") THEN 0 ELSE 1 - Decremented)
    /\ IsFiniteSet(FailedRows) /\ failures >= Cardinality(FailedRows)

\* The invariant: it says in which state the rows of an execution under way are, which
\* JobsSafe leaves open.
JobsInv ==
    /\ JobsTypeOK /\ Counted /\ lateWork = {}
    /\ \A x \in Executions : RunFits(held[x], saved[x], worked[x])
    /\ ~At("idle") => InHand(worker.at, held[worker.of], saved[worker.of], worked[worker.of])

LEMMA JobsInvIsSafe == JobsInv => JobsSafe
<1> SUFFICES ASSUME JobsInv PROVE JobsSafe
  OBVIOUS
<1>1. RowTellsAttempts
  BY DEF JobsInv, RunFits, RowFits, RowTellsAttempts, Last
<1>2. WorkIsAccountedFor
  BY JobsAssumption DEF JobsInv, RunFits, WorkIsAccountedFor
<1>3. WorkHasARow
  BY DEF JobsInv, RunFits, WorkHasARow
<1>4. MonitorCounts
  BY DEF JobsInv, Counted, FailedRows, MonitorCounts
<1> QED
  BY <1>1, <1>2, <1>3, <1>4 DEF JobsInv, JobsSafe

LEMMA JobsInvInit == JobsInit => JobsInv
<1> SUFFICES ASSUME JobsInit PROVE JobsInv
  OBVIOUS
<1>1. JobsTypeOK /\ At("idle") /\ lateWork = {}
  BY DEF JobsInit, JobsTypeOK, At, Idle
<1>2. FailedRows = {}
  BY JobsAssumption DEF JobsInit, FailedRows, ExecutionStates
<1>3. Counted
  BY <1>1, <1>2, FS_EmptySet DEF JobsInit, Counted
<1>4. \A x \in Executions : RunFits(held[x], saved[x], worked[x])
  BY DEF JobsInit, RunFits
<1> QED
  BY <1>1, <1>3, <1>4 DEF JobsInv

\* One execution, and the worker with it, moves on.
LEMMA RunMoves ==
  ASSUME JobsInv, NEW x \in Executions, NEW entry, NEW status, NEW times \in Nat,
         held' = [held EXCEPT ![x] = entry], saved' = [saved EXCEPT ![x] = status],
         worked' = [worked EXCEPT ![x] = times],
         entry \in Execution, status \in ExecutionStates \cup {NoRow},
         RunFits(entry, status, times), Counted', lateWork' = {},
         active' \in Int, failures' \in Nat, leaked' \in Nat, twice' \in Nat,
         cancelledIds' \subseteq Correlations,
         \/ worker' = Idle
         \/ /\ worker' \in [at : Stages, of : {x}, lost : BOOLEAN]
            /\ InHand(worker'.at, entry, status, times)
  PROVE  JobsInv'
<1>1. /\ held' \in [Executions -> Execution \cup {NoRow}]
      /\ saved' \in [Executions -> ExecutionStates \cup {NoRow}]
      /\ worked' \in [Executions -> Nat]
      /\ held'[x] = entry /\ saved'[x] = status /\ worked'[x] = times
      /\ \A y \in Executions \ {x} :
            held'[y] = held[y] /\ saved'[y] = saved[y] /\ worked'[y] = worked[y]
  BY DEF JobsInv, JobsTypeOK
<1>2. \A y \in Executions : RunFits(held'[y], saved'[y], worked'[y])
  BY <1>1 DEF JobsInv
<1>3. \A y \in Executions : RunFits(held[y], saved[y], worked[y])'
  BY <1>2 DEF RunFits, RowFits
<1>4. worker' \in [at : Stages, of : Executions, lost : BOOLEAN] \cup {Idle}
  OBVIOUS
<1>5. JobsTypeOK'
  BY <1>1, <1>4 DEF JobsTypeOK
<1>6. ~At("idle")' =>
         InHand(worker'.at, held'[worker'.of], saved'[worker'.of], worked'[worker'.of])
  BY <1>1 DEF At, Idle
<1> QED
  BY <1>3, <1>5, <1>6 DEF JobsInv, InHand

\* What the runner has in its hands.
LEMMA InTheRunnersHands ==
  ASSUME JobsInv, ~At("idle")
  PROVE  /\ worker \in [at : Stages, of : Executions, lost : BOOLEAN]
         /\ worker.of \in Executions /\ worker.at \in Stages
         /\ InHand(worker.at, held[worker.of], saved[worker.of], worked[worker.of])
         /\ RunFits(held[worker.of], saved[worker.of], worked[worker.of])
         /\ worked[worker.of] \in Nat
BY DEF JobsInv, JobsTypeOK, At, Idle

LEMMA Numbers == JobsInv => active \in Int /\ failures \in Nat /\ leaked \in Nat /\ twice \in Nat
                            /\ cancelledIds \subseteq Correlations /\ lateWork = {}
BY DEF JobsInv, JobsTypeOK

\* A sequence of attempts whose last one ends, or gets a successor.
LEMMA LastAttemptEnds ==
  ASSUME NEW a \in Seq(AttemptStates), Len(a) > 0, NEW e \in AttemptStates,
         NEW b, b = [a EXCEPT ![Len(a)] = e]
  PROVE  /\ b \in Seq(AttemptStates) /\ Len(b) = Len(a) /\ b[Len(a)] = e
         /\ \A i \in 1 .. Len(a) - 1 : b[i] = a[i]
<1>1. Len(a) \in Nat /\ Len(a) \in 1 .. Len(a)
  BY LenProperties
<1>2. /\ b \in Seq(AttemptStates) /\ Len(b) = Len(a)
      /\ \A j \in 1 .. Len(a) : b[j] = IF j = Len(a) THEN e ELSE a[j]
  BY <1>1, ExceptSeq
<1>3. b[Len(a)] = e
  BY <1>1, <1>2
<1>4. ASSUME NEW i \in 1 .. Len(a) - 1 PROVE b[i] = a[i]
  <2>1. i \in 1 .. Len(a) /\ i # Len(a)
    BY <1>1
  <2> QED
    BY <1>2, <2>1
<1> QED
  BY <1>2, <1>3, <1>4

LEMMA NextAttemptBegins ==
  ASSUME NEW a \in Seq(AttemptStates), NEW e \in AttemptStates, NEW b, b = Append(a, e)
  PROVE  /\ b \in Seq(AttemptStates) /\ Len(b) = Len(a) + 1 /\ b[Len(a) + 1] = e
         /\ Len(a) \in Nat /\ \A i \in 1 .. Len(a) : b[i] = a[i]
BY AppendProperties, LenProperties

\* Failures stay counted when no status becomes or ceases to be a failure.
LEMMA FailuresStay ==
  ASSUME JobsInv, NEW x \in Executions, NEW status, saved' = [saved EXCEPT ![x] = status],
         saved[x] # "failed", status # "failed"
  PROVE  FailedRows' = FailedRows
BY DEF JobsInv, JobsTypeOK, FailedRows

\* The attempt under way ends, and the monitor hears nothing of it yet.
LEMMA AttemptEnds ==
  ASSUME JobsInv, ~At("idle"), NEW e \in {"failed", "cancelled"}, SetAttempt(e)
  PROVE  \E entry \in Execution :
            /\ held' = [held EXCEPT ![worker.of] = entry]
            /\ Len(entry.attempts) = Len(held[worker.of].attempts)
            /\ entry.request = held[worker.of].request
            /\ \A status, times : RunFits(held[worker.of], status, times) => RunFits(entry, status, times)
            /\ InHand("failed", entry, saved[worker.of], worked[worker.of])
            /\ \A status \in {NoRow, "running"} : \A times : InHand("failed", entry, status, times)
<1> DEFINE x == worker.of
           old == held[x]
           a == [old.attempts EXCEPT ![Len(old.attempts)] = e]
           entry == [old EXCEPT !.attempts = a]
<1>1. /\ old \in Execution /\ RowFits(old) /\ Len(old.attempts) > 0 /\ x \in Executions
      /\ old.status = "running" /\ old.request.permitted /\ GrantedFor(old.request)
      /\ saved[x] \in {NoRow, "running"}
  BY InTheRunnersHands, JobsAssumption DEF InHand, RunFits
<1>2. held' = [held EXCEPT ![x] = entry]
  BY DEF SetAttempt, Number, Current, JobsInv, JobsTypeOK
<1> HIDE DEF x, old
<1>3. e \in AttemptStates /\ old.attempts \in Seq(AttemptStates)
  BY <1>1 DEF AttemptStates, Execution
<1>4. /\ a \in Seq(AttemptStates) /\ Len(a) = Len(old.attempts) /\ a[Len(a)] = e
      /\ \A i \in 1 .. Len(a) - 1 : a[i] = old.attempts[i]
  BY <1>1, <1>3, LastAttemptEnds
<1> HIDE DEF a
<1>5. entry \in Execution /\ entry.attempts = a /\ entry.status = old.status /\ entry.request = old.request
  BY <1>1, <1>4 DEF Execution
<1> HIDE DEF entry
<1>6. RowFits(entry)
  BY <1>1, <1>4, <1>5 DEF RowFits, Settled
<1>7. \A status, times : RunFits(old, status, times) => RunFits(entry, status, times)
  BY <1>1, <1>4, <1>5, <1>6, JobsAssumption DEF RunFits
<1>8. \A status \in {NoRow, "running"} : \A times : InHand("failed", entry, status, times)
  BY <1>1, <1>4, <1>5 DEF InHand
<1> QED
  BY <1>1, <1>2, <1>4, <1>5, <1>7, <1>8 DEF x, old

\* The same run goes on, and the monitor hears nothing.
LEMMA CountsStay ==
  ASSUME JobsInv, ~At("idle"), UNCHANGED <<active, failures, leaked, twice>>,
         worker'.at # "idle", worker'.lost = worker.lost, FailedRows' = FailedRows
  PROVE  Counted'
BY DEF JobsInv, Counted, At, Decremented

LEMMA RefuseStep ==
  ASSUME JobsInv, NEW x \in Executions, NEW r \in Request, Refuse(x, r)
  PROVE  JobsInv'
<1> DEFINE status == Admission(r)
           entry == Row(r, status)
<1>1. /\ At("idle") /\ held[x] = NoRow
      /\ held' = [held EXCEPT ![x] = entry] /\ saved' = [saved EXCEPT ![x] = status]
      /\ UNCHANGED <<worker, cancelledIds, active, failures, worked, lateWork, leaked, twice>>
  BY DEF Refuse, NewRow
<1>2. status \in {"blocked", "waiting_for_approval"}
  BY DEF Refuse, Admission
<1>3. status \in ExecutionStates /\ status # "failed" /\ status # NoRow
  BY <1>2, JobsAssumption DEF ExecutionStates
<1> HIDE DEF status
<1>4. entry \in Execution /\ entry.request = r /\ entry.status = status /\ entry.attempts = <<>>
  BY <1>3 DEF Row, Execution
<1> HIDE DEF entry
<1>5. saved[x] = NoRow /\ worked[x] = 0 /\ worked' = [worked EXCEPT ![x] = 0]
  BY <1>1, JobsAssumption DEF JobsInv, RunFits, JobsTypeOK
<1>6. RowFits(entry)
  BY <1>2, <1>4, JobsAssumption DEF RowFits, Settled
<1>7. RunFits(entry, status, 0)
  BY <1>4, <1>6 DEF RunFits
<1>8. FailedRows' = FailedRows
  BY <1>1, <1>3, <1>5, JobsAssumption, FailuresStay DEF ExecutionStates
<1>9. Counted'
  BY <1>1, <1>8 DEF JobsInv, Counted, At, Decremented
<1>10. worker' = Idle
  BY <1>1 DEF JobsInv, JobsTypeOK, At, Stages
<1>11. /\ active' \in Int /\ failures' \in Nat /\ leaked' \in Nat /\ twice' \in Nat
       /\ cancelledIds' \subseteq Correlations /\ lateWork' = {}
  BY <1>1, Numbers
<1>12. 0 \in Nat /\ status \in ExecutionStates \cup {NoRow}
  BY <1>3
<1>13. held' = [held EXCEPT ![x] = entry] /\ saved' = [saved EXCEPT ![x] = status]
  BY <1>1
<1> QED
  BY <1>4, <1>5, <1>7, <1>9, <1>10, <1>11, <1>12, <1>13, RunMoves

LEMMA BeginStep ==
  ASSUME JobsInv, NEW x \in Executions, NEW r \in Request, Begin(x, r)
  PROVE  JobsInv'
<1> DEFINE entry == [Row(r, "running") EXCEPT !.attempts = <<"running">>]
<1>1. /\ At("idle") /\ held[x] = NoRow /\ Admission(r) = "running"
      /\ held' = [held EXCEPT ![x] = entry] /\ worker' = [at |-> "begin", of |-> x, lost |-> FALSE]
      /\ active' = active + 1
      /\ UNCHANGED <<saved, cancelledIds, failures, worked, lateWork, leaked, twice>>
  BY DEF Begin, NewRow
<1>2. r.permitted /\ Admitted(r)
  BY <1>1 DEF Admission
<1>3. GrantedFor(r)
  BY <1>2, JobsAssumption DEF Admitted, ApprovalOutcome, GrantedFor, Request, Grant, Policies
<1>4. <<"running">> \in Seq(AttemptStates) /\ Len(<<"running">>) = 1 /\ <<"running">>[1] = "running"
  BY DEF AttemptStates
<1>5. entry = [request |-> r, status |-> "running", attempts |-> <<"running">>]
  BY DEF Row
<1>6. /\ entry \in Execution /\ entry.request = r /\ entry.status = "running"
      /\ Len(entry.attempts) = 1 /\ entry.attempts[1] = "running"
  BY <1>4, <1>5 DEF Execution, ExecutionStates
<1> HIDE DEF entry
<1>7. saved[x] = NoRow /\ worked[x] = 0
  BY <1>1, JobsAssumption DEF JobsInv, RunFits
<1>8. /\ worked' = [worked EXCEPT ![x] = 0] /\ saved' = [saved EXCEPT ![x] = NoRow]
      /\ FailedRows' = FailedRows
  BY <1>1, <1>7 DEF JobsInv, JobsTypeOK, FailedRows
<1>9. RowFits(entry)
  BY <1>6, JobsAssumption DEF RowFits, Settled
<1>10. RunFits(entry, NoRow, 0) /\ InHand("begin", entry, NoRow, 0)
  BY <1>2, <1>3, <1>6, <1>9 DEF RunFits, InHand
<1>11. Counted'
  BY <1>1, <1>8, Numbers DEF JobsInv, Counted, At, Decremented
<1>12. worker' \in [at : Stages, of : {x}, lost : BOOLEAN] /\ worker'.at = "begin"
  BY <1>1 DEF Stages
<1>13. /\ active' \in Int /\ failures' \in Nat /\ leaked' \in Nat /\ twice' \in Nat
       /\ cancelledIds' \subseteq Correlations /\ lateWork' = {}
  BY <1>1, Numbers
<1>14. 0 \in Nat /\ NoRow \in ExecutionStates \cup {NoRow}
  OBVIOUS
<1>15. held' = [held EXCEPT ![x] = entry] /\ InHand(worker'.at, entry, NoRow, 0)
  BY <1>1, <1>10, <1>12
<1> QED
  BY <1>6, <1>8, <1>10, <1>11, <1>12, <1>13, <1>14, <1>15, RunMoves

\* An attempt ends without a verdict for the run.
LEMMA EndsStep ==
  ASSUME JobsInv, ~At("idle"), NEW e \in {"failed", "cancelled"}, SetAttempt(e), Go("failed"),
         NEW status \in {NoRow, "running"}, NEW times \in Nat,
         RunFits(held[worker.of], status, times),
         saved' = [saved EXCEPT ![worker.of] = status],
         worked' = [worked EXCEPT ![worker.of] = times],
         UNCHANGED <<cancelledIds, active, failures, lateWork, leaked, twice>>
  PROVE  JobsInv'
<1>1. PICK entry \in Execution :
            /\ held' = [held EXCEPT ![worker.of] = entry]
            /\ RunFits(entry, status, times) /\ InHand("failed", entry, status, times)
  BY AttemptEnds
<1>2. PICK x \in Executions : x = worker.of /\ saved[x] \in {NoRow, "running"}
  BY InTheRunnersHands DEF InHand
<1>3. /\ worker' \in [at : Stages, of : {x}, lost : BOOLEAN] /\ worker'.at = "failed"
      /\ worker'.lost = worker.lost
  BY <1>2, InTheRunnersHands DEF Go, Stages
<1>4. status \in ExecutionStates \cup {NoRow} /\ status # "failed" /\ saved[x] # "failed"
  BY <1>2, JobsAssumption DEF ExecutionStates
<1>5. Counted'
  BY <1>2, <1>3, <1>4, CountsStay, FailuresStay
<1> QED
  BY <1>1, <1>2, <1>3, <1>4, <1>5, Numbers, RunMoves

\* What a service may have done: it commits with the entry, or a connector is called.
LEMMA PartIsDone ==
  ASSUME JobsInv, At("work"), CarriedOut(Current.request), PartOfTheWork
  PROVE  \E status \in {NoRow, "running"}, times \in Nat :
            /\ saved' = [saved EXCEPT ![worker.of] = status]
            /\ worked' = [worked EXCEPT ![worker.of] = times]
            /\ RunFits(held[worker.of], status, times)
<1>1. ~At("idle")
  BY DEF At
<1>2. PICK x \in Executions : x = worker.of
  BY <1>1, InTheRunnersHands
<1>3. PICK old \in Execution : old = held[x]
  BY <1>1, <1>2, InTheRunnersHands DEF InHand
<1>4. /\ InHand("work", old, saved[x], worked[x]) /\ RunFits(old, saved[x], worked[x])
      /\ worked[x] \in Nat /\ CarriedOut(old.request)
  BY <1>1, <1>2, <1>3, InTheRunnersHands DEF At, Current
<1>5. /\ saved[x] \in {NoRow, "running"} /\ old.status = "running" /\ RowFits(old)
      /\ worked[x] < Len(old.attempts) /\ Len(old.attempts) \in Nat
      /\ old.request.permitted /\ GrantedFor(old.request) /\ old # NoRow
  BY <1>4, JobsAssumption, LenProperties DEF InHand, RunFits, Execution
<1>6. worked[x] + 1 \in Nat /\ worked[x] + 1 <= Len(old.attempts)
  BY <1>4, <1>5
<1>7. "running" # NoRow
  BY JobsAssumption DEF ExecutionStates
<1>8. \A times \in {worked[x], worked[x] + 1} : RunFits(old, "running", times)
  BY <1>4, <1>5, <1>6, <1>7 DEF RunFits
<1>9. old.request.target = "integration" => RunFits(old, saved[x], worked[x] + 1)
  BY <1>4, <1>5, <1>6 DEF RunFits
<1>10. saved = [saved EXCEPT ![x] = saved[x]] /\ worked = [worked EXCEPT ![x] = worked[x]]
  BY DEF JobsInv, JobsTypeOK
<1>11. CASE UNCHANGED <<saved, worked>>
  BY <1>2, <1>3, <1>4, <1>5, <1>10, <1>11
<1>12. CASE ServiceCommits
  <2>1. saved' = [saved EXCEPT ![x] = "running"]
        /\ worked' \in {worked, [worked EXCEPT ![x] = worked[x] + 1]}
    BY <1>2, <1>3, <1>5, <1>12 DEF ServiceCommits, Publish, ToolRan, WorkedOnce, Current
  <2> QED
    BY <1>2, <1>3, <1>4, <1>6, <1>8, <1>10, <2>1
<1>13. CASE ConnectorCalled
  <2>1. UNCHANGED saved /\ worked' = [worked EXCEPT ![x] = worked[x] + 1]
        /\ old.request.target = "integration"
    BY <1>2, <1>3, <1>13 DEF ConnectorCalled, WorkedOnce, Current
  <2> QED
    BY <1>2, <1>3, <1>4, <1>5, <1>6, <1>9, <1>10, <2>1
<1> QED
  BY <1>11, <1>12, <1>13 DEF PartOfTheWork

\* The run that is under way, in names that a step leaves alone.
LEMMA UnderWay ==
  ASSUME JobsInv, ~At("idle")
  PROVE  \E x \in Executions, old \in Execution, status \in {NoRow, "running"}, times \in Nat :
            /\ worker \in [at : Stages, of : {x}, lost : BOOLEAN] /\ worker.of = x
            /\ old = held[x] /\ status = saved[x] /\ times = worked[x]
            /\ held = [held EXCEPT ![x] = old] /\ saved = [saved EXCEPT ![x] = status]
            /\ worked = [worked EXCEPT ![x] = times]
            /\ InHand(worker.at, old, status, times) /\ RunFits(old, status, times)
            /\ RowFits(old) /\ old # NoRow
<1>1. PICK x \in Executions : x = worker.of
  BY InTheRunnersHands
<1>2. /\ worker \in [at : Stages, of : {x}, lost : BOOLEAN]
      /\ InHand(worker.at, held[x], saved[x], worked[x])
      /\ RunFits(held[x], saved[x], worked[x]) /\ worked[x] \in Nat
  BY <1>1, InTheRunnersHands
<1>3. held[x] \in Execution /\ saved[x] \in {NoRow, "running"} /\ held[x] # NoRow
  BY <1>2, JobsAssumption DEF InHand
<1>4. RowFits(held[x])
  BY <1>2, <1>3 DEF RunFits
<1>5. /\ held = [held EXCEPT ![x] = held[x]] /\ saved = [saved EXCEPT ![x] = saved[x]]
      /\ worked = [worked EXCEPT ![x] = worked[x]]
  BY DEF JobsInv, JobsTypeOK
<1> QED
  BY <1>1, <1>2, <1>3, <1>4, <1>5

\* An attempt that ends without having done more.
LEMMA PlainEndStep ==
  ASSUME JobsInv, ~At("idle"), NEW e \in {"failed", "cancelled"}, SetAttempt(e), Go("failed"),
         UNCHANGED <<saved, cancelledIds, active, failures, worked, lateWork, leaked, twice>>
  PROVE  JobsInv'
<1>1. PICK status \in {NoRow, "running"}, times \in Nat :
            /\ RunFits(held[worker.of], status, times)
            /\ saved = [saved EXCEPT ![worker.of] = status]
            /\ worked = [worked EXCEPT ![worker.of] = times]
  BY UnderWay
<1>2. /\ saved' = [saved EXCEPT ![worker.of] = status]
      /\ worked' = [worked EXCEPT ![worker.of] = times]
  BY <1>1
<1>3. UNCHANGED <<cancelledIds, active, failures, lateWork, leaked, twice>>
  OBVIOUS
<1> QED
  BY <1>1, <1>2, <1>3, EndsStep

LEMMA WorkRaisesStep == ASSUME JobsInv, WorkRaises PROVE JobsInv'
<1>1. /\ At("work") /\ CarriedOut(Current.request) /\ PartOfTheWork
      /\ SetAttempt("failed") /\ Go("failed")
      /\ UNCHANGED <<cancelledIds, active, failures, lateWork, leaked, twice>>
  BY DEF WorkRaises
<1>2. ~At("idle")
  BY <1>1 DEF At
<1>3. PICK status \in {NoRow, "running"}, times \in Nat :
            /\ saved' = [saved EXCEPT ![worker.of] = status]
            /\ worked' = [worked EXCEPT ![worker.of] = times]
            /\ RunFits(held[worker.of], status, times)
  BY <1>1, PartIsDone
<1> QED
  BY <1>1, <1>2, <1>3, EndsStep

\* The run goes on with the entry it has.
LEMMA GoesOnStep ==
  ASSUME JobsInv, ~At("idle"), UNCHANGED held, NEW at \in {"work", "judge"}, Go(at),
         NEW status \in {NoRow, "running"}, NEW times \in Nat,
         saved' = [saved EXCEPT ![worker.of] = status],
         worked' = [worked EXCEPT ![worker.of] = times],
         RunFits(held[worker.of], status, times),
         InHand(at, held[worker.of], status, times), lateWork' = {},
         UNCHANGED <<cancelledIds, active, failures, leaked, twice>>
  PROVE  JobsInv'
<1>1. PICK x \in Executions, old \in Execution :
            /\ worker \in [at : Stages, of : {x}, lost : BOOLEAN] /\ worker.of = x
            /\ old = held[x] /\ held = [held EXCEPT ![x] = old] /\ saved[x] \in {NoRow, "running"}
  BY UnderWay
<1>2. /\ worker' \in [at : Stages, of : {x}, lost : BOOLEAN] /\ worker'.at = at
      /\ worker'.lost = worker.lost
  BY <1>1 DEF Go, Stages
<1>3. status \in ExecutionStates \cup {NoRow} /\ status # "failed" /\ saved[x] # "failed"
  BY <1>1, JobsAssumption DEF ExecutionStates
<1>4. Counted'
  BY <1>1, <1>2, <1>3, CountsStay, FailuresStay
<1>5. /\ active' \in Int /\ failures' \in Nat /\ leaked' \in Nat /\ twice' \in Nat
      /\ cancelledIds' \subseteq Correlations
  BY Numbers
<1>6. /\ held' = [held EXCEPT ![x] = old] /\ saved' = [saved EXCEPT ![x] = status]
      /\ worked' = [worked EXCEPT ![x] = times]
      /\ RunFits(old, status, times) /\ InHand(worker'.at, old, status, times)
  BY <1>1, <1>2
<1> QED
  BY <1>2, <1>3, <1>4, <1>5, <1>6, RunMoves

LEMMA StartWorkStep == ASSUME JobsInv, StartWork PROVE JobsInv'
<1>1. /\ At("begin") /\ Go("work") /\ lateWork' = {}
      /\ UNCHANGED <<held, saved, cancelledIds, active, failures, worked, leaked, twice>>
  BY Numbers DEF StartWork, Cancelled
<1>2. ~At("idle") /\ worker.at = "begin"
  BY <1>1 DEF At
<1>3. PICK status \in {NoRow, "running"}, times \in Nat :
            /\ saved = [saved EXCEPT ![worker.of] = status]
            /\ worked = [worked EXCEPT ![worker.of] = times]
            /\ RunFits(held[worker.of], status, times)
            /\ InHand("begin", held[worker.of], status, times)
  BY <1>2, UnderWay
<1>4. InHand("work", held[worker.of], status, times)
  BY <1>3 DEF InHand
<1>5. /\ saved' = [saved EXCEPT ![worker.of] = status]
      /\ worked' = [worked EXCEPT ![worker.of] = times]
  BY <1>1, <1>3
<1>6. UNCHANGED <<cancelledIds, active, failures, leaked, twice>> /\ UNCHANGED held
  BY <1>1
<1> QED
  BY <1>1, <1>2, <1>3, <1>4, <1>5, <1>6, GoesOnStep

LEMMA JobWorkStep == ASSUME JobsInv, Work PROVE JobsInv'
<1>1. /\ At("work") /\ Go("judge")
      /\ UNCHANGED <<held, cancelledIds, active, failures, lateWork, leaked, twice>>
      /\ \/ CarriedOut(Current.request) /\ PartOfTheWork
         \/ UNCHANGED <<saved, worked>>
  BY DEF Work, PartOfTheWork
<1>2. ~At("idle") /\ worker.at = "work"
  BY <1>1 DEF At
<1>3. PICK was \in {NoRow, "running"}, before \in Nat :
            /\ saved = [saved EXCEPT ![worker.of] = was]
            /\ worked = [worked EXCEPT ![worker.of] = before]
            /\ RunFits(held[worker.of], was, before)
            /\ InHand("work", held[worker.of], was, before)
  BY <1>2, UnderWay
<1>4. \E status \in {NoRow, "running"}, times \in Nat :
            /\ saved' = [saved EXCEPT ![worker.of] = status]
            /\ worked' = [worked EXCEPT ![worker.of] = times]
            /\ RunFits(held[worker.of], status, times)
  <2>1. CASE CarriedOut(Current.request) /\ PartOfTheWork
    BY <1>1, <2>1, PartIsDone
  <2>2. CASE UNCHANGED <<saved, worked>>
    BY <1>3, <2>2
  <2> QED
    BY <1>1, <2>1, <2>2
<1>5. PICK status \in {NoRow, "running"}, times \in Nat :
            /\ saved' = [saved EXCEPT ![worker.of] = status]
            /\ worked' = [worked EXCEPT ![worker.of] = times]
            /\ RunFits(held[worker.of], status, times)
  BY <1>4
<1>6. InHand("judge", held[worker.of], status, times)
  BY <1>3 DEF InHand
<1>7. UNCHANGED <<cancelledIds, active, failures, leaked, twice>> /\ UNCHANGED held /\ lateWork' = {}
  BY <1>1, Numbers
<1> QED
  BY <1>1, <1>2, <1>5, <1>6, <1>7, GoesOnStep

LEMMA CancelStep ==
  ASSUME JobsInv, NEW c \in Correlations, Cancel(c) PROVE JobsInv'
<1>1. /\ UNCHANGED <<held, saved, worker, active, failures, worked, lateWork, leaked, twice>>
      /\ cancelledIds' \subseteq Correlations
  BY Numbers DEF Cancel
<1>2. JobsTypeOK'
  BY <1>1 DEF JobsInv, JobsTypeOK
<1>3. Counted'
  BY <1>1 DEF JobsInv, Counted, FailedRows, At, Decremented
<1>4. \A x \in Executions : RunFits(held[x], saved[x], worked[x])'
  BY <1>1 DEF JobsInv, RunFits, RowFits
<1> QED
  BY <1>1, <1>2, <1>3, <1>4 DEF JobsInv, At, InHand

LEMMA SucceedStep == ASSUME JobsInv, Succeed PROVE JobsInv'
<1>1. At("judge") /\ ~At("idle") /\ worker.at = "judge" /\ worker.lost = FALSE
  BY InTheRunnersHands DEF Succeed, At
<1>2. PICK x \in Executions, old \in Execution, status \in {NoRow, "running"}, times \in Nat :
            /\ worker.of = x /\ old = held[x] /\ status = saved[x] /\ times = worked[x]
            /\ worked = [worked EXCEPT ![x] = times]
            /\ InHand("judge", old, status, times) /\ RunFits(old, status, times)
            /\ RowFits(old) /\ old # NoRow
  BY <1>1, UnderWay
<1> DEFINE a == [old.attempts EXCEPT ![Len(old.attempts)] = "succeeded"]
           entry == [old EXCEPT !.attempts = a, !.status = "succeeded"]
<1>3. held' = [held EXCEPT ![x] = entry]
  BY <1>2 DEF Succeed, Number, Current, JobsInv, JobsTypeOK, Execution
<1>4. /\ "succeeded" \in AttemptStates /\ old.attempts \in Seq(AttemptStates)
      /\ Len(old.attempts) > 0
  BY <1>2 DEF AttemptStates, Execution, InHand
<1>5. /\ a \in Seq(AttemptStates) /\ Len(a) = Len(old.attempts) /\ a[Len(a)] = "succeeded"
      /\ \A i \in 1 .. Len(a) - 1 : a[i] = old.attempts[i]
  BY <1>4, LastAttemptEnds
<1> HIDE DEF a
<1>6. /\ entry \in Execution /\ entry.attempts = a /\ entry.status = "succeeded"
      /\ entry.request = old.request
  BY <1>5 DEF Execution, ExecutionStates
<1> HIDE DEF entry
<1>7. RowFits(entry)
  BY <1>2, <1>4, <1>5, <1>6 DEF RowFits
<1>8. RunFits(entry, "succeeded", times)
  BY <1>2, <1>5, <1>6, <1>7, JobsAssumption DEF RunFits, ExecutionStates
<1>9. /\ saved' = [saved EXCEPT ![x] = "succeeded"] /\ saved[x] # "failed"
      /\ worked' = [worked EXCEPT ![x] = times] /\ worker' = Idle
      /\ "succeeded" \in ExecutionStates \cup {NoRow}
  BY <1>2, JobsAssumption DEF Succeed, ExecutionStates
<1>10. FailedRows' = FailedRows
  BY <1>9, FailuresStay
<1>11. Counted'
  BY <1>1, <1>9, <1>10, Numbers DEF Succeed, JobsInv, Counted, At, Idle, Decremented
<1>12. /\ active' \in Int /\ failures' \in Nat /\ leaked' \in Nat /\ twice' \in Nat
       /\ cancelledIds' \subseteq Correlations /\ lateWork' = {}
  BY Numbers DEF Succeed
<1> QED
  BY <1>3, <1>6, <1>8, <1>9, <1>11, <1>12, RunMoves

LEMMA SuccessIsLostStep == ASSUME JobsInv, SuccessIsLost PROVE JobsInv'
<1>1. /\ ~At("idle") /\ SetAttempt("failed") /\ active' = active - 1
      /\ twice' = twice + Decremented
      /\ worker' = [worker EXCEPT !.at = "failed", !.lost = TRUE]
      /\ UNCHANGED <<saved, cancelledIds, failures, worked, lateWork, leaked>>
  BY DEF SuccessIsLost, At
<1>2. PICK x \in Executions, status \in {NoRow, "running"}, times \in Nat :
            /\ worker \in [at : Stages, of : {x}, lost : BOOLEAN] /\ worker.of = x
            /\ saved = [saved EXCEPT ![x] = status] /\ worked = [worked EXCEPT ![x] = times]
            /\ RunFits(held[x], status, times)
  BY <1>1, UnderWay
<1>3. PICK entry \in Execution :
            /\ held' = [held EXCEPT ![x] = entry]
            /\ RunFits(entry, status, times) /\ InHand("failed", entry, status, times)
  BY <1>1, <1>2, AttemptEnds
<1>4. /\ worker' \in [at : Stages, of : {x}, lost : BOOLEAN]
      /\ worker'.at = "failed" /\ worker'.lost = TRUE
  BY <1>1, <1>2 DEF Stages
<1>5. FailedRows' = FailedRows
  BY <1>1 DEF FailedRows
<1>6. Decremented \in {0, 1} /\ Decremented' = 1
  BY <1>4 DEF Decremented
<1>7. ~At("idle")'
  BY <1>4 DEF At
<1>8. active = leaked - twice + (1 - Decremented) /\ IsFiniteSet(FailedRows)
      /\ failures >= Cardinality(FailedRows)
  BY <1>1 DEF JobsInv, Counted
<1>9. Counted'
  BY <1>1, <1>5, <1>6, <1>7, <1>8, Numbers DEF Counted
<1>10. /\ active' \in Int /\ failures' \in Nat /\ leaked' \in Nat /\ twice' \in Nat
       /\ cancelledIds' \subseteq Correlations /\ lateWork' = {}
  BY <1>1, <1>6, Numbers
<1>11. /\ saved' = [saved EXCEPT ![x] = status] /\ worked' = [worked EXCEPT ![x] = times]
       /\ status \in ExecutionStates \cup {NoRow} /\ InHand(worker'.at, entry, status, times)
  BY <1>1, <1>2, <1>3, <1>4 DEF ExecutionStates
<1> QED
  BY <1>3, <1>4, <1>9, <1>10, <1>11, RunMoves

LEMMA NextAttemptStep == ASSUME JobsInv, NextAttempt PROVE JobsInv'
<1>1. /\ worker.at = "failed" /\ Number < MaximumAttempts /\ ~At("idle")
      /\ held' = [held EXCEPT ![worker.of].attempts = Append(@, "running")] /\ Go("begin")
      /\ UNCHANGED <<saved, cancelledIds, active, failures, worked, lateWork, leaked, twice>>
  BY DEF NextAttempt, ShouldRetry, At
<1>2. PICK x \in Executions, old \in Execution, status \in {NoRow, "running"}, times \in Nat :
            /\ worker \in [at : Stages, of : {x}, lost : BOOLEAN] /\ worker.of = x
            /\ old = held[x] /\ saved = [saved EXCEPT ![x] = status]
            /\ worked = [worked EXCEPT ![x] = times]
            /\ InHand("failed", old, status, times) /\ RunFits(old, status, times)
            /\ RowFits(old) /\ old # NoRow
  BY <1>1, UnderWay
<1> DEFINE a == Append(old.attempts, "running")
           entry == [old EXCEPT !.attempts = a]
<1>3. held' = [held EXCEPT ![x] = entry] /\ Len(old.attempts) < MaximumAttempts
  BY <1>1, <1>2 DEF Number, Current, JobsInv, JobsTypeOK, Execution
<1>4. "running" \in AttemptStates /\ old.attempts \in Seq(AttemptStates)
  BY <1>2 DEF AttemptStates, Execution
<1>5. /\ a \in Seq(AttemptStates) /\ Len(a) = Len(old.attempts) + 1 /\ a[Len(a)] = "running"
      /\ Len(old.attempts) \in Nat
      /\ \A i \in 1 .. Len(old.attempts) : a[i] = old.attempts[i]
  BY <1>4, NextAttemptBegins
<1> HIDE DEF a
<1>6. /\ entry \in Execution /\ entry.attempts = a /\ entry.status = old.status
      /\ entry.request = old.request
  BY <1>5 DEF Execution
<1> HIDE DEF entry
<1>7. \A i \in 1 .. Len(old.attempts) : a[i] \in {"failed", "cancelled"}
  <2>1. old.attempts[Len(old.attempts)] \in {"failed", "cancelled"}
    BY <1>2 DEF InHand
  <2>2. \A i \in 1 .. Len(old.attempts) - 1 : old.attempts[i] \in {"failed", "cancelled"}
    BY <1>2 DEF RowFits
  <2> QED
    BY <1>5, <2>1, <2>2
<1>8. RowFits(entry)
  <2>1. old.status = "running" /\ Len(a) <= MaximumAttempts
    BY <1>2, <1>3, <1>5, JobsAssumption DEF InHand
  <2> QED
    BY <1>5, <1>6, <1>7, <2>1 DEF RowFits, Settled
<1>9. times <= Len(old.attempts) /\ times < Len(a)
  BY <1>2, <1>5 DEF RunFits, InHand
<1>10. RunFits(entry, status, times)
  BY <1>2, <1>6, <1>8, <1>9 DEF RunFits
<1>11. InHand("begin", entry, status, times)
  BY <1>2, <1>5, <1>6, <1>9 DEF InHand
<1>12. /\ worker' \in [at : Stages, of : {x}, lost : BOOLEAN]
       /\ worker'.at = "begin" /\ worker'.lost = worker.lost
  BY <1>1, <1>2 DEF Go, Stages
<1>13. FailedRows' = FailedRows
  BY <1>1 DEF FailedRows
<1>14. Counted'
  BY <1>1, <1>12, <1>13, CountsStay
<1>15. /\ active' \in Int /\ failures' \in Nat /\ leaked' \in Nat /\ twice' \in Nat
       /\ cancelledIds' \subseteq Correlations /\ lateWork' = {}
  BY <1>1, Numbers
<1>16. /\ saved' = [saved EXCEPT ![x] = status] /\ worked' = [worked EXCEPT ![x] = times]
       /\ status \in ExecutionStates \cup {NoRow} /\ InHand(worker'.at, entry, status, times)
  BY <1>1, <1>2, <1>11, <1>12 DEF ExecutionStates
<1> QED
  BY <1>3, <1>6, <1>10, <1>12, <1>14, <1>15, <1>16, RunMoves

LEMMA SettleStep ==
  ASSUME JobsInv, NEW committed \in BOOLEAN, Settle(committed) PROVE JobsInv'
<1>1. worker.at = "failed" /\ ~(Number < MaximumAttempts) /\ ~At("idle")
  BY DEF Settle, ShouldRetry, At
<1>2. PICK x \in Executions, old \in Execution, status \in {NoRow, "running"}, times \in Nat :
            /\ worker \in [at : Stages, of : {x}, lost : BOOLEAN] /\ worker.of = x
            /\ old = held[x] /\ status = saved[x] /\ saved = [saved EXCEPT ![x] = status]
            /\ worked = [worked EXCEPT ![x] = times]
            /\ InHand("failed", old, status, times) /\ RunFits(old, status, times)
            /\ RowFits(old) /\ old # NoRow
  BY <1>1, UnderWay
<1>3. PICK end \in {"failed", "cancelled"} : end = Verdict /\ end = old.attempts[Len(old.attempts)]
  BY <1>2 DEF Verdict, Number, Current, InHand
<1> DEFINE entry == [old EXCEPT !.status = end]
<1>4. /\ held' = [held EXCEPT ![x] = entry] /\ Len(old.attempts) = MaximumAttempts
      /\ Len(old.attempts) > 0
  <2>1. Len(old.attempts) >= MaximumAttempts /\ Len(old.attempts) <= MaximumAttempts
    BY <1>1, <1>2, JobsAssumption, LenProperties DEF Number, Current, RowFits, Execution
  <2>2. Len(old.attempts) \in Nat
    BY LenProperties DEF Execution
  <2> QED
    BY <1>2, <1>3, <2>1, <2>2, JobsAssumption DEF Settle, InHand
<1>5. /\ entry \in Execution /\ entry.attempts = old.attempts /\ entry.status = end
      /\ entry.request = old.request
  BY DEF Execution, ExecutionStates
<1> HIDE DEF entry
<1>6. RowFits(entry)
  BY <1>2, <1>3, <1>4, <1>5 DEF RowFits
<1>7. PICK now \in {status, end} : saved' = [saved EXCEPT ![x] = now]
                                   /\ failures' = failures + (IF end = "cancelled" THEN 0 ELSE 1)
  BY <1>2, <1>3 DEF Settle
<1>8. end # NoRow /\ now \in ExecutionStates \cup {NoRow} /\ saved[x] # "failed" /\ status # "failed"
  BY <1>2, JobsAssumption DEF ExecutionStates
<1>9. RunFits(entry, now, times)
  BY <1>2, <1>5, <1>6, <1>8 DEF RunFits
<1>10. /\ active' = active - 1 /\ twice' = twice + Decremented /\ worker' = Idle
       /\ UNCHANGED <<cancelledIds, worked, lateWork, leaked>>
  BY DEF Settle
<1>11. Decremented \in {0, 1} /\ At("idle")'
  BY <1>10 DEF Decremented, At, Idle
<1>12. active = leaked - twice + (1 - Decremented) /\ IsFiniteSet(FailedRows)
      /\ failures >= Cardinality(FailedRows)
  BY <1>1 DEF JobsInv, Counted
<1>13. IsFiniteSet(FailedRows') /\ failures' >= Cardinality(FailedRows') /\ failures' \in Nat
  <2>1. failures' \in Nat /\ Cardinality(FailedRows) \in Nat
    BY <1>7, <1>12, Numbers, FS_CardinalityType
  <2>2. CASE now = "failed"
    <3>1. end = "failed" /\ failures' = failures + 1
      BY <1>7, <1>8, <2>2
    <3>2. FailedRows' = FailedRows \cup {x} /\ x \notin FailedRows
      BY <1>7, <1>8, <2>2 DEF FailedRows, JobsInv, JobsTypeOK
    <3>3. IsFiniteSet(FailedRows') /\ Cardinality(FailedRows') = Cardinality(FailedRows) + 1
      BY <1>12, <3>2, FS_AddElement
    <3> QED
      BY <1>12, <2>1, <3>1, <3>3, Numbers
  <2>3. CASE now # "failed"
    <3>1. FailedRows' = FailedRows
      BY <1>7, <1>8, <2>3, FailuresStay
    <3>2. failures' >= failures
      BY <1>7, Numbers
    <3> QED
      BY <1>12, <2>1, <3>1, <3>2, Numbers
  <2> QED
    BY <2>2, <2>3
<1>14. active' = leaked' - twice'
  BY <1>10, <1>11, <1>12, Numbers
<1>15. Counted'
  BY <1>11, <1>13, <1>14, <1>10, Numbers DEF Counted
<1>16. /\ active' \in Int /\ leaked' \in Nat /\ twice' \in Nat
       /\ cancelledIds' \subseteq Correlations /\ lateWork' = {}
       /\ worked' = [worked EXCEPT ![x] = times]
  BY <1>2, <1>10, <1>11, Numbers
<1> QED
  BY <1>4, <1>5, <1>7, <1>8, <1>9, <1>10, <1>13, <1>15, <1>16, RunMoves

LEMMA AbandonStep == ASSUME JobsInv, Abandon PROVE JobsInv'
<1>1. /\ ~At("idle") /\ worker' = Idle /\ leaked' = leaked + (1 - Decremented)
      /\ UNCHANGED <<held, cancelledIds, active, failures, lateWork, twice>>
      /\ \/ UNCHANGED <<saved, worked>>
         \/ At("work") /\ CarriedOut(Current.request) /\ PartOfTheWork
  BY DEF Abandon
<1>2. PICK x \in Executions, old \in Execution, was \in {NoRow, "running"}, before \in Nat :
            /\ worker.of = x /\ old = held[x] /\ was = saved[x] /\ held = [held EXCEPT ![x] = old]
            /\ saved = [saved EXCEPT ![x] = was] /\ worked = [worked EXCEPT ![x] = before]
            /\ RunFits(old, was, before)
  BY <1>1, UnderWay
<1>3. \E status \in {NoRow, "running"}, times \in Nat :
            /\ saved' = [saved EXCEPT ![x] = status]
            /\ worked' = [worked EXCEPT ![x] = times]
            /\ RunFits(old, status, times)
  <2>1. CASE UNCHANGED <<saved, worked>>
    BY <1>2, <2>1
  <2>2. CASE At("work") /\ CarriedOut(Current.request) /\ PartOfTheWork
    BY <1>2, <2>2, PartIsDone
  <2> QED
    BY <1>1, <2>1, <2>2
<1>4. PICK status \in {NoRow, "running"}, times \in Nat :
            /\ saved' = [saved EXCEPT ![x] = status]
            /\ worked' = [worked EXCEPT ![x] = times]
            /\ RunFits(old, status, times)
  BY <1>3
<1>5. status \in ExecutionStates \cup {NoRow} /\ status # "failed" /\ saved[x] # "failed"
  BY <1>2, JobsAssumption DEF ExecutionStates
<1>6. FailedRows' = FailedRows
  BY <1>4, <1>5, FailuresStay
<1>7. Decremented \in {0, 1} /\ At("idle")'
  BY <1>1 DEF Decremented, At, Idle
<1>8. active = leaked - twice + (1 - Decremented) /\ IsFiniteSet(FailedRows)
      /\ failures >= Cardinality(FailedRows)
  BY <1>1 DEF JobsInv, Counted
<1>9. active' = leaked' - twice'
  BY <1>1, <1>7, <1>8, Numbers
<1>10. Counted'
  BY <1>1, <1>6, <1>7, <1>8, <1>9, Numbers DEF Counted
<1>11. /\ active' \in Int /\ failures' \in Nat /\ leaked' \in Nat /\ twice' \in Nat
       /\ cancelledIds' \subseteq Correlations /\ lateWork' = {}
       /\ held' = [held EXCEPT ![x] = old]
  BY <1>1, <1>2, <1>7, Numbers
<1> QED
  BY <1>1, <1>4, <1>5, <1>10, <1>11, RunMoves

\* A retried execution asks again what its entry was asked.
LEMMA AskedAgain ==
  ASSUME JobsInv, NEW y \in Executions, saved[y] = "failed",
         NEW c \in Correlations, NEW permitted \in BOOLEAN
  PROVE  Again(held[y].request, c, permitted) \in Request
<1>1. held[y] \in Execution
  BY JobsAssumption DEF JobsInv, RunFits, ExecutionStates
<1> QED
  BY <1>1 DEF Execution, Request, Again

LEMMA JobsInvStep == JobsInv /\ [JobsNext]_jobVars => JobsInv'
<1> SUFFICES ASSUME JobsInv, [JobsNext]_jobVars PROVE JobsInv'
  OBVIOUS
<1>1. CASE UNCHANGED jobVars
  <2>1. JobsTypeOK'
    BY <1>1 DEF jobVars, JobsInv, JobsTypeOK
  <2>2. Counted'
    BY <1>1 DEF jobVars, JobsInv, Counted, FailedRows, At, Decremented
  <2>3. \A x \in Executions : RunFits(held[x], saved[x], worked[x])'
    BY <1>1 DEF jobVars, JobsInv, RunFits, RowFits
  <2>4. lateWork' = {} /\ UNCHANGED <<held, saved, worker, worked>>
    BY <1>1 DEF jobVars, JobsInv
  <2>5. ~At("idle")' => InHand(worker'.at, held'[worker'.of], saved'[worker'.of], worked'[worker'.of])
    BY <2>4 DEF JobsInv, At
  <2> QED
    BY <2>1, <2>2, <2>3, <2>4, <2>5 DEF JobsInv, InHand
<1>2. ASSUME NEW x \in Executions, RunNow(x) PROVE JobsInv'
  BY <1>2, JobsAssumption, RefuseStep, BeginStep DEF RunNow
<1>3. ASSUME NEW x \in Executions, NEW y \in Executions, RetryExecution(x, y) PROVE JobsInv'
  BY <1>3, AskedAgain, RefuseStep, BeginStep DEF RetryExecution, FreshIds
<1>4. CASE StopCancelled
  BY <1>4, PlainEndStep DEF StopCancelled, At
<1>5. CASE Invalid
  BY <1>5, PlainEndStep DEF Invalid, At
<1>6. CASE TooLate
  BY <1>6, PlainEndStep DEF TooLate, At
<1> QED
  BY <1>1, <1>2, <1>3, <1>4, <1>5, <1>6, StartWorkStep, JobWorkStep, WorkRaisesStep, SucceedStep,
     SuccessIsLostStep, NextAttemptStep, SettleStep, AbandonStep, CancelStep DEF JobsNext

\* However many executions raise, are too slow, are cancelled or retried: a row tells its
\* attempts, the plan is carried out at most once per attempt and only with permission and
\* grant, no work is without a row, and the monitor is off by what the history explains
\* (BackgroundJobRunner.run, retry_execution).
THEOREM JobsAreSafe == JobsSpec => []JobsSafe
<1>1. JobsSpec => []JobsInv
  BY JobsInvInit, JobsInvStep, PTL DEF JobsSpec
<1> QED
  BY <1>1, JobsInvIsSafe, PTL

-----------------------------------------------------------------------------
(* The orchestration pipeline.                                              *)

Acted == IF acted THEN 1 ELSE 0

\* What one try of the loop may call.
PerTry == MaximumRounds * MaxCalls

\* The call whose handler was invoked and has not come back.
Under(c) == IF stage = "calls" /\ acted /\ Head(pending) = c THEN 1 ELSE 0

Early == {"idle", "route", "step"}
Ongoing == {"route", "step", "model", "calls", "assemble"}

\* What the stage says of the rest.
StageFits ==
    /\ stage = "idle" => outcome = "idle"
    /\ stage \in Ongoing => outcome = "running"
    /\ stage = "done" => outcome \notin {"idle", "running"}
    /\ stage \in {"step", "model", "calls", "assemble"} => request.gated = FALSE
    /\ stage \in {"idle", "route"} => tries = 0 /\ performed = 0
    /\ stage \in Early =>
          /\ action = "none" /\ evidence \subseteq {"given"}
          /\ executions = <<>> /\ recorded = <<>> /\ round = 0
    /\ stage \in {"idle", "route", "model", "assemble"} => acted = FALSE
    /\ stage = "model" => round < MaximumRounds
    /\ stage = "calls" /\ acted => pending # <<>>
    /\ stage = "assemble" => recorded = executions

StepFits ==
    /\ request.gated => performed = 0
    /\ stage = "step" => performed <= tries + Acted /\ (acted => performed > 0)
    /\ performed <= MaximumRetries + 1
    /\ "live" \in evidence => action = "succeeded" /\ performed > 0
    /\ "gap" \in evidence => action = "failed"

\* Invocations of a call and the rows about it.
CallFits(c) ==
    /\ Done(kept, c) <= invoked[c] /\ Done(recorded, c) <= invoked[c]
    /\ Done(executions, c) + Under(c) <= invoked[c]
    /\ stage # "done" /\ (tries = 0 \/ stage \in Early) =>
          Done(executions, c) + Under(c) = invoked[c]
    /\ invoked[c] > 0 => Authorized(c) /\ c.action # "unknown"
    /\ stage \in Early \/ request.gated => invoked[c] = 0

\* Calls made and calls pending, within what tries and rounds allow.
LoopFits ==
    /\ Total \in Nat /\ Total <= (MaximumRetries + 1) * PerTry
    /\ stage \in Early => Total = 0
    /\ stage = "model" => Total <= tries * PerTry + round * MaxCalls
    /\ stage = "calls" => Total + Len(pending) <= tries * PerTry + round * MaxCalls + Acted

AnswerFits ==
    outcome = "answered" =>
        /\ kept = executions
        /\ tries = 0 => \A c \in Calls : Done(kept, c) = invoked[c]
        /\ answer.kind \notin {"malformed", "action_claim"}
        /\ answer.kind = "state_claim" =>
              \/ request.mode = "conversation" /\ request.target # "market"
              \/ answer.cites \cap evidence # {}

\* The invariant: what was invoked is the sum of what the try under way recorded, the call
\* under way, and what forgotten tries may have made.
PipelineInv ==
    /\ OrchestrationTypeOK
    /\ StageFits /\ StepFits /\ LoopFits /\ AnswerFits
    /\ \A c \in Calls : CallFits(c)

-----------------------------------------------------------------------------
(* What is added up and counted.                                            *)

LEMMA DoneNone == \A c : Done(<<>>, c) = 0
<1> SUFFICES ASSUME NEW c PROVE Done(<<>>, c) = 0
  OBVIOUS
<1>1. {i \in 1 .. Len(<<>>) : <<>>[i].call = c /\ <<>>[i].status # "authorization_denied"} = {}
  OBVIOUS
<1> QED
  BY <1>1, FS_EmptySet DEF Done

LEMMA DonePrimed ==
  \A c : /\ Done(kept, c)' = Done(kept', c) /\ Done(recorded, c)' = Done(recorded', c)
         /\ Done(executions, c)' = Done(executions', c)
BY DEF Done

LEMMA DoneType ==
  ASSUME NEW log \in Seq(NativeExecution), NEW c PROVE Done(log, c) \in Nat
<1> DEFINE I == {i \in 1 .. Len(log) : log[i].call = c /\ log[i].status # "authorization_denied"}
<1>1. I \subseteq 1 .. Len(log) /\ IsFiniteSet(1 .. Len(log))
  BY LenProperties, FS_Interval
<1>2. Cardinality(I) \in Nat
  BY <1>1, FS_Subset, FS_CardinalityType
<1> QED
  BY <1>2 DEF Done

LEMMA DoneMore ==
  ASSUME NEW log \in Seq(NativeExecution), NEW x \in NativeExecution, NEW c,
         NEW more, more = Append(log, x)
  PROVE  /\ Done(log, c) \in Nat
         /\ Done(more, c) = Done(log, c) +
              (IF x.call = c /\ x.status # "authorization_denied" THEN 1 ELSE 0)
<1> DEFINE n == Len(log)
           I == {i \in 1 .. n : log[i].call = c /\ log[i].status # "authorization_denied"}
           J == {i \in 1 .. Len(more) : more[i].call = c /\ more[i].status # "authorization_denied"}
<1>1. n \in Nat /\ Len(more) = n + 1 /\ more[n + 1] = x /\ \A i \in 1 .. n : more[i] = log[i]
  BY AppendProperties, LenProperties
<1>2. IsFiniteSet(I) /\ Cardinality(I) \in Nat /\ n + 1 \notin I
  <2>1. I \subseteq 1 .. n /\ IsFiniteSet(1 .. n)
    BY <1>1, FS_Interval
  <2> QED
    BY <1>1, <2>1, FS_Subset, FS_CardinalityType
<1>3. J = IF x.call = c /\ x.status # "authorization_denied" THEN I \cup {n + 1} ELSE I
  BY <1>1
<1>4. Done(log, c) = Cardinality(I) /\ Done(more, c) = Cardinality(J)
  BY DEF Done
<1> HIDE DEF I, J, n
<1>5. Cardinality(I \cup {n + 1}) = Cardinality(I) + 1
  BY <1>2, FS_AddElement
<1> QED
  BY <1>2, <1>3, <1>4, <1>5

LEMMA SumOfZeros ==
  ASSUME NEW S, IsFiniteSet(S), NEW w, \A x \in S : w[x] = 0
  PROVE  SumFunctionOnSet(w, S) = 0
<1> DEFINE odd == {s \in SUBSET S : SumFunctionOnSet(w, s) # 0}
<1>1. ASSUME odd # {} PROVE FALSE
  <2>1. PICK s \in odd : \A x \in s : \A t \in SUBSET (s \ {x}) : t \notin odd
    <3>1. odd \subseteq SUBSET S
      OBVIOUS
    <3> HIDE DEF odd
    <3> QED
      BY <1>1, <3>1, SmallestSubset
  <2>2. s \subseteq S /\ IsFiniteSet(s) /\ SumFunctionOnSet(w, s) # 0
    BY FS_Subset
  <2>3. s # {}
    BY <2>2, SumOfNone
  <2>4. AnyOf(s) \in s
    BY <2>3, AnyIsIn
  <2>5. s \ {AnyOf(s)} \notin odd /\ s \ {AnyOf(s)} \in SUBSET S
    BY <2>1, <2>2, <2>4
  <2>6. SumFunctionOnSet(w, s \ {AnyOf(s)}) = 0
    BY <2>5
  <2>7. SumFunctionOnSet(w, s) = w[AnyOf(s)] + SumFunctionOnSet(w, s \ {AnyOf(s)})
    BY <2>2, <2>3, SumFirst
  <2> QED
    BY <2>2, <2>4, <2>6, <2>7
<1>2. S \notin odd
  BY <1>1
<1> QED
  BY <1>2

LEMMA OneMoreCall ==
  ASSUME NEW v \in [Calls -> Nat], NEW c \in Calls, NEW w, w = [v EXCEPT ![c] = @ + 1],
         SumFunctionOnSet(v, Calls) \in Nat
  PROVE  SumFunctionOnSet(w, Calls) = SumFunctionOnSet(v, Calls) + 1
<1> DEFINE R == Calls \ {c}
<1>1. IsFiniteSet(Calls) /\ \A x \in Calls : v[x] \in Int /\ w[x] \in Int
  BY OrchestrationAssumption
<1>2. IsFiniteSet(R) /\ \A x \in R : w[x] = v[x]
  BY <1>1, FS_RemoveElement
<1>3. SumFunctionOnSet(v, Calls) = v[c] + SumFunctionOnSet(v, R)
  BY <1>1, SumSplit
<1>4. SumFunctionOnSet(w, Calls) = w[c] + SumFunctionOnSet(w, R)
  BY <1>1, SumSplit
<1>5. SumFunctionOnSet(w, R) = SumFunctionOnSet(v, R) /\ SumFunctionOnSet(v, R) \in Int
  BY <1>1, <1>2, SumOfSame, SumType
<1> QED
  BY <1>3, <1>4, <1>5

LEMMA Products ==
  /\ PerTry \in Nat /\ MaximumRetries \in Nat /\ MaximumRounds \in Nat /\ MaxCalls \in Nat
  /\ (MaximumRetries + 1) * PerTry = (MaximumRetries + 1) * MaximumRounds * MaxCalls
  /\ (MaximumRetries + 1) * PerTry \in Nat
  /\ 0 * PerTry = 0 /\ 0 * MaxCalls = 0
  /\ \A t \in Nat : /\ t * PerTry \in Nat /\ (t + 1) * PerTry = t * PerTry + PerTry
                    /\ t <= MaximumRetries => t * PerTry + PerTry <= (MaximumRetries + 1) * PerTry
  /\ \A r \in Nat : /\ r * MaxCalls \in Nat /\ (r + 1) * MaxCalls = r * MaxCalls + MaxCalls
                    /\ r <= MaximumRounds => r * MaxCalls <= PerTry
<1>1. MaximumRetries \in Nat /\ MaximumRounds \in Nat /\ MaxCalls \in Nat
  BY OrchestrationAssumption
<1>2. \A a, b, c \in Nat : (a + 1) * b * c = (a + 1) * (b * c) /\ a * b \in Nat
  OBVIOUS
<1>3. \A a, b \in Nat : (a + 1) * b = a * b + b
  OBVIOUS
<1>4. \A a, b, c \in Nat : a <= b => a * c <= b * c
  OBVIOUS
<1>5. PerTry \in Nat
  BY <1>1, <1>2 DEF PerTry
<1>6. (MaximumRetries + 1) * PerTry = (MaximumRetries + 1) * MaximumRounds * MaxCalls
  BY <1>1, <1>2 DEF PerTry
<1>7. MaximumRetries + 1 \in Nat /\ (MaximumRetries + 1) * PerTry \in Nat
  BY <1>1, <1>2, <1>5
<1>8. ASSUME NEW t \in Nat
      PROVE  /\ t * PerTry \in Nat /\ (t + 1) * PerTry = t * PerTry + PerTry
             /\ t <= MaximumRetries => t * PerTry + PerTry <= (MaximumRetries + 1) * PerTry
  <2>1. t * PerTry \in Nat /\ (t + 1) * PerTry = t * PerTry + PerTry
    BY <1>2, <1>3, <1>5
  <2>2. t <= MaximumRetries => (t + 1) * PerTry <= (MaximumRetries + 1) * PerTry
    BY <1>1, <1>4, <1>5, <1>7
  <2> QED
    BY <2>1, <2>2
<1>9. ASSUME NEW r \in Nat
      PROVE  /\ r * MaxCalls \in Nat /\ (r + 1) * MaxCalls = r * MaxCalls + MaxCalls
             /\ r <= MaximumRounds => r * MaxCalls <= PerTry
  BY <1>1, <1>2, <1>3, <1>4 DEF PerTry
<1> QED
  BY <1>1, <1>5, <1>6, <1>7, <1>8, <1>9

-----------------------------------------------------------------------------
(* The invariant.                                                           *)

LEMMA PipelineInvIsSafe == PipelineInv => OrchestrationSafe
<1> SUFFICES ASSUME PipelineInv PROVE OrchestrationSafe
  OBVIOUS
<1>1. CallsWereConfirmed
  <2>1. \A c \in Calls : c.action \in NativeToolAction \cup {"unknown"}
    BY OrchestrationAssumption
  <2> QED
    BY <2>1 DEF PipelineInv, StepFits, CallFits, CallsWereConfirmed, Authorized, NativeToolAction
<1>2. WorkIsBounded
  BY Products DEF PipelineInv, StepFits, LoopFits, WorkIsBounded
<1>3. RowsTellCalls
  BY DEF PipelineInv, CallFits, AnswerFits, RowsTellCalls
<1>4. AnswerIsBacked
  BY DEF PipelineInv, StepFits, AnswerFits, AnswerIsBacked
<1> QED
  BY <1>1, <1>2, <1>3, <1>4 DEF PipelineInv, OrchestrationSafe

LEMMA PipelineInvInit == OrchestrationInit => PipelineInv
<1> SUFFICES ASSUME OrchestrationInit PROVE PipelineInv
  OBVIOUS
<1>1. <<>> \in Seq(Calls) /\ <<>> \in Seq(NativeExecution)
  OBVIOUS
<1>2. OrchestrationTypeOK
  <2>1. request \in OrchestrationRequest /\ tries \in 0 .. MaximumRetries /\ round \in 0 .. MaximumRounds
    BY OrchestrationAssumption DEF OrchestrationInit
  <2>2. /\ pending \in Seq(Calls) /\ executions \in Seq(NativeExecution)
        /\ recorded \in Seq(NativeExecution) /\ kept \in Seq(NativeExecution)
    BY <1>1 DEF OrchestrationInit
  <2>3. /\ invoked \in [Calls -> Nat] /\ evidence \subseteq Evidence /\ performed \in Nat
        /\ action \in ExecutedAction /\ answer \in Texts \cup {NoText}
        /\ acted \in BOOLEAN /\ expired \in BOOLEAN
    BY DEF OrchestrationInit, ExecutedAction
  <2> QED
    BY <2>1, <2>2, <2>3 DEF OrchestrationInit, OrchestrationTypeOK
<1>3. StageFits
  BY DEF OrchestrationInit, StageFits, Ongoing, Early
<1>4. StepFits
  BY OrchestrationAssumption DEF OrchestrationInit, StepFits
<1>5. \A c \in Calls : CallFits(c)
  BY DoneNone DEF OrchestrationInit, CallFits, Under
<1>6. Total = 0
  BY SumOfZeros, OrchestrationAssumption DEF OrchestrationInit, Total
<1>7. LoopFits
  BY <1>6, Products DEF OrchestrationInit, LoopFits, Early
<1>8. AnswerFits
  BY DEF OrchestrationInit, AnswerFits
<1> QED
  BY <1>2, <1>3, <1>4, <1>5, <1>7, <1>8 DEF PipelineInv

\* Numbers, and what was made of the calls.
LEMMA Types ==
  ASSUME PipelineInv
  PROVE  /\ tries \in Nat /\ tries <= MaximumRetries /\ round \in Nat /\ round <= MaximumRounds
         /\ performed \in Nat /\ acted \in BOOLEAN /\ expired \in BOOLEAN
         /\ invoked \in [Calls -> Nat] /\ pending \in Seq(Calls) /\ Len(pending) \in Nat
         /\ executions \in Seq(NativeExecution) /\ recorded \in Seq(NativeExecution)
         /\ kept \in Seq(NativeExecution) /\ request \in OrchestrationRequest
         /\ request.gated \in BOOLEAN
BY OrchestrationAssumption, LenProperties
   DEF PipelineInv, OrchestrationTypeOK, OrchestrationRequest

\* The request ends without an answer.
LEMMA EndStep ==
  ASSUME PipelineInv, outcome = "running", stage' = "done",
         outcome' \in {"approval_required", "timeout", "exhausted", "over_budget", "failed", "died"},
         kept' \in {kept, recorded}, UNCHANGED <<recorded, answer>>,
         UNCHANGED <<request, tries, acted, callVars, loopVars, expired>>
  PROVE  PipelineInv'
<1>1. UNCHANGED <<request, tries, acted, performed, action, evidence, round, pending, executions,
                  invoked, recorded, answer, expired>>
  BY DEF callVars, loopVars
<1>2. OrchestrationTypeOK'
  BY <1>1 DEF PipelineInv, OrchestrationTypeOK
<1>3. StageFits'
  BY DEF StageFits, Ongoing, Early
<1>4. StepFits'
  BY <1>1 DEF PipelineInv, StepFits
<1>5. ASSUME NEW c \in Calls
      PROVE  /\ Done(kept', c) <= invoked[c] /\ Done(recorded, c) <= invoked[c]
             /\ Done(executions, c) <= invoked[c]
             /\ invoked[c] > 0 => Authorized(c) /\ c.action # "unknown"
             /\ request.gated => invoked[c] = 0
  <2>1. CallFits(c)
    BY DEF PipelineInv
  <2>2. Done(executions, c) \in Nat /\ invoked[c] \in Nat
    BY Types, DoneType
  <2> QED
    BY <2>1, <2>2 DEF CallFits, Under
<1>6. \A c \in Calls : CallFits(c)'
  <2>1. \A c \in Calls : Under(c)' = 0 /\ Done(executions, c) \in Nat
    BY Types, DoneType DEF Under
  <2> QED
    BY <1>1, <1>5, <2>1, DonePrimed DEF CallFits, Early, Authorized
<1>7. Total' = Total
  BY <1>1 DEF Total
<1>8. LoopFits'
  BY <1>7 DEF PipelineInv, LoopFits, Early
<1>9. AnswerFits'
  BY DEF AnswerFits
<1> QED
  BY <1>2, <1>3, <1>4, <1>6, <1>8, <1>9 DEF PipelineInv

LEMMA EndsSteps ==
  ASSUME PipelineInv,
         \/ NoRoute \/ RequireApproval \/ Exhausted \/ OperationTooSlow \/ CutOff \/ OverBudget
         \/ Interrupted \/ ProcessDies
  PROVE  PipelineInv'
<1>1. outcome = "running"
  BY DEF PipelineInv, StageFits, Ongoing, NoRoute, RequireApproval, Exhausted, OperationTooSlow,
     CutOff, OverBudget, Interrupted, ProcessDies, LoopRaises, HandlesCall
<1>2. CASE ProcessDies
  BY <1>1, <1>2, EndStep DEF ProcessDies
<1>3. CASE NoRoute
  BY <1>1, <1>3, EndStep DEF NoRoute, Throw
<1>4. CASE RequireApproval
  BY <1>1, <1>4, EndStep DEF RequireApproval, Throw
<1>5. CASE Exhausted
  BY <1>1, <1>5, EndStep DEF Exhausted, Throw
<1>6. CASE OperationTooSlow
  BY <1>1, <1>6, EndStep DEF OperationTooSlow, Throw
<1>7. CASE CutOff
  BY <1>1, <1>7, EndStep DEF CutOff, Throw
<1>8. CASE OverBudget
  BY <1>1, <1>8, EndStep DEF OverBudget, Throw
<1>9. CASE Interrupted
  BY <1>1, <1>9, EndStep DEF Interrupted, Throw
<1> QED
  BY <1>2, <1>3, <1>4, <1>5, <1>6, <1>7, <1>8, <1>9

\* A step that leaves the calls and their rows alone.
LEMMA CallsStay ==
  ASSUME PipelineInv, UNCHANGED <<request, invoked, executions, recorded, kept>>,
         \A c \in Calls : Under(c)' = Under(c), stage # "done", stage' # "done",
         stage' \in Early => stage \in Early,
         tries' = 0 => tries = 0 \/ stage \in Early
  PROVE  /\ \A c \in Calls : CallFits(c)'
         /\ Total' = Total
<1>1. ASSUME NEW c \in Calls PROVE CallFits(c)'
  <2>1. CallFits(c) /\ Under(c)' = Under(c)
    BY DEF PipelineInv
  <2>2. /\ Done(kept, c)' = Done(kept, c) /\ Done(recorded, c)' = Done(recorded, c)
        /\ Done(executions, c)' = Done(executions, c)
    BY DonePrimed
  <2> QED
    BY <2>1, <2>2 DEF CallFits, Authorized
<1> QED
  BY <1>1 DEF Total

\* The steps before the model is asked: no call has been made.
LEMMA EarlyStep ==
  ASSUME PipelineInv, stage \in Early, stage' \in {"route", "step", "model"},
         outcome' = "running", UNCHANGED <<request, loopVars, recorded, kept, answer, expired>>,
         stage' \in {"step", "model"} => request.gated = FALSE,
         tries' \in 0 .. MaximumRetries, acted' \in BOOLEAN, performed' \in Nat,
         action' \in ExecutedAction, evidence' \subseteq Evidence,
         stage' # "step" => acted' = FALSE,
         stage' = "route" => tries' = 0 /\ performed' = 0,
         stage' \in {"route", "step"} => action' = "none" /\ evidence' \subseteq {"given"},
         StepFits'
  PROVE  PipelineInv'
<1>1. UNCHANGED <<request, round, pending, executions, invoked, recorded, kept, answer, expired>>
  BY DEF loopVars
<1>2. OrchestrationTypeOK'
  BY <1>1 DEF PipelineInv, OrchestrationTypeOK
<1>3. /\ executions = <<>> /\ recorded = <<>> /\ round = 0 /\ Total = 0
  BY DEF PipelineInv, StageFits, LoopFits
<1>4. StageFits'
  BY <1>1, <1>3, OrchestrationAssumption DEF StageFits, Early, Ongoing
<1>5. \A c \in Calls : Under(c)' = Under(c)
  BY DEF Under, Early
<1>6. (\A c \in Calls : CallFits(c)') /\ Total' = Total
  BY <1>1, <1>5, CallsStay DEF Early
<1>7. LoopFits'
  <2>1. PICK t \in Nat : t = tries'
    BY OrchestrationAssumption
  <2>2. t * PerTry \in Nat /\ 0 * MaxCalls = 0 /\ (MaximumRetries + 1) * PerTry \in Nat
    BY Products
  <2>3. Total' = 0 /\ round' = 0 /\ stage' # "calls" /\ PerTry' = PerTry
    BY <1>1, <1>3, <1>6 DEF PerTry
  <2>4. tries' * PerTry \in Nat /\ round' * MaxCalls = 0
    BY <2>1, <2>2, <2>3
  <2> HIDE DEF PerTry
  <2> QED
    BY <2>2, <2>3, <2>4 DEF LoopFits
<1>8. AnswerFits'
  BY DEF AnswerFits
<1> QED
  BY <1>2, <1>4, <1>6, <1>7, <1>8 DEF PipelineInv

LEMMA ExecuteStep == ASSUME PipelineInv, Execute PROVE PipelineInv'
<1>1. /\ stage = "idle" /\ stage' = "route" /\ outcome' = "running"
      /\ evidence' \in {{}, {"given"}}
      /\ UNCHANGED <<request, tries, acted, performed, action, loopVars, recorded, kept, answer,
                     expired>>
  BY DEF Execute
<1>2. stage \in Early /\ acted = FALSE /\ action = "none" /\ performed = 0 /\ tries = 0
  BY <1>1 DEF PipelineInv, StageFits, Early
<1>3. StepFits'
  BY <1>1, <1>2, OrchestrationAssumption DEF StepFits
<1>4. tries' \in 0 .. MaximumRetries /\ acted' \in BOOLEAN
      /\ action' \in ExecutedAction /\ evidence' \subseteq Evidence
  <2>1. tries' = 0 /\ acted' = FALSE /\ action' = "none"
    BY <1>1, <1>2
  <2>2. evidence' \subseteq Evidence
    BY <1>1 DEF Evidence
  <2>3. 0 \in 0 .. MaximumRetries
    BY OrchestrationAssumption
  <2> QED
    BY <2>1, <2>2, <2>3 DEF ExecutedAction
<1>5. /\ UNCHANGED <<request, loopVars, recorded, kept, answer, expired>>
      /\ performed' \in Nat /\ performed' = 0 /\ tries' = 0 /\ acted' = FALSE
      /\ action' = "none" /\ evidence' \subseteq {"given"}
  BY <1>1, <1>2
<1>6. outcome' = "running" /\ stage' = "route" /\ stage \in Early
  BY <1>1, <1>2
<1> QED
  BY <1>3, <1>4, <1>5, <1>6, EarlyStep

LEMMA PlannedStep == ASSUME PipelineInv, Planned PROVE PipelineInv'
<1>1. /\ stage = "route" /\ request.gated = FALSE /\ stage' \in {"step", "model"}
      /\ UNCHANGED <<request, tries, acted, callVars, loopVars, recorded, kept, answer, outcome,
                     expired>>
  BY Types DEF Planned, TurnTo, endVars
<1>2. /\ stage \in Early /\ acted = FALSE /\ action = "none" /\ performed = 0 /\ tries = 0
      /\ evidence \subseteq {"given"} /\ outcome = "running"
  BY <1>1 DEF PipelineInv, StageFits, Early, Ongoing
<1>3. UNCHANGED <<performed, action, evidence>>
  BY <1>1 DEF callVars
<1>4. StepFits'
  BY <1>1, <1>2, <1>3, OrchestrationAssumption DEF StepFits, Acted
<1>5. tries' \in 0 .. MaximumRetries /\ acted' \in BOOLEAN
      /\ action' \in ExecutedAction /\ evidence' \subseteq Evidence
  <2>1. tries' = 0 /\ acted' = FALSE /\ action' = "none"
    BY <1>1, <1>2, <1>3
  <2>2. evidence' \subseteq Evidence
    BY <1>2, <1>3 DEF Evidence
  <2>3. 0 \in 0 .. MaximumRetries
    BY OrchestrationAssumption
  <2> QED
    BY <2>1, <2>2, <2>3 DEF ExecutedAction
<1>6. /\ UNCHANGED <<request, loopVars, recorded, kept, answer, expired>>
      /\ performed' \in Nat /\ acted' = FALSE /\ action' = "none" /\ evidence' \subseteq {"given"}
  BY <1>1, <1>2, <1>3
<1>7. outcome' = "running" /\ stage' \in {"step", "model"} /\ request.gated = FALSE
  BY <1>1, <1>2
<1> QED
  BY <1>2, <1>4, <1>5, <1>6, <1>7, EarlyStep

LEMMA PlanStep ==
  ASSUME PipelineInv, StepActs \/ StepSucceeds \/ StepRaises \/ StepDegrades
  PROVE  PipelineInv'
<1>1. /\ stage = "step" /\ outcome = "running" /\ request.gated = FALSE
      /\ tries \in 0 .. MaximumRetries /\ performed \in Nat /\ action = "none"
      /\ evidence \subseteq {"given"} /\ stage \in Early
      /\ performed <= tries + Acted /\ (acted = TRUE => performed > 0)
      /\ performed <= MaximumRetries + 1 /\ acted \in BOOLEAN
  BY Types DEF PipelineInv, OrchestrationTypeOK, StageFits, StepFits, Early, Ongoing, StepActs,
     StepSucceeds, StepRaises, StepDegrades
<1>2. UNCHANGED <<request, loopVars, recorded, kept, answer, expired>> /\ outcome' = outcome
  BY DEF StepActs, StepSucceeds, StepRaises, StepDegrades, TurnTo, endVars, callVars
<1>3. CASE StepActs
  <2>1. /\ acted = FALSE /\ acted' = TRUE /\ performed' = performed + 1
        /\ UNCHANGED <<stage, tries, action, evidence>>
    BY <1>1, <1>3 DEF StepActs
  <2>2. StepFits'
    BY <1>1, <1>2, <2>1, OrchestrationAssumption DEF StepFits, Acted
  <2>3. action' \in ExecutedAction /\ evidence' \subseteq Evidence /\ stage' = "step"
        /\ performed' \in Nat /\ tries' \in 0 .. MaximumRetries
    BY <1>1, <2>1 DEF ExecutedAction, Evidence
  <2> QED
    BY <1>1, <1>2, <2>1, <2>2, <2>3, EarlyStep
<1>4. CASE StepRaises
  <2>1. /\ acted' = FALSE /\ tries' = tries + 1 /\ tries < MaximumRetries
        /\ UNCHANGED <<stage, performed, action, evidence>>
    BY <1>4 DEF StepRaises, CountTry, callVars
  <2>2. StepFits'
    BY <1>1, <1>2, <2>1, OrchestrationAssumption DEF StepFits, Acted
  <2>3. action' \in ExecutedAction /\ evidence' \subseteq Evidence /\ stage' = "step"
        /\ performed' \in Nat /\ tries' \in 0 .. MaximumRetries
    BY <1>1, <2>1, OrchestrationAssumption DEF ExecutedAction, Evidence
  <2> QED
    BY <1>1, <1>2, <2>1, <2>2, <2>3, EarlyStep
<1>5. ASSUME NEW ok \in BOOLEAN, evidence' \in EvidenceOf(ok),
             action' = IF ok = TRUE THEN "succeeded" ELSE "failed",
             ok = TRUE => acted = TRUE, FreshOperation, TurnTo("model"),
             UNCHANGED performed
      PROVE  PipelineInv'
  <2>1. tries' = 0 /\ acted' = FALSE /\ stage' = "model"
    BY <1>5 DEF FreshOperation, TurnTo
  <2>2. /\ "live" \in evidence' => ok = TRUE
        /\ "gap" \in evidence' => ok = FALSE
        /\ evidence' \subseteq Evidence
    BY <1>1, <1>5 DEF EvidenceOf, Evidence
  <2>3. StepFits'
    BY <1>1, <1>2, <1>5, <2>1, <2>2 DEF StepFits
  <2>4. action' \in ExecutedAction /\ tries' \in 0 .. MaximumRetries /\ performed' \in Nat
    BY <1>1, <1>5, <2>1, OrchestrationAssumption DEF ExecutedAction
  <2> QED
    BY <1>1, <1>2, <2>1, <2>2, <2>3, <2>4, EarlyStep
<1>6. CASE StepSucceeds
  BY <1>5, <1>6 DEF StepSucceeds
<1>7. CASE StepDegrades
  BY <1>5, <1>7 DEF StepDegrades
<1> QED
  BY <1>3, <1>4, <1>6, <1>7

\* The steps of the model and of its tool loop.
LEMMA LoopStep ==
  ASSUME PipelineInv, stage \in {"model", "calls", "assemble"},
         stage' \in {"model", "calls", "assemble"}, outcome' = outcome,
         UNCHANGED <<request, callVars, kept>>,
         tries' \in 0 .. MaximumRetries, acted' \in BOOLEAN, round' \in 0 .. MaximumRounds,
         pending' \in Seq(Calls), executions' \in Seq(NativeExecution),
         recorded' \in Seq(NativeExecution), invoked' \in [Calls -> Nat],
         answer' \in Texts \cup {NoText}, expired' \in BOOLEAN,
         stage' # "calls" => acted' = FALSE,
         stage' = "calls" /\ acted' = TRUE => pending' # <<>>,
         stage' = "model" => round' < MaximumRounds,
         stage' = "assemble" => recorded' = executions',
         LoopFits', \A c \in Calls : CallFits(c)'
  PROVE  PipelineInv'
<1>1. /\ UNCHANGED <<request, performed, action, evidence, kept>>
      /\ outcome = "running" /\ outcome' = "running" /\ request.gated = FALSE
  BY DEF callVars, PipelineInv, StageFits, Ongoing
<1>2. OrchestrationTypeOK'
  BY <1>1 DEF PipelineInv, OrchestrationTypeOK
<1>3. StageFits'
  BY <1>1 DEF StageFits, Early, Ongoing
<1>4. StepFits'
  BY <1>1 DEF PipelineInv, StepFits
<1>5. AnswerFits'
  BY <1>1 DEF AnswerFits
<1> QED
  BY <1>2, <1>3, <1>4, <1>5 DEF PipelineInv

LEMMA ModelAnswersStep == ASSUME PipelineInv, ModelAnswers PROVE PipelineInv'
<1>1. /\ stage = "model" /\ stage' = "assemble" /\ answer' \in Texts /\ recorded' = executions
      /\ UNCHANGED <<request, tries, acted, callVars, loopVars, kept, outcome, expired>>
  BY DEF ModelAnswers
<1>2. acted = FALSE /\ UNCHANGED <<round, pending, executions, invoked>>
  BY <1>1 DEF PipelineInv, StageFits, loopVars
<1>3. ASSUME NEW c \in Calls PROVE CallFits(c)'
  <2>1. CallFits(c) /\ Under(c)' = 0 /\ Under(c) = 0
    BY <1>1, <1>2 DEF PipelineInv, Under
  <2>2. /\ Done(kept, c)' = Done(kept, c) /\ Done(recorded, c)' = Done(executions, c)
        /\ Done(executions, c)' = Done(executions, c) /\ Done(executions, c) \in Nat
        /\ invoked[c] \in Nat
    BY <1>1, <1>2, DonePrimed, DoneType, Types
  <2> QED
    BY <1>1, <1>2, <2>1, <2>2 DEF CallFits, Authorized, Early
<1>4. LoopFits'
  <2>1. Total' = Total /\ PerTry' = PerTry
    BY <1>2 DEF Total, PerTry
  <2> QED
    BY <1>1, <2>1 DEF PipelineInv, LoopFits, Early
<1>5. /\ tries' \in 0 .. MaximumRetries /\ acted' \in BOOLEAN /\ round' \in 0 .. MaximumRounds
      /\ pending' \in Seq(Calls) /\ executions' \in Seq(NativeExecution)
      /\ recorded' \in Seq(NativeExecution) /\ invoked' \in [Calls -> Nat]
      /\ answer' \in Texts \cup {NoText} /\ expired' \in BOOLEAN
  BY <1>1, <1>2 DEF PipelineInv, OrchestrationTypeOK
<1>6. outcome' = outcome /\ UNCHANGED <<request, callVars, kept>> /\ acted' = FALSE
      /\ recorded' = executions'
  BY <1>1, <1>2
<1> QED
  BY <1>1, <1>3, <1>4, <1>5, <1>6, LoopStep

LEMMA ModelCallsStep == ASSUME PipelineInv, ModelCalls PROVE PipelineInv'
<1>1. /\ stage = "model" /\ stage' = "calls" /\ round' = round + 1
      /\ UNCHANGED <<request, tries, acted, callVars, recorded, kept, answer, outcome, executions,
                     invoked, expired>>
  BY DEF ModelCalls, TurnTo, endVars
<1>2. PICK n \in 1 .. MaxCalls : pending' \in [1 .. n -> Calls]
  BY DEF ModelCalls
<1>3. /\ acted = FALSE /\ round < MaximumRounds /\ outcome = "running"
      /\ Total <= tries * PerTry + round * MaxCalls /\ Total \in Nat
      /\ Total <= (MaximumRetries + 1) * PerTry
  BY <1>1 DEF PipelineInv, StageFits, LoopFits, Ongoing
<1>4. n \in Nat /\ n <= MaxCalls /\ MaxCalls \in Nat
  BY <1>2, OrchestrationAssumption
<1>5. pending' \in Seq(Calls) /\ Len(pending') = n
  <2>1. PICK p \in [1 .. n -> Calls] : p = pending'
    BY <1>2
  <2>2. p \in Seq(Calls) /\ Len(p) = n
    BY <1>4, SeqDef, LenProperties
  <2> QED
    BY <2>1, <2>2
<1>6. ASSUME NEW c \in Calls PROVE CallFits(c)'
  <2>1. CallFits(c) /\ Under(c)' = 0 /\ Under(c) = 0
    BY <1>1, <1>3 DEF PipelineInv, Under
  <2>2. /\ Done(kept, c)' = Done(kept, c) /\ Done(recorded, c)' = Done(recorded, c)
        /\ Done(executions, c)' = Done(executions, c)
    BY <1>1, DonePrimed
  <2> QED
    BY <1>1, <2>1, <2>2 DEF CallFits, Authorized, Early
<1>7. LoopFits'
  <2>1. Total' = Total /\ PerTry' = PerTry /\ Acted' = 0
    BY <1>1, <1>3 DEF Total, PerTry, Acted
  <2>2. /\ tries \in Nat /\ round \in Nat /\ tries * PerTry \in Nat /\ round * MaxCalls \in Nat
        /\ (round + 1) * MaxCalls = round * MaxCalls + MaxCalls
    BY Types, Products
  <2>3. Total + n <= tries * PerTry + (round + 1) * MaxCalls
    BY <1>3, <1>4, <2>2
  <2>4. Total' + Len(pending') <= tries' * PerTry' + round' * MaxCalls + Acted'
    <3> DEFINE l == tries * PerTry
               k == (round + 1) * MaxCalls
    <3>1. Total' = Total /\ Len(pending') = n /\ tries' * PerTry' = l /\ round' * MaxCalls = k
      BY <1>1, <1>5, <2>1
    <3>2. Total + n <= l + k /\ l \in Nat /\ k \in Nat
      BY <1>4, <2>2, <2>3
    <3> HIDE DEF l, k
    <3> QED
      BY <2>1, <3>1, <3>2
  <2> QED
    BY <1>1, <1>3, <2>1, <2>4 DEF LoopFits, Early
<1>8. /\ tries' \in 0 .. MaximumRetries /\ acted' \in BOOLEAN /\ round' \in 0 .. MaximumRounds
      /\ executions' \in Seq(NativeExecution)
      /\ recorded' \in Seq(NativeExecution) /\ invoked' \in [Calls -> Nat]
      /\ answer' \in Texts \cup {NoText} /\ expired' \in BOOLEAN
  <2>1. round + 1 \in 0 .. MaximumRounds
    BY <1>3, Types, OrchestrationAssumption
  <2> QED
    BY <1>1, <2>1 DEF PipelineInv, OrchestrationTypeOK
<1>9. outcome' = outcome /\ UNCHANGED <<request, callVars, kept>> /\ acted' = FALSE
  BY <1>1, <1>3
<1> QED
  BY <1>1, <1>5, <1>6, <1>7, <1>8, <1>9, LoopStep

LEMMA NextRoundStep == ASSUME PipelineInv, NextRound PROVE PipelineInv'
<1>1. /\ stage = "calls" /\ stage' = "model" /\ pending = <<>> /\ round < MaximumRounds
      /\ UNCHANGED <<request, tries, acted, callVars, round, pending, executions, invoked,
                     recorded, kept, answer, outcome, expired>>
  BY DEF NextRound, TurnTo, endVars, loopVars
<1>2. acted = FALSE /\ acted' = FALSE /\ outcome = "running"
  BY <1>1 DEF PipelineInv, OrchestrationTypeOK, StageFits, Ongoing
<1>3. (\A c \in Calls : CallFits(c)') /\ Total' = Total
  <2>1. \A c \in Calls : Under(c)' = Under(c)
    BY <1>1, <1>2 DEF Under
  <2>2. stage # "done" /\ stage' # "done" /\ stage' \notin Early
        /\ UNCHANGED <<request, invoked, executions, recorded, kept>> /\ tries' = tries
    BY <1>1 DEF Early
  <2> QED
    BY <2>1, <2>2, CallsStay
<1>4. LoopFits'
  <2>1. Total + 0 <= tries * PerTry + round * MaxCalls + 0 /\ Total \in Nat
        /\ Total <= (MaximumRetries + 1) * PerTry
    BY <1>1, <1>2 DEF PipelineInv, LoopFits, Acted
  <2>2. tries \in Nat /\ round \in Nat /\ tries * PerTry \in Nat /\ round * MaxCalls \in Nat
    BY Types, Products
  <2>3. PerTry' = PerTry
    BY DEF PerTry
  <2> QED
    BY <1>1, <1>3, <2>1, <2>2, <2>3 DEF LoopFits, Early
<1>5. /\ tries' \in 0 .. MaximumRetries /\ acted' \in BOOLEAN /\ round' \in 0 .. MaximumRounds
      /\ pending' \in Seq(Calls) /\ executions' \in Seq(NativeExecution)
      /\ recorded' \in Seq(NativeExecution) /\ invoked' \in [Calls -> Nat]
      /\ answer' \in Texts \cup {NoText} /\ expired' \in BOOLEAN
  BY <1>1 DEF PipelineInv, OrchestrationTypeOK
<1>6. outcome' = outcome /\ UNCHANGED <<request, callVars, kept>> /\ round' < MaximumRounds
  BY <1>1
<1> QED
  BY <1>1, <1>2, <1>3, <1>4, <1>5, <1>6, LoopStep

\* What a try of the loop leaves behind fits into what a try may call.
LEMMA TryIsBounded ==
  ASSUME PipelineInv, stage \in {"model", "calls"}
  PROVE  Total <= tries * PerTry + PerTry
<1>1. /\ tries \in Nat /\ tries * PerTry \in Nat /\ round * MaxCalls \in Nat
      /\ round * MaxCalls <= PerTry /\ PerTry \in Nat
  BY Types, Products
<1>2. Total \in Nat
  BY DEF PipelineInv, LoopFits
<1>3. CASE stage = "model"
  BY <1>1, <1>2, <1>3 DEF PipelineInv, LoopFits
<1>4. CASE stage = "calls"
  <2>1. Total + Len(pending) <= tries * PerTry + round * MaxCalls + Acted
    BY <1>4 DEF PipelineInv, LoopFits
  <2>2. Len(pending) \in Nat /\ (pending # <<>> => Len(pending) > 0)
    BY Types, EmptySeq, LenProperties
  <2>3. acted \in BOOLEAN /\ (acted => pending # <<>>)
    BY <1>4, Types DEF PipelineInv, StageFits
  <2>4. Len(pending) >= Acted /\ Acted \in Nat
    BY <2>2, <2>3 DEF Acted
  <2> QED
    BY <1>1, <1>2, <2>1, <2>2, <2>4
<1> QED
  BY <1>3, <1>4

LEMMA RetryStep == ASSUME PipelineInv, Retry PROVE PipelineInv'
<1>1. /\ stage \in {"model", "calls"} /\ stage' = "model" /\ tries < MaximumRetries
      /\ acted' = FALSE /\ tries' = tries + 1 /\ round' = 0 /\ pending' = <<>>
      /\ executions' = <<>>
      /\ UNCHANGED <<request, callVars, invoked, recorded, kept, answer, outcome, expired>>
  BY DEF Retry, LoopRaises, HandlesCall, CountTry, TurnTo, endVars
<1>2. ASSUME NEW c \in Calls PROVE CallFits(c)'
  <2>1. CallFits(c) /\ Under(c)' = 0
    BY <1>1 DEF PipelineInv, Under
  <2>2. /\ Done(kept, c)' = Done(kept, c) /\ Done(recorded, c)' = Done(recorded, c)
        /\ Done(executions, c)' = 0 /\ invoked[c] \in Nat
    BY <1>1, DonePrimed, DoneNone, Types
  <2>3. tries' # 0 /\ stage' \notin Early /\ stage \notin Early
    BY <1>1, Types DEF Early
  <2> QED
    BY <1>1, <2>1, <2>2, <2>3 DEF CallFits, Authorized
<1>3. LoopFits'
  <2>1. Total' = Total /\ PerTry' = PerTry
    BY <1>1 DEF Total, PerTry
  <2>2. Total \in Nat /\ Total <= (MaximumRetries + 1) * PerTry
    BY DEF PipelineInv, LoopFits
  <2>3. /\ (tries + 1) * PerTry = tries * PerTry + PerTry /\ tries * PerTry \in Nat
        /\ PerTry \in Nat /\ 0 * MaxCalls = 0
    BY Types, Products
  <2>4. Total <= tries * PerTry + PerTry
    BY <1>1, TryIsBounded
  <2>5. Total' <= tries' * PerTry' + round' * MaxCalls
    BY <1>1, <2>1, <2>2, <2>3, <2>4
  <2> QED
    BY <1>1, <2>1, <2>2, <2>5 DEF LoopFits, Early
<1>4. /\ recorded' \in Seq(NativeExecution) /\ invoked' \in [Calls -> Nat]
      /\ answer' \in Texts \cup {NoText} /\ expired' \in BOOLEAN
  BY <1>1 DEF PipelineInv, OrchestrationTypeOK
<1>5. pending' \in Seq(Calls) /\ executions' \in Seq(NativeExecution)
  BY <1>1
<1>6. /\ tries' \in 0 .. MaximumRetries /\ round' \in 0 .. MaximumRounds
      /\ round' < MaximumRounds
  BY <1>1, Types, OrchestrationAssumption
<1>7. outcome' = outcome /\ UNCHANGED <<request, callVars, kept>> /\ acted' \in BOOLEAN
  BY <1>1
<1> QED
  BY <1>1, <1>2, <1>3, <1>4, <1>5, <1>6, <1>7, LoopStep

\* The call a handler was invoked for may be made.
LEMMA ActedIsAuthorized ==
  ASSUME PipelineInv, HandlesCall, acted
  PROVE  Authorized(Head(pending)) /\ Head(pending).action # "unknown"
<1>1. Head(pending) \in Calls
  BY Types, HeadTailProperties DEF HandlesCall
<1>2. CallFits(Head(pending)) /\ Under(Head(pending)) = 1
  BY <1>1 DEF PipelineInv, Under, HandlesCall
<1>3. Done(executions, Head(pending)) \in Nat /\ invoked[Head(pending)] \in Nat
  BY <1>1, Types, DoneType
<1> QED
  BY <1>2, <1>3 DEF CallFits

\* A call is denied, or its handler is done.
LEMMA CallEndsStep ==
  ASSUME PipelineInv, DenyCall \/ HandlerReturns
  PROVE  PipelineInv'
<1> DEFINE head == Head(pending)
<1>1. /\ stage = "calls" /\ stage' = "calls" /\ pending # <<>> /\ pending' = Tail(pending)
      /\ UNCHANGED <<request, tries, callVars, round, invoked, recorded, kept, answer, outcome,
                     expired>>
  BY DEF DenyCall, HandlerReturns, HandlesCall, CallEnds, endVars
<1>2. acted' = FALSE
  BY ActedIsAuthorized, Types DEF DenyCall, HandlerReturns
<1>3. /\ head \in Calls /\ Tail(pending) \in Seq(Calls)
      /\ Len(Tail(pending)) = Len(pending) - 1 /\ Len(pending) \in Nat /\ Len(pending) > 0
  BY <1>1, Types, HeadTailProperties, EmptySeq, LenProperties
<1>4. PICK status \in Statuses :
        /\ executions' = Append(executions, [call |-> head, status |-> status])
        /\ status # "authorization_denied" <=> acted
  <2>1. CASE DenyCall
    <3>1. executions' = Append(executions, [call |-> head, status |-> "authorization_denied"])
          /\ ~acted
      BY <2>1, ActedIsAuthorized, Types DEF DenyCall, CallEnds
    <3> QED
      BY <3>1 DEF Statuses
  <2>2. CASE HandlerReturns
    BY <2>2 DEF HandlerReturns, CallEnds, Statuses
  <2> QED
    BY <2>1, <2>2
<1> DEFINE x == [call |-> head, status |-> status]
<1>5. x \in NativeExecution /\ x.call = head /\ x.status = status
  BY <1>3 DEF NativeExecution
<1>6. executions' = Append(executions, x) /\ executions \in Seq(NativeExecution)
      /\ executions' \in Seq(NativeExecution)
  BY <1>4, <1>5, Types, AppendProperties
<1> HIDE DEF x
<1>7. ASSUME NEW c \in Calls PROVE CallFits(c)'
  <2>1. CallFits(c) /\ Under(c)' = 0
    BY <1>1, <1>2 DEF PipelineInv, Under
  <2>2. PICK more \in Seq(NativeExecution) : more = executions'
    BY <1>6
  <2>3. /\ Done(more, c) = Done(executions, c) + (IF c = head /\ acted THEN 1 ELSE 0)
        /\ Done(executions, c) \in Nat
    <3>1. more = Append(executions, x) /\ executions \in Seq(NativeExecution)
          /\ x \in NativeExecution
      BY <1>5, <1>6, <2>2
    <3> HIDE DEF head
    <3>2. /\ Done(executions, c) \in Nat
          /\ Done(more, c) = Done(executions, c) +
               (IF x.call = c /\ x.status # "authorization_denied" THEN 1 ELSE 0)
      BY <3>1, DoneMore
    <3>3. x.call = c /\ x.status # "authorization_denied" <=> c = head /\ acted
      BY <1>4, <1>5
    <3> QED
      BY <3>2, <3>3
  <2>4. Under(c) = IF c = head /\ acted THEN 1 ELSE 0
    BY <1>1 DEF Under
  <2>5. Done(executions, c)' = Done(more, c)
    BY <2>2, DonePrimed
  <2>6. Done(executions, c)' + Under(c)' = Done(executions, c) + Under(c)
    BY <2>1, <2>3, <2>4, <2>5
  <2>7. Done(kept, c)' = Done(kept, c) /\ Done(recorded, c)' = Done(recorded, c)
    BY <1>1, DonePrimed
  <2> QED
    BY <1>1, <2>1, <2>6, <2>7 DEF CallFits, Authorized, Early
<1>8. LoopFits'
  <2>1. Total' = Total /\ PerTry' = PerTry /\ Acted' = 0
    BY <1>1, <1>2 DEF Total, PerTry, Acted
  <2>2. Total \in Nat /\ Total <= (MaximumRetries + 1) * PerTry
        /\ Total + Len(pending) <= tries * PerTry + round * MaxCalls + Acted
    BY <1>1 DEF PipelineInv, LoopFits
  <2>3. tries * PerTry \in Nat /\ round * MaxCalls \in Nat /\ Acted \in {0, 1}
    BY Types, Products DEF Acted
  <2>4. Total + (Len(pending) - 1) <= tries * PerTry + round * MaxCalls + 0
    BY <1>3, <2>2, <2>3
  <2>5. Total' + Len(pending') <= tries' * PerTry' + round' * MaxCalls + Acted'
    BY <1>1, <1>3, <2>1, <2>4
  <2> QED
    BY <1>1, <2>1, <2>2, <2>5 DEF LoopFits, Early
<1>9. /\ tries' \in 0 .. MaximumRetries /\ acted' \in BOOLEAN /\ round' \in 0 .. MaximumRounds
      /\ pending' \in Seq(Calls)
      /\ recorded' \in Seq(NativeExecution) /\ invoked' \in [Calls -> Nat]
      /\ answer' \in Texts \cup {NoText} /\ expired' \in BOOLEAN
  BY <1>1, <1>2, <1>3 DEF PipelineInv, OrchestrationTypeOK
<1>10. outcome' = outcome /\ UNCHANGED <<request, callVars, kept>>
  BY <1>1
<1> QED
  BY <1>1, <1>2, <1>6, <1>7, <1>8, <1>9, <1>10, LoopStep

LEMMA InvokeHandlerStep == ASSUME PipelineInv, InvokeHandler PROVE PipelineInv'
<1> DEFINE head == Head(pending)
<1>1. /\ stage = "calls" /\ stage' = "calls" /\ pending # <<>> /\ acted = FALSE /\ acted' = TRUE
      /\ Authorized(head) /\ head.action # "unknown"
      /\ invoked' = [invoked EXCEPT ![head] = @ + 1]
      /\ UNCHANGED <<request, tries, callVars, round, pending, executions, recorded, kept, answer,
                     outcome, expired>>
  BY Types DEF InvokeHandler, HandlesCall, endVars
<1>2. head \in Calls /\ Len(pending) \in Nat /\ Len(pending) > 0
  BY <1>1, Types, HeadTailProperties, EmptySeq, LenProperties
<1>3. invoked \in [Calls -> Nat] /\ invoked' \in [Calls -> Nat]
  BY <1>1, <1>2, Types
<1>4. /\ Total \in Nat /\ request.gated = FALSE
      /\ Total + Len(pending) <= tries * PerTry + round * MaxCalls + 0
  BY <1>1 DEF PipelineInv, StageFits, LoopFits, Acted
<1>5. Total' = Total + 1
  <2>1. PICK w \in [Calls -> Nat] : w = invoked'
    BY <1>3
  <2>2. w = [invoked EXCEPT ![head] = @ + 1] /\ SumFunctionOnSet(invoked, Calls) \in Nat
    BY <1>1, <1>4, <2>1 DEF Total
  <2> HIDE DEF head
  <2>3. SumFunctionOnSet(w, Calls) = SumFunctionOnSet(invoked, Calls) + 1
    BY <1>2, <1>3, <2>2, OneMoreCall
  <2> QED
    BY <2>1, <2>3 DEF Total
<1>6. ASSUME NEW c \in Calls PROVE CallFits(c)'
  <2>1. CallFits(c) /\ invoked[c] \in Nat
    BY <1>3 DEF PipelineInv
  <2>2. Under(c) = 0 /\ Under(c)' = IF c = head THEN 1 ELSE 0
    BY <1>1 DEF Under
  <2>3. invoked'[c] = invoked[c] + (IF c = head THEN 1 ELSE 0)
    BY <1>1, <1>3
  <2>4. /\ Done(kept, c)' = Done(kept, c) /\ Done(recorded, c)' = Done(recorded, c)
        /\ Done(executions, c)' = Done(executions, c) /\ Done(kept, c) \in Nat
        /\ Done(recorded, c) \in Nat /\ Done(executions, c) \in Nat
    BY <1>1, DonePrimed, DoneType, Types
  <2>5. invoked'[c] > 0 => Authorized(c) /\ c.action # "unknown"
    BY <1>1, <2>1, <2>3 DEF CallFits
  <2> HIDE DEF head
  <2> QED
    BY <1>1, <1>4, <2>1, <2>2, <2>3, <2>4, <2>5 DEF CallFits, Authorized, Early
<1>7. LoopFits'
  <2>1. PerTry' = PerTry /\ Acted' = 1
    BY <1>1 DEF PerTry, Acted
  <2>2. /\ tries \in Nat /\ tries * PerTry \in Nat /\ round * MaxCalls \in Nat
        /\ round * MaxCalls <= PerTry /\ PerTry \in Nat /\ (MaximumRetries + 1) * PerTry \in Nat
        /\ tries * PerTry + PerTry <= (MaximumRetries + 1) * PerTry
    BY Types, Products
  <2>3. Total + 1 <= (MaximumRetries + 1) * PerTry
        /\ (Total + 1) + Len(pending) <= tries * PerTry + round * MaxCalls + 1
    BY <1>2, <1>4, <2>2
  <2>4. Total' + Len(pending') <= tries' * PerTry' + round' * MaxCalls + Acted'
    BY <1>1, <1>5, <2>1, <2>3
  <2> QED
    BY <1>1, <1>4, <1>5, <2>1, <2>3, <2>4 DEF LoopFits, Early
<1>8. /\ tries' \in 0 .. MaximumRetries /\ acted' \in BOOLEAN /\ round' \in 0 .. MaximumRounds
      /\ pending' \in Seq(Calls) /\ executions' \in Seq(NativeExecution)
      /\ recorded' \in Seq(NativeExecution)
      /\ answer' \in Texts \cup {NoText} /\ expired' \in BOOLEAN
  BY <1>1 DEF PipelineInv, OrchestrationTypeOK
<1>9. outcome' = outcome /\ UNCHANGED <<request, callVars, kept>> /\ pending' # <<>>
  BY <1>1
<1> QED
  BY <1>1, <1>3, <1>6, <1>7, <1>8, <1>9, LoopStep

LEMMA DeadlineStep == ASSUME PipelineInv, DeadlinePasses PROVE PipelineInv'
<1>1. /\ outcome = "running" /\ expired' = TRUE
      /\ UNCHANGED <<request, stage, tries, acted, performed, action, evidence, round, pending,
                     executions, invoked, recorded, kept, answer, outcome>>
  BY DEF DeadlinePasses, callVars, loopVars, endVars
<1>2. OrchestrationTypeOK'
  BY <1>1 DEF PipelineInv, OrchestrationTypeOK
<1>3. StageFits'
  BY <1>1 DEF PipelineInv, StageFits
<1>4. StepFits'
  BY <1>1 DEF PipelineInv, StepFits, Acted
<1>5. (\A c \in Calls : CallFits(c)') /\ Total' = Total
  <2>1. \A c \in Calls : Under(c)' = Under(c)
    BY <1>1 DEF Under
  <2>2. stage # "done" /\ stage' # "done"
    BY <1>1 DEF PipelineInv, StageFits
  <2> QED
    BY <1>1, <2>1, <2>2, CallsStay
<1>6. LoopFits'
  BY <1>1, <1>5 DEF PipelineInv, LoopFits, PerTry, Acted
<1>7. AnswerFits'
  BY <1>1 DEF AnswerFits
<1> QED
  BY <1>2, <1>3, <1>4, <1>5, <1>6, <1>7 DEF PipelineInv

LEMMA AnswerStep == ASSUME PipelineInv, Answer PROVE PipelineInv'
<1>1. /\ stage = "assemble" /\ stage' = "done" /\ outcome' = "answered" /\ kept' = recorded
      /\ answer' \in Responses
      /\ UNCHANGED <<request, tries, acted, performed, action, evidence, round, pending, executions,
                     invoked, recorded, expired>>
  BY DEF Answer, callVars, loopVars
<1>2. recorded = executions /\ acted = FALSE
  BY <1>1 DEF PipelineInv, StageFits
<1>3. PICK t \in Texts \cup {NoText}, m \in Modes :
        /\ answer' = Validated(t, m)
        /\ m = IF request.target = "market" THEN "market" ELSE request.mode
  <2>1. request.mode \in Modes
    BY Types DEF OrchestrationRequest
  <2>2. CASE request.target = "market"
    <3>1. PICK t \in MarketTexts : answer' = Validated(t, "market")
      BY <1>1, <2>2 DEF Responses
    <3>2. t \in Texts
      BY <3>1 DEF MarketTexts, Texts, Text, FallbackText, Evidence
    <3> QED
      BY <2>2, <3>1, <3>2 DEF Modes
  <2>3. CASE request.target # "market"
    <3>1. answer' = Validated(answer, request.mode)
      BY <1>1, <2>3 DEF Responses
    <3>2. answer \in Texts \cup {NoText}
      BY DEF PipelineInv, OrchestrationTypeOK
    <3> QED
      BY <2>1, <2>3, <3>1, <3>2
  <2> QED
    BY <2>2, <2>3
<1>4. answer' \in Texts \cup {NoText}
  <2>1. FallbackText \in Texts
    BY DEF FallbackText, Texts, Text
  <2> QED
    BY <1>3, <2>1 DEF Validated
<1>5. /\ answer'.kind \notin {"malformed", "action_claim"}
      /\ answer'.kind = "state_claim" =>
            m = "conversation" \/ answer'.cites \cap evidence # {}
  BY <1>3 DEF Validated, Accepted, FallbackText
<1>6. OrchestrationTypeOK'
  BY <1>1, <1>4 DEF PipelineInv, OrchestrationTypeOK
<1>7. StageFits'
  BY <1>1 DEF StageFits, Early, Ongoing
<1>8. StepFits'
  BY <1>1 DEF PipelineInv, StepFits
<1>9. ASSUME NEW c \in Calls
      PROVE  CallFits(c)' /\ (tries = 0 => Done(kept, c)' = invoked[c])
  <2>1. CallFits(c) /\ Under(c)' = 0 /\ Under(c) = 0
    BY <1>1, <1>2 DEF PipelineInv, Under
  <2>2. /\ Done(kept, c)' = Done(executions, c) /\ Done(recorded, c)' = Done(recorded, c)
        /\ Done(executions, c)' = Done(executions, c)
        /\ Done(executions, c) \in Nat /\ invoked[c] \in Nat
    BY <1>1, <1>2, DonePrimed, DoneType, Types
  <2> QED
    BY <1>1, <1>2, <2>1, <2>2 DEF CallFits, Authorized, Early
<1>10. LoopFits'
  <2>1. Total' = Total /\ PerTry' = PerTry
    BY <1>1 DEF Total, PerTry
  <2> QED
    BY <1>1, <2>1 DEF PipelineInv, LoopFits, Early
<1>11. AnswerFits'
  BY <1>1, <1>2, <1>3, <1>5, <1>9, DonePrimed DEF AnswerFits
<1> QED
  BY <1>6, <1>7, <1>8, <1>9, <1>10, <1>11 DEF PipelineInv

LEMMA PipelineInvStep ==
  ASSUME PipelineInv, [OrchestrationNext]_pipelineVars PROVE PipelineInv'
<1>1. CASE Execute
  BY <1>1, ExecuteStep
<1>2. CASE DeadlinePasses
  BY <1>2, DeadlineStep
<1>3. CASE Interrupted \/ ProcessDies
  BY <1>3, EndsSteps
<1>4. CASE PipelineStep
  <2>1. CASE NoRoute \/ RequireApproval \/ Exhausted \/ OperationTooSlow \/ CutOff \/ OverBudget
    BY <2>1, EndsSteps
  <2>2. CASE Planned
    BY <2>2, PlannedStep
  <2>3. CASE StepActs \/ StepSucceeds \/ StepRaises \/ StepDegrades
    BY <2>3, PlanStep
  <2>4. CASE ModelAnswers
    BY <2>4, ModelAnswersStep
  <2>5. CASE ModelCalls
    BY <2>5, ModelCallsStep
  <2>6. CASE DenyCall \/ HandlerReturns
    BY <2>6, CallEndsStep
  <2>7. CASE InvokeHandler
    BY <2>7, InvokeHandlerStep
  <2>8. CASE NextRound
    BY <2>8, NextRoundStep
  <2>9. CASE Retry
    BY <2>9, RetryStep
  <2>10. CASE Answer
    BY <2>10, AnswerStep
  <2> QED
    BY <1>4, <2>1, <2>2, <2>3, <2>4, <2>5, <2>6, <2>7, <2>8, <2>9, <2>10 DEF PipelineStep
<1>5. CASE UNCHANGED pipelineVars
  <2>1. UNCHANGED <<request, stage, tries, acted, performed, action, evidence, round, pending,
                    executions, invoked, recorded, kept, answer, outcome, expired>>
    BY <1>5 DEF pipelineVars, callVars, loopVars, endVars
  <2>2. OrchestrationTypeOK' /\ StageFits' /\ StepFits'
    BY <2>1 DEF PipelineInv, OrchestrationTypeOK, StageFits, StepFits, Acted
  <2>3. LoopFits'
    BY <2>1 DEF PipelineInv, LoopFits, Total, PerTry, Acted
  <2>4. \A c \in Calls : CallFits(c)'
    BY <2>1, DonePrimed DEF PipelineInv, CallFits, Under, Authorized
  <2>5. AnswerFits'
    BY <2>1, DonePrimed DEF PipelineInv, AnswerFits
  <2> QED
    BY <2>2, <2>3, <2>4, <2>5 DEF PipelineInv
<1> QED
  BY <1>1, <1>2, <1>3, <1>4, <1>5 DEF OrchestrationNext

\* The pipeline keeps its promises whatever the model answers, the tools do and the clock
\* says, for every number of retries, rounds and calls (OrchestrationPipeline.execute,
\* NativeToolLoop.complete).
THEOREM OrchestrationIsSafe == OrchestrationSpec => []OrchestrationSafe
<1>1. PipelineInv /\ [OrchestrationNext]_pipelineVars => PipelineInv'
  BY PipelineInvStep
<1> QED
  BY <1>1, PipelineInvInit, PipelineInvIsSafe, PTL DEF OrchestrationSpec

-----------------------------------------------------------------------------
(* Telegram updates.                                                        *)

Working(t) == t.at \in WorkingAt

\* The row of an update and how often its workflow was called.
CountFits(entry, times) ==
    /\ times \in Nat /\ times <= 1
    /\ entry = NoMessage => times = 0
    /\ entry # NoMessage =>
          /\ entry.status = "received" => times = 0
          /\ entry.status = "completed" => times = 1

\* A delivery at work, its row, and the identity of its sender.
WorkFits(t, entry, times, identity) ==
    /\ entry # NoMessage /\ entry.envelope = t.envelope
    /\ t.at \in {"identify", "authorize"} => entry.status = "received"
    /\ t.at = "authorize" => identity # NoIdentity /\ identity.user = t.user
    /\ t.at = "workflow" => entry.status = "processing" /\ times = 0
    /\ t.at = "complete" => entry.status = "processing" /\ times = 1
    /\ t.at = "fail" => entry.status \in {"received", "processing"}

\* A message belongs to the user its sender is bound to.
OwnerFits(entry) ==
    entry # NoMessage /\ entry.user # NoUser =>
        /\ identities[entry.envelope.sender] # NoIdentity
        /\ identities[entry.envelope.sender].user = entry.user

Unfinished(entry) == entry # NoMessage /\ entry.status \in {"received", "processing"}

Worker(d, u) == Working(delivery[d]) /\ delivery[d].envelope.update = u

\* The invariant: an unfinished update has one worker or has lost it, and a worker's step
\* tells its row and how often the workflow was called.
TelegramInv ==
    /\ TelegramTypeOK
    /\ \A u \in Updates : CountFits(messages[u], workflows[u]) /\ OwnerFits(messages[u])
    /\ \A d \in Deliveries : delivery[d].at = "answered" =>
          RowOf(d) # NoMessage /\ RowOf(d).envelope = delivery[d].envelope
    /\ \A d \in Deliveries : Working(delivery[d]) =>
          WorkFits(delivery[d], RowOf(d), workflows[UpdateOf(d)],
                   identities[delivery[d].envelope.sender])
    /\ \A u \in Updates : \A d, e \in Deliveries : Worker(d, u) /\ Worker(e, u) => d = e
    /\ \A u \in Updates : Unfinished(messages[u]) =>
          u \in lost \/ \E d \in Deliveries : Worker(d, u)
    /\ \A k \in Users : clerk[k] # NoClerk /\ clerk[k].read # NoIdentity =>
          identities[clerk[k].sender] # NoIdentity

\* A delivery that is under way, or was, has an envelope.
LEMMA DeliveryTyped ==
  ASSUME NEW t \in DeliveryState, t.at # "waiting"
  PROVE  /\ t.envelope \in Envelopes /\ t.envelope.update \in Updates
         /\ t.envelope.sender \in Senders
         /\ t.at \in WorkingAt => t.user \in Users \cup {NoUser}
BY DEF DeliveryState, Waiting, WorkingAt, Updates, Senders

LEMMA TelegramInvIsSafe == TelegramInv => TelegramSafe
<1> SUFFICES ASSUME TelegramInv PROVE TelegramSafe
  OBVIOUS
<1>1. ASSUME NEW u \in Updates PROVE Cardinality(Workers(u)) <= 1
  <2>1. CASE Workers(u) = {}
    BY <2>1, FS_EmptySet
  <2>2. CASE Workers(u) # {}
    <3>1. PICK d \in Deliveries : d \in Workers(u)
      BY <2>2 DEF Workers
    <3>2. Workers(u) = {d}
      BY <3>1 DEF Workers, TelegramInv, Worker, Working, UpdateOf
    <3> QED
      BY <3>2, FS_Singleton
  <2> QED
    BY <2>1, <2>2
<1>2. ASSUME NEW u \in Updates, messages[u] # NoMessage,
             messages[u].status \in {"completed", "failed"}
      PROVE  Workers(u) = {}
  <2>1. ASSUME NEW d \in Workers(u) PROVE FALSE
    <3>1. d \in Deliveries /\ Working(delivery[d]) /\ RowOf(d) = messages[u]
      BY <2>1 DEF Workers, Working, RowOf
    <3>2. WorkFits(delivery[d], messages[u], workflows[UpdateOf(d)],
                   identities[delivery[d].envelope.sender])
      BY <3>1 DEF TelegramInv
    <3> QED
      BY <1>2, <3>1, <3>2 DEF WorkFits, Working, WorkingAt
  <2> QED
    BY <2>1
<1>3. WorkedOnOnce
  BY <1>1, <1>2 DEF TelegramInv, WorkedOnOnce, CountFits
<1>4. NoMessageIsDropped
  BY DEF TelegramInv, NoMessageIsDropped, Unfinished, Worker, Workers, Working, UpdateOf
<1>5. AnswersBelong
  BY DEF TelegramInv, AnswersBelong, OwnerFits, WorkFits, Working
<1> QED
  BY <1>3, <1>4, <1>5 DEF TelegramInv, TelegramSafe

LEMMA TelegramInvInit == TelegramInit => TelegramInv
<1> SUFFICES ASSUME TelegramInit PROVE TelegramInv
  OBVIOUS
<1>1. TelegramTypeOK
  BY DEF TelegramInit, TelegramTypeOK, DeliveryState, Clerk
<1>2. \A d \in Deliveries : ~Working(delivery[d]) /\ delivery[d].at # "answered"
  BY DEF TelegramInit, Working, WorkingAt, Waiting
<1> QED
  BY <1>1, <1>2 DEF TelegramInit, TelegramInv, CountFits, OwnerFits, Unfinished, Worker

\* One delivery moves, and the row of its update with it.
LEMMA DeliveryMoves ==
  ASSUME TelegramInv, NEW d \in Deliveries, NEW t \in DeliveryState, NEW u \in Updates,
         NEW entry \in Message \cup {NoMessage}, NEW times \in Nat,
         t.at # "waiting", t.envelope.update = u,
         Working(delivery[d]) => delivery[d].envelope.update = u,
         delivery' = [delivery EXCEPT ![d] = t], messages' = [messages EXCEPT ![u] = entry],
         workflows' = [workflows EXCEPT ![u] = times],
         lost \subseteq lost', lost' \subseteq Updates, UNCHANGED <<identities, members, clerk>>,
         \* Either the update is this delivery's, or nothing is done about it.
         \/ Working(delivery[d]) \/ messages[u] = NoMessage
         \/ entry = messages[u] /\ times = workflows[u] /\ ~Working(t),
         messages[u] # NoMessage => entry # NoMessage /\ entry.envelope = messages[u].envelope,
         CountFits(entry, times), OwnerFits(entry),
         t.at = "answered" => entry # NoMessage /\ entry.envelope = t.envelope,
         Working(t) => WorkFits(t, entry, times, identities[t.envelope.sender]),
         Unfinished(entry) =>
            Working(t) \/ u \in lost' \/ (entry = messages[u] /\ ~Working(delivery[d]))
  PROVE  TelegramInv'
<1>1. /\ delivery' \in [Deliveries -> DeliveryState] /\ delivery'[d] = t
      /\ \A e \in Deliveries \ {d} : delivery'[e] = delivery[e]
      /\ messages' \in [Updates -> Message \cup {NoMessage}] /\ messages'[u] = entry
      /\ \A v \in Updates \ {u} : messages'[v] = messages[v]
      /\ workflows' \in [Updates -> Nat] /\ workflows'[u] = times
      /\ \A v \in Updates \ {u} : workflows'[v] = workflows[v]
  BY DEF TelegramInv, TelegramTypeOK
<1>2. TelegramTypeOK'
  BY <1>1 DEF TelegramInv, TelegramTypeOK
<1>3. \A v \in Updates : (CountFits(messages[v], workflows[v]) /\ OwnerFits(messages[v]))'
  BY <1>1 DEF TelegramInv, CountFits, OwnerFits
\* Nobody else works on the update.
<1>4. ASSUME NEW e \in Deliveries \ {d}, Working(delivery[e]), delivery[e].envelope.update = u
      PROVE  entry = messages[u] /\ times = workflows[u] /\ ~Working(t) /\ ~Working(delivery[d])
  <2>1. ~Working(delivery[d])
    BY <1>4 DEF TelegramInv, Worker
  <2>2. messages[u] # NoMessage
    BY <1>4 DEF TelegramInv, WorkFits, RowOf, UpdateOf
  <2> QED
    BY <2>1, <2>2
<1>5. ASSUME NEW e \in Deliveries \ {d}, delivery[e].at # "waiting"
      PROVE  delivery[e].envelope.update \in Updates
  BY <1>5, DeliveryTyped DEF TelegramInv, TelegramTypeOK
<1>6. ASSUME NEW e \in Deliveries, delivery'[e].at = "answered"
      PROVE  /\ messages'[delivery'[e].envelope.update] # NoMessage
             /\ messages'[delivery'[e].envelope.update].envelope = delivery'[e].envelope
  <2>1. CASE e = d
    BY <1>1, <1>6, <2>1
  <2>2. CASE e # d
    <3>1. /\ delivery'[e] = delivery[e] /\ delivery[e].at = "answered"
          /\ delivery[e].envelope.update \in Updates
      BY <1>1, <1>5, <1>6, <2>2
    <3>2. /\ messages[delivery[e].envelope.update] # NoMessage
          /\ messages[delivery[e].envelope.update].envelope = delivery[e].envelope
      BY <3>1 DEF TelegramInv, RowOf, UpdateOf
    <3> QED
      BY <1>1, <3>1, <3>2
  <2> QED
    BY <2>1, <2>2
<1>7. ASSUME NEW e \in Deliveries, Working(delivery'[e])
      PROVE  WorkFits(delivery'[e], messages'[delivery'[e].envelope.update],
                      workflows'[delivery'[e].envelope.update],
                      identities[delivery'[e].envelope.sender])
  <2>1. CASE e = d
    BY <1>1, <1>7, <2>1
  <2>2. CASE e # d
    <3>1. delivery'[e] = delivery[e] /\ Working(delivery[e]) /\ delivery[e].at # "waiting"
      BY <1>1, <1>7, <2>2 DEF Working, WorkingAt
    <3>2. PICK v \in Updates : v = delivery[e].envelope.update
      BY <1>5, <2>2, <3>1
    <3>3. WorkFits(delivery[e], messages[v], workflows[v], identities[delivery[e].envelope.sender])
      BY <3>1, <3>2 DEF TelegramInv, RowOf, UpdateOf
    <3>4. messages'[v] = messages[v] /\ workflows'[v] = workflows[v]
      BY <1>1, <1>4, <2>2, <3>1, <3>2
    <3> QED
      BY <3>1, <3>2, <3>3, <3>4
  <2> QED
    BY <2>1, <2>2
<1>8. ASSUME NEW v \in Updates, NEW e \in Deliveries, NEW f \in Deliveries,
             Working(delivery'[e]), delivery'[e].envelope.update = v,
             Working(delivery'[f]), delivery'[f].envelope.update = v
      PROVE  e = f
  BY <1>1, <1>4, <1>8 DEF TelegramInv, Worker
<1>9. ASSUME NEW v \in Updates, Unfinished(messages'[v]), v \notin lost'
      PROVE  \E e \in Deliveries : Working(delivery'[e]) /\ delivery'[e].envelope.update = v
  <2>1. CASE v = u /\ Working(t)
    BY <1>1, <2>1
  <2>2. CASE v = u /\ ~Working(t)
    <3>1. Unfinished(messages[v]) /\ ~Working(delivery[d]) /\ v \notin lost
      BY <1>1, <1>9, <2>2
    <3>2. PICK e \in Deliveries : Worker(e, v)
      BY <3>1 DEF TelegramInv
    <3>3. e # d
      BY <3>1, <3>2 DEF Worker
    <3> QED
      BY <1>1, <3>2, <3>3 DEF Worker
  <2>3. CASE v # u
    <3>1. Unfinished(messages[v]) /\ v \notin lost
      BY <1>1, <1>9, <2>3
    <3>2. PICK e \in Deliveries : Worker(e, v)
      BY <3>1 DEF TelegramInv
    <3>3. e # d
      BY <2>3, <3>2 DEF Worker
    <3> QED
      BY <1>1, <3>2, <3>3 DEF Worker
  <2> QED
    BY <2>1, <2>2, <2>3
<1>10. \A e \in Deliveries : (delivery[e].at = "answered" =>
          RowOf(e) # NoMessage /\ RowOf(e).envelope = delivery[e].envelope)'
  BY <1>6 DEF RowOf, UpdateOf
<1>11. \A e \in Deliveries : (Working(delivery[e]) =>
          WorkFits(delivery[e], RowOf(e), workflows[UpdateOf(e)],
                   identities[delivery[e].envelope.sender]))'
  BY <1>7 DEF RowOf, UpdateOf, Working, WorkFits
<1>12. \A v \in Updates : \A e, f \in Deliveries : (Worker(e, v) /\ Worker(f, v) => e = f)'
  BY <1>8 DEF Worker, Working
<1>13. \A v \in Updates : (Unfinished(messages[v]) =>
          v \in lost \/ \E e \in Deliveries : Worker(e, v))'
  BY <1>9 DEF Worker, Working, Unfinished
<1>14. \A k \in Users : (clerk[k] # NoClerk /\ clerk[k].read # NoIdentity =>
          identities[clerk[k].sender] # NoIdentity)'
  BY DEF TelegramInv
<1> QED
  BY <1>2, <1>3, <1>10, <1>11, <1>12, <1>13, <1>14 DEF TelegramInv

\* Identities appear and change, but keep their user.
LEMMA IdentitiesMove ==
  ASSUME TelegramInv, UNCHANGED <<messages, delivery, workflows, lost>>,
         members' \subseteq Users, clerk' \in [Users -> Clerk],
         identities' \in [Senders -> TelegramIdentity \cup {NoIdentity}],
         \A s \in Senders : identities[s] # NoIdentity =>
            identities'[s] # NoIdentity /\ identities'[s].user = identities[s].user,
         \A k \in Users : clerk'[k] # NoClerk /\ clerk'[k].read # NoIdentity =>
            identities'[clerk'[k].sender] # NoIdentity
  PROVE  TelegramInv'
<1>1. TelegramTypeOK'
  BY DEF TelegramInv, TelegramTypeOK
<1>2. \A u \in Updates : CountFits(messages[u], workflows[u])'
  BY DEF TelegramInv, CountFits
<1>3. \A u \in Updates : OwnerFits(messages[u])'
  <2>1. ASSUME NEW u \in Updates, messages[u] # NoMessage
        PROVE  messages[u].envelope.sender \in Senders
    BY <2>1 DEF TelegramInv, TelegramTypeOK, Message, Senders
  <2> QED
    BY <2>1 DEF TelegramInv, OwnerFits
<1>4. ASSUME NEW d \in Deliveries, Working(delivery[d])
      PROVE  WorkFits(delivery[d], RowOf(d), workflows[UpdateOf(d)],
                      identities'[delivery[d].envelope.sender])
  <2>1. /\ WorkFits(delivery[d], RowOf(d), workflows[UpdateOf(d)],
                    identities[delivery[d].envelope.sender])
        /\ delivery[d].envelope.sender \in Senders
    BY <1>4, DeliveryTyped DEF TelegramInv, TelegramTypeOK, Working, WorkingAt
  <2> QED
    BY <2>1 DEF WorkFits
<1>5. \A d \in Deliveries : (Working(delivery[d]) =>
          WorkFits(delivery[d], RowOf(d), workflows[UpdateOf(d)],
                   identities[delivery[d].envelope.sender]))'
  BY <1>4 DEF RowOf, UpdateOf, Working, WorkFits
<1>6. \A d \in Deliveries : (delivery[d].at = "answered" =>
          RowOf(d) # NoMessage /\ RowOf(d).envelope = delivery[d].envelope)'
  BY DEF TelegramInv, RowOf, UpdateOf
<1>7. \A u \in Updates : \A d, e \in Deliveries : (Worker(d, u) /\ Worker(e, u) => d = e)'
  BY DEF TelegramInv, Worker, Working
<1>8. \A u \in Updates : (Unfinished(messages[u]) =>
          u \in lost \/ \E d \in Deliveries : Worker(d, u))'
  BY DEF TelegramInv, Worker, Working, Unfinished
<1> QED
  BY <1>1, <1>2, <1>3, <1>5, <1>6, <1>7, <1>8 DEF TelegramInv

\* An update, its row and its calls, in names that a step leaves alone.
LEMMA RowAt ==
  ASSUME TelegramInv, NEW u \in Updates
  PROVE  \E entry \in Message \cup {NoMessage}, times \in Nat :
            /\ entry = messages[u] /\ times = workflows[u]
            /\ messages = [messages EXCEPT ![u] = entry]
            /\ workflows = [workflows EXCEPT ![u] = times]
            /\ CountFits(entry, times) /\ OwnerFits(entry)
<1>1. /\ messages \in [Updates -> Message \cup {NoMessage}] /\ workflows \in [Updates -> Nat]
      /\ CountFits(messages[u], workflows[u]) /\ OwnerFits(messages[u])
  BY DEF TelegramInv, TelegramTypeOK
<1>2. messages = [messages EXCEPT ![u] = messages[u]]
      /\ workflows = [workflows EXCEPT ![u] = workflows[u]]
  BY <1>1
<1> QED
  BY <1>1, <1>2

\* A delivery at work has a row of its own.
LEMMA DeliveryAtWork ==
  ASSUME TelegramInv, NEW d \in Deliveries, Working(delivery[d])
  PROVE  \E t \in DeliveryState, u \in Updates, entry \in Message, times \in Nat :
            /\ t = delivery[d] /\ t.envelope \in Envelopes /\ t.envelope.update = u
            /\ t.user \in Users \cup {NoUser} /\ UpdateOf(d) = u
            /\ entry = messages[u] /\ times = workflows[u] /\ entry # NoMessage
            /\ messages = [messages EXCEPT ![u] = entry]
            /\ workflows = [workflows EXCEPT ![u] = times]
            /\ CountFits(entry, times) /\ OwnerFits(entry)
            /\ WorkFits(t, entry, times, identities[t.envelope.sender])
<1>1. PICK t \in DeliveryState : t = delivery[d]
  BY DEF TelegramInv, TelegramTypeOK
<1>2. t.envelope \in Envelopes /\ t.envelope.update \in Updates /\ t.user \in Users \cup {NoUser}
  BY <1>1, DeliveryTyped DEF Working, WorkingAt
<1>3. PICK u \in Updates : u = t.envelope.update /\ UpdateOf(d) = u
  BY <1>1, <1>2 DEF UpdateOf
<1>4. PICK entry \in Message \cup {NoMessage}, times \in Nat :
            /\ entry = messages[u] /\ times = workflows[u]
            /\ messages = [messages EXCEPT ![u] = entry]
            /\ workflows = [workflows EXCEPT ![u] = times]
            /\ CountFits(entry, times) /\ OwnerFits(entry)
  BY RowAt
<1>5. WorkFits(t, entry, times, identities[t.envelope.sender]) /\ entry # NoMessage
  BY <1>1, <1>3, <1>4 DEF TelegramInv, RowOf, WorkFits
<1> QED
  BY <1>1, <1>2, <1>3, <1>4, <1>5

\* A replay is answered when it is the same.
LEMMA ReplayAnswers ==
  ASSUME NEW d \in Deliveries, NEW e, Replay(d, e)
  PROVE  \E t \in [at : {"answered", "rejected"}, envelope : {e}] :
            /\ delivery' = [delivery EXCEPT ![d] = t]
            /\ t.at = "answered" => messages[e.update].envelope = e
<1> DEFINE at == IF messages[e.update].envelope = e THEN "answered" ELSE "rejected"
           t == [at |-> at, envelope |-> e]
<1>1. delivery' = [delivery EXCEPT ![d] = t]
  BY DEF Replay
<1>2. at \in {"answered", "rejected"} /\ (at = "answered" => messages[e.update].envelope = e)
  OBVIOUS
<1> HIDE DEF at
<1>3. t \in [at : {"answered", "rejected"}, envelope : {e}] /\ t.at = at
  BY <1>2
<1> QED
  BY <1>1, <1>2, <1>3

LEMMA ReceiveStep ==
  ASSUME TelegramInv, NEW d \in Deliveries, NEW e \in Envelopes, Receive(d, e)
  PROVE  TelegramInv'
<1>1. PICK u \in Updates : u = e.update
  BY DEF Updates
<1>2. PICK entry \in Message \cup {NoMessage}, times \in Nat :
            /\ entry = messages[u] /\ times = workflows[u]
            /\ messages = [messages EXCEPT ![u] = entry]
            /\ workflows = [workflows EXCEPT ![u] = times]
            /\ CountFits(entry, times) /\ OwnerFits(entry)
  BY RowAt
<1>3. ~Working(delivery[d])
  BY DEF Receive, Working, Waiting, WorkingAt
<1>4. PICK t \in [at : {"insert", "answered", "rejected"}, envelope : {e}] :
            /\ delivery' = [delivery EXCEPT ![d] = t]
            /\ t.at = "answered" => entry # NoMessage /\ entry.envelope = e
  <2>1. CASE entry = NoMessage
    <3> DEFINE t == [at |-> "insert", envelope |-> e]
    <3>1. delivery' = [delivery EXCEPT ![d] = t]
      BY <1>1, <1>2, <2>1 DEF Receive
    <3>2. t \in [at : {"insert", "answered", "rejected"}, envelope : {e}] /\ t.at # "answered"
      OBVIOUS
    <3> QED
      BY <3>1, <3>2
  <2>2. CASE entry # NoMessage
    BY <1>1, <1>2, <2>2, ReplayAnswers DEF Receive
  <2> QED
    BY <2>1, <2>2
<1>5. /\ t \in DeliveryState /\ t.envelope = e /\ t.at \in {"insert", "answered", "rejected"}
      /\ ~Working(t) /\ t.at # "waiting"
  BY <1>4 DEF DeliveryState, Working, WorkingAt
<1>6. /\ messages' = [messages EXCEPT ![u] = entry] /\ workflows' = [workflows EXCEPT ![u] = times]
      /\ lost' = lost /\ UNCHANGED <<identities, members, clerk>>
  BY <1>2 DEF Receive
<1>7. lost \subseteq lost' /\ lost' \subseteq Updates
  BY <1>6 DEF TelegramInv, TelegramTypeOK
<1>8. messages[u] # NoMessage => entry # NoMessage /\ entry.envelope = messages[u].envelope
  BY <1>2
<1>9. t.at = "answered" => entry # NoMessage /\ entry.envelope = t.envelope
  BY <1>4, <1>5
<1> QED
  BY <1>1, <1>2, <1>3, <1>4, <1>5, <1>6, <1>7, <1>8, <1>9, DeliveryMoves

LEMMA InsertStep ==
  ASSUME TelegramInv, NEW d \in Deliveries, Insert(d)
  PROVE  TelegramInv'
<1>1. delivery[d] \in DeliveryState /\ delivery[d].at = "insert"
  BY DEF Insert, TelegramInv, TelegramTypeOK
<1>2. PICK e \in Envelopes : e = delivery[d].envelope /\ e.update \in Updates
  BY <1>1, DeliveryTyped
<1>3. PICK u \in Updates : u = e.update /\ UpdateOf(d) = u
  BY <1>2 DEF UpdateOf
<1>4. PICK entry \in Message \cup {NoMessage}, times \in Nat :
            /\ entry = messages[u] /\ times = workflows[u]
            /\ messages = [messages EXCEPT ![u] = entry]
            /\ workflows = [workflows EXCEPT ![u] = times]
            /\ CountFits(entry, times) /\ OwnerFits(entry)
  BY RowAt
<1>5. ~Working(delivery[d])
  BY <1>1 DEF Working, WorkingAt
<1>6. /\ workflows' = [workflows EXCEPT ![u] = times]
      /\ lost' = lost /\ UNCHANGED <<identities, members, clerk>>
  BY <1>4 DEF Insert
<1>7. lost \subseteq lost' /\ lost' \subseteq Updates
  BY <1>6 DEF TelegramInv, TelegramTypeOK
<1>8. CASE entry # NoMessage
  <2>1. messages' = [messages EXCEPT ![u] = entry] /\ Replay(d, e)
    BY <1>2, <1>3, <1>4, <1>8 DEF Insert, Inserts, RowOf
  <2>2. PICK t \in [at : {"answered", "rejected"}, envelope : {e}] :
            /\ delivery' = [delivery EXCEPT ![d] = t]
            /\ t.at = "answered" => entry.envelope = e
    BY <1>3, <1>4, <2>1, ReplayAnswers
  <2>3. /\ t \in DeliveryState /\ t.envelope = e /\ ~Working(t) /\ t.at # "waiting"
    BY <2>2 DEF DeliveryState, Working, WorkingAt
  <2>4. messages[u] # NoMessage => entry # NoMessage /\ entry.envelope = messages[u].envelope
    BY <1>4
  <2>5. t.at = "answered" => entry # NoMessage /\ entry.envelope = t.envelope
    BY <1>8, <2>2, <2>3
  <2> QED
    BY <1>3, <1>4, <1>5, <1>6, <1>7, <2>1, <2>2, <2>3, <2>4, <2>5, DeliveryMoves
<1>9. CASE entry = NoMessage
  <2> DEFINE fresh == [envelope |-> e, status |-> "received", user |-> NoUser, delivered |-> FALSE]
             t == [at |-> "identify", envelope |-> e, user |-> NoUser]
  <2>1. messages' = [messages EXCEPT ![u] = fresh] /\ delivery' = [delivery EXCEPT ![d] = t]
    BY <1>2, <1>3, <1>4, <1>9 DEF Insert, Inserts, RowOf, Turn
  <2>2. /\ fresh \in Message /\ fresh.envelope = e /\ fresh.status = "received"
        /\ fresh.user = NoUser
    BY DEF Message, TelegramProcessingStatus
  <2>3. t \in DeliveryState /\ t.envelope = e /\ t.at = "identify"
    BY DEF DeliveryState, WorkingAt
  <2> HIDE DEF fresh, t
  <2>4. fresh # NoMessage /\ fresh \in Message \cup {NoMessage}
    BY <2>2, TelegramAssumption
  <2>5. CountFits(fresh, times)
    BY <1>4, <1>9, <2>2, <2>4 DEF CountFits
  <2>6. OwnerFits(fresh)
    BY <2>2 DEF OwnerFits
  <2>7. Working(t) /\ WorkFits(t, fresh, times, identities[t.envelope.sender])
    BY <2>2, <2>3, <2>4 DEF Working, WorkingAt, WorkFits
  <2>8. t.at # "waiting" /\ t.at # "answered" /\ t.envelope.update = u /\ messages[u] = NoMessage
    BY <1>3, <1>4, <1>9, <2>3
  <2> QED
    BY <1>5, <1>6, <1>7, <2>1, <2>3, <2>4, <2>5, <2>6, <2>7, <2>8, DeliveryMoves
<1> QED
  BY <1>8, <1>9

\* A delivery at work takes its next step, with its row as it is or in a new status.
LEMMA WorkerMoves ==
  ASSUME TelegramInv, NEW d \in Deliveries, Working(delivery[d]),
         NEW at \in WorkingAt \cup {"answered", "rejected", "died"},
         NEW t \in DeliveryState, t.at = at, t.envelope = delivery[d].envelope,
         delivery' = [delivery EXCEPT ![d] = t],
         NEW entry \in Message, entry.envelope = delivery[d].envelope,
         messages' = [messages EXCEPT ![UpdateOf(d)] = entry],
         NEW times \in Nat, workflows' = [workflows EXCEPT ![UpdateOf(d)] = times],
         CountFits(entry, times), OwnerFits(entry),
         lost \subseteq lost', lost' \subseteq Updates,
         UNCHANGED <<identities, members, clerk>>,
         Working(t) => WorkFits(t, entry, times, identities[t.envelope.sender]),
         Unfinished(entry) => Working(t) \/ UpdateOf(d) \in lost'
  PROVE  TelegramInv'
<1>1. PICK u \in Updates : /\ u = delivery[d].envelope.update /\ UpdateOf(d) = u
                           /\ messages[u] # NoMessage /\ messages[u].envelope = delivery[d].envelope
  BY DeliveryAtWork DEF WorkFits
<1>2. t.at # "waiting" /\ t.envelope.update = u /\ entry # NoMessage
  BY <1>1, TelegramAssumption DEF WorkingAt
<1>3. messages' = [messages EXCEPT ![u] = entry] /\ workflows' = [workflows EXCEPT ![u] = times]
  BY <1>1
<1>4. entry \in Message \cup {NoMessage} /\ entry.envelope = messages[u].envelope
  BY <1>1
<1>5. Working(delivery[d]) => delivery[d].envelope.update = u
  BY <1>1
<1>6. Unfinished(entry) => Working(t) \/ u \in lost'
  BY <1>1
<1>7. t.at = "answered" => entry # NoMessage /\ entry.envelope = t.envelope
  BY <1>2
<1>8. messages[u] # NoMessage => entry # NoMessage /\ entry.envelope = messages[u].envelope
  BY <1>2, <1>4
<1> QED
  BY <1>2, <1>3, <1>4, <1>5, <1>6, <1>7, <1>8, DeliveryMoves

LEMMA IdentifyStep == ASSUME TelegramInv, NEW d \in Deliveries, Identify(d) PROVE TelegramInv'
<1>1. Working(delivery[d]) /\ delivery[d].at = "identify"
  BY DEF Identify, Working, WorkingAt
<1>2. PICK s \in DeliveryState, u \in Updates, entry \in Message, times \in Nat :
            /\ s = delivery[d] /\ s.envelope \in Envelopes /\ UpdateOf(d) = u
            /\ messages = [messages EXCEPT ![u] = entry] /\ workflows = [workflows EXCEPT ![u] = times]
            /\ CountFits(entry, times) /\ OwnerFits(entry)
            /\ WorkFits(s, entry, times, identities[s.envelope.sender])
  BY <1>1, DeliveryAtWork
<1>3. PICK e \in Envelopes : e = s.envelope
  BY <1>2
<1>4. PICK at \in {"authorize", "fail"}, user \in Users \cup {NoUser} :
            /\ delivery' = [delivery EXCEPT ![d] = [at |-> at, envelope |-> e, user |-> user]]
            /\ at = "authorize" => identities[e.sender] # NoIdentity /\ identities[e.sender].user = user
  <2>1. CASE Usable(e)
    <3>1. identities[e.sender] # NoIdentity /\ identities[e.sender] \in TelegramIdentity
      BY <2>1 DEF Usable, TelegramInv, TelegramTypeOK, Senders
    <3>2. delivery' = [delivery EXCEPT ![d] =
             [at |-> "authorize", envelope |-> e, user |-> identities[e.sender].user]]
      BY <1>2, <1>3, <2>1 DEF Identify, Turn
    <3> QED
      BY <3>1, <3>2 DEF TelegramIdentity
  <2>2. CASE ~Usable(e)
    <3>1. delivery' = [delivery EXCEPT ![d] = [at |-> "fail", envelope |-> e, user |-> NoUser]]
      BY <1>2, <1>3, <2>2 DEF Identify, Turn
    <3> QED
      BY <3>1
  <2> QED
    BY <2>1, <2>2
<1> DEFINE t == [at |-> at, envelope |-> e, user |-> user]
<1>5. t \in DeliveryState /\ t.at = at /\ t.envelope = e /\ t.user = user
  BY DEF DeliveryState, WorkingAt
<1>6. delivery' = [delivery EXCEPT ![d] = t]
  BY <1>4
<1> HIDE DEF t
<1>7. /\ messages' = [messages EXCEPT ![UpdateOf(d)] = entry]
      /\ workflows' = [workflows EXCEPT ![UpdateOf(d)] = times]
      /\ lost' = lost /\ UNCHANGED <<identities, members, clerk>>
  BY <1>2 DEF Identify
<1>8. lost \subseteq lost' /\ lost' \subseteq Updates
  BY <1>7 DEF TelegramInv, TelegramTypeOK
<1>9. entry # NoMessage /\ entry.envelope = e /\ entry.status = "received"
  BY <1>1, <1>2, <1>3 DEF WorkFits
<1>10. Working(t) /\ WorkFits(t, entry, times, identities[t.envelope.sender])
  BY <1>4, <1>5, <1>9 DEF Working, WorkingAt, WorkFits
<1>11. at \in WorkingAt \cup {"answered", "rejected", "died"} /\ t.envelope = delivery[d].envelope
       /\ entry.envelope = delivery[d].envelope
  BY <1>2, <1>3, <1>5, <1>9 DEF WorkingAt
<1> QED
  BY <1>1, <1>2, <1>5, <1>6, <1>7, <1>8, <1>10, <1>11, WorkerMoves

LEMMA AuthorizeStep == ASSUME TelegramInv, NEW d \in Deliveries, Authorize(d) PROVE TelegramInv'
<1>1. Working(delivery[d]) /\ delivery[d].at = "authorize"
  BY DEF Authorize, Working, WorkingAt
<1>2. PICK s \in DeliveryState, u \in Updates, old \in Message, times \in Nat :
            /\ s = delivery[d] /\ s.envelope \in Envelopes /\ UpdateOf(d) = u
            /\ s.user \in Users \cup {NoUser} /\ old = messages[u]
            /\ messages = [messages EXCEPT ![u] = old] /\ workflows = [workflows EXCEPT ![u] = times]
            /\ CountFits(old, times) /\ OwnerFits(old)
            /\ WorkFits(s, old, times, identities[s.envelope.sender])
  BY <1>1, DeliveryAtWork
<1>3. PICK e \in Envelopes, user \in Users \cup {NoUser} : e = s.envelope /\ user = s.user
  BY <1>2
<1>4. /\ old # NoMessage /\ old.envelope = e /\ old.status = "received" /\ times = 0
      /\ identities[e.sender] # NoIdentity /\ identities[e.sender].user = user
  BY <1>1, <1>2, <1>3 DEF WorkFits, CountFits
<1>5. /\ workflows' = [workflows EXCEPT ![UpdateOf(d)] = times]
      /\ lost' = lost /\ UNCHANGED <<identities, members, clerk>>
  BY <1>2 DEF Authorize
<1>6. lost \subseteq lost' /\ lost' \subseteq Updates
  BY <1>5 DEF TelegramInv, TelegramTypeOK
<1>7. CASE user \in members
  <2> DEFINE t == [at |-> "workflow", envelope |-> e, user |-> user]
             entry == [old EXCEPT !.status = "processing", !.user = user]
  <2>1. delivery' = [delivery EXCEPT ![d] = t]
    BY <1>2, <1>3, <1>7 DEF Authorize, Turn
  <2>2. messages' = [messages EXCEPT ![UpdateOf(d)] = entry]
    BY <1>2, <1>3, <1>7 DEF Authorize, TelegramInv, TelegramTypeOK, Message
  <2>3. t \in DeliveryState /\ t.at = "workflow" /\ t.envelope = e
    BY DEF DeliveryState, WorkingAt
  <2>4. /\ entry \in Message /\ entry.envelope = e /\ entry.status = "processing"
        /\ entry.user = user
    BY <1>4 DEF Message, TelegramProcessingStatus
  <2> HIDE DEF t, entry
  <2>5. entry # NoMessage
    BY <2>4, TelegramAssumption
  <2>6. CountFits(entry, times) /\ OwnerFits(entry)
    BY <1>4, <2>4, <2>5 DEF CountFits, OwnerFits
  <2>7. Working(t) /\ WorkFits(t, entry, times, identities[t.envelope.sender])
    BY <1>4, <2>3, <2>4, <2>5 DEF Working, WorkingAt, WorkFits
  <2>8. /\ "workflow" \in WorkingAt \cup {"answered", "rejected", "died"}
        /\ t.envelope = delivery[d].envelope /\ entry.envelope = delivery[d].envelope
    BY <1>2, <1>3, <2>3, <2>4 DEF WorkingAt
  <2> QED
    BY <1>1, <1>5, <1>6, <2>1, <2>2, <2>3, <2>4, <2>6, <2>7, <2>8, WorkerMoves
<1>8. CASE user \notin members
  <2> DEFINE t == [at |-> "fail", envelope |-> e, user |-> user]
  <2>1. delivery' = [delivery EXCEPT ![d] = t]
    BY <1>2, <1>3, <1>8 DEF Authorize, Turn
  <2>2. messages' = [messages EXCEPT ![UpdateOf(d)] = old]
    BY <1>2, <1>3, <1>8 DEF Authorize
  <2>3. t \in DeliveryState /\ t.at = "fail" /\ t.envelope = e
    BY DEF DeliveryState, WorkingAt
  <2> HIDE DEF t
  <2>4. Working(t) /\ WorkFits(t, old, times, identities[t.envelope.sender])
    BY <1>4, <2>3 DEF Working, WorkingAt, WorkFits
  <2>5. /\ "fail" \in WorkingAt \cup {"answered", "rejected", "died"}
        /\ t.envelope = delivery[d].envelope /\ old.envelope = delivery[d].envelope
    BY <1>2, <1>3, <1>4, <2>3 DEF WorkingAt
  <2> QED
    BY <1>1, <1>2, <1>5, <1>6, <2>1, <2>2, <2>3, <2>4, <2>5, WorkerMoves
<1> QED
  BY <1>7, <1>8

LEMMA WorkflowStep == ASSUME TelegramInv, NEW d \in Deliveries, Workflow(d) PROVE TelegramInv'
<1>1. Working(delivery[d]) /\ delivery[d].at = "workflow"
  BY DEF Workflow, Working, WorkingAt
<1>2. PICK s \in DeliveryState, u \in Updates, entry \in Message, times \in Nat :
            /\ s = delivery[d] /\ s.envelope \in Envelopes /\ UpdateOf(d) = u
            /\ s.user \in Users \cup {NoUser} /\ times = workflows[u]
            /\ messages = [messages EXCEPT ![u] = entry]
            /\ CountFits(entry, times) /\ OwnerFits(entry)
            /\ WorkFits(s, entry, times, identities[s.envelope.sender])
  BY <1>1, DeliveryAtWork
<1>3. PICK e \in Envelopes, user \in Users \cup {NoUser} : e = s.envelope /\ user = s.user
  BY <1>2
<1>4. entry # NoMessage /\ entry.envelope = e /\ entry.status = "processing" /\ times = 0
  BY <1>1, <1>2, <1>3 DEF WorkFits
<1>5. PICK at \in {"complete", "fail"} :
            delivery' = [delivery EXCEPT ![d] = [at |-> at, envelope |-> e, user |-> user]]
  BY <1>2, <1>3 DEF Workflow, Turn
<1> DEFINE t == [at |-> at, envelope |-> e, user |-> user]
<1>6. t \in DeliveryState /\ t.at = at /\ t.envelope = e /\ delivery' = [delivery EXCEPT ![d] = t]
  BY <1>5 DEF DeliveryState, WorkingAt
<1> HIDE DEF t
<1>7. /\ messages' = [messages EXCEPT ![UpdateOf(d)] = entry]
      /\ lost' = lost /\ UNCHANGED <<identities, members, clerk>>
  BY <1>2 DEF Workflow
<1>8. workflows' = [workflows EXCEPT ![UpdateOf(d)] = 1]
  BY <1>2, <1>4 DEF Workflow
<1>9. lost \subseteq lost' /\ lost' \subseteq Updates
  BY <1>7 DEF TelegramInv, TelegramTypeOK
<1>10. CountFits(entry, 1) /\ 1 \in Nat
  BY <1>4 DEF CountFits
<1>11. Working(t) /\ WorkFits(t, entry, 1, identities[t.envelope.sender])
  BY <1>4, <1>6 DEF Working, WorkingAt, WorkFits
<1>12. at \in WorkingAt \cup {"answered", "rejected", "died"} /\ t.envelope = delivery[d].envelope
       /\ entry.envelope = delivery[d].envelope
  BY <1>2, <1>3, <1>4, <1>6 DEF WorkingAt
<1> QED
  BY <1>1, <1>2, <1>6, <1>7, <1>8, <1>9, <1>10, <1>11, <1>12, WorkerMoves

LEMMA FinishStep ==
  ASSUME TelegramInv, NEW d \in Deliveries, Complete(d) \/ FailUpdate(d) PROVE TelegramInv'
<1>1. PICK at \in {"complete", "fail"}, status \in {"completed", "failed"},
           reply \in {"answered", "rejected"} :
            /\ Finish(d, at, status, reply)
            /\ status = "completed" => at = "complete"
  BY DEF Complete, FailUpdate
<1>2. Working(delivery[d]) /\ delivery[d].at = at
  BY <1>1 DEF Finish, Working, WorkingAt
<1>3. PICK s \in DeliveryState, u \in Updates, old \in Message, times \in Nat :
            /\ s = delivery[d] /\ s.envelope \in Envelopes /\ UpdateOf(d) = u
            /\ old = messages[u] /\ workflows = [workflows EXCEPT ![u] = times]
            /\ CountFits(old, times) /\ OwnerFits(old)
            /\ WorkFits(s, old, times, identities[s.envelope.sender])
  BY <1>2, DeliveryAtWork
<1>4. old # NoMessage /\ old.envelope = s.envelope /\ (status = "completed" => times = 1)
  BY <1>1, <1>2, <1>3 DEF WorkFits
<1> DEFINE t == [at |-> reply, envelope |-> s.envelope]
           entry == [old EXCEPT !.status = status]
<1>5. delivery' = [delivery EXCEPT ![d] = t]
  BY <1>1, <1>3 DEF Finish, Leave, TelegramInv, TelegramTypeOK
<1>6. messages' = [messages EXCEPT ![UpdateOf(d)] = entry]
  BY <1>1, <1>3 DEF Finish, TelegramInv, TelegramTypeOK
<1>7. t \in DeliveryState /\ t.at = reply /\ t.envelope = s.envelope
  BY <1>3 DEF DeliveryState
<1>8. /\ entry \in Message /\ entry.envelope = old.envelope /\ entry.status = status
      /\ entry.user = old.user
  BY DEF Message, TelegramProcessingStatus
<1> HIDE DEF t, entry
<1>9. entry # NoMessage
  BY <1>8, TelegramAssumption
<1>10. CountFits(entry, times)
  BY <1>3, <1>4, <1>8, <1>9 DEF CountFits
<1>11. OwnerFits(entry)
  BY <1>3, <1>4, <1>8, <1>9 DEF OwnerFits
<1>12. /\ workflows' = [workflows EXCEPT ![UpdateOf(d)] = times]
       /\ lost' = lost /\ UNCHANGED <<identities, members, clerk>>
  BY <1>1, <1>3 DEF Finish
<1>13. lost \subseteq lost' /\ lost' \subseteq Updates
  BY <1>12 DEF TelegramInv, TelegramTypeOK
<1>14. ~Working(t) /\ ~Unfinished(entry)
  BY <1>7, <1>8 DEF Working, WorkingAt, Unfinished
<1>15. reply \in WorkingAt \cup {"answered", "rejected", "died"}
       /\ t.envelope = delivery[d].envelope /\ entry.envelope = delivery[d].envelope
  BY <1>3, <1>4, <1>7, <1>8
<1> QED
  BY <1>2, <1>5, <1>6, <1>7, <1>8, <1>10, <1>11, <1>12, <1>13, <1>14, <1>15, WorkerMoves

LEMMA DieStep == ASSUME TelegramInv, NEW d \in Deliveries, Die(d) PROVE TelegramInv'
<1>1. /\ delivery[d] \in DeliveryState /\ delivery[d].at \in WorkingAt \cup {"insert"}
      /\ delivery' = [delivery EXCEPT ![d] = [at |-> "died", envelope |-> delivery[d].envelope]]
      /\ UNCHANGED <<messages, identities, members, clerk, workflows>>
  BY DEF Die, Leave, TelegramInv, TelegramTypeOK
<1>2. PICK e \in Envelopes : e = delivery[d].envelope /\ e.update \in Updates
  BY <1>1, DeliveryTyped DEF WorkingAt
<1>3. PICK u \in Updates : u = e.update /\ UpdateOf(d) = u
  BY <1>2 DEF UpdateOf
<1> DEFINE t == [at |-> "died", envelope |-> e]
<1>4. t \in DeliveryState /\ t.at = "died" /\ t.envelope = e /\ delivery' = [delivery EXCEPT ![d] = t]
  BY <1>1, <1>2 DEF DeliveryState
<1> HIDE DEF t
<1>5. ~Working(t)
  BY <1>4 DEF Working, WorkingAt
<1>6. CASE delivery[d].at = "insert"
  <2>1. ~Working(delivery[d]) /\ lost' = lost
    BY <1>6 DEF Die, Working, WorkingAt
  <2>2. PICK entry \in Message \cup {NoMessage}, times \in Nat :
            /\ entry = messages[u] /\ times = workflows[u]
            /\ messages' = [messages EXCEPT ![u] = entry]
            /\ workflows' = [workflows EXCEPT ![u] = times]
            /\ CountFits(entry, times) /\ OwnerFits(entry)
    BY <1>1, RowAt
  <2>3. lost \subseteq lost' /\ lost' \subseteq Updates
    BY <2>1 DEF TelegramInv, TelegramTypeOK
  <2>4. messages[u] # NoMessage => entry # NoMessage /\ entry.envelope = messages[u].envelope
    BY <2>2
  <2>5. t.at # "waiting" /\ t.at # "answered" /\ t.envelope.update = u
    BY <1>3, <1>4
  <2>6. UNCHANGED <<identities, members, clerk>>
    BY <1>1
  <2> QED
    BY <1>4, <1>5, <2>1, <2>2, <2>3, <2>4, <2>5, <2>6, DeliveryMoves
<1>7. CASE delivery[d].at # "insert"
  <2>1. Working(delivery[d]) /\ lost' = lost \cup {u}
    BY <1>1, <1>3, <1>7 DEF Die, Working
  <2>2. PICK entry \in Message, times \in Nat :
            /\ messages' = [messages EXCEPT ![u] = entry]
            /\ workflows' = [workflows EXCEPT ![u] = times]
            /\ CountFits(entry, times) /\ OwnerFits(entry) /\ entry.envelope = e
    BY <1>1, <1>2, <1>3, <2>1, DeliveryAtWork DEF WorkFits
  <2>3. lost \subseteq lost' /\ lost' \subseteq Updates
    BY <2>1 DEF TelegramInv, TelegramTypeOK
  <2>4. /\ "died" \in WorkingAt \cup {"answered", "rejected", "died"}
        /\ t.envelope = delivery[d].envelope /\ entry.envelope = delivery[d].envelope
    BY <1>2, <1>4, <2>2
  <2>5. UpdateOf(d) \in lost'
    BY <1>3, <2>1
  <2>6. UNCHANGED <<identities, members, clerk>>
    BY <1>1
  <2>7. /\ messages' = [messages EXCEPT ![UpdateOf(d)] = entry]
        /\ workflows' = [workflows EXCEPT ![UpdateOf(d)] = times]
    BY <1>3, <2>2
  <2> QED
    BY <1>4, <1>5, <2>1, <2>2, <2>3, <2>4, <2>5, <2>6, <2>7, WorkerMoves
<1> QED
  BY <1>6, <1>7

LEMMA MarkDeliveredStep ==
  ASSUME TelegramInv, NEW u \in Updates, MarkDelivered(u) PROVE TelegramInv'
<1>1. /\ messages \in [Updates -> Message \cup {NoMessage}] /\ messages[u] # NoMessage
      /\ messages' = [messages EXCEPT ![u] = [messages[u] EXCEPT !.delivered = TRUE]]
      /\ UNCHANGED <<identities, members, delivery, clerk, workflows, lost>>
  BY DEF MarkDelivered, TelegramInv, TelegramTypeOK
<1>2. PICK old \in Message : old = messages[u]
  BY <1>1
<1> DEFINE new == [old EXCEPT !.delivered = TRUE]
<1>3. /\ new \in Message /\ new.envelope = old.envelope /\ new.status = old.status
      /\ new.user = old.user
  BY DEF Message
<1>4. messages' = [messages EXCEPT ![u] = new]
  BY <1>1, <1>2
<1> HIDE DEF new
<1>5. new # NoMessage /\ old # NoMessage
  BY <1>3, TelegramAssumption
<1>6. /\ messages' \in [Updates -> Message \cup {NoMessage}]
      /\ \A v \in Updates :
            /\ messages'[v] = NoMessage <=> messages[v] = NoMessage
            /\ messages'[v].envelope = messages[v].envelope
            /\ messages'[v].status = messages[v].status
            /\ messages'[v].user = messages[v].user
  BY <1>1, <1>2, <1>3, <1>4, <1>5
<1>7. TelegramTypeOK'
  BY <1>1, <1>6 DEF TelegramInv, TelegramTypeOK
<1>8. \A v \in Updates : (CountFits(messages[v], workflows[v]) /\ OwnerFits(messages[v]))'
  BY <1>1, <1>6 DEF TelegramInv, CountFits, OwnerFits
<1>9. \A d \in Deliveries : delivery[d].at # "waiting" => UpdateOf(d) \in Updates
  BY DeliveryTyped DEF TelegramInv, TelegramTypeOK, UpdateOf
<1>10. \A d \in Deliveries : (delivery[d].at = "answered" =>
          RowOf(d) # NoMessage /\ RowOf(d).envelope = delivery[d].envelope)'
  BY <1>1, <1>6, <1>9 DEF TelegramInv, RowOf, UpdateOf
<1>11. ASSUME NEW d \in Deliveries, Working(delivery[d])
       PROVE  WorkFits(delivery[d], messages'[UpdateOf(d)], workflows[UpdateOf(d)],
                       identities[delivery[d].envelope.sender])
  <2>1. /\ UpdateOf(d) \in Updates
        /\ WorkFits(delivery[d], messages[UpdateOf(d)], workflows[UpdateOf(d)],
                    identities[delivery[d].envelope.sender])
    BY <1>9, <1>11 DEF TelegramInv, RowOf, Working, WorkingAt
  <2> QED
    BY <1>6, <2>1 DEF WorkFits
<1>12. \A d \in Deliveries : (Working(delivery[d]) =>
          WorkFits(delivery[d], RowOf(d), workflows[UpdateOf(d)],
                   identities[delivery[d].envelope.sender]))'
  BY <1>1, <1>11 DEF RowOf, UpdateOf, Working, WorkFits
<1>13. \A v \in Updates : \A d, e \in Deliveries : (Worker(d, v) /\ Worker(e, v) => d = e)'
  BY <1>1 DEF TelegramInv, Worker, Working
<1>14. \A v \in Updates : (Unfinished(messages[v]) =>
          v \in lost \/ \E d \in Deliveries : Worker(d, v))'
  BY <1>1, <1>6 DEF TelegramInv, Worker, Working, Unfinished
<1>15. \A k \in Users : (clerk[k] # NoClerk /\ clerk[k].read # NoIdentity =>
          identities[clerk[k].sender] # NoIdentity)'
  BY <1>1 DEF TelegramInv
<1> QED
  BY <1>7, <1>8, <1>10, <1>12, <1>13, <1>14, <1>15 DEF TelegramInv

\* The row is read, and nothing is written yet.
LEMMA ClerkBeginsStep ==
  ASSUME TelegramInv, NEW k \in Users, NEW s \in Senders,
         (\E c \in Chats : BeginVerify(k, s, c)) \/ BeginRevoke(k, s)
  PROVE  TelegramInv'
<1>1. /\ identities \in [Senders -> TelegramIdentity \cup {NoIdentity}]
      /\ members \subseteq Users /\ clerk \in [Users -> Clerk]
  BY DEF TelegramInv, TelegramTypeOK
<1>2. PICK at \in {"verify", "revoke"}, c \in Chats :
            clerk' = [clerk EXCEPT ![k] = [at |-> at, sender |-> s, chat |-> c,
                                           read |-> identities[s]]]
  <2>1. CASE BeginRevoke(k, s)
    BY <1>1, <2>1 DEF BeginRevoke, TelegramIdentity
  <2>2. CASE \E c \in Chats : BeginVerify(k, s, c)
    BY <2>2 DEF BeginVerify
  <2> QED
    BY <2>1, <2>2
<1> DEFINE t == [at |-> at, sender |-> s, chat |-> c, read |-> identities[s]]
<1>3. t \in Clerk /\ t.sender = s /\ t.read = identities[s] /\ clerk' = [clerk EXCEPT ![k] = t]
  BY <1>1, <1>2 DEF Clerk
<1> HIDE DEF t
<1>4. UNCHANGED <<messages, identities, members, delivery, workflows, lost>>
  BY DEF BeginVerify, BeginRevoke
<1>5. \A j \in Users : clerk'[j] # NoClerk /\ clerk'[j].read # NoIdentity =>
            identities'[clerk'[j].sender] # NoIdentity
  BY <1>1, <1>3, <1>4 DEF TelegramInv
<1>6. clerk' \in [Users -> Clerk]
  BY <1>1, <1>3
<1> QED
  BY <1>1, <1>4, <1>5, <1>6, IdentitiesMove

\* What the clerk writes leaves the user of the identity alone.
LEMMA ClerkWritesStep ==
  ASSUME TelegramInv, NEW k \in Users, Verify(k) \/ Revoke(k)
  PROVE  TelegramInv'
<1>1. PICK at \in {"verify", "revoke"}, granted \in BOOLEAN : CommitIdentity(k, at, granted)
  BY DEF Verify, Revoke
<1>2. /\ identities \in [Senders -> TelegramIdentity \cup {NoIdentity}]
      /\ members \subseteq Users /\ clerk \in [Users -> Clerk] /\ clerk[k].at = at
      /\ clerk' = [clerk EXCEPT ![k] = NoClerk]
      /\ UNCHANGED <<messages, members, delivery, workflows, lost>>
  BY <1>1 DEF CommitIdentity, TelegramInv, TelegramTypeOK
<1>3. PICK s \in Senders, c \in Chats, read \in TelegramIdentity \cup {NoIdentity} :
            s = clerk[k].sender /\ c = clerk[k].chat /\ read = clerk[k].read
  BY <1>2 DEF Clerk, NoClerk
<1>4. read # NoIdentity => identities[s] # NoIdentity
  BY <1>2, <1>3 DEF TelegramInv, NoClerk
<1>5. identities' = identities
      \/ \E identity \in TelegramIdentity :
            /\ identities' = [identities EXCEPT ![s] = identity]
            /\ identities[s] # NoIdentity => identity.user = identities[s].user
  <2>1. CASE ~Commits(k)
    BY <1>1, <2>1 DEF CommitIdentity
  <2>2. CASE Commits(k) /\ read = NoIdentity
    <3> DEFINE identity == [user |-> k, chat |-> c, verified |-> TRUE, revokedAt |-> FALSE]
    <3>1. identities' = [identities EXCEPT ![s] = identity]
      BY <1>1, <1>3, <2>2 DEF CommitIdentity
    <3>2. identity \in TelegramIdentity
      BY DEF TelegramIdentity
    <3>3. identities[s] = NoIdentity
      BY <1>3, <2>2 DEF Commits
    <3> QED
      BY <3>1, <3>2, <3>3
  <2>3. CASE Commits(k) /\ read # NoIdentity
    <3>1. PICK old \in TelegramIdentity : old = identities[s]
      BY <1>2, <1>4, <2>3
    <3> DEFINE chat == Column(c, read.chat, old.chat)
               seen == Column(granted, read.verified, old.verified)
               gone == IF granted THEN Column(FALSE, read.revokedAt, old.revokedAt) ELSE TRUE
               identity == [old EXCEPT !.chat = chat, !.verified = seen, !.revokedAt = gone]
    <3>2. identities' = [identities EXCEPT ![s] = identity]
      BY <1>1, <1>3, <2>3, <3>1 DEF CommitIdentity, TelegramIdentity
    <3>3. chat \in Chats /\ seen \in BOOLEAN /\ gone \in BOOLEAN
      BY DEF Column, TelegramIdentity
    <3> HIDE DEF chat, seen, gone
    <3>4. identity \in TelegramIdentity /\ identity.user = old.user
      BY <3>3 DEF TelegramIdentity
    <3> HIDE DEF identity
    <3> QED
      BY <3>1, <3>2, <3>4
  <2> QED
    BY <2>1, <2>2, <2>3
<1>6. /\ identities' \in [Senders -> TelegramIdentity \cup {NoIdentity}]
      /\ \A x \in Senders : identities[x] # NoIdentity =>
            identities'[x] # NoIdentity /\ identities'[x].user = identities[x].user
  BY <1>2, <1>5, TelegramAssumption
<1>7. clerk' \in [Users -> Clerk] /\ members' \subseteq Users
  BY <1>2 DEF Clerk
<1>8. ASSUME NEW j \in Users, clerk'[j] # NoClerk, clerk'[j].read # NoIdentity
      PROVE  identities'[clerk'[j].sender] # NoIdentity
  <2>1. clerk'[j] = clerk[j] /\ clerk[j] \in Clerk
    BY <1>2, <1>8
  <2>2. clerk[j].sender \in Senders
    BY <1>8, <2>1 DEF Clerk
  <2>3. identities[clerk[j].sender] # NoIdentity
    BY <1>8, <2>1 DEF TelegramInv
  <2> QED
    BY <1>6, <2>1, <2>2, <2>3
<1>9. UNCHANGED <<messages, delivery, workflows, lost>>
  BY <1>2
<1> QED
  BY <1>6, <1>7, <1>8, <1>9, IdentitiesMove

LEMMA LoseMembershipStep ==
  ASSUME TelegramInv, NEW k \in Users, LoseMembership(k) PROVE TelegramInv'
<1>1. /\ UNCHANGED <<messages, delivery, workflows, lost>> /\ UNCHANGED <<identities, clerk>>
      /\ members' \subseteq Users
  BY DEF LoseMembership, TelegramInv, TelegramTypeOK
<1>2. /\ clerk' \in [Users -> Clerk]
      /\ identities' \in [Senders -> TelegramIdentity \cup {NoIdentity}]
      /\ \A j \in Users : clerk'[j] # NoClerk /\ clerk'[j].read # NoIdentity =>
            identities'[clerk'[j].sender] # NoIdentity
  BY <1>1 DEF TelegramInv, TelegramTypeOK
<1> QED
  BY <1>1, <1>2, IdentitiesMove

LEMMA TelegramInvStep == TelegramInv /\ [TelegramNext]_telegramVars => TelegramInv'
<1> SUFFICES ASSUME TelegramInv, [TelegramNext]_telegramVars PROVE TelegramInv'
  OBVIOUS
<1>1. CASE UNCHANGED telegramVars
  <2>1. /\ UNCHANGED <<messages, delivery, workflows, lost>> /\ UNCHANGED <<identities, clerk>>
        /\ members' \subseteq Users
    BY <1>1 DEF telegramVars, TelegramInv, TelegramTypeOK
  <2>2. /\ clerk' \in [Users -> Clerk]
        /\ identities' \in [Senders -> TelegramIdentity \cup {NoIdentity}]
        /\ \A j \in Users : clerk'[j] # NoClerk /\ clerk'[j].read # NoIdentity =>
              identities'[clerk'[j].sender] # NoIdentity
    BY <2>1 DEF TelegramInv, TelegramTypeOK
  <2> QED
    BY <2>1, <2>2, IdentitiesMove
<1>2. ASSUME NEW d \in Deliveries, DeliveryStep(d) PROVE TelegramInv'
  BY <1>2, InsertStep, IdentifyStep, AuthorizeStep, WorkflowStep, FinishStep DEF DeliveryStep
<1> QED
  BY <1>1, <1>2, ReceiveStep, DieStep, MarkDeliveredStep, ClerkBeginsStep, ClerkWritesStep,
     LoseMembershipStep DEF TelegramNext

\* For any number of updates, redeliveries, crashes and revocations each update is worked on
\* at most once, none is dropped unnoticed, and its answer and its user belong to it
\* (TelegramTransportService.process, TelegramIdentityService).
THEOREM TelegramIsSafe == TelegramSpec => []TelegramSafe
<1>1. TelegramSpec => []TelegramInv
  BY TelegramInvInit, TelegramInvStep, PTL DEF TelegramSpec
<1> QED
  BY <1>1, TelegramInvIsSafe, PTL

-----------------------------------------------------------------------------
(* Market quotes.                                                           *)

\* An instrument that is verified for display has what a price needs.
VerifiedIsAvailable ==
    \A i \in Instruments :
        instruments[i].state = "verified_customer_display" => Available(instruments[i])

\* The providers before the one in turn were tried if they are in scope, and the one in
\* turn is admitted, called and verified before its price is looked at.
TriedInOrder ==
    /\ \A p \in Providers : p < provider /\ Scoped(p) => p \in admitted
    /\ gateway = "asked" => provider = 1
    /\ gateway \in {"usage", "search", "quotes", "record", "price", "fetching", "snapshot",
                    "answered"} => provider \in admitted
    /\ gateway \in {"search", "quotes"} => provider \in contacted
    /\ gateway \in {"record", "price", "fetching", "snapshot", "answered"}
       /\ verified = "verified_customer_display" =>
          /\ provider \in contacted
          /\ \A i \in Instruments : instruments[i].state = "verified_customer_display"

TimesAreOrdered ==
    /\ receivedAt <= clock
    /\ gateway = "snapshot" => observedAt <= receivedAt

AnsweredIsVerified ==
    gateway = "answered" =>
        /\ verified = "verified_customer_display" /\ Recent(receivedAt, observedAt)
        /\ observedAt <= receivedAt
        /\ quote = [provider |-> provider, observed |-> observedAt, received |-> receivedAt]

\* The invariant: it knows how far each provider has come and which times were read.
QuotesInv ==
    /\ MarketTypeOK
    /\ OnlyScopedProvidersAreCalled /\ EveryFallbackIsTried
    /\ VerifiedIsAvailable /\ TriedInOrder /\ TimesAreOrdered /\ AnsweredIsVerified
    /\ (quote # NoQuote) <=> (gateway = "answered")

LEMMA QuotesInvIsSafe == QuotesInv => QuotesSafe
<1> SUFFICES ASSUME QuotesInv PROVE QuotesSafe
  OBVIOUS
<1>1. ASSUME gateway = "answered"
      PROVE  /\ quote.provider = provider /\ provider \in contacted /\ Scoped(provider)
             /\ \A i \in Instruments : Available(instruments[i])
             /\ quote.observed <= quote.received /\ quote.received <= clock
             /\ quote.received - quote.observed <= StaleAfter
  BY <1>1 DEF QuotesInv, OnlyScopedProvidersAreCalled, VerifiedIsAvailable, TriedInOrder,
     TimesAreOrdered, AnsweredIsVerified, Recent
<1> QED
  BY <1>1 DEF QuotesInv, QuotesSafe, AnsweredQuoteIsGood

LEMMA FirstProvider == 1 \in Providers /\ Providers = 1 .. Len(Configurations)
                       /\ Providers \subseteq Nat
<1>1. Len(Configurations) \in Nat /\ DOMAIN Configurations = 1 .. Len(Configurations)
  BY MarketAssumption, LenProperties
<1>2. Len(Configurations) # 0
  BY MarketAssumption, EmptySeq
<1> QED
  BY <1>1, <1>2 DEF Providers

LEMMA QuotesInvInit == MarketInit => QuotesInv
<1> SUFFICES ASSUME MarketInit PROVE QuotesInv
  OBVIOUS
<1>1. MarketTypeOK
  BY MarketAssumption, FirstProvider DEF MarketInit, MarketTypeOK, Unknown,
     InstrumentVerification, VerificationState
<1>2. \A p \in Providers : ~(p < provider)
  BY FirstProvider DEF MarketInit
<1> QED
  BY <1>1, <1>2, MarketAssumption DEF MarketInit, QuotesInv, OnlyScopedProvidersAreCalled,
     EveryFallbackIsTried, VerifiedIsAvailable, TriedInOrder, TimesAreOrdered,
     AnsweredIsVerified, Unknown

\* A provider that fails hands over: what the verification and the price left behind
\* says nothing of the next one.
LEMMA HandOverStep ==
  ASSUME QuotesInv, NextProvider, gateway \in {"gate", "price", "fetching", "snapshot"},
         gateway = "gate" => ~Entitled,
         UNCHANGED <<clock, member, verificationVars, priceVars, quote, historyVars>>
  PROVE  QuotesInv'
<1>1. /\ provider \in Providers /\ provider \in Nat /\ gateway # "asked"
      /\ UNCHANGED <<clock, member, todo, checkedAt, instruments, verified, receivedAt,
                     observedAt, quote, contacted, admitted>>
  BY FirstProvider DEF QuotesInv, MarketTypeOK, verificationVars, priceVars, historyVars
<1>2. /\ gateway' \in {"gate", "unavailable"} /\ provider' \in Providers
      /\ gateway' = "gate" => provider' = provider + 1
      /\ gateway' = "unavailable" => provider' = provider /\ provider + 1 \notin Providers
  BY <1>1 DEF NextProvider
<1>3. Scoped(provider) => provider \in admitted
  BY DEF QuotesInv, TriedInOrder, Entitled, Config, Scoped
<1>4. \A p \in Providers : p <= provider /\ Scoped(p) => p \in admitted
  BY <1>1, <1>3, FirstProvider DEF QuotesInv, TriedInOrder
<1>5. MarketTypeOK'
  BY <1>1, <1>2 DEF QuotesInv, MarketTypeOK
<1>6. OnlyScopedProvidersAreCalled'
  <2>1. provider <= provider' /\ provider' \in Nat
    BY <1>1, <1>2
  <2>2. admitted \subseteq Nat
    BY FirstProvider DEF QuotesInv, MarketTypeOK
  <2> QED
    BY <1>1, <2>1, <2>2 DEF QuotesInv, OnlyScopedProvidersAreCalled, Scoped
<1>7. EveryFallbackIsTried'
  <2>1. gateway' = "unavailable" => \A p \in Providers : p <= provider
    BY <1>1, <1>2, FirstProvider
  <2> QED
    BY <1>1, <1>4, <2>1 DEF EveryFallbackIsTried, Scoped
<1>8. TriedInOrder'
  <2>1. \A p \in Providers : p < provider' => p <= provider
    BY <1>1, <1>2, FirstProvider
  <2>2. \A p \in Providers : p < provider' /\ Scoped(p) => p \in admitted'
    BY <1>1, <1>4, <2>1
  <2> QED
    BY <1>2, <2>2 DEF TriedInOrder, Scoped
<1>9. VerifiedIsAvailable' /\ TimesAreOrdered' /\ AnsweredIsVerified'
  BY <1>1, <1>2 DEF QuotesInv, VerifiedIsAvailable, Available, TimesAreOrdered, AnsweredIsVerified
<1>10. ((quote # NoQuote) <=> (gateway = "answered"))'
  BY <1>1, <1>2 DEF QuotesInv
<1> QED
  BY <1>5, <1>6, <1>7, <1>8, <1>9, <1>10 DEF QuotesInv

\* The gateway moves on to an earlier question, with nothing but its own state changed.
LEMMA MovesOnStep ==
  ASSUME QuotesInv, provider' = provider, gateway # "answered",
         gateway' \in {"gate", "price", "fetching", "denied", "raised", "unavailable"},
         gateway' = "unavailable" => ~Scoped(1),
         gateway' \in {"price", "fetching"} =>
            gateway \in {"record", "price"},
         receivedAt' \in {receivedAt, clock}, observedAt' \in 0 .. MaxClock,
         UNCHANGED <<clock, member, verificationVars, quote, historyVars>>
  PROVE  QuotesInv'
<1>1. UNCHANGED <<clock, member, todo, checkedAt, instruments, verified, quote, contacted, admitted>>
  BY DEF verificationVars, historyVars
<1>2. clock \in 0 .. MaxClock /\ receivedAt \in 0 .. MaxClock
  BY DEF QuotesInv, MarketTypeOK
<1>3. MarketTypeOK'
  BY <1>1, <1>2 DEF QuotesInv, MarketTypeOK
<1>4. OnlyScopedProvidersAreCalled' /\ EveryFallbackIsTried' /\ VerifiedIsAvailable'
  BY <1>1 DEF QuotesInv, OnlyScopedProvidersAreCalled, EveryFallbackIsTried,
     VerifiedIsAvailable, Available, Scoped
<1>5. TriedInOrder'
  BY <1>1 DEF QuotesInv, TriedInOrder, Scoped
<1>6. TimesAreOrdered' /\ AnsweredIsVerified' /\ ((quote # NoQuote) <=> (gateway = "answered"))'
  BY <1>1, <1>2, MarketAssumption DEF QuotesInv, TimesAreOrdered, AnsweredIsVerified
<1> QED
  BY <1>3, <1>4, <1>5, <1>6 DEF QuotesInv

LEMMA AdmitStep == ASSUME QuotesInv, Admit PROVE QuotesInv'
<1>1. /\ gateway = "gate" /\ gateway' = "usage" /\ Scoped(provider)
      /\ admitted' = admitted \cup {provider}
      /\ instruments' = [i \in Instruments |-> Unknown]
      /\ UNCHANGED <<clock, member, provider, todo, checkedAt, verified, receivedAt,
                     observedAt, quote, contacted>>
      /\ provider \in Providers /\ provider \in Nat
  BY FirstProvider DEF Admit, QuotesInv, MarketTypeOK, priceVars, Entitled, Config, Scoped
<1>2. MarketTypeOK'
  BY <1>1 DEF QuotesInv, MarketTypeOK, Unknown, InstrumentVerification, VerificationState
<1>3. OnlyScopedProvidersAreCalled' /\ EveryFallbackIsTried' /\ VerifiedIsAvailable'
  BY <1>1 DEF QuotesInv, OnlyScopedProvidersAreCalled, EveryFallbackIsTried,
     VerifiedIsAvailable, Scoped, Unknown
<1>4. TriedInOrder' /\ TimesAreOrdered' /\ AnsweredIsVerified'
      /\ ((quote # NoQuote) <=> (gateway = "answered"))'
  BY <1>1 DEF QuotesInv, TriedInOrder, TimesAreOrdered, AnsweredIsVerified, Scoped
<1> QED
  BY <1>2, <1>3, <1>4 DEF QuotesInv

\* The verification goes on with the provider in turn.
LEMMA VerifiesStep ==
  ASSUME QuotesInv, gateway \in {"usage", "search", "quotes"},
         gateway' \in {"search", "quotes", "record"},
         contacted' \in {contacted, contacted \cup {provider}},
         contacted' # contacted => Config.key,
         gateway = "usage" /\ gateway' # "record" => provider \in contacted',
         UNCHANGED <<clock, member, provider, receivedAt, observedAt, quote, admitted>>,
         todo' \subseteq Instruments, checkedAt' \in {checkedAt, clock},
         instruments' \in [Instruments -> InstrumentVerification],
         \A i \in Instruments : instruments'[i].state = "verified_customer_display" =>
            Available(instruments'[i]),
         verified' \in VerificationState,
         gateway' = "record" /\ verified' = "verified_customer_display" =>
            /\ gateway = "quotes"
            /\ \A i \in Instruments : instruments'[i].state = "verified_customer_display"
  PROVE  QuotesInv'
<1>1. MarketTypeOK'
  BY DEF QuotesInv, MarketTypeOK
<1>2. provider \in admitted /\ provider \in Providers
  BY DEF QuotesInv, TriedInOrder, MarketTypeOK
<1>3. OnlyScopedProvidersAreCalled' /\ EveryFallbackIsTried'
  BY <1>2 DEF QuotesInv, OnlyScopedProvidersAreCalled, EveryFallbackIsTried, Scoped, Config
<1>4. VerifiedIsAvailable'
  BY DEF VerifiedIsAvailable, Available
<1>5. TriedInOrder'
  BY <1>2 DEF QuotesInv, TriedInOrder, Scoped
<1>6. TimesAreOrdered' /\ AnsweredIsVerified' /\ ((quote # NoQuote) <=> (gateway = "answered"))'
  BY DEF QuotesInv, TimesAreOrdered, AnsweredIsVerified
<1> QED
  BY <1>1, <1>3, <1>4, <1>5, <1>6 DEF QuotesInv

\* Results the provider may give for one instrument.
LEMMA ResultsFit ==
  ASSUME NEW r \in InstrumentVerification, NEW q \in MappingResults \cup QuoteResults(r),
         r.state = "verified_customer_display" => Available(r), Config \in Configuration
  PROVE  /\ q \in InstrumentVerification
         /\ q.state = "verified_customer_display" => Available(q)
<1>1. CASE q \in MappingResults
  <2>1. Config.realTime \in BOOLEAN
    BY DEF Configuration
  <2>2. q \in InstrumentVerification
    <3>1. ASSUME NEW how \in VerificationState, q = [Unknown EXCEPT !.state = how]
          PROVE  q \in InstrumentVerification
      BY <3>1 DEF Unknown, InstrumentVerification, VerificationState
    <3>2. CASE \/ q = [state |-> "entitlement_unverified", mapped |-> TRUE,
                       realTime |-> FALSE, display |-> FALSE]
               \/ q = [state |-> "verified_customer_display", mapped |-> TRUE,
                       realTime |-> TRUE, display |-> TRUE]
               \/ q = [state |-> "verified_internal", mapped |-> TRUE,
                       realTime |-> Config.realTime, display |-> FALSE]
      <4>1. PICK live \in BOOLEAN : live = Config.realTime
        BY <2>1
      <4>2. ASSUME NEW how \in VerificationState, NEW known \in BOOLEAN, NEW shown \in BOOLEAN
            PROVE  [state |-> how, mapped |-> TRUE, realTime |-> known, display |-> shown]
                      \in InstrumentVerification
        BY DEF InstrumentVerification
      <4>3. {"entitlement_unverified", "verified_customer_display", "verified_internal"}
               \subseteq VerificationState
        BY DEF VerificationState
      <4> QED
        BY <3>2, <4>1, <4>2, <4>3
    <3>3. CASE q = Unknown
      BY <3>3 DEF Unknown, InstrumentVerification, VerificationState
    <3>4. CASE q = [Unknown EXCEPT !.state = "symbol_unverified"]
      <4>1. "symbol_unverified" \in VerificationState
        BY DEF VerificationState
      <4> QED
        BY <3>1, <3>4, <4>1
    <3>5. CASE ~Entitled
      BY <1>1, <3>2, <3>3, <3>4, <3>5 DEF MappingResults
    <3>6. CASE Entitled
      BY <1>1, <3>2, <3>3, <3>4, <3>6 DEF MappingResults
    <3> QED
      BY <3>5, <3>6
  <2>3. q.state = "verified_customer_display" => Available(q)
    BY <1>1 DEF MappingResults, Unknown, Available
  <2> QED
    BY <2>2, <2>3
<1>2. CASE q \in QuoteResults(r)
  BY <1>2 DEF QuoteResults, FreshnessResult, Available, InstrumentVerification, VerificationState
<1> QED
  BY <1>1, <1>2

LEMMA VerificationFailsStep ==
  ASSUME QuotesInv, gateway \in {"usage", "search", "quotes"}, NEW how \in VerificationState,
         how # "verified_customer_display", VerificationFails(how),
         contacted' \in {contacted, contacted \cup {provider}},
         contacted' # contacted => Config.key,
         UNCHANGED <<clock, member, provider, checkedAt, priceVars, quote, admitted>>
  PROVE  QuotesInv'
<1>1. /\ gateway' = "record" /\ verified' = how /\ todo' = {}
      /\ instruments' = [i \in Instruments |-> [Unknown EXCEPT !.state = how]]
      /\ UNCHANGED <<receivedAt, observedAt>>
  BY DEF VerificationFails, priceVars
<1>2. /\ [Unknown EXCEPT !.state = how] \in InstrumentVerification
      /\ [Unknown EXCEPT !.state = how].state = how
  BY DEF Unknown, InstrumentVerification, VerificationState
<1> QED
  BY <1>1, <1>2, VerifiesStep

LEMMA VerificationEndsStep ==
  ASSUME QuotesInv, NotConfigured \/ UsageFails \/ AnswersStop
  PROVE  QuotesInv'
<1>1. CASE NotConfigured
  BY <1>1, VerificationFailsStep DEF NotConfigured, historyVars, VerificationState
<1>2. CASE UsageFails
  BY <1>2, VerificationFailsStep DEF UsageFails, Contact, VerificationState
<1>3. CASE AnswersStop
  BY <1>3, VerificationFailsStep DEF AnswersStop, historyVars, VerificationState
<1> QED
  BY <1>1, <1>2, <1>3

LEMMA UsageStep == ASSUME QuotesInv, Usage PROVE QuotesInv'
<1>1. /\ gateway = "usage" /\ gateway' = "search" /\ Config.key
      /\ contacted' = contacted \cup {provider} /\ todo' = Instruments
      /\ UNCHANGED <<clock, member, provider, checkedAt, instruments, verified,
                     receivedAt, observedAt, quote, admitted>>
  BY DEF Usage, Contact, priceVars
<1>2. /\ instruments \in [Instruments -> InstrumentVerification] /\ verified \in VerificationState
      /\ \A i \in Instruments : instruments[i].state = "verified_customer_display" =>
            Available(instruments[i])
  BY DEF QuotesInv, MarketTypeOK, VerifiedIsAvailable
<1> QED
  BY <1>1, <1>2, VerifiesStep

LEMMA QuoteAnswerStep ==
  ASSUME QuotesInv, NEW i \in Instruments, Search(i) \/ Quote(i)
  PROVE  QuotesInv'
<1>1. /\ instruments \in [Instruments -> InstrumentVerification] /\ verified \in VerificationState
      /\ todo \subseteq Instruments
      /\ \A j \in Instruments : instruments[j].state = "verified_customer_display" =>
            Available(instruments[j])
  BY DEF QuotesInv, MarketTypeOK, VerifiedIsAvailable
<1>2. PICK r \in MappingResults \cup QuoteResults(instruments[i]) :
            instruments' = [instruments EXCEPT ![i] = r]
  BY DEF Search, Quote
<1>3. r \in InstrumentVerification /\ (r.state = "verified_customer_display" => Available(r))
  <2>1. Config \in Configuration
    BY MarketAssumption, FirstProvider DEF Config, QuotesInv, MarketTypeOK
  <2> QED
    BY <1>1, <1>2, <2>1, ResultsFit
<1>4. /\ instruments' \in [Instruments -> InstrumentVerification]
      /\ \A j \in Instruments : instruments'[j].state = "verified_customer_display" =>
            Available(instruments'[j])
  BY <1>1, <1>2, <1>3
<1>5. /\ gateway \in {"search", "quotes"} /\ gateway' = gateway /\ todo' \subseteq Instruments
      /\ UNCHANGED <<clock, member, provider, checkedAt, verified, receivedAt, observedAt,
                     quote, contacted, admitted>>
  BY <1>1 DEF Search, Quote, priceVars, historyVars
<1> QED
  BY <1>1, <1>4, <1>5, VerifiesStep

LEMMA FetchQuotesStep == ASSUME QuotesInv, FetchQuotes PROVE QuotesInv'
<1>1. /\ gateway = "search" /\ gateway' = "quotes" /\ checkedAt' = clock
      /\ todo' \subseteq Instruments
      /\ UNCHANGED <<clock, member, provider, instruments, verified, receivedAt, observedAt,
                     quote, contacted, admitted>>
  BY DEF FetchQuotes, priceVars, historyVars
<1>2. /\ instruments \in [Instruments -> InstrumentVerification] /\ verified \in VerificationState
      /\ \A i \in Instruments : instruments[i].state = "verified_customer_display" =>
            Available(instruments[i])
  BY DEF QuotesInv, MarketTypeOK, VerifiedIsAvailable
<1> QED
  BY <1>1, <1>2, VerifiesStep

LEMMA ConcludeStep == ASSUME QuotesInv, Conclude PROVE QuotesInv'
<1>1. /\ gateway = "quotes" /\ gateway' = "record" /\ verified' = OverallState
      /\ UNCHANGED <<clock, member, provider, todo, checkedAt, instruments, receivedAt,
                     observedAt, quote, contacted, admitted>>
  BY DEF Conclude, priceVars, historyVars
<1>2. /\ instruments \in [Instruments -> InstrumentVerification] /\ todo \subseteq Instruments
      /\ \A i \in Instruments : instruments[i].state = "verified_customer_display" =>
            Available(instruments[i])
  BY DEF QuotesInv, MarketTypeOK, VerifiedIsAvailable
<1>3. /\ OverallState \in VerificationState
      /\ OverallState = "verified_customer_display" =>
            \A i \in Instruments : instruments[i].state = "verified_customer_display"
  BY DEF OverallState, VerificationState
<1> QED
  BY <1>1, <1>2, <1>3, VerifiesStep

LEMMA PriceArrivesStep == ASSUME QuotesInv, PriceArrives PROVE QuotesInv'
<1>1. /\ gateway = "fetching" /\ observedAt' \in 0 .. clock
      /\ gateway' = IF observedAt' <= receivedAt THEN "snapshot" ELSE "raised"
      /\ UNCHANGED <<clock, member, provider, verificationVars, receivedAt, quote, historyVars>>
  BY DEF PriceArrives
<1>2. /\ UNCHANGED <<todo, checkedAt, instruments, verified, contacted, admitted>>
      /\ observedAt' \in 0 .. MaxClock
  BY <1>1, MarketAssumption DEF verificationVars, historyVars, QuotesInv, MarketTypeOK
<1>3. MarketTypeOK'
  BY <1>1, <1>2 DEF QuotesInv, MarketTypeOK
<1>4. OnlyScopedProvidersAreCalled' /\ EveryFallbackIsTried' /\ VerifiedIsAvailable'
  BY <1>1, <1>2 DEF QuotesInv, OnlyScopedProvidersAreCalled, EveryFallbackIsTried,
     VerifiedIsAvailable, Available, Scoped
<1>5. TriedInOrder'
  BY <1>1, <1>2 DEF QuotesInv, TriedInOrder, Scoped
<1>6. TimesAreOrdered' /\ AnsweredIsVerified' /\ ((quote # NoQuote) <=> (gateway = "answered"))'
  BY <1>1, <1>2 DEF QuotesInv, TimesAreOrdered, AnsweredIsVerified
<1> QED
  BY <1>3, <1>4, <1>5, <1>6 DEF QuotesInv

LEMMA SnapshotStep == ASSUME QuotesInv, Snapshot PROVE QuotesInv'
<1>1. /\ gateway = "snapshot" /\ gateway' = "answered" /\ Acceptable
      /\ quote' = [provider |-> provider, observed |-> observedAt, received |-> receivedAt]
      /\ UNCHANGED <<clock, member, provider, todo, checkedAt, instruments, verified,
                     receivedAt, observedAt, contacted, admitted>>
  BY DEF Snapshot, verificationVars, priceVars, historyVars
<1>2. quote' \in MarketSnapshot /\ quote' # NoQuote
  BY <1>1, MarketAssumption DEF QuotesInv, MarketTypeOK, MarketSnapshot
<1>3. MarketTypeOK'
  BY <1>1, <1>2 DEF QuotesInv, MarketTypeOK
<1>4. OnlyScopedProvidersAreCalled' /\ EveryFallbackIsTried' /\ VerifiedIsAvailable'
  BY <1>1 DEF QuotesInv, OnlyScopedProvidersAreCalled, EveryFallbackIsTried,
     VerifiedIsAvailable, Available, Scoped
<1>5. TriedInOrder'
  BY <1>1 DEF QuotesInv, TriedInOrder, Scoped
<1>6. TimesAreOrdered' /\ AnsweredIsVerified'
  BY <1>1 DEF QuotesInv, TimesAreOrdered, AnsweredIsVerified, Acceptable, Recent
<1> QED
  BY <1>1, <1>2, <1>3, <1>4, <1>5, <1>6 DEF QuotesInv

\* The world around the request: the clock runs, the user leaves the workspace.
LEMMA AroundStep == ASSUME QuotesInv, Tick \/ LeaveWorkspace PROVE QuotesInv'
<1>1. /\ clock' \in 0 .. MaxClock /\ clock <= clock' /\ member' \in BOOLEAN
      /\ UNCHANGED <<gateway, provider, todo, checkedAt, instruments, verified, receivedAt,
                     observedAt, quote, contacted, admitted>>
  <2>1. clock \in 0 .. MaxClock /\ member \in BOOLEAN
    BY DEF QuotesInv, MarketTypeOK
  <2>2. CASE Tick
    BY <2>1, <2>2, MarketAssumption DEF Tick, verificationVars, priceVars, historyVars
  <2>3. CASE LeaveWorkspace
    <3>1. member' = FALSE
      BY <2>3 DEF LeaveWorkspace
    <3>2. UNCHANGED <<clock, gateway, provider, todo, checkedAt, instruments, verified,
                      receivedAt, observedAt, quote, contacted, admitted>>
      BY <2>3 DEF LeaveWorkspace, verificationVars, priceVars, historyVars
    <3>3. clock <= clock
      BY <2>1, MarketAssumption
    <3> QED
      BY <2>1, <3>1, <3>2, <3>3
  <2> QED
    BY <2>2, <2>3
<1>2. MarketTypeOK'
  BY <1>1 DEF QuotesInv, MarketTypeOK
<1>3. OnlyScopedProvidersAreCalled' /\ EveryFallbackIsTried' /\ VerifiedIsAvailable'
  BY <1>1 DEF QuotesInv, OnlyScopedProvidersAreCalled, EveryFallbackIsTried,
     VerifiedIsAvailable, Available, Scoped
<1>4. TriedInOrder' /\ AnsweredIsVerified'
  BY <1>1 DEF QuotesInv, TriedInOrder, Scoped, AnsweredIsVerified, Recent
<1>5. TimesAreOrdered'
  BY <1>1 DEF QuotesInv, MarketTypeOK, TimesAreOrdered
<1> QED
  BY <1>1, <1>2, <1>3, <1>4, <1>5 DEF QuotesInv

\* The actions that only move the gateway on.
LEMMA GatewayStep ==
  ASSUME QuotesInv, Ask \/ Deny \/ Record \/ SendRequest \/ DatabaseFails
  PROVE  QuotesInv'
<1>1. clock \in 0 .. MaxClock /\ observedAt \in 0 .. MaxClock
  BY DEF QuotesInv, MarketTypeOK
<1>2. CASE Ask
  <2>1. provider = 1
    BY <1>2 DEF Ask, QuotesInv, TriedInOrder
  <2>2. gateway' \in {"denied", "unavailable", "gate"} /\ (gateway' = "unavailable" => ~Scoped(1))
    BY <1>2, <2>1 DEF Ask, Entitled, Config, Scoped
  <2> QED
    BY <1>1, <1>2, <2>2, MovesOnStep DEF Ask, priceVars
<1>3. CASE Deny
  BY <1>1, <1>3, MovesOnStep DEF Deny, priceVars
<1>4. CASE Record
  BY <1>1, <1>4, MovesOnStep DEF Record, priceVars
<1>5. CASE SendRequest
  BY <1>1, <1>5, MovesOnStep DEF SendRequest
<1>6. CASE DatabaseFails
  BY <1>1, <1>6, MovesOnStep DEF DatabaseFails, priceVars
<1> QED
  BY <1>2, <1>3, <1>4, <1>5, <1>6

LEMMA FallbackStep ==
  ASSUME QuotesInv, SkipProvider \/ PriceUnavailable \/ RejectQuote
  PROVE  QuotesInv'
<1>1. CASE SkipProvider
  BY <1>1, HandOverStep DEF SkipProvider
<1>2. CASE PriceUnavailable
  BY <1>2, HandOverStep DEF PriceUnavailable
<1>3. CASE RejectQuote
  BY <1>3, HandOverStep DEF RejectQuote
<1> QED
  BY <1>1, <1>2, <1>3

LEMMA QuotesInvStep == QuotesInv /\ [MarketNext]_marketVars => QuotesInv'
<1> SUFFICES ASSUME QuotesInv, [MarketNext]_marketVars PROVE QuotesInv'
  OBVIOUS
<1>1. CASE UNCHANGED marketVars
  BY <1>1 DEF marketVars, QuotesInv, MarketTypeOK, OnlyScopedProvidersAreCalled,
     EveryFallbackIsTried, VerifiedIsAvailable, Available, TriedInOrder, TimesAreOrdered,
     AnsweredIsVerified, Scoped, Recent
<1> QED
  BY <1>1, AdmitStep, VerificationEndsStep, UsageStep, QuoteAnswerStep, FetchQuotesStep, ConcludeStep,
     PriceArrivesStep, SnapshotStep, AroundStep, GatewayStep, FallbackStep DEF MarketNext

\* For any number of providers and instruments only providers in scope are called, every
\* fallback is tried in turn, and a quote is answered only when it is verified and recent
\* (MarketDataGateway.current_price, MarketDataService.snapshot_for).
THEOREM QuotesAreSafe == MarketSpec => []QuotesSafe
<1>1. MarketSpec => []QuotesInv
  BY QuotesInvInit, QuotesInvStep, PTL DEF MarketSpec
<1> QED
  BY <1>1, QuotesInvIsSafe, PTL

-----------------------------------------------------------------------------
(* The calls together.                                                      *)

\* Only the part chosen at the start moves, and as it would on its own.
LEMMA PartsMove ==
  ASSUME [CallsNext]_callsVars
  PROVE  /\ [JobsNext]_jobVars /\ [OrchestrationNext]_pipelineVars
         /\ [TelegramNext]_telegramVars /\ [MarketNext]_marketVars
BY DEF CallsNext, callsVars

\* Jobs, requests, updates and quotes keep their promises beside each other: what they
\* keep is their own (the job runner, the pipeline, the Telegram receiver and the market
\* gateway share no state).
THEOREM CallsAreSafe ==
  CallsSpec => [](JobsSafe /\ OrchestrationSafe /\ TelegramSafe /\ QuotesSafe)
<1>1. CallsInit => JobsInv /\ PipelineInv /\ TelegramInv /\ QuotesInv
  BY JobsInvInit, PipelineInvInit, TelegramInvInit, QuotesInvInit DEF CallsInit
<1>2. JobsInv /\ [CallsNext]_callsVars => JobsInv'
  BY PartsMove, JobsInvStep
<1>3. PipelineInv /\ [CallsNext]_callsVars => PipelineInv'
  BY PartsMove, PipelineInvStep
<1>4. TelegramInv /\ [CallsNext]_callsVars => TelegramInv'
  BY PartsMove, TelegramInvStep
<1>5. QuotesInv /\ [CallsNext]_callsVars => QuotesInv'
  BY PartsMove, QuotesInvStep
<1>6. CallsSpec => [](JobsInv /\ PipelineInv /\ TelegramInv /\ QuotesInv)
  BY <1>1, <1>2, <1>3, <1>4, <1>5, PTL DEF CallsSpec
<1> QED
  BY <1>6, JobsInvIsSafe, PipelineInvIsSafe, TelegramInvIsSafe, QuotesInvIsSafe, PTL

=============================================================================

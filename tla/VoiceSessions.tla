--------------------------- MODULE VoiceSessions ---------------------------
(***************************************************************************)
(* A voice session: the row that VoiceSessionStore keeps (voice/session.py) *)
(* and the requests that VoiceGateway (voice/gateway.py) serves on it.     *)
(*                                                                         *)
(* A request is one HTTP call with a database session of its own: a        *)
(* transcript, an interrupt or a cancel.  A transcript first claims the    *)
(* row with one conditional UPDATE; after that, and in the other two       *)
(* routes, the row is changed by VoiceSessionStore.update, which reads the *)
(* row and validates the transition, reads it again and commits the new    *)
(* state, with no lock and no condition on the state it replaces.  That is *)
(* a "check" and a "write" here, with every other request in between.      *)
(*                                                                         *)
(* plan[r] is the sequence of states a request has yet to write.  The      *)
(* orchestration call is external: it returns with or without executed     *)
(* actions, asks for an approval, or raises; the deadline of               *)
(* asyncio.wait_for cuts it off.  A request may vanish at any point        *)
(* (process death, cancellation of its task).                              *)
(***************************************************************************)
EXTENDS Naturals, Sequences

CONSTANTS
    Transcripts,  \* POST /sessions/{id}/transcript
    Interrupts,   \* POST /sessions/{id}/interrupt
    Cancels,      \* POST /sessions/{id}/cancel
    None

Requests == Transcripts \cup Interrupts \cup Cancels

ASSUME VoiceAssumption ==
    /\ Transcripts \cap (Interrupts \cup Cancels) = {}
    /\ Interrupts \cap Cancels = {}
    /\ None \notin Requests

VARIABLES
    state,       \* VoiceSessionRecord.state
    transcript,  \* the request whose transcript the row holds
    response,    \* the request whose response_text the row holds
    phase,       \* [Requests -> where the request is]
    mode,        \* [Requests -> what kind of work it does]
    plan         \* [Requests -> the states it has yet to write]

row == <<state, transcript, response>>
vars == <<row, phase, mode, plan>>

VoiceState ==
    { "idle", "requesting_microphone", "listening", "speech_detected",
      "processing", "thinking", "tool_execution", "awaiting_approval",
      "speaking", "interrupted", "completed", "error", "cancelled" }

LEGAL_TRANSITIONS ==
    [ idle |-> {"requesting_microphone", "listening", "processing", "cancelled", "error"},
      requesting_microphone |-> {"listening", "cancelled", "error"},
      listening |-> {"speech_detected", "processing", "cancelled", "error"},
      speech_detected |-> {"processing", "listening", "cancelled", "error"},
      processing |-> {"thinking", "speaking", "completed", "cancelled", "error"},
      thinking |-> {"tool_execution", "awaiting_approval", "speaking", "cancelled", "error"},
      tool_execution |-> {"thinking", "awaiting_approval", "speaking", "cancelled", "error"},
      awaiting_approval |-> {"thinking", "cancelled", "error"},
      speaking |-> {"interrupted", "completed", "cancelled", "error"},
      interrupted |-> {"idle", "processing", "cancelled"},
      completed |-> {"idle", "listening", "processing", "interrupted", "cancelled"},
      error |-> {"idle", "processing", "cancelled"},
      cancelled |-> {} ]

\* validate_transition: the same state is always accepted
Legal(from, to) == to = from \/ to \in LEGAL_TRANSITIONS[from]

\* The states that VoiceSessionStore.claim_transcript takes a session out of
ReadyStates ==
    {"idle", "listening", "speech_detected", "completed", "interrupted", "error"}

\* The states in which handle_transcript answers VoiceSessionBusy
BusyStates == {"processing", "thinking", "tool_execution", "awaiting_approval"}

Phase ==
    { "unsent", "read", "recover", "reread", "claim", "claimed",
      "check", "write", "calling", "failed", "done", "gone" }
Mode == {"none", "route", "command", "orchestration", "failure"}

\* handle_transcript past its claim, or one of the two other routes
Serving(r) == phase[r] \in {"claimed", "check", "write", "calling", "failed"}

\* Inside asyncio.wait_for, where the deadline applies
Timed(r) == mode[r] = "orchestration" /\ Serving(r)

-----------------------------------------------------------------------------
Init ==
    /\ state = "idle"
    /\ transcript = None
    /\ response = None
    /\ phase = [r \in Requests |-> "unsent"]
    /\ mode = [r \in Requests |-> "none"]
    /\ plan = [r \in Requests |-> <<>>]

Goto(r, p) == phase' = [phase EXCEPT ![r] = p]
As(r, m) == mode' = [mode EXCEPT ![r] = m]
Intend(r, states) == plan' = [plan EXCEPT ![r] = states]

Submit(r) ==
    /\ r \in Transcripts
    /\ phase[r] = "unsent"
    /\ Goto(r, "read")
    /\ UNCHANGED <<row, mode, plan>>

\* VoiceGateway.cancel, of the route and of the spoken command: one update,
\* unless the session is read as cancelled
AskCancel(r) ==
    \/ state = "cancelled" /\ Goto(r, "done") /\ UNCHANGED plan
    \/ state # "cancelled" /\ Goto(r, "check") /\ Intend(r, <<"cancelled">>)

Call(r) ==
    /\ r \in Interrupts \cup Cancels
    /\ phase[r] = "unsent"
    /\ As(r, "route")
    /\ \/ r \in Cancels /\ AskCancel(r)
       \/ r \in Interrupts /\ Goto(r, "check") /\ Intend(r, <<"interrupted">>)
    /\ UNCHANGED row

\* The first read of handle_transcript
Read(r) ==
    /\ phase[r] = "read"
    /\ Goto(r, IF state = "thinking" THEN "recover"
               ELSE IF state \in BusyStates THEN "done" ELSE "claim")
    /\ UNCHANGED <<row, mode, plan>>

\* Faulty variant: whatever the age of the row.
StaleAtOnce == state = "thinking"

\* A THINKING row grows older than stale_session_timeout (half an hour, or at
\* least a minute) only when the call that wrote it, which the execution
\* timeout (7 s, at most a minute) cuts off, and its except clause are over
Stale ==
    /\ state = "thinking"
    /\ \A r \in Requests : Serving(r) => mode[r] \notin {"orchestration", "failure"}

\* recover_stale_thinking: one conditional UPDATE
Recover(r) ==
    /\ phase[r] = "recover"
    /\ \/ Stale /\ state' = "error"
       \/ UNCHANGED state
    /\ Goto(r, "reread")
    /\ UNCHANGED <<transcript, response, mode, plan>>

Reread(r) ==
    /\ phase[r] = "reread"
    /\ Goto(r, IF state \in BusyStates THEN "done" ELSE "claim")
    /\ UNCHANGED <<row, mode, plan>>

\* Faulty variant: the state read before is trusted.
ClaimUnconditionally(r) ==
    /\ phase[r] = "claim"
    /\ state' = "processing"
    /\ transcript' = r
    /\ Goto(r, "claimed")
    /\ UNCHANGED <<response, mode, plan>>

\* claim_transcript: one conditional UPDATE
Claim(r) ==
    /\ phase[r] = "claim"
    /\ \/ /\ state \in ReadyStates
          /\ state' = "processing"
          /\ transcript' = r
          /\ Goto(r, "claimed")
       \/ /\ state \notin ReadyStates
          /\ Goto(r, "done")
          /\ UNCHANGED <<state, transcript>>
    /\ UNCHANGED <<response, mode, plan>>

\* Faulty variant: the error goes straight to the caller.
FailSilently(r) == Goto(r, "done") /\ UNCHANGED <<mode, plan>>

\* An error on the way: the except clause of handle_transcript takes over
Fail(r) ==
    /\ Goto(r, "failed")
    /\ As(r, "failure")
    /\ Intend(r, <<"error">>)

\* It resets the session, unless it finds it at an end
Inspect(r) ==
    /\ phase[r] = "failed"
    /\ Goto(r, IF state \in {"error", "cancelled", "completed"} THEN "done" ELSE "check")
    /\ UNCHANGED <<row, mode, plan>>

\* _handle_command, or the first write of _run_orchestration; the roles of
\* the caller may not allow a growth command
Dispatch(r) ==
    /\ phase[r] = "claimed"
    /\ \/ As(r, "command") /\ AskCancel(r)
       \/ /\ As(r, "command")
          /\ Goto(r, "check")
          /\ \E end \in {"interrupted", "completed"} : Intend(r, <<"speaking", end>>)
       \/ As(r, "orchestration") /\ Goto(r, "check") /\ Intend(r, <<"thinking">>)
       \/ Fail(r)
    /\ UNCHANGED row

-----------------------------------------------------------------------------
\* VoiceSessionStore.update, up to validate_transition
Accept(r) ==
    /\ phase[r] = "check"
    /\ Legal(state, Head(plan[r]))
    /\ Goto(r, "write")
    /\ UNCHANGED <<row, mode, plan>>

\* InvalidVoiceStateTransition: a route answers it, a transcript turns to its
\* except clause, and the except clause itself gives up
Reject(r) ==
    /\ phase[r] = "check"
    /\ ~Legal(state, Head(plan[r]))
    /\ \/ mode[r] \in {"command", "orchestration"} /\ Fail(r)
       \/ /\ mode[r] \in {"route", "failure"}
          /\ Goto(r, "done")
          /\ UNCHANGED <<mode, plan>>
    /\ UNCHANGED row

\* VoiceSessionStore.update, from its second read to the commit.  A response
\* goes out with SPEAKING, except before "stop speaking"
Write(r) ==
    /\ phase[r] = "write"
    /\ state' = Head(plan[r])
    /\ response' = IF plan[r] = <<"speaking", "completed">> THEN r ELSE response
    /\ Intend(r, Tail(plan[r]))
    /\ Goto(r, IF Len(plan[r]) > 1 THEN "check"
               ELSE IF Head(plan[r]) = "thinking" THEN "calling" ELSE "done")
    /\ UNCHANGED <<transcript, mode>>

\* DurableVoiceOrchestration.execute returns, or asks for an approval
Outcomes ==
    { <<"speaking", "completed">>, <<"tool_execution", "speaking", "completed">>,
      <<"awaiting_approval">> }

Return(r) ==
    /\ phase[r] = "calling"
    /\ \E states \in Outcomes : Intend(r, states)
    /\ Goto(r, "check")
    /\ UNCHANGED <<row, mode>>

\* The context factory, the engine or a provider raises
Raise(r) ==
    /\ phase[r] = "calling"
    /\ Fail(r)
    /\ UNCHANGED row

\* Faulty variant: the orchestration is awaited as long as it takes.
DeadlineOnlyForUpdates(r) ==
    /\ Timed(r) /\ phase[r] # "calling"
    /\ Fail(r)
    /\ UNCHANGED row

\* asyncio.wait_for cuts the call off at any of its awaits
Deadline(r) ==
    /\ Timed(r)
    /\ Fail(r)
    /\ UNCHANGED row

Vanish(r) ==
    /\ phase[r] \notin {"unsent", "done", "gone"}
    /\ Goto(r, "gone")
    /\ UNCHANGED <<row, mode, plan>>

\* What a request does by itself
Proceed(r) ==
    \/ Read(r) \/ Recover(r) \/ Reread(r) \/ Claim(r) \/ Dispatch(r)
    \/ Accept(r) \/ Reject(r) \/ Write(r) \/ Deadline(r) \/ Inspect(r)

Next ==
    \E r \in Requests :
        Submit(r) \/ Call(r) \/ Proceed(r) \/ Return(r) \/ Raise(r) \/ Vanish(r)

Spec == Init /\ [][Next]_vars

\* A request that the process serves goes on; the orchestration call itself
\* need not return, but its deadline comes
FairSpec == Spec /\ \A r \in Requests : WF_vars(Proceed(r))

-----------------------------------------------------------------------------
\* The row and the requests range over what the code can hold, and a request
\* that is about to write knows what
TypeOK ==
    /\ state \in VoiceState
    /\ transcript \in Transcripts \cup {None}
    /\ response \in Transcripts \cup {None}
    /\ phase \in [Requests -> Phase]
    /\ mode \in [Requests -> Mode]
    /\ plan \in [Requests -> Seq(VoiceState)]
    /\ \A r \in Requests : phase[r] \in {"check", "write"} => plan[r] # <<>>

\* A session that shows work (processing, thinking, a tool, speaking) has a
\* request that works on it, unless one has vanished: whatever fails, is
\* rejected or cut off, and whatever interrupts and cancels cross it, no
\* request ends with the session left at work.  This is what the except clause
\* of handle_transcript is for.
AtWork == {"processing", "thinking", "tool_execution", "speaking"}
WorkHasAWorker ==
    state \in AtWork => \E r \in Requests : Serving(r) \/ phase[r] = "gone"

\* No interrupt and no cancel route has been called so far.
Undisturbed == \A r \in Interrupts \cup Cancels : phase[r] = "unsent"

\* "Atomically claim a ready session for one transcript" (session.py:108):
\* however transcripts, recoveries, deadlines and vanished requests interleave,
\* a session is given to no second transcript while one is worked on.
OneTranscript ==
    Undisturbed => \A r, s \in Transcripts : Serving(r) /\ Serving(s) => r = s

\* As long as transcripts have the session to themselves, each state it takes
\* follows LEGAL_TRANSITIONS, although validation and write are apart.
FollowsTransitions == [][Undisturbed' => Legal(state, state')]_vars

\* As long as transcripts have the session to themselves, a completed session
\* shows the answer to the transcript it shows.
AnswersItsTranscript ==
    Undisturbed /\ state = "completed" => response = transcript

\* A transcript that claimed the session is answered, fails or vanishes: the
\* deadline frees it from a provider that does not answer.
ServiceEnds ==
    \A r \in Requests : Serving(r) ~> phase[r] \in {"done", "gone"}

\* The inductive invariants behind these properties.  What a request of each
\* kind can have before it:
PlansOf ==
    [ none |-> {<<>>},
      route |-> {<<"cancelled">>, <<"interrupted">>},
      command |-> { <<"cancelled">>, <<"speaking", "interrupted">>, <<"interrupted">>,
                    <<"speaking", "completed">>, <<"completed">> },
      orchestration |-> Outcomes \cup
                        { <<"thinking">>, <<"speaking", "completed">>, <<"completed">> },
      failure |-> {<<"error">>} ]

Fresh == {"unsent", "read", "recover", "reread", "claim", "claimed"}

PlanInv ==
    \A r \in Requests :
        /\ phase[r] \in {"check", "write"} => plan[r] \in PlansOf[mode[r]] \ {<<>>}
        /\ phase[r] \in Fresh => mode[r] = "none"
        /\ phase[r] = "calling" => mode[r] = "orchestration"
        /\ phase[r] = "failed" => mode[r] = "failure" /\ plan[r] = <<"error">>
        /\ mode[r] = "route" => r \notin Transcripts
        /\ r \notin Transcripts =>
               phase[r] \in {"unsent", "check", "write", "done", "gone"}
        /\ r \notin Transcripts /\ phase[r] \in {"check", "write"} => mode[r] = "route"

WorkInv ==
    state \in AtWork =>
        \E r \in Requests : phase[r] = "gone" \/ (r \in Transcripts /\ Serving(r))

\* A transcript that is served owns the session, and the session stands where
\* the next write of the transcript finds it legal.
Owned ==
    \A r \in Transcripts :
        Serving(r) =>
            /\ transcript = r
            /\ \A s \in Transcripts : Serving(s) => s = r
            /\ state \in AtWork
            /\ phase[r] = "claimed" => state = "processing"
            /\ phase[r] = "calling" => state = "thinking"
            /\ mode[r] = "command" => state \in {"processing", "speaking"}
            /\ phase[r] \in {"check", "write"} => Legal(state, Head(plan[r]))
            /\ phase[r] \in {"check", "write"} /\ plan[r] = <<"completed">> => response = r

OwnerInv == Undisturbed => Owned /\ AnswersItsTranscript
=============================================================================

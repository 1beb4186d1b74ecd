-------------------------- MODULE OutreachSequences --------------------------
(***************************************************************************)
(* Sequences on top of the send queue: a sequence of steps is edited while *)
(* it is a draft, a campaign is launched on it, contacts are enrolled, and *)
(* a job turns the due step of an enrolment into a draft.  Delivery events *)
(* come from outside and may enrol contacts through an automation rule.    *)
(***************************************************************************)
EXTENDS OutreachQueue

CONSTANTS
    Contacts,
    Positions,       \* positions a step may have: 0, 1, ...
    NeedsApproval,   \* positions whose step has requires_approval
    StepDelay,       \* ticks before the next step
    Events,          \* provider event ids that trigger the automation rule
    Editors,         \* requests that add a step
    AnyDraft         \* the draft whose message is compared with SendItem

Enrolment == [step : Nat, status : {"active", "paused", "completed"},
              due : Nat \cup {None}]

ASSUME SequencesAssumption ==
    /\ Positions \subseteq Nat /\ NeedsApproval \subseteq Positions
    /\ StepDelay \in Nat
    /\ None \notin Contacts /\ None \notin Enrolment
    /\ AnyDraft \in Drafts

VARIABLES
    sequence,    \* the status of the sequence
    steps,       \* the positions that have a step
    editing,     \* [Editors -> position being added, None]: locks the sequence row
    launch,      \* the launch request: idle, or the contacts it will enrol
    enrolment,   \* [Contacts -> row, None before the contact is enrolled]
    made,        \* [Drafts -> <<contact, position>> the draft was made for, or None]
    events       \* delivery events that are recorded

sequenceVars == <<sequence, steps, editing, launch, enrolment, made, events>>
outreachVars == <<queueVars, sequenceVars>>

SequencesTypeOK ==
    /\ sequence \in {"draft", "active"}
    /\ steps \subseteq Positions
    /\ editing \in [Editors -> Positions \cup {None}]
    /\ launch \in (SUBSET Contacts) \cup {None}
    /\ enrolment \in [Contacts -> Enrolment \cup {None}]
    /\ made \in [Drafts -> (Contacts \X Nat) \cup {None}]
    /\ events \subseteq Events

SequencesInit ==
    /\ sequence = "draft" /\ steps = {} /\ launch = None
    /\ editing = [r \in Editors |-> None]
    /\ enrolment = [c \in Contacts |-> None]
    /\ made = [d \in Drafts |-> None]
    /\ events = {}

\* Faulty variant of SequenceLocked: add_sequence_step takes no lock.
SequenceNeverLocked == FALSE

\* The row lock of add_sequence_step.
SequenceLocked == \E r \in Editors : editing[r] # None

\* add_sequence_step locks the row, asks for a draft sequence, and adds.
BeginStep(r, p) ==
    /\ editing[r] = None /\ ~SequenceLocked
    /\ sequence = "draft"
    /\ editing' = [editing EXCEPT ![r] = p]
    /\ UNCHANGED <<sequence, steps, launch, enrolment, made, events, queueVars>>

\* A position that is taken is refused by the unique index.
CommitStep(r) ==
    /\ editing[r] # None
    /\ steps' = steps \cup {editing[r]}
    /\ editing' = [editing EXCEPT ![r] = None]
    /\ UNCHANGED <<sequence, launch, enrolment, made, events, queueVars>>

NewEnrolment(due) == [step |-> 0, status |-> "active", due |-> due]

\* One enrolment per contact and sequence, or the transaction fails as a whole.
EnrolAll(S, due) ==
    /\ \A c \in S : enrolment[c] = None
    /\ enrolment' = [c \in Contacts |-> IF c \in S THEN NewEnrolment(due) ELSE enrolment[c]]

\* launch_campaign reads the sequence without a lock; its write of the status
\* waits for an editor at the commit.
BeginLaunch(S) ==
    /\ launch = None
    /\ steps # {}
    /\ launch' = S
    /\ UNCHANGED <<sequence, steps, editing, enrolment, made, events, queueVars>>

CommitLaunch ==
    /\ launch # None
    /\ sequence = "draft" => ~SequenceLocked
    /\ EnrolAll(launch, time + StepDelay)
    /\ sequence' = "active"
    /\ launch' = None
    /\ UNCHANGED <<steps, editing, made, events, queueVars>>

LaunchFails ==
    /\ launch # None
    /\ \E c \in launch : enrolment[c] # None
    /\ launch' = None
    /\ UNCHANGED <<sequence, steps, editing, enrolment, made, events, queueVars>>

\* The enroll route asks for steps, not for the status of the sequence.
Enroll(c) ==
    /\ steps # {}
    /\ EnrolAll({c}, time + StepDelay)
    /\ UNCHANGED <<sequence, steps, editing, launch, made, events, queueVars>>

\* What the automation rules do with an event: nothing here, or an enrolment.
Recorded(v) == v \in events

Automated ==
    \/ UNCHANGED enrolment
    \/ \E c \in Contacts : EnrolAll({c}, time)

\* A reply or a bounce is recorded once: with the enrolment that a matching rule
\* asks for, or not at all if the contact is enrolled already.
RecordEvent(v) ==
    /\ ~Recorded(v)
    /\ \E d \in Drafts : Queued(d)
    /\ Automated
    /\ events' = events \cup {v}
    /\ UNCHANGED <<sequence, steps, editing, launch, made, queueVars>>

Due(c) ==
    /\ enrolment[c] # None
    /\ enrolment[c].status = "active"
    /\ enrolment[c].due <= time
    /\ enrolment[c].step \in steps

Advanced(e) ==
    IF e.step + 1 \in steps
    THEN [e EXCEPT !.step = @ + 1, !.due = time + StepDelay]
    ELSE [e EXCEPT !.step = @ + 1, !.due = None, !.status = "completed"]

\* One transaction with the row locked (SKIP LOCKED): the draft of the step, its
\* queue item unless it needs approval, the execution, and the next step.
ProcessEnrolment(c, d) ==
    /\ Due(c) /\ ~Exists(d)
    /\ LET p == enrolment[c].step IN
       /\ made' = [made EXCEPT ![d] = <<c, p>>]
       /\ \/ /\ p \in NeedsApproval
             /\ draft' = [draft EXCEPT ![d] = "pending_approval"]
             /\ execution' = [execution EXCEPT ![d] = "processing"]
             /\ gated' = gated \cup {d}
             /\ item' = item
          \/ /\ p \notin NeedsApproval
             /\ draft' = [draft EXCEPT ![d] = "queued"]
             /\ execution' = [execution EXCEPT ![d] = "pending"]
             /\ QueueAt(d, time)
             /\ gated' = gated
    /\ enrolment' = [enrolment EXCEPT ![c] = Advanced(@)]
    /\ UNCHANGED <<approval, decided, handed, overtaken, batch, time, sequence, steps, editing, launch, events>>

\* The template asks for a variable the contact does not supply.
PauseEnrolment(c) ==
    /\ Due(c)
    /\ enrolment' = [enrolment EXCEPT ![c].status = "paused"]
    /\ UNCHANGED <<sequence, steps, editing, launch, made, events, queueVars>>

SequencesNext ==
    \/ \E r \in Editors : CommitStep(r) \/ \E p \in Positions : BeginStep(r, p)
    \/ \E S \in SUBSET Contacts : BeginLaunch(S)
    \/ CommitLaunch \/ LaunchFails
    \/ \E v \in Events : RecordEvent(v)
    \/ \E c \in Contacts : \/ Enroll(c) \/ PauseEnrolment(c)
                           \/ \E d \in Drafts : ProcessEnrolment(c, d)

OutreachInit == QueueInit /\ SequencesInit

OutreachNext ==
    \/ QueueNext /\ UNCHANGED sequenceVars
    \/ SequencesNext

OutreachSpec == OutreachInit /\ [][OutreachNext]_outreachVars

-----------------------------------------------------------------------------
(* Properties.                                                              *)

Attempts(d) == IF Queued(d) THEN item[d].attempts ELSE 0

\* An item is in one worker's hands, as long as no worker was overtaken on it
\* after its lease.
OneWorkerPerLease ==
    \A d \in Drafts \ overtaken : \A v, w \in Workers :
        d \in Held(v) \cap Held(w) => v = w

\* Claims that have not tried the provider, and messages handed to it, are
\* different claims: crashes, retries and takeovers never send twice on one.
HandedPerClaim ==
    \A d \in Drafts :
        handed[d] + Cardinality({w \in Workers : d \in Untried(w)}) <= Attempts(d)

\* What is recorded as sent was given to the provider.
SentWasHanded ==
    \A d \in Drafts :
        "sent" \in {draft[d], execution[d], IF Queued(d) THEN item[d].status ELSE None}
        => handed[d] > 0

\* The message of a step that requires approval is queued only after a reviewer
\* decided on it.
GatedWaitsForDecision == \A d \in gated : Queued(d) => d \in decided

\* Each step of an enrolment is made into one draft, in order.
StepsMadeOnce ==
    /\ \A d, e \in Drafts : made[d] # None /\ made[d] = made[e] => d = e
    /\ \A d \in Drafts : made[d] # None =>
          /\ enrolment[made[d][1]] # None
          /\ made[d][2] < enrolment[made[d][1]].step

\* The queue and the sequences keep their promises whatever workers do: one
\* worker per item and lease, one message per claim, nothing recorded as sent that
\* was not handed over, nothing gated without a decision, no step twice
\* (process_queue, process_enrollments, the approval and schedule routes).
OutreachSafe ==
    /\ QueueTypeOK /\ SequencesTypeOK
    /\ OneWorkerPerLease
    /\ HandedPerClaim
    /\ SentWasHanded
    /\ GatedWaitsForDecision
    /\ StepsMadeOnce

\* A sequence that was launched keeps its steps: add_sequence_step checks under
\* the row lock, launch_campaign reads without one.
LaunchedStepsStay == [][sequence = "active" => steps' = steps]_outreachVars

Abstract == INSTANCE SendItem WITH
    status <- IF Queued(AnyDraft) THEN item[AnyDraft].status ELSE "none",
    claims <- Attempts(AnyDraft),
    idle <- Cardinality({w \in Workers : AnyDraft \in Untried(w)}),
    busy <- Cardinality({w \in Workers : AnyDraft \in Held(w) \ Untried(w)}),
    handed <- handed[AnyDraft]

\* The message of any draft is worked on as SendItem says: outcomes come from open
\* claims only, and a message that ended is not claimed again.
ImplementsSendItem == Abstract!ItemSpec
=============================================================================

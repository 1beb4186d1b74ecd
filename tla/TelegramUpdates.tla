--------------------------- MODULE TelegramUpdates ---------------------------
(***************************************************************************)
(* The Telegram transport (telegram/service.py): updates that may be       *)
(* delivered several times and at once, each accepted by the row of its    *)
(* unique update id and worked on by the delivery that inserted the row,   *)
(* in three commits; and the identities users verify and revoke meanwhile. *)
(* A delivery may die between any two of its steps.                        *)
(***************************************************************************)
EXTENDS Integers, FiniteSets

CONSTANTS
    Envelopes,      \* what may be delivered: [update, sender, chat, ...]
    Deliveries,     \* calls of process
    Users,          \* Arima users
    NoMessage,      \* no row
    NoIdentity,     \* no identity, or none yet
    NoUser

Updates == {e.update : e \in Envelopes}
Senders == {e.sender : e \in Envelopes}
Chats == {e.chat : e \in Envelopes}

TelegramProcessingStatus == {"received", "processing", "completed", "failed"}
Message == [envelope : Envelopes, status : TelegramProcessingStatus,
            user : Users \cup {NoUser}, delivered : BOOLEAN]
TelegramIdentity == [user : Users, chat : Chats, verified : BOOLEAN, revokedAt : BOOLEAN]

ASSUME TelegramAssumption == NoMessage \notin Message /\ NoIdentity \notin TelegramIdentity

VARIABLES
    messages,      \* [Updates -> row, NoMessage]
    identities,    \* [Senders -> row, NoIdentity]
    members,       \* users with a membership and the right to invoke agents
    delivery,      \* [Deliveries -> where the call is]
    clerk,         \* [Users -> verify or revoke under way]
    workflows,        \* history: [Updates -> workflow calls]
    lost           \* history: updates whose delivery died

telegramVars == <<messages, identities, members, delivery, clerk, workflows, lost>>

Waiting == [at |-> "waiting"]
NoClerk == [at |-> "idle"]
WorkingAt == {"identify", "authorize", "workflow", "complete", "fail"}

\* A call that has looked for its row, and one that has a row of its own.
DeliveryState == {Waiting}
    \cup [at : {"insert", "answered", "rejected", "died"}, envelope : Envelopes]
    \cup [at : WorkingAt, envelope : Envelopes, user : Users \cup {NoUser}]

Clerk == {NoClerk}
    \cup [at : {"verify", "revoke"}, sender : Senders, chat : Chats,
          read : TelegramIdentity \cup {NoIdentity}]

TelegramTypeOK ==
    /\ messages \in [Updates -> Message \cup {NoMessage}]
    /\ identities \in [Senders -> TelegramIdentity \cup {NoIdentity}]
    /\ members \subseteq Users
    /\ delivery \in [Deliveries -> DeliveryState]
    /\ clerk \in [Users -> Clerk]
    /\ workflows \in [Updates -> Nat]
    /\ lost \subseteq Updates

TelegramInit ==
    /\ messages = [u \in Updates |-> NoMessage]
    /\ identities = [s \in Senders |-> NoIdentity]
    /\ members = Users
    /\ delivery = [d \in Deliveries |-> Waiting]
    /\ clerk = [u \in Users |-> NoClerk]
    /\ workflows = [u \in Updates |-> 0]
    /\ lost = {}

-----------------------------------------------------------------------------
(* Identities.                                                              *)

\* Both check the membership and read the row without a lock.
BeginVerify(u, s, c) ==
    /\ clerk[u] = NoClerk /\ u \in members
    /\ identities[s] # NoIdentity => identities[s].user = u
    /\ clerk' = [clerk EXCEPT ![u] = [at |-> "verify", sender |-> s, chat |-> c,
                                      read |-> identities[s]]]
    /\ UNCHANGED <<messages, identities, members, delivery, workflows, lost>>

BeginRevoke(u, s) ==
    /\ clerk[u] = NoClerk /\ u \in members
    /\ identities[s] # NoIdentity
    /\ identities[s].user = u
    /\ clerk' = [clerk EXCEPT ![u] = [at |-> "revoke", sender |-> s,
                                      chat |-> identities[s].chat, read |-> identities[s]]]
    /\ UNCHANGED <<messages, identities, members, delivery, workflows, lost>>

\* The unique telegram_user_id refuses a second row.
Commits(u) == clerk[u].read = NoIdentity => identities[clerk[u].sender] = NoIdentity

\* The new value of a column: what differs from the value read is written.
Column(new, read, now) == IF new = read THEN now ELSE new

CommitIdentity(u, at, verified) ==
    LET t == clerk[u]
        now == identities[t.sender]
    IN  /\ t.at = at
        /\ clerk' = [clerk EXCEPT ![u] = NoClerk]
        /\ identities' =
              IF ~Commits(u) THEN identities
              ELSE [identities EXCEPT ![t.sender] =
                      IF t.read = NoIdentity
                      THEN [user |-> u, chat |-> t.chat, verified |-> TRUE, revokedAt |-> FALSE]
                      ELSE [now EXCEPT !.chat = Column(t.chat, t.read.chat, @),
                                       !.verified = Column(verified, t.read.verified, @),
                                       !.revokedAt = IF verified
                                                     THEN Column(FALSE, t.read.revokedAt, @)
                                                     ELSE TRUE]]
        /\ UNCHANGED <<messages, members, delivery, workflows, lost>>

Verify(u) == CommitIdentity(u, "verify", TRUE)
Revoke(u) == CommitIdentity(u, "revoke", FALSE)

\* The membership or the permission to invoke agents is taken away.
LoseMembership(u) ==
    /\ u \in members
    /\ members' = members \ {u}
    /\ UNCHANGED <<messages, identities, delivery, clerk, workflows, lost>>

-----------------------------------------------------------------------------
(* Deliveries.                                                              *)

UpdateOf(d) == delivery[d].envelope.update
RowOf(d) == messages[UpdateOf(d)]

Turn(d, at, e, u) ==
    delivery' = [delivery EXCEPT ![d] = [at |-> at, envelope |-> e, user |-> u]]

Leave(d, at) ==
    delivery' = [delivery EXCEPT ![d] = [at |-> at, envelope |-> @.envelope]]

\* _require_matching_replay.
Replay(d, e) ==
    delivery' = [delivery EXCEPT ![d] =
        [at |-> IF messages[e.update].envelope = e THEN "answered" ELSE "rejected",
         envelope |-> e]]

Receive(d, e) ==
    /\ delivery[d] = Waiting
    /\ IF messages[e.update] # NoMessage THEN Replay(d, e)
       ELSE delivery' = [delivery EXCEPT ![d] = [at |-> "insert", envelope |-> e]]
    /\ UNCHANGED <<messages, identities, members, clerk, workflows, lost>>

\* Faulty variant of Inserts: a row inserted meanwhile is taken for one's own.
InsertsAlways(d) == TRUE

\* The unique update_id refuses the second of two deliveries at once.
Inserts(d) == RowOf(d) = NoMessage

Insert(d) ==
    /\ delivery[d].at = "insert"
    /\ IF Inserts(d)
       THEN /\ messages' = [messages EXCEPT ![UpdateOf(d)] =
                   [envelope |-> delivery[d].envelope, status |-> "received",
                    user |-> NoUser, delivered |-> FALSE]]
            /\ Turn(d, "identify", delivery[d].envelope, NoUser)
       ELSE Replay(d, delivery[d].envelope) /\ UNCHANGED messages
    /\ UNCHANGED <<identities, members, clerk, workflows, lost>>

Usable(e) ==
    /\ identities[e.sender] # NoIdentity
    /\ identities[e.sender].chat = e.chat
    /\ identities[e.sender].verified /\ ~identities[e.sender].revokedAt

Identify(d) ==
    LET e == delivery[d].envelope IN
    /\ delivery[d].at = "identify"
    /\ IF Usable(e) THEN Turn(d, "authorize", e, identities[e.sender].user)
                    ELSE Turn(d, "fail", e, NoUser)
    /\ UNCHANGED <<messages, identities, members, clerk, workflows, lost>>

\* The second commit: the message belongs to the user and is in work.
Authorize(d) ==
    LET u == delivery[d].user IN
    /\ delivery[d].at = "authorize"
    /\ IF u \in members
       THEN /\ messages' = [messages EXCEPT ![UpdateOf(d)].status = "processing",
                                            ![UpdateOf(d)].user = u]
            /\ Turn(d, "workflow", delivery[d].envelope, u)
       ELSE Turn(d, "fail", delivery[d].envelope, u) /\ UNCHANGED messages
    /\ UNCHANGED <<identities, members, clerk, workflows, lost>>

\* Faulty variant of Workflow: a workflow that raises is not caught.
WorkflowUncaught(d) ==
    /\ delivery[d].at = "workflow"
    /\ workflows' = [workflows EXCEPT ![UpdateOf(d)] = @ + 1]
    /\ \/ Turn(d, "complete", delivery[d].envelope, delivery[d].user)
       \/ Leave(d, "died")
    /\ UNCHANGED <<messages, identities, members, clerk, lost>>

\* The workflow answers with a result of this user's, or raises, or its result is
\* somebody else's.
Workflow(d) ==
    /\ delivery[d].at = "workflow"
    /\ workflows' = [workflows EXCEPT ![UpdateOf(d)] = @ + 1]
    /\ \E next \in {"complete", "fail"} :
          Turn(d, next, delivery[d].envelope, delivery[d].user)
    /\ UNCHANGED <<messages, identities, members, clerk, lost>>

Finish(d, at, status, answer) ==
    /\ delivery[d].at = at
    /\ messages' = [messages EXCEPT ![UpdateOf(d)].status = status]
    /\ Leave(d, answer)
    /\ UNCHANGED <<identities, members, clerk, workflows, lost>>

Complete(d) == Finish(d, "complete", "completed", "answered")
FailUpdate(d) == Finish(d, "fail", "failed", "rejected")

\* The process dies, or a commit fails and with it the one that records the failure.
Die(d) ==
    /\ delivery[d].at \in WorkingAt \cup {"insert"}
    /\ lost' = IF delivery[d].at = "insert" THEN lost ELSE lost \cup {UpdateOf(d)}
    /\ Leave(d, "died")
    /\ UNCHANGED <<messages, identities, members, clerk, workflows>>

MarkDelivered(u) ==
    /\ messages[u] # NoMessage
    /\ messages[u].status = "completed"
    /\ messages' = [messages EXCEPT ![u].delivered = TRUE]
    /\ UNCHANGED <<identities, members, delivery, clerk, workflows, lost>>

DeliveryStep(d) ==
    Insert(d) \/ Identify(d) \/ Authorize(d) \/ Workflow(d) \/ Complete(d) \/ FailUpdate(d)

TelegramNext ==
    \/ \E d \in Deliveries : (\E e \in Envelopes : Receive(d, e)) \/ DeliveryStep(d) \/ Die(d)
    \/ \E u \in Users, s \in Senders : (\E c \in Chats : BeginVerify(u, s, c)) \/ BeginRevoke(u, s)
    \/ \E u \in Users : Verify(u) \/ Revoke(u) \/ LoseMembership(u)
    \/ \E u \in Updates : MarkDelivered(u)

\* A delivery that does not die goes on.
TelegramFairness == \A d \in Deliveries : WF_telegramVars(DeliveryStep(d))

TelegramSpec == TelegramInit /\ [][TelegramNext]_telegramVars /\ TelegramFairness

-----------------------------------------------------------------------------
(* Properties.                                                              *)

Workers(u) == {d \in Deliveries : delivery[d].at \in WorkingAt /\ UpdateOf(d) = u}

\* However often an update is delivered, one delivery works on it and the workflow
\* is called at most once, before the message is final.
WorkedOnOnce ==
    \A u \in Updates :
        /\ Cardinality(Workers(u)) <= 1
        /\ workflows[u] <= 1
        /\ workflows[u] = 1 => messages[u] # NoMessage
        /\ messages[u] # NoMessage =>
              /\ messages[u].status = "received" => workflows[u] = 0
              /\ messages[u].status = "completed" => workflows[u] = 1
              /\ messages[u].status \in {"completed", "failed"} => Workers(u) = {}

\* A message that nobody works on is final, unless its delivery died.
NoMessageIsDropped ==
    \A u \in Updates :
        messages[u] # NoMessage /\ messages[u].status \in {"received", "processing"} =>
            Workers(u) # {} \/ u \in lost

\* A message is worked on for the user its sender is bound to, and a replay with
\* another payload gets no answer.
AnswersBelong ==
    /\ \A u \in Updates : messages[u] # NoMessage /\ messages[u].user # NoUser =>
          LET s == messages[u].envelope.sender
          IN  identities[s] # NoIdentity /\ identities[s].user = messages[u].user
    /\ \A d \in Deliveries : delivery[d].at \in {"answered"} \cup WorkingAt =>
          RowOf(d) # NoMessage /\ RowOf(d).envelope = delivery[d].envelope

\* Redeliveries, crashes, revocations and lost memberships leave each update handled
\* once and for its owner (TelegramTransportService.process, TelegramIdentityService).
TelegramSafe ==
    /\ TelegramTypeOK
    /\ WorkedOnOnce
    /\ NoMessageIsDropped
    /\ AnswersBelong

Final(u) == messages[u] # NoMessage /\ messages[u].status \in {"completed", "failed"}

\* An accepted update ends completed or failed, unless its delivery dies
\* (TelegramTransportService.process).
AcceptedUpdatesEnd ==
    \A u \in Updates :
        messages[u] # NoMessage ~>
            u \in lost \/ Final(u)
=============================================================================

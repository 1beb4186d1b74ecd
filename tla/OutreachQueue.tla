---------------------------- MODULE OutreachQueue ----------------------------
(***************************************************************************)
(* Outreach messages: drafts, their approvals, and the send queue that     *)
(* several workers empty at once (services/outreach.py).  A request locks  *)
(* the rows it decides on from its first statement to its commit and is    *)
(* one action.  A worker claims items in a transaction of its own, then    *)
(* works through them and commits all outcomes together: `batch' is what   *)
(* its session holds.  An outcome that was flushed keeps its row locked    *)
(* until that commit.  Time is counted in ticks.                           *)
(***************************************************************************)
EXTENDS Integers, FiniteSets

CONSTANTS
    Drafts, Workers,
    None,
    Lease,         \* ticks after which a claim may be taken over (15 minutes)
    Delay,         \* ticks before a retry, per error code
    MaxAttempts,   \* SendQueueItem.max_attempts
    DailyLimit,    \* MailboxConnection.daily_send_limit
    MaxNow, MaxClaims   \* bounds of the clock and of the claims of one item

DraftStatuses == {"draft", "pending_approval", "approved", "scheduled", "queued", "sent"}
ApprovalStatuses == {"pending", "approved", "rejected"}
QueueStatuses == {"pending", "processing", "sent", "retry", "failed"}
RetryCodes == {"rate_limited", "provider_unavailable", "provider_error"}

ASSUME OutreachAssumption ==
    /\ Lease \in Nat \ {0} /\ MaxAttempts \in Nat \ {0}
    /\ DailyLimit \in Nat /\ MaxNow \in Nat /\ MaxClaims \in Nat
    /\ IsFiniteSet(Workers)
    /\ Delay \in [RetryCodes -> Nat]
    /\ None \notin Drafts \cup DraftStatuses \cup ApprovalStatuses \cup QueueStatuses

Times == 0 .. MaxNow
Item == [status : QueueStatuses, attempts : Nat, lockedAt : Times \cup {None},
         available : Nat]
\* An outcome in a worker's session: the item's new status, when it may be tried
\* again (None: unchanged), the status the draft was loaded with, and whether the execution row of
\* the sequence is updated as well.
Outcome == [status : {"sent", "retry", "failed"}, available : Nat \cup {None},
            loaded : DraftStatuses \cup {None}, mirrored : BOOLEAN]

VARIABLES
    draft,       \* [Drafts -> status, None before the row exists]
    approval,    \* [Drafts -> status, None before one is requested]
    item,        \* [Drafts -> queue row, None before it is queued]
    execution,   \* [Drafts -> status of the sequence execution, None if there is none]
    gated,       \* drafts of sequence steps that require approval
    decided,     \* history: drafts a reviewer has decided on
    handed,      \* history: how often the provider was given the message
    overtaken,   \* history: items claimed from a worker that outlived its lease
    batch,       \* [Workers -> the session of process_queue, None when idle]
    time

queueVars == <<draft, approval, item, execution, gated, decided, handed, overtaken, batch, time>>

Batch == [now : Times,                          \* `current'
          left : SUBSET Drafts,                 \* claimed, not tried yet
          tries : [Drafts -> Nat],              \* attempt_count as claimed
          ready : Drafts \cup {None},           \* tried, not flushed yet
          outcome : [Drafts -> Outcome \cup {None}]]

ASSUME NoneIsNoRow == None \notin Item /\ None \notin Outcome /\ None \notin Batch

QueueTypeOK ==
    /\ draft \in [Drafts -> DraftStatuses \cup {None}]
    /\ approval \in [Drafts -> ApprovalStatuses \cup {None}]
    /\ item \in [Drafts -> Item \cup {None}]
    /\ execution \in [Drafts -> QueueStatuses \cup {None}]
    /\ gated \subseteq Drafts /\ decided \subseteq Drafts
    /\ handed \in [Drafts -> Nat]
    /\ overtaken \subseteq Drafts
    /\ batch \in [Workers -> Batch \cup {None}]
    /\ time \in Times

QueueInit ==
    /\ draft = [d \in Drafts |-> None]
    /\ approval = [d \in Drafts |-> None]
    /\ item = [d \in Drafts |-> None]
    /\ execution = [d \in Drafts |-> None]
    /\ gated = {} /\ decided = {} /\ overtaken = {}
    /\ handed = [d \in Drafts |-> 0]
    /\ batch = [w \in Workers |-> None]
    /\ time = 0

Exists(d) == draft[d] # None
Queued(d) == item[d] # None
Working(w) == batch[w] # None

\* The items whose outcome a worker's transaction has flushed, and the drafts
\* it has flushed with them: nobody else locks or changes these rows.
Flushed(w) == {d \in Drafts : Working(w) /\ batch[w].outcome[d] # None} \ {batch[w].ready}

\* The items of a worker's batch that are not committed yet, and of these the
\* ones it has not tried.
Untried(w) == IF Working(w) THEN batch[w].left ELSE {}
Held(w) == IF Working(w) THEN batch[w].left \cup {d \in Drafts : batch[w].outcome[d] # None}
           ELSE {}

ItemFree(w, d) == \A v \in Workers \ {w} : Working(v) => d \notin Flushed(v)
WritesDraft(w, d) == /\ d \in Flushed(w)
                     /\ batch[w].outcome[d].status = "sent"
                     /\ batch[w].outcome[d].loaded # "sent"
DraftFree(d) == \A w \in Workers : Working(w) => ~WritesDraft(w, d)

-----------------------------------------------------------------------------
(* Requests.                                                                *)

NewItem(at) == [status |-> "pending", attempts |-> 0, lockedAt |-> None, available |-> at]

\* At most one item per draft: the unique index on draft_id refuses a second.
QueueAt(d, at) ==
    /\ ~Queued(d)
    /\ item' = [item EXCEPT ![d] = NewItem(at)]

CreateDraft(d) ==
    /\ ~Exists(d)
    /\ \/ draft' = [draft EXCEPT ![d] = "draft"] /\ UNCHANGED item
       \/ draft' = [draft EXCEPT ![d] = "scheduled"] /\ \E at \in Times : QueueAt(d, at)
    /\ UNCHANGED <<approval, execution, gated, decided, handed, overtaken, batch, time>>

Schedulable == {"draft", "approved", "scheduled"}

ScheduleDraft(d) ==
    /\ draft[d] \in Schedulable
    /\ DraftFree(d)
    /\ \E at \in Times : at > time /\ QueueAt(d, at)
    /\ draft' = [draft EXCEPT ![d] = "scheduled"]
    /\ UNCHANGED <<approval, execution, gated, decided, handed, overtaken, batch, time>>

\* A pending approval is returned as it is; a decided one starts again, if the
\* notification of the earlier request is gone (its key is unique).
RequestApproval(d) ==
    /\ Exists(d) /\ DraftFree(d)
    /\ approval[d] # "pending"
    /\ approval' = [approval EXCEPT ![d] = "pending"]
    /\ draft' = [draft EXCEPT ![d] = "pending_approval"]
    /\ UNCHANGED <<item, execution, gated, decided, handed, overtaken, batch, time>>

DecideApproval(d, granted) ==
    /\ approval[d] = "pending"
    /\ DraftFree(d)
    /\ approval' = [approval EXCEPT ![d] = IF granted THEN "approved" ELSE "rejected"]
    /\ draft' = [draft EXCEPT ![d] = IF granted THEN "approved" ELSE "draft"]
    /\ decided' = decided \cup {d}
    /\ UNCHANGED <<item, execution, gated, handed, overtaken, batch, time>>

-----------------------------------------------------------------------------
(* Workers.                                                                 *)

Lapsed(i) == i.lockedAt <= time - Lease

\* Faulty variant of Claimable: a claim is taken over at once.
ClaimableAtOnce(d) ==
    /\ Queued(d)
    /\ item[d].available <= time
    /\ item[d].status \in {"pending", "retry", "processing"}

\* Faulty variant of Claimable: the claim asks for the time only.
ClaimableWhenDue(d) ==
    /\ Queued(d)
    /\ item[d].available <= time
    /\ item[d].lockedAt # None => Lapsed(item[d])

\* PENDING, RETRY, or PROCESSING since a lease.
Claimable(d) ==
    /\ Queued(d)
    /\ item[d].available <= time
    /\ \/ item[d].status \in {"pending", "retry"}
       \/ item[d].status = "processing" /\ Lapsed(item[d])

\* Rows locked by another worker's flush are skipped.  The code takes the first
\* `limit' rows by availability: here, any of them.
ClaimQueue(w) ==
    /\ ~Working(w)
    /\ \E S \in SUBSET {d \in Drafts : Claimable(d) /\ ItemFree(w, d)} \ {{}} :
          /\ \A d \in S : item[d].attempts < MaxClaims
          /\ item' = [d \in Drafts |->
                IF d \in S THEN [item[d] EXCEPT !.status = "processing", !.lockedAt = time,
                                                !.attempts = @ + 1]
                ELSE item[d]]
          /\ batch' = [batch EXCEPT ![w] =
                [now |-> time, left |-> S,
                 tries |-> [d \in Drafts |-> IF d \in S THEN item[d].attempts + 1 ELSE 0],
                 ready |-> None, outcome |-> [d \in Drafts |-> None]]]
          /\ overtaken' = overtaken \cup {d \in S : (\E v \in Workers : d \in Held(v)) /\ Lapsed(item[d])}
    /\ UNCHANGED <<draft, approval, execution, gated, decided, handed, time>>

\* What the worker counts as sent today: committed rows and its own.
SentCount(w) ==
    Cardinality({d \in Drafts : \/ Queued(d) /\ item[d].status = "sent"
                                \/ d \in Flushed(w) /\ batch[w].outcome[d].status = "sent"})

Settle(w, d, status, at, mirrored) ==
    batch' = [batch EXCEPT ![w] =
        [batch[w] EXCEPT !.left = @ \ {d}, !.ready = d,
                         !.outcome[d] = [status |-> status, available |-> at,
                                         loaded |-> draft[d], mirrored |-> mirrored]]]

AtWork(w, d) == Working(w) /\ d \in batch[w].left /\ batch[w].ready = None

MailboxUnavailable(w, d) ==
    /\ AtWork(w, d)
    /\ Settle(w, d, "failed", None, FALSE)
    /\ UNCHANGED <<draft, approval, item, execution, gated, decided, handed, overtaken, time>>

RateLimited(w, d) ==
    /\ AtWork(w, d)
    /\ SentCount(w) >= DailyLimit
    /\ Settle(w, d, "retry", batch[w].now + Delay["rate_limited"], FALSE)
    /\ UNCHANGED <<draft, approval, item, execution, gated, decided, handed, overtaken, time>>

ProviderUnavailable(w, d) ==
    /\ AtWork(w, d)
    /\ SentCount(w) < DailyLimit
    /\ Settle(w, d, "retry", batch[w].now + Delay["provider_unavailable"], FALSE)
    /\ UNCHANGED <<draft, approval, item, execution, gated, decided, handed, overtaken, time>>

Send(w, d) ==
    /\ AtWork(w, d)
    /\ SentCount(w) < DailyLimit
    /\ handed' = [handed EXCEPT ![d] = @ + 1]
    /\ Settle(w, d, "sent", None, TRUE)
    /\ UNCHANGED <<draft, approval, item, execution, gated, decided, overtaken, time>>

\* An adapter that raises may have delivered the message all the same.
SendFails(w, d) ==
    /\ AtWork(w, d)
    /\ SentCount(w) < DailyLimit
    /\ handed' \in {handed, [handed EXCEPT ![d] = @ + 1]}
    /\ IF batch[w].tries[d] >= MaxAttempts
       THEN Settle(w, d, "failed", None, TRUE)
       ELSE Settle(w, d, "retry", batch[w].now + Delay["provider_error"], TRUE)
    /\ UNCHANGED <<draft, approval, item, execution, gated, decided, overtaken, time>>

\* The outcome reaches the database and locks its row, which waits for another
\* worker's lock.
Flush(w) ==
    /\ Working(w) /\ batch[w].ready # None
    /\ ItemFree(w, batch[w].ready)
    /\ batch' = [batch EXCEPT ![w].ready = None]
    /\ UNCHANGED <<draft, approval, item, execution, gated, decided, handed, overtaken, time>>

\* One commit for the whole batch.  A draft loaded as sent is not written again.
CommitQueue(w) ==
    /\ Working(w) /\ batch[w].ready = None /\ batch[w].left = {}
    /\ item' = [d \in Drafts |->
          IF d \in Flushed(w)
          THEN [item[d] EXCEPT !.status = batch[w].outcome[d].status,
                               !.available = IF batch[w].outcome[d].available = None THEN @
                                             ELSE batch[w].outcome[d].available]
          ELSE item[d]]
    /\ draft' = [d \in Drafts |->
          IF WritesDraft(w, d) THEN "sent" ELSE draft[d]]
    /\ execution' = [d \in Drafts |->
          IF d \in Flushed(w) /\ batch[w].outcome[d].mirrored /\ execution[d] # None
          THEN batch[w].outcome[d].status ELSE execution[d]]
    /\ batch' = [batch EXCEPT ![w] = None]
    /\ UNCHANGED <<approval, gated, decided, handed, overtaken, time>>

\* The process dies, or its transaction fails (the failure notification of an item
\* has a unique key): what was handed over stays handed over.
WorkerDies(w) ==
    /\ Working(w)
    /\ batch' = [batch EXCEPT ![w] = None]
    /\ UNCHANGED <<draft, approval, item, execution, gated, decided, handed, overtaken, time>>

Tick ==
    /\ time < MaxNow
    /\ time' = time + 1
    /\ UNCHANGED <<draft, approval, item, execution, gated, decided, handed, overtaken, batch>>

Try(w, d) ==
    \/ MailboxUnavailable(w, d)
    \/ RateLimited(w, d)
    \/ ProviderUnavailable(w, d)
    \/ Send(w, d)
    \/ SendFails(w, d)

QueueNext ==
    \/ \E d \in Drafts : \/ CreateDraft(d) \/ ScheduleDraft(d) \/ RequestApproval(d)
                         \/ \E granted \in BOOLEAN : DecideApproval(d, granted)
    \/ \E w \in Workers : \/ ClaimQueue(w) \/ Flush(w) \/ CommitQueue(w) \/ WorkerDies(w)
                          \/ \E d \in Drafts : Try(w, d)
    \/ Tick
=============================================================================

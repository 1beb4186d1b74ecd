------------------------------ MODULE DueNotices ------------------------------
(***************************************************************************)
(* The reminder jobs of services/notification.py: a job reads what is due, *)
(* inserts one notice per item inside a savepoint of its own, and commits  *)
(* all of them together. The unique key of a notice names the item, its    *)
(* due date and, for tasks, whether it is overdue.                         *)
(***************************************************************************)
EXTENDS Integers, FiniteSets

CONSTANTS
    TaskItems, CrmItems,   \* numbered in the order of their ids
    Jobs,
    Window,                \* how far ahead a job looks
    MaxClock, MaxDeletes   \* bounds: the time, deletions

Items == TaskItems \cup CrmItems
NoDue == -1     \* no due date, nobody to tell, completed or archived
Keys == [item : Items, due : 0 .. MaxClock, overdue : BOOLEAN]

ASSUME DueNoticesAssumption ==
    /\ Items \subseteq Nat /\ TaskItems \cap CrmItems = {}
    /\ Window \in Nat /\ MaxClock \in Nat /\ MaxDeletes \in Nat

VARIABLES
    due,        \* [Items -> when the item is due]
    clock,
    notices,    \* the keys of the committed notices
    read,       \* those the user has read
    job,        \* [Jobs -> the run of the job]
    sent,       \* history: [Keys -> how often its notice was committed]
    deleted     \* history: [Keys -> how often its notice was deleted]

noticeVars == <<due, clock, notices, read, job, sent, deleted>>

\* The keys still to be inserted, those it has inserted and not committed, and
\* the keys it started with.
NoJobRun == [step |-> "idle", todo |-> {}, mine |-> {}, listed |-> {}]

NoticesTypeOK ==
    /\ due \in [Items -> 0 .. MaxClock \cup {NoDue}]
    /\ clock \in 0 .. MaxClock
    /\ notices \subseteq Keys /\ read \subseteq notices
    /\ \A j \in Jobs :
          /\ job[j].step \in {"idle", "insert", "recheck"}
          /\ job[j].todo \subseteq job[j].listed /\ job[j].mine \subseteq job[j].listed
          /\ job[j].listed \subseteq Keys
    /\ sent \in [Keys -> 0 .. MaxDeletes + 1] /\ deleted \in [Keys -> 0 .. MaxDeletes]

NoticesInit ==
    /\ due \in [Items -> 0 .. MaxClock] /\ clock = 0
    /\ notices = {} /\ read = {}
    /\ job = [j \in Jobs |-> NoJobRun]
    /\ sent = [k \in Keys |-> 0] /\ deleted = [k \in Keys |-> 0]

-----------------------------------------------------------------------------
(* One run of a job.                                                        *)

KeyOf(i) == [item |-> i, due |-> due[i], overdue |-> i \in TaskItems /\ due[i] < clock]

Candidates(scope) == {i \in scope : due[i] # NoDue /\ due[i] <= clock + Window}

BeginJob(j, scope) ==
    /\ job[j].step = "idle"
    /\ LET keys == {KeyOf(i) : i \in Candidates(scope)}
       IN job' = [job EXCEPT ![j] = [step |-> "insert", todo |-> keys, mine |-> {}, listed |-> keys]]
    /\ UNCHANGED <<due, clock, notices, read, sent, deleted>>

BeginTaskJob(j) == BeginJob(j, TaskItems)
BeginCrmJob(j) == BeginJob(j, CrmItems)

\* Candidates are taken in the order of their ids.
IsNext(j, k) == k \in job[j].todo /\ \A l \in job[j].todo : k.item <= l.item

\* An insert waits for the transaction that has inserted the same key.
InsertNotice(j, k) ==
    /\ job[j].step = "insert" /\ IsNext(j, k)
    /\ k \notin notices /\ \A l \in Jobs : k \notin job[l].mine
    /\ job' = [job EXCEPT ![j].todo = @ \ {k}, ![j].mine = @ \cup {k}]
    /\ UNCHANGED <<due, clock, notices, read, sent, deleted>>

\* The key is taken: the savepoint is rolled back and the key looked up.
Duplicate(j, k) ==
    /\ job[j].step = "insert" /\ IsNext(j, k) /\ k \in notices
    /\ job' = [job EXCEPT ![j].step = "recheck"]
    /\ UNCHANGED <<due, clock, notices, read, sent, deleted>>

Skip(j, k) ==
    /\ job[j].step = "recheck" /\ IsNext(j, k) /\ k \in notices
    /\ job' = [job EXCEPT ![j].step = "insert", ![j].todo = @ \ {k}]
    /\ UNCHANGED <<due, clock, notices, read, sent, deleted>>

\* The notice was deleted in between: the error is raised, nothing is committed.
GiveUp(j, k) ==
    /\ job[j].step = "recheck" /\ IsNext(j, k) /\ k \notin notices
    /\ job' = [job EXCEPT ![j] = NoJobRun]
    /\ UNCHANGED <<due, clock, notices, read, sent, deleted>>

CommitNotices(j) ==
    /\ job[j].step = "insert" /\ job[j].todo = {}
    /\ notices' = notices \cup job[j].mine
    /\ sent' = [k \in Keys |-> IF k \in job[j].mine THEN sent[k] + 1 ELSE sent[k]]
    /\ job' = [job EXCEPT ![j] = NoJobRun]
    /\ UNCHANGED <<due, clock, read, deleted>>

JobDies(j) ==
    /\ job[j].step # "idle"
    /\ job' = [job EXCEPT ![j] = NoJobRun]
    /\ UNCHANGED <<due, clock, notices, read, sent, deleted>>

-----------------------------------------------------------------------------
(* The user, and the items themselves.                                      *)

MarkRead(k) ==
    /\ k \in notices
    /\ read' = read \cup {k}
    /\ UNCHANGED <<due, clock, notices, job, sent, deleted>>

MarkAllRead ==
    /\ read' = notices
    /\ UNCHANGED <<due, clock, notices, job, sent, deleted>>

DeleteNotice(k) ==
    /\ k \in notices /\ \A l \in Keys : deleted[l] < MaxDeletes
    /\ notices' = notices \ {k} /\ read' = read \ {k}
    /\ deleted' = [deleted EXCEPT ![k] = @ + 1]
    /\ UNCHANGED <<due, clock, job, sent>>

\* The item is completed, archived, or loses its date.
Complete(i) ==
    /\ due[i] # NoDue
    /\ due' = [due EXCEPT ![i] = NoDue]
    /\ UNCHANGED <<clock, notices, read, job, sent, deleted>>

NoticeClock ==
    /\ clock < MaxClock
    /\ clock' = clock + 1
    /\ UNCHANGED <<due, notices, read, job, sent, deleted>>

NoticesNext ==
    \/ \E j \in Jobs :
          \/ BeginTaskJob(j) \/ BeginCrmJob(j)
          \/ \E k \in job[j].todo :
                InsertNotice(j, k) \/ Duplicate(j, k) \/ Skip(j, k) \/ GiveUp(j, k)
          \/ CommitNotices(j) \/ JobDies(j)
    \/ \E k \in notices : MarkRead(k) \/ DeleteNotice(k)
    \/ MarkAllRead \/ NoticeClock
    \/ \E i \in Items : Complete(i)

NoticesSpec == NoticesInit /\ [][NoticesNext]_noticeVars

-----------------------------------------------------------------------------
(* Properties.                                                              *)

\* However the jobs overlap and die, a due date is told once, and again only after
\* the user has deleted the notice (NotificationService.create_due_notifications).
ToldOnce == \A k \in Keys : sent[k] = deleted[k] + (IF k \in notices THEN 1 ELSE 0)

\* What a job has dealt with is inserted, was there already, or was deleted since:
\* a duplicate loses none of the inserts before it.
NothingIsDropped ==
    \A j \in Jobs : \A k \in job[j].listed \ job[j].todo :
        k \in job[j].mine \cup notices \/ deleted[k] > 0

\* Two jobs that insert the same keys never wait for each other in a circle.
JobWaits(j, l) ==
    job[j].step = "insert" /\ \E k \in job[j].todo : IsNext(j, k) /\ k \in job[l].mine
JobsNeverCross == \A j, l \in Jobs : ~(JobWaits(j, l) /\ JobWaits(l, j))

NoticesSafe == NoticesTypeOK /\ ToldOnce /\ NothingIsDropped /\ JobsNeverCross
=============================================================================

------------------------ MODULE BackgroundSchedules ------------------------
(***************************************************************************)
(* Persisted background schedules.  A poll lists the due rows and then     *)
(* dispatches them one after the other, committing after each; meanwhile   *)
(* operators pause, resume, cancel and update the same rows from sessions  *)
(* of their own.  No row is locked: a session changes the attributes of    *)
(* the row it has loaded, and its commit writes the columns whose value    *)
(* differs from the loaded one.                                            *)
(*                                                                         *)
(* A row keeps the schedule twice, in columns, which list_due_jobs         *)
(* queries, and as the JSON definition, which is_due evaluates.            *)
(*                                                                         *)
(* There is one poll at a time.  Its session is its own, so that listing   *)
(* loads the rows afresh.                                                  *)
(***************************************************************************)
EXTENDS Integers, FiniteSets

CONSTANTS
  Schedules,     \* identifiers of schedule rows
  Definitions,   \* the validated definitions operators submit
  None,          \* SQL NULL, Python None
  NoRow,         \* a row that is not there, or not loaded
  MaxNow,        \* bound: the clock stops here
  MaxRuns,       \* bound: completed runs of one schedule
  MaxCrashes     \* bound: polls whose process dies

Time == Nat
Kinds == {"one_time", "periodic"}
Statuses == {"scheduled", "paused", "cancelled", "expired"}

\* The JSON definition.  The four repeating types differ in how the period is
\* written down; a one-time schedule has an instant instead.
Definition ==
  [kind : Kinds, period : Nat \ {0}, runAt : Time,
   start : Time \cup {None}, end : Time \cup {None},
   next : Time \cup {None}, maxRuns : (Nat \ {0}) \cup {None}, runCount : Nat,
   enabled : BOOLEAN, paused : BOOLEAN]

Row ==
  [kind : Kinds, status : Statuses, def : Definition, next : Time \cup {None},
   maxRuns : (Nat \ {0}) \cup {None}, runCount : Nat,
   enabled : BOOLEAN, paused : BOOLEAN, cancelled : BOOLEAN]

ASSUME ScheduleConstants ==
  /\ None \notin Nat \cup Definition
  /\ NoRow \notin Row
  /\ Definitions \subseteq Definition
  /\ \A d \in Definitions : d.maxRuns # None => d.runCount <= d.maxRuns
  /\ MaxNow \in Nat /\ MaxRuns \in Nat /\ MaxCrashes \in Nat

VARIABLES now, row, poll, op, ran, strays, updated, crashes

\* ran, strays, updated and crashes are history: completed runs of a schedule,
\* those of them since it was last switched off, the schedules whose definition
\* was replaced, and the polls that died.
history == <<ran, strays, updated, crashes>>
vars == <<now, row, poll, op, ran, strays, updated, crashes>>

-----------------------------------------------------------------------------
(* The schedule's arithmetic. *)

Reached(count, maximum) == maximum # None /\ count >= maximum

\* Faulty variant: a one-time schedule is still to come at its very instant.
NextRunAgain(d, after) ==
  IF d.kind = "one_time" THEN IF after <= d.runAt THEN d.runAt ELSE None
                         ELSE after + d.period

NextRun(d, after) ==
  IF d.kind = "one_time" THEN IF after < d.runAt THEN d.runAt ELSE None
                         ELSE after + d.period

\* The instant the definition is due at: only a one-time schedule has a default.
DueAt(d) == IF d.kind = "one_time" /\ d.next = None THEN d.runAt ELSE d.next

IsDue(d, t) ==
  /\ d.enabled /\ ~d.paused
  /\ d.start # None => t >= d.start
  /\ d.end # None => t <= d.end
  /\ ~Reached(d.runCount, d.maxRuns)
  /\ DueAt(d) # None /\ DueAt(d) <= t

\* The validator of the definition: its type is the row's, and it has not run
\* more often than it may.
Decodes(r) ==
  /\ r.def.kind = r.kind
  /\ r.def.maxRuns # None => r.def.runCount <= r.def.maxRuns

Runnable(r) == r.status = "scheduled" /\ r.enabled /\ ~r.paused

\* Faulty variant: the query forgets the paused flag and the status.
SelectedByFlag(r, t) == r.enabled /\ r.next # None /\ r.next <= t

\* What list_due_jobs selects.
Selected(r, t) == Runnable(r) /\ r.next # None /\ r.next <= t

\* Faulty variant: the commit writes every column of the loaded object.
MergeWhole(current, seen, new) == [new EXCEPT !.cancelled = current.cancelled]

\* A commit: of the columns, those the session changed are written.
Merge(current, seen, new) ==
  LET Column(c) == IF new[c] = seen[c] THEN current[c] ELSE new[c]
  IN  [kind |-> Column("kind"), status |-> Column("status"), def |-> Column("def"),
       next |-> Column("next"), maxRuns |-> Column("maxRuns"),
       runCount |-> Column("runCount"), enabled |-> Column("enabled"),
       paused |-> Column("paused"), cancelled |-> Column("cancelled")]

\* The row of a new schedule.
Created(d, t) ==
  [kind |-> d.kind, status |-> IF d.paused THEN "paused" ELSE "scheduled", def |-> d,
   next |-> IF d.next = None THEN NextRun(d, t) ELSE d.next,
   maxRuns |-> d.maxRuns, runCount |-> d.runCount,
   enabled |-> d.enabled, paused |-> d.paused, cancelled |-> FALSE]

\* Faulty variant: a schedule that has reached its maximum is moved on as well.
AdvancedAlways(r, t) ==
  LET count == r.runCount + 1
      next == NextRun(r.def, t)
  IN  [r EXCEPT !.runCount = count,
                !.next = next,
                !.def = [r.def EXCEPT !.next = next]]

\* The row after a run: counted, moved on, and expired when there is no next
\* run.  The definition follows with its count and its next run only.
Advanced(r, t) ==
  LET count == r.runCount + 1
      next == IF Reached(count, r.maxRuns) THEN None ELSE NextRun(r.def, t)
  IN  [r EXCEPT !.runCount = count,
                !.next = next,
                !.def = [r.def EXCEPT !.runCount = count, !.next = next],
                !.enabled = @ /\ next # None,
                !.status = IF next = None THEN "expired" ELSE @]

\* What an operator makes of the row it has loaded.
Changed(kind, r, d) ==
  CASE kind = "pause"  -> [r EXCEPT !.status = "paused", !.paused = TRUE, !.enabled = TRUE]
    [] kind = "resume" -> [r EXCEPT !.status = "scheduled", !.paused = FALSE, !.enabled = TRUE]
    [] kind = "cancel" -> [r EXCEPT !.status = "cancelled", !.paused = FALSE, !.enabled = FALSE]
    [] kind = "stamp"  -> [r EXCEPT !.cancelled = TRUE]
    [] kind = "update" -> [r EXCEPT !.def = d, !.next = d.next, !.maxRuns = d.maxRuns,
                                    !.enabled = d.enabled, !.paused = d.paused,
                                    !.status = IF d.paused THEN "paused" ELSE "scheduled"]

-----------------------------------------------------------------------------
NothingSeen == [s \in Schedules |-> NoRow]
Between == [pc |-> "idle", todo |-> {}, cur |-> None, seen |-> NothingSeen]
NoRequest == [kind |-> "idle", target |-> None, seen |-> NoRow, def |-> None]

Init ==
  /\ now = 0
  /\ row = NothingSeen
  /\ poll = Between
  /\ op = NoRequest
  /\ ran = [s \in Schedules |-> 0]
  /\ strays = [s \in Schedules |-> 0]
  /\ updated = {}
  /\ crashes = 0

Tick == now < MaxNow /\ now' = now + 1 /\ UNCHANGED <<row, poll, op, history>>

(* Operators. *)

Create(s, d) ==
  /\ op = NoRequest /\ row[s] = NoRow
  /\ row' = [row EXCEPT ![s] = Created(d, now)]
  /\ ran' = [ran EXCEPT ![s] = d.runCount]
  /\ UNCHANGED <<now, poll, op, strays, updated, crashes>>

Load(kind, s, d) ==
  /\ op = NoRequest /\ row[s] # NoRow
  /\ op' = [kind |-> kind, target |-> s, seen |-> row[s], def |-> d]
  /\ UNCHANGED <<now, row, poll, history>>

\* The commit of an operator.  Cancelling stamps the row in a second commit.
CommitChange ==
  /\ op # NoRequest
  /\ LET s == op.target
         new == Changed(op.kind, op.seen, op.def)
         after == Merge(row[s], op.seen, new)
     IN  /\ row' = [row EXCEPT ![s] = after]
         /\ strays' = [strays EXCEPT ![s] = IF Runnable(after) THEN 0 ELSE @]
         /\ updated' = IF op.kind = "update" THEN updated \cup {s} ELSE updated
         /\ op' = IF op.kind = "cancel"
                  THEN [op EXCEPT !.kind = "stamp", !.seen = new]
                  ELSE NoRequest
  /\ UNCHANGED <<now, poll, ran, crashes>>

\* The operator's process dies, between the two commits of a cancellation too.
OperatorDies ==
  /\ op # NoRequest
  /\ op' = NoRequest
  /\ UNCHANGED <<now, row, poll, history>>

(* The poll. *)

ListDue ==
  LET due == {s \in Schedules : row[s] # NoRow /\ Selected(row[s], now)}
  IN  /\ poll = Between /\ due # {}
      /\ poll' = [pc |-> "next", todo |-> due, cur |-> None,
                  seen |-> [s \in Schedules |-> IF s \in due THEN row[s] ELSE NoRow]]
      /\ UNCHANGED <<now, row, op, history>>

\* The earliest of the listed rows.
Head(s) ==
  /\ poll.pc = "next" /\ s \in poll.todo
  /\ \A u \in poll.todo : poll.seen[s].next <= poll.seen[u].next

Dispatch(s) ==
  /\ Head(s)
  /\ Decodes(poll.seen[s]) /\ IsDue(poll.seen[s].def, now)
  /\ poll' = [poll EXCEPT !.pc = "running", !.cur = s, !.todo = @ \ {s}]
  /\ UNCHANGED <<now, row, op, history>>

\* A row that does not decode or is not due ends the poll with an exception.
Refuse(s) ==
  /\ Head(s)
  /\ ~(Decodes(poll.seen[s]) /\ IsDue(poll.seen[s].def, now))
  /\ poll' = Between
  /\ UNCHANGED <<now, row, op, history>>

\* Faulty variant: a failed run moves the schedule on as well.
FailCounted ==
  /\ poll.pc = "running"
  /\ row' = [row EXCEPT ![poll.cur] =
                Merge(@, poll.seen[poll.cur], Advanced(poll.seen[poll.cur], now))]
  /\ poll' = Between
  /\ UNCHANGED <<now, op, history>>

\* So does an unknown job, a context that cannot be built, a missing permission
\* or approval, and a job whose attempts are exhausted.
Fail ==
  /\ poll.pc \in {"next", "running"}
  /\ poll' = Between
  /\ UNCHANGED <<now, row, op, history>>

\* The runner commits the execution.
Complete ==
  /\ poll.pc = "running"
  /\ LET s == poll.cur
     IN  /\ ran[s] < MaxRuns
         /\ ran' = [ran EXCEPT ![s] = @ + 1]
         /\ strays' = [strays EXCEPT ![s] = IF Runnable(row[s]) THEN 0 ELSE @ + 1]
  /\ poll' = [poll EXCEPT !.pc = "ran"]
  /\ UNCHANGED <<now, row, op, updated, crashes>>

\* The poll commits the schedule and goes on to the next row.
Advance ==
  /\ poll.pc = "ran"
  /\ LET s == poll.cur
     IN  row' = [row EXCEPT ![s] =
                   Merge(@, poll.seen[s], Advanced(poll.seen[s], now))]
  /\ poll' = IF poll.todo = {} THEN Between
             ELSE [poll EXCEPT !.pc = "next", !.cur = None,
                               !.seen = [@ EXCEPT ![poll.cur] = NoRow]]
  /\ UNCHANGED <<now, op, history>>

\* The polling process dies.
Crash ==
  /\ poll # Between /\ crashes < MaxCrashes
  /\ poll' = Between
  /\ crashes' = crashes + 1
  /\ UNCHANGED <<now, row, op, ran, strays, updated>>

Operate ==
  \/ \E s \in Schedules, d \in Definitions : Create(s, d) \/ Load("update", s, d)
  \/ \E s \in Schedules, kind \in {"pause", "resume", "cancel"} : Load(kind, s, None)
  \/ CommitChange
  \/ OperatorDies

Poll ==
  \/ ListDue
  \/ \E s \in Schedules : Dispatch(s) \/ Refuse(s)
  \/ Fail
  \/ Complete
  \/ Advance
  \/ Crash

Next == Tick \/ Operate \/ Poll

Spec == Init /\ [][Next]_vars

-----------------------------------------------------------------------------
(* Properties. *)

RowOrNone == Row \cup {NoRow}

PollType ==
  [pc : {"idle", "next", "running", "ran"}, todo : SUBSET Schedules,
   cur : Schedules \cup {None}, seen : [Schedules -> RowOrNone]]

Request ==
  [kind : {"pause", "resume", "cancel", "stamp", "update"}, target : Schedules,
   seen : Row, def : Definition \cup {None}]

\* Tables, sessions and counters are well formed; a session only holds rows
\* that exist, and a poll knows the rows it still has to look at.
TypeOK ==
  /\ now \in Time
  /\ row \in [Schedules -> RowOrNone]
  /\ poll \in PollType
  /\ op = NoRequest \/
       /\ op \in Request /\ row[op.target] # NoRow
       /\ op.kind = "update" => op.def # None
  /\ ran \in [Schedules -> Nat]
  /\ strays \in [Schedules -> Nat]
  /\ updated \subseteq Schedules
  /\ crashes \in Nat
  /\ poll.pc = "idle" <=> poll = Between
  /\ poll.pc \in {"running", "ran"} =>
       poll.cur \in Schedules \ poll.todo /\ poll.seen[poll.cur] # NoRow
  /\ poll.pc = "next" => poll.cur = None
  /\ \A s \in Schedules :
       /\ s \in poll.todo => poll.seen[s] # NoRow
       /\ poll.seen[s] # NoRow => row[s] # NoRow

\* The poll never undoes what an operator committed while it held the row: it
\* does not switch a schedule on, does not clear a pause, and overrides a
\* paused or cancelled status by expired at most.
PollRespectsOperators ==
  [][Poll => \A s \in Schedules :
       row[s] # NoRow =>
         /\ row'[s].enabled => row[s].enabled
         /\ row'[s].paused = row[s].paused
         /\ row'[s].status \in {row[s].status, "expired"}]_vars

\* However an operator's commit falls between listing and dispatch, a schedule
\* completes at most one run after it was switched off.
AtMostOneStrayRun == \A s \in Schedules : strays[s] <= 1

\* The run count only counts runs: lost updates can make it too small, never
\* too large.
CountsOnlyRuns ==
  \A s \in Schedules : row[s] # NoRow => row[s].runCount <= ran[s]

\* As long as its definition is not replaced, a schedule completes no more runs
\* than its maximum, but for one more each time a poll dies between the commit
\* of the execution and that of the schedule.
WithinMaximum ==
  \A s \in Schedules \ updated :
    row[s] # NoRow /\ row[s].maxRuns # None => ran[s] <= row[s].maxRuns + crashes

\* A poll that has advanced a schedule leaves it not due at that instant,
\* whatever was committed to its row since it was listed.
NeverTwiceAtOnce ==
  [][Advance => ~Selected(row'[poll.cur], now)]_vars

\* The inductive invariants behind these properties.  A poll only holds rows
\* that were runnable when it listed them.
PollHoldsRunnable ==
  \A s \in Schedules : poll.seen[s] # NoRow => Runnable(poll.seen[s])

\* Rows a poll has listed and whose job has not completed yet.
Waiting == poll.todo \cup (IF poll.pc = "running" THEN {poll.cur} ELSE {})

StraysBounded ==
  \A s \in Schedules :
    /\ strays[s] <= 1
    /\ s \in Waiting \/ row[s] = NoRow \/ Runnable(row[s]) => strays[s] = 0

\* One when the schedule's run is committed and its count is not.
Uncounted(s) == IF poll.pc = "ran" /\ poll.cur = s THEN 1 ELSE 0

CountsBounded ==
  \A s \in Schedules :
    /\ row[s] # NoRow => row[s].runCount <= ran[s]
    /\ poll.seen[s] # NoRow => poll.seen[s].runCount + Uncounted(s) <= ran[s]

\* Columns, definition and the poll's copy agree on counts and maxima, until
\* the definition is replaced.
MaximumKept ==
  \A s \in Schedules \ updated :
    row[s] # NoRow =>
      LET r == row[s]
          seen == poll.seen[s]
      IN  /\ r.def.maxRuns = r.maxRuns /\ r.def.runCount = r.runCount
          /\ seen # NoRow => /\ seen.def.maxRuns = r.maxRuns /\ seen.def.runCount = r.runCount
                             /\ seen.maxRuns = r.maxRuns /\ seen.runCount = r.runCount
          /\ ran[s] <= r.runCount + crashes + Uncounted(s)
          /\ r.maxRuns # None =>
               /\ r.runCount <= r.maxRuns
               /\ poll.pc \in {"running", "ran"} /\ poll.cur = s => r.runCount < r.maxRuns

\* What list_due_jobs returns is due: is_due, which the dispatcher asserts on
\* the definition, agrees with the columns the query reads.
ListedIsDue ==
  [][ListDue => \A s \in poll'.todo : IsDue(poll'.seen[s].def, now)]_vars

=============================================================================

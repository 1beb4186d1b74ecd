--------------------- MODULE BackgroundSchedulesProofs ---------------------
(***************************************************************************)
(* Theorems about BackgroundSchedules, for any schedules, definitions and  *)
(* bounds.                                                                 *)
(***************************************************************************)
EXTENDS BackgroundSchedules, TLAPS

USE ScheduleConstants

(* What the row operators return. *)

LEMMA MergeColumns ==
  ASSUME NEW c \in Row, NEW seen \in Row, NEW new \in Row
  PROVE  LET m == Merge(c, seen, new) IN
         /\ m \in Row
         /\ m.status = IF new.status = seen.status THEN c.status ELSE new.status
         /\ m.def = IF new.def = seen.def THEN c.def ELSE new.def
         /\ m.next = IF new.next = seen.next THEN c.next ELSE new.next
         /\ m.maxRuns = IF new.maxRuns = seen.maxRuns THEN c.maxRuns ELSE new.maxRuns
         /\ m.runCount = IF new.runCount = seen.runCount THEN c.runCount ELSE new.runCount
         /\ m.enabled = IF new.enabled = seen.enabled THEN c.enabled ELSE new.enabled
         /\ m.paused = IF new.paused = seen.paused THEN c.paused ELSE new.paused
BY DEF Merge, Row

LEMMA CreatedRow ==
  ASSUME NEW d \in Definitions, NEW t \in Time
  PROVE  LET r == Created(d, t) IN
         r \in Row /\ r.def = d /\ r.maxRuns = d.maxRuns /\ r.runCount = d.runCount
<1>1. d \in Definition
  OBVIOUS
<1>2. NextRun(d, t) \in Time \cup {None}
  BY <1>1 DEF NextRun, Definition, Time
<1> QED
  BY <1>1, <1>2 DEF Created, Row, Definition, Statuses

LEMMA AdvancedRow ==
  ASSUME NEW r \in Row, NEW t \in Time
  PROVE  LET a == Advanced(r, t) IN
         /\ a \in Row
         /\ a.runCount = r.runCount + 1
         /\ a.maxRuns = r.maxRuns /\ a.paused = r.paused
         /\ a.def.maxRuns = r.def.maxRuns /\ a.def.runCount = r.runCount + 1
         /\ a.status \in {r.status, "expired"}
         /\ a.enabled \in {r.enabled, FALSE}
<1> DEFINE count == r.runCount + 1
           next == IF Reached(count, r.maxRuns) THEN None ELSE NextRun(r.def, t)
           def == [r.def EXCEPT !.runCount = count, !.next = next]
<1>1. r.def \in Definition /\ count \in Nat
  BY DEF Row
<1>2. next \in Time \cup {None}
  BY <1>1 DEF NextRun, Definition, Time
<1>3. def \in Definition /\ def.maxRuns = r.def.maxRuns /\ def.runCount = count
  BY <1>1, <1>2 DEF Definition
<1> HIDE DEF next, def
<1>4. Advanced(r, t) = [r EXCEPT !.runCount = count, !.next = next, !.def = def,
                                 !.enabled = @ /\ next # None,
                                 !.status = IF next = None THEN "expired" ELSE @]
  BY DEF Advanced, next, def
<1>5. (r.enabled /\ next # None) \in {r.enabled, FALSE}
  BY DEF Row
<1> QED
  BY <1>1, <1>2, <1>3, <1>4, <1>5 DEF Row, Statuses

LEMMA ChangedRow ==
  ASSUME NEW r \in Row, NEW d, NEW kind \in {"pause", "resume", "cancel", "stamp", "update"},
         kind = "update" => d \in Definition
  PROVE  /\ Changed(kind, r, d) \in Row
         /\ Changed(kind, r, d).runCount = r.runCount
         /\ kind # "update" => /\ Changed(kind, r, d).def = r.def
                               /\ Changed(kind, r, d).maxRuns = r.maxRuns
<1>1. CASE kind = "update"
  BY <1>1 DEF Changed, Row, Definition, Statuses
<1>2. CASE kind # "update"
  BY <1>2 DEF Changed, Row, Statuses
<1> QED
  BY <1>1, <1>2

-----------------------------------------------------------------------------
(* Type correctness. *)

LEMMA InitType == Init => TypeOK
BY DEF Init, TypeOK, NothingSeen, Between, NoRequest, PollType, RowOrNone, Time

\* The parts of TypeOK a proof about one row needs.
LEMMA RowsAreTyped ==
  ASSUME TypeOK, NEW s \in Schedules
  PROVE  /\ row[s] # NoRow => row[s] \in Row
         /\ poll.seen[s] # NoRow => poll.seen[s] \in Row
BY DEF TypeOK, PollType, RowOrNone

LEMMA CommitTyped ==
  ASSUME TypeOK, op # NoRequest
  PROVE  /\ op.target \in Schedules
         /\ row[op.target] \in Row
         /\ op.seen \in Row
         /\ Changed(op.kind, op.seen, op.def) \in Row
         /\ Merge(row[op.target], op.seen, Changed(op.kind, op.seen, op.def)) \in Row
<1>1. op \in Request /\ row[op.target] # NoRow /\ (op.kind = "update" => op.def # None)
  BY DEF TypeOK
<1>2. op.target \in Schedules /\ op.seen \in Row
      /\ op.kind \in {"pause", "resume", "cancel", "stamp", "update"}
      /\ (op.kind = "update" => op.def \in Definition)
  BY <1>1 DEF Request
<1>3. row[op.target] \in Row
  BY <1>1, <1>2, RowsAreTyped
<1>4. Changed(op.kind, op.seen, op.def) \in Row
  BY <1>2, ChangedRow
<1> QED
  BY <1>2, <1>3, <1>4, MergeColumns

\* What a poll holds of the row it is working on.
LEMMA AdvanceTyped ==
  ASSUME TypeOK, poll.pc \in {"running", "ran"}
  PROVE  /\ poll.cur \in Schedules /\ poll.cur \notin poll.todo
         /\ poll.seen[poll.cur] \in Row /\ row[poll.cur] \in Row
         /\ Advanced(poll.seen[poll.cur], now) \in Row
         /\ Merge(row[poll.cur], poll.seen[poll.cur], Advanced(poll.seen[poll.cur], now)) \in Row
<1>1. poll.cur \in Schedules /\ poll.cur \notin poll.todo /\ poll.seen[poll.cur] # NoRow
      /\ row[poll.cur] # NoRow /\ now \in Time
  BY DEF TypeOK
<1>2. poll.seen[poll.cur] \in Row /\ row[poll.cur] \in Row
  BY <1>1, RowsAreTyped
<1>3. Advanced(poll.seen[poll.cur], now) \in Row
  BY <1>1, <1>2, AdvancedRow
<1> QED
  BY <1>1, <1>2, <1>3, MergeColumns

LEMMA NextType == TypeOK /\ [Next]_vars => TypeOK'
<1> SUFFICES ASSUME TypeOK, [Next]_vars PROVE TypeOK'
  OBVIOUS
<1>1. CASE Tick
  BY <1>1 DEF Tick, TypeOK, history, Time, PollType, Request, RowOrNone
<1>2. ASSUME NEW s \in Schedules, NEW d \in Definitions, Create(s, d) PROVE TypeOK'
  <2>1. Created(d, now) \in Row
    BY CreatedRow DEF TypeOK
  <2>2. row' \in [Schedules -> RowOrNone] /\ ran' \in [Schedules -> Nat]
    BY <1>2, <2>1 DEF Create, TypeOK, RowOrNone, Definition
  <2>3. row'[s] # NoRow /\ \A u \in Schedules \ {s} : row'[u] = row[u]
    BY <1>2, <2>1 DEF Create, TypeOK
  <2> QED
    BY <1>2, <2>2, <2>3 DEF Create, TypeOK
<1>3. ASSUME NEW s \in Schedules, NEW kind \in {"pause", "resume", "cancel", "update"},
             NEW d \in Definitions \cup {None}, kind = "update" => d # None,
             Load(kind, s, d)
      PROVE  TypeOK'
  <2>1. row[s] \in Row
    BY <1>3, RowsAreTyped DEF Load
  <2>2. op' \in Request /\ op'.target = s /\ op'.kind = kind /\ op'.def = d
    BY <1>3, <2>1 DEF Load, Request
  <2> QED
    BY <1>3, <2>2 DEF Load, TypeOK, history
<1>4. CASE CommitChange
  <2> DEFINE s == op.target
             new == Changed(op.kind, op.seen, op.def)
             after == Merge(row[s], op.seen, new)
  <2>1. s \in Schedules /\ op.seen \in Row /\ new \in Row /\ after \in Row
    BY <1>4, CommitTyped DEF CommitChange
  <2>2. op \in Request
    BY <1>4 DEF CommitChange, TypeOK
  <2> HIDE DEF new, after
  <2>3. /\ row' = [row EXCEPT ![s] = after]
        /\ strays' = [strays EXCEPT ![s] = IF Runnable(after) THEN 0 ELSE @]
        /\ updated' = IF op.kind = "update" THEN updated \cup {s} ELSE updated
        /\ op' = IF op.kind = "cancel" THEN [op EXCEPT !.kind = "stamp", !.seen = new]
                 ELSE NoRequest
        /\ UNCHANGED <<now, poll, ran, crashes>>
    BY <1>4 DEF CommitChange, new, after
  <2>4. row' \in [Schedules -> RowOrNone] /\ \A u \in Schedules : row[u] # NoRow => row'[u] # NoRow
    BY <2>1, <2>3 DEF TypeOK, RowOrNone
  <2>5. row'[s] # NoRow
    BY <2>1, <2>3 DEF TypeOK
  <2>6. op' = NoRequest \/
          (op' \in Request /\ row'[op'.target] # NoRow /\ op'.kind # "update")
    BY <2>1, <2>2, <2>3, <2>5 DEF Request
  <2>7. strays' \in [Schedules -> Nat] /\ updated' \subseteq Schedules
    BY <2>1, <2>3 DEF TypeOK
  <2> QED
    BY <2>3, <2>4, <2>6, <2>7 DEF TypeOK
<1>5. CASE OperatorDies
  BY <1>5 DEF OperatorDies, TypeOK, history
<1>6. CASE ListDue
  BY <1>6 DEF ListDue, TypeOK, history, PollType, RowOrNone, Between
<1>7. ASSUME NEW s \in Schedules, Dispatch(s) PROVE TypeOK'
  <2>1. poll' \in PollType /\ poll' # Between
    BY <1>7 DEF Dispatch, Head, TypeOK, PollType, Between
  <2> QED
    BY <1>7, <2>1 DEF Dispatch, Head, TypeOK, history, PollType
<1>8. CASE poll' = Between /\ UNCHANGED <<now, row, op, ran, strays, updated>> /\ crashes' \in Nat
  BY <1>8 DEF TypeOK, PollType, RowOrNone, Between, NothingSeen
<1>9. ASSUME NEW s \in Schedules, Refuse(s) PROVE TypeOK'
  BY <1>8, <1>9 DEF Refuse, history, TypeOK
<1>10. CASE Fail
  BY <1>8, <1>10 DEF Fail, history, TypeOK
<1>11. CASE Complete
  <2>1. poll' \in PollType /\ poll' # Between /\ poll'.pc = "ran"
        /\ poll'.todo = poll.todo /\ poll'.cur = poll.cur /\ poll'.seen = poll.seen
    BY <1>11 DEF Complete, TypeOK, PollType, Between
  <2>2. poll.cur \in Schedules
    BY <1>11, AdvanceTyped DEF Complete
  <2>3. ran' \in [Schedules -> Nat] /\ strays' \in [Schedules -> Nat]
    BY <1>11, <2>2 DEF Complete, TypeOK
  <2> QED
    BY <1>11, <2>1, <2>3 DEF Complete, TypeOK
<1>12. CASE Advance
  <2> DEFINE s == poll.cur
             after == Merge(row[s], poll.seen[s], Advanced(poll.seen[s], now))
  <2>1. s \in Schedules /\ s \notin poll.todo /\ after \in Row
    BY <1>12, AdvanceTyped DEF Advance
  <2> HIDE DEF after
  <2>2. row' = [row EXCEPT ![s] = after]
    BY <1>12 DEF Advance, after
  <2>3. row' \in [Schedules -> RowOrNone] /\ \A u \in Schedules : row[u] # NoRow => row'[u] # NoRow
    BY <2>1, <2>2 DEF TypeOK, RowOrNone
  <2>4. CASE poll.todo = {}
    BY <1>12, <2>3, <2>4 DEF Advance, TypeOK, history, PollType, RowOrNone, Between, NothingSeen
  <2>5. CASE poll.todo # {}
    <3>1. poll' = [poll EXCEPT !.pc = "next", !.cur = None, !.seen = [@ EXCEPT ![s] = NoRow]]
      BY <1>12, <2>5 DEF Advance
    <3>2. poll' \in PollType /\ poll'.pc = "next" /\ poll'.cur = None /\ poll'.todo = poll.todo
          /\ poll' # Between /\ poll'.seen = [poll.seen EXCEPT ![s] = NoRow]
      BY <2>1, <3>1 DEF TypeOK, PollType, RowOrNone, Between
    <3>3. \A u \in Schedules : /\ u \in poll'.todo => poll'.seen[u] # NoRow
                               /\ poll'.seen[u] # NoRow => row'[u] # NoRow
      BY <2>1, <2>3, <3>2 DEF TypeOK, PollType
    <3>4. UNCHANGED <<now, op, ran, strays, updated, crashes>>
      BY <1>12 DEF Advance, history
    <3> QED
      BY <2>3, <3>2, <3>3, <3>4 DEF TypeOK, Request
  <2> QED
    BY <2>4, <2>5
<1>13. CASE Crash
  BY <1>8, <1>13 DEF Crash, TypeOK
<1>14. CASE UNCHANGED vars
  BY <1>14 DEF vars, TypeOK, PollType, Request, RowOrNone, Time
<1> QED
  BY <1>1, <1>2, <1>3, <1>4, <1>5, <1>6, <1>7, <1>9, <1>10, <1>11, <1>12, <1>13, <1>14
  DEF Next, Operate, Poll

\* Tables, sessions and counters stay well formed, whatever the poll and the
\* operators do to each other's rows.
THEOREM SchedulesTypeCorrect == Spec => []TypeOK
<1> QED
  BY InitType, NextType, PTL DEF Spec

-----------------------------------------------------------------------------
(* What a step does to a poll's copies and to the rows. *)

\* A poll either keeps, drops or freshly lists a row.
LEMMA SeenStep ==
  ASSUME TypeOK, [Next]_vars, NEW s \in Schedules, poll'.seen[s] # NoRow
  PROVE  \/ poll'.seen[s] = poll.seen[s]
         \/ ListDue /\ poll'.seen[s] = row[s] /\ row' = row /\ Selected(row[s], now)
<1>1. CASE ListDue
  BY <1>1 DEF ListDue
<1>2. CASE Advance
  BY <1>2 DEF Advance, Between, NothingSeen, TypeOK, PollType
<1>3. CASE poll' = Between
  BY <1>3 DEF Between, NothingSeen
<1>4. CASE UNCHANGED poll
  BY <1>4
<1>5. CASE Complete \/ \E u \in Schedules : Dispatch(u)
  BY <1>5 DEF Complete, Dispatch, TypeOK, PollType
<1> QED
  BY <1>1, <1>2, <1>3, <1>4, <1>5
  DEF Next, Operate, Poll, Tick, Create, Load, CommitChange, OperatorDies, Refuse, Fail,
      Crash, vars

LEMMA HeldRunnable == TypeOK /\ PollHoldsRunnable /\ [Next]_vars => PollHoldsRunnable'
<1> SUFFICES ASSUME TypeOK, PollHoldsRunnable, [Next]_vars,
                    NEW s \in Schedules, poll'.seen[s] # NoRow
             PROVE  Runnable(poll'.seen[s])
  BY DEF PollHoldsRunnable
<1> QED
  BY SeenStep DEF PollHoldsRunnable, Selected

\* The row the poll commits: what it writes over the current one.
LEMMA AdvanceStep ==
  ASSUME TypeOK, PollHoldsRunnable, Advance
  PROVE  LET s == poll.cur
             seen == poll.seen[s]
         IN  /\ s \in Schedules /\ s \notin poll.todo
             /\ row[s] \in Row /\ seen \in Row /\ row'[s] \in Row
             /\ \A u \in Schedules \ {s} : row'[u] = row[u]
             /\ row'[s].runCount = seen.runCount + 1
             /\ row'[s].maxRuns = row[s].maxRuns
             /\ row'[s].def.runCount = seen.runCount + 1 \/ row'[s].def = row[s].def
             /\ row'[s].def.maxRuns \in {seen.def.maxRuns, row[s].def.maxRuns}
             /\ row'[s].paused = row[s].paused
             /\ row'[s].enabled => row[s].enabled
             /\ row'[s].status \in {row[s].status, "expired"}
             /\ Advanced(seen, now).next # seen.next => row'[s].next = Advanced(seen, now).next
<1> DEFINE s == poll.cur
           seen == poll.seen[s]
           new == Advanced(seen, now)
<1>1. /\ s \in Schedules /\ s \notin poll.todo /\ seen \in Row /\ row[s] \in Row
      /\ new \in Row /\ Merge(row[s], seen, new) \in Row /\ now \in Time
  BY AdvanceTyped DEF Advance, TypeOK
<1>2. row'[s] = Merge(row[s], seen, new) /\ \A u \in Schedules \ {s} : row'[u] = row[u]
  BY <1>1 DEF Advance, TypeOK
<1>3. /\ new.runCount = seen.runCount + 1 /\ new.maxRuns = seen.maxRuns
      /\ new.paused = seen.paused /\ new.def.maxRuns = seen.def.maxRuns
      /\ new.def.runCount = seen.runCount + 1
      /\ new.status \in {seen.status, "expired"} /\ new.enabled \in {seen.enabled, FALSE}
  BY <1>1, AdvancedRow
<1>4. seen.enabled = TRUE /\ seen.runCount \in Nat
  BY <1>1, ScheduleConstants DEF PollHoldsRunnable, Runnable, Row
<1> HIDE DEF s, seen, new
<1>5. LET m == Merge(row[s], seen, new) IN
         /\ m.status = IF new.status = seen.status THEN row[s].status ELSE new.status
         /\ m.def = IF new.def = seen.def THEN row[s].def ELSE new.def
         /\ m.next = IF new.next = seen.next THEN row[s].next ELSE new.next
         /\ m.maxRuns = IF new.maxRuns = seen.maxRuns THEN row[s].maxRuns ELSE new.maxRuns
         /\ m.runCount = IF new.runCount = seen.runCount THEN row[s].runCount ELSE new.runCount
         /\ m.enabled = IF new.enabled = seen.enabled THEN row[s].enabled ELSE new.enabled
         /\ m.paused = IF new.paused = seen.paused THEN row[s].paused ELSE new.paused
  BY <1>1, MergeColumns
<1>6. row'[s].runCount = seen.runCount + 1
  BY <1>2, <1>3, <1>4, <1>5
<1>7. /\ row'[s].maxRuns = row[s].maxRuns /\ row'[s].paused = row[s].paused
      /\ row'[s].def.maxRuns \in {seen.def.maxRuns, row[s].def.maxRuns}
      /\ row'[s].def.runCount = seen.runCount + 1 \/ row'[s].def = row[s].def
      /\ row'[s].enabled => row[s].enabled
      /\ row'[s].status \in {row[s].status, "expired"}
      /\ new.next # seen.next => row'[s].next = new.next
  BY <1>2, <1>3, <1>4, <1>5
<1> QED
  BY <1>1, <1>2, <1>6, <1>7 DEF s, seen, new

\* A counted run changes the definition, so that it is written.
LEMMA DefinitionMoves ==
  ASSUME TypeOK, Advance,
         row[poll.cur].def.runCount = poll.seen[poll.cur].runCount,
         poll.seen[poll.cur].def.runCount = poll.seen[poll.cur].runCount
  PROVE  row'[poll.cur].def # row[poll.cur].def
<1> DEFINE s == poll.cur
           seen == poll.seen[s]
           new == Advanced(seen, now)
<1>1. /\ s \in Schedules /\ seen \in Row /\ row[s] \in Row /\ new \in Row /\ now \in Time
  BY AdvanceTyped DEF Advance, TypeOK
<1>2. row'[s] = Merge(row[s], seen, new)
  BY <1>1 DEF Advance, TypeOK
<1>3. new.def.runCount = seen.runCount + 1 /\ seen.runCount \in Nat
  BY <1>1, AdvancedRow DEF Row
<1> HIDE DEF new, seen, s
<1>4. row'[s].def = IF new.def = seen.def THEN row[s].def ELSE new.def
  BY <1>1, <1>2, MergeColumns
<1>5. new.def # seen.def /\ new.def # row[s].def
  BY <1>3 DEF seen, s
<1> QED
  BY <1>4, <1>5 DEF s

\* The row an operator commits.
LEMMA CommitStep ==
  ASSUME TypeOK, CommitChange
  PROVE  LET s == op.target IN
         /\ s \in Schedules /\ row[s] \in Row /\ row'[s] \in Row
         /\ \A u \in Schedules \ {s} : row'[u] = row[u] /\ strays'[u] = strays[u]
         /\ row'[s].runCount = row[s].runCount
         /\ op.kind # "update" => row'[s].def = row[s].def /\ row'[s].maxRuns = row[s].maxRuns
         /\ strays'[s] = IF Runnable(row'[s]) THEN 0 ELSE strays[s]
<1> DEFINE s == op.target
           new == Changed(op.kind, op.seen, op.def)
           after == Merge(row[s], op.seen, new)
<1>1. s \in Schedules /\ row[s] \in Row /\ op.seen \in Row /\ new \in Row /\ after \in Row
  BY CommitTyped DEF CommitChange
<1>2. /\ new.runCount = op.seen.runCount
      /\ op.kind # "update" => new.def = op.seen.def /\ new.maxRuns = op.seen.maxRuns
  <2>1. op \in Request /\ (op.kind = "update" => op.def # None)
    BY DEF CommitChange, TypeOK
  <2>2. /\ op.kind \in {"pause", "resume", "cancel", "stamp", "update"}
        /\ op.kind = "update" => op.def \in Definition
    BY <2>1 DEF Request
  <2> QED
    BY <1>1, <2>2, ChangedRow
<1>3. row' = [row EXCEPT ![s] = after]
      /\ strays' = [strays EXCEPT ![s] = IF Runnable(after) THEN 0 ELSE @]
  BY DEF CommitChange
<1> HIDE DEF new
<1>4. after.runCount = row[s].runCount
      /\ (op.kind # "update" => after.def = row[s].def /\ after.maxRuns = row[s].maxRuns)
  BY <1>1, <1>2, MergeColumns
<1> HIDE DEF after
<1> QED
  BY <1>1, <1>3, <1>4 DEF TypeOK

-----------------------------------------------------------------------------
(* The poll and the operators. *)

\* The poll does not switch a schedule on, does not clear a pause, and replaces
\* a status by expired only, whatever it held of the row when it committed.
THEOREM PollUndoesNothing == Spec => PollRespectsOperators
<1> DEFINE Respects ==
      \A s \in Schedules :
        row[s] # NoRow =>
          /\ row'[s].enabled => row[s].enabled
          /\ row'[s].paused = row[s].paused
          /\ row'[s].status \in {row[s].status, "expired"}
<1>1. TypeOK /\ PollHoldsRunnable /\ Poll => Respects
  <2> SUFFICES ASSUME TypeOK, PollHoldsRunnable, Poll PROVE Respects
    OBVIOUS
  <2>1. CASE Advance
    BY <2>1, AdvanceStep
  <2>2. CASE UNCHANGED row
    BY <2>2
  <2> QED
    BY <2>1, <2>2 DEF Poll, ListDue, Dispatch, Refuse, Fail, Complete, Crash
<1>2. Init => PollHoldsRunnable
  BY DEF Init, PollHoldsRunnable, Between, NothingSeen
<1>3. TypeOK /\ PollHoldsRunnable /\ [Next]_vars => [Poll => Respects]_vars
  BY <1>1
<1> QED
  BY <1>2, <1>3, HeldRunnable, SchedulesTypeCorrect, PTL DEF Spec, PollRespectsOperators

(* Stray runs. *)

LEMMA StraysStep ==
  TypeOK /\ PollHoldsRunnable /\ StraysBounded /\ [Next]_vars => StraysBounded'
<1> SUFFICES ASSUME TypeOK, PollHoldsRunnable, StraysBounded, [Next]_vars
             PROVE  StraysBounded'
  OBVIOUS
<1>0. \A s \in Schedules : strays[s] \in Nat
  BY DEF TypeOK
<1>1. CASE row' = row /\ strays' = strays /\ Waiting' \subseteq Waiting
  BY <1>1 DEF StraysBounded
<1>2. ASSUME NEW s \in Schedules, NEW d \in Definitions, Create(s, d) PROVE StraysBounded'
  BY <1>2 DEF Create, StraysBounded, TypeOK, Waiting
<1>3. CASE CommitChange
  <2>1. Waiting' = Waiting
    BY <1>3 DEF CommitChange, Waiting
  <2> QED
    BY <1>0, <1>3, <2>1, CommitStep, ScheduleConstants DEF StraysBounded
<1>4. CASE ListDue
  <2>1. row' = row /\ strays' = strays
        /\ \A s \in Waiting' : s \in Schedules /\ Runnable(row[s])
    BY <1>4 DEF ListDue, Waiting, history, Selected
  <2> QED
    BY <2>1 DEF StraysBounded
<1>5. CASE Complete
  <2> DEFINE s == poll.cur
  <2>1. s \in Schedules /\ s \notin poll.todo /\ s \in Waiting
    BY <1>5, AdvanceTyped DEF Complete, Waiting
  <2>2. row' = row /\ Waiting' = Waiting \ {s} /\ strays[s] = 0
    BY <1>5, <2>1 DEF Complete, Waiting, TypeOK, PollType, StraysBounded
  <2>3. /\ strays'[s] \in {0, 1} /\ (Runnable(row[s]) => strays'[s] = 0)
        /\ \A u \in Schedules \ {s} : strays'[u] = strays[u]
    BY <1>5, <2>1, <2>2 DEF Complete, TypeOK
  <2>4. row[s] # NoRow
    BY <1>5, <2>1, AdvanceTyped, ScheduleConstants DEF Complete
  <2> QED
    BY <2>1, <2>2, <2>3, <2>4 DEF StraysBounded
<1>6. CASE Advance
  <2>1. strays' = strays /\ Waiting' \subseteq Waiting
    BY <1>6 DEF Advance, history, Waiting, Between, TypeOK, PollType
  <2>2. \A s \in Schedules : Runnable(row'[s]) \/ row'[s] = NoRow =>
          Runnable(row[s]) \/ row[s] = NoRow
    BY <1>6, AdvanceStep, ScheduleConstants DEF Runnable
  <2> QED
    BY <2>1, <2>2 DEF StraysBounded
<1>7. ASSUME NEW s \in Schedules, Dispatch(s) PROVE StraysBounded'
  <2>1. row' = row /\ strays' = strays /\ Waiting' \subseteq Waiting
    BY <1>7 DEF Dispatch, Head, history, Waiting, TypeOK, PollType
  <2> QED
    BY <1>1, <2>1
<1>8. CASE poll' = Between /\ row' = row /\ strays' = strays
  BY <1>1, <1>8 DEF Waiting, Between
<1>9. CASE UNCHANGED <<row, poll, strays>>
  BY <1>1, <1>9 DEF Waiting
<1> QED
  BY <1>2, <1>3, <1>4, <1>5, <1>6, <1>7, <1>8, <1>9
  DEF Next, Operate, Poll, Tick, Load, OperatorDies, Refuse, Fail, Crash, history, vars

\* A schedule that is paused, cancelled or disabled completes at most one more
\* run, the one the poll had listed.
THEOREM StrayRuns == Spec => []AtMostOneStrayRun
<1>1. Init => PollHoldsRunnable /\ StraysBounded
  BY DEF Init, PollHoldsRunnable, StraysBounded, Between, NothingSeen
<1>2. StraysBounded => AtMostOneStrayRun
  BY DEF StraysBounded, AtMostOneStrayRun
<1> QED
  BY <1>1, <1>2, HeldRunnable, StraysStep, SchedulesTypeCorrect, PTL DEF Spec

-----------------------------------------------------------------------------
(* Counting. *)

LEMMA CountsStep ==
  TypeOK /\ PollHoldsRunnable /\ CountsBounded /\ [Next]_vars => CountsBounded'
<1> SUFFICES ASSUME TypeOK, PollHoldsRunnable, CountsBounded, [Next]_vars
             PROVE  CountsBounded'
  OBVIOUS
<1>0. \A s \in Schedules :
        /\ ran[s] \in Nat
        /\ row[s] # NoRow => row[s] \in Row /\ row[s].runCount \in Nat
        /\ poll.seen[s] # NoRow => poll.seen[s] \in Row /\ poll.seen[s].runCount \in Nat
  BY RowsAreTyped DEF TypeOK, Row
<1>1. CASE UNCHANGED <<row, poll, ran>>
  BY <1>1 DEF CountsBounded, Uncounted
<1>2. ASSUME NEW s \in Schedules, NEW d \in Definitions, Create(s, d) PROVE CountsBounded'
  <2>1. row'[s].runCount = d.runCount /\ ran'[s] = d.runCount /\ d.runCount \in Nat
        /\ poll' = poll /\ poll.seen[s] = NoRow
        /\ \A u \in Schedules \ {s} : row'[u] = row[u] /\ ran'[u] = ran[u]
    BY <1>2, CreatedRow DEF Create, TypeOK, Definition
  <2> QED
    BY <2>1 DEF CountsBounded, Uncounted
<1>3. CASE CommitChange
  <2>1. ran' = ran /\ poll' = poll
    BY <1>3 DEF CommitChange
  <2> QED
    BY <1>3, <2>1, CommitStep, ScheduleConstants DEF CountsBounded, Uncounted
<1>4. CASE ListDue
  <2>1. ran' = ran /\ row' = row /\ poll'.pc = "next"
        /\ \A s \in Schedules : poll'.seen[s] # NoRow => poll'.seen[s] = row[s]
    BY <1>4 DEF ListDue, history
  <2> QED
    BY <1>0, <2>1 DEF CountsBounded, Uncounted
<1>5. ASSUME NEW s \in Schedules, Dispatch(s) PROVE CountsBounded'
  <2>1. ran' = ran /\ row' = row /\ poll'.pc = "running" /\ poll'.seen = poll.seen
        /\ poll.pc = "next"
    BY <1>5 DEF Dispatch, Head, history, TypeOK, PollType
  <2> QED
    BY <1>0, <2>1 DEF CountsBounded, Uncounted
<1>6. CASE Complete
  <2> DEFINE s == poll.cur
  <2>1. s \in Schedules
    BY <1>6, AdvanceTyped DEF Complete
  <2>2. /\ row' = row /\ poll.pc = "running" /\ poll'.pc = "ran" /\ poll'.cur = s
        /\ poll'.seen = poll.seen /\ ran'[s] = ran[s] + 1
        /\ \A u \in Schedules \ {s} : ran'[u] = ran[u]
    BY <1>6, <2>1 DEF Complete, TypeOK, PollType
  <2>3. \A u \in Schedules \ {s} : Uncounted(u) = 0 /\ Uncounted(u)' = 0
    BY <2>2 DEF Uncounted
  <2>4. Uncounted(s) = 0 /\ Uncounted(s)' = 1
    BY <2>2 DEF Uncounted
  <2> QED
    BY <1>0, <2>1, <2>2, <2>3, <2>4 DEF CountsBounded
<1>7. CASE Advance
  <2> DEFINE s == poll.cur
  <2>1. /\ s \in Schedules /\ row'[s].runCount = poll.seen[s].runCount + 1
        /\ poll.seen[s] # NoRow
        /\ \A u \in Schedules \ {s} : row'[u] = row[u]
    BY <1>7, AdvanceStep, ScheduleConstants
  <2>2. Uncounted(s) = 1 /\ ran' = ran /\ poll'.pc # "ran"
    BY <1>7 DEF Uncounted, Advance, history, Between, TypeOK, PollType
  <2>3. \A u \in Schedules : /\ Uncounted(u)' = 0
                             /\ poll'.seen[u] # NoRow => poll'.seen[u] = poll.seen[u]
    BY <1>7, <2>2 DEF Uncounted, Advance, Between, NothingSeen, TypeOK, PollType
  <2>4. \A u \in Schedules : Uncounted(u) \in {0, 1}
    BY DEF Uncounted
  <2> QED
    BY <1>0, <2>1, <2>2, <2>3, <2>4 DEF CountsBounded
<1>8. CASE poll' = Between /\ row' = row /\ ran' = ran
  BY <1>0, <1>8 DEF CountsBounded, Between, NothingSeen, Uncounted
<1> QED
  BY <1>1, <1>2, <1>3, <1>4, <1>5, <1>6, <1>7, <1>8
  DEF Next, Operate, Poll, Tick, Load, OperatorDies, Refuse, Fail, Crash, history, vars

\* The run count of a schedule never exceeds the runs it completed.
THEOREM CountsAreRuns == Spec => []CountsOnlyRuns
<1>1. Init => PollHoldsRunnable /\ CountsBounded
  BY DEF Init, PollHoldsRunnable, CountsBounded, Between, NothingSeen, Uncounted
<1>2. CountsBounded => CountsOnlyRuns
  BY DEF CountsBounded, CountsOnlyRuns
<1> QED
  BY <1>1, <1>2, HeldRunnable, CountsStep, SchedulesTypeCorrect, PTL DEF Spec

LEMMA MaximumStep ==
  TypeOK /\ PollHoldsRunnable /\ MaximumKept /\ [Next]_vars => MaximumKept'
<1> SUFFICES ASSUME TypeOK, PollHoldsRunnable, MaximumKept, [Next]_vars
             PROVE  MaximumKept'
  OBVIOUS
<1>0. /\ crashes \in Nat
      /\ \A s \in Schedules :
        /\ ran[s] \in Nat
        /\ row[s] # NoRow => row[s] \in Row /\ row[s].runCount \in Nat
                             /\ row[s].maxRuns \in Nat \cup {None}
  BY RowsAreTyped DEF TypeOK, Row
<1>1. CASE UNCHANGED <<row, poll, ran, updated, crashes>>
  BY <1>1 DEF MaximumKept, Uncounted
<1>2. ASSUME NEW s \in Schedules, NEW d \in Definitions, Create(s, d) PROVE MaximumKept'
  <2>1. /\ row'[s].def = d /\ row'[s].maxRuns = d.maxRuns /\ row'[s].runCount = d.runCount
        /\ ran'[s] = d.runCount /\ d.runCount \in Nat
        /\ d.maxRuns # None => d.runCount <= d.maxRuns
        /\ UNCHANGED <<poll, updated, crashes>>
        /\ \A u \in Schedules \ {s} : row'[u] = row[u] /\ ran'[u] = ran[u]
    BY <1>2, CreatedRow, ScheduleConstants DEF Create, TypeOK, Definition
  <2>2. poll.seen[s] = NoRow /\ ~(poll.pc \in {"running", "ran"} /\ poll.cur = s)
    BY <1>2, AdvanceTyped, ScheduleConstants DEF Create, TypeOK
  <2>3. Uncounted(s) = 0 /\ \A u \in Schedules : Uncounted(u)' = Uncounted(u)
    BY <2>1, <2>2 DEF Uncounted
  <2> QED
    BY <1>0, <2>1, <2>2, <2>3 DEF MaximumKept
<1>3. CASE CommitChange
  <2> DEFINE s == op.target
  <2>1. /\ UNCHANGED <<poll, ran, crashes>>
        /\ updated' = IF op.kind = "update" THEN updated \cup {s} ELSE updated
    BY <1>3 DEF CommitChange
  <2>2. \A u \in Schedules \ updated' :
          /\ row[u] # NoRow \/ row'[u] = row[u]
          /\ row'[u].def = row[u].def /\ row'[u].maxRuns = row[u].maxRuns
          /\ row'[u].runCount = row[u].runCount
    BY <1>3, <2>1, CommitStep, ScheduleConstants
  <2>3. \A u \in Schedules : Uncounted(u)' = Uncounted(u)
    BY <2>1 DEF Uncounted
  <2> QED
    BY <2>1, <2>2, <2>3 DEF MaximumKept
<1>4. CASE ListDue
  <2>1. /\ UNCHANGED <<row, ran, updated, crashes>> /\ poll'.pc = "next" /\ poll.pc = "idle"
        /\ \A s \in Schedules : poll'.seen[s] # NoRow => poll'.seen[s] = row[s]
    BY <1>4 DEF ListDue, history, Between
  <2>2. \A s \in Schedules : Uncounted(s) = 0 /\ Uncounted(s)' = 0
    BY <2>1 DEF Uncounted
  <2> QED
    BY <1>0, <2>1, <2>2 DEF MaximumKept
<1>5. ASSUME NEW t \in Schedules, Dispatch(t) PROVE MaximumKept'
  <2>1. /\ UNCHANGED <<row, ran, updated, crashes>> /\ poll'.seen = poll.seen
        /\ poll.pc = "next" /\ poll'.pc = "running" /\ poll'.cur = t
    BY <1>5 DEF Dispatch, Head, history, TypeOK, PollType
  <2>2. \A s \in Schedules : Uncounted(s) = 0 /\ Uncounted(s)' = 0
    BY <2>1 DEF Uncounted
  <2>3. /\ poll.seen[t] # NoRow
        /\ ~Reached(poll.seen[t].def.runCount, poll.seen[t].def.maxRuns)
    BY <1>5 DEF Dispatch, Head, IsDue, TypeOK
  <2>4. ASSUME t \notin updated, row[t] # NoRow, row[t].maxRuns # None
        PROVE  row[t].runCount < row[t].maxRuns
    <3>1. row[t].runCount \in Nat /\ row[t].maxRuns \in Nat
      BY <1>0, <2>4
    <3>2. ~(row[t].runCount >= row[t].maxRuns)
      BY <2>3, <2>4 DEF MaximumKept, Reached
    <3> QED
      BY <3>1, <3>2
  <2> QED
    BY <1>0, <2>1, <2>2, <2>4 DEF MaximumKept
<1>6. CASE Complete
  <2> DEFINE t == poll.cur
  <2>1. t \in Schedules
    BY <1>6, AdvanceTyped DEF Complete
  <2>2. /\ UNCHANGED <<row, updated, crashes>>
        /\ poll.pc = "running" /\ poll'.pc = "ran" /\ poll'.cur = t
        /\ poll'.seen = poll.seen /\ ran'[t] = ran[t] + 1
        /\ \A u \in Schedules \ {t} : ran'[u] = ran[u]
    BY <1>6, <2>1 DEF Complete, TypeOK, PollType
  <2>3. /\ Uncounted(t) = 0 /\ Uncounted(t)' = 1
        /\ \A u \in Schedules \ {t} : Uncounted(u) = 0 /\ Uncounted(u)' = 0
    BY <2>2 DEF Uncounted
  <2> QED
    BY <1>0, <2>1, <2>2, <2>3 DEF MaximumKept
<1>7. CASE Advance
  <2> DEFINE t == poll.cur
  <2>1. /\ t \in Schedules /\ poll.seen[t] # NoRow /\ row[t] # NoRow
        /\ row'[t].runCount = poll.seen[t].runCount + 1
        /\ row'[t].maxRuns = row[t].maxRuns
        /\ row'[t].def.runCount = poll.seen[t].runCount + 1 \/ row'[t].def = row[t].def
        /\ row'[t].def.maxRuns \in {poll.seen[t].def.maxRuns, row[t].def.maxRuns}
        /\ \A u \in Schedules \ {t} : row'[u] = row[u]
    BY <1>7, AdvanceStep, ScheduleConstants
  <2>2. /\ UNCHANGED <<ran, updated, crashes>> /\ poll.pc = "ran"
        /\ poll'.pc \in {"idle", "next"}
    BY <1>7 DEF Advance, history, Between, TypeOK, PollType
  <2>3. /\ Uncounted(t) = 1 /\ \A u \in Schedules : Uncounted(u)' = 0
        /\ \A u \in Schedules \ {t} : Uncounted(u) = 0
    BY <2>2 DEF Uncounted
  <2>4. /\ poll'.seen[t] = NoRow
        /\ \A u \in Schedules : poll'.seen[u] # NoRow => poll'.seen[u] = poll.seen[u]
    BY <1>7, <2>1 DEF Advance, Between, NothingSeen, TypeOK, PollType
  <2>5. ASSUME NEW u \in Schedules \ updated, row'[u] # NoRow, u # t
        PROVE  /\ row'[u].def.maxRuns = row'[u].maxRuns
               /\ row'[u].def.runCount = row'[u].runCount
               /\ poll'.seen[u] # NoRow => /\ poll'.seen[u].def.maxRuns = row'[u].maxRuns
                                           /\ poll'.seen[u].def.runCount = row'[u].runCount
                                           /\ poll'.seen[u].maxRuns = row'[u].maxRuns
                                           /\ poll'.seen[u].runCount = row'[u].runCount
               /\ ran'[u] <= row'[u].runCount + crashes'
               /\ row'[u].maxRuns # None => row'[u].runCount <= row'[u].maxRuns
    BY <1>0, <2>1, <2>2, <2>3, <2>4, <2>5 DEF MaximumKept
  <2>6. ASSUME NEW u \in Schedules \ updated, u = t
        PROVE  /\ row'[u].def.maxRuns = row'[u].maxRuns
               /\ row'[u].def.runCount = row'[u].runCount
               /\ ran'[u] <= row'[u].runCount + crashes'
               /\ row'[u].maxRuns # None => row'[u].runCount <= row'[u].maxRuns
    <3>1. /\ row[t].def.maxRuns = row[t].maxRuns /\ row[t].def.runCount = row[t].runCount
          /\ poll.seen[t].def.maxRuns = row[t].maxRuns
          /\ poll.seen[t].def.runCount = row[t].runCount
          /\ poll.seen[t].runCount = row[t].runCount
          /\ ran[t] <= row[t].runCount + crashes + 1
          /\ row[t].maxRuns # None => row[t].runCount < row[t].maxRuns
      BY <2>1, <2>2, <2>3, <2>6 DEF MaximumKept
    <3>2. row'[t].def # row[t].def
      BY <1>7, <3>1, DefinitionMoves
    <3>3. /\ row'[t].def.maxRuns = row'[t].maxRuns
          /\ row'[t].def.runCount = row'[t].runCount
          /\ row'[t].runCount = row[t].runCount + 1
      BY <2>1, <3>1, <3>2
    <3> QED
      BY <1>0, <2>1, <2>2, <2>6, <3>1, <3>3
  <2> QED
    <3> SUFFICES ASSUME NEW u \in Schedules \ updated, row'[u] # NoRow
                 PROVE  LET r == row'[u]
                            seen == poll'.seen[u]
                        IN  /\ r.def.maxRuns = r.maxRuns /\ r.def.runCount = r.runCount
                            /\ seen # NoRow => /\ seen.def.maxRuns = r.maxRuns
                                               /\ seen.def.runCount = r.runCount
                                               /\ seen.maxRuns = r.maxRuns
                                               /\ seen.runCount = r.runCount
                            /\ ran'[u] <= r.runCount + crashes'
                            /\ r.maxRuns # None => r.runCount <= r.maxRuns
      <4>1. \A v \in Schedules : row'[v] # NoRow => row'[v].runCount \in Nat
        BY <1>7, <2>1, <1>0, AdvanceStep DEF Row
      <4> QED
        BY <1>0, <2>2, <2>3, <4>1 DEF MaximumKept
    <3>1. CASE u = t
      BY <2>4, <2>6, <3>1
    <3>2. CASE u # t
      BY <2>5, <3>2
    <3> QED
      BY <3>1, <3>2
<1>8. CASE poll' = Between /\ UNCHANGED <<row, ran, updated>>
           /\ \/ crashes' = crashes /\ poll.pc # "ran"
              \/ crashes' = crashes + 1
  <2>1. \A s \in Schedules : /\ poll'.seen[s] = NoRow /\ Uncounted(s)' = 0
                             /\ crashes + Uncounted(s) <= crashes'
                             /\ Uncounted(s) \in {0, 1}
    BY <1>0, <1>8 DEF Between, NothingSeen, Uncounted
  <2>2. poll'.pc = "idle" /\ crashes' \in Nat
    BY <1>0, <1>8 DEF Between
  <2> QED
    BY <1>0, <1>8, <2>1, <2>2 DEF MaximumKept
<1> QED
  BY <1>1, <1>2, <1>3, <1>4, <1>5, <1>6, <1>7, <1>8
  DEF Next, Operate, Poll, Tick, Load, OperatorDies, Refuse, Fail, Crash, Head, history, vars

\* While its definition is not replaced, a schedule completes no more runs than
\* its maximum and the polls that died.
THEOREM RunsWithinMaximum == Spec => []WithinMaximum
<1>1. Init => PollHoldsRunnable /\ MaximumKept
  BY DEF Init, PollHoldsRunnable, MaximumKept, Between, NothingSeen
<1>2. TypeOK /\ MaximumKept => WithinMaximum
  <2> SUFFICES ASSUME TypeOK, MaximumKept, NEW s \in Schedules \ updated,
                      row[s] # NoRow, row[s].maxRuns # None
               PROVE  ran[s] <= row[s].maxRuns + crashes
    BY DEF WithinMaximum
  <2>1. /\ row[s].runCount \in Nat /\ row[s].maxRuns \in Nat /\ ran[s] \in Nat
        /\ crashes \in Nat
    BY RowsAreTyped DEF TypeOK, Row
  <2>2. /\ ran[s] <= row[s].runCount + crashes + Uncounted(s)
        /\ row[s].runCount <= row[s].maxRuns
        /\ poll.pc \in {"running", "ran"} /\ poll.cur = s => row[s].runCount < row[s].maxRuns
    BY DEF MaximumKept
  <2>3. CASE Uncounted(s) = 0
    BY <2>1, <2>2, <2>3
  <2>4. CASE poll.pc = "ran" /\ poll.cur = s /\ Uncounted(s) = 1
    BY <2>1, <2>2, <2>4
  <2> QED
    BY <2>3, <2>4 DEF Uncounted
<1> QED
  BY <1>1, <1>2, HeldRunnable, MaximumStep, SchedulesTypeCorrect, PTL DEF Spec

-----------------------------------------------------------------------------
(* Advancing. *)

\* The next run of a schedule that has run lies in the future.
LEMMA AdvancedIsFuture ==
  ASSUME NEW r \in Row, NEW t \in Time
  PROVE  Advanced(r, t).next = None \/ Advanced(r, t).next > t
<1>1. r.def \in Definition
  BY DEF Row
<1>2. NextRun(r.def, t) = None \/ NextRun(r.def, t) > t
  BY <1>1 DEF NextRun, Definition, Time
<1>3. Advanced(r, t).next = IF Reached(r.runCount + 1, r.maxRuns) THEN None ELSE NextRun(r.def, t)
  <2>1. \A st, en, df, nx, ct : [r EXCEPT !.runCount = ct, !.next = nx, !.def = df,
                                          !.enabled = en, !.status = st].next = nx
    BY DEF Row
  <2> QED
    BY <2>1 DEF Advanced
<1> QED
  BY <1>2, <1>3

\* What a poll holds was due by its column when it was listed.
HeldReached == \A s \in Schedules : poll.seen[s] # NoRow => poll.seen[s].next # None /\ poll.seen[s].next <= now

\* A poll that has advanced a schedule leaves it not due at that instant, even
\* if an operator has rewritten the row since it was listed.
THEOREM NotTwiceAtOnce == Spec => NeverTwiceAtOnce
<1>1. Init => HeldReached /\ PollHoldsRunnable
  BY DEF Init, HeldReached, PollHoldsRunnable, Between, NothingSeen
<1>2. TypeOK /\ HeldReached /\ [Next]_vars => HeldReached'
  <2> SUFFICES ASSUME TypeOK, HeldReached, [Next]_vars,
                      NEW s \in Schedules, poll'.seen[s] # NoRow
               PROVE  poll'.seen[s].next # None /\ poll'.seen[s].next <= now'
    BY DEF HeldReached
  <2>1. now \in Nat /\ now' \in {now, now + 1}
    BY DEF TypeOK, Time, Next, Tick, Operate, Poll, Create, Load, CommitChange,
           OperatorDies, ListDue, Dispatch, Refuse, Fail, Complete, Advance, Crash, vars
  <2>2. poll'.seen[s].next # None /\ poll'.seen[s].next <= now
    BY SeenStep DEF HeldReached, Selected
  <2>3. poll'.seen[s].next \in Nat
    <3>1. poll'.seen[s] \in Row
      BY NextType, RowsAreTyped, SeenStep, ScheduleConstants DEF TypeOK, PollType, RowOrNone
    <3> QED
      BY <2>2, <3>1 DEF Row, Time
  <2> QED
    BY <2>1, <2>2, <2>3
<1>3. TypeOK /\ PollHoldsRunnable /\ HeldReached /\ Advance => ~Selected(row'[poll.cur], now)
  <2> SUFFICES ASSUME TypeOK, PollHoldsRunnable, HeldReached, Advance
               PROVE  ~Selected(row'[poll.cur], now)
    OBVIOUS
  <2> DEFINE seen == poll.seen[poll.cur]
             next == Advanced(seen, now).next
  <2>1. poll.cur \in Schedules /\ seen \in Row /\ now \in Time
        /\ (next # seen.next => row'[poll.cur].next = next)
    BY AdvanceStep DEF TypeOK
  <2>2. next = None \/ next > now
    BY <2>1, AdvancedIsFuture
  <2>3. seen.next # None /\ seen.next <= now /\ seen.next \in Nat /\ now \in Nat
    BY <2>1, ScheduleConstants DEF HeldReached, Row, Time
  <2>4. next \in Nat \cup {None}
    BY <2>1, AdvancedRow DEF Row, Time
  <2> HIDE DEF next
  <2>5. next # seen.next
    BY <2>2, <2>3, <2>4
  <2>6. row'[poll.cur].next = next
    BY <2>1, <2>5
  <2> QED
    BY <2>2, <2>3, <2>4, <2>6 DEF Selected
<1>4. TypeOK /\ PollHoldsRunnable /\ HeldReached /\ [Next]_vars
        => [Advance => ~Selected(row'[poll.cur], now)]_vars
  BY <1>3
<1> QED
  BY <1>1, <1>2, <1>4, HeldRunnable, SchedulesTypeCorrect, PTL DEF Spec, NeverTwiceAtOnce
=============================================================================

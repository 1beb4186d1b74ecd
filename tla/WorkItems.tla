------------------------------ MODULE WorkItems ------------------------------
(***************************************************************************)
(* Projects and tasks of one owner (services/project.py, services/task.py) *)
(* as transactions over rows: reading a task for an update locks the task  *)
(* and, by the join, its project; a move locks the destination as well. An *)
(* archived project is read-only, and the names of the others differ.      *)
(***************************************************************************)
EXTENDS Integers, FiniteSets

CONSTANTS
    Projects, Tasks, Names,
    Clients,       \* requests under way
    MaxWork,       \* bound: requests in all
    NoProject, NoTask, NoName, Nobody

\* The statuses that are not completed behave alike.
TaskStatuses == {"todo", "completed"}
ProjectRow(p) == <<"project", p>>
TaskRowOf(t) == <<"task", t>>
Rows == {ProjectRow(p) : p \in Projects} \cup {TaskRowOf(t) : t \in Tasks}
TaskRow == [project : Projects, status : TaskStatuses, completedAt : BOOLEAN]

ASSUME WorkItemsAssumption ==
    /\ MaxWork \in Nat
    /\ NoProject \notin Projects /\ NoTask \notin Tasks
    /\ NoName \notin Names /\ Nobody \notin Clients

VARIABLES
    name,       \* [Projects -> the name, NoName before it is created]
    archived,   \* the archived projects
    task,       \* [Tasks -> the row, NoTask when there is none]
    locked,     \* [Rows -> the client that holds the row]
    client,     \* [Clients -> the request]
    frozen,     \* history: [Projects -> the project's tasks when it was archived]
    asked       \* how many requests there were

workItemsVars == <<name, archived, task, locked, client, frozen, asked>>

\* step, the task and project asked for, the project the task was read in,
\* the status or the name to be written.
WorkRequest ==
    [op : {"idle", "create_task", "update_task", "delete_task", "rename", "archive", "create"},
     step : {"idle", "task", "project", "destination", "check", "commit"},
     task : Tasks \cup {NoTask}, project : Projects \cup {NoProject},
     source : Projects \cup {NoProject}, status : TaskStatuses, name : Names \cup {NoName}]

NoRequestUnderWay ==
    [op |-> "idle", step |-> "idle", task |-> NoTask, project |-> NoProject,
     source |-> NoProject, status |-> "todo", name |-> NoName]

ProjectNames == Names \cup {NoName}

WorkItemsTypeOK ==
    /\ name \in [Projects -> ProjectNames]
    /\ archived \subseteq Projects
    /\ task \in [Tasks -> TaskRow \cup {NoTask}]
    /\ locked \in [Rows -> Clients \cup {Nobody}]
    /\ client \in [Clients -> WorkRequest]
    /\ frozen \in [Projects -> SUBSET (Tasks \X TaskRow)]
    /\ asked \in 0 .. MaxWork

WorkItemsInit ==
    /\ name = [p \in Projects |-> NoName] /\ archived = {}
    /\ task = [t \in Tasks |-> NoTask]
    /\ locked = [r \in Rows |-> Nobody]
    /\ client = [c \in Clients |-> NoRequestUnderWay]
    /\ frozen = [p \in Projects |-> {}]
    /\ asked = 0

Created(p) == name[p] # NoName
TasksOf(p) == {<<t, task[t]>> : t \in {u \in Tasks : task[u] # NoTask /\ task[u].project = p}}

\* The transaction ends: committed or rolled back, its locks are free.
EndWork(c) ==
    /\ client' = [client EXCEPT ![c] = NoRequestUnderWay]
    /\ locked' = [r \in DOMAIN locked |-> IF locked[r] = c THEN Nobody ELSE locked[r]]

RowFree(c, r) == locked[r] \in {c, Nobody}
Lock(c, r, step) ==
    /\ RowFree(c, r)
    /\ locked' = [locked EXCEPT ![r] = c]
    /\ client' = [client EXCEPT ![c].step = step]

-----------------------------------------------------------------------------
(* Requests arrive. A statement that locks a task starts from the project  *)
(* its snapshot shows.                                                      *)

Start(c, r) ==
    /\ client[c].op = "idle"
    /\ asked < MaxWork /\ asked' = asked + 1
    /\ client' = [client EXCEPT ![c] = r]
    /\ UNCHANGED <<name, archived, task, locked, frozen>>

AskTask(c, op, t, p, status) ==
    /\ task[t] # NoTask /\ Created(p)
    /\ Start(c, [NoRequestUnderWay EXCEPT !.op = op, !.step = "task", !.task = t,
                     !.project = p, !.source = task[t].project, !.status = status])

CreateTask(c, p, t, status) ==
    /\ task[t] = NoTask /\ Created(p)
    /\ \A d \in Clients : client[d].op = "create_task" => client[d].task # t
    /\ Start(c, [NoRequestUnderWay EXCEPT !.op = "create_task", !.step = "project", !.task = t,
                     !.project = p, !.source = p, !.status = status])

AskProject(c, op, p, n) ==
    /\ Created(p)
    /\ Start(c, [NoRequestUnderWay EXCEPT !.op = op, !.step = "project",
                     !.project = p, !.source = p, !.name = n])

CreateProject(c, p, n) ==
    /\ ~Created(p)
    /\ \A d \in Clients : client[d].op = "create" => client[d].project # p
    /\ Start(c, [NoRequestUnderWay EXCEPT !.op = "create", !.step = "check",
                     !.project = p, !.source = p, !.name = n])

-----------------------------------------------------------------------------
(* Locks.                                                                   *)

LockTask(c) ==
    /\ client[c].step = "task"
    /\ Lock(c, TaskRowOf(client[c].task), "project")
    /\ UNCHANGED <<name, archived, task, frozen, asked>>

\* The row is looked at again once it is locked: a task that was deleted or moved
\* while the statement waited is not found, an archived project refuses.
Found(r) ==
    r.op \in {"update_task", "delete_task"} =>
        task[r.task] # NoTask /\ task[r.task].project = r.source

\* Faulty variant of LockProject: the archived project is not refused.
LockAnyProject(c) ==
    /\ client[c].step = "project"
    /\ LET r == client[c]
       IN Found(r) /\ Lock(c, ProjectRow(r.source),
              IF r.op = "update_task" THEN "destination"
              ELSE IF r.op = "rename" THEN "check" ELSE "commit")
    /\ UNCHANGED <<name, archived, task, frozen, asked>>

LockProject(c) ==
    /\ client[c].step = "project"
    /\ LET r == client[c]
       IN /\ Found(r) /\ r.source \notin archived
          /\ Lock(c, ProjectRow(r.source),
                  IF r.op = "update_task" THEN "destination"
                  ELSE IF r.op = "rename" THEN "check" ELSE "commit")
    /\ UNCHANGED <<name, archived, task, frozen, asked>>

\* Not found, or read-only.
RefuseProject(c) ==
    /\ client[c].step = "project"
    /\ LET r == client[c] IN RowFree(c, ProjectRow(r.source)) /\ ~(Found(r) /\ r.source \notin archived)
    /\ EndWork(c)
    /\ UNCHANGED <<name, archived, task, frozen, asked>>

\* get_many_for_update: the source is already held.
LockDestination(c) ==
    /\ client[c].step = "destination" /\ client[c].project \notin archived
    /\ Lock(c, ProjectRow(client[c].project), "commit")
    /\ UNCHANGED <<name, archived, task, frozen, asked>>

RefuseDestination(c) ==
    /\ client[c].step = "destination" /\ client[c].project \in archived
    /\ RowFree(c, ProjectRow(client[c].project))
    /\ EndWork(c)
    /\ UNCHANGED <<name, archived, task, frozen, asked>>

\* The role does not allow it, there is nothing to change, the process dies, or
\* the database ends one of two requests that wait for each other: two moves in
\* opposite directions hold their sources, and LockDestination is never enabled.
RollBackWork(c) ==
    /\ client[c].step # "idle"
    /\ EndWork(c)
    /\ UNCHANGED <<name, archived, task, frozen, asked>>

-----------------------------------------------------------------------------
(* Names.                                                                   *)

Taken(n, p) == \E q \in Projects \ {p} : name[q] = n /\ q \notin archived

\* active_name_exists reads what is committed.
CheckName(c) ==
    /\ client[c].step = "check"
    /\ IF Taken(client[c].name, client[c].project)
       THEN EndWork(c)
       ELSE client' = [client EXCEPT ![c].step = "commit"] /\ UNCHANGED locked
    /\ UNCHANGED <<name, archived, task, frozen, asked>>

\* The partial unique index has the last word.
NameConflict(c) ==
    /\ client[c].step = "commit" /\ client[c].op \in {"create", "rename"}
    /\ Taken(client[c].name, client[c].project)
    /\ EndWork(c)
    /\ UNCHANGED <<name, archived, task, frozen, asked>>

CommitName(c) ==
    /\ client[c].step = "commit" /\ client[c].op \in {"create", "rename"}
    /\ ~Taken(client[c].name, client[c].project)
    /\ name' = [name EXCEPT ![client[c].project] = client[c].name]
    /\ EndWork(c)
    /\ UNCHANGED <<archived, task, frozen, asked>>

-----------------------------------------------------------------------------
(* Commits.                                                                 *)

CommitArchive(c) ==
    /\ client[c].step = "commit" /\ client[c].op = "archive"
    /\ archived' = archived \cup {client[c].project}
    /\ frozen' = [frozen EXCEPT ![client[c].project] = TasksOf(client[c].project)]
    /\ EndWork(c)
    /\ UNCHANGED <<name, task, asked>>

\* completed_at follows a change into and out of the completed status.
CompletedAt(t, status) ==
    IF status = "completed" THEN TRUE
    ELSE IF task[t] # NoTask /\ task[t].status = "completed" THEN FALSE
    ELSE task[t] # NoTask /\ task[t].completedAt

CommitTask(c) ==
    /\ client[c].step = "commit"
    /\ LET r == client[c]
       IN \/ /\ r.op \in {"create_task", "update_task"}
             /\ task' = [task EXCEPT ![r.task] =
                           [project |-> r.project, status |-> r.status,
                            completedAt |-> CompletedAt(r.task, r.status)]]
          \/ /\ r.op = "delete_task"
             /\ task' = [task EXCEPT ![r.task] = NoTask]
    /\ EndWork(c)
    /\ UNCHANGED <<name, archived, frozen, asked>>

WorkItemsNext ==
    \E c \in Clients :
        \/ \E t \in Tasks, p \in Projects, s \in TaskStatuses :
              AskTask(c, "update_task", t, p, s)
        \/ \E t \in Tasks, p \in Projects :
              task[t] # NoTask /\ p = task[t].project /\ AskTask(c, "delete_task", t, p, "todo")
        \/ \E t \in Tasks, p \in Projects, s \in TaskStatuses : CreateTask(c, p, t, s)
        \/ \E p \in Projects : AskProject(c, "archive", p, NoName)
        \/ \E p \in Projects, n \in Names : AskProject(c, "rename", p, n) \/ CreateProject(c, p, n)
        \/ LockTask(c) \/ LockProject(c) \/ RefuseProject(c)
        \/ LockDestination(c) \/ RefuseDestination(c) \/ RollBackWork(c)
        \/ CheckName(c) \/ NameConflict(c) \/ CommitName(c)
        \/ CommitArchive(c) \/ CommitTask(c)

WorkItemsSpec == WorkItemsInit /\ [][WorkItemsNext]_workItemsVars

-----------------------------------------------------------------------------
(* Properties.                                                              *)

\* What an archived project holds never changes again: no task is created in it,
\* moved out of it or into it, changed or deleted, however the requests overlap.
ArchivedStaysFrozen == \A p \in archived : TasksOf(p) = frozen[p]

\* Two projects that are not archived never share a name.
ActiveNamesDiffer ==
    \A p, q \in Projects \ archived : p # q /\ Created(p) => name[p] # name[q]

\* A completed task has its time, and no other task has one.
CompletionHasItsTime ==
    \A t \in Tasks : task[t] # NoTask => (task[t].completedAt <=> task[t].status = "completed")

\* A request that is about to commit still finds the task where it was read.
CommitsWhatItRead ==
    \A c \in Clients :
        client[c].step \in {"destination", "commit"} /\ client[c].op # "create" => Found(client[c])

\* Overlapping requests of one owner neither touch an archived project nor leave two
\* projects with one name (TaskService.update, ProjectService.archive).
WorkItemsSafe ==
    /\ WorkItemsTypeOK /\ ArchivedStaysFrozen /\ ActiveNamesDiffer
    /\ CompletionHasItsTime /\ CommitsWhatItRead
=============================================================================

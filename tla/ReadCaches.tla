----------------------------- MODULE ReadCaches -----------------------------
(***************************************************************************)
(* The in-process caches of computed views (services/cache.py): the        *)
(* dashboard's, whose readers say from which generation they computed, and *)
(* the CRM analytics', whose readers do not. A writer commits and then     *)
(* invalidates one cache after the other (services/crm.py); a reader that  *)
(* misses queries the database and stores what it computed later. Every    *)
(* operation of a cache holds its lock, so each is one step.               *)
(***************************************************************************)
EXTENDS Integers, FiniteSets

CONSTANTS
    Readers, Writers,
    MaxWrites,          \* bound: commits
    NoView              \* no entry

Caches == {"dashboard", "crm"}
ASSUME CachesAssumption == MaxWrites \in Nat /\ NoView \notin Nat

VARIABLES
    data,         \* the committed writes, counted: what a view is computed from
    entry,        \* [Caches -> the view of one key]
    namespace,    \* [Caches -> _namespace]
    invalidated,  \* history: [Caches -> data at the last invalidation]
    reader,       \* [Readers -> the view being computed]
    writer        \* [Writers -> caches still to be invalidated]

cacheVars == <<data, entry, namespace, invalidated, reader, writer>>

View == 0 .. MaxWrites
Reading == [cache : Caches, stage : {"away", "missed", "computed"},
            generation : Nat, view : View \cup {NoView}]
Away == [cache |-> "dashboard", stage |-> "away", generation |-> 0, view |-> NoView]

CachesTypeOK ==
    /\ data \in View
    /\ entry \in [Caches -> View \cup {NoView}]
    /\ namespace \in [Caches -> Nat]
    /\ invalidated \in [Caches -> View]
    /\ reader \in [Readers -> Reading]
    /\ writer \in [Writers -> SUBSET Caches]

CachesInit ==
    /\ data = 0
    /\ entry = [c \in Caches |-> NoView]
    /\ namespace = [c \in Caches |-> 0] /\ invalidated = [c \in Caches |-> 0]
    /\ reader = [r \in Readers |-> Away] /\ writer = [w \in Writers |-> {}]

\* get finds nothing (or is skipped, with refresh); the generation is read before
\* the database is.
Miss(r, c) ==
    /\ reader[r].stage = "away"
    /\ reader' = [reader EXCEPT ![r] =
                   [cache |-> c, stage |-> "missed", generation |-> namespace[c],
                    view |-> NoView]]
    /\ UNCHANGED <<data, entry, namespace, invalidated, writer>>

Compute(r) ==
    /\ reader[r].stage = "missed"
    /\ reader' = [reader EXCEPT ![r].stage = "computed", ![r].view = data]
    /\ UNCHANGED <<data, entry, namespace, invalidated, writer>>

\* Faulty variant of SameGeneration: set stores whatever it is given.
AnyGeneration(c, generation) == TRUE

\* InMemoryDashboardCache.set refuses a view of another generation.
SameGeneration(c, generation) == generation = namespace[c]
Admits(c, generation) == c = "dashboard" => SameGeneration(c, generation)

Store(r) ==
    /\ reader[r].stage = "computed"
    /\ LET c == reader[r].cache
       IN entry' = IF Admits(c, reader[r].generation)
                   THEN [entry EXCEPT ![c] = reader[r].view] ELSE entry
    /\ reader' = [reader EXCEPT ![r] = Away]
    /\ UNCHANGED <<data, namespace, invalidated, writer>>

\* ttl_seconds have passed.
Lapse(c) ==
    /\ entry[c] # NoView
    /\ entry' = [entry EXCEPT ![c] = NoView]
    /\ UNCHANGED <<data, namespace, invalidated, reader, writer>>

Write(w) ==
    /\ writer[w] = {} /\ data < MaxWrites
    /\ data' = data + 1
    /\ writer' = [writer EXCEPT ![w] = Caches]
    /\ UNCHANGED <<entry, namespace, invalidated, reader>>

\* The dashboard first.
Invalidate(w, c) ==
    /\ c \in writer[w] /\ (c = "crm" => "dashboard" \notin writer[w])
    /\ namespace' = [namespace EXCEPT ![c] = @ + 1]
    /\ entry' = [entry EXCEPT ![c] = NoView]
    /\ invalidated' = [invalidated EXCEPT ![c] = data]
    /\ writer' = [writer EXCEPT ![w] = @ \ {c}]
    /\ UNCHANGED <<data, reader>>

CachesNext ==
    \/ \E r \in Readers : Compute(r) \/ Store(r) \/ \E c \in Caches : Miss(r, c)
    \/ \E c \in Caches : Lapse(c)
    \/ \E w \in Writers : Write(w) \/ \E c \in Caches : Invalidate(w, c)

CachesSpec == CachesInit /\ [][CachesNext]_cacheVars

-----------------------------------------------------------------------------
(* The dashboard never serves a view older than its last invalidation,     *)
(* however a reader's computation overlaps the writes                      *)
(* (InMemoryDashboardCache.set, AnalyticsService.dashboard).               *)
DashboardFresh ==
    entry["dashboard"] # NoView => entry["dashboard"] >= invalidated["dashboard"]

CachesSafe == CachesTypeOK /\ DashboardFresh
=============================================================================

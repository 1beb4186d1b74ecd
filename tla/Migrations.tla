----------------------------- MODULE Migrations ------------------------------
(* The migrations of the PostgreSQL database (src/app/database/migrations)     *)
(* while the release of the current revision goes on writing. env.py runs the   *)
(* whole way to the target in one transaction, so what a migration does is      *)
(* kept in `draft` until it commits; the program sees `db`. A deployment runs   *)
(* `alembic upgrade head` before it replaces the running release                *)
(* (railway.toml), and an operator may downgrade.                               *)
EXTENDS DataModel

CONSTANTS
    MaxRecords,      \* records kept at a time
    NoMigration      \* no migration under way

VARIABLES
    db,              \* what is committed: schema and records
    revision,        \* how many revisions of the chain the database has
    migration,       \* the migration under way and its draft of the database
    settled,         \* a trade was settled at some time
    impossible       \* a migration met a schema its operation does not fit

migrationVars == <<db, revision, migration, settled, impossible>>

\* The members of a sequence applied one after the other (the FoldLeft of
\* SequencesExt, whose other definitions no theorem about these modules needs).
InOrder(op(_, _), start, seq) ==
    LET after[n \in 0..Len(seq)] == IF n = 0 THEN start ELSE op(after[n - 1], seq[n])
    IN after[Len(seq)]

\* A function with one more value, unless it has one there (f @@ (x :> y)).
WithMore(f, x, y) == [z \in DOMAIN f \cup {x} |-> IF z \in DOMAIN f THEN f[z] ELSE y]

\* ---- Records of the running release ------------------------------------------
\* The tables a record is in, the kind of its audit row and of its notice. Twins
\* and rivals are records an index would bar; they are not audited here.
NoKind == ""
Audited(tables, entity, action, notice) ==
    [tables |-> tables, entity |-> entity, action |-> action, notice |-> notice]
Plain(table) == Audited({table}, NoKind, NoKind, NoKind)
Written ==
    [task |-> Audited({"tasks"}, "task", "status_change", "task_assigned"),
     deal |-> Audited({"crm_deals"}, "deal", "stage_change", "deal_stage_changed"),
     draft |-> Audited({"outreach_drafts"}, "email_draft", "update",
                       "outreach_approval_requested"),
     observation |-> Audited({"data_feed_observations"}, "data_feed_observation", "create",
                             NoKind),
     diagnostic |-> Audited({}, "voice_authorization_diagnostic", "read", NoKind),
     withdrawal |-> Audited({"withdrawal_requests"}, "withdrawal", "create", NoKind),
     account_read |-> Audited({}, "account", "read", NoKind),
     document |-> Audited({"customer_documents"}, "document", "create", NoKind),
     trade |-> Audited({"settled_trades", "financial_transactions", "financial_accounts",
                        "ledger_entries"}, "trade", "create", NoKind),
     twin_projects |-> Plain("projects"),
     twin_emails |-> Plain("users"),
     rival_pipelines |-> Plain("crm_pipelines")]
Records == DOMAIN Written
IsAudited(r) == Written[r].entity # NoKind
IsNoticed(r) == Written[r].notice # NoKind
TablesOf(r) == Written[r].tables \cup (IF IsAudited(r) THEN {"audit_logs"} ELSE {})
                                 \cup (IF IsNoticed(r) THEN {"notifications"} ELSE {})

\* ---- Operations on a database --------------------------------------------------
EmptyDb == [tables |-> [t \in {} |-> NoRefs], columns |-> {}, uniques |-> {},
            checks |-> {}, rows |-> {}, audit |-> {}, notices |-> {}]
HasTable(t, d) == t \in DOMAIN d.tables
HasColumns(t, cs, d) == \A c \in cs : <<t, c>> \in d.columns
PointedAt(t, d) ==
    \E u \in DOMAIN d.tables \ {t} : \E c \in DOMAIN d.tables[u] : d.tables[u][c].table = t

\* What PostgreSQL asks of the schema.
Fits(op, d) ==
    CASE op.do = "create" ->
           ~HasTable(op.table, d) /\ \A c \in DOMAIN op.refs :
               op.refs[c].table = op.table \/ HasTable(op.refs[c].table, d)
      [] op.do = "drop" -> HasTable(op.table, d) /\ ~PointedAt(op.table, d)
      [] op.do = "rebuild" -> HasTable(op.table, d) /\ ~PointedAt(op.table, d)
      [] op.do = "add columns" ->
           HasTable(op.table, d) /\ \A c \in op.columns : ~HasColumns(op.table, {c}, d)
      [] op.do = "drop columns" -> HasTable(op.table, d) /\ HasColumns(op.table, op.columns, d)
      [] op.do = "reference" ->
           HasTable(op.table, d) /\ HasTable(op.ref.table, d)
           /\ op.column \notin DOMAIN d.tables[op.table]
      [] op.do = "unreference" ->
           HasTable(op.table, d) /\ op.column \in DOMAIN d.tables[op.table]
      [] op.do = "unique" -> HasTable(op.table, d) /\ \A u \in d.uniques : u.index # op.index
      [] op.do = "drop unique" -> \E u \in d.uniques : u.index = op.index
      [] op.do \in {"check", "index"} -> HasTable(op.table, d)
      [] OTHER -> TRUE

\* What it asks of the rows.
Kind(check, r) ==
    CASE check = "audit_entity" -> Written[r].entity
      [] check = "audit_action" -> Written[r].action
      [] check = "notification_type" -> Written[r].notice
Checked(check, d) == IF check = "notification_type" THEN d.notices ELSE d.audit
AcceptsRows(op, d) ==
    CASE op.do = "unique" -> op.bars \notin d.rows
      [] op.do = "check" -> \A r \in Checked(op.check, d) : Kind(op.check, r) \in op.values
      [] op.do = "require" -> op.none \cap d.rows = {}
      [] OTHER -> TRUE

\* What it does: a dropped table takes its columns, indexes, CHECKs and rows along.
Dropped(t, d) ==
    [tables |-> [u \in DOMAIN d.tables \ {t} |-> d.tables[u]],
     columns |-> {x \in d.columns : x[1] # t},
     uniques |-> {u \in d.uniques : u.table # t},
     checks |-> {c \in d.checks : c.table # t},
     rows |-> {r \in d.rows : t \notin Written[r].tables},
     audit |-> IF t = "audit_logs" THEN {} ELSE d.audit,
     notices |-> IF t = "notifications" THEN {} ELSE d.notices]
Done(op, d) ==
    CASE op.do = "create" -> [d EXCEPT !.tables = WithMore(@, op.table, op.refs)]
      [] op.do = "create if missing" -> [d EXCEPT !.tables = WithMore(@, op.table, op.refs)]
      [] op.do = "drop" -> Dropped(op.table, d)
      [] op.do = "drop if present" -> Dropped(op.table, d)
      [] op.do = "add columns" -> [d EXCEPT !.columns = @ \cup ({op.table} \X op.columns)]
      [] op.do = "drop columns" -> [d EXCEPT !.columns = @ \ ({op.table} \X op.columns)]
      [] op.do = "reference" -> [d EXCEPT !.tables[op.table] = WithMore(@, op.column, op.ref)]
      [] op.do = "unreference" ->
           [d EXCEPT !.tables[op.table] = [c \in DOMAIN @ \ {op.column} |-> @[c]]]
      [] op.do = "unique" ->
           [d EXCEPT !.uniques =
               @ \cup {[table |-> op.table, index |-> op.index, bars |-> op.bars]}]
      [] op.do = "drop unique" -> [d EXCEPT !.uniques = {u \in @ : u.index # op.index}]
      [] op.do = "check" ->
           [d EXCEPT !.checks = {c \in @ : c.check # op.check} \cup
               {[table |-> op.table, check |-> op.check, values |-> op.values]}]
      [] op.do = "erase audit" ->
           [d EXCEPT !.audit = {r \in @ : Written[r].entity \notin op.entities}]
      [] OTHER -> d

\* Tables closed to the program's writes until the migration ends.
Locks(op) ==
    CASE op.do = "create" -> {op.refs[c].table : c \in DOMAIN op.refs}
      [] op.do = "reference" -> {op.table, op.ref.table}
      [] op.do \in {"require", "erase audit"} -> {}
      [] OTHER -> {op.table}

\* One part of a revision: a refused operation ends the migration.
Perform(s, op) ==
    IF s.outcome # "done" THEN s
    ELSE IF ~Fits(op, s.db) THEN [s EXCEPT !.outcome = "impossible"]
    ELSE IF ~AcceptsRows(op, s.db) THEN [s EXCEPT !.outcome = "refused"]
    ELSE [s EXCEPT !.db = Done(op, s.db), !.locked = @ \cup Locks(op)]
Performed(ops, start, held) ==
    InOrder(Perform, [db |-> start, locked |-> held, outcome |-> "done"], ops)

\* ---- Actions -----------------------------------------------------------------
MigrationsInit ==
    /\ db = EmptyDb
    /\ revision = 0
    /\ migration = NoMigration
    /\ settled = FALSE
    /\ impossible = FALSE

Migrating == migration # NoMigration

\* alembic upgrade +1 or head, downgrade -1 or base.
BeginMigration(target) ==
    /\ ~Migrating
    /\ target \in ({revision - 1, revision + 1, 0, LastRevision} \ {revision})
                  \cap (0..LastRevision)
    /\ migration' = [target |-> target, at |-> revision, part |-> 1, draft |-> db,
                     locked |-> {}]
    /\ UNCHANGED <<db, revision, settled, impossible>>

Upwards == migration.target > migration.at
PartsOf(r, up) == IF up THEN Revisions[r + 1].up ELSE Revisions[r].down
Parts == PartsOf(migration.at, Upwards)
Performance == Performed(Parts[migration.part], migration.draft, migration.locked)

\* The next part of the way to the target.
Alter ==
    /\ Migrating /\ migration.at # migration.target
    /\ Performance.outcome = "done"
    /\ migration' = [migration EXCEPT
                       !.draft = Performance.db, !.locked = Performance.locked,
                       !.part = IF @ < Len(Parts) THEN @ + 1 ELSE 1,
                       !.at = IF migration.part < Len(Parts) THEN @
                              ELSE IF Upwards THEN @ + 1 ELSE @ - 1]
    /\ UNCHANGED <<db, revision, settled, impossible>>

CommitMigration ==
    /\ Migrating /\ migration.at = migration.target
    /\ db' = migration.draft
    /\ revision' = migration.target
    /\ migration' = NoMigration
    /\ UNCHANGED <<settled, impossible>>

\* Each revision on its own.
RefuseKeepingTheWay ==
    /\ Migrating /\ migration.at # migration.target
    /\ Performance.outcome # "done"
    /\ db' = migration.draft
    /\ migration' = NoMigration
    /\ UNCHANGED <<revision, settled, impossible>>

\* An operation the database refuses ends the transaction, the way gone included.
Refuse ==
    /\ Migrating /\ migration.at # migration.target
    /\ Performance.outcome # "done"
    /\ impossible' = (impossible \/ Performance.outcome = "impossible")
    /\ migration' = NoMigration
    /\ UNCHANGED <<db, revision, settled>>

Die ==
    /\ Migrating
    /\ migration' = NoMigration
    /\ UNCHANGED <<db, revision, settled, impossible>>

\* The running release commits a record, with its audit row and its notice: its
\* tables are there and no migration holds them, and no CHECK or index refuses it.
Kept(r, d) ==
    [d EXCEPT !.rows = IF Written[r].tables # {} THEN @ \cup {r} ELSE @,
              !.audit = IF IsAudited(r) THEN @ \cup {r} ELSE @,
              !.notices = IF IsNoticed(r) THEN @ \cup {r} ELSE @]
Save(r) ==
    /\ r \notin db.rows \cup db.audit /\ Cardinality(db.rows \cup db.audit) < MaxRecords
    /\ \A t \in TablesOf(r) : HasTable(t, db)
    /\ \A u \in db.uniques : u.bars # r
    /\ IsAudited(r) => \A c \in db.checks :
          c.check # "notification_type" \/ IsNoticed(r) => Kind(c.check, r) \in c.values
    /\ Migrating => TablesOf(r) \cap migration.locked = {}
    /\ db' = Kept(r, db)
    /\ migration' = IF Migrating THEN [migration EXCEPT !.draft = Kept(r, @)] ELSE migration
    /\ settled' = (settled \/ r = "trade")
    /\ UNCHANGED <<revision, impossible>>

\* "An earlier manually-applied deployment" made the table before its revision.
MakeMarketPrices ==
    /\ ~Migrating /\ revision < LastRevision
    /\ Revisions[revision + 1].up = <<UpMarketPrices>>
    /\ ~HasTable("market_prices", db) /\ db.rows \cup db.audit = {}
    /\ db' = [db EXCEPT !.tables = WithMore(@, "market_prices", NoRefs)]
    /\ UNCHANGED <<revision, migration, settled, impossible>>

MigrationsNext ==
    \/ \E target \in 0..LastRevision : BeginMigration(target)
    \/ Alter \/ CommitMigration \/ Refuse \/ Die
    \/ \E r \in Records : Save(r)
    \/ MakeMarketPrices

MigrationsSpec == MigrationsInit /\ [][MigrationsNext]_migrationVars

\* ---- Schemas -------------------------------------------------------------------
\* What databases become by one part, and the schema that each revision has when the
\* chain is run on an empty database.
Become(dbs, ops) == {Performed(ops, d, {}).db : d \in dbs}
SchemaOf(r) ==
    CHOOSE d \in InOrder(LAMBDA dbs, rev : InOrder(Become, dbs, rev.up),
                         {EmptyDb}, SubSeq(Revisions, 1, r)) : TRUE
Schemas == [r \in 0..LastRevision |-> SchemaOf(r)]
Shape(d) == [tables |-> d.tables, columns |-> d.columns, uniques |-> d.uniques,
             checks |-> d.checks]
WithoutPrices(tables) == [t \in DOMAIN tables \ {"market_prices"} |-> tables[t]]
WithPrices(d) == [d EXCEPT !.tables = WithMore(@, "market_prices", NoRefs)]
BeforePrices(r) == \A i \in 1..r : Revisions[i].up # <<UpMarketPrices>>

\* The schemas a database at revision r may have, and those a migration finds before
\* each part of the way up or down from r.
SchemasAt(r) ==
    {Schemas[r]} \cup (IF BeforePrices(r) THEN {WithPrices(Schemas[r])} ELSE {})
SchemasOnWay(r, up) ==
    LET ops == PartsOf(r, up)
        before[n \in 1..Len(ops)] ==
            IF n = 1 THEN SchemasAt(r)
            ELSE Become(before[n - 1], ops[n - 1])
    IN before

\* Every record has its tables, and no trace of a record is left without it.
Placed(d) ==
    /\ \A r \in d.rows : Written[r].tables # {} /\ Written[r].tables \subseteq DOMAIN d.tables
    /\ \A r \in d.audit : IsAudited(r) /\ HasTable("audit_logs", d)
    /\ \A r \in d.notices : IsNoticed(r) /\ HasTable("notifications", d)
Traced(d) == \A r \in d.audit \cup d.notices : Written[r].tables # {} => r \in d.rows
HasTrade(d) == "trade" \in d.rows /\ "trade" \in d.audit

\* A schema with nothing in it but some of the rows of one record.
Holding(d, r) ==
    {[d EXCEPT !.rows = x, !.audit = y, !.notices = z] : x, y, z \in {{}, {r}}}

\* What a part of a migration does to a record that is alone in the database: it is
\* refused, or leaves no trace without its record and keeps a settled trade.
KeepsRecord(ops, d) ==
    LET end == Performed(ops, d, {})
    IN end.outcome = "done" => /\ Placed(end.db) /\ Traced(end.db)
                               /\ HasTrade(d) => HasTrade(end.db)

\* Each part of the way up or down from a revision fits the schemas it can find, and
\* ends in the one that the next part, or the revision it leads to, expects; and it
\* keeps each record.
WayIsSound(r, up) ==
    LET ops == PartsOf(r, up)
        way == SchemasOnWay(r, up)
    IN /\ Len(ops) \in Nat \ {0} /\ SchemasAt(r) \subseteq way[1]
       /\ \A n \in 1..Len(ops) :
            /\ Len(ops[n]) \in Nat
            /\ \A d \in way[n] :
                 /\ Performed(ops[n], d, {}).outcome = "done"
                 /\ Performed(ops[n], d, {}).db \in
                       IF n < Len(ops) THEN way[n + 1]
                       ELSE SchemasAt(IF up THEN r + 1 ELSE r - 1)
                 /\ \A s \in Records : \A e \in Holding(d, s) :
                      Placed(e) /\ Traced(e) => KeepsRecord(ops[n], e)

\* The chain of the repository, revision by revision.
ChainIsSound ==
    /\ \A r \in 0..LastRevision - 1 : WayIsSound(r, TRUE)
    /\ \A r \in 1..LastRevision : WayIsSound(r, FALSE)
    /\ \A r \in 0..LastRevision :
         IF BeforePrices(r) THEN WithoutPrices(Schemas[r].tables) = Schemas[r].tables
         ELSE HasTable("market_prices", Schemas[r])
    /\ Schemas[0] = EmptyDb
    /\ Schemas[LastRevision].tables = MappedTables /\ ~BeforePrices(LastRevision)
    /\ {<<c.check, c.values>> : c \in Schemas[LastRevision].checks} =
          {<<"audit_entity", AuditEntity>>, <<"audit_action", AuditAction>>,
           <<"notification_type", NotificationType>>}

\* Neither a constant nor a variable is in it: TLC settles it by evaluating it once.
ASSUME ChainAssumption == ChainIsSound

\* ---- Properties ----------------------------------------------------------------
\* Whatever way led to a revision, refused and broken migrations and downgrades
\* included, its schema is the one the chain builds from nothing, save for market
\* prices made by hand before their revision (versions/*.py, env.py).
SchemaIsOfRevision ==
    ~Migrating =>
        IF BeforePrices(revision)
        THEN Shape([db EXCEPT !.tables = WithoutPrices(@)]) = Shape(Schemas[revision])
        ELSE Shape(db) = Shape(Schemas[revision])

\* The last revision has the tables, foreign keys and enumerations of the mapped
\* classes (database/models).
HeadIsTheModel ==
    ~Migrating /\ revision = LastRevision =>
        /\ db.tables = MappedTables
        /\ {<<c.check, c.values>> : c \in db.checks} =
              {<<"audit_entity", AuditEntity>>, <<"audit_action", AuditAction>>,
               <<"notification_type", NotificationType>>}

\* "financial history must not be deleted" (0026): a settled trade outlives every
\* migration, the trade that commits after the downgrade has looked included.
TradesOutlive == settled => "trade" \in db.rows

\* No migration removes records and leaves the audit rows and the notices about them.
TracesHaveRecords ==
    \A r \in db.audit \cup db.notices : Written[r].tables # {} => r \in db.rows

\* No step of the chain, upwards or downwards, finds a schema it does not fit.
ChainFits == ~impossible

MigrationsSafe ==
    /\ SchemaIsOfRevision /\ HeadIsTheModel /\ TradesOutlive /\ TracesHaveRecords /\ ChainFits
=============================================================================

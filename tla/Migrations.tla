----------------------------- MODULE Migrations -----------------------------
(***************************************************************************)
(* The start of the application on the database of any earlier release:    *)
(* initialize_database applies the migrations that the ledger does not     *)
(* list, and the process may be stopped between any two statements.        *)
(*                                                                         *)
(* The driver opens the transaction that engine.begin() commits at the     *)
(* first INSERT or UPDATE.  A CREATE, ALTER or DROP before that is durable *)
(* at once; one after it goes with the transaction.                        *)
(***************************************************************************)
EXTENDS Integers, SequencesExt

CONSTANT MaxKills  \* bound: processes stopped while they start

ASSUME KillsAssumption == MaxKills \in Nat

VARIABLES
  file,      \* the database file
  view,      \* the database as the connection sees it
  writing,   \* the transaction is open
  todo,      \* statements left of the migration that is being applied
  start,     \* "down", "up" while it starts, "serving"
  kills,
  held       \* history: the tables that had rows before

startVars == <<file, view, writing, todo, start, kills, held>>

-----------------------------------------------------------------------------
(* The schema.  <<t, 0, 0>> is table t; <<t, v, i>> is the i-th column or  *)
(* index, or foreign key, that migration v gives to it.  Indexes that a    *)
(* table has from its first version are not followed one by one.           *)

Table(t) == <<t, 0, 0>>
Things(t, v, n) == {<<t, v, i>> : i \in 1..n}

\* What every version has made when it has been applied.
Made == <<
  {Table(t) : t \in {"customers", "connections", "assets", "audit", "outbox"}},
  Things("connections", 2, 3) \union {Table("secrets")},
  Things("assets", 3, 1) \union {Table(t) : t \in {"batch_policies", "batch_state", "cursors"}},
  {Table("edit_policies"), Table("edit_state")},
  {Table(t) : t \in {"tasks", "requests", "jobs", "versions"}},
  Things("versions", 6, 2) \union {Table("edits")},
  Things("jobs", 7, 2),
  Things("customers", 8, 4)
    \union {Table(t) : t \in {"administrators", "links", "admin_sessions", "sessions"}},
  Things("tasks", 9, 7) \union {Table("saved"), Table("records")},
  Things("tasks", 10, 2),
  Things("tasks", 11, 1),
  Things("outbox", 12, 4)
    \union {Table(t) : t \in {"channel", "people", "rules", "snapshots", "deliveries"}},
  Things("outbox", 13, 3),
  Things("requests", 14, 2),
  Things("jobs", 15, 2) \union Things("edits", 15, 2),
  Things("batch_state", 16, 2),
  Things("connections", 17, 1) \union Things("assets", 17, 2) \union Things("requests", 17, 4)
    \union Things("jobs", 17, 1) \union Things("edits", 17, 1)
    \union Things("edit_policies", 17, 3),
  Things("assets", 18, 1) \union Things("requests", 18, 1) \union Things("jobs", 18, 1),
  {},
  Things("snapshots", 20, 2),
  Things("rules", 21, 1) \union Things("snapshots", 21, 1),
  Things("connections", 22, 2),
  Things("tasks", 23, 2),
  Things("requests", 24, 2) >>

Releases == 1..Len(Made)
Schema(n) == UNION {Made[v] : v \in 1..n}

\* uq_design_tasks_customer_domain_open, from v0009 to v0011.
OpenByDomain == <<"tasks", 9, 8>>

\* Indexes that only migrations make.
SqlOnly == {<<"tasks", 9, 7>>, <<"tasks", 10, 2>>, <<"tasks", 11, 1>>, <<"outbox", 12, 3>>,
            <<"outbox", 12, 4>>, <<"outbox", 13, 3>>}

\* Of the models, too: create() makes them one by one after the table.
ModelIndexes ==
  {<<"versions", 6, 2>>, <<"jobs", 7, 2>>, <<"assets", 17, 2>>, <<"connections", 22, 2>>}

\* A table that is created from the models has all of today's columns and indexes.
Model(t) == {x \in Schema(Len(Made)) : x[1] = t} \ SqlOnly

\* rows, temps, copied: the tables with their rows; those being rebuilt that have a
\* temporary table; whose rows are in it.
Database(things, rows, ledger) ==
  [things |-> things, rows |-> rows, temps |-> {}, copied |-> {}, ledger |-> ledger]

-----------------------------------------------------------------------------
(* The statements.                                                         *)

Statement(does, table, things) == [does |-> does, table |-> table, things |-> things]

\* Each looks first whether the thing is there.
Add(x) == Statement("add", x[1], {x})
Adds(t, v, n) == [i \in 1..n |-> Add(<<t, v, i>>)]

\* Table.create(checkfirst=True): CREATE TABLE, CREATE INDEX .., for each table; for
\* one that is there, neither.
Creates(t) == Statement("model", t, {})
Indexes(t) ==
  Statement("index", t, IF Table(t) \in view.things THEN {} ELSE Model(t) \intersect ModelIndexes)
FromModels(tables) ==
  [i \in 1..(2 * Len(tables)) |-> IF i % 2 = 1 THEN Creates(tables[(i + 1) \div 2])
                                               ELSE Indexes(tables[i \div 2])]
FromSql(tables) == [i \in DOMAIN tables |-> Add(Table(tables[i]))]
Write == <<Statement("write", "", {})>>

\* Mutant: the old table is dropped before its rows are copied.
RebuildEmpty(t, columns, indexes) ==
  << Statement("create", t, {}), Statement("drop", t, {}), Statement("copy", t, {}),
     Statement("rename", t, columns), Statement("index", t, indexes) >>

\* CREATE t_new; INSERT .. SELECT; DROP t; RENAME t_new; CREATE INDEX ..
Rebuild(t, columns, indexes) ==
  << Statement("create", t, {}), Statement("copy", t, {}), Statement("drop", t, {}),
     Statement("rename", t, columns), Statement("index", t, indexes) >>

\* _rebuild_table of v0018: the columns it lists, its indexes as they were, if they
\* were.
Repaired(t, columns, indexes) ==
  IF <<t, 18, 1>> \in view.things \/ ~(columns \subseteq view.things) THEN << >>
  ELSE Rebuild(t, columns \union {<<t, 18, 1>>}, indexes \intersect view.things)

V0001 == FromModels(<<"customers", "connections", "assets", "audit", "outbox">>)
V0002 == Adds("connections", 2, 3) \o FromModels(<<"secrets">>)
V0003 == Adds("assets", 3, 1) \o FromModels(<<"batch_policies", "batch_state", "cursors">>)
V0004 == FromModels(<<"edit_policies", "edit_state">>)
V0005 == FromModels(<<"tasks", "requests", "jobs", "versions">>)
V0006 == FromModels(<<"edits">>)
           \o IF <<"versions", 6, 1>> \in view.things THEN << >>
              ELSE Rebuild("versions", {<<"versions", 6, 1>>}, {<<"versions", 6, 2>>})
V0007 == IF <<"jobs", 7, 1>> \in view.things THEN << >>
         ELSE Rebuild("jobs", {<<"jobs", 7, 1>>}, {<<"jobs", 7, 2>>})
V0008 == Adds("customers", 8, 4) \o Write
           \o FromModels(<<"administrators", "links", "admin_sessions", "sessions">>)
V0009 == FromModels(<<"saved", "records">>) \o Adds("tasks", 9, 7) \o <<Add(OpenByDomain)>>
V0010 == Adds("tasks", 10, 2)
V0011 == <<Statement("unindex", "tasks", {OpenByDomain})>> \o Write \o Write
           \o Adds("tasks", 11, 1)
V0012 == FromSql(<<"channel", "people", "rules", "snapshots", "deliveries">>)
           \o Adds("outbox", 12, 4) \o Write
V0013 == Adds("outbox", 13, 3)
V0014 == Adds("requests", 14, 2) \o Write
V0015 == Adds("jobs", 15, 2) \o Adds("edits", 15, 2)
V0016 == Adds("batch_state", 16, 2)
V0017 == Adds("connections", 17, 1) \o Adds("assets", 17, 2) \o Adds("requests", 17, 4)
           \o Adds("jobs", 17, 1) \o Adds("edits", 17, 1) \o Adds("edit_policies", 17, 3)

\* _TABLES of v0018: the columns listed there; their indexes stay as they were.
RepairedAssets ==
  Repaired("assets", {<<"assets", 3, 1>>, <<"assets", 17, 1>>}, {<<"assets", 17, 2>>})
RepairedRequests ==
  Repaired("requests", Things("requests", 14, 2) \union Things("requests", 17, 4), {})
RepairedJobs ==
  Repaired("jobs", {<<"jobs", 7, 1>>} \union Things("jobs", 15, 2) \union Things("jobs", 17, 1),
           {<<"jobs", 7, 2>>})
V0018 == RepairedAssets \o RepairedRequests \o RepairedJobs
V0019 == Write
V0020 == Adds("snapshots", 20, 2)
V0021 == Adds("rules", 21, 1) \o Adds("snapshots", 21, 1)

\* The index is made in the branch that adds the column.
V0022 == IF <<"connections", 22, 1>> \in view.things THEN << >> ELSE Adds("connections", 22, 2)
V0023 == Adds("tasks", 23, 2) \o Write
V0024 == Adds("requests", 24, 2)

\* The statements of a migration, by what it finds.
Upgrade(v) ==
  << V0001, V0002, V0003, V0004, V0005, V0006, V0007, V0008, V0009, V0010, V0011, V0012,
     V0013, V0014, V0015, V0016, V0017, V0018, V0019, V0020, V0021, V0022, V0023, V0024 >>[v]

\* The database after a statement; "record" writes a version in the ledger.
After(s, d) ==
  CASE s.does \in {"add", "index"} -> [d EXCEPT !.things = @ \union s.things]
    [] s.does = "unindex" -> [d EXCEPT !.things = @ \ s.things]
    [] s.does = "model" /\ Table(s.table) \in d.things -> d
    [] s.does = "model" /\ Table(s.table) \notin d.things ->
         [d EXCEPT !.things = @ \union {Table(s.table)} \union (Model(s.table) \ ModelIndexes)]
    [] s.does = "write" -> d
    [] s.does = "record" -> [d EXCEPT !.ledger = @ \union s.things]
    [] s.does = "create" -> [d EXCEPT !.temps = @ \union {s.table}]
    [] s.does = "copy" -> [d EXCEPT !.copied = @ \union ({s.table} \intersect d.rows)]
    [] s.does = "drop" -> [d EXCEPT !.things = {x \in @ : x[1] # s.table},
                                    !.rows = @ \ {s.table}]
    [] s.does = "rename" -> [d EXCEPT !.things = @ \union {Table(s.table)} \union s.things,
                                      !.rows = @ \union ({s.table} \intersect d.copied),
                                      !.temps = @ \ {s.table}, !.copied = @ \ {s.table}]

\* A temporary table that is there already is not created again.
Fails(s, d) == s.does = "create" /\ s.table \in d.temps

\* INSERT and UPDATE
Opens(s) == s.does \in {"write", "copy", "record"}

-----------------------------------------------------------------------------

Tables(things) == {x[1] : x \in things}

\* The database an earlier release has left, with rows in every table; or no file.
MigrationsInit ==
  /\ \E n \in {0} \union Releases :
       file = Database(Schema(n) \union {x \in {OpenByDomain} : n \in 9..10},
                       Tables(Schema(n)), 1..n)
  /\ view = file
  /\ held = file.rows
  /\ writing = FALSE
  /\ todo = << >>
  /\ start = "down"
  /\ kills = 0

Starts ==
  /\ start = "down"
  /\ start' = "up"
  /\ view' = file
  /\ todo' = << >>
  /\ writing' = FALSE
  /\ UNCHANGED <<file, kills, held>>

Pending == Releases \ view.ledger

\* The first migration that the ledger does not list, and its line in the ledger.
BeginsMigration ==
  /\ start = "up" /\ todo = << >> /\ Pending # {}
  /\ \E v \in Pending :
       /\ \A w \in Pending : v <= w
       /\ todo' = Append(Upgrade(v), Statement("record", "", {v}))
  /\ UNCHANGED <<file, view, writing, start, kills, held>>

Executes ==
  /\ start = "up" /\ todo # << >>
  /\ ~Fails(Head(todo), view)
  /\ view' = After(Head(todo), view)
  /\ writing' = (writing \/ Opens(Head(todo)))
  /\ file' = IF writing' THEN file ELSE view'
  /\ todo' = Tail(todo)
  /\ UNCHANGED <<start, kills, held>>

\* OperationalError: rolled back, and the application does not start.
StatementFails ==
  /\ start = "up" /\ todo # << >>
  /\ Fails(Head(todo), view)
  /\ start' = "down"
  /\ UNCHANGED <<file, view, writing, todo, kills, held>>

\* engine.begin() commits; the administrator and the seed customer are then made
\* if they are missing.
Serves ==
  /\ start = "up" /\ todo = << >> /\ Pending = {}
  /\ file' = view
  /\ writing' = FALSE
  /\ start' = "serving"
  /\ UNCHANGED <<view, todo, kills, held>>

Killed ==
  /\ start = "up" /\ kills < MaxKills
  /\ kills' = kills + 1
  /\ start' = "down"
  /\ UNCHANGED <<file, view, writing, todo, held>>

MigrationsNext ==
  Starts \/ BeginsMigration \/ Executes \/ StatementFails \/ Serves \/ Killed

MigrationsSpec == MigrationsInit /\ [][MigrationsNext]_startVars

\* A process that went down is started again.
MigrationsFairSpec ==
  /\ MigrationsSpec
  /\ WF_startVars(Starts \/ BeginsMigration \/ Executes \/ StatementFails \/ Serves)

-----------------------------------------------------------------------------
(* Properties.                                                             *)

\* The types of what changes with the steps.
MigrationsTypeOK ==
  /\ \A d \in {file, view} :
       /\ d.things \subseteq Schema(Len(Made)) \union {OpenByDomain}
       /\ d.ledger \subseteq Releases
       /\ d.rows \union d.temps \union d.copied \subseteq Tables(Schema(Len(Made)))
  /\ writing \in BOOLEAN
  /\ start \in {"down", "up", "serving"}
  /\ kills \in 0..MaxKills

\* Indexes that a database may lack for good.  A stop between CREATE TABLE and CREATE
\* INDEX of a model leaves the table without, and create() passes it over from then
\* on; v0006 and v0007 make theirs only with the column, which the model's table has.
\* Nor does v0022, after a stop between its ALTER TABLE and CREATE INDEX.
MayLack == {<<"versions", 6, 2>>, <<"jobs", 7, 2>>, <<"connections", 22, 2>>}

\* Wherever the start of a new release is stopped, the file has every row it had,
\* and every table, column and index that a version in its ledger is to have made;
\* but for the indexes of MayLack, and for those a model's table has from its first
\* version, which the same stop leaves unmade and which are not followed here.
UpgradeLosesNothing ==
  /\ held \subseteq file.rows
  /\ \A v \in file.ledger : Made[v] \ MayLack \subseteq file.things

\* What does not hold, for each of the three.
IndexIsMade == \A x \in MayLack : x[2] \in file.ledger => x \in file.things

\* A stop between CREATE TABLE .._v0006, .._v0007 or .._v0018 and the INSERT that
\* follows leaves a table that every later start fails to create.
AlwaysServes == <>(start = "serving")

=============================================================================

------------------------------ MODULE Automigrate ------------------------------
(***************************************************************************)
(* `sqddl automigrate` on Postgres (src/ddl/automigrate_cmd.go): a run     *)
(* compares the database with the declared catalog, and makes the database *)
(* what was declared, by a migration that MigrateCmd runs at once without  *)
(* a history table (SkipHistoryTable).  `generate` writes the same files   *)
(* to disk (src/ddl/generate_cmd.go), for `migrate` to run.                *)
(*                                                                         *)
(* One file of the migration is one transaction, but for an index, which   *)
(* is created CONCURRENTLY, outside of any.  A file fails if the database  *)
(* refuses a statement (Refused), if the rows do not fit (DependsOnRows),  *)
(* or if it cannot get a lock; the run ends there, and what was committed  *)
(* stays.                                                                  *)
(***************************************************************************)
EXTENDS PostgresMigration

CONSTANTS
  Declared,   \* the catalogs that a run may be given
  Existing,   \* the databases that it may find
  Flags,      \* the flags it may be given, of "drop-objects" and "accept-warnings"
  Version,    \* Postgres' major version
  Faults,     \* what may go wrong: "rows", "interrupt"
  MaxRuns     \* bound: invocations of automigrate

ASSUME AutomigrateAssumption ==
  /\ \A c \in Declared \cup Existing : IsCatalog(c)
  /\ Flags \subseteq SUBSET {"drop-objects", "accept-warnings"}
  /\ Version \in Nat
  /\ Faults \subseteq {"rows", "interrupt"}
  /\ MaxRuns \in Nat

VARIABLES
  db,       \* the database, as committed
  work,     \* the database as the open transaction sees it
  dest,     \* cmd.DestCatalog
  flags,    \* those of cmd.DropObjects and cmd.AcceptWarnings that are set
  todo,     \* the steps of the migration that are left
  ran,      \* the steps that the open transaction has run
  outcome,  \* how the last run ended; "running" while it has not
  broken,   \* some run stopped half-way
  runs      \* how many runs there have been

vars == <<db, work, dest, flags, todo, ran, outcome, broken, runs>>

Init ==
  /\ db \in Existing
  /\ work = db
  /\ dest = EmptyCatalog
  /\ flags = {}
  /\ todo = {}
  /\ ran = {}
  /\ outcome = "none"
  /\ broken = FALSE
  /\ runs = 0

\* cmd.Run up to MigrateCmd: nothing is run if there are warnings nobody accepted.
Run(d, f) ==
  LET plan == Migration(db, d, "drop-objects" \in f, Version)
      warned == Warnings(db, d, Version) # {} /\ "accept-warnings" \notin f
  IN /\ outcome # "running"
     /\ runs < MaxRuns
     /\ runs' = runs + 1
     /\ dest' = d
     /\ flags' = f
     /\ IF plan # {} /\ warned
        THEN outcome' = "warned" /\ todo' = {}
        ELSE outcome' = "running" /\ todo' = plan
     /\ UNCHANGED <<db, work, ran, broken>>

\* The step that comes next, unless the file it is in has to wait for a COMMIT.
Next1(x) ==
  /\ outcome = "running"
  /\ x \in todo
  /\ \A y \in todo : x = y \/ Before(x, y)
  /\ \A y \in ran : y.file = x.file

Execute(x) ==
  /\ Next1(x)
  /\ ~Refused(work, x.stmt)
  /\ work' = Effect(work, x.stmt)
  /\ todo' = todo \ {x}
  /\ ran' = ran \cup {x}
  /\ UNCHANGED <<db, dest, flags, outcome, broken, runs>>

Commit ==
  /\ ran # {}
  /\ \A x \in todo : \A y \in ran : x.file # y.file
  /\ db' = work
  /\ ran' = {}
  /\ UNCHANGED <<work, dest, flags, todo, outcome, broken, runs>>

\* A run ends before its end: the transaction is rolled back, the rest never runs.
Stop(why, left) ==
  /\ outcome' = why
  /\ broken' = TRUE
  /\ db' = left
  /\ work' = left
  /\ todo' = {}
  /\ ran' = {}
  /\ UNCHANGED <<dest, flags, runs>>

Refuse(x) == Next1(x) /\ Refused(work, x.stmt) /\ Stop("refused", db)

\* An index that was being created concurrently stays, and is invalid.
Remains(x) ==
  IF x.stmt.op = "create index" /\ ~Refused(db, x.stmt)
  THEN {db, Effect(db, [x.stmt EXCEPT !.object.valid = FALSE])}
  ELSE {db}

\* The rows are not such that the statement succeeds.
FailOnRows(x) ==
  /\ "rows" \in Faults
  /\ Next1(x)
  /\ ~Refused(work, x.stmt)
  /\ DependsOnRows(x.stmt)
  /\ \E left \in Remains(x) : Stop("failed", left)

\* The process or its connection dies, or a lock cannot be had in MaxAttempts attempts.
Interrupt ==
  /\ "interrupt" \in Faults
  /\ outcome = "running"
  /\ \/ Stop("failed", db)
     \/ \E x \in todo : Next1(x) /\ \E left \in Remains(x) : Stop("failed", left)

Finish ==
  /\ outcome = "running"
  /\ todo = {}
  /\ ran = {}
  /\ outcome' = "ok"
  /\ UNCHANGED <<db, work, dest, flags, todo, ran, broken, runs>>

Migrating == Commit \/ Finish \/ \E x \in todo : Execute(x) \/ Refuse(x)

Next ==
  \/ \E d \in Declared, f \in Flags : Run(d, f)
  \/ Migrating
  \/ \E x \in todo : FailOnRows(x)
  \/ Interrupt

Spec == Init /\ [][Next]_vars

-----------------------------------------------------------------------------
(* Properties *)

Outcomes == {"none", "running", "warned", "refused", "failed", "ok"}

TypeOK ==
  /\ IsCatalog(db) /\ IsCatalog(work)
  /\ dest \in Declared \cup {EmptyCatalog}
  /\ flags \in SUBSET {"drop-objects", "accept-warnings"}
  /\ outcome \in Outcomes
  /\ outcome # "running" => todo = {} /\ ran = {}
  /\ ran = {} => work = db
  /\ broken \in BOOLEAN
  /\ runs \in 0 .. MaxRuns

\* c has all the tables and the columns of d.
Holds(c, d) ==
  /\ d.tables \subseteq c.tables
  /\ \A x \in d.columns : \E y \in c.columns : y.table = x.table /\ y.name = x.name

\* Without -drop-objects no table and no column is ever lost, wherever a run stops
\* ("Whether statements like DROP TABLE, DROP COLUMN, etc should be generated").
KeepsWithoutDrop == [][Holds(db', db) \/ "drop-objects" \in flags]_vars

\* Spelling out the default collation does not make a column another one.
Columns(c) == {[x EXCEPT !.collation = CollationOf(x)] : x \in c.columns}

\* A run that ends well has made the database what was declared: all that was declared
\* is there, as declared, and with -drop-objects nothing else is.
Reached ==
  outcome = "ok" /\ ~broken =>
    /\ dest.tables \subseteq db.tables
    /\ Columns(dest) \subseteq Columns(db)
    /\ dest.constraints \subseteq db.constraints
    /\ dest.indexes \subseteq db.indexes
    /\ db.checks = {}
    /\ "drop-objects" \in flags =>
         /\ db.tables = dest.tables
         /\ Columns(db) = Columns(dest)
         /\ db.constraints = dest.constraints
         /\ db.indexes = dest.indexes

\* The statements are in an order in which Postgres takes them all, whatever the
\* database was, unless a run that stopped half-way left something behind.
NeverRefused == [][outcome' = "refused" /\ outcome # "refused" => broken \/ "drop-objects" \notin flags]_vars

\* Without -accept-warnings no table that was there before is read through, or written
\* anew, while others are locked out of it ("they can be run against a database without
\* blocking normal DML (SELECT, INSERT, UPDATE, DELETE) for too long", "if there is
\* anything potentially unsafe, a warning will be generated").
StaysOnline ==
  [][\A x \in ran' \ ran :
       Scans(work, x.stmt) /\ x.stmt.table \in db.tables /\ "accept-warnings" \notin flags =>
         /\ ~Locks(x.stmt)
         /\ \A y \in ran : y.stmt.table = x.stmt.table => ~Locks(y.stmt)]_vars

-----------------------------------------------------------------------------
(* Catalogs for which StaysOnline holds, whatever else is in them          *)

Same(x, y) == x.table = y.table /\ x.name = y.name

IsColumn(x) ==
  /\ {"table", "name", "type", "notNull"} \subseteq DOMAIN x
  /\ x.table \in Nat \X Nat /\ x.name \in Nat /\ x.notNull \in BOOLEAN
  /\ {"base", "arg1", "arg2"} \subseteq DOMAIN x.type
  /\ x.type.arg1 \in Nat /\ x.type.arg2 \in Nat

IsRef(k) ==
  /\ {"table", "refTable", "type", "columns"} \subseteq DOMAIN k
  /\ k.table \in Nat \X Nat /\ k.refTable \in Nat \X Nat

\* Columns have tables, and names of their own.
Whole(c) ==
  /\ IsCatalog(c)
  /\ c.tables \subseteq Nat \X Nat
  /\ \A x \in c.columns : IsColumn(x) /\ x.table \in c.tables
  /\ \A x, y \in c.columns : Same(x, y) => x = y
  /\ \A k \in c.constraints : IsRef(k)

AnyColumn == UNION {c.columns : c \in Declared \cup Existing}

\* In some catalog the column is nullable.
NullableSomewhere(y) == \E x \in AnyColumn : Same(x, y) /\ ~x.notNull

\* The columns of the primary keys are declared, and NOT NULL.  ColumnsAreDifferent does
\* not see it if that of a key of one column was nullable: it must be NOT NULL anywhere.
KeysAreNotNull(d) ==
  \A k \in Keys(d) : k.type = PRIMARY_KEY =>
    \A n \in k.columns :
      \E y \in d.columns : /\ y.table = k.table /\ y.name = n /\ y.notNull
                           /\ k.columns = {n} => ~NullableSomewhere(y)

\* Of the columns of a table one at most becomes NOT NULL.
OneNotNull(d) ==
  \A x, y \in d.columns :
    x.table = y.table /\ x.notNull /\ y.notNull /\ NullableSomewhere(x) /\ NullableSomewhere(y) => x = y

\* UnsafeType takes no limit for 0: a type that had no limit must not get one, and the
\* scale of a NUMERIC must not go.
KeepsLimits(x, y) ==
  x.base = y.base /\ x.base \in {"VARCHAR", "NUMERIC"} /\ y.arg1 # 0 =>
    x.arg1 # 0 /\ (y.arg2 = 0 => x.arg2 = 0)

LimitsAreKept(d) ==
  \A x \in AnyColumn, y \in d.columns : Same(x, y) => KeepsLimits(x.type, y.type)

CatalogsAreWhole == \A c \in Declared \cup Existing : Whole(c)

CatalogsAreEven == \A d \in Declared : KeysAreNotNull(d) /\ OneNotNull(d) /\ LimitsAreKept(d)
=============================================================================

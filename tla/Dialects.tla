------------------------------- MODULE Dialects -------------------------------
(***************************************************************************)
(* `sqddl automigrate` and `sqddl wipe` on MySQL, SQLite and SQL Server    *)
(* (src/ddl/automigrate_cmd.go, src/ddl/wipe_cmd.go), by any number of     *)
(* processes (Automigrate has the Postgres side, in more detail).          *)
(*                                                                         *)
(* What is run at once, or not at all, is a unit: on SQLite and SQL Server *)
(* a file, which is a transaction; on MySQL a statement.  A process may    *)
(* fail at any unit.  On MySQL the undo script of the file is run then.    *)
(***************************************************************************)
EXTENDS Statements, Sequences

CONSTANTS
  Procs,      \* processes that may run sqddl
  Dialects,   \* of "mysql", "sqlite" and "sqlserver"
  Catalogs,   \* for each dialect, the catalogs that may be declared
  Existing,   \* for each dialect, the databases that a process may find
  Flags,      \* the flags of automigrate: some of {}, {"drop-objects"}, ...
  Faults,     \* what may go wrong: "fail", "crash"
  MaxRuns     \* bound: invocations of automigrate or wipe

ASSUME DialectsAssumption ==
  /\ Dialects \subseteq {"mysql", "sqlite", "sqlserver"}
  /\ \A d \in Dialects : \A c \in Catalogs[d] \cup Existing[d] : IsCatalog(c) /\ IsSound(c)
  /\ Flags \subseteq SUBSET {"drop-objects", "accept-warnings"}
  /\ MaxRuns \in Nat

VARIABLES
  dialect,  \* cmd.Dialect
  db,       \* the database
  rows,     \* the columns <<table, name>> in which there are values of users
  dest,     \* of each process: cmd.DestCatalog
  flags,    \* of each process: the flags it was given; "wipe" if it is that
  plan,     \* of each process: the steps of its migration
  todo,     \* of each process: those that are left
  outcome,  \* of each process: how its last run ended; "running" while it has not
  runs      \* how many runs there have been

vars == <<dialect, db, rows, dest, flags, plan, todo, outcome, runs>>

MySQL == INSTANCE MysqlMigration
SQLite == INSTANCE SqliteMigration
SQLServer == INSTANCE SqlserverMigration

-----------------------------------------------------------------------------
(* The commands: cmd.Run up to the first statement                         *)

\* What the introspection finds.  MySQL's index of a foreign key does not show.
Introspected(c) ==
  IF dialect # "mysql" THEN c
  ELSE [c EXCEPT !.indexes = {i \in @ : \A k \in c.constraints : k.table # i.table \/ k.name # i.name}]

Migration(src, d, drop) ==
  CASE dialect = "mysql" -> MySQL!Migration(src, d, drop)
    [] dialect = "sqlite" -> SQLite!Migration(src, d, drop)
    [] dialect = "sqlserver" -> SQLServer!Migration(src, d, drop)

Warnings(src, d) ==
  CASE dialect = "mysql" -> MySQL!Warnings(src, d)
    [] dialect = "sqlite" -> {}
    [] dialect = "sqlserver" -> SQLServer!Warnings(src, d)

Panics(src, d, drop) == dialect = "sqlserver" /\ SQLServer!Panics(src, d, drop)

Idle(p) == outcome[p] # "running" /\ runs < MaxRuns

Start(p, d, f, steps) ==
  /\ dest' = [dest EXCEPT ![p] = d]
  /\ flags' = [flags EXCEPT ![p] = f]
  /\ plan' = [plan EXCEPT ![p] = steps]
  /\ todo' = [todo EXCEPT ![p] = steps]
  /\ runs' = runs + 1
  /\ UNCHANGED <<dialect, db, rows>>

\* Nothing is run if there are warnings nobody accepted.
Run(p, d, f) ==
  LET src == Introspected(db)
      steps == Migration(src, d, "drop-objects" \in f)
      stops == \/ Panics(src, d, "drop-objects" \in f)
               \/ steps # {} /\ Warnings(src, d) # {} /\ "accept-warnings" \notin f
  IN /\ Idle(p)
     /\ outcome' = [outcome EXCEPT ![p] = IF stops THEN "stopped" ELSE "running"]
     /\ Start(p, d, f, IF stops THEN {} ELSE steps)

\* Mutant: tables are dropped with the foreign keys still there.
WipeTablesOnly(c) == {Step(<<1>>, <<2>> \o t, On("drop table", t)) : t \in c.tables}

\* Foreign keys first, lest they be in the way of the tables.
WipeSteps(c) ==
  {Step(<<1>>, <<1>> \o k.table \o <<k.name>>, Named("drop constraint", k.table, k.name))
   : k \in {f \in ForeignKeys(c) : dialect # "sqlite"}} \cup
  {Step(<<1>>, <<2>> \o t, On("drop table", t)) : t \in c.tables}

Wipe(p) ==
  /\ Idle(p)
  /\ outcome' = [outcome EXCEPT ![p] = "running"]
  /\ Start(p, EmptyCatalog, {"drop-objects", "wipe"}, WipeSteps(Introspected(db)))

-----------------------------------------------------------------------------
(* The servers.  Of all that they refuse, what would be wrong to let pass.  *)

Rejects(c, s) ==
  \/ /\ s.op \notin {"create table", "drop table", "create schema", "drop schema"}
     /\ s.table \notin c.tables
  \/ CASE s.op = "create table" -> s.table \in c.tables
       [] s.op = "drop table" ->
            dialect # "sqlite" /\ \E f \in ForeignKeys(c) : f.refTable = s.table /\ f.table # s.table
       [] s.op = "drop constraint" -> \A k \in c.constraints : k.table # s.table \/ k.name # s.name
       [] s.op = "drop index" -> \A i \in c.indexes : i.table # s.table \/ i.name # s.name
       [] s.op = "drop column" ->
            /\ dialect # "mysql"
            /\ \E x \in c.indexes \cup c.constraints : x.table = s.table /\ s.name \in x.columns
       [] s.op = "add column" -> s.name \in ColumnNames(c, s.table)
       [] s.op = "create index" -> \E i \in c.indexes : i.table = s.table /\ i.name = s.name
       [] s.op \in {"add key", "add foreign key"} ->
            \/ \E k \in c.constraints : k.table = s.table /\ k.name = s.object.name
            \/ s.op = "add foreign key" /\ s.object.refTable \notin c.tables
            \/ /\ dialect = "sqlserver" /\ s.object.type = PRIMARY_KEY
               /\ \E x \in c.columns : x.table = s.table /\ x.name \in s.object.columns /\ ~x.notNull
       [] s.op \in {"modify column", "alter column", "set default"} -> s.name \notin ColumnNames(c, s.table)
       [] OTHER -> FALSE

\* Whole tables, or columns: a table that is copied becomes as declared, one that loses a
\* column on MySQL keeps its indexes on the others.
Replaced(c, s) ==
  CASE s.op = "copy table" ->
         [WithoutTables(c, {s.table}) EXCEPT
            !.tables = @ \cup {s.table},
            !.columns = @ \cup s.object.columns,
            !.constraints = {k \in c.constraints : k.table # s.table} \cup s.object.constraints,
            !.indexes = @ \cup s.object.indexes]
    [] s.op = "drop column" ->
         LET Rest(S) == {x \in {IF y.table = s.table THEN [y EXCEPT !.columns = @ \ {s.name}] ELSE y : y \in S} :
                           x.columns # {}}
         IN [c EXCEPT !.columns = {x \in @ : x.table # s.table \/ x.name # s.name},
                      !.constraints = Rest(@), !.indexes = Rest(@)]
    [] s.op = "modify column" ->
         [c EXCEPT !.columns = {IF x.table = s.table /\ x.name = s.name THEN s.object ELSE x : x \in @}]
    [] s.op = "alter column" ->
         [c EXCEPT !.columns = {IF x.table = s.table /\ x.name = s.name
                                THEN [x EXCEPT !.type = s.object.type, !.collation = s.object.collation,
                                               !.notNull = s.object.notNull]
                                ELSE x : x \in @}]

\* A foreign key gets an index of its name, unless its columns have one.
WithIndex(c, k) ==
  IF \E i \in c.indexes \cup Keys(c) : i.table = k.table /\ i.columns = k.columns THEN c
  ELSE [c EXCEPT !.indexes = @ \cup {Index(k.table, k.name, k.columns, FALSE)}]

EffectOf(c, s) ==
  CASE \/ s.op \in {"copy table", "modify column", "alter column"}
       \/ s.op = "drop column" /\ dialect = "mysql" -> Replaced(c, s)
    [] s.op = "drop index" -> [c EXCEPT !.indexes = {i \in @ : i.table # s.table \/ i.name # s.name}]
    [] s.op = "add foreign key" /\ dialect = "mysql" -> WithIndex(Effect(c, s), s.object)
    [] OTHER -> Effect(c, s)

\* Before it drops a table, SQLite deletes its rows, and so, foreign keys being enforced,
\* the rows of others that refer to them by a foreign key that cascades.
Cascaded(c, s) ==
  {f.table : f \in {k \in ForeignKeys(c) : /\ dialect = "sqlite"
                                           /\ s.op \in {"copy table", "drop table"}
                                           /\ k.cascade /\ k.refTable = s.table /\ k.table # s.table}}

\* The values that are left of r.
ValuesAfter(c, r, s) ==
  {v \in r : /\ \E x \in EffectOf(c, s).columns : <<x.table, x.name>> = v
             /\ v[1] \notin Cascaded(c, s)
             /\ s.op = "copy table" /\ v[1] = s.table => v[2] \in s.object.copied}

-----------------------------------------------------------------------------

Init ==
  /\ dialect \in Dialects
  /\ db \in {IF dialect = "sqlite" THEN SQLite!Renamed(c) ELSE c : c \in Existing[dialect]}
  /\ rows = {<<x.table, x.name>> : x \in db.columns}
  /\ dest = [p \in Procs |-> EmptyCatalog]
  /\ flags = [p \in Procs |-> {}]
  /\ plan = [p \in Procs |-> {}]
  /\ todo = [p \in Procs |-> {}]
  /\ outcome = [p \in Procs |-> "none"]
  /\ runs = 0

\* One that is after no other.
FirstOf(steps) == CHOOSE x \in steps : \A y \in steps : ~Before(y, x)

First(p) == FirstOf(todo[p])

\* On MySQL, the schemas and the tables are statements of one file, and so is a wipe; all
\* other files are one statement.
Unit(p) ==
  IF dialect = "mysql" /\ ("wipe" \in flags[p] \/ First(p).file \in {<<2>>, <<3>>})
  THEN {First(p)}
  ELSE {x \in todo[p] : x.file = First(p).file}

\* The next of the steps that are left of a unit, unless one was refused before.
RunNext(b) ==
  LET s == FirstOf(b.left).stmt
  IN IF ~b.ok \/ Rejects(b.db, s) THEN [b EXCEPT !.ok = FALSE]
     ELSE [left |-> b.left \ {FirstOf(b.left)},
           db |-> EffectOf(b.db, s),
           rows |-> ValuesAfter(b.db, b.rows, s),
           ok |-> TRUE]

\* The database, the values and whether all went well, after the steps of a unit.
After(unit) ==
  LET after[n \in 0 .. Cardinality(unit)] ==
        IF n = 0 THEN [left |-> unit, db |-> db, rows |-> rows, ok |-> TRUE] ELSE RunNext(after[n - 1])
  IN after[Cardinality(unit)]

Execute(p) ==
  /\ outcome[p] = "running"
  /\ todo[p] # {}
  /\ LET after == After(Unit(p))
     IN after.ok /\ db' = after.db /\ rows' = after.rows
  /\ todo' = [todo EXCEPT ![p] = @ \ Unit(p)]
  /\ UNCHANGED <<dialect, dest, flags, plan, outcome, runs>>

\* Mutant: the error is noted, the rest is run.
GoOn(p, why) ==
  /\ outcome' = [outcome EXCEPT ![p] = why]
  /\ UNCHANGED <<dialect, dest, flags, plan, todo, runs>>

Stop(p, why) ==
  /\ outcome' = [outcome EXCEPT ![p] = why]
  /\ todo' = [todo EXCEPT ![p] = {}]
  /\ UNCHANGED <<dialect, dest, flags, plan, runs>>

\* The undo script of the file that failed, on MySQL.  wipe has none.
UndoStatements(p) ==
  IF dialect = "mysql" /\ "wipe" \notin flags[p]
  THEN MySQL!Undo(plan[p], dest[p], First(p).file) ELSE {}

Undone(p) ==
  /\ db' = WithoutTables(db, {t \in db.tables :
                                \E s \in UndoStatements(p) : \/ s.op = "drop table" /\ s.table = t
                                                             \/ s.op = "drop schema" /\ Schema(s.table) = Schema(t)})
  /\ rows' = {v \in rows : v[1] \in db'.tables}

Refuse(p) ==
  /\ outcome[p] = "running"
  /\ todo[p] # {}
  /\ ~After(Unit(p)).ok
  /\ Stop(p, "refused")
  /\ Undone(p)

\* For whatever else the server refuses: the rows, a lock.
Fail(p) ==
  /\ "fail" \in Faults
  /\ outcome[p] = "running"
  /\ todo[p] # {}
  /\ Stop(p, "failed")
  /\ Undone(p)

\* The process or its connection dies; nobody runs an undo script.
Crash(p) ==
  /\ "crash" \in Faults
  /\ outcome[p] = "running"
  /\ Stop(p, "failed")
  /\ UNCHANGED <<db, rows>>

Finish(p) ==
  /\ outcome[p] = "running"
  /\ todo[p] = {}
  /\ outcome' = [outcome EXCEPT ![p] = "ok"]
  /\ UNCHANGED <<dialect, db, rows, dest, flags, plan, todo, runs>>

\* Users fill a table.
Insert(t) ==
  /\ t \in db.tables
  /\ rows' = rows \cup {<<t, n>> : n \in ColumnNames(db, t)}
  /\ UNCHANGED <<dialect, db, dest, flags, plan, todo, outcome, runs>>

Migrating(p) == Execute(p) \/ Refuse(p) \/ Finish(p)

Next ==
  \/ \E p \in Procs :
       \/ \E d \in Catalogs[dialect], f \in Flags : Run(p, d, f)
       \/ Wipe(p)
       \/ Migrating(p)
       \/ Fail(p)
       \/ Crash(p)
  \/ \E t \in db.tables : Insert(t)

Spec == Init /\ [][Next]_vars

-----------------------------------------------------------------------------
(* Properties *)

TypeOK ==
  /\ dialect \in Dialects
  /\ IsCatalog(db)
  /\ rows \subseteq {<<x.table, x.name>> : x \in db.columns}
  /\ \A p \in Procs : todo[p] \subseteq plan[p] /\ (outcome[p] # "running" => todo[p] = {})
  /\ outcome \in [Procs -> {"none", "running", "stopped", "refused", "failed", "ok"}]

\* What automigrate knows of a column.  SQL Server's nullability, identity and collation,
\* and SQLite's collation, are not brought in line with the declaration.
Known(x) ==
  CASE dialect = "mysql" -> [x EXCEPT !.collation = CollationOf(x)]
    [] dialect = "sqlite" -> [x EXCEPT !.collation = "", !.identity = FALSE]
    [] dialect = "sqlserver" -> [x EXCEPT !.collation = "", !.identity = FALSE, !.notNull = FALSE]

Columns(c) == {Known(x) : x \in c.columns}

\* Whether a foreign key is DEFERRABLE is not compared.
Constraints(c) == {[k EXCEPT !.deferral = "NOT DEFERRABLE"] : k \in c.constraints}

\* On MySQL the index of a foreign key stays when that is dropped, until the next run.
LeftBehind ==
  {i \in db.indexes : dialect = "mysql" /\ \E c \in Catalogs[dialect] : \E k \in ForeignKeys(c) :
                        k.table = i.table /\ k.name = i.name}

\* A run that ends well, whatever runs before it did and wherever they failed, has made
\* the database what was declared: all that was declared is there, and with -drop-objects
\* nothing else is, but for the columns of a table in which only columns were to be
\* dropped; after a wipe nothing is.  On SQLite, only what does not take a copy of the table
\* is done without -drop-objects.
Reached ==
  \A p \in Procs : outcome[p] = "ok" =>
    LET c == Introspected(db)
        d == IF dialect = "sqlite" THEN SQLite!Renamed(dest[p]) ELSE dest[p]
    IN /\ d.tables \subseteq c.tables
       /\ \A x \in d.columns : x.name \in ColumnNames(c, x.table)
       /\ d.indexes \subseteq c.indexes
       /\ dialect # "sqlite" \/ "drop-objects" \in flags[p] =>
            Columns(d) \subseteq Columns(c) /\ Constraints(d) \subseteq Constraints(c)
       /\ "drop-objects" \in flags[p] =>
            /\ c.tables = d.tables
            /\ \A x \in c.columns : \/ Known(x) \in Columns(d)
                                  \/ \A y \in plan[p] : y.stmt.table # x.table
            /\ Constraints(c) = Constraints(d)
            /\ c.indexes \subseteq d.indexes \cup LeftBehind

\* No run takes away values that are not in a column that it was to drop, or in a table
\* that it created itself ("Whether
\* statements like DROP TABLE, DROP COLUMN, etc should be generated"; "building an
\* entirely new table, copying data over, then renaming the new table into the old table").
ValuesKept ==
  [][\A v \in rows \ rows' :
       \E p \in Procs :
         /\ outcome[p] = "running"
         /\ \/ /\ "drop-objects" \in flags[p]
               /\ \A x \in dest[p].columns : <<x.table, x.name>> # v
            \/ \E x \in plan[p] \ todo[p] : x.stmt.op = "create table" /\ x.stmt.table = v[1]]_vars

\* A wipe finds nothing in its way.
WipeNeverRefused == \A p \in Procs : "wipe" \in flags[p] => outcome[p] # "refused"
=============================================================================

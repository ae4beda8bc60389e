------------------------------ MODULE Statements ------------------------------
(***************************************************************************)
(* The statements that the migrations of sqddl are made of, and what a     *)
(* Postgres server does with them: which ones it refuses, what the others  *)
(* change, and which of them read a table through under a lock.  The       *)
(* database is a catalog; rows are not modelled.                           *)
(***************************************************************************)
EXTENDS Catalog

\* A statement on a table, on something of that name in it, or with a new object.
On(op, t) == [op |-> op, table |-> t]
Named(op, t, n) == [op |-> op, table |-> t, name |-> n]
With(op, t, x) == [op |-> op, table |-> t, name |-> x.name, object |-> x]

\* A step of a migration: a statement, its file, its place in the file.
Step(file, at, stmt) == [file |-> file, at |-> at, stmt |-> stmt]

Before(x, y) ==
  \/ Less(x.file, y.file)
  \/ x.file = y.file /\ Less(x.at, y.at)

-----------------------------------------------------------------------------

ColumnNames(db, t) == {x.name : x \in {y \in db.columns : y.table = t}}

TheColumn(db, t, n) == CHOOSE x \in db.columns : x.table = t /\ x.name = n

\* A key is an index of its name; names of indexes are unique in a schema.
IndexNames(db, schema) == {i.name : i \in {j \in db.indexes \cup Keys(db) : Schema(j.table) = schema}}

\* A foreign key depends on a key of the table that it refers to.
Depends(f, k) == f.refTable = k.table /\ f.refColumns = k.columns

\* What a statement that does not say IF EXISTS looks for, and does not find.
Missing(db, s) ==
  \/ /\ s.op \notin {"drop schema", "create schema", "drop table", "create table", "drop index"}
     /\ s.table \notin db.tables
  \/ CASE s.op \in {"alter type", "alter collation", "set default", "set not null", "drop not null",
                    "add identity", "drop identity", "add check"} -> s.name \notin ColumnNames(db, s.table)
       [] s.op \in {"validate check", "drop check"} ->
            [table |-> s.table, name |-> s.name] \notin db.checks
       [] s.op \in {"alter constraint", "validate constraint"} ->
            \A f \in ForeignKeys(db) : f.table # s.table \/ f.name # s.name
       [] s.op = "add key" ->                        \* ADD CONSTRAINT ... USING INDEX
            \A i \in db.indexes : i.table # s.table \/ i.name # s.name \/ ~i.unique \/ ~i.valid
       [] s.op = "create index" -> ~(s.object.columns \subseteq ColumnNames(db, s.table))
       [] s.op = "add foreign key" ->
            \/ ~(s.object.columns \subseteq ColumnNames(db, s.table))
            \/ \A k \in Keys(db) : ~Depends(s.object, k)
       [] OTHER -> FALSE

\* What a statement makes, and there is one already.
Exists(db, s) ==
  CASE s.op = "create table" ->
         \/ s.table \in db.tables
         \/ \E x \in s.object.indexes \cup Keys(s.object) : x.name \in IndexNames(db, Schema(s.table))
    [] s.op = "create index" -> s.name \in IndexNames(db, Schema(s.table))
    [] s.op = "add column" -> s.name \in ColumnNames(db, s.table)
    [] s.op = "add foreign key" -> \E k \in db.constraints : k.table = s.table /\ k.name = s.name
    [] s.op = "add check" -> [table |-> s.table, name |-> s.name] \in db.checks
    [] s.op = "add key" -> /\ s.object.type = PRIMARY_KEY
                           /\ \E k \in Keys(db) : k.table = s.table /\ k.type = PRIMARY_KEY
    [] OTHER -> FALSE

\* What else depends on what a statement takes away, or forbids a change.
InTheWay(db, s) ==
  CASE s.op = "drop table" -> \E f \in ForeignKeys(db) : f.refTable = s.table /\ f.table # s.table
    [] s.op = "drop constraint" ->
         \E k \in Keys(db), f \in ForeignKeys(db) :
           k.table = s.table /\ k.name = s.name /\ Depends(f, k)
    [] s.op = "drop column" ->
         \E k \in Keys(db), f \in ForeignKeys(db) :
           k.table = s.table /\ s.name \in k.columns /\ Depends(f, k) /\ f.table # s.table
    [] s.op = "drop not null" ->
         \/ TheColumn(db, s.table, s.name).identity
         \/ \E k \in Keys(db) : k.table = s.table /\ k.type = PRIMARY_KEY /\ s.name \in k.columns
    [] s.op = "add identity" -> ~TheColumn(db, s.table, s.name).notNull
    [] s.op = "drop identity" -> ~TheColumn(db, s.table, s.name).identity
    [] s.op = "create table" -> Schema(s.table) \notin db.schemas
    [] s.op = "alter collation" -> s.object.collation = ""
    [] OTHER -> FALSE

\* The catalog does not allow the statement, whatever the rows are.
Refused(db, s) == Missing(db, s) \/ Exists(db, s) \/ InTheWay(db, s)

\* A statement can fail because of the rows of its table.
DependsOnRows(s) ==
  \/ s.op \in {"alter type", "set not null", "validate check", "validate constraint"}
  \/ s.op = "add key" /\ s.object.type = PRIMARY_KEY
  \/ s.op = "add column" /\ s.object.notNull /\ s.object.default = "" /\ ~s.object.identity
  \/ s.op = "create index" /\ s.object.unique

-----------------------------------------------------------------------------
(* Locks.  CREATE INDEX CONCURRENTLY and VALIDATE CONSTRAINT read the whole *)
(* table, and let others read and write it meanwhile.                       *)

\* Types whose values are stored alike, with no shorter limit.
SameStorage(x, y) ==
  \/ <<x.base, y.base>> \in {<<"CIDR", "INET">>, <<"VARCHAR", "TEXT">>}
  \/ <<x.base, y.base>> = <<"TEXT", "VARCHAR">> /\ y.arg1 = 0
  \/ x.base = y.base /\ y.base = "VARCHAR" /\ (y.arg1 = 0 \/ x.arg1 \in 1 .. y.arg1)
  \/ /\ x.base = y.base /\ y.base = "NUMERIC"
     /\ y.arg1 = 0 \/ (x.arg1 \in 1 .. y.arg1 /\ x.arg2 = y.arg2)

\* Statements that read the whole table, or write it anew.
Scans(db, s) ==
  \/ s.op \in {"validate check", "validate constraint"}
  \/ s.op = "alter type" /\ ~SameStorage(TheColumn(db, s.table, s.name).type, s.object.type)
  \/ /\ s.op = "set not null"     \* but not if a valid CHECK says the same
     /\ \A c \in db.checks : c.table # s.table \/ c.name # s.name
  \/ /\ s.op = "add key" /\ s.object.type = PRIMARY_KEY
     /\ \E n \in s.object.columns : ~TheColumn(db, s.table, n).notNull

\* Statements after which nobody else writes the table until the transaction ends.
Locks(s) == s.op \notin {"validate check", "validate constraint", "create index"}

-----------------------------------------------------------------------------
(* Effect(db, s): the database after statement s                           *)

WithoutTables(db, T) ==
  [db EXCEPT !.tables = @ \ T,
             !.columns = {x \in @ : x.table \notin T},
             !.constraints = {k \in @ : k.table \notin T /\ k.refTable \notin T},
             !.indexes = {i \in @ : i.table \notin T},
             !.checks = {c \in @ : c.table \notin T}]

EffectOnTables(db, s) ==
  CASE s.op = "drop schema" ->     \* CASCADE
         [WithoutTables(db, {t \in db.tables : Schema(t) = Schema(s.table)})
            EXCEPT !.schemas = @ \ {Schema(s.table)}]
    [] s.op = "create schema" -> [db EXCEPT !.schemas = @ \cup {Schema(s.table)}]
    [] s.op = "drop table" -> WithoutTables(db, {s.table})
    [] s.op = "create table" ->
         [db EXCEPT !.tables = @ \cup {s.table},
                    !.columns = @ \cup s.object.columns,
                    !.constraints = @ \cup s.object.constraints,
                    !.indexes = @ \cup s.object.indexes]
    [] s.op = "drop column" ->     \* with the indexes and the constraints it is in
         [db EXCEPT !.columns = {x \in @ : x.table # s.table \/ x.name # s.name},
                    !.constraints = {k \in @ : k.table # s.table \/ s.name \notin k.columns},
                    !.indexes = {i \in @ : i.table # s.table \/ s.name \notin i.columns},
                    !.checks = {c \in @ : c.table # s.table \/ c.name # s.name}]
    [] s.op = "add column" -> [db EXCEPT !.columns = @ \cup {s.object}]
    [] s.op = "create index" -> [db EXCEPT !.indexes = @ \cup {s.object}]
    [] s.op = "drop index" ->      \* of its name in the schema, whatever its table
         [db EXCEPT !.indexes = {i \in @ : Schema(i.table) # Schema(s.table) \/ i.name # s.name}]
    [] OTHER -> db

\* A column as a statement on it leaves it.
NewColumn(x, s) ==
  CASE s.op = "alter type" ->      \* an existing collation goes, unless the statement has one
         [x EXCEPT !.type = s.object.type, !.collation = s.object.collation]
    [] s.op = "alter collation" -> [x EXCEPT !.collation = s.object.collation]
    [] s.op = "set default" -> [x EXCEPT !.default = s.object.default]
    [] s.op \in {"set not null", "drop not null"} -> [x EXCEPT !.notNull = (s.op = "set not null")]
    [] s.op \in {"add identity", "drop identity"} -> [x EXCEPT !.identity = (s.op = "add identity")]
    [] OTHER -> x

EffectOnColumn(db, s) ==
  CASE s.op = "add check" -> [db EXCEPT !.checks = @ \cup {[table |-> s.table, name |-> s.name]}]
    [] s.op = "drop check" -> [db EXCEPT !.checks = @ \ {[table |-> s.table, name |-> s.name]}]
    [] OTHER -> [db EXCEPT !.columns = {IF x.table = s.table /\ x.name = s.name
                                        THEN NewColumn(x, s) ELSE x : x \in @}]

EffectOnConstraint(db, s) ==
  CASE s.op = "drop constraint" ->
         [db EXCEPT !.constraints = {k \in @ : k.table # s.table \/ k.name # s.name}]
    [] s.op = "alter constraint" ->
         [db EXCEPT !.constraints = {IF k.table = s.table /\ k.name = s.name
                                     THEN [k EXCEPT !.deferral = s.object.deferral] ELSE k : k \in @}]
    [] s.op = "validate constraint" ->
         [db EXCEPT !.constraints = {IF k.table = s.table /\ k.name = s.name
                                     THEN [k EXCEPT !.valid = TRUE] ELSE k : k \in @}]
    [] s.op = "add foreign key" ->
         [db EXCEPT !.constraints = @ \cup {[s.object EXCEPT !.table = s.table]}]
    [] s.op = "add key" ->         \* the index becomes the key's
         [db EXCEPT !.indexes = {i \in @ : i.table # s.table \/ i.name # s.name},
                    !.constraints = @ \cup {s.object},
                    !.columns = {IF x.table = s.table /\ x.name \in s.object.columns
                                 THEN [x EXCEPT !.notNull = @ \/ s.object.type = PRIMARY_KEY] ELSE x
                                 : x \in @}]
    [] OTHER -> db

TableStatements == {"drop schema", "create schema", "drop table", "create table", "drop column",
                    "add column", "create index", "drop index"}

ConstraintStatements == {"drop constraint", "alter constraint", "validate constraint",
                         "add foreign key", "add key"}

Effect(db, s) ==
  CASE s.op \in TableStatements -> EffectOnTables(db, s)
    [] s.op \in ConstraintStatements -> EffectOnConstraint(db, s)
    [] OTHER -> EffectOnColumn(db, s)
=============================================================================

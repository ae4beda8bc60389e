--------------------------- MODULE PostgresMigration ---------------------------
(***************************************************************************)
(* The migration that turns a Postgres database into the declared one      *)
(* (src/ddl/postgres_migration.go): newPostgresMigration finds what is     *)
(* different, sql() writes the statements and the warnings.                *)
(*                                                                         *)
(* A migration is a set of steps.  The number of its file and its place in *)
(* the file are tuples, in lexicographic order:                            *)
(*   <<1, tables>>            drop foreign keys between two tables         *)
(*   <<2>>                    schemas and tables (two files that end in    *)
(*                            .sql, which run in one transaction)          *)
(*   <<3, table, 1>>          alter a table                                *)
(*   <<3, table, 2>>          validate its NOT NULL checks                 *)
(*   <<3, table, 3, index>>   create an index (.txoff.sql)                 *)
(*   <<3, table, 4, key, 1>>  create the index of a key (.txoff.sql)       *)
(*   <<3, table, 4, key, 2>>  add the key                                  *)
(*   <<4, tables>>            add foreign keys of new tables               *)
(*   <<5, tables, 1>>         add foreign keys of other tables             *)
(*   <<5, tables, 2>>         validate them                                *)
(* CREATE INDEX CONCURRENTLY being one statement, its .undo.sql never runs *)
(* (see FailureIsUndone in Migrate): it is left out.                       *)
(***************************************************************************)
EXTENDS Statements, Sequences

\* getTablesID: the two tables of a foreign key.  It is meant to be the same for the
\* foreign keys of either direction.
TablesID(k) ==
  IF k.table[1] > k.refTable[1] \/ k.table[2] > k.refTable[2]
  THEN k.refTable \o k.table
  ELSE k.table \o k.refTable

\* The foreign key at position 0 of its group, of those that at gives a place.
Lead(at, k) ==
  CHOOSE f \in {g \in DOMAIN at : TablesID(g) = TablesID(k)} :
    \A g \in DOMAIN at : TablesID(g) = TablesID(k) => f = g \/ Less(at[f], at[g])

\* Mutant: foreign keys are dropped after tables and keys.
DropFkeysStepsLast(src, dest, drop) ==
  {Step(<<6>> \o TablesID(k), <<k.name>>, Named("drop constraint", k.table, k.name))
   : k \in DropFkeys(src, dest, drop)}

\* The tables that are dropped with their schema come first, then schema by schema
\* those that are dropped, and those that are not.
DropPlaces(src, dest, drop) ==
  [k \in DropFkeys(src, dest, drop) |->
     << IF Schema(k.table) \in Schemas(dest) THEN 1 ELSE 0, Schema(k.table),
        IF k.table \in dest.tables THEN 1 ELSE 0, k.table[2], k.name >>]

DropFkeysSteps(src, dest, drop) ==
  LET at == DropPlaces(src, dest, drop)
  IN {Step(<<1>> \o TablesID(k), at[k], Named("drop constraint", Lead(at, k).table, k.name))
      : k \in DOMAIN at}

SchemasSteps(src, dest, drop) ==
  {Step(<<2>>, <<1, s>>, On("drop schema", <<s, 0>>)) : s \in DropSchemas(src, dest, drop)} \cup
  {Step(<<2>>, <<2, s>>, On("create schema", <<s, 0>>)) : s \in CreateSchemas(src, dest)}

\* The object of CREATE TABLE: all of the table but its foreign keys.
TableObject(c, t) ==
  [name |-> t[2],
   columns |-> {x \in c.columns : x.table = t},
   constraints |-> {k \in Keys(c) : k.table = t},
   indexes |-> {i \in c.indexes : i.table = t}]

TablesSteps(src, dest, drop) ==
  {Step(<<2>>, <<3>> \o t, On("drop table", t)) : t \in DropTables(src, dest, drop)} \cup
  {Step(<<2>>, <<4>> \o t, With("create table", t, TableObject(dest, t))) : t \in CreateTables(src, dest)}

-----------------------------------------------------------------------------
(* ALTER TABLE *)

ColumnsAreDifferent(dest, x, y) ==
  \/ x.type # y.type
  \/ x.default # y.default
  \/ x.notNull # y.notNull /\ ~IsPrimaryKey(dest, y)
  \/ x.identity # y.identity
  \/ CollationOf(x) # CollationOf(y)

AlterColumns(src, dest) ==
  {p \in Pairs(src.columns, dest.columns) : ColumnsAreDifferent(dest, p[1], p[2])}

AlterConstraints(src, dest) ==
  {p \in Pairs(src.constraints, dest.constraints) : p[1].deferral # p[2].deferral}

\* There can be but one primary key: the old one is dropped even if nothing else is.
DropConstraints(src, dest, drop) ==
  DropKeys(src, dest, drop) \cup
  {k \in Keys(src) : /\ ~drop /\ k.type = PRIMARY_KEY
                     /\ \E l \in AddKeys(src, dest) : l.type = PRIMARY_KEY /\ l.table = k.table}

\* The tables with something to do: columns to drop do not count.
AlterTables(src, dest, drop) ==
  {x.table : x \in DropConstraints(src, dest, drop)} \cup
  {x.table : x \in DropIndexes(src, dest, drop)} \cup
  {x.table : x \in AddColumns(src, dest)} \cup
  {p[2].table : p \in AlterColumns(src, dest)} \cup
  {p[2].table : p \in AlterConstraints(src, dest)} \cup
  {x.table : x \in CreateIndexes(src, dest)} \cup
  {x.table : x \in AddKeys(src, dest)}

\* ALTER COLUMN: x becomes y.  A default that replaces another must be a literal, and
\* so must the other.
AlterColumnStatements(x, y, version) ==
  LET When(condition, n, op) ==
        {Step(<<3>> \o y.table \o <<1>>, <<5, y.name, n>>, With(op, y.table, z)) : z \in {u \in {y} : condition}}
  IN When(x.type # y.type, 1, "alter type") \cup
     When(x.type = y.type /\ CollationOf(x) # CollationOf(y), 1, "alter collation") \cup
     When(/\ x.default # y.default
          /\ x.default = "" \/ y.default = "" \/ (IsLiteral(x.default) /\ IsLiteral(y.default)),
          2, "set default") \cup
     When(x.notNull /\ ~y.notNull, 3, "drop not null") \cup
     When(~x.notNull /\ y.notNull, 3, IF version < 12 THEN "set not null" ELSE "add check") \cup
     When(x.identity /\ ~y.identity, 4, "drop identity") \cup
     When(~x.identity /\ y.identity, 4, "add identity")

AlterTableSteps(src, dest, drop, version) ==
  LET File(x) == <<3>> \o x.table \o <<1>>
      Steps(n, op, S) == {Step(File(x), <<n, x.name>>, With(op, x.table, x)) : x \in S}
  IN Steps(1, "drop index", DropIndexes(src, dest, drop)) \cup
     Steps(2, "drop constraint", DropConstraints(src, dest, drop)) \cup
     Steps(3, "drop column",
           {x \in DropColumns(src, dest, drop) : x.table \in AlterTables(src, dest, drop)}) \cup
     Steps(4, "add column", AddColumns(src, dest)) \cup
     (UNION {AlterColumnStatements(p[1], p[2], version) : p \in AlterColumns(src, dest)}) \cup
     Steps(6, "alter constraint", {p[2] : p \in AlterConstraints(src, dest)})

\* Mutant: the check is validated when the column is NOT NULL already.
ValidateNotNullStepsLate(src, dest, version) ==
  LET columns == {p[2] : p \in {q \in AlterColumns(src, dest) : ~q[1].notNull /\ q[2].notNull}}
      Steps(n, op) == {Step(<<3>> \o x.table \o <<2>>, <<x.name, n>>, Named(op, x.table, x.name))
                       : x \in columns}
  IN Steps(1, "set not null") \cup Steps(2, "validate check") \cup Steps(3, "drop check")

\* Each column in its turn: VALIDATE CONSTRAINT, SET NOT NULL, DROP CONSTRAINT.
ValidateNotNullSteps(src, dest, version) ==
  LET columns == {p[2] : p \in {q \in AlterColumns(src, dest) : ~q[1].notNull /\ q[2].notNull}}
      Steps(n, op) == {Step(<<3>> \o x.table \o <<2>>, <<x.name, n>>, Named(op, x.table, x.name))
                       : x \in columns}
  IN IF version < 12 THEN {}
     ELSE Steps(1, "validate check") \cup Steps(2, "set not null") \cup Steps(3, "drop check")

CreateIndexSteps(src, dest) ==
  {Step(<<3>> \o i.table \o <<3, i.name>>, <<1>>, With("create index", i.table, i))
   : i \in CreateIndexes(src, dest)}

\* A key is made of a unique index of its name.
AddKeySteps(src, dest) ==
  LET File(k, n) == <<3>> \o k.table \o <<4, k.name, n>>
  IN {Step(File(k, 1), <<1>>, With("create index", k.table, Index(k.table, k.name, k.columns, TRUE)))
      : k \in AddKeys(src, dest)} \cup
     {Step(File(k, 2), <<1>>,     \* USING INDEX: no DEFERRABLE is written
           With("add key", k.table, [k EXCEPT !.deferral = "NOT DEFERRABLE"])) : k \in AddKeys(src, dest)}

-----------------------------------------------------------------------------
(* Foreign keys, last *)

Places(fkeys) == [k \in fkeys |-> k.table \o <<k.name>>]

AddFastFkeysSteps(src, dest) ==
  LET at == Places(AddFastFkeys(src, dest))
  IN {Step(<<4>> \o TablesID(k), at[k], With("add foreign key", Lead(at, k).table, k))
      : k \in DOMAIN at}

\* Mutant: foreign keys are not validated.
AddFkeysStepsOnly(src, dest) ==
  LET at == Places(AddFkeys(src, dest))
  IN {Step(<<5>> \o TablesID(k) \o <<1>>, at[k],
           With("add foreign key", Lead(at, k).table, [k EXCEPT !.valid = FALSE])) : k \in DOMAIN at}

AddFkeysSteps(src, dest) ==
  LET at == Places(AddFkeys(src, dest))
  IN {Step(<<5>> \o TablesID(k) \o <<1>>, at[k],
           With("add foreign key", Lead(at, k).table, [k EXCEPT !.valid = FALSE])) : k \in DOMAIN at} \cup
     {Step(<<5>> \o TablesID(k) \o <<2>>, at[k],
           Named("validate constraint", Lead(at, k).table, k.name)) : k \in DOMAIN at}

Migration(src, dest, drop, version) ==
  DropFkeysSteps(src, dest, drop) \cup
  SchemasSteps(src, dest, drop) \cup
  TablesSteps(src, dest, drop) \cup
  AlterTableSteps(src, dest, drop, version) \cup
  ValidateNotNullSteps(src, dest, version) \cup
  CreateIndexSteps(src, dest) \cup
  AddKeySteps(src, dest) \cup
  AddFastFkeysSteps(src, dest) \cup
  AddFkeysSteps(src, dest)

-----------------------------------------------------------------------------
(* Warnings *)

\* strconv.Atoi of an argument that is not there is 0.
UnsafeType(x, y) ==
  CASE <<x.base, y.base>> \in {<<"CIDR", "INET">>, <<"VARCHAR", "TEXT">>} -> FALSE
    [] <<x.base, y.base>> = <<"TEXT", "VARCHAR">> -> y.arg1 # 0
    [] <<x.base, y.base>> = <<"VARCHAR", "VARCHAR">> -> y.arg1 \in 1 .. x.arg1 - 1
    [] <<x.base, y.base>> = <<"NUMERIC", "NUMERIC">> ->
         (x.arg2 # y.arg2 /\ y.arg2 # 0) \/ y.arg1 \in 1 .. x.arg1 - 1
    [] OTHER -> TRUE

\* The columns that sql() writes a warning about.
Warnings(src, dest, version) ==
  {x \in AddColumns(src, dest) : version < 11 /\ (x.default # "" \/ x.identity)} \cup
  {p[2] : p \in {q \in AlterColumns(src, dest) :
                   \/ q[1].type # q[2].type /\ UnsafeType(q[1].type, q[2].type)
                   \/ version < 12 /\ ~q[1].notNull /\ q[2].notNull}}
=============================================================================

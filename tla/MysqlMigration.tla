---------------------------- MODULE MysqlMigration ----------------------------
(***************************************************************************)
(* The migration that turns a MySQL database into the declared one         *)
(* (src/ddl/mysql_migration.go).  The files, in their order:               *)
(*   <<1, foreign key>>   drop a foreign key                               *)
(*   <<2>>                schemas                                          *)
(*   <<3>>                tables                                           *)
(*   <<4, table>>         one ALTER TABLE statement, a clause for a step   *)
(*   <<5, foreign key>>   add a foreign key                                *)
(* The schemas and the tables have an undo script each (Undo).  A primary  *)
(* key has one name, PRIMARY, in every table.                              *)
(***************************************************************************)
EXTENDS Statements, Sequences

Place(k) == k.table \o <<k.name>>

DropFkeysSteps(src, dest, drop) ==
  {Step(<<1>> \o Place(k), <<1>>, Named("drop constraint", k.table, k.name))
   : k \in DropFkeys(src, dest, drop)}

SchemasSteps(src, dest, drop) ==
  {Step(<<2>>, <<1, s>>, On("drop schema", <<s, 0>>)) : s \in DropSchemas(src, dest, drop)} \cup
  {Step(<<2>>, <<2, s>>, On("create schema", <<s, 0>>)) : s \in CreateSchemas(src, dest)}

\* CREATE TABLE writes the columns and the keys; each index is a statement of its own.
TableObject(c, t) ==
  [name |-> t[2],
   columns |-> {x \in c.columns : x.table = t},
   constraints |-> {k \in Keys(c) : k.table = t},
   indexes |-> {}]

TablesSteps(src, dest, drop) ==
  LET new == CreateTables(src, dest)
  IN {Step(<<3>>, <<1>> \o t, On("drop table", t)) : t \in DropTables(src, dest, drop)} \cup
     {Step(<<3>>, <<2>> \o t \o <<0>>, With("create table", t, TableObject(dest, t))) : t \in new} \cup
     {Step(<<3>>, <<2>> \o i.table \o <<i.name>>, With("create index", i.table, i))
      : i \in {j \in dest.indexes : j.table \in new}}

\* What the undo script of a file drops, if it is there: what the file was to create.
Undo(steps, dest, file) ==
  LET Created(op) == {x.stmt.table : x \in {y \in steps : y.file = file /\ y.stmt.op = op}}
  IN {On("drop schema", t) : t \in Created("create schema")} \cup
     {On("drop table", t) : t \in Created("create table")}

-----------------------------------------------------------------------------
(* ALTER TABLE *)

ColumnsAreDifferent(dest, x, y) ==
  \/ x.type # y.type
  \/ x.default # y.default
  \/ x.notNull # y.notNull /\ ~IsPrimaryKey(dest, y)
  \/ x.identity # y.identity
  \/ CollationOf(x) # CollationOf(y)

AlterColumns(src, dest) ==
  {p \in Pairs(src.columns, dest.columns) : ColumnsAreDifferent(dest, p[1], p[2])}

\* Mutant: a primary key of that name will do.
NoOtherPkeys(src, dest) == {}

\* The names of primary keys being the same, their columns are compared.
OtherPkeys(src, dest) ==
  {p \in Pairs(src.constraints, dest.constraints) :
     p[2].type = PRIMARY_KEY /\ p[1].columns # p[2].columns}

DropConstraints(src, dest, drop) ==
  DropKeys(src, dest, drop) \cup {p[1] : p \in OtherPkeys(src, dest)}

AddConstraints(src, dest) == AddKeys(src, dest) \cup {p[2] : p \in OtherPkeys(src, dest)}

\* The tables with something to do: columns to drop do not count.
AlterTables(src, dest, drop) ==
  {x.table : x \in DropConstraints(src, dest, drop) \cup AddConstraints(src, dest)} \cup
  {x.table : x \in DropIndexes(src, dest, drop) \cup CreateIndexes(src, dest)} \cup
  {x.table : x \in AddColumns(src, dest) \cup {p[2] : p \in AlterColumns(src, dest)}}

AlterTableSteps(src, dest, drop) ==
  LET Clauses(n, op, S) == {Step(<<4>> \o x.table, <<n, x.name>>, With(op, x.table, x)) : x \in S}
  IN Clauses(1, "drop constraint", DropConstraints(src, dest, drop)) \cup
     Clauses(2, "drop index", DropIndexes(src, dest, drop)) \cup
     Clauses(3, "drop column",
             {x \in DropColumns(src, dest, drop) : x.table \in AlterTables(src, dest, drop)}) \cup
     Clauses(4, "add column", AddColumns(src, dest)) \cup
     Clauses(5, "modify column", {p[2] : p \in AlterColumns(src, dest)}) \cup
     Clauses(6, "create index", CreateIndexes(src, dest)) \cup
     Clauses(7, "add key", AddConstraints(src, dest))

-----------------------------------------------------------------------------

AddFkeysSteps(src, dest) ==
  {Step(<<5>> \o Place(k), <<1>>, With("add foreign key", k.table, k))
   : k \in AddFastFkeys(src, dest) \cup AddFkeys(src, dest)}

Migration(src, dest, drop) ==
  DropFkeysSteps(src, dest, drop) \cup
  SchemasSteps(src, dest, drop) \cup
  TablesSteps(src, dest, drop) \cup
  AlterTableSteps(src, dest, drop) \cup
  AddFkeysSteps(src, dest)

\* VARCHARs of at most 255 bytes are stored differently from longer ones.
UnsafeType(x, y) ==
  IF x.base = "VARCHAR" /\ y.base = "VARCHAR"
  THEN x.arg1 > 0 /\ y.arg1 > 0 /\ ((x.arg1 <= 255) # (y.arg1 <= 255))
  ELSE x # y

Warnings(src, dest) ==
  {p[2] : p \in {q \in AlterColumns(src, dest) : UnsafeType(q[1].type, q[2].type)}}
=============================================================================

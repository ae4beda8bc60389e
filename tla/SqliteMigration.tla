---------------------------- MODULE SqliteMigration ----------------------------
(***************************************************************************)
(* The migration that turns an SQLite database into the declared one       *)
(* (src/ddl/sqlite_migration.go).  It is one file, in one transaction:     *)
(*   <<1, table>>      drop tables                                         *)
(*   <<2, table>>      create tables, each with its indexes                *)
(*   <<3, table, ...>> alter tables, or copy them: what ALTER TABLE cannot *)
(*                     do is done by a new table that takes the place and  *)
(*                     the rows of the old one                             *)
(* There is one schema; virtual tables, which are passed over, and         *)
(* triggers, which a copy is given again, are left out.                    *)
(***************************************************************************)
EXTENDS Statements, Sequences

\* SQLite's constraints are nameless: they are given names made of what they are.
Renamed(c) == [c EXCEPT !.constraints = {[k EXCEPT !.name = <<k.type, k.columns>>] : k \in @}]

ColumnsAreDifferent(x, y) ==
  x.type # y.type \/ x.default # y.default \/ x.notNull # y.notNull

AlterColumns(src, dest) ==
  {p \in Pairs(src.columns, dest.columns) : ColumnsAreDifferent(p[1], p[2])}

DropConstraints(src, dest) ==
  {k \in Gone(src.constraints, dest.constraints) : k.table \in dest.tables}

AddConstraints(src, dest) ==
  {k \in Gone(dest.constraints, src.constraints) : k.table \in src.tables}

\* Mutant: a table is copied if a column is altered, and for nothing else.
CopyTablesOfColumns(src, dest, drop) == {p[2].table : p \in {q \in AlterColumns(src, dest) : drop}}

\* A foreign key of one column comes and goes with its column; any other constraint,
\* and any other column, takes a copy.  Without dropObjects there is nothing of that.
CopyTables(src, dest, drop) ==
  LET With1(k, columns) ==
        k.type = FOREIGN_KEY /\ \E x \in columns : x.table = k.table /\ k.columns = {x.name}
  IN {t \in src.tables \cap dest.tables :
        /\ drop
        /\ \/ \E p \in AlterColumns(src, dest) : p[2].table = t
           \/ \E k \in DropConstraints(src, dest) :
                k.table = t /\ ~With1(k, DropColumns(src, dest, TRUE))
           \/ \E k \in AddConstraints(src, dest) : k.table = t /\ ~With1(k, AddColumns(src, dest))}

\* Foreign keys are part of CREATE TABLE.  copied: the columns that rows are copied to.
TableObject(c, t, copied) ==
  [name |-> t[2],
   copied |-> copied,
   columns |-> {x \in c.columns : x.table = t},
   constraints |-> {k \in c.constraints : k.table = t},
   indexes |-> {i \in c.indexes : i.table = t}]

TablesSteps(src, dest, drop) ==
  {Step(<<1>>, <<1>> \o t, On("drop table", t)) : t \in {u \in src.tables \ dest.tables : drop}} \cup
  {Step(<<1>>, <<2>> \o t, With("create table", t, TableObject(dest, t, {})))
   : t \in CreateTables(src, dest)}

\* Mutant: the columns that stay as they were are copied, no others.
CopiedUnaltered(src, dest, t) ==
  {x.name : x \in {y \in src.columns \cap dest.columns : y.table = t}}

\* The columns of the old table that the new one has, too.
Copied(src, dest, t) == {p[1].name : p \in {q \in Pairs(src.columns, dest.columns) : q[1].table = t}}

CopyTableSteps(src, dest, drop) ==
  {Step(<<1>>, <<3>> \o t \o <<0, 0>>,
        With("copy table", t, TableObject(dest, t, Copied(src, dest, t))))
   : t \in CopyTables(src, dest, drop)}

\* The tables with something to do: columns to drop do not count.
AlterTables(src, dest) ==
  {k.table : k \in DropConstraints(src, dest) \cup AddConstraints(src, dest)} \cup
  {i.table : i \in DropIndexes(src, dest, TRUE) \cup CreateIndexes(src, dest)} \cup
  {x.table : x \in AddColumns(src, dest)}

\* ADD COLUMN writes a foreign key of the column with it.
AlterTableSteps(src, dest, drop) ==
  LET Altered(S) == {x \in S : x.table \notin CopyTables(src, dest, drop)}
      Steps(n, op, S) == {Step(<<1>>, <<3>> \o x.table \o <<n, x.name, 0>>, With(op, x.table, x))
                          : x \in Altered(S)}
      References == {p \in AddColumns(src, dest) \X ForeignKeys(dest) :
                       p[1].table = p[2].table /\ p[2].columns = {p[1].name}}
  IN {Step(<<1>>, <<3>> \o p[1].table \o <<3, p[1].name, 1>>,
           [With("add foreign key", p[1].table, p[2]) EXCEPT !.name = 0])
      : p \in {q \in References : q[1] \in Altered({q[1]})}} \cup
     Steps(1, "drop index", DropIndexes(src, dest, drop)) \cup
     Steps(2, "drop column",
           {x \in DropColumns(src, dest, drop) : x.table \in AlterTables(src, dest)}) \cup
     Steps(3, "add column", AddColumns(src, dest)) \cup
     Steps(4, "create index", CreateIndexes(src, dest))

Migration(src, dest, drop) ==
  LET s == Renamed(src)
      d == Renamed(dest)
  IN TablesSteps(s, d, drop) \cup CopyTableSteps(s, d, drop) \cup AlterTableSteps(s, d, drop)
=============================================================================

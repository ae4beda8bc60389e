-------------------------- MODULE SqlserverMigration --------------------------
(***************************************************************************)
(* The migration that turns an SQL Server database into the declared one   *)
(* (src/ddl/sqlserver_migration.go).  The files, in their order, each of   *)
(* them a transaction:                                                     *)
(*   <<1, tables, ...>>       drop foreign keys between two tables         *)
(*   <<2>>                    schemas and tables (several files that end   *)
(*                            in .sql, which run in one transaction)       *)
(*   <<3, table, 1>>          alter a table                                *)
(*   <<3, table, 2, index>>   create an index                              *)
(*   <<3, table, 3, key>>     add a key                                    *)
(*   <<4, tables>>            add foreign keys of new tables               *)
(*   <<5, group>>             add foreign keys of other tables             *)
(* A column that an index or a constraint depends on cannot be altered:    *)
(* these are dropped, and made again afterwards.                           *)
(***************************************************************************)
EXTENDS Statements, Sequences

\* getTablesID.
TablesID(k) ==
  IF k.table[1] > k.refTable[1] \/ k.table[2] > k.refTable[2]
  THEN k.refTable \o k.table
  ELSE k.table \o k.refTable

Place(k) == k.table \o <<k.name>>

ColumnsAreDifferent(x, y) ==
  \/ x.type # y.type
  \/ x.default # y.default
  \/ x.notNull # y.notNull
  \/ CollationOf(x) # CollationOf(y)

AlterColumns(src, dest) ==
  {p \in Pairs(src.columns, dest.columns) : ColumnsAreDifferent(p[1], p[2])}

\* There can be but one primary key: the old one is dropped even if nothing else is.
OldPkeys(src, dest, drop) ==
  {k \in Keys(src) : /\ ~drop /\ k.type = PRIMARY_KEY
                     /\ \E l \in Keys(dest) : /\ l.type = PRIMARY_KEY /\ l.table = k.table
                                              /\ l.name # k.name}

\* Those of S that depend on an altered column, each with the column.
Dependent(src, dest, S) ==
  {q \in S \X {p[1] : p \in AlterColumns(src, dest)} :
     q[1].table = q[2].table /\ q[2].name \in q[1].columns}

\* Indexes, keys and foreign keys to drop and to make again, once for every column.
AgainIndexes(src, dest, drop) ==
  Dependent(src, dest, src.indexes \ DropIndexes(src, dest, drop))

AgainKeys(src, dest, drop) ==
  Dependent(src, dest, (Keys(src) \ DropKeys(src, dest, drop)) \ OldPkeys(src, dest, drop))

AgainFkeys(src, dest, drop) ==
  Dependent(src, dest, ForeignKeys(src) \ DropFkeys(src, dest, drop))

-----------------------------------------------------------------------------

\* A foreign key to make again joins those of the same two tables, or is on its own.
DropFkeysSteps(src, dest, drop) ==
  LET gone == DropFkeys(src, dest, drop)
      Group(q) == IF \E k \in gone : TablesID(k) = TablesID(q[1]) THEN <<0, 0>> ELSE <<q[1].name, q[2].name>>
      Drop(k, group, n) == Step(<<1>> \o TablesID(k) \o group, Place(k) \o <<n>>,
                                Named("drop constraint", k.table, k.name))
  IN {Drop(k, <<0, 0>>, 0) : k \in gone} \cup
     {Drop(q[1], Group(q), q[2].name) : q \in AgainFkeys(src, dest, drop)}

\* A schema is emptied before it is dropped.
SchemasSteps(src, dest, drop) ==
  LET gone == DropSchemas(src, dest, drop)
  IN {Step(<<2>>, <<1, s, 1>>, On("drop schema", <<s, 0>>)) : s \in gone} \cup
     {Step(<<2>>, <<1, t[1], 0, t[2]>>, On("drop table", t)) : t \in {u \in src.tables : Schema(u) \in gone}} \cup
     {Step(<<2>>, <<2, s>>, On("create schema", <<s, 0>>)) : s \in CreateSchemas(src, dest)}

\* The object of CREATE TABLE: all of the table but its foreign keys.
TableObject(c, t) ==
  [name |-> t[2],
   columns |-> {x \in c.columns : x.table = t},
   constraints |-> {k \in Keys(c) : k.table = t},
   indexes |-> {i \in c.indexes : i.table = t}]

TablesSteps(src, dest, drop) ==
  {Step(<<2>>, <<3>> \o t, On("drop table", t)) : t \in DropTables(src, dest, drop)} \cup
  {Step(<<2>>, <<4>> \o t, With("create table", t, TableObject(dest, t))) : t \in CreateTables(src, dest)}

-----------------------------------------------------------------------------
(* ALTER TABLE *)

\* A column that is not said to be NOT NULL can be NULL afterwards, and one without a
\* collation has the default one.
AlteredColumn(dest, x, y) ==
  [x EXCEPT !.type = y.type,
            !.collation = IF CollationOf(y) = DefaultCollation THEN "" ELSE y.collation,
            !.notNull = y.identity \/ \E k \in Keys(dest) : /\ k.type = PRIMARY_KEY /\ k.table = y.table
                                                           /\ y.name \in k.columns]

MustAlter(dest, x, y) ==
  \/ x.type # y.type
  \/ CollationOf(y) # DefaultCollation
  \/ AlteredColumn(dest, x, y).notNull
  \/ x.notNull /\ ~y.notNull

\* A default is a constraint of its own: one goes, the other comes.
AlterColumnSteps(dest, x, y) ==
  LET When(condition, n, op, z) ==
        {Step(<<3>> \o y.table \o <<1, 0>>, <<5, y.name, n>>, With(op, y.table, u)) : u \in {v \in {z} : condition}}
  IN When(MustAlter(dest, x, y), 1, "alter column", AlteredColumn(dest, x, y)) \cup
     When(x.default # y.default /\ x.default # "", 2, "set default", [y EXCEPT !.default = ""]) \cup
     When(x.default # y.default /\ y.default # "", 3, "set default", y)

\* The tables with something to do: columns to drop do not count.
AlterTables(src, dest, drop) ==
  {k.table : k \in DropKeys(src, dest, drop) \cup OldPkeys(src, dest, drop) \cup AddKeys(src, dest)} \cup
  {i.table : i \in DropIndexes(src, dest, drop) \cup CreateIndexes(src, dest)} \cup
  {x.table : x \in AddColumns(src, dest) \cup {p[2] : p \in AlterColumns(src, dest)}}

AlterTableSteps(src, dest, drop) ==
  LET Steps(n, op, S) == {Step(<<3>> \o x.table \o <<1, 0>>, <<n, x.name, 0>>, With(op, x.table, x)) : x \in S}
      Again(n, op, S) == {Step(<<3>> \o q[1].table \o <<1, 0>>, <<n, q[1].name, q[2].name>>,
                               With(op, q[1].table, q[1])) : q \in S}
  IN Steps(1, "drop index", DropIndexes(src, dest, drop)) \cup
     Again(1, "drop index", AgainIndexes(src, dest, drop)) \cup
     Steps(2, "drop constraint", DropKeys(src, dest, drop) \cup OldPkeys(src, dest, drop)) \cup
     Again(2, "drop constraint", AgainKeys(src, dest, drop)) \cup
     Steps(3, "drop column",
           {x \in DropColumns(src, dest, drop) : x.table \in AlterTables(src, dest, drop)}) \cup
     Steps(4, "add column", AddColumns(src, dest)) \cup
     (UNION {AlterColumnSteps(dest, p[1], p[2]) : p \in AlterColumns(src, dest)})

CreateIndexSteps(src, dest, drop) ==
  LET Create(i, n) == Step(<<3>> \o i.table \o <<2, i.name, n>>, <<1>>, With("create index", i.table, i))
  IN {Create(i, 0) : i \in CreateIndexes(src, dest)} \cup
     {Create(q[1], q[2].name) : q \in AgainIndexes(src, dest, drop)}

AddKeySteps(src, dest, drop) ==
  LET Add(k, n) == Step(<<3>> \o k.table \o <<3, k.name, n>>, <<1>>, With("add key", k.table, k))
  IN {Add(k, 0) : k \in AddKeys(src, dest)} \cup
     {Add(q[1], q[2].name) : q \in AgainKeys(src, dest, drop)}

-----------------------------------------------------------------------------
(* Foreign keys, last.  A group is <<the place where it is first met, the   *)
(* foreign keys in it>>.                                                    *)

Groups(fkeys) ==
  LET Members(k) == {f \in fkeys : TablesID(f) = TablesID(k)}
  IN {<<k.table \o <<0, k.name>>, Members(k)>>
      : k \in {f \in fkeys : \A g \in Members(f) : g = f \/ Less(Place(f), Place(g))}}

\* The position of a group in the slice of all groups.
PositionIn(g, groups) == Cardinality({h \in groups : Less(h[1], g[1])})

\* m.addFkeys.  A foreign key to make again is to join those that are new between the
\* same two tables and were found before; what it joins is the group of that position in
\* m.addFastFkeys, and the two take the place of all that was there.  If there is none, the
\* program panics.
AddFkeyGroups(src, dest, drop) ==
  LET again == AgainFkeys(src, dest, drop)
      new == Groups(AddFkeys(src, dest))
      At(q) == q[1].table \o <<1, q[2].name, q[1].name>>
      Joins(q, g) == /\ g \in new
                     /\ \E f \in g[2] : TablesID(f) = TablesID(q[1])
                     /\ ~Less(q[1].table, g[1])
      all == new \cup {<<At(q), {q[1]}>> : q \in {r \in again : \A g \in new : ~Joins(r, g)}}
      Joining(g) == {q \in again : Joins(q, g)}
      Last(g) == {q \in Joining(g) : \A r \in Joining(g) : ~Less(At(q), At(r))}
      Fast(q) == Groups({k \in AddFastFkeys(src, dest) : Less(k.table, q[1].table)})
      Joined(q, g) == {h \in Fast(q) : PositionIn(h, Fast(q)) = PositionIn(g, all)}
  IN [g \in all |->
        IF \E q \in Joining(g) : Joined(q, g) = {} THEN {}
        ELSE {k \in g[2] : \A q \in Joining(g) : Less(q[1].table, k.table)} \cup
             UNION {{q[1]} \cup UNION {h[2] : h \in Joined(q, g)} : q \in Last(g)}]

Panics(src, dest, drop) ==
  LET groups == AddFkeyGroups(src, dest, drop) IN \E g \in DOMAIN groups : groups[g] = {}

AddFastFkeysSteps(src, dest) ==
  {Step(<<4>> \o TablesID(k), Place(k), With("add foreign key", k.table, k)) : k \in AddFastFkeys(src, dest)}

AddFkeysSteps(src, dest, drop) ==
  LET groups == AddFkeyGroups(src, dest, drop)
  IN UNION {{Step(<<5>> \o g[1], Place(k), With("add foreign key", k.table, k)) : k \in groups[g]}
            : g \in DOMAIN groups}

Migration(src, dest, drop) ==
  DropFkeysSteps(src, dest, drop) \cup
  SchemasSteps(src, dest, drop) \cup
  TablesSteps(src, dest, drop) \cup
  AlterTableSteps(src, dest, drop) \cup
  CreateIndexSteps(src, dest, drop) \cup
  AddKeySteps(src, dest, drop) \cup
  AddFastFkeysSteps(src, dest) \cup
  AddFkeysSteps(src, dest, drop)

Warnings(src, dest) ==
  {p[2] : p \in {q \in Pairs(src.columns, dest.columns) :
                   q[1].type # q[2].type \/ (~q[1].identity /\ q[2].identity)}}
=============================================================================

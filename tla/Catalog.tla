------------------------------- MODULE Catalog -------------------------------
(***************************************************************************)
(* Catalogs (src/ddl/ddl.go), what sqddl knows of a database: read from it *)
(* or declared by the user.  And how two of them are compared, which the   *)
(* generators of all the dialects do alike (the lines of map are those of  *)
(* src/ddl/postgres_migration.go): an object of the one that has no        *)
(* namesake in the other was dropped, or is new.                           *)
(*                                                                         *)
(* Names are numbers, and stand for their place in the code's slices: the  *)
(* introspection scripts sort by name.  A table is <<schema, name>>.  What *)
(* is marked Ignore is not in a catalog: the look-ups never return it, and *)
(* the loops skip it.  A type or a default is what normalizeColumnType and *)
(* normalizeColumnDefault return: two spellings of it are one value.       *)
(***************************************************************************)
EXTENDS Naturals, FiniteSets

PRIMARY_KEY == "PRIMARY KEY"
UNIQUE == "UNIQUE"
FOREIGN_KEY == "FOREIGN KEY"

Schema(t) == t[1]
NoTable == <<0, 0>>     \* what a key "refers" to

\* The arguments that a type is written without are 0.
Type(base, arg1, arg2) == [base |-> base, arg1 |-> arg1, arg2 |-> arg2]

\* A column without a default, an identity or a collation has "" there, or FALSE.
\* notNull is set for the columns of a primary key.
Column(t, n, type) ==
  [table |-> t, name |-> n, type |-> type, notNull |-> FALSE, default |-> "",
   identity |-> FALSE, collation |-> ""]

\* deferral is "NOT DEFERRABLE", "DEFERRABLE" or "INITIALLY DEFERRED"; cascade stands for
\* the DeleteRule CASCADE.
Key(t, n, type, columns) ==
  [table |-> t, name |-> n, type |-> type, columns |-> columns, refTable |-> NoTable,
   refColumns |-> {}, deferral |-> "NOT DEFERRABLE", cascade |-> FALSE, valid |-> TRUE]

ForeignKey(t, n, columns, refTable, refColumns) ==
  [Key(t, n, FOREIGN_KEY, columns) EXCEPT !.refTable = refTable, !.refColumns = refColumns]

Index(t, n, columns, unique) ==
  [table |-> t, name |-> n, columns |-> columns, unique |-> unique, valid |-> TRUE]

\* A database has its schemas, and CHECKs on a column being NOT NULL.  A catalog knows
\* a schema by the tables in it, and no check.
EmptyCatalog ==
  [schemas |-> {}, tables |-> {}, columns |-> {}, constraints |-> {}, indexes |-> {},
   checks |-> {}]

IsCatalog(c) ==
  /\ DOMAIN c = {"schemas", "tables", "columns", "constraints", "indexes", "checks"}
  /\ \A x \in c.columns : {"table", "name"} \subseteq DOMAIN x

\* The columns, the constraints or the indexes of a sound catalog.
AreSound(S, tables) ==
  /\ IsFiniteSet(S)
  /\ \A x \in S : {"table", "name"} \subseteq DOMAIN x /\ x.table \in tables /\ x.name \in Nat

\* Everything is of a table that is there, and has a number for a name.
IsSound(c) ==
  /\ IsFiniteSet(c.tables) /\ c.tables \subseteq Nat \X Nat
  /\ AreSound(c.columns, c.tables)
  /\ AreSound(c.constraints, c.tables)
  /\ AreSound(c.indexes, c.tables)
  /\ \A k \in c.constraints : /\ {"type", "columns", "refTable", "cascade"} \subseteq DOMAIN k
                              /\ k.refTable \in Nat \X Nat

Schemas(c) == {Schema(t) : t \in c.tables}

IsKey(k) == k.type \in {PRIMARY_KEY, UNIQUE}

ForeignKeys(c) == {k \in c.constraints : k.type = FOREIGN_KEY}
Keys(c) == {k \in c.constraints : IsKey(k)}

\* column.IsPrimaryKey is set for a key of one column only.
IsPrimaryKey(c, x) ==
  \E k \in Keys(c) : k.type = PRIMARY_KEY /\ k.table = x.table /\ k.columns = {x.name}

DefaultCollation == "default"
CollationOf(x) == IF x.collation = "" THEN DefaultCollation ELSE x.collation

IsLiteral(default) == default \in {"0", "1"}

\* The lexicographic order of tuples, in which the code comes to things.
Less(a, b) ==
  \E i \in DOMAIN a \cap DOMAIN b :
    a[i] < b[i] /\ \A j \in DOMAIN a : j < i => a[j] = b[j]

-----------------------------------------------------------------------------
(* The catalog of the database, src, and the declared one, dest            *)

\* The objects of S without a namesake in the same table of R.
Gone(S, R) == {x \in S : \A y \in R : y.table # x.table \/ y.name # x.name}

\* Namesakes.
Pairs(S, R) == {p \in S \X R : p[1].table = p[2].table /\ p[1].name = p[2].name}

CreateSchemas(src, dest) == Schemas(dest) \ Schemas(src)
CreateTables(src, dest) == dest.tables \ src.tables

\* Nothing is looked for that could be dropped unless dropObjects is set.
DropSchemas(src, dest, drop) == {s \in Schemas(src) \ Schemas(dest) : drop}

\* Mutant: tables are dropped unasked.
DropTablesUnasked(src, dest, drop) ==
  {t \in src.tables \ dest.tables : Schema(t) \in Schemas(dest)}

\* The tables of a schema that is dropped go with it.
DropTables(src, dest, drop) ==
  {t \in src.tables \ dest.tables : drop /\ Schema(t) \in Schemas(dest)}

DropFkeys(src, dest, drop) == {k \in Gone(ForeignKeys(src), dest.constraints) : drop}

AddFastFkeys(src, dest) == {k \in ForeignKeys(dest) : k.table \in CreateTables(src, dest)}

AddFkeys(src, dest) ==
  {k \in Gone(ForeignKeys(dest), src.constraints) : k.table \in src.tables}

\* In the tables that are in both.
DropKeys(src, dest, drop) ==
  {k \in Gone(Keys(src), dest.constraints) : drop /\ k.table \in dest.tables}

DropIndexes(src, dest, drop) ==
  {i \in Gone(src.indexes, dest.indexes) : drop /\ i.table \in dest.tables}

DropColumns(src, dest, drop) ==
  {x \in Gone(src.columns, dest.columns) : drop /\ x.table \in dest.tables}

AddColumns(src, dest) == {x \in Gone(dest.columns, src.columns) : x.table \in src.tables}

CreateIndexes(src, dest) == {i \in Gone(dest.indexes, src.indexes) : i.table \in src.tables}

AddKeys(src, dest) == {k \in Gone(Keys(dest), src.constraints) : k.table \in src.tables}
=============================================================================

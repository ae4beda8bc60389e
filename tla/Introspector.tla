----------------------------- MODULE Introspector -----------------------------
(***************************************************************************)
(* DatabaseIntrospector.WriteCatalog (src/ddl/database_introspector.go): a *)
(* catalog is put together from the answers to a query for each kind of    *)
(* object, in a fixed order.  The queries share no transaction, so others  *)
(* may change the database between any two of them.                        *)
(*                                                                         *)
(* database is a set of rows, what the queries select from: see Row.  A    *)
(* query is answered at once; its rows are then added to the catalog one   *)
(* at a time, in the order of ORDER BY.                                    *)
(***************************************************************************)
EXTENDS CatalogCache

CONSTANTS
  Dialects,    \* dialects to introspect
  Filters,     \* of callers: [types: object types, tables: names]; all of them if there are none
  Databases,   \* the databases of each dialect
  MaxChanges,  \* bound on the changes that others make meanwhile
  Faults       \* of {"query", "rows"}

\* The arguments of what has none, and the type that the code leaves empty.
Blank == ""

\* What the queries may be asked for.
RowKinds ==
  {"extensions", "enums", "domains", "routines", "views", "tables", "columns", "constraints",
   "indexes", "triggers"}

\* The tables that some scripts leave out and others do not: "special" are the partitioned
\* tables of Postgres, the versioned ones of MariaDB and the shadow tables of SQLite,
\* "quoted" those of SQLite that were created with a name in single quotes.
Forms == {"plain", "special", "quoted"}

\* A row of one of the queries.  owner is the table or the view that the object is in, form
\* that of the table; refs tells whether a foreign key names the columns that it refers to.
DatabaseRow ==
  [kind : RowKinds, schema : Nat, owner : Nat, name : Nat, args : STRING, type : STRING,
   columns : Seq(Nat), refs : BOOLEAN, ofView : BOOLEAN, form : Forms]

\* The table of a row, or its view.
OwnerOf(r) == IF r.kind = "tables" THEN r.name ELSE r.owner

IsOfTable(r) == r.kind \in {"tables", "columns", "constraints", "indexes", "triggers"} /\ ~r.ofView

\* Only routines have arguments, only indexes and triggers may be those of a view, no table
\* has the name of a view of its schema, and a table has one form.
ASSUME IntrospectorAssumption ==
  /\ MaxChanges \in Nat
  /\ \A d \in Dialects : \A rowset \in Databases[d] :
       /\ rowset \subseteq DatabaseRow
       /\ \A r \in rowset : r.args = Blank \/ r.kind = "routines"
       /\ \A r \in rowset : r.ofView => r.kind \in {"indexes", "triggers"}
       /\ \A q, r \in {e \in rowset : e.kind \in {"indexes", "triggers"}} :
            q.schema = r.schema /\ q.owner = r.owner => q.ofView = r.ofView
       /\ \A q, r \in {e \in rowset : IsOfTable(e)} :
            q.schema = r.schema /\ OwnerOf(q) = OwnerOf(r) => q.form = r.form
       /\ \A r \in rowset : /\ r.form = "special" => d # "sqlserver"
                            /\ r.form = "quoted" => d = "sqlite"

VARIABLES
  dialect, filter,
  database,
  changes,     \* made to the database since the introspection began
  catalog,     \* with its cache
  phase,       \* the kind of object that is asked for
  rows,        \* rows to be added, and whether the query has been made
  asked,
  broken,      \* a result has broken off unnoticed
  result       \* "running" until WriteCatalog returns "ok" or "error", or the program dies of a "panic"

vars == <<dialect, filter, database, changes, catalog, phase, rows, asked, broken, result>>

Row(kind, schema, owner, name) ==
  [kind |-> kind, schema |-> schema, owner |-> owner, name |-> name, args |-> Blank, type |-> Blank,
   columns |-> <<>>, refs |-> FALSE, ofView |-> FALSE, form |-> "plain"]

\* In the order of WriteCatalog.  "settings" stands for the four queries for the version
\* and the names of the database, "marks" for the loop at the end.
Phases ==
  <<"settings", "extensions", "enums", "domains", "routines", "views", "tables", "columns",
    "constraints", "indexes", "triggers", "marks", "end">>

Successor(p) == Phases[(CHOOSE i \in DOMAIN Phases : Phases[i] = p) + 1]

IncludeObjectType(type) == filter.types = {} \/ type \in filter.types

\* The parts of WriteCatalog that the filter includes.
IsIncluded(p) ==
  CASE p = "extensions" -> IncludeObjectType("EXTENSIONS")
    [] p = "enums" -> IncludeObjectType("ENUMS")
    [] p = "domains" -> IncludeObjectType("DOMAINS")
    [] p = "routines" -> IncludeObjectType("ROUTINES")
    [] p = "views" -> IncludeObjectType("VIEWS")
    [] p \in {"tables", "columns", "constraints"} -> IncludeObjectType("TABLES")
    [] p \in {"indexes", "triggers"} -> IncludeObjectType("TABLES") \/ IncludeObjectType("VIEWS")
    [] OTHER -> TRUE

-----------------------------------------------------------------------------
(* The queries: what the scripts select, as the functions return it        *)

Rows(kind) == {r \in database : r.kind = kind}

\* The scripts narrow their search to the tables of the filter.
InFilter(table) == filter.tables = {} \/ table \in filter.tables

\* Extensions, enums and domains are Postgres only.
GetExtensions == {r \in Rows("extensions") : dialect = "postgres"}
GetEnums == {r \in Rows("enums") : dialect = "postgres"}
GetDomains == {r \in Rows("domains") : dialect = "postgres"}

GetRoutines ==
  {[r EXCEPT !.args = IF dialect = "postgres" THEN @ ELSE Blank] :
     r \in {q \in Rows("routines") : dialect # "sqlite"}}

\* Only Postgres tells whether a view is materialized.
GetViews == {[r EXCEPT !.type = IF dialect = "postgres" THEN @ ELSE Blank] : r \in Rows("views")}

\* relkind = 'r', BASE TABLE, and the types of pragma_table_list that are not "shadow".
GetTables == {r \in Rows("tables") : InFilter(r.name) /\ r.form # "special"}

\* Shadow tables are left out by the first query only; it keeps the tables whose text starts
\* with CREATE TABLE and a single quote.
GetColumns ==
  {r \in Rows("columns") : /\ InFilter(r.owner) /\ r.form # "quoted"
                           /\ r.form = "special" => dialect = "sqlite"}

\* Mutant: the search for constraints is not narrowed.
GetConstraintsOfAll ==
  {[r EXCEPT !.name = IF dialect = "sqlite" THEN NoName ELSE @] :
     r \in {q \in Rows("constraints") : q.form # "quoted"}}

\* The kind of the table does not matter.  SQLite has no names for constraints.
GetConstraints ==
  {[r EXCEPT !.name = IF dialect = "sqlite" THEN NoName ELSE @] :
     r \in {q \in Rows("constraints") : InFilter(q.owner) /\ q.form # "quoted"}}

\* What has the name of a constraint, of whichever table, is taken for its index.
IsOfConstraint(r) ==
  dialect \in {"postgres", "mysql"} /\ \E k \in Rows("constraints") : k.name = r.name

\* The indexes of views are those of Postgres and SQL Server; the latter has another filter
\* for them.
GetIndexes ==
  {r \in Rows("indexes") :
     /\ r.form # "quoted" /\ ~IsOfConstraint(r)
     /\ IF r.ofView THEN \/ dialect = "postgres" /\ InFilter(r.owner)
                         \/ dialect = "sqlserver"
        ELSE InFilter(r.owner)}

\* SQLite says nothing of views.
GetTriggers ==
  {[r EXCEPT !.ofView = @ /\ dialect # "sqlite"] : r \in {q \in Rows("triggers") : InFilter(q.owner)}}

Answer ==
  CASE phase = "extensions" -> GetExtensions
    [] phase = "enums" -> GetEnums
    [] phase = "domains" -> GetDomains
    [] phase = "routines" -> GetRoutines
    [] phase = "views" -> GetViews
    [] phase = "tables" -> GetTables
    [] phase = "columns" -> GetColumns
    [] phase = "constraints" -> GetConstraints
    [] phase = "indexes" -> GetIndexes
    [] phase = "triggers" -> GetTriggers
    [] OTHER -> {}

\* ORDER BY.
Precedes(q, r) ==
  \/ q.schema < r.schema
  \/ q.schema = r.schema /\ q.owner < r.owner
  \/ q.schema = r.schema /\ q.owner = r.owner /\ q.name < r.name

-----------------------------------------------------------------------------
(* What becomes of a row                                                   *)

\* marks are the types of the constraints that are of a column alone.
ObjectOf(r) ==
  Object(r.name, r.args, r.type, [columns |-> r.columns, refs |-> r.refs, marks |-> {}])

Named(name) == Object(name, Blank, Blank, [columns |-> <<>>, refs |-> FALSE, marks |-> {}])

\* An object of a schema, which is made if it is not there.
AddToSchema(c, r) ==
  LET d == GetOrCreate(c, Schemas, Named(r.schema))
      s == Get(d, Schemas, r.schema, Blank)
  IN AddOrUpdate(d, Slot(r.kind, <<s>>), ObjectOf(r))

\* An object of a table or a view; without it, the object is passed over.
AddToOwner(c, r) ==
  LET s == Get(c, Schemas, r.schema, Blank)
      owners == IF r.ofView THEN Views(s) ELSE Tables(s)
      t == IF s = 0 THEN 0 ELSE Get(c, owners, r.owner, Blank)
      kind == IF r.ofView THEN (IF r.kind = "indexes" THEN "view_indexes" ELSE "view_triggers")
              ELSE r.kind
  IN IF t = 0 THEN c ELSE AddOrUpdate(c, Slot(kind, <<s, t>>), ObjectOf(r))

\* The table of a constraint is made if it is not there.
AddConstraint(c, r) ==
  LET s == Get(c, Schemas, r.schema, Blank)
      d == GetOrCreate(c, Tables(s), Named(r.owner))
      t == Get(d, Tables(s), r.owner, Blank)
  IN IF s = 0 THEN c ELSE AddOrUpdate(d, Constraints(s, t), ObjectOf(r))

AddRow(c, r) ==
  CASE r.kind = "extensions" -> [c EXCEPT !.slices = Appended(c, Extensions, ObjectOf(r))]
    [] r.kind \in {"enums", "domains", "routines", "views", "tables"} -> AddToSchema(c, r)
    [] r.kind = "constraints" -> AddConstraint(c, r)
    [] OTHER -> AddToOwner(c, r)

-----------------------------------------------------------------------------
(* The loop that sets IsPrimaryKey, IsUnique and the references of columns *)

Types == {PRIMARY_KEY, UNIQUE, FOREIGN_KEY}

\* The places of the constraints of one column.
OfOneColumn ==
  {p \in Places(catalog) :
     /\ p[1].kind = "constraints"
     /\ Len(catalog.slices[p[1]][p[2]].data.columns) = 1
     /\ catalog.slices[p[1]][p[2]].type \in Types}

\* The column of the constraint at a place.
ColumnAt(p) ==
  LET columns == Columns(p[1].at[1], p[1].at[2])
  IN Get(catalog, columns, catalog.slices[p[1]][p[2]].data.columns[1], Blank)

\* A nil pointer is followed for a column that is not there, and a slice indexed out of
\* its range for a foreign key that names no columns of the other table.
Panics ==
  \E p \in OfOneColumn :
    \/ ColumnAt(p) = 0
    \/ catalog.slices[p[1]][p[2]].type = FOREIGN_KEY /\ ~catalog.slices[p[1]][p[2]].data.refs

Marked ==
  [slot \in DOMAIN catalog.slices |->
     [i \in DOMAIN catalog.slices[slot] |->
        [catalog.slices[slot][i] EXCEPT
           !.data.marks = @ \cup {catalog.slices[p[1]][p[2]].type :
                                    p \in {q \in OfOneColumn : /\ slot.kind = "columns"
                                                               /\ q[1].at = slot.at
                                                               /\ ColumnAt(q) = i}}]]]

-----------------------------------------------------------------------------

Init ==
  /\ dialect \in Dialects /\ filter \in Filters /\ database \in Databases[dialect]
  /\ changes = 0 /\ catalog = EmptyCache /\ phase = "settings"
  /\ rows = {} /\ asked = FALSE /\ broken = FALSE /\ result = "running"

unchanged == <<dialect, filter, database, changes>>

\* The settings of the database, and the parts that the filter leaves out.
Pass ==
  /\ result = "running"
  /\ phase = "settings" \/ ~IsIncluded(phase)
  /\ phase' = Successor(phase)
  /\ UNCHANGED <<unchanged, catalog, rows, asked, broken, result>>

Asks == result = "running" /\ phase \notin {"settings", "marks", "end"} /\ IsIncluded(phase) /\ ~asked

\* What is not in a dialect is not asked for.
HasQuery ==
  CASE phase \in {"extensions", "enums", "domains"} -> dialect = "postgres"
    [] phase = "routines" -> dialect # "sqlite"
    [] OTHER -> phase # "marks"

Ask ==
  /\ Asks
  /\ rows' = Answer /\ asked' = TRUE
  /\ UNCHANGED <<unchanged, catalog, phase, broken, result>>

QueryFails ==
  /\ "query" \in Faults
  /\ Asks \/ (result = "running" /\ phase = "settings")
  /\ HasQuery
  /\ result' = "error"
  /\ UNCHANGED <<unchanged, catalog, phase, rows, asked, broken>>

\* rows.Next returns false before the last row.  closeRows tells, but GetTriggers does not
\* call it.
BreakOff ==
  /\ "rows" \in Faults
  /\ Asks /\ HasQuery
  /\ \E r \in Answer :
       IF phase = "triggers"
       THEN /\ rows' = {q \in Answer : Precedes(q, r)} /\ asked' = TRUE /\ broken' = TRUE
            /\ UNCHANGED result
       ELSE /\ result' = "error"
            /\ UNCHANGED <<rows, asked, broken>>
  /\ UNCHANGED <<unchanged, catalog, phase>>

AddNext ==
  /\ result = "running" /\ asked
  /\ \E r \in rows : /\ \A q \in rows : ~Precedes(q, r)
                     /\ catalog' = AddRow(catalog, r)
                     /\ rows' = rows \ {r}
  /\ UNCHANGED <<unchanged, phase, asked, broken, result>>

\* Mutant: not all the rows are read.
NextQueryAtOnce ==
  /\ result = "running" /\ asked
  /\ phase' = Successor(phase) /\ asked' = FALSE
  /\ UNCHANGED <<unchanged, catalog, rows, broken, result>>

NextQuery ==
  /\ result = "running" /\ asked /\ rows = {}
  /\ phase' = Successor(phase) /\ asked' = FALSE
  /\ UNCHANGED <<unchanged, catalog, rows, broken, result>>

Mark ==
  /\ result = "running" /\ phase = "marks"
  /\ IF Panics
     THEN result' = "panic" /\ UNCHANGED <<catalog, phase>>
     ELSE result' = "ok" /\ phase' = "end" /\ catalog' = [catalog EXCEPT !.slices = Marked]
  /\ UNCHANGED <<unchanged, rows, asked, broken>>

\* Others change the database.
Change ==
  /\ result = "running" /\ changes < MaxChanges
  /\ database' \in Databases[dialect] \ {database}
  /\ changes' = changes + 1
  /\ UNCHANGED <<dialect, filter, catalog, phase, rows, asked, broken, result>>

Next == Pass \/ Ask \/ QueryFails \/ BreakOff \/ AddNext \/ NextQuery \/ Mark \/ Change

Spec == Init /\ [][Next]_vars

-----------------------------------------------------------------------------
(* Properties *)

\* The catalog is a tree: every slice is in an object, every position of the cache is one
\* of a slice of its kind.  The rows left are those of the query that has been made.
TypeOK ==
  /\ phase \in {Phases[i] : i \in DOMAIN Phases}
  /\ result \in {"running", "ok", "error", "panic"}
  /\ asked \in BOOLEAN /\ broken \in BOOLEAN /\ changes \in 0 .. MaxChanges
  /\ rows # {} => asked /\ IsIncluded(phase)
  /\ result = "ok" <=> phase = "end"
  /\ \A slot \in DOMAIN catalog.slices :
       /\ slot.kind \in Kinds
       /\ Len(slot.at) > 0 => slot.at[1] \in DOMAIN Slice(catalog, Schemas)
       /\ Len(slot.at) > 1 => slot.at[2] \in DOMAIN Slice(catalog, Holder(slot))
  /\ \A id \in DOMAIN catalog.index :
       \E slot \in DOMAIN catalog.slices :
         MapOf(slot.kind) = id.map /\ catalog.index[id] \in DOMAIN catalog.slices[slot]

\* Whatever the queries return, and whoever changes the database between them, the cache
\* finds every object of the catalog (no two have a name in common), the primary key of
\* each table and its foreign keys: the positions of slices that are appended to and of
\* maps that are filled elsewhere, which all the generators rely on.
CacheAgrees ==
  /\ \A p \in Places(catalog) :
       LET o == catalog.slices[p[1]][p[2]]
       IN p[1].kind # "extensions" /\ o.name # NoName => Get(catalog, p[1], o.name, o.args) = p[2]
  /\ \A slot \in {l \in DOMAIN catalog.slices : l.kind = "constraints"} :
       LET Of(type) == {i \in DOMAIN catalog.slices[slot] : catalog.slices[slot][i].type = type}
       IN /\ GetForeignKeys(catalog, slot.at[1], slot.at[2]) = Of(FOREIGN_KEY)
          /\ GetPrimaryKey(catalog, slot.at[1], slot.at[2]) \in
               IF Of(PRIMARY_KEY) = {} THEN {0} ELSE Of(PRIMARY_KEY)

\* The cache that callers make of the catalog afterwards (NewCatalogCache in the generators,
\* in dump and in the subsetter) is the one that the introspection has filled, but for the
\* triggers and the indexes of views that it passes over.
RemadeAlike ==
  LET new == NewCatalogCache(catalog)
  IN /\ \A id \in DOMAIN new.index : id \in DOMAIN catalog.index /\ new.index[id] = catalog.index[id]
     /\ \A id \in DOMAIN catalog.index \ DOMAIN new.index :
          \E slot \in DOMAIN catalog.slices :
            /\ slot.kind \in {"view_indexes", "view_triggers"}
            /\ MapOf(slot.kind) = id.map /\ Path(catalog, slot) = id.path
     /\ new.pkeys = catalog.pkeys /\ new.fkeys = catalog.fkeys

\* What the filter asks for of the database.
Wanted ==
  {r \in database :
     /\ IsIncluded(r.kind)
     /\ r.kind \in {"indexes", "triggers"} => IsIncluded(IF r.ofView THEN "views" ELSE "tables")
     /\ IsOfTable(r) \/ (r.ofView /\ ~(r.kind = "indexes" /\ dialect = "sqlserver")) =>
          InFilter(OwnerOf(r))}

\* A special table comes with its constraints, if there is something listed in its schema.
ComesWithKey(r) ==
  /\ \E k \in Rows("constraints") : k.schema = r.schema /\ k.owner = OwnerOf(r)
  /\ \E q \in Wanted : /\ q.kind \in {"enums", "domains", "routines", "views", "tables"}
                      /\ q.schema = r.schema /\ q.form # "special"

\* What WriteCatalog leaves out of what it has been asked for: the columns of special tables,
\* if not the whole table, most of what is in a quoted one, the triggers of SQLite's views,
\* and indexes that have the name of a constraint.
IsLeftOut(r) ==
  \/ r.form = "special" /\ (r.kind = "columns" \/ ~ComesWithKey(r))
  \/ r.form = "quoted" /\ r.kind \in {"columns", "constraints", "indexes"}
  \/ r.kind = "indexes" /\ IsOfConstraint(r)
  \/ r.kind = "triggers" /\ r.ofView /\ dialect = "sqlite"

\* What the catalog tells of a row, which neither SQLite's names of constraints nor the
\* materialized views and arguments of others than Postgres are a part of.
Told(r) ==
  [r EXCEPT !.name = IF r.kind = "constraints" /\ dialect = "sqlite" THEN NoName ELSE @,
            !.args = IF dialect = "postgres" THEN @ ELSE Blank,
            !.type = IF r.kind = "views" /\ dialect # "postgres" THEN Blank ELSE @,
            !.form = "plain"]

\* The row that an object has come from.
RowAt(p) ==
  LET o == catalog.slices[p[1]][p[2]]
      path == Path(catalog, p[1])
  IN [kind |-> MapOf(p[1].kind), schema |-> IF path = <<>> THEN 0 ELSE path[1],
      owner |-> IF Len(path) = 2 THEN path[2] ELSE 0, name |-> o.name, args |-> o.args,
      type |-> o.type, columns |-> o.data.columns, refs |-> o.data.refs,
      ofView |-> p[1].kind \in {"view_indexes", "view_triggers"}, form |-> "plain"]


\* A constraint that the last loop cannot follow: of one column of a special table, which
\* has been made for it without columns, or a foreign key that names no columns.
IsTooMuch(k) ==
  /\ k.kind = "constraints" /\ InFilter(k.owner) /\ k.type \in Types /\ Len(k.columns) = 1
  /\ \/ k.form = "special"
     \/ k.type = FOREIGN_KEY /\ ~k.refs

\* The introspection goes wrong in its last loop only on such a constraint, or if others
\* have dropped or made a table or a column between the queries, of which it then has the
\* constraints but not the columns.
PanicsAreKnown == result = "panic" => changes > 0 \/ \E k \in database : IsTooMuch(k)

\* What the comment of WriteCatalog says, for any database.
NeverPanics == result # "panic"
=============================================================================

---------------------------- MODULE MCIntrospector ----------------------------
(* Instances of Introspector for TLC. *)
EXTENDS Introspector

\* Two schemas, the tables and the view in them, and their columns.
s1 == 1
s2 == 2
t == 1
u == 2
v == 3
w == 4
x == 1
y == 2

Constraint(schema, table, name, type, columns) ==
  [Row("constraints", schema, table, name) EXCEPT
     !.type = type, !.columns = columns, !.refs = (type = FOREIGN_KEY)]

OfForm(form, S) == {[r EXCEPT !.form = form] : r \in S}

Routine(name, args) == [Row("routines", s1, 0, name) EXCEPT !.args = args]

OfView(row) == [row EXCEPT !.ofView = TRUE]

\* A table that refers to itself, with constraints of one column and of two.
TableT(columns) ==
  {Row("tables", s1, 0, t)} \cup {Row("columns", s1, t, n) : n \in columns} \cup
  {k \in {Constraint(s1, t, 1, PRIMARY_KEY, <<x>>), Constraint(s1, t, 2, UNIQUE, <<y>>),
          Constraint(s1, t, 3, FOREIGN_KEY, <<y>>), Constraint(s1, t, 4, UNIQUE, <<x, y>>)} :
     {k.columns[i] : i \in DOMAIN k.columns} \subseteq columns} \cup
  {Row("indexes", s1, t, 5), Row("triggers", s1, t, 6)}

\* Its index has the name of a constraint of the other table.
TableU ==
  {Row("tables", s2, 0, u), Row("columns", s2, u, x), Row("indexes", s2, u, 4),
   Row("triggers", s2, u, 6), Row("triggers", s2, u, 7),
   Constraint(s2, u, 1, PRIMARY_KEY, <<x>>), Constraint(s2, u, 2, FOREIGN_KEY, <<x>>)}

\* A special table with a key.
TableW(schema, key) ==
  OfForm("special",
    {Row("tables", schema, 0, w), Row("columns", schema, w, x), Row("columns", schema, w, y),
     Constraint(schema, w, 10, PRIMARY_KEY, key), Row("indexes", schema, w, 5), Row("triggers", schema, w, 6)})

Others(d) ==
  {[Row("views", s1, 0, v) EXCEPT !.type = IF d = "postgres" THEN "MATERIALIZED" ELSE Blank]} \cup
  (IF d = "sqlite" THEN {} ELSE {Routine(1, Blank)}) \cup
  (IF d = "postgres"
   THEN {Row("extensions", 0, 0, 1), Row("enums", s2, 0, 1), Row("domains", s1, 0, 1), Routine(1, "int"),
         OfView(Row("indexes", s1, v, 8))}
   ELSE {}) \cup
  (IF d = "sqlserver" THEN {OfView(Row("indexes", s1, v, 8))} ELSE {}) \cup
  (IF d \in {"sqlite", "sqlserver"} THEN {OfView(Row("triggers", s1, v, 9))} ELSE {})

\* The schema that others work on.
OfSchema1(S, d) == IF d = "sqlite" THEN {[r EXCEPT !.schema = s1] : r \in S} ELSE S

\* The special table is in a schema with other tables or, but for enums, without; SQL Server
\* has none.
Third(d) ==
  TableT({x, y}) \cup
  (IF d = "sqlserver" THEN {} ELSE TableW(s2, IF d = "sqlite" THEN <<x>> ELSE <<x, y>>))

Fourth(d) ==
  CASE d = "sqlserver" -> TableU
    [] d = "sqlite" -> OfForm("quoted", TableU) \cup TableW(s1, <<x, y>>)
    [] d = "mysql" -> TableU \cup TableW(s1, <<x, y>>)
    [] d = "postgres" -> TableU \cup TableW(s1, <<x>>)

WithChanges ==
  [d \in {"postgres", "mysql", "sqlite", "sqlserver"} |->
     {OfSchema1(tables \cup Others(d), d) :
        tables \in {TableT({x, y}) \cup TableU, TableT({x}) \cup TableU, Third(d), Fourth(d)}}]

AnyFilter ==
  {[types |-> {}, tables |-> {}], [types |-> {"TABLES"}, tables |-> {}],
   [types |-> {}, tables |-> {t}], [types |-> {"VIEWS"}, tables |-> {}]}

\* REFERENCES t, without a column.
Implicit ==
  [d \in {"sqlite"} |->
     {TableT({x, y}) \cup {[Constraint(s1, t, 5, FOREIGN_KEY, <<x>>) EXCEPT !.refs = FALSE]}}]
=============================================================================

------------------------------ MODULE MCCatalogs ------------------------------
(***************************************************************************)
(* The catalogs that the generators of migrations are checked with.        *)
(***************************************************************************)
EXTENDS Catalog

a == <<1, 1>>
b == <<1, 2>>
c == <<2, 1>>

INT == Type("INT", 0, 0)
BIGINT == Type("BIGINT", 0, 0)
VARCHAR(n) == Type("VARCHAR", n, 0)
TEXT == Type("TEXT", 0, 0)

NotNull(x) == [x EXCEPT !.notNull = TRUE]
Id(t) == NotNull(Column(t, 1, INT))

\* A catalog with one table, and with several.
Table(t, columns, constraints, indexes) ==
  [EmptyCatalog EXCEPT !.tables = {t}, !.columns = columns, !.constraints = constraints,
                       !.indexes = indexes]

Plus(x, y) ==
  [EmptyCatalog EXCEPT !.tables = x.tables \cup y.tables, !.columns = x.columns \cup y.columns,
                       !.constraints = x.constraints \cup y.constraints,
                       !.indexes = x.indexes \cup y.indexes]

\* Everything about table a that can change, in a few tables.
PkeyOfA == Key(a, 1, PRIMARY_KEY, {1})

TablesA ==
  { Table(a, {Id(a)}, {PkeyOfA}, {}),
    Table(a, {Id(a), Column(a, 2, VARCHAR(10))}, {PkeyOfA}, {Index(a, 3, {2}, FALSE)}),
    Table(a, {Id(a), NotNull([Column(a, 2, VARCHAR(20)) EXCEPT !.default = "0"])},
          {PkeyOfA, Key(a, 2, UNIQUE, {2})}, {}),
    Table(a, {Id(a), [Column(a, 2, TEXT) EXCEPT !.default = "1", !.collation = "C"]},
          {Key(a, 5, PRIMARY_KEY, {1})}, {Index(a, 3, {2}, FALSE), Index(a, 4, {1, 2}, TRUE)}),
    Table(a, {[Id(a) EXCEPT !.type = BIGINT, !.identity = TRUE]}, {}, {}) }

\* Tables that refer to a, of the same schema and of another.
TablesBC ==
  LET B(k) == Table(b, {Id(b), Column(b, 2, INT)}, {Key(b, 11, PRIMARY_KEY, {1}), k}, {})
      C(k) == Table(c, {Id(c), Column(c, 2, INT)}, {Key(c, 21, PRIMARY_KEY, {1}), k}, {})
      ToA(t, n, deferral) == [ForeignKey(t, n, {2}, a, {1}) EXCEPT !.deferral = deferral]
      Pkey(t, n) == Key(t, n, PRIMARY_KEY, {1})
  IN { B(ToA(b, 12, "NOT DEFERRABLE")), B(ToA(b, 12, "INITIALLY DEFERRED")), B(Pkey(b, 11)),
       Plus(B(Pkey(b, 11)), C(ToA(c, 22, "DEFERRABLE"))),
       Plus(B(ForeignKey(b, 13, {2}, c, {1})), C(Pkey(c, 21))) }

\* A foreign key to a needs the key PkeyOfA: to replace a key that a foreign key of
\* another table depends on is refused.
Valid(x) == \A f \in ForeignKeys(x) : f.refTable = a => PkeyOfA \in x.constraints

Mixed ==
  {EmptyCatalog} \cup TablesA \cup
  {x \in {Plus(x, y) : x \in TablesA, y \in TablesBC} : Valid(x)}

Databases(S) == {[x EXCEPT !.schemas = Schemas(x) \cup {1}] : x \in S}
=============================================================================

------------------------------ MODULE MCDialects ------------------------------
EXTENDS Dialects, MCCatalogs

CONSTANTS p, q

\* MySQL: primary keys are called PRIMARY (0), and there are no identities.
OfMySQL(x) ==
  [x EXCEPT !.constraints = {IF k.type = PRIMARY_KEY THEN [k EXCEPT !.name = 0] ELSE k : k \in @},
            !.columns = {[y EXCEPT !.identity = FALSE] : y \in @}]

\* One table in every form, and alone or with others that refer to it.
Several ==
  LET first == CHOOSE x \in TablesA : x.indexes = {} /\ Cardinality(x.columns) = 1 /\ x.constraints # {}
      second == CHOOSE x \in TablesA : Cardinality(x.indexes) = 1
  IN {EmptyCatalog} \cup TablesA \cup {Plus(first, y) : y \in TablesBC} \cup
     {Plus(second, y) : y \in {z \in TablesBC : Schemas(z) = {1} /\ ForeignKeys(z) = {}}}

\* The column of a foreign key that gets another type, and another foreign key with it.
Retyped ==
  LET B(keys) == Table(b, {Id(b), Column(b, 2, BIGINT)}, {Key(b, 11, PRIMARY_KEY, {1})} \cup keys, {})
      ToA(n, columns) == ForeignKey(b, n, columns, a, {1})
      A == Table(a, {Id(a)}, {PkeyOfA}, {})
  IN {Plus(A, B({ToA(12, {2})})), Plus(A, B({ToA(12, {2}), ToA(14, {1})}))}

\* An index of two columns that both get another type: it would be dropped twice.
Twofold ==
  {Table(a, {NotNull(Column(a, 1, type)), Column(a, 2, type)}, {PkeyOfA}, {Index(a, 6, {1, 2}, FALSE)})
   : type \in {INT, BIGINT}}

MixedCatalogs ==
  [d \in {"mysql", "sqlite", "sqlserver"} |->
     CASE d = "mysql" -> {OfMySQL(x) : x \in Several} \cup
                         {Table(a, {Id(a), NotNull(Column(a, 2, INT))}, {Key(a, 0, PRIMARY_KEY, {1, 2})}, {})}
       [] d = "sqlite" -> {x \in Several : Schemas(x) \subseteq {1}}      \* the only one
       [] d = "sqlserver" -> Several \cup Retyped \cup Twofold]

\* The databases are some of these; runs make the others of them.
MixedExisting ==
  [d \in DOMAIN MixedCatalogs |->
     Databases({x \in MixedCatalogs[d] : Cardinality(x.columns) \in {0, 3} /\ x \notin Retyped})]

\* A table that one refers to by a foreign key that cascades, and a column that changes.
Cascading ==
  LET B == Table(b, {Id(b), Column(b, 2, INT)},
                 {Key(b, 11, PRIMARY_KEY, {1}), [ForeignKey(b, 12, {2}, a, {1}) EXCEPT !.cascade = TRUE]}, {})
      A(type) == Table(a, {Id(a), Column(a, 2, type)}, {PkeyOfA}, {})
  IN [d \in {"sqlite"} |-> {Plus(A(INT), B), Plus(A(BIGINT), B)}]

CascadingExisting == [d \in DOMAIN Cascading |-> Databases(Cascading[d])]

\* Tables that are not there yet.
NewTables == [d \in {"mysql"} |-> {Plus(Table(a, {Id(a)}, {}, {}), Table(b, {Id(b)}, {}, {}))}]
NoTables == [d \in {"mysql"} |-> {EmptyCatalog}]
=============================================================================

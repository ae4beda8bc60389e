---------------------------- MODULE MCAutomigrate ----------------------------
EXTENDS Automigrate, MCCatalogs

\* Two columns become NOT NULL.
Nullable == Table(a, {Id(a), Column(a, 2, INT), Column(a, 3, INT)}, {PkeyOfA}, {})
NotNullable == [Nullable EXCEPT !.columns = {NotNull(x) : x \in @}]
TwoNotNull == {NotNullable}

\* Two tables that refer to each other.
Apart == Plus(Nullable, Table(b, {Id(b), Column(b, 2, INT)}, {Key(b, 11, PRIMARY_KEY, {1})}, {}))
Together ==
  [Apart EXCEPT !.constraints =
     @ \cup {ForeignKey(a, 2, {2}, b, {1}), ForeignKey(b, 12, {2}, a, {1})}]
Mutual == {Together}

MixedDatabases == Databases(Mixed)
NullableDatabases == Databases({Nullable})
ApartDatabases == Databases({Apart})

\* What AutomigrateStaysOnline assumes of the catalogs is so of those it is checked with.
ASSUME MixedIsEven == Declared = Mixed => CatalogsAreWhole /\ CatalogsAreEven
=============================================================================

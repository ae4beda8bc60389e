---------------------------- MODULE DialectsProofs ----------------------------
(***************************************************************************)
(* Theorems about automigrate and wipe on MySQL, SQLite and SQL Server,    *)
(* for all catalogs: statements leave a catalog, a wipe has nothing in its *)
(* way, and values are lost only where they were to be.                    *)
(***************************************************************************)
EXTENDS Dialects, FiniteSetTheorems, SequenceTheorems, NaturalsInduction, WellFoundedInduction, TLAPS

(***************************************************************************)
(* The order of the steps.                                                 *)
(***************************************************************************)

LEMMA LessIrreflexive == ASSUME NEW s \in Seq(Nat) PROVE ~Less(s, s)
BY DEF Less

LEMMA LessTransitive ==
  ASSUME NEW s \in Seq(Nat), NEW t \in Seq(Nat), NEW u \in Seq(Nat), Less(s, t), Less(t, u)
  PROVE  Less(s, u)
<1>1. PICK i \in DOMAIN s \cap DOMAIN t : s[i] < t[i] /\ \A k \in DOMAIN s : k < i => s[k] = t[k]
  BY DEF Less
<1>2. PICK j \in DOMAIN t \cap DOMAIN u : t[j] < u[j] /\ \A k \in DOMAIN t : k < j => t[k] = u[k]
  BY DEF Less
<1>3. /\ DOMAIN s = 1 .. Len(s) /\ DOMAIN t = 1 .. Len(t) /\ DOMAIN u = 1 .. Len(u)
      /\ Len(s) \in Nat /\ Len(t) \in Nat /\ Len(u) \in Nat
  BY LenProperties
<1>4. \A k \in Nat : /\ k \in DOMAIN s => s[k] \in Nat
                     /\ k \in DOMAIN t => t[k] \in Nat
                     /\ k \in DOMAIN u => u[k] \in Nat
  BY <1>3, ElementOfSeq
<1>5. CASE i < j
  <2>1. i \in DOMAIN s \cap DOMAIN u
    BY <1>3, <1>5
  <2>2. t[i] = u[i] /\ s[i] < u[i]
    BY <1>1, <1>2, <1>5
  <2>3. \A k \in DOMAIN s : k < i => s[k] = u[k]
    BY <1>1, <1>2, <1>3, <1>5
  <2> QED
    BY <2>1, <2>2, <2>3 DEF Less
<1>6. CASE j <= i
  <2>1. j \in DOMAIN s \cap DOMAIN u
    BY <1>3, <1>6
  <2>2. s[j] < u[j]
    <3>1. CASE i = j
      BY <1>1, <1>2, <1>3, <1>4, <3>1
    <3>2. CASE i # j
      <4>1. j < i
        BY <1>3, <1>6, <3>2
      <4> QED
        BY <1>1, <1>2, <2>1, <4>1
    <3> QED
      BY <3>1, <3>2
  <2>3. ASSUME NEW k \in DOMAIN s, k < j
        PROVE  s[k] = u[k]
    <3>1. k \in Nat /\ 1 <= k /\ i \in Nat /\ j \in Nat /\ j <= Len(t) /\ Len(t) \in Nat
      BY <1>3
    <3> DEFINE l == Len(t)
    <3>2. k < i /\ k < l
      <4>1. \A x, y, z \in Nat : x < y /\ y <= z => x < z
        OBVIOUS
      <4>2. j <= i
        BY <1>6
      <4>3. k < j
        BY <2>3
      <4>4. j <= l /\ l \in Nat
        BY <3>1
      <4> HIDE DEF l
      <4>5. k < i
        BY <3>1, <4>1, <4>2, <4>3
      <4>6. k < l
        BY <3>1, <4>1, <4>3, <4>4
      <4> QED
        BY <4>5, <4>6
    <3>3. k \in DOMAIN t
      BY <1>3, <3>1, <3>2
    <3> QED
      BY <1>1, <1>2, <2>3, <3>2, <3>3
  <2> QED
    BY <2>1, <2>2, <2>3 DEF Less
<1> QED
  BY <1>3, <1>5, <1>6

\* Files and places are tuples of numbers.
Placed(x) == x.file \in Seq(Nat) /\ x.at \in Seq(Nat)

LEMMA BeforeOrders ==
  ASSUME NEW x, NEW y, NEW z, Placed(x), Placed(y), Placed(z)
  PROVE  ~Before(x, x) /\ (Before(x, y) /\ Before(y, z) => Before(x, z))
<1>1. ~Before(x, x)
  BY LessIrreflexive DEF Before, Placed
<1>2. ASSUME Before(x, y), Before(y, z)
      PROVE  Before(x, z)
  <2>1. CASE Less(x.file, y.file) /\ Less(y.file, z.file)
    BY <2>1, LessTransitive DEF Before, Placed
  <2>2. CASE x.file = y.file /\ y.file = z.file /\ Less(x.at, y.at) /\ Less(y.at, z.at)
    BY <2>2, LessTransitive DEF Before, Placed
  <2> QED
    BY <1>2, <2>1, <2>2 DEF Before
<1> QED
  BY <1>1, <1>2

\* Of a set of steps, some are after no other.
LEMMA FirstIs ==
  ASSUME NEW S, IsFiniteSet(S), S # {}, \A x \in S : Placed(x)
  PROVE  FirstOf(S) \in S /\ \A y \in S : ~Before(y, FirstOf(S))
<1> DEFINE Earlier(x) == {y \in S : Before(y, x)}
           R == StrictSubsetOrdering(S)
           T == {Earlier(x) : x \in S}
<1>1. IsWellFoundedOn(R, SUBSET S)
  BY FS_StrictSubsetOrderingWellFounded, FS_FiniteSubsetsOfFinite
<1>2. T \subseteq SUBSET S /\ T # {}
  OBVIOUS
<1>3. PICK E \in T : \A F \in T : <<F, E>> \notin R
  <2> HIDE DEF R, T
  <2> QED
    BY <1>1, <1>2, WFMin
<1>4. PICK x \in S : E = Earlier(x)
  OBVIOUS
<1>5. ASSUME NEW y \in S, Before(y, x)
      PROVE  FALSE
  <2>1. Earlier(y) \subseteq Earlier(x)
    BY <1>5, BeforeOrders
  <2>2. y \in Earlier(x) /\ y \notin Earlier(y)
    BY <1>5, BeforeOrders
  <2>3. <<Earlier(y), Earlier(x)>> \in R
    BY <2>1, <2>2 DEF StrictSubsetOrdering
  <2> QED
    BY <1>3, <1>4, <2>3
<1> QED
  BY <1>5 DEF FirstOf

-----------------------------------------------------------------------------
(* The steps of a unit, one after the other                                *)

\* A set that has 0, and with a number the next one, has all up to n.
LEMMA UpTo ==
  ASSUME NEW n \in Nat, NEW G, 0 \in G, \A k \in 0 .. n - 1 : k \in G => k + 1 \in G
  PROVE  n \in G
<1> DEFINE T == {k \in Nat : k <= n /\ k \notin G}
<1>1. SUFFICES ASSUME T # {} PROVE FALSE
  BY <1>1
<1> DEFINE R == {ss \in Nat \X Nat : ss[1] < ss[2]}
<1>2. IsWellFoundedOn(R, Nat)
  <2>1. OpToRel(<, Nat) = R
    BY DEF OpToRel
  <2> QED
    BY <2>1, NatLessThanWellFounded
<1>3. PICK m \in T : \A k \in T : ~(k < m)
  <2>1. T \subseteq Nat
    OBVIOUS
  <2>2. PICK m \in T : \A k \in T : <<k, m>> \notin R
    <3> HIDE DEF T, R
    <3> QED
      BY <1>1, <1>2, <2>1, WFMin
  <2> QED
    BY <2>1, <2>2
<1>4. m # 0 /\ m - 1 \in Nat /\ m - 1 < m /\ m - 1 \in 0 .. n - 1
  OBVIOUS
<1>5. m - 1 \notin T
  <2> HIDE DEF T
  <2> QED
    BY <1>3, <1>4
<1> QED
  BY <1>4, <1>5

\* What After runs through.
Follows(f, unit) ==
  /\ f[0] = [left |-> unit, db |-> db, rows |-> rows, ok |-> TRUE]
  /\ \A k \in 1 .. Cardinality(unit) : f[k] = RunNext(f[k - 1])
  /\ After(unit) = f[Cardinality(unit)]

LEMMA AfterFollows ==
  ASSUME NEW unit, IsFiniteSet(unit)
  PROVE  \E f : Follows(f, unit)
<1> DEFINE n == Cardinality(unit)
           b == [left |-> unit, db |-> db, rows |-> rows, ok |-> TRUE]
           Is(f, m) == f[0] = b /\ \A k \in 1 .. m : f[k] = RunNext(f[k - 1])
           Fcn(f) == f = [k \in 0 .. n |-> IF k = 0 THEN b ELSE RunNext(f[k - 1])]
           G == {m \in Nat : \E f : Is(f, m)}
<1>1. n \in Nat
  BY FS_CardinalityType
<1> HIDE DEF n, b
<1>2. 0 \in G
  <2>1. Is([k \in {0} |-> b], 0)
    OBVIOUS
  <2> QED
    BY <2>1
<1>3. ASSUME NEW m \in 0 .. n - 1, m \in G
      PROVE  m + 1 \in G
  <2>1. PICK f : Is(f, m)
    BY <1>3
  <2> DEFINE g == [k \in 0 .. m + 1 |-> IF k = m + 1 THEN RunNext(f[m]) ELSE f[k]]
  <2>2. g[0] = b
    BY <1>1, <2>1
  <2>3. ASSUME NEW k \in 1 .. m + 1
        PROVE  g[k] = RunNext(g[k - 1])
    <3>1. g[k - 1] = f[k - 1]
      BY <1>1
    <3>2. CASE k = m + 1
      BY <1>1, <3>1, <3>2
    <3>3. CASE k # m + 1
      <4>1. k \in 1 .. m /\ g[k] = f[k]
        BY <1>1, <3>3
      <4> QED
        BY <2>1, <3>1, <4>1
    <3> QED
      BY <3>2, <3>3
  <2> HIDE DEF g
  <2>4. Is(g, m + 1)
    BY <2>2, <2>3
  <2> QED
    BY <1>1, <2>4
<1>4. n \in G
  <2> HIDE DEF G
  <2> QED
    BY <1>1, <1>2, <1>3, UpTo
<1>5. PICK f : Is(f, n)
  BY <1>4
<1> DEFINE g == [k \in 0 .. n |-> f[k]]
<1>6. Fcn(g)
  <2>1. ASSUME NEW k \in 0 .. n
        PROVE  g[k] = IF k = 0 THEN b ELSE RunNext(g[k - 1])
    <3>1. CASE k = 0
      BY <1>1, <1>5, <3>1
    <3>2. CASE k # 0
      <4>1. k \in 1 .. n /\ k - 1 \in 0 .. n
        BY <1>1, <3>2
      <4>2. g[k] = f[k] /\ g[k - 1] = f[k - 1]
        BY <4>1
      <4> QED
        BY <1>5, <3>2, <4>1, <4>2
    <3> QED
      BY <3>1, <3>2
  <2> QED
    BY <2>1
<1> DEFINE h == CHOOSE f_1 : Fcn(f_1)
<1>7. Fcn(h)
  <2> HIDE DEF Fcn, g
  <2> QED
    BY <1>6
<1>8. After(unit) = h[n]
  BY DEF After, n, b
<1> HIDE DEF h
<1>9. h[0] = b
  BY <1>1, <1>7
<1>10. ASSUME NEW k \in 1 .. n
       PROVE  h[k] = RunNext(h[k - 1])
  <2>1. k \in 0 .. n /\ k # 0
    BY <1>1
  <2> QED
    BY <1>7, <2>1
<1> QED
  BY <1>8, <1>9, <1>10 DEF Follows, n, b

-----------------------------------------------------------------------------
(* Databases, and the statements that are made for them                    *)

\* No foreign key of SQLite cascades.
NoCascades ==
  \A e \in Dialects \cap {"sqlite"} : \A c \in Catalogs[e] \cup Existing[e] : \A k \in c.constraints : ~k.cascade

\* A constraint of one of the tables.  SQLite's are nameless.
IsConstraint(k, tables, named) ==
  /\ {"table", "name", "type", "columns", "refTable", "cascade"} \subseteq DOMAIN k
  /\ k.table \in tables
  /\ k.refTable \in Nat \X Nat
  /\ named => k.name \in Nat
  /\ NoCascades /\ ~named => ~k.cascade

AreConstraints(S, tables, named) == IsFiniteSet(S) /\ \A k \in S : IsConstraint(k, tables, named)

Tidy(c, named) ==
  /\ DOMAIN c = {"schemas", "tables", "columns", "constraints", "indexes", "checks"}
  /\ IsFiniteSet(c.tables) /\ c.tables \subseteq Nat \X Nat
  /\ AreSound(c.columns, c.tables)
  /\ AreConstraints(c.constraints, c.tables, named)
  /\ AreSound(c.indexes, c.tables)

\* What statements on a table bring: a column, an index, a constraint.
BringsColumn == {"add column", "modify column", "alter column", "set default"}
BringsConstraint == {"add key", "add foreign key"}
BringsTable == {"create table", "copy table"}
BringsNothing == {"drop constraint", "drop index", "drop column", "drop table",
                  "drop schema", "create schema"}

Fits(s, named) ==
  /\ {"op", "table"} \subseteq DOMAIN s
  /\ s.op \in BringsColumn \cup BringsConstraint \cup BringsTable \cup BringsNothing \cup {"create index"}
  /\ s.table \in Nat \X Nat
  /\ s.op \in BringsColumn => AreSound({s.object}, {s.table}) /\ s.name = s.object.name
  /\ s.op = "create index" => AreSound({s.object}, {s.table})
  /\ s.op \in BringsConstraint => IsConstraint(s.object, {s.table}, named)
  /\ s.op \in BringsTable => /\ AreSound(s.object.columns, {s.table})
                             /\ AreConstraints(s.object.constraints, {s.table}, named)
                             /\ AreSound(s.object.indexes, {s.table})

\* The columns of a catalog, or of a table.
Cols(c) == {<<x.table, x.name>> : x \in c.columns}

LEMMA Unions ==
  ASSUME NEW T, NEW t, NEW S1, NEW S2, NEW named
  PROVE  /\ AreSound(S1, T) /\ AreSound(S2, {t}) => AreSound(S1 \cup S2, T \cup {t})
         /\ AreConstraints(S1, T, named) /\ AreConstraints(S2, {t}, named)
              => AreConstraints(S1 \cup S2, T \cup {t}, named)
<1>1. IsFiniteSet(S1) /\ IsFiniteSet(S2) => IsFiniteSet(S1 \cup S2)
  BY FS_Union
<1> QED
  BY <1>1 DEF AreSound, AreConstraints, IsConstraint

LEMMA Subsets ==
  ASSUME NEW T, NEW S, NEW R, R \subseteq S, NEW named
  PROVE  /\ AreSound(S, T) => AreSound(R, T)
         /\ AreConstraints(S, T, named) => AreConstraints(R, T, named)
<1>1. IsFiniteSet(S) => IsFiniteSet(R)
  BY FS_Subset
<1> QED
  BY <1>1 DEF AreSound, AreConstraints

LEMMA FewerTables ==
  ASSUME NEW T, NEW S, NEW R \in SUBSET T, NEW named
  PROVE  /\ AreSound(S, T) /\ (\A x \in S : x.table \in R) => AreSound(S, R)
         /\ AreConstraints(S, T, named) /\ (\A x \in S : x.table \in R) => AreConstraints(S, R, named)
BY DEF AreSound, AreConstraints, IsConstraint

\* The images of a finite set under a function are finitely many.
ImageOf(f) == {f[x] : x \in DOMAIN f}

LEMMA ImageFinite ==
  ASSUME NEW f, IsFiniteSet(DOMAIN f)
  PROVE  IsFiniteSet(ImageOf(f))
<1> DEFINE S == DOMAIN f
           T == {f[x] : x \in S}
           g == [x \in S |-> f[x]]
<1>1. g \in Surjection(S, T)
  BY DEF Surjection
<1> HIDE DEF g, T, S
<1>2. IsFiniteSet(T)
  BY <1>1, FS_Surjection DEF S
<1> QED
  BY <1>2 DEF ImageOf, T, S

-----------------------------------------------------------------------------
(* What the statements do                                                  *)

\* Columns come with a table or on their own, and go with their table or on their own.
Changes(c, e, s) ==
  /\ \A t \in e.tables : t \in c.tables \/ (s.op = "create table" /\ t = s.table)
  /\ \A v \in Cols(e) : v \in Cols(c) \/ (s.op \in BringsTable \cup {"add column"} /\ v[1] = s.table)
  /\ \A v \in Cols(c) : \/ v \in Cols(e)
                        \/ s.op = "drop table" /\ v[1] = s.table
                        \/ s.op = "drop schema" /\ Schema(v[1]) = Schema(s.table)
                        \/ s.op = "drop column" /\ v = <<s.table, s.name>>
                        \/ s.op = "copy table" /\ v[1] = s.table /\ v \notin Cols(s.object)

LEMMA Withouts ==
  ASSUME NEW c, NEW named, Tidy(c, named), NEW T, NEW w, w = WithoutTables(c, T)
  PROVE  /\ Tidy(w, named)
         /\ w.tables = c.tables \ T
         /\ w.columns \subseteq c.columns
         /\ w.constraints \subseteq c.constraints
         /\ w.indexes \subseteq c.indexes
         /\ \A v : v \in Cols(w) <=> v \in Cols(c) /\ v[1] \notin T
<1>1. /\ DOMAIN w = DOMAIN c
      /\ w.tables = c.tables \ T
      /\ w.columns = {x \in c.columns : x.table \notin T}
      /\ w.constraints = {k \in c.constraints : k.table \notin T /\ k.refTable \notin T}
      /\ w.indexes = {i \in c.indexes : i.table \notin T}
  BY DEF WithoutTables, Tidy
<1>2. IsFiniteSet(w.tables) /\ w.tables \in SUBSET c.tables
  BY <1>1, FS_Subset DEF Tidy
<1>3. AreSound(w.columns, w.tables)
  <2>1. AreSound(w.columns, c.tables)
    BY <1>1, Subsets DEF Tidy
  <2>2. \A x \in w.columns : x.table \in w.tables
    BY <1>1 DEF Tidy, AreSound
  <2> QED
    BY <1>2, <2>1, <2>2, FewerTables
<1>4. AreSound(w.indexes, w.tables)
  <2>1. AreSound(w.indexes, c.tables)
    BY <1>1, Subsets DEF Tidy
  <2>2. \A x \in w.indexes : x.table \in w.tables
    BY <1>1 DEF Tidy, AreSound
  <2> QED
    BY <1>2, <2>1, <2>2, FewerTables
<1>5. AreConstraints(w.constraints, w.tables, named)
  <2>1. AreConstraints(w.constraints, c.tables, named)
    BY <1>1, Subsets DEF Tidy
  <2>2. \A x \in w.constraints : x.table \in w.tables
    BY <1>1 DEF Tidy, AreConstraints, IsConstraint
  <2> QED
    BY <1>2, <2>1, <2>2, FewerTables
<1>6. Tidy(w, named)
  BY <1>1, <1>2, <1>3, <1>4, <1>5 DEF Tidy
<1>7. \A v : v \in Cols(w) <=> v \in Cols(c) /\ v[1] \notin T
  BY <1>1 DEF Cols
<1> QED
  BY <1>1, <1>6, <1>7

\* Other constraints and indexes, or fewer.
LEMMA OtherConstraints ==
  ASSUME NEW c, NEW e, NEW named, Tidy(c, named),
         DOMAIN e = DOMAIN c, e.tables = c.tables, e.columns = c.columns,
         AreConstraints(e.constraints, c.tables, named), AreSound(e.indexes, c.tables)
  PROVE  Tidy(e, named) /\ \A s : Changes(c, e, s)
<1>1. Tidy(e, named)
  BY DEF Tidy
<1>2. Cols(e) = Cols(c)
  BY DEF Cols
<1> QED
  BY <1>1, <1>2 DEF Changes

\* Other columns, but of the same names.
LEMMA OtherColumns ==
  ASSUME NEW c, NEW e, NEW named, Tidy(c, named), NEW new, DOMAIN new = c.columns,
         \A x \in c.columns : /\ {"table", "name"} \subseteq DOMAIN new[x]
                              /\ new[x].table = x.table /\ new[x].name = x.name,
         DOMAIN e = DOMAIN c, e.tables = c.tables, e.columns = ImageOf(new),
         AreConstraints(e.constraints, c.tables, named), AreSound(e.indexes, c.tables)
  PROVE  Tidy(e, named) /\ \A s : Changes(c, e, s)
<1>1. IsFiniteSet(e.columns)
  BY ImageFinite DEF Tidy, AreSound
<1>2. AreSound(e.columns, c.tables)
  BY <1>1 DEF Tidy, AreSound, ImageOf
<1>3. Tidy(e, named)
  BY <1>2 DEF Tidy
<1>4. Cols(e) = Cols(c)
  BY DEF Cols, ImageOf
<1> QED
  BY <1>3, <1>4 DEF Changes

\* A column goes with what is in the indexes and the keys of it.
LEMMA DropColumnTidy ==
  ASSUME NEW c, NEW s, NEW named, Tidy(c, named), Fits(s, named), s.op = "drop column"
  PROVE  Tidy(EffectOf(c, s), named) /\ Changes(c, EffectOf(c, s), s)
<1> DEFINE e == EffectOf(c, s)
           Less1(y) == IF y.table = s.table THEN [y EXCEPT !.columns = @ \ {s.name}] ELSE y
           Rest(S) == {x \in {Less1(y) : y \in S} : x.columns # {}}
<1>1. CASE dialect = "mysql"
  <2>1. /\ DOMAIN e = DOMAIN c
        /\ e.tables = c.tables
        /\ e.columns = {x \in c.columns : x.table # s.table \/ x.name # s.name}
        /\ e.constraints = Rest(c.constraints)
        /\ e.indexes = Rest(c.indexes)
    BY <1>1 DEF EffectOf, Replaced, Tidy
  <2>2. ASSUME NEW S, IsFiniteSet(S)
        PROVE  IsFiniteSet(Rest(S))
    <3> DEFINE f == [y \in S |-> Less1(y)]
    <3>1. IsFiniteSet(ImageOf(f))
      <4>1. DOMAIN f = S
        OBVIOUS
      <4> HIDE DEF f
      <4> QED
        BY <2>2, <4>1, ImageFinite
    <3>2. Rest(S) \subseteq ImageOf(f)
      BY DEF ImageOf
    <3> HIDE DEF f, Rest
    <3> QED
      BY <3>1, <3>2, FS_Subset
  <2>3. AreSound(e.indexes, c.tables)
    <3>1. ASSUME NEW y \in c.indexes
          PROVE  LET x == Less1(y) IN {"table", "name"} \subseteq DOMAIN x /\ x.table \in c.tables /\ x.name \in Nat
      BY DEF Tidy, AreSound
    <3>2. \A x \in e.indexes : {"table", "name"} \subseteq DOMAIN x /\ x.table \in c.tables /\ x.name \in Nat
      BY <2>1, <3>1
    <3> QED
      BY <2>1, <2>2, <3>2 DEF Tidy, AreSound
  <2>4. AreConstraints(e.constraints, c.tables, named)
    <3>1. ASSUME NEW y \in c.constraints
          PROVE  IsConstraint(Less1(y), c.tables, named)
      BY DEF Tidy, AreConstraints, IsConstraint
    <3>2. \A x \in e.constraints : IsConstraint(x, c.tables, named)
      BY <2>1, <3>1
    <3> QED
      BY <2>1, <2>2, <3>2 DEF Tidy, AreConstraints
  <2> HIDE DEF Rest
  <2>5. AreSound(e.columns, c.tables)
    BY <2>1, Subsets DEF Tidy
  <2> HIDE DEF e
  <2>6. Tidy(e, named)
    BY <2>1, <2>3, <2>4, <2>5 DEF Tidy
  <2>7. Changes(c, e, s)
    BY <2>1 DEF Changes, Cols
  <2> QED
    BY <2>6, <2>7 DEF e
<1>2. CASE dialect # "mysql"
  <2>1. e = EffectOnTables(c, s)
    BY <1>2 DEF EffectOf, Effect, TableStatements, ConstraintStatements
  <2>2. /\ DOMAIN e = DOMAIN c
        /\ e.tables = c.tables
        /\ e.columns = {x \in c.columns : x.table # s.table \/ x.name # s.name}
        /\ e.constraints \subseteq c.constraints
        /\ e.indexes \subseteq c.indexes
    BY <2>1 DEF EffectOnTables, Tidy
  <2> HIDE DEF e
  <2>3. /\ AreSound(e.indexes, c.tables)
        /\ AreConstraints(e.constraints, c.tables, named)
        /\ AreSound(e.columns, c.tables)
    BY <2>2, Subsets DEF Tidy
  <2>4. Tidy(e, named)
    BY <2>2, <2>3 DEF Tidy
  <2>5. Changes(c, e, s)
    BY <2>2 DEF Changes, Cols
  <2> QED
    BY <2>4, <2>5 DEF e
<1> QED
  BY <1>1, <1>2

\* A table comes, or is replaced.
LEMMA NewTableTidy ==
  ASSUME NEW c, NEW s, NEW named, Tidy(c, named), Fits(s, named), s.op \in BringsTable,
         ~Rejects(c, s)
  PROVE  Tidy(EffectOf(c, s), named) /\ Changes(c, EffectOf(c, s), s)
<1> DEFINE e == EffectOf(c, s)
<1> PICK w : w = WithoutTables(c, {s.table})
  OBVIOUS
<1>1. /\ DOMAIN c = {"schemas", "tables", "columns", "constraints", "indexes", "checks"}
      /\ s.op = "copy table" => s.table \in c.tables
  BY DEF Tidy, Rejects
<1>2. /\ Tidy(w, named)
      /\ DOMAIN w = DOMAIN c
      /\ w.tables = c.tables \ {s.table}
      /\ \A v : v \in Cols(w) <=> v \in Cols(c) /\ v[1] \notin {s.table}
  <2>1. /\ Tidy(w, named)
        /\ w.tables = c.tables \ {s.table}
        /\ \A v : v \in Cols(w) <=> v \in Cols(c) /\ v[1] \notin {s.table}
    BY Withouts
  <2>2. DOMAIN w = DOMAIN c
    BY <2>1 DEF Tidy
  <2> QED
    BY <2>1, <2>2
<1>3. /\ DOMAIN e = DOMAIN c
      /\ s.op = "create table" =>
           /\ e.tables = c.tables \cup {s.table}
           /\ e.columns = c.columns \cup s.object.columns
           /\ e.constraints = c.constraints \cup s.object.constraints
           /\ e.indexes = c.indexes \cup s.object.indexes
      /\ s.op = "copy table" =>
           /\ e.tables = w.tables \cup {s.table}
           /\ e.columns = w.columns \cup s.object.columns
           /\ e.constraints = {k \in c.constraints : k.table # s.table} \cup s.object.constraints
           /\ e.indexes = w.indexes \cup s.object.indexes
  <2>1. CASE s.op = "create table"
    <3>1. e = EffectOnTables(c, s)
      BY <2>1 DEF EffectOf, Effect, TableStatements, ConstraintStatements
    <3> QED
      BY <1>1, <2>1, <3>1 DEF EffectOnTables
  <2>2. CASE s.op = "copy table"
    <3>1. e = [w EXCEPT !.tables = @ \cup {s.table},
                        !.columns = @ \cup s.object.columns,
                        !.constraints = {k \in c.constraints : k.table # s.table} \cup s.object.constraints,
                        !.indexes = @ \cup s.object.indexes]
      BY <2>2 DEF EffectOf, Replaced
    <3> QED
      BY <1>1, <1>2, <2>2, <3>1
  <2> QED
    BY <2>1, <2>2 DEF BringsTable
<1> HIDE DEF e
<1>4. /\ AreSound(s.object.columns, {s.table})
      /\ AreConstraints(s.object.constraints, {s.table}, named)
      /\ AreSound(s.object.indexes, {s.table})
      /\ s.table \in Nat \X Nat
  BY DEF Fits
<1>5. e.tables = c.tables \cup {s.table}
  <2>1. CASE s.op = "create table"
    BY <1>3, <2>1
  <2>2. CASE s.op = "copy table"
    BY <1>2, <1>3, <2>2
  <2> QED
    BY <2>1, <2>2 DEF BringsTable
<1>6. IsFiniteSet(e.tables) /\ e.tables \subseteq Nat \X Nat
  <2>1. IsFiniteSet(c.tables) /\ IsFiniteSet({s.table}) /\ c.tables \subseteq Nat \X Nat
    BY FS_Singleton DEF Tidy
  <2>2. IsFiniteSet(c.tables \cup {s.table})
    BY <2>1, FS_Union
  <2> QED
    BY <1>4, <1>5, <2>1, <2>2
<1>7. AreSound(e.columns, e.tables) /\ AreSound(e.indexes, e.tables) /\ AreConstraints(e.constraints, e.tables, named)
  <2>1. CASE s.op = "create table"
    <3>1. /\ AreSound(c.columns, c.tables) /\ AreSound(c.indexes, c.tables)
          /\ AreConstraints(c.constraints, c.tables, named)
      BY DEF Tidy
    <3>2. AreSound(c.columns \cup s.object.columns, c.tables \cup {s.table})
      BY <1>4, <3>1, Unions
    <3>3. AreSound(c.indexes \cup s.object.indexes, c.tables \cup {s.table})
      BY <1>4, <3>1, Unions
    <3>4. AreConstraints(c.constraints \cup s.object.constraints, c.tables \cup {s.table}, named)
      BY <1>4, <3>1, Unions
    <3> QED
      BY <1>3, <1>5, <2>1, <3>2, <3>3, <3>4
  <2>2. CASE s.op = "copy table"
    <3>1. AreConstraints({k \in c.constraints : k.table # s.table}, c.tables, named)
      BY Subsets DEF Tidy
    <3>2. AreSound(w.columns, c.tables) /\ AreSound(w.indexes, c.tables)
      BY <1>2 DEF Tidy, AreSound
    <3>3. AreSound(w.columns \cup s.object.columns, c.tables \cup {s.table})
      BY <1>4, <3>2, Unions
    <3>4. AreSound(w.indexes \cup s.object.indexes, c.tables \cup {s.table})
      BY <1>4, <3>2, Unions
    <3>5. AreConstraints({k \in c.constraints : k.table # s.table} \cup s.object.constraints,
                         c.tables \cup {s.table}, named)
      BY <1>4, <3>1, Unions
    <3> QED
      BY <1>3, <1>5, <2>2, <3>3, <3>4, <3>5
  <2> QED
    BY <2>1, <2>2 DEF BringsTable
<1>8. Tidy(e, named)
  <2>1. DOMAIN e = {"schemas", "tables", "columns", "constraints", "indexes", "checks"}
    BY <1>1, <1>3
  <2> QED
    BY <1>6, <1>7, <2>1 DEF Tidy
<1>9. ASSUME NEW v \in Cols(s.object)
      PROVE  v[1] = s.table
  <2>1. PICK x \in s.object.columns : v = <<x.table, x.name>>
    BY DEF Cols
  <2>2. x.table = s.table
    BY <1>4 DEF AreSound
  <2>3. v[1] = x.table
    BY <2>1
  <2> QED
    BY <2>2, <2>3
<1>10. Changes(c, e, s)
  <2>1. CASE s.op = "create table"
    <3>1. Cols(e) = Cols(c) \cup Cols(s.object)
      BY <1>3, <2>1 DEF Cols
    <3> QED
      BY <1>5, <1>9, <2>1, <3>1 DEF Changes, BringsTable
  <2>2. CASE s.op = "copy table"
    <3>1. \A v : v \in Cols(e) <=> v \in Cols(w) \/ v \in Cols(s.object)
      BY <1>3, <2>2 DEF Cols
    <3>2. \A v : v \in Cols(w) <=> v \in Cols(c) /\ v[1] # s.table
      BY <1>2
    <3>3. e.tables = c.tables
      BY <1>1, <1>5, <2>2
    <3> QED
      BY <1>9, <2>2, <3>1, <3>2, <3>3 DEF Changes, BringsTable
  <2> QED
    BY <2>1, <2>2 DEF BringsTable
<1> QED
  BY <1>8, <1>10 DEF e

\* Any statement that is not rejected leaves a database as it should be.
LEMMA EffectTidy ==
  ASSUME NEW c, NEW s, NEW named, Tidy(c, named), Fits(s, named), ~Rejects(c, s),
         dialect = "mysql" => named
  PROVE  Tidy(EffectOf(c, s), named) /\ Changes(c, EffectOf(c, s), s)
<1> DEFINE e == EffectOf(c, s)
<1>1. /\ DOMAIN c = {"schemas", "tables", "columns", "constraints", "indexes", "checks"}
      /\ AreConstraints(c.constraints, c.tables, named)
      /\ AreSound(c.indexes, c.tables)
  BY DEF Tidy
<1>2. s.op \notin {"create table", "drop table", "create schema", "drop schema"} => s.table \in c.tables
  BY DEF Rejects
<1>3. CASE s.op = "drop table"
  <2>1. e = WithoutTables(c, {s.table})
    BY <1>3 DEF EffectOf, Effect, TableStatements, ConstraintStatements, EffectOnTables
  <2> HIDE DEF e
  <2>2. /\ Tidy(e, named)
        /\ e.tables \subseteq c.tables
        /\ \A v : v \in Cols(e) <=> v \in Cols(c) /\ v[1] \notin {s.table}
    BY <2>1, Withouts
  <2>3. Changes(c, e, s)
    BY <1>3, <2>2 DEF Changes
  <2> QED
    BY <2>2, <2>3 DEF e
<1>4. CASE s.op = "drop schema"
  <2> PICK T : T = {t \in c.tables : Schema(t) = Schema(s.table)}
    OBVIOUS
  <2> PICK w : w = WithoutTables(c, T)
    OBVIOUS
  <2>1. e = [w EXCEPT !.schemas = @ \ {Schema(s.table)}]
    BY <1>4 DEF EffectOf, Effect, TableStatements, ConstraintStatements, EffectOnTables
  <2> HIDE DEF e
  <2>2. /\ Tidy(w, named)
        /\ w.tables \subseteq c.tables
        /\ \A v : v \in Cols(w) <=> v \in Cols(c) /\ v[1] \notin T
    BY Withouts
  <2>3. /\ DOMAIN e = DOMAIN w /\ e.tables = w.tables /\ e.columns = w.columns
        /\ e.constraints = w.constraints /\ e.indexes = w.indexes
    BY <2>1, <2>2 DEF Tidy
  <2>4. Tidy(e, named) /\ Cols(e) = Cols(w)
    BY <2>2, <2>3 DEF Tidy, Cols
  <2>5. Changes(c, e, s)
    BY <1>4, <2>2, <2>3, <2>4 DEF Changes
  <2> QED
    BY <2>4, <2>5 DEF e
<1>5. CASE s.op = "create schema"
  <2>1. e = [c EXCEPT !.schemas = @ \cup {Schema(s.table)}]
    BY <1>5 DEF EffectOf, Effect, TableStatements, ConstraintStatements, EffectOnTables
  <2>2. /\ DOMAIN e = DOMAIN c /\ e.tables = c.tables /\ e.columns = c.columns
        /\ e.constraints = c.constraints /\ e.indexes = c.indexes
    BY <1>1, <2>1
  <2> HIDE DEF e
  <2>3. Tidy(e, named) /\ Changes(c, e, s)
    BY <1>1, <2>2, OtherConstraints
  <2> QED
    BY <2>3 DEF e
<1>6. CASE s.op \in {"drop constraint", "drop index"}
  <2>1. /\ DOMAIN e = DOMAIN c /\ e.tables = c.tables /\ e.columns = c.columns
        /\ e.constraints \subseteq c.constraints /\ e.indexes \subseteq c.indexes
    <3>1. CASE s.op = "drop constraint"
      <4>1. e = EffectOnConstraint(c, s)
        BY <3>1 DEF EffectOf, Effect, TableStatements, ConstraintStatements
      <4> QED
        BY <1>1, <3>1, <4>1 DEF EffectOnConstraint
    <3>2. CASE s.op = "drop index"
      <4>1. e = [c EXCEPT !.indexes = {i \in @ : i.table # s.table \/ i.name # s.name}]
        BY <3>2 DEF EffectOf
      <4> QED
        BY <1>1, <4>1
    <3> QED
      BY <1>6, <3>1, <3>2
  <2> HIDE DEF e
  <2>2. AreConstraints(e.constraints, c.tables, named) /\ AreSound(e.indexes, c.tables)
    BY <1>1, <2>1, Subsets
  <2>3. Tidy(e, named) /\ Changes(c, e, s)
    BY <2>1, <2>2, OtherConstraints
  <2> QED
    BY <2>3 DEF e
<1>7. CASE s.op = "create index"
  <2>1. e = EffectOnTables(c, s)
    BY <1>7 DEF EffectOf, Effect, TableStatements, ConstraintStatements
  <2>2. /\ DOMAIN e = DOMAIN c /\ e.tables = c.tables /\ e.columns = c.columns
        /\ e.constraints = c.constraints /\ e.indexes = c.indexes \cup {s.object}
    BY <1>1, <1>7, <2>1 DEF EffectOnTables
  <2> HIDE DEF e
  <2>3. AreSound(e.indexes, c.tables)
    <3>1. AreSound({s.object}, {s.table})
      BY <1>7 DEF Fits
    <3>2. AreSound(c.indexes \cup {s.object}, c.tables \cup {s.table})
      BY <1>1, <3>1, Unions
    <3>3. c.tables \cup {s.table} = c.tables
      BY <1>2, <1>7
    <3> QED
      BY <2>2, <3>2, <3>3
  <2>4. Tidy(e, named) /\ Changes(c, e, s)
    BY <1>1, <2>2, <2>3, OtherConstraints
  <2> QED
    BY <2>4 DEF e
<1>8. CASE s.op = "add column"
  <2>1. e = EffectOnTables(c, s)
    BY <1>8 DEF EffectOf, Effect, TableStatements, ConstraintStatements
  <2>2. /\ DOMAIN e = DOMAIN c /\ e.tables = c.tables /\ e.columns = c.columns \cup {s.object}
        /\ e.constraints = c.constraints /\ e.indexes = c.indexes
    BY <1>1, <1>8, <2>1 DEF EffectOnTables
  <2> HIDE DEF e
  <2>3. AreSound({s.object}, {s.table})
    BY <1>8 DEF Fits, BringsColumn
  <2>4. AreSound(e.columns, c.tables)
    <3>1. AreSound(c.columns \cup {s.object}, c.tables \cup {s.table})
      BY <2>3, Unions DEF Tidy
    <3>2. c.tables \cup {s.table} = c.tables
      BY <1>2, <1>8
    <3> QED
      BY <2>2, <3>1, <3>2
  <2>5. Tidy(e, named)
    BY <2>2, <2>4 DEF Tidy
  <2>6. Changes(c, e, s)
    <3>1. s.object.table = s.table
      BY <2>3 DEF AreSound
    <3>2. \A v : v \in Cols(e) <=> v \in Cols(c) \/ v = <<s.object.table, s.object.name>>
      BY <2>2 DEF Cols
    <3>3. \A v : v = <<s.object.table, s.object.name>> => v[1] = s.table
      BY <3>1
    <3> QED
      BY <1>8, <2>2, <3>2, <3>3 DEF Changes
  <2> QED
    BY <2>5, <2>6 DEF e
<1>9. CASE s.op \in {"modify column", "alter column", "set default"}
  <2>1. PICK new :
          /\ DOMAIN new = c.columns
          /\ e = [c EXCEPT !.columns = ImageOf(new)]
          /\ \A x \in c.columns : /\ {"table", "name"} \subseteq DOMAIN new[x]
                                  /\ new[x].table = x.table /\ new[x].name = x.name
    <3>1. \A x \in c.columns : {"table", "name"} \subseteq DOMAIN x
      BY DEF Tidy, AreSound
    <3>2. CASE s.op = "modify column"
      <4> DEFINE new == [x \in c.columns |-> IF x.table = s.table /\ x.name = s.name THEN s.object ELSE x]
      <4>1. e = [c EXCEPT !.columns = ImageOf(new)]
        BY <1>1, <3>2 DEF EffectOf, Replaced, ImageOf
      <4>2. {"table", "name"} \subseteq DOMAIN s.object /\ s.object.table = s.table /\ s.object.name = s.name
        BY <3>2 DEF Fits, BringsColumn, AreSound
      <4>3. \A x \in c.columns : /\ {"table", "name"} \subseteq DOMAIN new[x]
                                 /\ new[x].table = x.table /\ new[x].name = x.name
        BY <3>1, <4>2
      <4> QED
        BY <4>1, <4>3
    <3>3. CASE s.op = "alter column"
      <4> DEFINE new == [x \in c.columns |->
                           IF x.table = s.table /\ x.name = s.name
                           THEN [x EXCEPT !.type = s.object.type, !.collation = s.object.collation,
                                          !.notNull = s.object.notNull] ELSE x]
      <4>1. e = [c EXCEPT !.columns = ImageOf(new)]
        BY <1>1, <3>3 DEF EffectOf, Replaced, ImageOf
      <4>2. \A x \in c.columns : /\ {"table", "name"} \subseteq DOMAIN new[x]
                                 /\ new[x].table = x.table /\ new[x].name = x.name
        BY <3>1
      <4> QED
        BY <4>1, <4>2
    <3>4. CASE s.op = "set default"
      <4> DEFINE new == [x \in c.columns |->
                           IF x.table = s.table /\ x.name = s.name THEN NewColumn(x, s) ELSE x]
      <4>1. e = EffectOnColumn(c, s)
        BY <3>4 DEF EffectOf, Effect, TableStatements, ConstraintStatements
      <4>2. e = [c EXCEPT !.columns = ImageOf(new)]
        <5>1. {IF x.table = s.table /\ x.name = s.name THEN NewColumn(x, s) ELSE x : x \in c.columns}
              = ImageOf(new)
          BY DEF ImageOf
        <5> QED
          BY <3>4, <4>1, <5>1 DEF EffectOnColumn
      <4>3. \A x : NewColumn(x, s) = [x EXCEPT !.default = s.object.default]
        BY <3>4 DEF NewColumn
      <4>4. \A x \in c.columns : /\ {"table", "name"} \subseteq DOMAIN new[x]
                                 /\ new[x].table = x.table /\ new[x].name = x.name
        BY <3>1, <4>3
      <4> QED
        BY <4>2, <4>4
    <3> QED
      BY <1>9, <3>2, <3>3, <3>4
  <2>2. /\ DOMAIN e = DOMAIN c /\ e.tables = c.tables /\ e.columns = ImageOf(new)
        /\ e.constraints = c.constraints /\ e.indexes = c.indexes
    BY <1>1, <2>1
  <2> HIDE DEF e
  <2>3. Tidy(e, named) /\ Changes(c, e, s)
    BY <1>1, <2>1, <2>2, OtherColumns
  <2> QED
    BY <2>3 DEF e
<1>10. CASE s.op = "add key"
  <2> DEFINE new == [x \in c.columns |->
                       IF x.table = s.table /\ x.name \in s.object.columns
                       THEN [x EXCEPT !.notNull = @ \/ s.object.type = PRIMARY_KEY] ELSE x]
  <2>1. e = EffectOnConstraint(c, s)
    BY <1>10 DEF EffectOf, Effect, TableStatements, ConstraintStatements
  <2>2. /\ DOMAIN e = DOMAIN c /\ e.tables = c.tables /\ e.columns = ImageOf(new)
        /\ e.constraints = c.constraints \cup {s.object}
        /\ e.indexes \subseteq c.indexes
    <3>1. e = [c EXCEPT !.indexes = {i \in @ : i.table # s.table \/ i.name # s.name},
                        !.constraints = @ \cup {s.object},
                        !.columns = ImageOf(new)]
      <4>1. {IF x.table = s.table /\ x.name \in s.object.columns
             THEN [x EXCEPT !.notNull = @ \/ s.object.type = PRIMARY_KEY] ELSE x : x \in c.columns}
            = ImageOf(new)
        BY DEF ImageOf
      <4>2. e = [c EXCEPT !.indexes = {i \in @ : i.table # s.table \/ i.name # s.name},
                          !.constraints = @ \cup {s.object},
                          !.columns = {IF x.table = s.table /\ x.name \in s.object.columns
                                       THEN [x EXCEPT !.notNull = @ \/ s.object.type = PRIMARY_KEY] ELSE x
                                       : x \in @}]
        BY <1>10, <2>1 DEF EffectOnConstraint
      <4> HIDE DEF e, new
      <4> QED
        BY <4>1, <4>2
    <3> HIDE DEF e, new
    <3> QED
      BY <1>1, <3>1
  <2>3. \A x \in c.columns : /\ {"table", "name"} \subseteq DOMAIN new[x]
                             /\ new[x].table = x.table /\ new[x].name = x.name
    BY DEF Tidy, AreSound
  <2>4. DOMAIN new = c.columns
    OBVIOUS
  <2> HIDE DEF e, new
  <2>5. AreSound(e.indexes, c.tables)
    BY <1>1, <2>2, Subsets
  <2>6. AreConstraints(e.constraints, c.tables, named)
    <3>1. IsConstraint(s.object, c.tables, named)
      <4>1. IsConstraint(s.object, {s.table}, named)
        BY <1>10 DEF Fits, BringsConstraint
      <4> QED
        BY <1>2, <1>10, <4>1 DEF IsConstraint
    <3> QED
      BY <1>1, <2>2, <3>1, FS_AddElement DEF AreConstraints
  <2>7. Tidy(e, named) /\ Changes(c, e, s)
    BY <2>2, <2>3, <2>4, <2>5, <2>6, OtherColumns
  <2> QED
    BY <2>7 DEF e
<1>11. CASE s.op = "add foreign key"
  <2> PICK k : k = [s.object EXCEPT !.table = s.table]
    OBVIOUS
  <2>1. IsConstraint(k, c.tables, named) /\ IsConstraint(s.object, c.tables, named)
    <3>1. IsConstraint(s.object, {s.table}, named)
      BY <1>11 DEF Fits, BringsConstraint
    <3> QED
      BY <1>2, <1>11, <3>1 DEF IsConstraint
  <2>2. /\ DOMAIN e = DOMAIN c /\ e.tables = c.tables /\ e.columns = c.columns
        /\ e.constraints = c.constraints \cup {k}
        /\ \/ e.indexes = c.indexes
           \/ /\ dialect = "mysql"
              /\ e.indexes = c.indexes \cup {Index(s.object.table, s.object.name, s.object.columns, FALSE)}
    <3>1. EffectOnConstraint(c, s) = [c EXCEPT !.constraints = @ \cup {k}]
      BY <1>11 DEF EffectOnConstraint
    <3>2. Effect(c, s) = [c EXCEPT !.constraints = @ \cup {k}]
      BY <1>11, <3>1 DEF Effect, TableStatements, ConstraintStatements
    <3>3. CASE dialect = "mysql"
      <4>1. e = WithIndex(Effect(c, s), s.object)
        BY <1>11, <3>3 DEF EffectOf
      <4> PICK i : i = Index(s.object.table, s.object.name, s.object.columns, FALSE)
        OBVIOUS
      <4>2. e = Effect(c, s) \/ e = [Effect(c, s) EXCEPT !.indexes = @ \cup {i}]
        BY <4>1 DEF WithIndex
      <4> QED
        BY <1>1, <3>2, <3>3, <4>2
    <3>4. CASE dialect # "mysql"
      <4>1. e = Effect(c, s)
        BY <1>11, <3>4 DEF EffectOf
      <4> QED
        BY <1>1, <3>2, <4>1
    <3> QED
      BY <3>3, <3>4
  <2> HIDE DEF e
  <2>3. AreConstraints(e.constraints, c.tables, named)
    BY <1>1, <2>1, <2>2, FS_AddElement DEF AreConstraints
  <2>4. AreSound(e.indexes, c.tables)
    <3>1. CASE e.indexes = c.indexes
      BY <1>1, <3>1
    <3>2. CASE e.indexes # c.indexes
      <4> PICK i : i = Index(s.object.table, s.object.name, s.object.columns, FALSE)
        OBVIOUS
      <4>1. e.indexes = c.indexes \cup {i} /\ named
        BY <2>2, <3>2
      <4>2. {"table", "name"} \subseteq DOMAIN i /\ i.table \in c.tables /\ i.name \in Nat
        BY <2>1, <4>1 DEF Index, IsConstraint
      <4>3. IsFiniteSet(c.indexes \cup {i})
        BY <1>1, FS_AddElement DEF AreSound
      <4> QED
        BY <1>1, <4>1, <4>2, <4>3 DEF AreSound
    <3> QED
      BY <3>1, <3>2
  <2>5. Tidy(e, named) /\ Changes(c, e, s)
    BY <2>2, <2>3, <2>4, OtherConstraints
  <2> QED
    BY <2>5 DEF e
<1> QED
  <2>1. s.op \in BringsColumn \cup BringsConstraint \cup BringsTable \cup BringsNothing \cup {"create index"}
    BY DEF Fits
  <2>2. CASE s.op \in BringsTable
    BY <2>2, NewTableTidy
  <2>3. CASE s.op = "drop column"
    BY <2>3, DropColumnTidy
  <2> QED
    BY <1>3, <1>4, <1>5, <1>6, <1>7, <1>8, <1>9, <1>10, <1>11, <2>1, <2>2, <2>3
       DEF BringsColumn, BringsConstraint, BringsNothing

-----------------------------------------------------------------------------
(* The steps of a migration                                                *)

\* What takes something away was asked for, and is not of a column declared, C.
Asked(s, C, drop) ==
  /\ s.op = "drop table" => drop /\ \A v \in C : v[1] # s.table
  /\ s.op = "drop schema" => drop /\ \A v \in C : Schema(v[1]) # Schema(s.table)
  /\ s.op = "drop column" => drop /\ <<s.table, s.name>> \notin C
  /\ s.op = "copy table" => drop /\ \A v \in C : v[1] = s.table => v \in Cols(s.object)

\* What is made is not there, and a copy has what there is of the columns declared.
New(s, c, C) ==
  /\ s.op = "create table" => s.table \notin c.tables
  /\ s.op = "create schema" => \A t \in c.tables : Schema(t) # Schema(s.table)
  /\ s.op = "copy table" => \A v \in Cols(c) : v \in C /\ v[1] = s.table => v[2] \in s.object.copied

Right(x, named, c, C, drop) ==
  Placed(x) /\ Fits(x.stmt, named) /\ Asked(x.stmt, C, drop) /\ New(x.stmt, c, C)

AllRight(S, named, c, C, drop) == IsFiniteSet(S) /\ \A x \in S : Right(x, named, c, C, drop)

\* Those that make no table.
Ordinary(x, named, c, C, drop) == Right(x, named, c, C, drop) /\ x.stmt.op \notin BringsTable

AllOrdinary(S, named, c, C, drop) == IsFiniteSet(S) /\ \A x \in S : Ordinary(x, named, c, C, drop)

LEMMA OrdinaryUnion ==
  ASSUME NEW S, NEW T, NEW named, NEW c, NEW C, NEW drop,
         AllOrdinary(S, named, c, C, drop), AllOrdinary(T, named, c, C, drop)
  PROVE  AllOrdinary(S \cup T, named, c, C, drop)
<1>1. IsFiniteSet(S \cup T)
  BY FS_Union DEF AllOrdinary
<1> QED
  BY <1>1 DEF AllOrdinary

LEMMA RightImage ==
  ASSUME NEW f, IsFiniteSet(DOMAIN f), NEW named, NEW c, NEW C, NEW drop,
         \A x \in DOMAIN f : Right(f[x], named, c, C, drop)
  PROVE  AllRight(ImageOf(f), named, c, C, drop)
BY ImageFinite DEF AllRight, ImageOf

LEMMA OrdinaryImage ==
  ASSUME NEW f, IsFiniteSet(DOMAIN f), NEW named, NEW c, NEW C, NEW drop,
         \A x \in DOMAIN f : Ordinary(f[x], named, c, C, drop)
  PROVE  AllOrdinary(ImageOf(f), named, c, C, drop)
BY ImageFinite DEF AllOrdinary, ImageOf

LEMMA Tuples ==
  /\ \A i \in Nat : <<i>> \in Seq(Nat)
  /\ \A i, j \in Nat : <<i, j>> \in Seq(Nat)
  /\ \A i, j, k \in Nat : <<i, j, k>> \in Seq(Nat)
  /\ \A i, j, k, l \in Nat : <<i, j, k, l>> \in Seq(Nat)
  /\ \A t \in Nat \X Nat : t \in Seq(Nat) /\ t[1] \in Nat /\ t[2] \in Nat
  /\ \A s, t \in Seq(Nat) : s \o t \in Seq(Nat)
<1>1. ASSUME NEW t \in Nat \X Nat
      PROVE  t \in Seq(Nat) /\ t[1] \in Nat /\ t[2] \in Nat
  <2>1. t = <<t[1], t[2]>> /\ t[1] \in Nat /\ t[2] \in Nat
    OBVIOUS
  <2>2. <<t[1], t[2]>> \in Seq(Nat)
    BY <2>1
  <2> QED
    BY <2>1, <2>2
<1>2. \A s, t \in Seq(Nat) : s \o t \in Seq(Nat)
  BY ConcatProperties
<1>3. \A i \in Nat : <<i>> \in Seq(Nat)
  OBVIOUS
<1>4. \A i, j \in Nat : <<i, j>> \in Seq(Nat)
  OBVIOUS
<1>5. \A i, j, k \in Nat : <<i, j, k>> \in Seq(Nat)
  OBVIOUS
<1>6. \A i, j, k, l \in Nat : <<i, j, k, l>> \in Seq(Nat)
  OBVIOUS
<1> QED
  BY <1>1, <1>2, <1>3, <1>4, <1>5, <1>6

\* The kinds of statements.
LEMMA KindsFit ==
  ASSUME NEW s, NEW named, {"op", "table"} \subseteq DOMAIN s, s.table \in Nat \X Nat
  PROVE  /\ s.op \in BringsNothing => Fits(s, named)
         /\ s.op \in BringsColumn /\ s.name = s.object.name /\ AreSound({s.object}, {s.table})
              => Fits(s, named)
         /\ s.op = "create index" /\ AreSound({s.object}, {s.table}) => Fits(s, named)
         /\ s.op \in BringsConstraint /\ IsConstraint(s.object, {s.table}, named) => Fits(s, named)
<1>1. CASE s.op \in BringsNothing
  <2>1. s.op \notin BringsColumn \cup BringsConstraint \cup BringsTable \cup {"create index"}
    BY <1>1 DEF BringsColumn, BringsConstraint, BringsTable, BringsNothing
  <2> QED
    BY <1>1, <2>1 DEF Fits
<1>2. CASE s.op \in BringsColumn
  <2>1. s.op \notin BringsConstraint \cup BringsTable \cup BringsNothing \cup {"create index"}
    BY <1>2 DEF BringsColumn, BringsConstraint, BringsTable, BringsNothing
  <2> QED
    BY <1>2, <2>1 DEF Fits
<1>3. CASE s.op = "create index"
  <2>1. s.op \notin BringsColumn \cup BringsConstraint \cup BringsTable \cup BringsNothing
    BY <1>3 DEF BringsColumn, BringsConstraint, BringsTable, BringsNothing
  <2> QED
    BY <1>3, <2>1 DEF Fits
<1>4. CASE s.op \in BringsConstraint
  <2>1. s.op \notin BringsColumn \cup BringsTable \cup BringsNothing \cup {"create index"}
    BY <1>4 DEF BringsColumn, BringsConstraint, BringsTable, BringsNothing
  <2> QED
    BY <1>4, <2>1 DEF Fits
<1> QED
  BY <1>1, <1>2, <1>3, <1>4

\* What takes nothing away and makes no schema or table.
Plain == BringsColumn \cup BringsConstraint \cup {"drop constraint", "drop index", "create index"}

LEMMA RightStep ==
  ASSUME NEW file \in Seq(Nat), NEW at \in Seq(Nat), NEW s, NEW named, NEW c, NEW C, NEW drop,
         Fits(s, named)
  PROVE  /\ Step(file, at, s).stmt = s
         /\ Asked(s, C, drop) /\ New(s, c, C) => Right(Step(file, at, s), named, c, C, drop)
         /\ Asked(s, C, drop) /\ New(s, c, C) /\ s.op \notin BringsTable
              => Ordinary(Step(file, at, s), named, c, C, drop)
         /\ s.op \in Plain => Ordinary(Step(file, at, s), named, c, C, drop)
<1> PICK x : x = Step(file, at, s)
  OBVIOUS
<1>1. Placed(x) /\ x.stmt = s
  BY DEF Step, Placed
<1>2. s.op \in Plain => Asked(s, C, drop) /\ New(s, c, C) /\ s.op \notin BringsTable
  BY DEF Plain, BringsColumn, BringsConstraint, BringsTable, Asked, New
<1>3. Asked(s, C, drop) /\ New(s, c, C) => Right(x, named, c, C, drop)
  BY <1>1 DEF Right
<1> QED
  BY <1>1, <1>2, <1>3 DEF Ordinary

LEMMA OrdinaryNamed ==
  ASSUME NEW file \in Seq(Nat), NEW at \in Seq(Nat), NEW t \in Nat \X Nat, NEW n,
         NEW named, NEW c, NEW C, NEW drop
  PROVE  Ordinary(Step(file, at, Named("drop constraint", t, n)), named, c, C, drop)
<1> PICK s : s = Named("drop constraint", t, n)
  OBVIOUS
<1>1. {"op", "table"} \subseteq DOMAIN s /\ s.op = "drop constraint" /\ s.table = t
  BY DEF Named
<1>2. Fits(s, named)
  BY <1>1, KindsFit DEF BringsNothing
<1>3. s.op \in Plain
  BY <1>1 DEF Plain
<1> QED
  BY <1>2, <1>3, RightStep

LEMMA OrdinaryOn ==
  ASSUME NEW file \in Seq(Nat), NEW at \in Seq(Nat), NEW t \in Nat \X Nat, NEW op,
         NEW named, NEW c, NEW C, NEW drop,
         \/ op = "drop table" /\ drop /\ \A v \in C : v[1] # t
         \/ op = "drop schema" /\ drop /\ \A v \in C : Schema(v[1]) # Schema(t)
         \/ op = "create schema" /\ \A u \in c.tables : Schema(u) # Schema(t)
  PROVE  Ordinary(Step(file, at, On(op, t)), named, c, C, drop)
<1> PICK s : s = On(op, t)
  OBVIOUS
<1>1. {"op", "table"} \subseteq DOMAIN s /\ s.op = op /\ s.table = t
  BY DEF On
<1>2. Fits(s, named)
  BY <1>1, KindsFit DEF BringsNothing
<1>3. Asked(s, C, drop) /\ New(s, c, C) /\ s.op \notin BringsTable
  BY <1>1 DEF Asked, New, BringsTable
<1> QED
  BY <1>2, <1>3, RightStep

\* With the object that the statement takes.
Carries(op, t, x, named, C, drop) ==
  \/ op \in {"drop constraint", "drop index"}
  \/ op \in BringsColumn \cup {"create index"} /\ AreSound({x}, {t})
  \/ op \in BringsConstraint /\ IsConstraint(x, {t}, named)
  \/ op = "drop column" /\ drop /\ <<t, x.name>> \notin C

LEMMA OrdinaryWith ==
  ASSUME NEW file \in Seq(Nat), NEW at \in Seq(Nat), NEW t \in Nat \X Nat, NEW op, NEW x,
         NEW named, NEW c, NEW C, NEW drop, Carries(op, t, x, named, C, drop)
  PROVE  Ordinary(Step(file, at, With(op, t, x)), named, c, C, drop)
<1> PICK s : s = With(op, t, x)
  OBVIOUS
<1>1. /\ {"op", "table"} \subseteq DOMAIN s
      /\ s.op = op /\ s.table = t /\ s.name = x.name /\ s.object = x
  BY DEF With
<1>2. CASE op \in {"drop constraint", "drop index"}
  <2>1. Fits(s, named)
    BY <1>1, <1>2, KindsFit DEF BringsNothing
  <2> QED
    BY <1>1, <1>2, <2>1, RightStep DEF Plain
<1>3. CASE op \in BringsColumn \cup {"create index"} /\ AreSound({x}, {t})
  <2>1. Fits(s, named)
    BY <1>1, <1>3, KindsFit
  <2>2. s.op \in Plain
    BY <1>1, <1>3 DEF Plain
  <2> QED
    BY <2>1, <2>2, RightStep
<1>4. CASE op \in BringsConstraint /\ IsConstraint(x, {t}, named)
  <2>1. Fits(s, named)
    BY <1>1, <1>4, KindsFit
  <2>2. s.op \in Plain
    BY <1>1, <1>4 DEF Plain
  <2> QED
    BY <2>1, <2>2, RightStep
<1>5. CASE op = "drop column" /\ drop /\ <<t, x.name>> \notin C
  <2>1. Fits(s, named)
    BY <1>1, <1>5, KindsFit DEF BringsNothing
  <2>2. Asked(s, C, drop) /\ New(s, c, C) /\ s.op \notin BringsTable
    BY <1>1, <1>5 DEF Asked, New, BringsTable
  <2> QED
    BY <2>1, <2>2, RightStep
<1> QED
  BY <1>2, <1>3, <1>4, <1>5 DEF Carries

LEMMA RightTable ==
  ASSUME NEW file \in Seq(Nat), NEW at \in Seq(Nat), NEW t \in Nat \X Nat, NEW op, NEW x,
         NEW named, NEW c, NEW C, NEW drop,
         AreSound(x.columns, {t}), AreConstraints(x.constraints, {t}, named), AreSound(x.indexes, {t}),
         \/ op = "create table" /\ t \notin c.tables
         \/ /\ op = "copy table" /\ drop
            /\ \A v \in C : v[1] = t => v \in Cols(x)
            /\ \A v \in Cols(c) : v \in C /\ v[1] = t => v[2] \in x.copied
  PROVE  Right(Step(file, at, With(op, t, x)), named, c, C, drop)
<1> PICK s : s = With(op, t, x)
  OBVIOUS
<1>1. /\ {"op", "table"} \subseteq DOMAIN s
      /\ s.op = op /\ s.table = t /\ s.name = x.name /\ s.object = x
  BY DEF With
<1>2. Fits(s, named)
  <2>1. s.op \in BringsTable
    BY <1>1 DEF BringsTable
  <2>2. s.op \notin BringsColumn \cup BringsConstraint \cup BringsNothing \cup {"create index"}
    BY <2>1 DEF BringsColumn, BringsConstraint, BringsTable, BringsNothing
  <2> QED
    BY <1>1, <2>1, <2>2 DEF Fits
<1>3. Asked(s, C, drop) /\ New(s, c, C)
  BY <1>1 DEF Asked, New
<1> QED
  BY <1>2, <1>3, RightStep

\* A part of a table.
LEMMA Parts ==
  ASSUME NEW c, NEW named, Tidy(c, named)
  PROVE  /\ \A x \in c.columns : x.table \in Nat \X Nat /\ x.name \in Nat /\ AreSound({x}, {x.table})
         /\ \A i \in c.indexes : i.table \in Nat \X Nat /\ i.name \in Nat /\ AreSound({i}, {i.table})
         /\ \A k \in c.constraints : /\ k.table \in Nat \X Nat /\ k.refTable \in Nat \X Nat
                                     /\ named => k.name \in Nat
                                     /\ IsConstraint(k, {k.table}, named)
         /\ \A t : /\ AreSound({x \in c.columns : x.table = t}, {t})
                   /\ AreSound({i \in c.indexes : i.table = t}, {t})
                   /\ \A S \in SUBSET {k \in c.constraints : k.table = t} : AreConstraints(S, {t}, named)
<1>1. \A x \in c.columns : x.table \in Nat \X Nat /\ x.name \in Nat /\ AreSound({x}, {x.table})
  BY FS_Singleton DEF Tidy, AreSound
<1>2. \A i \in c.indexes : i.table \in Nat \X Nat /\ i.name \in Nat /\ AreSound({i}, {i.table})
  BY FS_Singleton DEF Tidy, AreSound
<1>3. \A k \in c.constraints : /\ k.table \in Nat \X Nat /\ k.refTable \in Nat \X Nat
                               /\ named => k.name \in Nat
                               /\ IsConstraint(k, {k.table}, named)
  BY DEF Tidy, AreConstraints, IsConstraint
<1>4. ASSUME NEW t
      PROVE  /\ AreSound({x \in c.columns : x.table = t}, {t})
             /\ AreSound({i \in c.indexes : i.table = t}, {t})
  <2>1. IsFiniteSet(c.columns) /\ IsFiniteSet(c.indexes)
    BY DEF Tidy, AreSound
  <2>2. IsFiniteSet({x \in c.columns : x.table = t}) /\ IsFiniteSet({i \in c.indexes : i.table = t})
    BY <2>1, FS_Subset
  <2> QED
    BY <2>2 DEF Tidy, AreSound
<1>5. ASSUME NEW t, NEW S \in SUBSET {k \in c.constraints : k.table = t}
      PROVE  AreConstraints(S, {t}, named)
  <2>1. IsFiniteSet(S)
    BY FS_Subset DEF Tidy, AreConstraints
  <2> QED
    BY <1>3, <2>1 DEF AreConstraints
<1> QED
  BY <1>1, <1>2, <1>3, <1>4, <1>5

\* What is selected of two catalogs.
LEMMA Selections ==
  ASSUME NEW c, NEW d, NEW named, Tidy(c, named), Tidy(d, named), NEW drop
  PROVE  /\ \A k \in DropFkeys(c, d, drop) \cup DropKeys(c, d, drop) : k \in c.constraints
         /\ \A k \in AddFkeys(c, d) \cup AddFastFkeys(c, d) \cup AddKeys(c, d) : k \in d.constraints
         /\ \A i \in DropIndexes(c, d, drop) : i \in c.indexes
         /\ \A i \in CreateIndexes(c, d) : i \in d.indexes
         /\ \A x \in AddColumns(c, d) : x \in d.columns
         /\ \A x \in DropColumns(c, d, drop) : x \in c.columns /\ drop /\ <<x.table, x.name>> \notin Cols(d)
         /\ \A t \in DropTables(c, d, drop) : t \in c.tables /\ drop /\ \A v \in Cols(d) : v[1] # t
         /\ \A t \in CreateTables(c, d) : t \in d.tables /\ t \notin c.tables
         /\ \A s \in DropSchemas(c, d, drop) : s \in Nat /\ drop /\ \A v \in Cols(d) : Schema(v[1]) # s
         /\ \A s \in CreateSchemas(c, d) : s \in Nat /\ \A t \in c.tables : Schema(t) # s
<1>1. \A k \in DropFkeys(c, d, drop) \cup DropKeys(c, d, drop) : k \in c.constraints
  BY DEF DropFkeys, DropKeys, Gone, ForeignKeys, Keys
<1>2. \A k \in AddFkeys(c, d) \cup AddFastFkeys(c, d) \cup AddKeys(c, d) : k \in d.constraints
  BY DEF AddFkeys, AddFastFkeys, AddKeys, Gone, ForeignKeys, Keys
<1>3. /\ \A i \in DropIndexes(c, d, drop) : i \in c.indexes
      /\ \A i \in CreateIndexes(c, d) : i \in d.indexes
      /\ \A x \in AddColumns(c, d) : x \in d.columns
  BY DEF DropIndexes, CreateIndexes, AddColumns, Gone
<1>4. ASSUME NEW x \in DropColumns(c, d, drop)
      PROVE  x \in c.columns /\ drop /\ <<x.table, x.name>> \notin Cols(d)
  <2>1. x \in c.columns /\ drop /\ \A y \in d.columns : y.table # x.table \/ y.name # x.name
    BY DEF DropColumns, Gone
  <2> QED
    BY <2>1 DEF Cols
<1>5. \A v \in Cols(d) : v[1] \in d.tables /\ Schema(v[1]) \in Schemas(d)
  <2>1. \A x \in d.columns : x.table \in d.tables
    BY DEF Tidy, AreSound
  <2>2. \A v \in Cols(d) : v[1] \in d.tables
    BY <2>1 DEF Cols
  <2> QED
    BY <2>2 DEF Schemas
<1>6. \A t \in DropTables(c, d, drop) : t \in c.tables /\ drop /\ \A v \in Cols(d) : v[1] # t
  BY <1>5 DEF DropTables
<1>7. \A t \in CreateTables(c, d) : t \in d.tables /\ t \notin c.tables
  BY DEF CreateTables
<1>8. Schemas(c) \subseteq Nat /\ Schemas(d) \subseteq Nat
  BY DEF Tidy, Schemas, Schema
<1>9. \A s \in DropSchemas(c, d, drop) : s \in Nat /\ drop /\ \A v \in Cols(d) : Schema(v[1]) # s
  BY <1>5, <1>8 DEF DropSchemas
<1>10. \A s \in CreateSchemas(c, d) : s \in Nat /\ \A t \in c.tables : Schema(t) # s
  BY <1>8 DEF CreateSchemas, Schemas
<1> QED
  BY <1>1, <1>2, <1>3, <1>4, <1>6, <1>7, <1>9, <1>10

\* The selections are finite.
LEMMA Finite ==
  ASSUME NEW c, NEW d, NEW named, Tidy(c, named), Tidy(d, named), NEW drop
  PROVE  /\ \A S : S \subseteq c.tables \/ S \subseteq d.tables => IsFiniteSet(S)
         /\ \A S : S \subseteq c.columns \/ S \subseteq d.columns => IsFiniteSet(S)
         /\ \A S : S \subseteq c.indexes \/ S \subseteq d.indexes => IsFiniteSet(S)
         /\ \A S : S \subseteq c.constraints \/ S \subseteq d.constraints => IsFiniteSet(S)
         /\ IsFiniteSet(DropSchemas(c, d, drop))
         /\ IsFiniteSet(CreateSchemas(c, d))
<1>1. /\ IsFiniteSet(c.tables) /\ IsFiniteSet(c.columns) /\ IsFiniteSet(c.indexes) /\ IsFiniteSet(c.constraints)
      /\ IsFiniteSet(d.tables) /\ IsFiniteSet(d.columns) /\ IsFiniteSet(d.indexes) /\ IsFiniteSet(d.constraints)
  BY DEF Tidy, AreSound, AreConstraints
<1>2. ASSUME NEW A, NEW B, IsFiniteSet(A), IsFiniteSet(B)
      PROVE  \A S : S \subseteq A \/ S \subseteq B => IsFiniteSet(S)
  BY <1>2, FS_Subset
<1>3. ASSUME NEW e, IsFiniteSet(e.tables)
      PROVE  IsFiniteSet(Schemas(e))
  <2> DEFINE f == [t \in e.tables |-> Schema(t)]
  <2>1. Schemas(e) = ImageOf(f)
    BY DEF Schemas, ImageOf
  <2>2. DOMAIN f = e.tables
    OBVIOUS
  <2> HIDE DEF f
  <2> QED
    BY <1>3, <2>1, <2>2, ImageFinite
<1>4. DropSchemas(c, d, drop) \in SUBSET Schemas(c) /\ CreateSchemas(c, d) \in SUBSET Schemas(d)
  BY DEF DropSchemas, CreateSchemas
<1>5. IsFiniteSet(DropSchemas(c, d, drop)) /\ IsFiniteSet(CreateSchemas(c, d))
  <2>1. IsFiniteSet(Schemas(c)) /\ IsFiniteSet(Schemas(d))
    BY <1>1, <1>3
  <2>2. IsFiniteSet(DropSchemas(c, d, drop))
    BY <1>4, <2>1, FS_Subset
  <2>3. IsFiniteSet(CreateSchemas(c, d))
    BY <1>4, <2>1, FS_Subset
  <2> QED
    BY <2>2, <2>3
<1>6. \A S : S \subseteq c.tables \/ S \subseteq d.tables => IsFiniteSet(S)
  BY <1>1, <1>2
<1>7. \A S : S \subseteq c.columns \/ S \subseteq d.columns => IsFiniteSet(S)
  BY <1>1, <1>2
<1>8. \A S : S \subseteq c.indexes \/ S \subseteq d.indexes => IsFiniteSet(S)
  BY <1>1, <1>2
<1>9. \A S : S \subseteq c.constraints \/ S \subseteq d.constraints => IsFiniteSet(S)
  BY <1>1, <1>2
<1> QED
  BY <1>5, <1>6, <1>7, <1>8, <1>9

\* No two steps make one table.
Apart(S) ==
  \A x, y \in S : /\ x.stmt.op = "create table" /\ y.stmt.op = "create table" => x.stmt.table # y.stmt.table \/ x = y
                  /\ /\ x.stmt.op = "copy table"
                     /\ y.stmt.op \in {"add column", "create table", "copy table"}
                     => x.stmt.table # y.stmt.table \/ x = y

-----------------------------------------------------------------------------
(* MySQL *)

LEMMA MySQLSelections ==
  ASSUME NEW c, NEW d, NEW drop
  PROVE  /\ MySQL!DropFkeys(c, d, drop) = DropFkeys(c, d, drop)
         /\ MySQL!DropSchemas(c, d, drop) = DropSchemas(c, d, drop)
         /\ MySQL!CreateSchemas(c, d) = CreateSchemas(c, d)
         /\ MySQL!DropTables(c, d, drop) = DropTables(c, d, drop)
         /\ MySQL!CreateTables(c, d) = CreateTables(c, d)
         /\ MySQL!DropKeys(c, d, drop) = DropKeys(c, d, drop)
         /\ MySQL!AddKeys(c, d) = AddKeys(c, d)
         /\ MySQL!DropIndexes(c, d, drop) = DropIndexes(c, d, drop)
         /\ MySQL!CreateIndexes(c, d) = CreateIndexes(c, d)
         /\ MySQL!DropColumns(c, d, drop) = DropColumns(c, d, drop)
         /\ MySQL!AddColumns(c, d) = AddColumns(c, d)
         /\ MySQL!AddFastFkeys(c, d) = AddFastFkeys(c, d)
         /\ MySQL!AddFkeys(c, d) = AddFkeys(c, d)
<1>1. /\ \A S, R : MySQL!Gone(S, R) = Gone(S, R) /\ MySQL!Pairs(S, R) = Pairs(S, R)
      /\ \A e : /\ MySQL!Schemas(e) = Schemas(e) /\ MySQL!ForeignKeys(e) = ForeignKeys(e)
                /\ MySQL!Keys(e) = Keys(e)
      /\ \A t : MySQL!Schema(t) = Schema(t)
  BY DEF MySQL!Gone, Gone, MySQL!Pairs, Pairs, MySQL!Schemas, Schemas, MySQL!Schema, Schema,
         MySQL!ForeignKeys, ForeignKeys, MySQL!FOREIGN_KEY, FOREIGN_KEY, MySQL!Keys, Keys,
         MySQL!IsKey, IsKey, MySQL!PRIMARY_KEY, PRIMARY_KEY, MySQL!UNIQUE, UNIQUE
<1> QED
  BY <1>1 DEF MySQL!DropFkeys, DropFkeys, MySQL!DropSchemas, DropSchemas, MySQL!CreateSchemas, CreateSchemas,
              MySQL!DropTables, DropTables, MySQL!CreateTables, CreateTables, MySQL!DropKeys, DropKeys,
              MySQL!AddKeys, AddKeys, MySQL!DropIndexes, DropIndexes, MySQL!CreateIndexes, CreateIndexes,
              MySQL!DropColumns, DropColumns, MySQL!AddColumns, AddColumns,
              MySQL!AddFastFkeys, AddFastFkeys, MySQL!AddFkeys, AddFkeys

LEMMA MySQLForms ==
  /\ \A file, at, s : MySQL!Step(file, at, s) = Step(file, at, s)
  /\ \A op, t : MySQL!On(op, t) = On(op, t)
  /\ \A op, t, n : MySQL!Named(op, t, n) = Named(op, t, n)
  /\ \A op, t, x : MySQL!With(op, t, x) = With(op, t, x)
  /\ \A k : MySQL!Place(k) = k.table \o <<k.name>>
BY DEF MySQL!Step, Step, MySQL!On, On, MySQL!Named, Named, MySQL!With, With, MySQL!Place

\* Foreign keys are dropped first and added last.
LEMMA MySQLFkeys ==
  ASSUME NEW c, NEW d, NEW named, named, Tidy(c, named), Tidy(d, named), NEW drop
  PROVE  /\ AllOrdinary(MySQL!DropFkeysSteps(c, d, drop), named, c, Cols(d), drop)
         /\ AllOrdinary(MySQL!AddFkeysSteps(c, d), named, c, Cols(d), drop)
<1>1. AllOrdinary(MySQL!DropFkeysSteps(c, d, drop), named, c, Cols(d), drop)
  <2> PICK S : S = DropFkeys(c, d, drop)
    OBVIOUS
  <2> PICK f : f = [k \in S |-> Step(<<1>> \o (k.table \o <<k.name>>), <<1>>, Named("drop constraint", k.table, k.name))]
    OBVIOUS
  <2>1. S \subseteq c.constraints
    BY Selections
  <2>2. IsFiniteSet(S)
    BY <2>1, Finite
  <2>3. ASSUME NEW k \in S
        PROVE  Ordinary(f[k], named, c, Cols(d), drop)
    <3>1. k.table \in Nat \X Nat /\ k.name \in Nat
      BY <2>1, Parts
    <3>2. <<1>> \in Seq(Nat) /\ <<1>> \o (k.table \o <<k.name>>) \in Seq(Nat)
      BY <3>1, Tuples
    <3> QED
      BY <3>1, <3>2, OrdinaryNamed
  <2>4. MySQL!DropFkeysSteps(c, d, drop) = ImageOf(f)
    <3>1. MySQL!DropFkeysSteps(c, d, drop) = {Step(<<1>> \o (k.table \o <<k.name>>), <<1>>, Named("drop constraint", k.table, k.name)) : k \in S}
      BY MySQLSelections, MySQLForms DEF MySQL!DropFkeysSteps
    <3> QED
      BY <3>1 DEF ImageOf
  <2>5. DOMAIN f = S
    OBVIOUS
  <2>6. \A k \in DOMAIN f : Ordinary(f[k], named, c, Cols(d), drop)
    BY <2>3, <2>5
  <2>7. AllOrdinary(ImageOf(f), named, c, Cols(d), drop)
    BY <2>2, <2>5, <2>6, OrdinaryImage
  <2> QED
    BY <2>4, <2>7
<1>2. AllOrdinary(MySQL!AddFkeysSteps(c, d), named, c, Cols(d), drop)
  <2> PICK S : S = AddFastFkeys(c, d) \cup AddFkeys(c, d)
    OBVIOUS
  <2> PICK f : f = [k \in S |-> Step(<<5>> \o (k.table \o <<k.name>>), <<1>>, With("add foreign key", k.table, k))]
    OBVIOUS
  <2>1. S \subseteq d.constraints
    BY Selections
  <2>2. IsFiniteSet(S)
    BY <2>1, Finite
  <2>3. ASSUME NEW k \in S
        PROVE  Ordinary(f[k], named, c, Cols(d), drop)
    <3>1. k.table \in Nat \X Nat /\ k.name \in Nat /\ IsConstraint(k, {k.table}, named)
      BY <2>1, Parts
    <3>2. <<1>> \in Seq(Nat) /\ <<5>> \o (k.table \o <<k.name>>) \in Seq(Nat)
      BY <3>1, Tuples
    <3>3. Carries("add foreign key", k.table, k, named, Cols(d), drop)
      BY <3>1 DEF Carries, BringsConstraint
    <3> QED
      BY <3>1, <3>2, <3>3, OrdinaryWith
  <2>4. MySQL!AddFkeysSteps(c, d) = ImageOf(f)
    <3>1. MySQL!AddFkeysSteps(c, d) = {Step(<<5>> \o (k.table \o <<k.name>>), <<1>>, With("add foreign key", k.table, k)) : k \in S}
      BY MySQLSelections, MySQLForms DEF MySQL!AddFkeysSteps
    <3> QED
      BY <3>1 DEF ImageOf
  <2>5. DOMAIN f = S
    OBVIOUS
  <2>6. \A k \in DOMAIN f : Ordinary(f[k], named, c, Cols(d), drop)
    BY <2>3, <2>5
  <2>7. AllOrdinary(ImageOf(f), named, c, Cols(d), drop)
    BY <2>2, <2>5, <2>6, OrdinaryImage
  <2> QED
    BY <2>4, <2>7
<1> QED
  BY <1>1, <1>2

LEMMA MySQLSchemas ==
  ASSUME NEW c, NEW d, NEW named, named, Tidy(c, named), Tidy(d, named), NEW drop
  PROVE  AllOrdinary(MySQL!SchemasSteps(c, d, drop), named, c, Cols(d), drop)
<1> DEFINE dropped == {Step(<<2>>, <<1, s>>, On("drop schema", <<s, 0>>)) : s \in DropSchemas(c, d, drop)}
           created == {Step(<<2>>, <<2, s>>, On("create schema", <<s, 0>>)) : s \in CreateSchemas(c, d)}
<1>1. AllOrdinary(dropped, named, c, Cols(d), drop)
  <2> PICK S : S = DropSchemas(c, d, drop)
    OBVIOUS
  <2> PICK f : f = [s \in S |-> Step(<<2>>, <<1, s>>, On("drop schema", <<s, 0>>))]
    OBVIOUS
  <2>2. IsFiniteSet(S)
    BY Finite
  <2>3. ASSUME NEW s \in S
        PROVE  Ordinary(f[s], named, c, Cols(d), drop)
    <3>1. s \in Nat /\ drop /\ \A v \in Cols(d) : Schema(v[1]) # s
      BY Selections
    <3>2. <<2>> \in Seq(Nat) /\ <<1, s>> \in Seq(Nat) /\ <<s, 0>> \in Nat \X Nat
      BY <3>1, Tuples
    <3>3. Schema(<<s, 0>>) = s
      BY DEF Schema
    <3> QED
      BY <3>1, <3>2, <3>3, OrdinaryOn
  <2>4. dropped = ImageOf(f)
    <3>1. dropped = {Step(<<2>>, <<1, s>>, On("drop schema", <<s, 0>>)) : s \in S}
      OBVIOUS
    <3> QED
      BY <3>1 DEF ImageOf
  <2>5. DOMAIN f = S
    OBVIOUS
  <2>6. \A s \in DOMAIN f : Ordinary(f[s], named, c, Cols(d), drop)
    BY <2>3, <2>5
  <2>7. AllOrdinary(ImageOf(f), named, c, Cols(d), drop)
    BY <2>2, <2>5, <2>6, OrdinaryImage
  <2> QED
    BY <2>4, <2>7
<1>2. AllOrdinary(created, named, c, Cols(d), drop)
  <2> PICK S : S = CreateSchemas(c, d)
    OBVIOUS
  <2> PICK f : f = [s \in S |-> Step(<<2>>, <<2, s>>, On("create schema", <<s, 0>>))]
    OBVIOUS
  <2>2. IsFiniteSet(S)
    BY Finite
  <2>3. ASSUME NEW s \in S
        PROVE  Ordinary(f[s], named, c, Cols(d), drop)
    <3>1. s \in Nat /\ \A t \in c.tables : Schema(t) # s
      BY Selections
    <3>2. <<2>> \in Seq(Nat) /\ <<2, s>> \in Seq(Nat) /\ <<s, 0>> \in Nat \X Nat
      BY <3>1, Tuples
    <3>3. Schema(<<s, 0>>) = s
      BY DEF Schema
    <3> QED
      BY <3>1, <3>2, <3>3, OrdinaryOn
  <2>4. created = ImageOf(f)
    <3>1. created = {Step(<<2>>, <<2, s>>, On("create schema", <<s, 0>>)) : s \in S}
      OBVIOUS
    <3> QED
      BY <3>1 DEF ImageOf
  <2>5. DOMAIN f = S
    OBVIOUS
  <2>6. \A s \in DOMAIN f : Ordinary(f[s], named, c, Cols(d), drop)
    BY <2>3, <2>5
  <2>7. AllOrdinary(ImageOf(f), named, c, Cols(d), drop)
    BY <2>2, <2>5, <2>6, OrdinaryImage
  <2> QED
    BY <2>4, <2>7
<1>3. MySQL!SchemasSteps(c, d, drop) = dropped \cup created
  BY MySQLSelections, MySQLForms DEF MySQL!SchemasSteps
<1> HIDE DEF dropped, created
<1>4. AllOrdinary(dropped \cup created, named, c, Cols(d), drop)
  BY <1>1, <1>2, OrdinaryUnion
<1> QED
  BY <1>3, <1>4

\* The steps that create tables, the only ones of all.
MySQLCreates(c, d) ==
  {Step(<<3>>, <<2>> \o t \o <<0>>, With("create table", t, MySQL!TableObject(d, t))) : t \in CreateTables(c, d)}

LEMMA MySQLTables ==
  ASSUME NEW c, NEW d, NEW named, named, Tidy(c, named), Tidy(d, named), NEW drop
  PROVE  /\ AllRight(MySQLCreates(c, d), named, c, Cols(d), drop)
         /\ \E S : /\ AllOrdinary(S, named, c, Cols(d), drop)
                  /\ MySQL!TablesSteps(c, d, drop) = S \cup MySQLCreates(c, d)
<1> DEFINE dropped == {Step(<<3>>, <<1>> \o t, On("drop table", t)) : t \in DropTables(c, d, drop)}
           news == {j \in d.indexes : j.table \in CreateTables(c, d)}
           indexed == {Step(<<3>>, <<2>> \o i.table \o <<i.name>>, With("create index", i.table, i)) : i \in news}
<1>1. AllRight(MySQLCreates(c, d), named, c, Cols(d), drop)
  <2> PICK S : S = CreateTables(c, d)
    OBVIOUS
  <2> PICK f : f = [t \in S |-> Step(<<3>>, <<2>> \o t \o <<0>>, With("create table", t, MySQL!TableObject(d, t)))]
    OBVIOUS
  <2>1. S \subseteq d.tables
    BY Selections
  <2>2. IsFiniteSet(S)
    BY <2>1, Finite
  <2>3. ASSUME NEW t \in S
        PROVE  Right(f[t], named, c, Cols(d), drop)
    <3>1. t \in Nat \X Nat /\ t \notin c.tables
      BY <2>1, Selections DEF Tidy
    <3>2. <<3>> \in Seq(Nat) /\ <<2>> \o t \o <<0>> \in Seq(Nat)
      BY <3>1, Tuples
    <3> PICK x : x = MySQL!TableObject(d, t)
      OBVIOUS
    <3>a. x.columns = {z \in d.columns : z.table = t}
      BY DEF MySQL!TableObject
    <3>b. x.constraints = {k \in MySQL!Keys(d) : k.table = t}
      BY DEF MySQL!TableObject
    <3>c. x.indexes = {}
      BY DEF MySQL!TableObject
    <3>d. x.constraints \subseteq {k \in d.constraints : k.table = t}
      BY <3>b DEF MySQL!Keys
    <3>3. /\ x.columns = {z \in d.columns : z.table = t}
          /\ x.constraints \subseteq {k \in d.constraints : k.table = t}
          /\ x.indexes = {}
      BY <3>a, <3>c, <3>d
    <3>e. AreSound({z \in d.columns : z.table = t}, {t})
      BY Parts
    <3>4. AreSound(x.columns, {t})
      BY <3>a, <3>e
    <3>6. AreConstraints(x.constraints, {t}, named)
      BY <3>3, Parts
    <3>5. AreSound(x.indexes, {t})
      BY <3>3, FS_EmptySet DEF AreSound
    <3> QED
      BY <3>1, <3>2, <3>4, <3>5, <3>6, RightTable
  <2>4. MySQLCreates(c, d) = ImageOf(f)
    <3>1. MySQLCreates(c, d) = {Step(<<3>>, <<2>> \o t \o <<0>>, With("create table", t, MySQL!TableObject(d, t))) : t \in S}
      BY DEF MySQLCreates
    <3> QED
      BY <3>1 DEF ImageOf
  <2>5. DOMAIN f = S
    OBVIOUS
  <2>6. \A t \in DOMAIN f : Right(f[t], named, c, Cols(d), drop)
    BY <2>3, <2>5
  <2>7. AllRight(ImageOf(f), named, c, Cols(d), drop)
    BY <2>2, <2>5, <2>6, RightImage
  <2> QED
    BY <2>4, <2>7
<1>2. AllOrdinary(dropped, named, c, Cols(d), drop)
  <2> PICK S : S = DropTables(c, d, drop)
    OBVIOUS
  <2> PICK f : f = [t \in S |-> Step(<<3>>, <<1>> \o t, On("drop table", t))]
    OBVIOUS
  <2>1. S \subseteq c.tables
    BY Selections
  <2>2. IsFiniteSet(S)
    BY <2>1, Finite
  <2>3. ASSUME NEW t \in S
        PROVE  Ordinary(f[t], named, c, Cols(d), drop)
    <3>1. t \in Nat \X Nat /\ drop /\ \A v \in Cols(d) : v[1] # t
      BY <2>1, Selections DEF Tidy
    <3>2. <<3>> \in Seq(Nat) /\ <<1>> \o t \in Seq(Nat)
      BY <3>1, Tuples
    <3> QED
      BY <3>1, <3>2, OrdinaryOn
  <2>4. dropped = ImageOf(f)
    <3>1. dropped = {Step(<<3>>, <<1>> \o t, On("drop table", t)) : t \in S}
      OBVIOUS
    <3> QED
      BY <3>1 DEF ImageOf
  <2>5. DOMAIN f = S
    OBVIOUS
  <2>6. \A t \in DOMAIN f : Ordinary(f[t], named, c, Cols(d), drop)
    BY <2>3, <2>5
  <2>7. AllOrdinary(ImageOf(f), named, c, Cols(d), drop)
    BY <2>2, <2>5, <2>6, OrdinaryImage
  <2> QED
    BY <2>4, <2>7
<1>3. AllOrdinary(indexed, named, c, Cols(d), drop)
  <2> PICK S : S = news
    OBVIOUS
  <2> PICK f : f = [i \in S |-> Step(<<3>>, <<2>> \o i.table \o <<i.name>>, With("create index", i.table, i))]
    OBVIOUS
  <2>1. S \subseteq d.indexes
    OBVIOUS
  <2>2. IsFiniteSet(S)
    BY <2>1, Finite
  <2>3. ASSUME NEW i \in S
        PROVE  Ordinary(f[i], named, c, Cols(d), drop)
    <3>1. i.table \in Nat \X Nat /\ i.name \in Nat /\ AreSound({i}, {i.table})
      BY <2>1, Parts
    <3>2. <<3>> \in Seq(Nat) /\ <<2>> \o i.table \o <<i.name>> \in Seq(Nat)
      BY <3>1, Tuples
    <3>3. Carries("create index", i.table, i, named, Cols(d), drop)
      BY <3>1 DEF Carries
    <3> QED
      BY <3>1, <3>2, <3>3, OrdinaryWith
  <2>4. indexed = ImageOf(f)
    <3>1. indexed = {Step(<<3>>, <<2>> \o i.table \o <<i.name>>, With("create index", i.table, i)) : i \in S}
      OBVIOUS
    <3> QED
      BY <3>1 DEF ImageOf
  <2>5. DOMAIN f = S
    OBVIOUS
  <2>6. \A i \in DOMAIN f : Ordinary(f[i], named, c, Cols(d), drop)
    BY <2>3, <2>5
  <2>7. AllOrdinary(ImageOf(f), named, c, Cols(d), drop)
    BY <2>2, <2>5, <2>6, OrdinaryImage
  <2> QED
    BY <2>4, <2>7
<1>4. MySQL!TablesSteps(c, d, drop) = dropped \cup MySQLCreates(c, d) \cup indexed
  BY MySQLSelections, MySQLForms DEF MySQL!TablesSteps, MySQLCreates
<1> HIDE DEF dropped, indexed
<1>5. AllOrdinary(dropped \cup indexed, named, c, Cols(d), drop)
  BY <1>2, <1>3, OrdinaryUnion
<1>6. MySQL!TablesSteps(c, d, drop) = (dropped \cup indexed) \cup MySQLCreates(c, d)
  BY <1>4
<1> QED
  BY <1>1, <1>5, <1>6

\* The clauses of one kind.
MySQLClausesOf(n, op, S) == {Step(<<4>> \o x.table, <<n, x.name>>, With(op, x.table, x)) : x \in S}

LEMMA MySQLClauses ==
  ASSUME NEW c, NEW d, NEW named, named, Tidy(c, named), Tidy(d, named), NEW drop,
         NEW n \in Nat, NEW op, NEW S, IsFiniteSet(S),
         \A x \in S : /\ x.table \in Nat \X Nat /\ x.name \in Nat
                      /\ Carries(op, x.table, x, named, Cols(d), drop)
  PROVE  AllOrdinary(MySQLClausesOf(n, op, S), named, c, Cols(d), drop)
<1> PICK f : f = [x \in S |-> Step(<<4>> \o x.table, <<n, x.name>>, With(op, x.table, x))]
  OBVIOUS
<1>1. ASSUME NEW x \in S
      PROVE  Ordinary(f[x], named, c, Cols(d), drop)
  <2>1. <<4>> \o x.table \in Seq(Nat) /\ <<n, x.name>> \in Seq(Nat)
    BY Tuples
  <2> QED
    BY <2>1, OrdinaryWith
<1>2. MySQLClausesOf(n, op, S) = ImageOf(f)
  BY DEF ImageOf, MySQLClausesOf
<1>3. DOMAIN f = S
  OBVIOUS
<1>4. AllOrdinary(ImageOf(f), named, c, Cols(d), drop)
  BY <1>1, <1>3, OrdinaryImage
<1> QED
  BY <1>2, <1>4

\* What the ALTER TABLE statements are made of.
LEMMA MySQLAltered ==
  ASSUME NEW c, NEW d, NEW named, named, Tidy(c, named), Tidy(d, named), NEW drop
  PROVE  /\ \A k \in MySQL!DropConstraints(c, d, drop) : k \in c.constraints
         /\ \A k \in MySQL!AddConstraints(c, d) : k \in d.constraints
         /\ \A x \in {p[2] : p \in MySQL!AlterColumns(c, d)} : x \in d.columns
<1>1. \A p \in MySQL!Pairs(c.constraints, d.constraints) : p[1] \in c.constraints /\ p[2] \in d.constraints
  BY DEF MySQL!Pairs
<1>2. \A p \in MySQL!Pairs(c.columns, d.columns) : p[2] \in d.columns
  BY DEF MySQL!Pairs
<1>3. \A k \in MySQL!DropConstraints(c, d, drop) : k \in c.constraints
  <2>a. MySQL!DropKeys(c, d, drop) = DropKeys(c, d, drop)
    BY MySQLSelections
  <2>b. \A k \in DropKeys(c, d, drop) : k \in c.constraints
    BY Selections
  <2>1. \A k \in MySQL!DropKeys(c, d, drop) : k \in c.constraints
    BY <2>a, <2>b
  <2>2. \A p \in MySQL!OtherPkeys(c, d) : p[1] \in c.constraints
    BY <1>1 DEF MySQL!OtherPkeys
  <2> QED
    BY <2>1, <2>2 DEF MySQL!DropConstraints
<1>4. \A k \in MySQL!AddConstraints(c, d) : k \in d.constraints
  <2>a. MySQL!AddKeys(c, d) = AddKeys(c, d)
    BY MySQLSelections
  <2>b. \A k \in AddKeys(c, d) : k \in d.constraints
    BY Selections
  <2>1. \A k \in MySQL!AddKeys(c, d) : k \in d.constraints
    BY <2>a, <2>b
  <2>2. \A p \in MySQL!OtherPkeys(c, d) : p[2] \in d.constraints
    BY <1>1 DEF MySQL!OtherPkeys
  <2> QED
    BY <2>1, <2>2 DEF MySQL!AddConstraints
<1>5. \A x \in {p[2] : p \in MySQL!AlterColumns(c, d)} : x \in d.columns
  BY <1>2 DEF MySQL!AlterColumns
<1> QED
  BY <1>3, <1>4, <1>5

LEMMA MySQLAlters ==
  ASSUME NEW c, NEW d, NEW named, named, Tidy(c, named), Tidy(d, named), NEW drop
  PROVE  AllOrdinary(MySQL!AlterTableSteps(c, d, drop), named, c, Cols(d), drop)
<1>1. AllOrdinary(MySQLClausesOf(1, "drop constraint", MySQL!DropConstraints(c, d, drop)),
                named, c, Cols(d), drop)
  <2> PICK S : S = MySQL!DropConstraints(c, d, drop)
    OBVIOUS
  <2>1. S \subseteq c.constraints
    BY MySQLAltered
  <2>2. IsFiniteSet(S)
    BY <2>1, Finite
  <2>3. ASSUME NEW x \in S
        PROVE  x.table \in Nat \X Nat /\ x.name \in Nat /\ Carries("drop constraint", x.table, x, named, Cols(d), drop)
    <3>1. x.table \in Nat \X Nat /\ x.name \in Nat
      BY <2>1, Parts
    <3> QED
      BY <3>1 DEF Carries
  <2>4. AllOrdinary(MySQLClausesOf(1, "drop constraint", S), named, c, Cols(d), drop)
    BY <2>2, <2>3, MySQLClauses
  <2> QED
    BY <2>4
<1>2. AllOrdinary(MySQLClausesOf(2, "drop index", DropIndexes(c, d, drop)),
                named, c, Cols(d), drop)
  <2> PICK S : S = DropIndexes(c, d, drop)
    OBVIOUS
  <2>1. S \subseteq c.indexes
    BY Selections
  <2>2. IsFiniteSet(S)
    BY <2>1, Finite
  <2>3. ASSUME NEW x \in S
        PROVE  x.table \in Nat \X Nat /\ x.name \in Nat /\ Carries("drop index", x.table, x, named, Cols(d), drop)
    <3>1. x.table \in Nat \X Nat /\ x.name \in Nat
      BY <2>1, Parts
    <3> QED
      BY <3>1 DEF Carries, BringsColumn
  <2>4. AllOrdinary(MySQLClausesOf(2, "drop index", S), named, c, Cols(d), drop)
    BY <2>2, <2>3, MySQLClauses
  <2> QED
    BY <2>4
<1>3. AllOrdinary(MySQLClausesOf(3, "drop column", {x \in DropColumns(c, d, drop) : x.table \in MySQL!AlterTables(c, d, drop)}),
                named, c, Cols(d), drop)
  <2> PICK S : S = {x \in DropColumns(c, d, drop) : x.table \in MySQL!AlterTables(c, d, drop)}
    OBVIOUS
  <2>1. S \subseteq c.columns
    BY Selections
  <2>2. IsFiniteSet(S)
    BY <2>1, Finite
  <2>3. ASSUME NEW x \in S
        PROVE  x.table \in Nat \X Nat /\ x.name \in Nat /\ Carries("drop column", x.table, x, named, Cols(d), drop)
    <3>1. x.table \in Nat \X Nat /\ x.name \in Nat /\ drop /\ <<x.table, x.name>> \notin Cols(d)
      BY <2>1, Parts, Selections
    <3> QED
      BY <3>1 DEF Carries
  <2>4. AllOrdinary(MySQLClausesOf(3, "drop column", S), named, c, Cols(d), drop)
    BY <2>2, <2>3, MySQLClauses
  <2> QED
    BY <2>4
<1>4. AllOrdinary(MySQLClausesOf(4, "add column", AddColumns(c, d)),
                named, c, Cols(d), drop)
  <2> PICK S : S = AddColumns(c, d)
    OBVIOUS
  <2>1. S \subseteq d.columns
    BY Selections
  <2>2. IsFiniteSet(S)
    BY <2>1, Finite
  <2>3. ASSUME NEW x \in S
        PROVE  x.table \in Nat \X Nat /\ x.name \in Nat /\ Carries("add column", x.table, x, named, Cols(d), drop)
    <3>1. x.table \in Nat \X Nat /\ x.name \in Nat /\ AreSound({x}, {x.table})
      BY <2>1, Parts
    <3> QED
      BY <3>1 DEF Carries, BringsColumn
  <2>4. AllOrdinary(MySQLClausesOf(4, "add column", S), named, c, Cols(d), drop)
    BY <2>2, <2>3, MySQLClauses
  <2> QED
    BY <2>4
<1>5. AllOrdinary(MySQLClausesOf(5, "modify column", {p[2] : p \in MySQL!AlterColumns(c, d)}),
                named, c, Cols(d), drop)
  <2> PICK S : S = {p[2] : p \in MySQL!AlterColumns(c, d)}
    OBVIOUS
  <2>1. S \subseteq d.columns
    BY MySQLAltered
  <2>2. IsFiniteSet(S)
    BY <2>1, Finite
  <2>3. ASSUME NEW x \in S
        PROVE  x.table \in Nat \X Nat /\ x.name \in Nat /\ Carries("modify column", x.table, x, named, Cols(d), drop)
    <3>1. x.table \in Nat \X Nat /\ x.name \in Nat /\ AreSound({x}, {x.table})
      BY <2>1, Parts
    <3> QED
      BY <3>1 DEF Carries, BringsColumn
  <2>4. AllOrdinary(MySQLClausesOf(5, "modify column", S), named, c, Cols(d), drop)
    BY <2>2, <2>3, MySQLClauses
  <2> QED
    BY <2>4
<1>6. AllOrdinary(MySQLClausesOf(6, "create index", CreateIndexes(c, d)),
                named, c, Cols(d), drop)
  <2> PICK S : S = CreateIndexes(c, d)
    OBVIOUS
  <2>1. S \subseteq d.indexes
    BY Selections
  <2>2. IsFiniteSet(S)
    BY <2>1, Finite
  <2>3. ASSUME NEW x \in S
        PROVE  x.table \in Nat \X Nat /\ x.name \in Nat /\ Carries("create index", x.table, x, named, Cols(d), drop)
    <3>1. x.table \in Nat \X Nat /\ x.name \in Nat /\ AreSound({x}, {x.table})
      BY <2>1, Parts
    <3> QED
      BY <3>1 DEF Carries, BringsColumn
  <2>4. AllOrdinary(MySQLClausesOf(6, "create index", S), named, c, Cols(d), drop)
    BY <2>2, <2>3, MySQLClauses
  <2> QED
    BY <2>4
<1>7. AllOrdinary(MySQLClausesOf(7, "add key", MySQL!AddConstraints(c, d)),
                named, c, Cols(d), drop)
  <2> PICK S : S = MySQL!AddConstraints(c, d)
    OBVIOUS
  <2>1. S \subseteq d.constraints
    BY MySQLAltered
  <2>2. IsFiniteSet(S)
    BY <2>1, Finite
  <2>3. ASSUME NEW x \in S
        PROVE  x.table \in Nat \X Nat /\ x.name \in Nat /\ Carries("add key", x.table, x, named, Cols(d), drop)
    <3>1. x.table \in Nat \X Nat /\ x.name \in Nat /\ IsConstraint(x, {x.table}, named)
      BY <2>1, Parts
    <3> QED
      BY <3>1 DEF Carries, BringsConstraint
  <2>4. AllOrdinary(MySQLClausesOf(7, "add key", S), named, c, Cols(d), drop)
    BY <2>2, <2>3, MySQLClauses
  <2> QED
    BY <2>4
<1> PICK S1 : S1 = MySQLClausesOf(1, "drop constraint", MySQL!DropConstraints(c, d, drop))
  OBVIOUS
<1> PICK S2 : S2 = MySQLClausesOf(2, "drop index", DropIndexes(c, d, drop))
  OBVIOUS
<1> PICK S3 : S3 = MySQLClausesOf(3, "drop column", {x \in DropColumns(c, d, drop) : x.table \in MySQL!AlterTables(c, d, drop)})
  OBVIOUS
<1> PICK S4 : S4 = MySQLClausesOf(4, "add column", AddColumns(c, d))
  OBVIOUS
<1> PICK S5 : S5 = MySQLClausesOf(5, "modify column", {p[2] : p \in MySQL!AlterColumns(c, d)})
  OBVIOUS
<1> PICK S6 : S6 = MySQLClausesOf(6, "create index", CreateIndexes(c, d))
  OBVIOUS
<1> PICK S7 : S7 = MySQLClausesOf(7, "add key", MySQL!AddConstraints(c, d))
  OBVIOUS
<1>8. MySQL!AlterTableSteps(c, d, drop) = S1 \cup S2 \cup S3 \cup S4 \cup S5 \cup S6 \cup S7
  <2>1. \A n, op, S : MySQLClausesOf(n, op, S)
                      = {MySQL!Step(<<4>> \o x.table, <<n, x.name>>, MySQL!With(op, x.table, x)) : x \in S}
    BY DEF MySQLClausesOf, Step, With, MySQL!Step, MySQL!With
  <2>2. /\ S2 = MySQLClausesOf(2, "drop index", MySQL!DropIndexes(c, d, drop))
        /\ S3 = MySQLClausesOf(3, "drop column",
                  {x \in MySQL!DropColumns(c, d, drop) : x.table \in MySQL!AlterTables(c, d, drop)})
        /\ S4 = MySQLClausesOf(4, "add column", MySQL!AddColumns(c, d))
        /\ S6 = MySQLClausesOf(6, "create index", MySQL!CreateIndexes(c, d))
    BY MySQLSelections
  <2> QED
    BY <2>1, <2>2 DEF MySQL!AlterTableSteps
<1>9. AllOrdinary(S1 \cup S2 \cup S3, named, c, Cols(d), drop)
  BY <1>1, <1>2, <1>3, OrdinaryUnion
<1>10. AllOrdinary(S1 \cup S2 \cup S3 \cup S4 \cup S5, named, c, Cols(d), drop)
  BY <1>9, <1>4, <1>5, OrdinaryUnion
<1>11. AllOrdinary(S1 \cup S2 \cup S3 \cup S4 \cup S5 \cup S6 \cup S7, named, c, Cols(d), drop)
  BY <1>10, <1>6, <1>7, OrdinaryUnion
<1> QED
  BY <1>8, <1>11

\* A set of steps, with those that create tables apart.
LEMMA WithTables ==
  ASSUME NEW S, NEW T, NEW named, NEW c, NEW C, NEW drop,
         AllOrdinary(S, named, c, C, drop), AllRight(T, named, c, C, drop), Apart(T),
         \A x \in T : x.stmt.op = "copy table" =>
           \A y \in S : y.stmt.op = "add column" => x.stmt.table # y.stmt.table
  PROVE  AllRight(S \cup T, named, c, C, drop) /\ Apart(S \cup T)
<1>1. AllRight(S \cup T, named, c, C, drop)
  BY FS_Union DEF AllOrdinary, AllRight, Ordinary
<1>2. \A x \in S : x.stmt.op \notin BringsTable
  BY DEF AllOrdinary, Ordinary
<1>3. ASSUME NEW x \in S \cup T, NEW y \in S \cup T, x.stmt.op = "create table", y.stmt.op = "create table"
      PROVE  x.stmt.table # y.stmt.table \/ x = y
  BY <1>2, <1>3 DEF Apart, BringsTable
<1>4. ASSUME NEW x \in S \cup T, NEW y \in S \cup T, x.stmt.op = "copy table",
             y.stmt.op \in {"add column", "create table", "copy table"}
      PROVE  x.stmt.table # y.stmt.table \/ x = y
  <2>1. x \in T
    BY <1>2, <1>4 DEF BringsTable
  <2>2. CASE y \in T
    BY <2>1, <2>2, <1>4 DEF Apart
  <2>3. CASE y \notin T
    <3>1. y \in S /\ y.stmt.op = "add column"
      BY <2>3, <1>2, <1>4 DEF BringsTable
    <3> QED
      BY <2>1, <3>1, <1>4
  <2> QED
    BY <2>2, <2>3
<1>5. Apart(S \cup T)
  BY <1>3, <1>4 DEF Apart
<1> QED
  BY <1>1, <1>5

LEMMA MySQLRight ==
  ASSUME NEW c, NEW d, NEW named, named, Tidy(c, named), Tidy(d, named), NEW drop
  PROVE  AllRight(MySQL!Migration(c, d, drop), named, c, Cols(d), drop) /\ Apart(MySQL!Migration(c, d, drop))
<1>1. PICK S : /\ AllOrdinary(S, named, c, Cols(d), drop)
               /\ MySQL!TablesSteps(c, d, drop) = S \cup MySQLCreates(c, d)
  BY MySQLTables
<1>2. AllRight(MySQLCreates(c, d), named, c, Cols(d), drop)
  BY MySQLTables
<1>3. Apart(MySQLCreates(c, d)) /\ \A x \in MySQLCreates(c, d) : x.stmt.op # "copy table"
  <2>1. ASSUME NEW x \in MySQLCreates(c, d)
        PROVE  /\ x.stmt.op = "create table"
               /\ x = Step(<<3>>, <<2>> \o x.stmt.table \o <<0>>,
                          With("create table", x.stmt.table, MySQL!TableObject(d, x.stmt.table)))
    <3>1. PICK t : x = Step(<<3>>, <<2>> \o t \o <<0>>, With("create table", t, MySQL!TableObject(d, t)))
      BY DEF MySQLCreates
    <3>2. x.stmt.table = t /\ x.stmt.op = "create table"
      BY <3>1 DEF Step, With
    <3> QED
      BY <3>1, <3>2
  <2>2. ASSUME NEW x \in MySQLCreates(c, d), NEW y \in MySQLCreates(c, d), x.stmt.table = y.stmt.table
        PROVE  x = y
    BY <2>1, <2>2
  <2> QED
    BY <2>1, <2>2 DEF Apart
<1> PICK T : T = MySQL!DropFkeysSteps(c, d, drop) \cup MySQL!SchemasSteps(c, d, drop) \cup S
                 \cup MySQL!AlterTableSteps(c, d, drop) \cup MySQL!AddFkeysSteps(c, d)
  OBVIOUS
<1>4. AllOrdinary(MySQL!DropFkeysSteps(c, d, drop) \cup MySQL!SchemasSteps(c, d, drop) \cup S,
                  named, c, Cols(d), drop)
  BY <1>1, MySQLFkeys, MySQLSchemas, OrdinaryUnion
<1>5. AllOrdinary(T, named, c, Cols(d), drop)
  BY <1>4, MySQLFkeys, MySQLAlters, OrdinaryUnion
<1>6. MySQL!Migration(c, d, drop) = T \cup MySQLCreates(c, d)
  BY <1>1 DEF MySQL!Migration
<1>7. AllRight(T \cup MySQLCreates(c, d), named, c, Cols(d), drop) /\ Apart(T \cup MySQLCreates(c, d))
  BY <1>2, <1>3, <1>5, WithTables
<1> QED
  BY <1>6, <1>7

-----------------------------------------------------------------------------
(* SQLite *)

LEMMA SQLiteSelections ==
  ASSUME NEW c, NEW d, NEW drop
  PROVE  /\ SQLite!CreateTables(c, d) = CreateTables(c, d)
         /\ SQLite!DropIndexes(c, d, drop) = DropIndexes(c, d, drop)
         /\ SQLite!CreateIndexes(c, d) = CreateIndexes(c, d)
         /\ SQLite!DropColumns(c, d, drop) = DropColumns(c, d, drop)
         /\ SQLite!AddColumns(c, d) = AddColumns(c, d)
         /\ SQLite!ForeignKeys(d) = ForeignKeys(d)
         /\ SQLite!Pairs(c.columns, d.columns) = Pairs(c.columns, d.columns)
<1>1. \A S, R : SQLite!Gone(S, R) = Gone(S, R)
  BY DEF SQLite!Gone, Gone
<1>2. SQLite!CreateTables(c, d) = CreateTables(c, d)
  BY DEF SQLite!CreateTables, CreateTables
<1>3. SQLite!DropIndexes(c, d, drop) = DropIndexes(c, d, drop)
  BY <1>1 DEF SQLite!DropIndexes, DropIndexes
<1>4. SQLite!CreateIndexes(c, d) = CreateIndexes(c, d)
  BY <1>1 DEF SQLite!CreateIndexes, CreateIndexes
<1>5. SQLite!DropColumns(c, d, drop) = DropColumns(c, d, drop)
  BY <1>1 DEF SQLite!DropColumns, DropColumns
<1>6. SQLite!AddColumns(c, d) = AddColumns(c, d)
  BY <1>1 DEF SQLite!AddColumns, AddColumns
<1>7. SQLite!ForeignKeys(d) = ForeignKeys(d)
  BY DEF SQLite!ForeignKeys, ForeignKeys, SQLite!FOREIGN_KEY, FOREIGN_KEY
<1>8. SQLite!Pairs(c.columns, d.columns) = Pairs(c.columns, d.columns)
  BY DEF SQLite!Pairs, Pairs
<1> QED
  BY <1>2, <1>3, <1>4, <1>5, <1>6, <1>7, <1>8

\* Steps of one kind on the tables of some objects; steps of which none is of a kind.
Only(R, op, S) == \A x \in R : x.stmt.op = op /\ \E y \in S : x.stmt.table = y.table

NoneIs(S, op) == \A x \in S : x.stmt.op # op

LEMMA SQLiteForms ==
  /\ \A file, at, s : SQLite!Step(file, at, s) = Step(file, at, s)
  /\ \A op, t : SQLite!On(op, t) = On(op, t)
  /\ \A op, t, x : SQLite!With(op, t, x) = With(op, t, x)
<1>1. \A file, at, s : SQLite!Step(file, at, s) = Step(file, at, s)
  BY DEF SQLite!Step, Step
<1>2. \A op, t : SQLite!On(op, t) = On(op, t)
  BY DEF SQLite!On, On
<1>3. \A op, t, x : SQLite!With(op, t, x) = With(op, t, x)
  BY DEF SQLite!With, With
<1> QED
  BY <1>1, <1>2, <1>3

\* A catalog with other names for its constraints is as tidy, but for these.
LEMMA RenamedTidy ==
  ASSUME NEW c, NEW named, ~named, Tidy(c, named), NEW e, e = SQLite!Renamed(c)
  PROVE  /\ Tidy(e, named)
         /\ e.tables = c.tables /\ e.columns = c.columns /\ e.indexes = c.indexes /\ Cols(e) = Cols(c)
<1> PICK g : g = [k \in c.constraints |-> [k EXCEPT !.name = <<k.type, k.columns>>]]
  OBVIOUS
<1>1. DOMAIN g = c.constraints
  OBVIOUS
<1>2. /\ DOMAIN e = DOMAIN c /\ e.tables = c.tables /\ e.columns = c.columns /\ e.indexes = c.indexes
      /\ e.constraints = {[k EXCEPT !.name = <<k.type, k.columns>>] : k \in c.constraints}
  BY DEF SQLite!Renamed, Tidy
<1>3. e.constraints = ImageOf(g)
  BY <1>2 DEF ImageOf
<1>4. IsFiniteSet(e.constraints)
  BY <1>1, <1>3, ImageFinite DEF Tidy, AreConstraints
<1>5. ASSUME NEW k \in c.constraints
      PROVE  IsConstraint(g[k], c.tables, named)
  <2>1. IsConstraint(k, c.tables, named)
    BY DEF Tidy, AreConstraints
  <2>2. g[k] = [k EXCEPT !.name = <<k.type, k.columns>>]
    OBVIOUS
  <2>3. /\ DOMAIN g[k] = DOMAIN k
        /\ g[k].table = k.table /\ g[k].refTable = k.refTable /\ g[k].cascade = k.cascade
    BY <2>1, <2>2 DEF IsConstraint
  <2> QED
    BY <2>1, <2>3 DEF IsConstraint
<1>6. AreConstraints(e.constraints, c.tables, named)
  BY <1>1, <1>3, <1>4, <1>5 DEF AreConstraints, ImageOf
<1>7. Tidy(e, named)
  BY <1>2, <1>6 DEF Tidy
<1> QED
  BY <1>2, <1>7 DEF Cols

\* The steps that make tables.
SQLiteCreates(c, d) ==
  {Step(<<1>>, <<2>> \o t, With("create table", t, SQLite!TableObject(d, t, {}))) : t \in CreateTables(c, d)}

SQLiteCopies(c, d, drop) ==
  {Step(<<1>>, <<3>> \o t \o <<0, 0>>, With("copy table", t, SQLite!TableObject(d, t, SQLite!Copied(c, d, t))))
   : t \in SQLite!CopyTables(c, d, drop)}

LEMMA SQLiteObjects ==
  ASSUME NEW d, NEW named, Tidy(d, named), NEW t, NEW copied, NEW x, x = SQLite!TableObject(d, t, copied)
  PROVE  /\ AreSound(x.columns, {t}) /\ AreConstraints(x.constraints, {t}, named)
         /\ AreSound(x.indexes, {t})
         /\ x.copied = copied
         /\ \A v \in Cols(d) : v[1] = t => v \in Cols(x)
<1>a. x.columns = {z \in d.columns : z.table = t}
  BY DEF SQLite!TableObject
<1>b. x.constraints = {k \in d.constraints : k.table = t}
  BY DEF SQLite!TableObject
<1>c. x.indexes = {i \in d.indexes : i.table = t}
  BY DEF SQLite!TableObject
<1>d. x.copied = copied
  BY DEF SQLite!TableObject
<1>1. AreSound({z \in d.columns : z.table = t}, {t})
  BY Parts
<1>2. AreSound({i \in d.indexes : i.table = t}, {t})
  BY Parts
<1>3. AreConstraints({k \in d.constraints : k.table = t}, {t}, named)
  BY Parts
<1>4. \A v \in Cols(d) : v[1] = t => v \in Cols(x)
  BY <1>a DEF Cols
<1>5. AreSound(x.columns, {t})
  BY <1>a, <1>1
<1>6. AreSound(x.indexes, {t})
  BY <1>c, <1>2
<1>7. AreConstraints(x.constraints, {t}, named)
  BY <1>b, <1>3
<1> QED
  BY <1>d, <1>4, <1>5, <1>6, <1>7

LEMMA SQLiteTables ==
  ASSUME NEW c, NEW d, NEW named, Tidy(c, named), Tidy(d, named), NEW drop
  PROVE  /\ AllRight(SQLiteCreates(c, d), named, c, Cols(d), drop)
         /\ AllRight(SQLiteCopies(c, d, drop), named, c, Cols(d), drop)
         /\ \E S : /\ AllOrdinary(S, named, c, Cols(d), drop)
                  /\ NoneIs(S, "add column")
                  /\ SQLite!TablesSteps(c, d, drop) = S \cup SQLiteCreates(c, d)
<1> DEFINE dropped == {Step(<<1>>, <<1>> \o t, On("drop table", t)) : t \in {u \in c.tables \ d.tables : drop}}
<1>1. AllRight(SQLiteCreates(c, d), named, c, Cols(d), drop)
  <2> PICK S : S = CreateTables(c, d)
    OBVIOUS
  <2> PICK f : f = [t \in S |-> Step(<<1>>, <<2>> \o t, With("create table", t, SQLite!TableObject(d, t, {})))]
    OBVIOUS
  <2>1. S \subseteq d.tables
    BY Selections
  <2>2. IsFiniteSet(S)
    BY <2>1, Finite
  <2>3. ASSUME NEW t \in S
        PROVE  Right(f[t], named, c, Cols(d), drop)
    <3>1. t \in Nat \X Nat /\ t \notin c.tables
      BY <2>1, Selections DEF Tidy
    <3>2. <<1>> \in Seq(Nat) /\ <<2>> \o t \in Seq(Nat)
      BY <3>1, Tuples
    <3> PICK x : x = SQLite!TableObject(d, t, {})
      OBVIOUS
    <3>3. AreSound(x.columns, {t}) /\ AreConstraints(x.constraints, {t}, named) /\ AreSound(x.indexes, {t})
      BY SQLiteObjects
    <3> QED
      BY <3>1, <3>2, <3>3, RightTable
  <2>4. SQLiteCreates(c, d) = ImageOf(f)
    <3>1. SQLiteCreates(c, d) = {Step(<<1>>, <<2>> \o t, With("create table", t, SQLite!TableObject(d, t, {}))) : t \in S}
      BY DEF SQLiteCreates
    <3> QED
      BY <3>1 DEF ImageOf
  <2>5. DOMAIN f = S
    OBVIOUS
  <2>6. \A t \in DOMAIN f : Right(f[t], named, c, Cols(d), drop)
    BY <2>3, <2>5
  <2>7. AllRight(ImageOf(f), named, c, Cols(d), drop)
    BY <2>2, <2>5, <2>6, RightImage
  <2> QED
    BY <2>4, <2>7
<1>2. AllRight(SQLiteCopies(c, d, drop), named, c, Cols(d), drop)
  <2> PICK S : S = SQLite!CopyTables(c, d, drop)
    OBVIOUS
  <2> PICK f : f = [t \in S |-> Step(<<1>>, <<3>> \o t \o <<0, 0>>, With("copy table", t, SQLite!TableObject(d, t, SQLite!Copied(c, d, t))))]
    OBVIOUS
  <2>1. \A t \in S : t \in c.tables /\ drop
    BY DEF SQLite!CopyTables
  <2>2. IsFiniteSet(S)
    BY <2>1, Finite
  <2>3. ASSUME NEW t \in S
        PROVE  Right(f[t], named, c, Cols(d), drop)
    <3>1. t \in Nat \X Nat /\ drop
      BY <2>1 DEF Tidy
    <3>2. <<1>> \in Seq(Nat) /\ <<3>> \o t \o <<0, 0>> \in Seq(Nat)
      BY <3>1, Tuples
    <3> PICK x : x = SQLite!TableObject(d, t, SQLite!Copied(c, d, t))
      OBVIOUS
    <3>3. /\ AreSound(x.columns, {t}) /\ AreConstraints(x.constraints, {t}, named) /\ AreSound(x.indexes, {t})
          /\ x.copied = SQLite!Copied(c, d, t)
          /\ \A v \in Cols(d) : v[1] = t => v \in Cols(x)
      <4> PICK copied : copied = SQLite!Copied(c, d, t)
        OBVIOUS
      <4>1. x = SQLite!TableObject(d, t, copied)
        OBVIOUS
      <4>2. /\ AreSound(x.columns, {t}) /\ AreConstraints(x.constraints, {t}, named) /\ AreSound(x.indexes, {t})
            /\ x.copied = copied
            /\ \A v \in Cols(d) : v[1] = t => v \in Cols(x)
        BY <4>1, SQLiteObjects
      <4> QED
        BY <4>2
    <3>4. ASSUME NEW v \in Cols(c), v \in Cols(d), v[1] = t
          PROVE  v[2] \in x.copied
      <4>1. PICK z \in c.columns : v = <<z.table, z.name>>
        BY DEF Cols
      <4>2. PICK y \in d.columns : v = <<y.table, y.name>>
        BY <3>4 DEF Cols
      <4>a. v[1] = z.table /\ v[2] = z.name
        BY <4>1
      <4>b. v[1] = y.table /\ v[2] = y.name
        BY <4>2
      <4>3. z.table = t /\ z.name = v[2] /\ y.table = t /\ y.name = v[2]
        BY <4>a, <4>b, <3>4
      <4> PICK q : q = <<z, y>>
        OBVIOUS
      <4>4. q \in c.columns \X d.columns /\ q[1] = z /\ q[2] = y
        OBVIOUS
      <4>5. q \in SQLite!Pairs(c.columns, d.columns)
        BY <4>3, <4>4 DEF SQLite!Pairs
      <4>6. q[1].name \in SQLite!Copied(c, d, t)
        BY <4>3, <4>4, <4>5 DEF SQLite!Copied
      <4> QED
        BY <4>3, <4>4, <4>6, <3>3
    <3> QED
      BY <3>1, <3>2, <3>3, <3>4, RightTable
  <2>4. SQLiteCopies(c, d, drop) = ImageOf(f)
    <3>1. SQLiteCopies(c, d, drop) = {Step(<<1>>, <<3>> \o t \o <<0, 0>>, With("copy table", t, SQLite!TableObject(d, t, SQLite!Copied(c, d, t)))) : t \in S}
      BY DEF SQLiteCopies
    <3> QED
      BY <3>1 DEF ImageOf
  <2>5. DOMAIN f = S
    OBVIOUS
  <2>6. \A t \in DOMAIN f : Right(f[t], named, c, Cols(d), drop)
    BY <2>3, <2>5
  <2>7. AllRight(ImageOf(f), named, c, Cols(d), drop)
    BY <2>2, <2>5, <2>6, RightImage
  <2> QED
    BY <2>4, <2>7
<1>3. AllOrdinary(dropped, named, c, Cols(d), drop)
  <2> PICK S : S = {u \in c.tables \ d.tables : drop}
    OBVIOUS
  <2> PICK f : f = [t \in S |-> Step(<<1>>, <<1>> \o t, On("drop table", t))]
    OBVIOUS
  <2>1. S \subseteq c.tables
    OBVIOUS
  <2>2. IsFiniteSet(S)
    BY <2>1, Finite
  <2>3. ASSUME NEW t \in S
        PROVE  Ordinary(f[t], named, c, Cols(d), drop)
    <3>a. t \in c.tables /\ drop /\ t \notin d.tables
      OBVIOUS
    <3>1. t \in Nat \X Nat /\ drop /\ t \notin d.tables
      BY <3>a DEF Tidy
    <3>b. \A z \in d.columns : z.table \in d.tables
      BY DEF Tidy, AreSound
    <3>2. \A v \in Cols(d) : v[1] # t
      <4>1. ASSUME NEW v \in Cols(d)
            PROVE  v[1] # t
        <5>1. PICK z \in d.columns : v = <<z.table, z.name>>
          BY DEF Cols
        <5>2. v[1] = z.table
          BY <5>1
        <5> QED
          BY <5>2, <3>1, <3>b
      <4> QED
        BY <4>1
    <3>3. <<1>> \in Seq(Nat) /\ <<1>> \o t \in Seq(Nat)
      BY <3>1, Tuples
    <3> QED
      BY <3>1, <3>2, <3>3, OrdinaryOn
  <2>4. dropped = ImageOf(f)
    <3>1. dropped = {Step(<<1>>, <<1>> \o t, On("drop table", t)) : t \in S}
      OBVIOUS
    <3> QED
      BY <3>1 DEF ImageOf
  <2>5. DOMAIN f = S
    OBVIOUS
  <2>6. \A t \in DOMAIN f : Ordinary(f[t], named, c, Cols(d), drop)
    BY <2>3, <2>5
  <2>7. AllOrdinary(ImageOf(f), named, c, Cols(d), drop)
    BY <2>2, <2>5, <2>6, OrdinaryImage
  <2> QED
    BY <2>4, <2>7
<1>4. SQLite!TablesSteps(c, d, drop) = dropped \cup SQLiteCreates(c, d)
  <2>1. dropped = {SQLite!Step(<<1>>, <<1>> \o t, SQLite!On("drop table", t)) : t \in {u \in c.tables \ d.tables : drop}}
    BY DEF Step, On, SQLite!Step, SQLite!On
  <2>2. SQLiteCreates(c, d) = {SQLite!Step(<<1>>, <<2>> \o t, SQLite!With("create table", t, SQLite!TableObject(d, t, {})))
                               : t \in SQLite!CreateTables(c, d)}
    BY SQLiteSelections DEF SQLiteCreates, Step, With, SQLite!Step, SQLite!With
  <2> QED
    BY <2>1, <2>2 DEF SQLite!TablesSteps
<1>5. NoneIs(dropped, "add column")
  <2>1. ASSUME NEW x \in dropped
        PROVE  x.stmt.op # "add column"
    <3>1. PICK t : x = Step(<<1>>, <<1>> \o t, On("drop table", t))
      OBVIOUS
    <3>2. x.stmt.op = "drop table"
      BY <3>1 DEF Step, On
    <3> QED
      BY <3>2
  <2> QED
    BY <2>1 DEF NoneIs
<1> HIDE DEF dropped
<1> QED
  BY <1>1, <1>2, <1>3, <1>4, <1>5

\* The clauses of one kind.
SQLiteClausesOf(n, op, S) ==
  {Step(<<1>>, <<3>> \o x.table \o <<n, x.name, 0>>, With(op, x.table, x)) : x \in S}

LEMMA SQLiteClauses ==
  ASSUME NEW c, NEW d, NEW named, Tidy(c, named), Tidy(d, named), NEW drop,
         NEW n \in Nat, NEW op, NEW S, IsFiniteSet(S),
         \A x \in S : /\ x.table \in Nat \X Nat /\ x.name \in Nat
                      /\ Carries(op, x.table, x, named, Cols(d), drop)
  PROVE  /\ AllOrdinary(SQLiteClausesOf(n, op, S), named, c, Cols(d), drop)
         /\ Only(SQLiteClausesOf(n, op, S), op, S)
<1> PICK f : f = [x \in S |-> Step(<<1>>, <<3>> \o x.table \o <<n, x.name, 0>>, With(op, x.table, x))]
  OBVIOUS
<1>1. ASSUME NEW x \in S
      PROVE  Ordinary(f[x], named, c, Cols(d), drop)
  <2>1. <<1>> \in Seq(Nat) /\ <<3>> \o x.table \o <<n, x.name, 0>> \in Seq(Nat)
    BY Tuples
  <2> QED
    BY <2>1, OrdinaryWith
<1>2. SQLiteClausesOf(n, op, S) = ImageOf(f)
  BY DEF ImageOf, SQLiteClausesOf
<1>3. DOMAIN f = S
  OBVIOUS
<1>4. AllOrdinary(ImageOf(f), named, c, Cols(d), drop)
  BY <1>1, <1>3, OrdinaryImage
<1>5. Only(SQLiteClausesOf(n, op, S), op, S)
  <2>1. ASSUME NEW x \in SQLiteClausesOf(n, op, S)
        PROVE  x.stmt.op = op /\ \E y \in S : x.stmt.table = y.table
    <3>1. PICK y \in S : x = Step(<<1>>, <<3>> \o y.table \o <<n, y.name, 0>>, With(op, y.table, y))
      BY DEF SQLiteClausesOf
    <3>2. x.stmt.op = op /\ x.stmt.table = y.table
      BY <3>1 DEF Step, With
    <3> QED
      BY <3>2
  <2> QED
    BY <2>1 DEF Only
<1> QED
  BY <1>2, <1>4, <1>5

\* A foreign key that comes with its column.
SQLiteReferences(R) ==
  {Step(<<1>>, <<3>> \o p[1].table \o <<3, p[1].name, 1>>,
        [With("add foreign key", p[1].table, p[2]) EXCEPT !.name = 0]) : p \in R}

LEMMA SQLiteReferencesRight ==
  ASSUME NEW c, NEW d, NEW named, Tidy(c, named), Tidy(d, named), NEW drop,
         NEW R \in SUBSET {p \in AddColumns(c, d) \X ForeignKeys(d) : p[1].table = p[2].table}
  PROVE  /\ AllOrdinary(SQLiteReferences(R), named, c, Cols(d), drop)
         /\ NoneIs(SQLiteReferences(R), "add column")
<1> PICK f : f = [p \in R |-> Step(<<1>>, <<3>> \o p[1].table \o <<3, p[1].name, 1>>,
                                   [With("add foreign key", p[1].table, p[2]) EXCEPT !.name = 0])]
  OBVIOUS
<1>1. \A p \in R : p[1] \in d.columns /\ p[2] \in d.constraints /\ p[1].table = p[2].table
  BY Selections DEF ForeignKeys
<1>2. ASSUME NEW p \in R
      PROVE  Ordinary(f[p], named, c, Cols(d), drop)
  <2> PICK s : s = [With("add foreign key", p[1].table, p[2]) EXCEPT !.name = 0]
    OBVIOUS
  <2>1. p[1].table \in Nat \X Nat /\ p[1].name \in Nat /\ IsConstraint(p[2], {p[2].table}, named)
    BY <1>1, Parts
  <2>2. {"op", "table"} \subseteq DOMAIN s /\ s.op = "add foreign key" /\ s.table = p[1].table /\ s.object = p[2]
    BY DEF With
  <2>3. Fits(s, named) /\ s.op \in Plain
    BY <1>1, <2>1, <2>2, KindsFit DEF BringsConstraint, Plain
  <2>4. <<1>> \in Seq(Nat) /\ <<3>> \o p[1].table \o <<3, p[1].name, 1>> \in Seq(Nat)
    BY <2>1, Tuples
  <2>5. Ordinary(Step(<<1>>, <<3>> \o p[1].table \o <<3, p[1].name, 1>>, s), named, c, Cols(d), drop)
    BY <2>3, <2>4, RightStep
  <2> QED
    BY <2>5
<1>3. IsFiniteSet(R)
  <2>1. IsFiniteSet(AddColumns(c, d)) /\ IsFiniteSet(ForeignKeys(d))
    BY Finite, Selections DEF ForeignKeys
  <2>2. IsFiniteSet(AddColumns(c, d) \X ForeignKeys(d))
    BY <2>1, FS_Product
  <2> QED
    BY <2>2, FS_Subset
<1>4. SQLiteReferences(R) = ImageOf(f)
  BY DEF ImageOf, SQLiteReferences
<1>5. DOMAIN f = R
  OBVIOUS
<1>6. AllOrdinary(ImageOf(f), named, c, Cols(d), drop)
  BY <1>2, <1>3, <1>5, OrdinaryImage
<1>7. NoneIs(SQLiteReferences(R), "add column")
  <2>1. ASSUME NEW x \in SQLiteReferences(R)
        PROVE  x.stmt.op = "add foreign key"
    <3>1. PICK p \in R : x = Step(<<1>>, <<3>> \o p[1].table \o <<3, p[1].name, 1>>,
                                 [With("add foreign key", p[1].table, p[2]) EXCEPT !.name = 0])
      BY DEF SQLiteReferences
    <3> QED
      BY <3>1 DEF Step, With
  <2> QED
    BY <2>1 DEF NoneIs
<1> QED
  BY <1>4, <1>6, <1>7

LEMMA SQLiteAlters ==
  ASSUME NEW c, NEW d, NEW named, Tidy(c, named), Tidy(d, named), NEW drop
  PROVE  /\ AllOrdinary(SQLite!AlterTableSteps(c, d, drop), named, c, Cols(d), drop)
         /\ \A x \in SQLite!AlterTableSteps(c, d, drop) :
              x.stmt.op = "add column" => x.stmt.table \notin SQLite!CopyTables(c, d, drop)
<1> PICK copy : copy = SQLite!CopyTables(c, d, drop)
  OBVIOUS
<1> PICK S1 : S1 = {y \in DropIndexes(c, d, drop) : y.table \notin copy}
  OBVIOUS
<1>1. /\ AllOrdinary(SQLiteClausesOf(1, "drop index", S1), named, c, Cols(d), drop)
     /\ \A x \in SQLiteClausesOf(1, "drop index", S1) : x.stmt.op = "drop index" /\ x.stmt.table \notin copy
  <2>1. S1 \subseteq c.indexes
    BY Selections
  <2>2. IsFiniteSet(S1)
    BY <2>1, Finite
  <2>3. ASSUME NEW x \in S1
        PROVE  x.table \in Nat \X Nat /\ x.name \in Nat /\ Carries("drop index", x.table, x, named, Cols(d), drop)
    <3>1. x.table \in Nat \X Nat /\ x.name \in Nat
      BY <2>1, Parts
    <3> QED
      BY <3>1 DEF Carries
  <2>4. /\ AllOrdinary(SQLiteClausesOf(1, "drop index", S1), named, c, Cols(d), drop)
        /\ Only(SQLiteClausesOf(1, "drop index", S1), "drop index", S1)
    <3>1. AllOrdinary(SQLiteClausesOf(1, "drop index", S1), named, c, Cols(d), drop)
      BY <2>2, <2>3, SQLiteClauses
    <3>2. Only(SQLiteClausesOf(1, "drop index", S1), "drop index", S1)
      BY <2>2, <2>3, SQLiteClauses
    <3> QED
      BY <3>1, <3>2
  <2> QED
    BY <2>4 DEF Only
<1> PICK S2 : S2 = {y \in {x \in DropColumns(c, d, drop) : x.table \in SQLite!AlterTables(c, d)} : y.table \notin copy}
  OBVIOUS
<1>2. /\ AllOrdinary(SQLiteClausesOf(2, "drop column", S2), named, c, Cols(d), drop)
     /\ \A x \in SQLiteClausesOf(2, "drop column", S2) : x.stmt.op = "drop column" /\ x.stmt.table \notin copy
  <2>1. S2 \subseteq c.columns
    BY Selections
  <2>2. IsFiniteSet(S2)
    BY <2>1, Finite
  <2>3. ASSUME NEW x \in S2
        PROVE  x.table \in Nat \X Nat /\ x.name \in Nat /\ Carries("drop column", x.table, x, named, Cols(d), drop)
    <3>1. x.table \in Nat \X Nat /\ x.name \in Nat /\ drop /\ <<x.table, x.name>> \notin Cols(d)
      BY <2>1, Parts, Selections
    <3> QED
      BY <3>1 DEF Carries
  <2>4. /\ AllOrdinary(SQLiteClausesOf(2, "drop column", S2), named, c, Cols(d), drop)
        /\ Only(SQLiteClausesOf(2, "drop column", S2), "drop column", S2)
    <3>1. AllOrdinary(SQLiteClausesOf(2, "drop column", S2), named, c, Cols(d), drop)
      BY <2>2, <2>3, SQLiteClauses
    <3>2. Only(SQLiteClausesOf(2, "drop column", S2), "drop column", S2)
      BY <2>2, <2>3, SQLiteClauses
    <3> QED
      BY <3>1, <3>2
  <2> QED
    BY <2>4 DEF Only
<1> PICK S3 : S3 = {y \in AddColumns(c, d) : y.table \notin copy}
  OBVIOUS
<1>3. /\ AllOrdinary(SQLiteClausesOf(3, "add column", S3), named, c, Cols(d), drop)
     /\ \A x \in SQLiteClausesOf(3, "add column", S3) : x.stmt.op = "add column" /\ x.stmt.table \notin copy
  <2>1. S3 \subseteq d.columns
    BY Selections
  <2>2. IsFiniteSet(S3)
    BY <2>1, Finite
  <2>3. ASSUME NEW x \in S3
        PROVE  x.table \in Nat \X Nat /\ x.name \in Nat /\ Carries("add column", x.table, x, named, Cols(d), drop)
    <3>1. x.table \in Nat \X Nat /\ x.name \in Nat /\ AreSound({x}, {x.table})
      BY <2>1, Parts
    <3> QED
      BY <3>1 DEF Carries, BringsColumn
  <2>4. /\ AllOrdinary(SQLiteClausesOf(3, "add column", S3), named, c, Cols(d), drop)
        /\ Only(SQLiteClausesOf(3, "add column", S3), "add column", S3)
    <3>1. AllOrdinary(SQLiteClausesOf(3, "add column", S3), named, c, Cols(d), drop)
      BY <2>2, <2>3, SQLiteClauses
    <3>2. Only(SQLiteClausesOf(3, "add column", S3), "add column", S3)
      BY <2>2, <2>3, SQLiteClauses
    <3> QED
      BY <3>1, <3>2
  <2> QED
    BY <2>4 DEF Only
<1> PICK S4 : S4 = {y \in CreateIndexes(c, d) : y.table \notin copy}
  OBVIOUS
<1>4. /\ AllOrdinary(SQLiteClausesOf(4, "create index", S4), named, c, Cols(d), drop)
     /\ \A x \in SQLiteClausesOf(4, "create index", S4) : x.stmt.op = "create index" /\ x.stmt.table \notin copy
  <2>1. S4 \subseteq d.indexes
    BY Selections
  <2>2. IsFiniteSet(S4)
    BY <2>1, Finite
  <2>3. ASSUME NEW x \in S4
        PROVE  x.table \in Nat \X Nat /\ x.name \in Nat /\ Carries("create index", x.table, x, named, Cols(d), drop)
    <3>1. x.table \in Nat \X Nat /\ x.name \in Nat /\ AreSound({x}, {x.table})
      BY <2>1, Parts
    <3> QED
      BY <3>1 DEF Carries, BringsColumn
  <2>4. /\ AllOrdinary(SQLiteClausesOf(4, "create index", S4), named, c, Cols(d), drop)
        /\ Only(SQLiteClausesOf(4, "create index", S4), "create index", S4)
    <3>1. AllOrdinary(SQLiteClausesOf(4, "create index", S4), named, c, Cols(d), drop)
      BY <2>2, <2>3, SQLiteClauses
    <3>2. Only(SQLiteClausesOf(4, "create index", S4), "create index", S4)
      BY <2>2, <2>3, SQLiteClauses
    <3> QED
      BY <3>1, <3>2
  <2> QED
    BY <2>4 DEF Only
<1> PICK R : R = {q \in {p \in AddColumns(c, d) \X ForeignKeys(d) :
                          p[1].table = p[2].table /\ p[2].columns = {p[1].name}} : q[1].table \notin copy}
  OBVIOUS
<1>5. /\ AllOrdinary(SQLiteReferences(R), named, c, Cols(d), drop)
      /\ NoneIs(SQLiteReferences(R), "add column")
  <2>1. R \in SUBSET {p \in AddColumns(c, d) \X ForeignKeys(d) : p[1].table = p[2].table}
    OBVIOUS
  <2>2. AllOrdinary(SQLiteReferences(R), named, c, Cols(d), drop)
    BY <2>1, SQLiteReferencesRight
  <2>3. NoneIs(SQLiteReferences(R), "add column")
    BY <2>1, SQLiteReferencesRight
  <2> QED
    BY <2>2, <2>3
<1> PICK all : all = SQLiteReferences(R) \cup SQLiteClausesOf(1, "drop index", S1)
                       \cup SQLiteClausesOf(2, "drop column", S2) \cup SQLiteClausesOf(3, "add column", S3)
                       \cup SQLiteClausesOf(4, "create index", S4)
  OBVIOUS
<1>6. SQLite!AlterTableSteps(c, d, drop) = all
  <2>1. \A n, op, S : SQLiteClausesOf(n, op, S)
                      = {SQLite!Step(<<1>>, <<3>> \o x.table \o <<n, x.name, 0>>, SQLite!With(op, x.table, x)) : x \in S}
    BY DEF SQLiteClausesOf, Step, With, SQLite!Step, SQLite!With
  <2>2. SQLiteReferences(R) = {SQLite!Step(<<1>>, <<3>> \o p[1].table \o <<3, p[1].name, 1>>,
                                    [SQLite!With("add foreign key", p[1].table, p[2]) EXCEPT !.name = 0]) : p \in R}
    BY DEF SQLiteReferences, Step, With, SQLite!Step, SQLite!With
  <2>3. R = {q \in {p \in SQLite!AddColumns(c, d) \X SQLite!ForeignKeys(d) :
                       p[1].table = p[2].table /\ p[2].columns = {p[1].name}} : q[1] \in {x \in {q[1]} : x.table \notin copy}}
    <3>1. R = {q \in {p \in AddColumns(c, d) \X ForeignKeys(d) :
                       p[1].table = p[2].table /\ p[2].columns = {p[1].name}} : q[1] \in {x \in {q[1]} : x.table \notin copy}}
      OBVIOUS
    <3> QED
      BY <3>1, SQLiteSelections
  <2>4. /\ S1 = {y \in SQLite!DropIndexes(c, d, drop) : y.table \notin copy}
        /\ S2 = {y \in {x \in SQLite!DropColumns(c, d, drop) : x.table \in SQLite!AlterTables(c, d)} : y.table \notin copy}
        /\ S3 = {y \in SQLite!AddColumns(c, d) : y.table \notin copy}
        /\ S4 = {y \in SQLite!CreateIndexes(c, d) : y.table \notin copy}
    BY SQLiteSelections
  <2> QED
    BY <2>1, <2>2, <2>3, <2>4 DEF SQLite!AlterTableSteps
<1>7. AllOrdinary(SQLiteReferences(R) \cup SQLiteClausesOf(1, "drop index", S1)
                    \cup SQLiteClausesOf(2, "drop column", S2), named, c, Cols(d), drop)
  BY <1>1, <1>2, <1>5, OrdinaryUnion
<1>8. AllOrdinary(all, named, c, Cols(d), drop)
  BY <1>3, <1>4, <1>7, OrdinaryUnion
<1>9. \A x \in all : x.stmt.op = "add column" => x.stmt.table \notin copy
  BY <1>1, <1>2, <1>3, <1>4, <1>5 DEF NoneIs
<1> QED
  BY <1>6, <1>8, <1>9

LEMMA SQLiteRight ==
  ASSUME NEW c, NEW d, NEW named, Tidy(c, named), Tidy(d, named), NEW drop
  PROVE  /\ AllRight(SQLite!TablesSteps(c, d, drop) \cup SQLite!CopyTableSteps(c, d, drop)
                     \cup SQLite!AlterTableSteps(c, d, drop), named, c, Cols(d), drop)
         /\ Apart(SQLite!TablesSteps(c, d, drop) \cup SQLite!CopyTableSteps(c, d, drop)
                     \cup SQLite!AlterTableSteps(c, d, drop))
<1>1. PICK S : /\ AllOrdinary(S, named, c, Cols(d), drop)
               /\ NoneIs(S, "add column")
               /\ SQLite!TablesSteps(c, d, drop) = S \cup SQLiteCreates(c, d)
  <2>1. \E S : /\ AllOrdinary(S, named, c, Cols(d), drop)
               /\ NoneIs(S, "add column")
               /\ SQLite!TablesSteps(c, d, drop) = S \cup SQLiteCreates(c, d)
    BY SQLiteTables
  <2> QED
    BY <2>1
<1>2. AllRight(SQLiteCreates(c, d), named, c, Cols(d), drop) /\ AllRight(SQLiteCopies(c, d, drop), named, c, Cols(d), drop)
  BY SQLiteTables
<1> PICK T : T = SQLiteCreates(c, d) \cup SQLiteCopies(c, d, drop)
  OBVIOUS
<1>3. AllRight(T, named, c, Cols(d), drop)
  BY <1>2, FS_Union DEF AllRight
<1> PICK A : A = SQLite!AlterTableSteps(c, d, drop)
  OBVIOUS
<1>4. /\ AllOrdinary(A, named, c, Cols(d), drop)
      /\ \A x \in A : x.stmt.op = "add column" => x.stmt.table \notin SQLite!CopyTables(c, d, drop)
  BY SQLiteAlters
<1>5. AllOrdinary(S \cup A, named, c, Cols(d), drop)
  BY <1>1, <1>4, OrdinaryUnion
<1>6. ASSUME NEW x \in SQLiteCreates(c, d)
      PROVE  /\ x.stmt.op = "create table" /\ x.stmt.table \notin c.tables
             /\ x = Step(<<1>>, <<2>> \o x.stmt.table,
                        With("create table", x.stmt.table, SQLite!TableObject(d, x.stmt.table, {})))
  <2>1. PICK t \in CreateTables(c, d) :
          x = Step(<<1>>, <<2>> \o t, With("create table", t, SQLite!TableObject(d, t, {})))
    BY DEF SQLiteCreates
  <2>2. x.stmt.op = "create table" /\ x.stmt.table = t
    BY <2>1 DEF Step, With
  <2>3. t \notin c.tables
    BY DEF CreateTables
  <2> QED
    BY <2>1, <2>2, <2>3
<1>7. ASSUME NEW x \in SQLiteCopies(c, d, drop)
      PROVE  /\ x.stmt.op = "copy table" /\ x.stmt.table \in SQLite!CopyTables(c, d, drop)
             /\ x = Step(<<1>>, <<3>> \o x.stmt.table \o <<0, 0>>,
                        With("copy table", x.stmt.table,
                             SQLite!TableObject(d, x.stmt.table, SQLite!Copied(c, d, x.stmt.table))))
  <2>1. PICK t \in SQLite!CopyTables(c, d, drop) :
          x = Step(<<1>>, <<3>> \o t \o <<0, 0>>,
                   With("copy table", t, SQLite!TableObject(d, t, SQLite!Copied(c, d, t))))
    BY DEF SQLiteCopies
  <2>2. x.stmt.op = "copy table" /\ x.stmt.table = t
    BY <2>1 DEF Step, With
  <2> QED
    BY <2>1, <2>2
<1>8. \A t \in SQLite!CopyTables(c, d, drop) : t \in c.tables
  BY DEF SQLite!CopyTables
<1>9. Apart(T)
  <2>1. ASSUME NEW x \in T, NEW y \in T, x.stmt.op = y.stmt.op, x.stmt.table = y.stmt.table
        PROVE  x = y
    BY <1>6, <1>7, <2>1
  <2>2. ASSUME NEW x \in T, NEW y \in T, x.stmt.op = "copy table", y.stmt.op = "create table"
        PROVE  x.stmt.table # y.stmt.table
    BY <1>6, <1>7, <1>8, <2>2
  <2>3. \A x \in T : x.stmt.op # "add column"
    BY <1>6, <1>7
  <2>4. ASSUME NEW x \in T, NEW y \in T, x.stmt.op = "copy table",
               y.stmt.op \in {"add column", "create table", "copy table"}, x.stmt.table = y.stmt.table
        PROVE  x = y
    <3>1. y.stmt.op = "copy table"
      BY <2>2, <2>3, <2>4
    <3> QED
      BY <2>1, <2>4, <3>1
  <2>5. ASSUME NEW x \in T, NEW y \in T, x.stmt.op = "create table", y.stmt.op = "create table",
               x.stmt.table = y.stmt.table
        PROVE  x = y
    BY <2>1, <2>5
  <2> QED
    BY <2>4, <2>5 DEF Apart
<1>10. ASSUME NEW x \in T, x.stmt.op = "copy table", NEW y \in S \cup A, y.stmt.op = "add column"
       PROVE  x.stmt.table # y.stmt.table
  BY <1>1, <1>4, <1>6, <1>7, <1>10 DEF NoneIs
<1>11. AllRight((S \cup A) \cup T, named, c, Cols(d), drop) /\ Apart((S \cup A) \cup T)
  BY <1>3, <1>5, <1>9, <1>10, WithTables
<1>12. SQLite!CopyTableSteps(c, d, drop) = SQLiteCopies(c, d, drop)
  BY SQLiteForms DEF SQLite!CopyTableSteps, SQLiteCopies
<1>13. SQLite!TablesSteps(c, d, drop) \cup SQLite!CopyTableSteps(c, d, drop) \cup SQLite!AlterTableSteps(c, d, drop)
       = (S \cup A) \cup T
  BY <1>1, <1>12
<1> QED
  BY <1>11, <1>13

-----------------------------------------------------------------------------
(* SQL Server *)

LEMMA SQLServerSelections ==
  ASSUME NEW c, NEW d, NEW drop
  PROVE  /\ SQLServer!DropFkeys(c, d, drop) = DropFkeys(c, d, drop)
         /\ SQLServer!DropSchemas(c, d, drop) = DropSchemas(c, d, drop)
         /\ SQLServer!CreateSchemas(c, d) = CreateSchemas(c, d)
         /\ SQLServer!DropTables(c, d, drop) = DropTables(c, d, drop)
         /\ SQLServer!CreateTables(c, d) = CreateTables(c, d)
         /\ SQLServer!DropKeys(c, d, drop) = DropKeys(c, d, drop)
         /\ SQLServer!AddKeys(c, d) = AddKeys(c, d)
         /\ SQLServer!DropIndexes(c, d, drop) = DropIndexes(c, d, drop)
         /\ SQLServer!CreateIndexes(c, d) = CreateIndexes(c, d)
         /\ SQLServer!DropColumns(c, d, drop) = DropColumns(c, d, drop)
         /\ SQLServer!AddColumns(c, d) = AddColumns(c, d)
         /\ SQLServer!AddFastFkeys(c, d) = AddFastFkeys(c, d)
         /\ SQLServer!AddFkeys(c, d) = AddFkeys(c, d)
         /\ SQLServer!Pairs(c.columns, d.columns) = Pairs(c.columns, d.columns)
<1>1. \A S, R : SQLServer!Gone(S, R) = Gone(S, R)
  BY DEF SQLServer!Gone, Gone
<1>2. \A x : /\ SQLServer!ForeignKeys(x) = ForeignKeys(x) /\ SQLServer!Keys(x) = Keys(x)
             /\ SQLServer!Schemas(x) = Schemas(x)
  BY DEF SQLServer!ForeignKeys, ForeignKeys, SQLServer!FOREIGN_KEY, FOREIGN_KEY, SQLServer!Keys, Keys,
         SQLServer!IsKey, IsKey, SQLServer!PRIMARY_KEY, PRIMARY_KEY, SQLServer!UNIQUE, UNIQUE,
         SQLServer!Schemas, Schemas, SQLServer!Schema, Schema
<1>3. SQLServer!DropFkeys(c, d, drop) = DropFkeys(c, d, drop)
  BY <1>1, <1>2 DEF SQLServer!DropFkeys, DropFkeys
<1>4. SQLServer!DropSchemas(c, d, drop) = DropSchemas(c, d, drop)
  BY <1>1, <1>2 DEF SQLServer!DropSchemas, DropSchemas
<1>5. SQLServer!CreateSchemas(c, d) = CreateSchemas(c, d)
  BY <1>1, <1>2 DEF SQLServer!CreateSchemas, CreateSchemas
<1>6. SQLServer!DropTables(c, d, drop) = DropTables(c, d, drop)
  BY <1>1, <1>2 DEF SQLServer!DropTables, DropTables, SQLServer!Schema, Schema
<1>7. SQLServer!CreateTables(c, d) = CreateTables(c, d)
  BY <1>1, <1>2 DEF SQLServer!CreateTables, CreateTables
<1>8. SQLServer!DropKeys(c, d, drop) = DropKeys(c, d, drop)
  BY <1>1, <1>2 DEF SQLServer!DropKeys, DropKeys
<1>9. SQLServer!AddKeys(c, d) = AddKeys(c, d)
  BY <1>1, <1>2 DEF SQLServer!AddKeys, AddKeys
<1>10. SQLServer!DropIndexes(c, d, drop) = DropIndexes(c, d, drop)
  BY <1>1, <1>2 DEF SQLServer!DropIndexes, DropIndexes
<1>11. SQLServer!CreateIndexes(c, d) = CreateIndexes(c, d)
  BY <1>1, <1>2 DEF SQLServer!CreateIndexes, CreateIndexes
<1>12. SQLServer!DropColumns(c, d, drop) = DropColumns(c, d, drop)
  BY <1>1, <1>2 DEF SQLServer!DropColumns, DropColumns
<1>13. SQLServer!AddColumns(c, d) = AddColumns(c, d)
  BY <1>1, <1>2 DEF SQLServer!AddColumns, AddColumns
<1>14. SQLServer!AddFastFkeys(c, d) = AddFastFkeys(c, d)
  BY <1>1, <1>2 DEF SQLServer!AddFastFkeys, AddFastFkeys, SQLServer!CreateTables, CreateTables
<1>15. SQLServer!AddFkeys(c, d) = AddFkeys(c, d)
  BY <1>1, <1>2 DEF SQLServer!AddFkeys, AddFkeys
<1>16. SQLServer!Pairs(c.columns, d.columns) = Pairs(c.columns, d.columns)
  BY <1>1, <1>2 DEF SQLServer!Pairs, Pairs
<1> QED
  BY <1>3, <1>4, <1>5, <1>6, <1>7, <1>8, <1>9, <1>10, <1>11, <1>12, <1>13, <1>14, <1>15, <1>16

LEMMA SQLServerForms ==
  /\ \A file, at, s : SQLServer!Step(file, at, s) = Step(file, at, s)
  /\ \A op, t : SQLServer!On(op, t) = On(op, t)
  /\ \A op, t, n : SQLServer!Named(op, t, n) = Named(op, t, n)
  /\ \A op, t, x : SQLServer!With(op, t, x) = With(op, t, x)
  /\ \A k : SQLServer!Place(k) = k.table \o <<k.name>>
  /\ \A t : SQLServer!Schema(t) = Schema(t)
<1>1. \A file, at, s : SQLServer!Step(file, at, s) = Step(file, at, s)
  BY DEF SQLServer!Step, Step
<1>2. \A op, t : SQLServer!On(op, t) = On(op, t)
  BY DEF SQLServer!On, On
<1>3. \A op, t, n : SQLServer!Named(op, t, n) = Named(op, t, n)
  BY DEF SQLServer!Named, Named
<1>4. \A op, t, x : SQLServer!With(op, t, x) = With(op, t, x)
  BY DEF SQLServer!With, With
<1>5. \A k : SQLServer!Place(k) = k.table \o <<k.name>>
  BY DEF SQLServer!Place
<1>6. \A t : SQLServer!Schema(t) = Schema(t)
  BY DEF SQLServer!Schema, Schema
<1> QED
  BY <1>1, <1>2, <1>3, <1>4, <1>5, <1>6

LEMMA SQLServerIDs ==
  ASSUME NEW k, k.table \in Nat \X Nat, k.refTable \in Nat \X Nat
  PROVE  SQLServer!TablesID(k) \in Seq(Nat)
<1>1. k.table \in Seq(Nat) /\ k.refTable \in Seq(Nat)
  BY Tuples
<1>2. k.table \o k.refTable \in Seq(Nat) /\ k.refTable \o k.table \in Seq(Nat)
  BY <1>1, Tuples
<1> QED
  BY <1>2 DEF SQLServer!TablesID

\* What is dropped and made again, each with a column.
SQLServerAgain(q, S, columns) == q[1] \in S /\ q[2] \in columns /\ q = <<q[1], q[2]>>

LEMMA SQLServerAgains ==
  ASSUME NEW c, NEW d, NEW named, Tidy(c, named), Tidy(d, named), NEW drop
  PROVE  /\ \A q \in SQLServer!AgainIndexes(c, d, drop) : SQLServerAgain(q, c.indexes, c.columns)
         /\ \A q \in SQLServer!AgainKeys(c, d, drop) : SQLServerAgain(q, c.constraints, c.columns)
         /\ \A q \in SQLServer!AgainFkeys(c, d, drop) : SQLServerAgain(q, c.constraints, c.columns)
         /\ IsFiniteSet(SQLServer!AgainIndexes(c, d, drop))
         /\ IsFiniteSet(SQLServer!AgainKeys(c, d, drop))
         /\ IsFiniteSet(SQLServer!AgainFkeys(c, d, drop))
<1>1. \A p \in SQLServer!AlterColumns(c, d) : p[1] \in c.columns
  BY DEF SQLServer!AlterColumns, SQLServer!Pairs
<1>2. ASSUME NEW S, NEW T, S \subseteq T, IsFiniteSet(T)
      PROVE  /\ \A q \in SQLServer!Dependent(c, d, S) : SQLServerAgain(q, T, c.columns)
             /\ IsFiniteSet(SQLServer!Dependent(c, d, S))
  <2>1. \A q \in SQLServer!Dependent(c, d, S) : q \in T \X c.columns
    BY <1>1, <1>2 DEF SQLServer!Dependent
  <2>2. \A q \in T \X c.columns : SQLServerAgain(q, T, c.columns)
    BY DEF SQLServerAgain
  <2>3. IsFiniteSet(c.columns)
    BY DEF Tidy, AreSound
  <2>4. IsFiniteSet(T \X c.columns)
    BY <1>2, <2>3, FS_Product
  <2>5. SQLServer!Dependent(c, d, S) \subseteq T \X c.columns
    BY <2>1
  <2>6. IsFiniteSet(SQLServer!Dependent(c, d, S))
    BY <2>4, <2>5, FS_Subset
  <2> QED
    BY <2>1, <2>2, <2>6
<1>3. IsFiniteSet(c.indexes) /\ IsFiniteSet(c.constraints)
  BY DEF Tidy, AreSound, AreConstraints
<1>4. /\ \A q \in SQLServer!AgainIndexes(c, d, drop) : SQLServerAgain(q, c.indexes, c.columns)
      /\ IsFiniteSet(SQLServer!AgainIndexes(c, d, drop))
  <2>1. c.indexes \ SQLServer!DropIndexes(c, d, drop) \subseteq c.indexes
    OBVIOUS
  <2> QED
    BY <1>2, <1>3, <2>1 DEF SQLServer!AgainIndexes
<1>5. /\ \A q \in SQLServer!AgainKeys(c, d, drop) : SQLServerAgain(q, c.constraints, c.columns)
      /\ IsFiniteSet(SQLServer!AgainKeys(c, d, drop))
  <2>1. (SQLServer!Keys(c) \ SQLServer!DropKeys(c, d, drop)) \ SQLServer!OldPkeys(c, d, drop) \subseteq c.constraints
    BY DEF SQLServer!Keys
  <2> QED
    BY <1>2, <1>3, <2>1 DEF SQLServer!AgainKeys
<1>6. /\ \A q \in SQLServer!AgainFkeys(c, d, drop) : SQLServerAgain(q, c.constraints, c.columns)
      /\ IsFiniteSet(SQLServer!AgainFkeys(c, d, drop))
  <2>1. SQLServer!ForeignKeys(c) \ SQLServer!DropFkeys(c, d, drop) \subseteq c.constraints
    BY DEF SQLServer!ForeignKeys
  <2> QED
    BY <1>2, <1>3, <2>1 DEF SQLServer!AgainFkeys
<1> QED
  BY <1>4, <1>5, <1>6

\* Foreign keys are dropped first.
LEMMA SQLServerDrops ==
  ASSUME NEW c, NEW d, NEW named, named, Tidy(c, named), Tidy(d, named), NEW drop
  PROVE  AllOrdinary(SQLServer!DropFkeysSteps(c, d, drop), named, c, Cols(d), drop)
<1> PICK gone : gone = DropFkeys(c, d, drop)
  OBVIOUS
<1> PICK again : again = SQLServer!AgainFkeys(c, d, drop)
  OBVIOUS
<1> PICK group : group = [q \in again |-> IF \E k \in gone : SQLServer!TablesID(k) = SQLServer!TablesID(q[1])
                                         THEN <<0, 0>> ELSE <<q[1].name, q[2].name>>]
  OBVIOUS
<1> DEFINE once == {Step(<<1>> \o SQLServer!TablesID(k) \o <<0, 0>>, (k.table \o <<k.name>>) \o <<0>>,
                         Named("drop constraint", k.table, k.name)) : k \in gone}
           many == {Step(<<1>> \o SQLServer!TablesID(q[1]) \o group[q], (q[1].table \o <<q[1].name>>) \o <<q[2].name>>,
                         Named("drop constraint", q[1].table, q[1].name)) : q \in again}
<1>1. AllOrdinary(once, named, c, Cols(d), drop)
  <2> PICK S : S = gone
    OBVIOUS
  <2> PICK f : f = [k \in S |-> Step(<<1>> \o SQLServer!TablesID(k) \o <<0, 0>>, (k.table \o <<k.name>>) \o <<0>>, Named("drop constraint", k.table, k.name))]
    OBVIOUS
  <2>1. S \subseteq c.constraints
    BY Selections
  <2>2. IsFiniteSet(S)
    BY <2>1, Finite
  <2>3. ASSUME NEW k \in S
        PROVE  Ordinary(f[k], named, c, Cols(d), drop)
    <3>1. k.table \in Nat \X Nat /\ k.refTable \in Nat \X Nat /\ k.name \in Nat
      BY <2>1, Parts
    <3>2. SQLServer!TablesID(k) \in Seq(Nat)
      BY <3>1, SQLServerIDs
    <3>3. <<1>> \o SQLServer!TablesID(k) \o <<0, 0>> \in Seq(Nat) /\ (k.table \o <<k.name>>) \o <<0>> \in Seq(Nat)
      BY <3>1, <3>2, Tuples
    <3> QED
      BY <3>1, <3>3, OrdinaryNamed
  <2>4. once = ImageOf(f)
    <3>1. once = {Step(<<1>> \o SQLServer!TablesID(k) \o <<0, 0>>, (k.table \o <<k.name>>) \o <<0>>, Named("drop constraint", k.table, k.name)) : k \in S}
      OBVIOUS
    <3> QED
      BY <3>1 DEF ImageOf
  <2>5. DOMAIN f = S
    OBVIOUS
  <2>6. \A k \in DOMAIN f : Ordinary(f[k], named, c, Cols(d), drop)
    BY <2>3, <2>5
  <2>7. AllOrdinary(ImageOf(f), named, c, Cols(d), drop)
    BY <2>2, <2>5, <2>6, OrdinaryImage
  <2> QED
    BY <2>4, <2>7
<1>2. AllOrdinary(many, named, c, Cols(d), drop)
  <2> PICK S : S = again
    OBVIOUS
  <2> PICK f : f = [q \in S |-> Step(<<1>> \o SQLServer!TablesID(q[1]) \o group[q], (q[1].table \o <<q[1].name>>) \o <<q[2].name>>, Named("drop constraint", q[1].table, q[1].name))]
    OBVIOUS
  <2>1. \A q \in S : q[1] \in c.constraints /\ q[2] \in c.columns
    BY SQLServerAgains DEF SQLServerAgain
  <2>2. IsFiniteSet(S)
    BY SQLServerAgains
  <2>3. ASSUME NEW q \in S
        PROVE  Ordinary(f[q], named, c, Cols(d), drop)
    <3>1. /\ q[1].table \in Nat \X Nat /\ q[1].refTable \in Nat \X Nat /\ q[1].name \in Nat
          /\ q[2].name \in Nat
      BY <2>1, Parts
    <3>2. SQLServer!TablesID(q[1]) \in Seq(Nat)
      BY <3>1, SQLServerIDs
    <3>3. group[q] \in Seq(Nat)
      <4>1. <<0, 0>> \in Seq(Nat) /\ <<q[1].name, q[2].name>> \in Seq(Nat)
        BY <3>1, Tuples
      <4> QED
        BY <4>1
    <3>4. /\ <<1>> \o SQLServer!TablesID(q[1]) \o group[q] \in Seq(Nat)
          /\ (q[1].table \o <<q[1].name>>) \o <<q[2].name>> \in Seq(Nat)
      BY <3>1, <3>2, <3>3, Tuples
    <3> QED
      BY <3>1, <3>4, OrdinaryNamed
  <2>4. many = ImageOf(f)
    <3>1. many = {Step(<<1>> \o SQLServer!TablesID(q[1]) \o group[q], (q[1].table \o <<q[1].name>>) \o <<q[2].name>>, Named("drop constraint", q[1].table, q[1].name)) : q \in S}
      OBVIOUS
    <3> QED
      BY <3>1 DEF ImageOf
  <2>5. DOMAIN f = S
    OBVIOUS
  <2>6. \A q \in DOMAIN f : Ordinary(f[q], named, c, Cols(d), drop)
    BY <2>3, <2>5
  <2>7. AllOrdinary(ImageOf(f), named, c, Cols(d), drop)
    BY <2>2, <2>5, <2>6, OrdinaryImage
  <2> QED
    BY <2>4, <2>7
<1>3. SQLServer!DropFkeysSteps(c, d, drop) = once \cup many
  <2>1. once = {SQLServer!Step(<<1>> \o SQLServer!TablesID(k) \o <<0, 0>>, SQLServer!Place(k) \o <<0>>,
                               SQLServer!Named("drop constraint", k.table, k.name)) : k \in SQLServer!DropFkeys(c, d, drop)}
    BY SQLServerSelections, SQLServerForms
  <2>2. many = {SQLServer!Step(<<1>> \o SQLServer!TablesID(q[1]) \o
                               (IF \E k \in SQLServer!DropFkeys(c, d, drop) : SQLServer!TablesID(k) = SQLServer!TablesID(q[1])
                                THEN <<0, 0>> ELSE <<q[1].name, q[2].name>>),
                               SQLServer!Place(q[1]) \o <<q[2].name>>,
                               SQLServer!Named("drop constraint", q[1].table, q[1].name)) : q \in again}
    <3>1. SQLServer!DropFkeys(c, d, drop) = gone
      BY SQLServerSelections
    <3>2. \A q \in again : group[q] = IF \E k \in SQLServer!DropFkeys(c, d, drop) : SQLServer!TablesID(k) = SQLServer!TablesID(q[1])
                                THEN <<0, 0>> ELSE <<q[1].name, q[2].name>>
      BY <3>1
    <3>3. \A q \in again :
            Step(<<1>> \o SQLServer!TablesID(q[1]) \o group[q], (q[1].table \o <<q[1].name>>) \o <<q[2].name>>,
                 Named("drop constraint", q[1].table, q[1].name))
            = SQLServer!Step(<<1>> \o SQLServer!TablesID(q[1]) \o
                               (IF \E k \in SQLServer!DropFkeys(c, d, drop) : SQLServer!TablesID(k) = SQLServer!TablesID(q[1])
                                THEN <<0, 0>> ELSE <<q[1].name, q[2].name>>),
                             SQLServer!Place(q[1]) \o <<q[2].name>>,
                             SQLServer!Named("drop constraint", q[1].table, q[1].name))
      <4>1. \A q : SQLServer!Place(q[1]) = q[1].table \o <<q[1].name>>
        BY SQLServerForms
      <4>2. \A q : SQLServer!Named("drop constraint", q[1].table, q[1].name) = Named("drop constraint", q[1].table, q[1].name)
        BY SQLServerForms
      <4>3. \A file, at, s : SQLServer!Step(file, at, s) = Step(file, at, s)
        BY SQLServerForms
      <4> QED
        BY <3>2, <4>1, <4>2, <4>3
    <3> QED
      BY <3>3
  <2> QED
    BY <2>1, <2>2 DEF SQLServer!DropFkeysSteps
<1> HIDE DEF once, many
<1>4. AllOrdinary(once \cup many, named, c, Cols(d), drop)
  BY <1>1, <1>2, OrdinaryUnion
<1> QED
  BY <1>3, <1>4

LEMMA SQLServerSchemas ==
  ASSUME NEW c, NEW d, NEW named, named, Tidy(c, named), Tidy(d, named), NEW drop
  PROVE  AllOrdinary(SQLServer!SchemasSteps(c, d, drop), named, c, Cols(d), drop)
<1> PICK gone : gone = DropSchemas(c, d, drop)
  OBVIOUS
<1> DEFINE dropped == {Step(<<2>>, <<1, s, 1>>, On("drop schema", <<s, 0>>)) : s \in gone}
           emptied == {Step(<<2>>, <<1, t[1], 0, t[2]>>, On("drop table", t)) : t \in {u \in c.tables : Schema(u) \in gone}}
           created == {Step(<<2>>, <<2, s>>, On("create schema", <<s, 0>>)) : s \in CreateSchemas(c, d)}
<1>1. AllOrdinary(dropped, named, c, Cols(d), drop)
  <2> PICK S : S = gone
    OBVIOUS
  <2> PICK f : f = [s \in S |-> Step(<<2>>, <<1, s, 1>>, On("drop schema", <<s, 0>>))]
    OBVIOUS
  <2>2. IsFiniteSet(S)
    BY Finite
  <2>3. ASSUME NEW s \in S
        PROVE  Ordinary(f[s], named, c, Cols(d), drop)
    <3>1. s \in Nat /\ drop /\ \A v \in Cols(d) : Schema(v[1]) # s
      BY Selections
    <3>2. <<2>> \in Seq(Nat) /\ <<1, s, 1>> \in Seq(Nat) /\ <<s, 0>> \in Nat \X Nat
      BY <3>1, Tuples
    <3>3. Schema(<<s, 0>>) = s
      BY DEF Schema
    <3> QED
      BY <3>1, <3>2, <3>3, OrdinaryOn
  <2>4. dropped = ImageOf(f)
    <3>1. dropped = {Step(<<2>>, <<1, s, 1>>, On("drop schema", <<s, 0>>)) : s \in S}
      OBVIOUS
    <3> QED
      BY <3>1 DEF ImageOf
  <2>5. DOMAIN f = S
    OBVIOUS
  <2>6. \A s \in DOMAIN f : Ordinary(f[s], named, c, Cols(d), drop)
    BY <2>3, <2>5
  <2>7. AllOrdinary(ImageOf(f), named, c, Cols(d), drop)
    BY <2>2, <2>5, <2>6, OrdinaryImage
  <2> QED
    BY <2>4, <2>7
<1>2. AllOrdinary(created, named, c, Cols(d), drop)
  <2> PICK S : S = CreateSchemas(c, d)
    OBVIOUS
  <2> PICK f : f = [s \in S |-> Step(<<2>>, <<2, s>>, On("create schema", <<s, 0>>))]
    OBVIOUS
  <2>2. IsFiniteSet(S)
    BY Finite
  <2>3. ASSUME NEW s \in S
        PROVE  Ordinary(f[s], named, c, Cols(d), drop)
    <3>1. s \in Nat /\ \A t \in c.tables : Schema(t) # s
      BY Selections
    <3>2. <<2>> \in Seq(Nat) /\ <<2, s>> \in Seq(Nat) /\ <<s, 0>> \in Nat \X Nat
      BY <3>1, Tuples
    <3>3. Schema(<<s, 0>>) = s
      BY DEF Schema
    <3> QED
      BY <3>1, <3>2, <3>3, OrdinaryOn
  <2>4. created = ImageOf(f)
    <3>1. created = {Step(<<2>>, <<2, s>>, On("create schema", <<s, 0>>)) : s \in S}
      OBVIOUS
    <3> QED
      BY <3>1 DEF ImageOf
  <2>5. DOMAIN f = S
    OBVIOUS
  <2>6. \A s \in DOMAIN f : Ordinary(f[s], named, c, Cols(d), drop)
    BY <2>3, <2>5
  <2>7. AllOrdinary(ImageOf(f), named, c, Cols(d), drop)
    BY <2>2, <2>5, <2>6, OrdinaryImage
  <2> QED
    BY <2>4, <2>7
<1>3. AllOrdinary(emptied, named, c, Cols(d), drop)
  <2> PICK S : S = {u \in c.tables : Schema(u) \in gone}
    OBVIOUS
  <2> PICK f : f = [t \in S |-> Step(<<2>>, <<1, t[1], 0, t[2]>>, On("drop table", t))]
    OBVIOUS
  <2>1. S \subseteq c.tables
    OBVIOUS
  <2>2. IsFiniteSet(S)
    BY <2>1, Finite
  <2>3. ASSUME NEW t \in S
        PROVE  Ordinary(f[t], named, c, Cols(d), drop)
    <3>1. t \in c.tables /\ Schema(t) \in gone
      OBVIOUS
    <3>a. t \in Nat \X Nat
      BY <3>1 DEF Tidy
    <3> PICK s : s = Schema(t)
      OBVIOUS
    <3>c. s \in DropSchemas(c, d, drop)
      BY <3>1
    <3>d. \A r \in DropSchemas(c, d, drop) : r \in Nat /\ drop /\ \A v \in Cols(d) : Schema(v[1]) # r
      BY Selections
    <3>b. s \in Nat /\ drop /\ \A v \in Cols(d) : Schema(v[1]) # s
      BY <3>c, <3>d
    <3>2. t \in Nat \X Nat /\ drop /\ \A v \in Cols(d) : Schema(v[1]) # Schema(t)
      BY <3>a, <3>b
    <3>3. \A v \in Cols(d) : v[1] # t
      BY <3>2
    <3>4. <<2>> \in Seq(Nat) /\ <<1, t[1], 0, t[2]>> \in Seq(Nat)
      BY <3>2, Tuples
    <3> QED
      BY <3>2, <3>3, <3>4, OrdinaryOn
  <2>4. emptied = ImageOf(f)
    <3>1. emptied = {Step(<<2>>, <<1, t[1], 0, t[2]>>, On("drop table", t)) : t \in S}
      OBVIOUS
    <3> QED
      BY <3>1 DEF ImageOf
  <2>5. DOMAIN f = S
    OBVIOUS
  <2>6. \A t \in DOMAIN f : Ordinary(f[t], named, c, Cols(d), drop)
    BY <2>3, <2>5
  <2>7. AllOrdinary(ImageOf(f), named, c, Cols(d), drop)
    BY <2>2, <2>5, <2>6, OrdinaryImage
  <2> QED
    BY <2>4, <2>7
<1>4. SQLServer!SchemasSteps(c, d, drop) = dropped \cup emptied \cup created
  BY SQLServerSelections, SQLServerForms DEF SQLServer!SchemasSteps
<1> HIDE DEF dropped, emptied, created
<1>5. AllOrdinary(dropped \cup emptied \cup created, named, c, Cols(d), drop)
  BY <1>1, <1>2, <1>3, OrdinaryUnion
<1> QED
  BY <1>4, <1>5

\* The steps that create tables, the only ones of all.
SQLServerCreates(c, d) ==
  {Step(<<2>>, <<4>> \o t, With("create table", t, SQLServer!TableObject(d, t))) : t \in CreateTables(c, d)}

LEMMA SQLServerTables ==
  ASSUME NEW c, NEW d, NEW named, named, Tidy(c, named), Tidy(d, named), NEW drop
  PROVE  /\ AllRight(SQLServerCreates(c, d), named, c, Cols(d), drop)
         /\ \E S : /\ AllOrdinary(S, named, c, Cols(d), drop)
                  /\ SQLServer!TablesSteps(c, d, drop) = S \cup SQLServerCreates(c, d)
<1> DEFINE dropped == {Step(<<2>>, <<3>> \o t, On("drop table", t)) : t \in DropTables(c, d, drop)}
<1>1. AllRight(SQLServerCreates(c, d), named, c, Cols(d), drop)
  <2> PICK S : S = CreateTables(c, d)
    OBVIOUS
  <2> PICK f : f = [t \in S |-> Step(<<2>>, <<4>> \o t, With("create table", t, SQLServer!TableObject(d, t)))]
    OBVIOUS
  <2>1. S \subseteq d.tables
    BY Selections
  <2>2. IsFiniteSet(S)
    BY <2>1, Finite
  <2>3. ASSUME NEW t \in S
        PROVE  Right(f[t], named, c, Cols(d), drop)
    <3>1. t \in Nat \X Nat /\ t \notin c.tables
      BY <2>1, Selections DEF Tidy
    <3>2. <<2>> \in Seq(Nat) /\ <<4>> \o t \in Seq(Nat)
      BY <3>1, Tuples
    <3> PICK x : x = SQLServer!TableObject(d, t)
      OBVIOUS
    <3>a. x.columns = {z \in d.columns : z.table = t}
      BY DEF SQLServer!TableObject
    <3>b. x.constraints = {k \in SQLServer!Keys(d) : k.table = t}
      BY DEF SQLServer!TableObject
    <3>c. x.indexes = {i \in d.indexes : i.table = t}
      BY DEF SQLServer!TableObject
    <3>d. x.constraints \subseteq {k \in d.constraints : k.table = t}
      BY <3>b DEF SQLServer!Keys
    <3>e. AreSound({z \in d.columns : z.table = t}, {t}) /\ AreSound({i \in d.indexes : i.table = t}, {t})
      BY Parts
    <3>3. AreSound(x.columns, {t}) /\ AreSound(x.indexes, {t})
      BY <3>a, <3>c, <3>e
    <3>4. AreConstraints(x.constraints, {t}, named)
      BY <3>d, Parts
    <3> QED
      BY <3>1, <3>2, <3>3, <3>4, RightTable
  <2>4. SQLServerCreates(c, d) = ImageOf(f)
    <3>1. SQLServerCreates(c, d) = {Step(<<2>>, <<4>> \o t, With("create table", t, SQLServer!TableObject(d, t))) : t \in S}
      BY DEF SQLServerCreates
    <3> QED
      BY <3>1 DEF ImageOf
  <2>5. DOMAIN f = S
    OBVIOUS
  <2>6. \A t \in DOMAIN f : Right(f[t], named, c, Cols(d), drop)
    BY <2>3, <2>5
  <2>7. AllRight(ImageOf(f), named, c, Cols(d), drop)
    BY <2>2, <2>5, <2>6, RightImage
  <2> QED
    BY <2>4, <2>7
<1>2. AllOrdinary(dropped, named, c, Cols(d), drop)
  <2> PICK S : S = DropTables(c, d, drop)
    OBVIOUS
  <2> PICK f : f = [t \in S |-> Step(<<2>>, <<3>> \o t, On("drop table", t))]
    OBVIOUS
  <2>1. S \subseteq c.tables
    BY Selections
  <2>2. IsFiniteSet(S)
    BY <2>1, Finite
  <2>3. ASSUME NEW t \in S
        PROVE  Ordinary(f[t], named, c, Cols(d), drop)
    <3>1. t \in Nat \X Nat /\ drop /\ \A v \in Cols(d) : v[1] # t
      BY <2>1, Selections DEF Tidy
    <3>2. <<2>> \in Seq(Nat) /\ <<3>> \o t \in Seq(Nat)
      BY <3>1, Tuples
    <3> QED
      BY <3>1, <3>2, OrdinaryOn
  <2>4. dropped = ImageOf(f)
    <3>1. dropped = {Step(<<2>>, <<3>> \o t, On("drop table", t)) : t \in S}
      OBVIOUS
    <3> QED
      BY <3>1 DEF ImageOf
  <2>5. DOMAIN f = S
    OBVIOUS
  <2>6. \A t \in DOMAIN f : Ordinary(f[t], named, c, Cols(d), drop)
    BY <2>3, <2>5
  <2>7. AllOrdinary(ImageOf(f), named, c, Cols(d), drop)
    BY <2>2, <2>5, <2>6, OrdinaryImage
  <2> QED
    BY <2>4, <2>7
<1>3. SQLServer!TablesSteps(c, d, drop) = dropped \cup SQLServerCreates(c, d)
  BY SQLServerSelections, SQLServerForms DEF SQLServer!TablesSteps, SQLServerCreates
<1> HIDE DEF dropped
<1> QED
  BY <1>1, <1>2, <1>3

\* Of ALTER TABLE: the clauses of one kind; those that drop what is made again.
SQLServerClausesOf(n, op, S) ==
  {Step(<<3>> \o x.table \o <<1, 0>>, <<n, x.name, 0>>, With(op, x.table, x)) : x \in S}

SQLServerAgainOf(n, op, S) ==
  {Step(<<3>> \o q[1].table \o <<1, 0>>, <<n, q[1].name, q[2].name>>, With(op, q[1].table, q[1])) : q \in S}

LEMMA SQLServerClauses ==
  ASSUME NEW c, NEW d, NEW named, named, Tidy(c, named), Tidy(d, named), NEW drop,
         NEW n \in Nat, NEW op, NEW S, IsFiniteSet(S),
         \A x \in S : /\ x.table \in Nat \X Nat /\ x.name \in Nat
                      /\ Carries(op, x.table, x, named, Cols(d), drop)
  PROVE  AllOrdinary(SQLServerClausesOf(n, op, S), named, c, Cols(d), drop)
<1> PICK f : f = [x \in S |-> Step(<<3>> \o x.table \o <<1, 0>>, <<n, x.name, 0>>, With(op, x.table, x))]
  OBVIOUS
<1>1. ASSUME NEW x \in S
      PROVE  Ordinary(f[x], named, c, Cols(d), drop)
  <2>1. <<3>> \o x.table \o <<1, 0>> \in Seq(Nat) /\ <<n, x.name, 0>> \in Seq(Nat)
    BY Tuples
  <2> QED
    BY <2>1, OrdinaryWith
<1>2. SQLServerClausesOf(n, op, S) = ImageOf(f)
  BY DEF ImageOf, SQLServerClausesOf
<1>3. DOMAIN f = S
  OBVIOUS
<1>4. AllOrdinary(ImageOf(f), named, c, Cols(d), drop)
  BY <1>1, <1>3, OrdinaryImage
<1> QED
  BY <1>2, <1>4

LEMMA SQLServerAgainClauses ==
  ASSUME NEW c, NEW d, NEW named, named, Tidy(c, named), Tidy(d, named), NEW drop,
         NEW n \in Nat, NEW op, op \in {"drop index", "drop constraint"}, NEW S, IsFiniteSet(S),
         \A q \in S : q[1].table \in Nat \X Nat /\ q[1].name \in Nat /\ q[2].name \in Nat
  PROVE  AllOrdinary(SQLServerAgainOf(n, op, S), named, c, Cols(d), drop)
<1> PICK f : f = [q \in S |-> Step(<<3>> \o q[1].table \o <<1, 0>>, <<n, q[1].name, q[2].name>>,
                                   With(op, q[1].table, q[1]))]
  OBVIOUS
<1>1. ASSUME NEW q \in S
      PROVE  Ordinary(f[q], named, c, Cols(d), drop)
  <2>1. <<3>> \o q[1].table \o <<1, 0>> \in Seq(Nat) /\ <<n, q[1].name, q[2].name>> \in Seq(Nat)
    BY Tuples
  <2>2. Carries(op, q[1].table, q[1], named, Cols(d), drop)
    BY DEF Carries
  <2> QED
    BY <2>1, <2>2, OrdinaryWith
<1>2. SQLServerAgainOf(n, op, S) = ImageOf(f)
  BY DEF ImageOf, SQLServerAgainOf
<1>3. DOMAIN f = S
  OBVIOUS
<1>4. AllOrdinary(ImageOf(f), named, c, Cols(d), drop)
  BY <1>1, <1>3, OrdinaryImage
<1> QED
  BY <1>2, <1>4

\* An altered column keeps its table and its name.
LEMMA SQLServerColumns ==
  ASSUME NEW c, NEW d, NEW named, Tidy(c, named), Tidy(d, named)
  PROVE  /\ IsFiniteSet(SQLServer!AlterColumns(c, d))
         /\ \A p \in SQLServer!AlterColumns(c, d) :
              /\ p[2].table \in Nat \X Nat /\ p[2].name \in Nat
              /\ AreSound({p[2]}, {p[2].table})
              /\ AreSound({[p[2] EXCEPT !.default = ""]}, {p[2].table})
              /\ AreSound({SQLServer!AlteredColumn(d, p[1], p[2])}, {p[2].table})
<1>1. \A p \in SQLServer!AlterColumns(c, d) :
        p \in c.columns \X d.columns /\ p[1].table = p[2].table /\ p[1].name = p[2].name
  BY DEF SQLServer!AlterColumns, SQLServer!Pairs
<1>2. IsFiniteSet(SQLServer!AlterColumns(c, d))
  <2>1. IsFiniteSet(c.columns) /\ IsFiniteSet(d.columns)
    BY DEF Tidy, AreSound
  <2>2. IsFiniteSet(c.columns \X d.columns)
    BY <2>1, FS_Product
  <2>3. SQLServer!AlterColumns(c, d) \subseteq c.columns \X d.columns
    BY <1>1
  <2> QED
    BY <2>2, <2>3, FS_Subset
<1>3. ASSUME NEW p \in SQLServer!AlterColumns(c, d)
      PROVE  /\ p[2].table \in Nat \X Nat /\ p[2].name \in Nat
             /\ AreSound({p[2]}, {p[2].table})
             /\ AreSound({[p[2] EXCEPT !.default = ""]}, {p[2].table})
             /\ AreSound({SQLServer!AlteredColumn(d, p[1], p[2])}, {p[2].table})
  <2> PICK x : x = p[1]
    OBVIOUS
  <2> PICK y : y = p[2]
    OBVIOUS
  <2>1. x \in c.columns /\ y \in d.columns /\ x.table = y.table /\ x.name = y.name
    BY <1>1
  <2>2. /\ y.table \in Nat \X Nat /\ y.name \in Nat /\ AreSound({y}, {y.table})
        /\ AreSound({x}, {x.table})
    BY <2>1, Parts
  <2>3. {"table", "name"} \subseteq DOMAIN x /\ {"table", "name"} \subseteq DOMAIN y
    BY <2>2 DEF AreSound
  <2> PICK z : z = [y EXCEPT !.default = ""]
    OBVIOUS
  <2>4. {"table", "name"} \subseteq DOMAIN z /\ z.table = y.table /\ z.name = y.name
    BY <2>3
  <2>5. AreSound({z}, {y.table})
    BY <2>2, <2>4, FS_Singleton DEF AreSound
  <2> PICK w : w = SQLServer!AlteredColumn(d, x, y)
    OBVIOUS
  <2>6. {"table", "name"} \subseteq DOMAIN w /\ w.table = x.table /\ w.name = x.name
    BY <2>3 DEF SQLServer!AlteredColumn
  <2>7. AreSound({w}, {y.table})
    BY <2>1, <2>2, <2>6, FS_Singleton DEF AreSound
  <2> QED
    BY <2>2, <2>5, <2>7
<1> QED
  BY <1>2, <1>3

\* The statements that alter a column.
SQLServerAlterOf(y, S, n, op) ==
  {Step(<<3>> \o y.table \o <<1, 0>>, <<5, y.name, n>>, With(op, y.table, u)) : u \in S}

LEMMA SQLServerAlter ==
  ASSUME NEW c, NEW d, NEW named, named, Tidy(c, named), Tidy(d, named), NEW drop,
         NEW y, y.table \in Nat \X Nat, y.name \in Nat, NEW n \in Nat, NEW op, op \in {"alter column", "set default"},
         NEW z, AreSound({z}, {y.table}), NEW S \in SUBSET {z}
  PROVE  AllOrdinary(SQLServerAlterOf(y, S, n, op), named, c, Cols(d), drop)
<1> PICK f : f = [u \in S |-> Step(<<3>> \o y.table \o <<1, 0>>, <<5, y.name, n>>, With(op, y.table, u))]
  OBVIOUS
<1>1. ASSUME NEW u \in S
      PROVE  Ordinary(f[u], named, c, Cols(d), drop)
  <2>1. <<3>> \o y.table \o <<1, 0>> \in Seq(Nat) /\ <<5, y.name, n>> \in Seq(Nat)
    BY Tuples
  <2>2. u = z
    OBVIOUS
  <2>3. AreSound({u}, {y.table})
    BY <2>2
  <2>4. Carries(op, y.table, u, named, Cols(d), drop)
    BY <2>3 DEF Carries, BringsColumn
  <2> QED
    BY <2>1, <2>4, OrdinaryWith
<1>2. SQLServerAlterOf(y, S, n, op) = ImageOf(f)
  BY DEF ImageOf, SQLServerAlterOf
<1>3. DOMAIN f = S
  OBVIOUS
<1>4. IsFiniteSet(S)
  BY FS_Singleton, FS_Subset
<1>5. AllOrdinary(ImageOf(f), named, c, Cols(d), drop)
  BY <1>1, <1>3, <1>4, OrdinaryImage
<1> QED
  BY <1>2, <1>5

LEMMA SQLServerAlterForm ==
  ASSUME NEW y, NEW S, NEW n, NEW op
  PROVE  SQLServerAlterOf(y, S, n, op)
         = {SQLServer!Step(<<3>> \o y.table \o <<1, 0>>, <<5, y.name, n>>, SQLServer!With(op, y.table, u)) : u \in S}
<1> PICK f : f = [u \in S |-> Step(<<3>> \o y.table \o <<1, 0>>, <<5, y.name, n>>, With(op, y.table, u))]
  OBVIOUS
<1>1. SQLServerAlterOf(y, S, n, op) = {f[u] : u \in S}
  BY DEF SQLServerAlterOf
<1>2. \A u \in S : f[u] = SQLServer!Step(<<3>> \o y.table \o <<1, 0>>, <<5, y.name, n>>, SQLServer!With(op, y.table, u))
  BY SQLServerForms
<1>3. {f[u] : u \in S}
      = {SQLServer!Step(<<3>> \o y.table \o <<1, 0>>, <<5, y.name, n>>, SQLServer!With(op, y.table, u)) : u \in S}
  BY <1>2
<1> QED
  BY <1>1, <1>3

\* The column it is altered to, it without a default, and it, or nothing.
SQLServerAltered(d, x, y) == {v \in {SQLServer!AlteredColumn(d, x, y)} : SQLServer!MustAlter(d, x, y)}
SQLServerCleared(x, y) == {v \in {[y EXCEPT !.default = ""]} : x.default # y.default /\ x.default # ""}
SQLServerGiven(x, y) == {v \in {y} : x.default # y.default /\ y.default # ""}

LEMMA SQLServerAlterForms ==
  ASSUME NEW d, NEW x, NEW y
  PROVE  SQLServer!AlterColumnSteps(d, x, y)
         = SQLServerAlterOf(y, SQLServerAltered(d, x, y), 1, "alter column")
             \cup SQLServerAlterOf(y, SQLServerCleared(x, y), 2, "set default")
             \cup SQLServerAlterOf(y, SQLServerGiven(x, y), 3, "set default")
<1> PICK A : A = {SQLServer!Step(<<3>> \o y.table \o <<1, 0>>, <<5, y.name, 1>>, SQLServer!With("alter column", y.table, u))
             : u \in SQLServerAltered(d, x, y)}
  OBVIOUS
<1> PICK B : B = {SQLServer!Step(<<3>> \o y.table \o <<1, 0>>, <<5, y.name, 2>>, SQLServer!With("set default", y.table, u))
             : u \in SQLServerCleared(x, y)}
  OBVIOUS
<1> PICK C : C = {SQLServer!Step(<<3>> \o y.table \o <<1, 0>>, <<5, y.name, 3>>, SQLServer!With("set default", y.table, u))
             : u \in SQLServerGiven(x, y)}
  OBVIOUS
<1>1. SQLServer!AlterColumnSteps(d, x, y) = A \cup B \cup C
  BY DEF SQLServer!AlterColumnSteps, SQLServerAltered, SQLServerCleared, SQLServerGiven
<1>2. SQLServerAlterOf(y, SQLServerAltered(d, x, y), 1, "alter column") = A
  BY SQLServerAlterForm
<1>3. SQLServerAlterOf(y, SQLServerCleared(x, y), 2, "set default") = B
  BY SQLServerAlterForm
<1>4. SQLServerAlterOf(y, SQLServerGiven(x, y), 3, "set default") = C
  BY SQLServerAlterForm
<1> QED
  BY <1>1, <1>2, <1>3, <1>4

LEMMA SQLServerAlterSteps ==
  ASSUME NEW c, NEW d, NEW named, named, Tidy(c, named), Tidy(d, named), NEW drop,
         NEW p \in SQLServer!AlterColumns(c, d)
  PROVE  AllOrdinary(SQLServer!AlterColumnSteps(d, p[1], p[2]), named, c, Cols(d), drop)
<1> PICK x : x = p[1]
  OBVIOUS
<1> PICK y : y = p[2]
  OBVIOUS
<1> PICK w : w = SQLServer!AlteredColumn(d, x, y)
  OBVIOUS
<1> PICK z : z = [y EXCEPT !.default = ""]
  OBVIOUS
<1>1. y.table \in Nat \X Nat /\ y.name \in Nat /\ AreSound({y}, {y.table})
  BY SQLServerColumns
<1>2. AreSound({z}, {y.table}) /\ AreSound({w}, {y.table})
  BY SQLServerColumns
<1> PICK W : W = SQLServerAltered(d, x, y)
  OBVIOUS
<1> PICK Z : Z = SQLServerCleared(x, y)
  OBVIOUS
<1> PICK Y : Y = SQLServerGiven(x, y)
  OBVIOUS
<1>3. W \in SUBSET {w} /\ Z \in SUBSET {z} /\ Y \in SUBSET {y}
  BY DEF SQLServerAltered, SQLServerCleared, SQLServerGiven
<1>4. AllOrdinary(SQLServerAlterOf(y, W, 1, "alter column"), named, c, Cols(d), drop)
  BY <1>1, <1>2, <1>3, SQLServerAlter
<1>5. AllOrdinary(SQLServerAlterOf(y, Z, 2, "set default"), named, c, Cols(d), drop)
  BY <1>1, <1>2, <1>3, SQLServerAlter
<1>6. AllOrdinary(SQLServerAlterOf(y, Y, 3, "set default"), named, c, Cols(d), drop)
  BY <1>1, <1>2, <1>3, SQLServerAlter
<1> PICK A : A = SQLServerAlterOf(y, W, 1, "alter column")
  OBVIOUS
<1> PICK B : B = SQLServerAlterOf(y, Z, 2, "set default")
  OBVIOUS
<1> PICK D : D = SQLServerAlterOf(y, Y, 3, "set default")
  OBVIOUS
<1>7. SQLServer!AlterColumnSteps(d, x, y) = A \cup B \cup D
  BY SQLServerAlterForms
<1>8. AllOrdinary(A \cup B, named, c, Cols(d), drop)
  BY <1>4, <1>5, OrdinaryUnion
<1>9. AllOrdinary((A \cup B) \cup D, named, c, Cols(d), drop)
  BY <1>6, <1>8, OrdinaryUnion
<1> QED
  BY <1>7, <1>9

\* Finitely many sets of steps.
LEMMA OrdinarySets ==
  ASSUME NEW f, IsFiniteSet(DOMAIN f), NEW named, NEW c, NEW C, NEW drop,
         \A x \in DOMAIN f : AllOrdinary(f[x], named, c, C, drop)
  PROVE  AllOrdinary(UNION ImageOf(f), named, c, C, drop)
<1>1. IsFiniteSet(ImageOf(f))
  BY ImageFinite
<1>2. \A T \in ImageOf(f) : AllOrdinary(T, named, c, C, drop)
  BY DEF ImageOf
<1>3. \A T \in ImageOf(f) : IsFiniteSet(T)
  BY <1>2 DEF AllOrdinary
<1>4. IsFiniteSet(UNION ImageOf(f))
  BY <1>1, <1>3, FS_UNION
<1>5. \A x \in UNION ImageOf(f) : Ordinary(x, named, c, C, drop)
  BY <1>2 DEF AllOrdinary
<1> QED
  BY <1>4, <1>5 DEF AllOrdinary

LEMMA SQLServerAlters ==
  ASSUME NEW c, NEW d, NEW named, named, Tidy(c, named), Tidy(d, named), NEW drop
  PROVE  AllOrdinary(SQLServer!AlterTableSteps(c, d, drop), named, c, Cols(d), drop)
<1>1. AllOrdinary(SQLServerClausesOf(1, "drop index", DropIndexes(c, d, drop)),
                named, c, Cols(d), drop)
  <2> PICK S : S = DropIndexes(c, d, drop)
    OBVIOUS
  <2>1. S \subseteq c.indexes
    BY Selections
  <2>2. IsFiniteSet(S)
    BY <2>1, Finite
  <2>3. ASSUME NEW x \in S
        PROVE  x.table \in Nat \X Nat /\ x.name \in Nat /\ Carries("drop index", x.table, x, named, Cols(d), drop)
    <3>1. x.table \in Nat \X Nat /\ x.name \in Nat
      BY <2>1, Parts
    <3> QED
      BY <3>1 DEF Carries
  <2>4. AllOrdinary(SQLServerClausesOf(1, "drop index", S), named, c, Cols(d), drop)
    BY <2>2, <2>3, SQLServerClauses
  <2> QED
    BY <2>4
<1>2. AllOrdinary(SQLServerClausesOf(2, "drop constraint", DropKeys(c, d, drop) \cup SQLServer!OldPkeys(c, d, drop)),
                named, c, Cols(d), drop)
  <2> PICK S : S = DropKeys(c, d, drop) \cup SQLServer!OldPkeys(c, d, drop)
    OBVIOUS
  <2>1. S \subseteq c.constraints
    BY Selections DEF SQLServer!OldPkeys, SQLServer!Keys
  <2>2. IsFiniteSet(S)
    BY <2>1, Finite
  <2>3. ASSUME NEW x \in S
        PROVE  x.table \in Nat \X Nat /\ x.name \in Nat /\ Carries("drop constraint", x.table, x, named, Cols(d), drop)
    <3>1. x.table \in Nat \X Nat /\ x.name \in Nat
      BY <2>1, Parts
    <3> QED
      BY <3>1 DEF Carries
  <2>4. AllOrdinary(SQLServerClausesOf(2, "drop constraint", S), named, c, Cols(d), drop)
    BY <2>2, <2>3, SQLServerClauses
  <2> QED
    BY <2>4
<1>3. AllOrdinary(SQLServerClausesOf(3, "drop column", {x \in DropColumns(c, d, drop) : x.table \in SQLServer!AlterTables(c, d, drop)}),
                named, c, Cols(d), drop)
  <2> PICK S : S = {x \in DropColumns(c, d, drop) : x.table \in SQLServer!AlterTables(c, d, drop)}
    OBVIOUS
  <2>1. S \subseteq c.columns
    BY Selections
  <2>2. IsFiniteSet(S)
    BY <2>1, Finite
  <2>3. ASSUME NEW x \in S
        PROVE  x.table \in Nat \X Nat /\ x.name \in Nat /\ Carries("drop column", x.table, x, named, Cols(d), drop)
    <3>1. x.table \in Nat \X Nat /\ x.name \in Nat /\ drop /\ <<x.table, x.name>> \notin Cols(d)
      BY <2>1, Parts, Selections
    <3> QED
      BY <3>1 DEF Carries
  <2>4. AllOrdinary(SQLServerClausesOf(3, "drop column", S), named, c, Cols(d), drop)
    BY <2>2, <2>3, SQLServerClauses
  <2> QED
    BY <2>4
<1>4. AllOrdinary(SQLServerClausesOf(4, "add column", AddColumns(c, d)),
                named, c, Cols(d), drop)
  <2> PICK S : S = AddColumns(c, d)
    OBVIOUS
  <2>1. S \subseteq d.columns
    BY Selections
  <2>2. IsFiniteSet(S)
    BY <2>1, Finite
  <2>3. ASSUME NEW x \in S
        PROVE  x.table \in Nat \X Nat /\ x.name \in Nat /\ Carries("add column", x.table, x, named, Cols(d), drop)
    <3>1. x.table \in Nat \X Nat /\ x.name \in Nat /\ AreSound({x}, {x.table})
      BY <2>1, Parts
    <3> QED
      BY <3>1 DEF Carries, BringsColumn
  <2>4. AllOrdinary(SQLServerClausesOf(4, "add column", S), named, c, Cols(d), drop)
    BY <2>2, <2>3, SQLServerClauses
  <2> QED
    BY <2>4
<1>5. AllOrdinary(SQLServerAgainOf(1, "drop index", SQLServer!AgainIndexes(c, d, drop)), named, c, Cols(d), drop)
  <2> PICK S : S = SQLServer!AgainIndexes(c, d, drop)
    OBVIOUS
  <2>1. \A q \in S : q[1] \in c.indexes /\ q[2] \in c.columns
    BY SQLServerAgains DEF SQLServerAgain
  <2>2. IsFiniteSet(S)
    BY SQLServerAgains
  <2>3. \A q \in S : q[1].table \in Nat \X Nat /\ q[1].name \in Nat /\ q[2].name \in Nat
    BY <2>1, Parts
  <2>4. AllOrdinary(SQLServerAgainOf(1, "drop index", S), named, c, Cols(d), drop)
    BY <2>2, <2>3, SQLServerAgainClauses
  <2> QED
    BY <2>4
<1>6. AllOrdinary(SQLServerAgainOf(2, "drop constraint", SQLServer!AgainKeys(c, d, drop)), named, c, Cols(d), drop)
  <2> PICK S : S = SQLServer!AgainKeys(c, d, drop)
    OBVIOUS
  <2>1. \A q \in S : q[1] \in c.constraints /\ q[2] \in c.columns
    BY SQLServerAgains DEF SQLServerAgain
  <2>2. IsFiniteSet(S)
    BY SQLServerAgains
  <2>3. \A q \in S : q[1].table \in Nat \X Nat /\ q[1].name \in Nat /\ q[2].name \in Nat
    BY <2>1, Parts
  <2>4. AllOrdinary(SQLServerAgainOf(2, "drop constraint", S), named, c, Cols(d), drop)
    BY <2>2, <2>3, SQLServerAgainClauses
  <2> QED
    BY <2>4
<1>7. AllOrdinary(UNION {SQLServer!AlterColumnSteps(d, p[1], p[2]) : p \in SQLServer!AlterColumns(c, d)},
                named, c, Cols(d), drop)
  <2> PICK S : S = SQLServer!AlterColumns(c, d)
    OBVIOUS
  <2> PICK f : f = [p \in S |-> SQLServer!AlterColumnSteps(d, p[1], p[2])]
    OBVIOUS
  <2>1. DOMAIN f = S
    OBVIOUS
  <2>2. IsFiniteSet(S)
    BY SQLServerColumns
  <2>3. \A p \in S : AllOrdinary(f[p], named, c, Cols(d), drop)
    BY SQLServerAlterSteps
  <2>4. AllOrdinary(UNION ImageOf(f), named, c, Cols(d), drop)
    BY <2>1, <2>2, <2>3, OrdinarySets
  <2>5. ImageOf(f) = {SQLServer!AlterColumnSteps(d, p[1], p[2]) : p \in SQLServer!AlterColumns(c, d)}
    BY DEF ImageOf
  <2> QED
    BY <2>4, <2>5
<1> PICK S1 : S1 = SQLServerClausesOf(1, "drop index", DropIndexes(c, d, drop))
  OBVIOUS
<1> PICK S2 : S2 = SQLServerClausesOf(2, "drop constraint", DropKeys(c, d, drop) \cup SQLServer!OldPkeys(c, d, drop))
  OBVIOUS
<1> PICK S3 : S3 = SQLServerClausesOf(3, "drop column", {x \in DropColumns(c, d, drop) : x.table \in SQLServer!AlterTables(c, d, drop)})
  OBVIOUS
<1> PICK S4 : S4 = SQLServerClausesOf(4, "add column", AddColumns(c, d))
  OBVIOUS
<1> PICK S5 : S5 = SQLServerAgainOf(1, "drop index", SQLServer!AgainIndexes(c, d, drop))
  OBVIOUS
<1> PICK S6 : S6 = SQLServerAgainOf(2, "drop constraint", SQLServer!AgainKeys(c, d, drop))
  OBVIOUS
<1> PICK S7 : S7 = UNION {SQLServer!AlterColumnSteps(d, p[1], p[2]) : p \in SQLServer!AlterColumns(c, d)}
  OBVIOUS
<1>8. SQLServer!AlterTableSteps(c, d, drop) = S1 \cup S5 \cup S2 \cup S6 \cup S3 \cup S4 \cup S7
  <2>1. \A n, op, S : SQLServerClausesOf(n, op, S)
                      = {SQLServer!Step(<<3>> \o x.table \o <<1, 0>>, <<n, x.name, 0>>, SQLServer!With(op, x.table, x)) : x \in S}
    BY DEF SQLServerClausesOf, Step, With, SQLServer!Step, SQLServer!With
  <2>2. \A n, op, S : SQLServerAgainOf(n, op, S)
                      = {SQLServer!Step(<<3>> \o q[1].table \o <<1, 0>>, <<n, q[1].name, q[2].name>>,
                                        SQLServer!With(op, q[1].table, q[1])) : q \in S}
    BY DEF SQLServerAgainOf, Step, With, SQLServer!Step, SQLServer!With
  <2>3. /\ S1 = SQLServerClausesOf(1, "drop index", SQLServer!DropIndexes(c, d, drop))
        /\ S2 = SQLServerClausesOf(2, "drop constraint",
                  SQLServer!DropKeys(c, d, drop) \cup SQLServer!OldPkeys(c, d, drop))
        /\ S3 = SQLServerClausesOf(3, "drop column",
                  {x \in SQLServer!DropColumns(c, d, drop) : x.table \in SQLServer!AlterTables(c, d, drop)})
        /\ S4 = SQLServerClausesOf(4, "add column", SQLServer!AddColumns(c, d))
    BY SQLServerSelections
  <2> QED
    BY <2>1, <2>2, <2>3 DEF SQLServer!AlterTableSteps
<1>9. AllOrdinary(S1 \cup S5 \cup S2, named, c, Cols(d), drop)
  BY <1>1, <1>2, <1>5, OrdinaryUnion
<1>10. AllOrdinary(S1 \cup S5 \cup S2 \cup S6 \cup S3, named, c, Cols(d), drop)
  BY <1>9, <1>6, <1>3, OrdinaryUnion
<1>11. AllOrdinary(S1 \cup S5 \cup S2 \cup S6 \cup S3 \cup S4 \cup S7, named, c, Cols(d), drop)
  BY <1>10, <1>4, <1>7, OrdinaryUnion
<1> QED
  BY <1>8, <1>11

\* What is made, and made again, in a file of its own.
SQLServerMakes(f, op) == {Step(f[x][1], f[x][2], With(op, f[x][3].table, f[x][3])) : x \in DOMAIN f}

LEMMA SQLServerMade ==
  ASSUME NEW c, NEW d, NEW named, named, Tidy(c, named), Tidy(d, named), NEW drop,
         NEW f, IsFiniteSet(DOMAIN f), NEW op,
         \A x \in DOMAIN f : /\ f[x][1] \in Seq(Nat) /\ f[x][2] \in Seq(Nat)
                            /\ f[x][3].table \in Nat \X Nat
                            /\ Carries(op, f[x][3].table, f[x][3], named, Cols(d), drop)
  PROVE  AllOrdinary(SQLServerMakes(f, op), named, c, Cols(d), drop)
<1> PICK g : g = [x \in DOMAIN f |-> Step(f[x][1], f[x][2], With(op, f[x][3].table, f[x][3]))]
  OBVIOUS
<1>1. ASSUME NEW x \in DOMAIN f
      PROVE  Ordinary(g[x], named, c, Cols(d), drop)
  <2> PICK file : file = f[x][1]
    OBVIOUS
  <2> PICK at : at = f[x][2]
    OBVIOUS
  <2> PICK k : k = f[x][3]
    OBVIOUS
  <2>1. file \in Seq(Nat) /\ at \in Seq(Nat) /\ k.table \in Nat \X Nat /\ Carries(op, k.table, k, named, Cols(d), drop)
    OBVIOUS
  <2>2. Ordinary(Step(file, at, With(op, k.table, k)), named, c, Cols(d), drop)
    BY <2>1, OrdinaryWith
  <2> QED
    BY <2>2
<1>2. SQLServerMakes(f, op) = ImageOf(g)
  BY DEF ImageOf, SQLServerMakes
<1>3. DOMAIN g = DOMAIN f
  OBVIOUS
<1>4. AllOrdinary(ImageOf(g), named, c, Cols(d), drop)
  BY <1>1, <1>3, OrdinaryImage
<1> QED
  BY <1>2, <1>4

LEMMA SQLServerMakings ==
  ASSUME NEW c, NEW d, NEW named, named, Tidy(c, named), Tidy(d, named), NEW drop
  PROVE  /\ AllOrdinary(SQLServer!CreateIndexSteps(c, d, drop), named, c, Cols(d), drop)
         /\ AllOrdinary(SQLServer!AddKeySteps(c, d, drop), named, c, Cols(d), drop)
         /\ AllOrdinary(SQLServer!AddFastFkeysSteps(c, d), named, c, Cols(d), drop)
<1>1. AllOrdinary({Step(<<3>> \o i.table \o <<2, i.name, 0>>, <<1>>, With("create index", i.table, i)) : i \in CreateIndexes(c, d)},
                named, c, Cols(d), drop)
  <2> PICK S : S = CreateIndexes(c, d)
    OBVIOUS
  <2> PICK f : f = [i \in S |-> <<<<3>> \o i.table \o <<2, i.name, 0>>, <<1>>, i>>]
    OBVIOUS
  <2>1. S \subseteq d.indexes
    BY Selections
  <2>2. IsFiniteSet(S)
    BY <2>1, Finite
  <2>3. DOMAIN f = S
    OBVIOUS
  <2>4. ASSUME NEW i \in S
        PROVE  /\ f[i][1] \in Seq(Nat) /\ f[i][2] \in Seq(Nat)
               /\ f[i][3].table \in Nat \X Nat
               /\ Carries("create index", f[i][3].table, f[i][3], named, Cols(d), drop)
    <3>1. i.table \in Nat \X Nat /\ i.name \in Nat /\ AreSound({i}, {i.table})
      BY <2>1, Parts
    <3>2. <<3>> \o i.table \o <<2, i.name, 0>> \in Seq(Nat) /\ <<1>> \in Seq(Nat)
      BY <3>1, Tuples
    <3>3. Carries("create index", i.table, i, named, Cols(d), drop)
      BY <3>1 DEF Carries
    <3>4. f[i] = <<<<3>> \o i.table \o <<2, i.name, 0>>, <<1>>, i>>
      OBVIOUS
    <3> QED
      BY <3>1, <3>2, <3>3, <3>4
  <2>5. AllOrdinary(SQLServerMakes(f, "create index"), named, c, Cols(d), drop)
    BY <2>2, <2>3, <2>4, SQLServerMade
  <2>6. SQLServerMakes(f, "create index") = {Step(<<3>> \o i.table \o <<2, i.name, 0>>, <<1>>, With("create index", i.table, i)) : i \in S}
    BY DEF SQLServerMakes
  <2> QED
    BY <2>5, <2>6
<1>2. AllOrdinary({Step(<<3>> \o q[1].table \o <<2, q[1].name, q[2].name>>, <<1>>, With("create index", q[1].table, q[1])) : q \in SQLServer!AgainIndexes(c, d, drop)},
                named, c, Cols(d), drop)
  <2> PICK S : S = SQLServer!AgainIndexes(c, d, drop)
    OBVIOUS
  <2> PICK f : f = [q \in S |-> <<<<3>> \o q[1].table \o <<2, q[1].name, q[2].name>>, <<1>>, q[1]>>]
    OBVIOUS
  <2>1. \A q \in S : q[1] \in c.indexes /\ q[2] \in c.columns
    BY SQLServerAgains DEF SQLServerAgain
  <2>2. IsFiniteSet(S)
    BY SQLServerAgains
  <2>3. DOMAIN f = S
    OBVIOUS
  <2>4. ASSUME NEW q \in S
        PROVE  /\ f[q][1] \in Seq(Nat) /\ f[q][2] \in Seq(Nat)
               /\ f[q][3].table \in Nat \X Nat
               /\ Carries("create index", f[q][3].table, f[q][3], named, Cols(d), drop)
    <3>1. q[1].table \in Nat \X Nat /\ q[1].name \in Nat /\ q[2].name \in Nat /\ AreSound({q[1]}, {q[1].table})
      BY <2>1, Parts
    <3>2. <<3>> \o q[1].table \o <<2, q[1].name, q[2].name>> \in Seq(Nat) /\ <<1>> \in Seq(Nat)
      BY <3>1, Tuples
    <3>3. Carries("create index", q[1].table, q[1], named, Cols(d), drop)
      BY <3>1 DEF Carries
    <3>4. f[q] = <<<<3>> \o q[1].table \o <<2, q[1].name, q[2].name>>, <<1>>, q[1]>>
      OBVIOUS
    <3> QED
      BY <3>1, <3>2, <3>3, <3>4
  <2>5. AllOrdinary(SQLServerMakes(f, "create index"), named, c, Cols(d), drop)
    BY <2>2, <2>3, <2>4, SQLServerMade
  <2>6. SQLServerMakes(f, "create index") = {Step(<<3>> \o q[1].table \o <<2, q[1].name, q[2].name>>, <<1>>, With("create index", q[1].table, q[1])) : q \in S}
    BY DEF SQLServerMakes
  <2> QED
    BY <2>5, <2>6
<1>3. AllOrdinary({Step(<<3>> \o k.table \o <<3, k.name, 0>>, <<1>>, With("add key", k.table, k)) : k \in AddKeys(c, d)},
                named, c, Cols(d), drop)
  <2> PICK S : S = AddKeys(c, d)
    OBVIOUS
  <2> PICK f : f = [k \in S |-> <<<<3>> \o k.table \o <<3, k.name, 0>>, <<1>>, k>>]
    OBVIOUS
  <2>1. S \subseteq d.constraints
    BY Selections
  <2>2. IsFiniteSet(S)
    BY <2>1, Finite
  <2>3. DOMAIN f = S
    OBVIOUS
  <2>4. ASSUME NEW k \in S
        PROVE  /\ f[k][1] \in Seq(Nat) /\ f[k][2] \in Seq(Nat)
               /\ f[k][3].table \in Nat \X Nat
               /\ Carries("add key", f[k][3].table, f[k][3], named, Cols(d), drop)
    <3>1. k.table \in Nat \X Nat /\ k.name \in Nat /\ IsConstraint(k, {k.table}, named)
      BY <2>1, Parts
    <3>2. <<3>> \o k.table \o <<3, k.name, 0>> \in Seq(Nat) /\ <<1>> \in Seq(Nat)
      BY <3>1, Tuples
    <3>3. Carries("add key", k.table, k, named, Cols(d), drop)
      BY <3>1 DEF Carries, BringsConstraint
    <3>4. f[k] = <<<<3>> \o k.table \o <<3, k.name, 0>>, <<1>>, k>>
      OBVIOUS
    <3> QED
      BY <3>1, <3>2, <3>3, <3>4
  <2>5. AllOrdinary(SQLServerMakes(f, "add key"), named, c, Cols(d), drop)
    BY <2>2, <2>3, <2>4, SQLServerMade
  <2>6. SQLServerMakes(f, "add key") = {Step(<<3>> \o k.table \o <<3, k.name, 0>>, <<1>>, With("add key", k.table, k)) : k \in S}
    BY DEF SQLServerMakes
  <2> QED
    BY <2>5, <2>6
<1>4. AllOrdinary({Step(<<3>> \o q[1].table \o <<3, q[1].name, q[2].name>>, <<1>>, With("add key", q[1].table, q[1])) : q \in SQLServer!AgainKeys(c, d, drop)},
                named, c, Cols(d), drop)
  <2> PICK S : S = SQLServer!AgainKeys(c, d, drop)
    OBVIOUS
  <2> PICK f : f = [q \in S |-> <<<<3>> \o q[1].table \o <<3, q[1].name, q[2].name>>, <<1>>, q[1]>>]
    OBVIOUS
  <2>1. \A q \in S : q[1] \in c.constraints /\ q[2] \in c.columns
    BY SQLServerAgains DEF SQLServerAgain
  <2>2. IsFiniteSet(S)
    BY SQLServerAgains
  <2>3. DOMAIN f = S
    OBVIOUS
  <2>4. ASSUME NEW q \in S
        PROVE  /\ f[q][1] \in Seq(Nat) /\ f[q][2] \in Seq(Nat)
               /\ f[q][3].table \in Nat \X Nat
               /\ Carries("add key", f[q][3].table, f[q][3], named, Cols(d), drop)
    <3>1. q[1].table \in Nat \X Nat /\ q[1].name \in Nat /\ q[2].name \in Nat /\ IsConstraint(q[1], {q[1].table}, named)
      BY <2>1, Parts
    <3>2. <<3>> \o q[1].table \o <<3, q[1].name, q[2].name>> \in Seq(Nat) /\ <<1>> \in Seq(Nat)
      BY <3>1, Tuples
    <3>3. Carries("add key", q[1].table, q[1], named, Cols(d), drop)
      BY <3>1 DEF Carries, BringsConstraint
    <3>4. f[q] = <<<<3>> \o q[1].table \o <<3, q[1].name, q[2].name>>, <<1>>, q[1]>>
      OBVIOUS
    <3> QED
      BY <3>1, <3>2, <3>3, <3>4
  <2>5. AllOrdinary(SQLServerMakes(f, "add key"), named, c, Cols(d), drop)
    BY <2>2, <2>3, <2>4, SQLServerMade
  <2>6. SQLServerMakes(f, "add key") = {Step(<<3>> \o q[1].table \o <<3, q[1].name, q[2].name>>, <<1>>, With("add key", q[1].table, q[1])) : q \in S}
    BY DEF SQLServerMakes
  <2> QED
    BY <2>5, <2>6
<1>5. AllOrdinary({Step(<<4>> \o SQLServer!TablesID(k), k.table \o <<k.name>>, With("add foreign key", k.table, k)) : k \in AddFastFkeys(c, d)},
                named, c, Cols(d), drop)
  <2> PICK S : S = AddFastFkeys(c, d)
    OBVIOUS
  <2> PICK f : f = [k \in S |-> <<<<4>> \o SQLServer!TablesID(k), k.table \o <<k.name>>, k>>]
    OBVIOUS
  <2>1. S \subseteq d.constraints
    BY Selections
  <2>2. IsFiniteSet(S)
    BY <2>1, Finite
  <2>3. DOMAIN f = S
    OBVIOUS
  <2>4. ASSUME NEW k \in S
        PROVE  /\ f[k][1] \in Seq(Nat) /\ f[k][2] \in Seq(Nat)
               /\ f[k][3].table \in Nat \X Nat
               /\ Carries("add foreign key", f[k][3].table, f[k][3], named, Cols(d), drop)
    <3>1. k.table \in Nat \X Nat /\ k.name \in Nat /\ k.refTable \in Nat \X Nat /\ IsConstraint(k, {k.table}, named)
      BY <2>1, Parts
    <3>2. <<4>> \o SQLServer!TablesID(k) \in Seq(Nat) /\ k.table \o <<k.name>> \in Seq(Nat)
      <4>1. SQLServer!TablesID(k) \in Seq(Nat)
        BY <3>1, SQLServerIDs
      <4> QED
        BY <3>1, <4>1, Tuples
    <3>3. Carries("add foreign key", k.table, k, named, Cols(d), drop)
      BY <3>1 DEF Carries, BringsConstraint
    <3>4. f[k] = <<<<4>> \o SQLServer!TablesID(k), k.table \o <<k.name>>, k>>
      OBVIOUS
    <3> QED
      BY <3>1, <3>2, <3>3, <3>4
  <2>5. AllOrdinary(SQLServerMakes(f, "add foreign key"), named, c, Cols(d), drop)
    BY <2>2, <2>3, <2>4, SQLServerMade
  <2>6. SQLServerMakes(f, "add foreign key") = {Step(<<4>> \o SQLServer!TablesID(k), k.table \o <<k.name>>, With("add foreign key", k.table, k)) : k \in S}
    BY DEF SQLServerMakes
  <2> QED
    BY <2>5, <2>6
<1> PICK S1 : S1 = {Step(<<3>> \o i.table \o <<2, i.name, 0>>, <<1>>, With("create index", i.table, i)) : i \in CreateIndexes(c, d)}
  OBVIOUS
<1> PICK S2 : S2 = {Step(<<3>> \o q[1].table \o <<2, q[1].name, q[2].name>>, <<1>>, With("create index", q[1].table, q[1])) : q \in SQLServer!AgainIndexes(c, d, drop)}
  OBVIOUS
<1> PICK S3 : S3 = {Step(<<3>> \o k.table \o <<3, k.name, 0>>, <<1>>, With("add key", k.table, k)) : k \in AddKeys(c, d)}
  OBVIOUS
<1> PICK S4 : S4 = {Step(<<3>> \o q[1].table \o <<3, q[1].name, q[2].name>>, <<1>>, With("add key", q[1].table, q[1])) : q \in SQLServer!AgainKeys(c, d, drop)}
  OBVIOUS
<1> PICK S5 : S5 = {Step(<<4>> \o SQLServer!TablesID(k), k.table \o <<k.name>>, With("add foreign key", k.table, k)) : k \in AddFastFkeys(c, d)}
  OBVIOUS
<1>6. SQLServer!CreateIndexSteps(c, d, drop) = S1 \cup S2
  <2>1. S1 = {SQLServer!Step(<<3>> \o i.table \o <<2, i.name, 0>>, <<1>>, SQLServer!With("create index", i.table, i)) : i \in SQLServer!CreateIndexes(c, d)}
    BY SQLServerSelections, SQLServerForms
  <2>2. S2 = {SQLServer!Step(<<3>> \o q[1].table \o <<2, q[1].name, q[2].name>>, <<1>>, SQLServer!With("create index", q[1].table, q[1])) : q \in SQLServer!AgainIndexes(c, d, drop)}
    BY SQLServerSelections, SQLServerForms
  <2> QED
    BY <2>1, <2>2 DEF SQLServer!CreateIndexSteps
<1>7. SQLServer!AddKeySteps(c, d, drop) = S3 \cup S4
  <2>3. S3 = {SQLServer!Step(<<3>> \o k.table \o <<3, k.name, 0>>, <<1>>, SQLServer!With("add key", k.table, k)) : k \in SQLServer!AddKeys(c, d)}
    BY SQLServerSelections, SQLServerForms
  <2>4. S4 = {SQLServer!Step(<<3>> \o q[1].table \o <<3, q[1].name, q[2].name>>, <<1>>, SQLServer!With("add key", q[1].table, q[1])) : q \in SQLServer!AgainKeys(c, d, drop)}
    BY SQLServerSelections, SQLServerForms
  <2> QED
    BY <2>3, <2>4 DEF SQLServer!AddKeySteps
<1>8. SQLServer!AddFastFkeysSteps(c, d) = S5
  <2>5. S5 = {SQLServer!Step(<<4>> \o SQLServer!TablesID(k), SQLServer!Place(k), SQLServer!With("add foreign key", k.table, k)) : k \in SQLServer!AddFastFkeys(c, d)}
    BY SQLServerSelections, SQLServerForms
  <2> QED
    BY <2>5 DEF SQLServer!AddFastFkeysSteps
<1>9. AllOrdinary(S1 \cup S2, named, c, Cols(d), drop) /\ AllOrdinary(S3 \cup S4, named, c, Cols(d), drop)
  BY <1>1, <1>2, <1>3, <1>4, OrdinaryUnion
<1> QED
  BY <1>5, <1>6, <1>7, <1>8, <1>9

\* Groups of foreign keys.
LEMMA SQLServerGroups ==
  ASSUME NEW fkeys, IsFiniteSet(fkeys), \A k \in fkeys : k.table \in Nat \X Nat /\ k.name \in Nat
  PROVE  /\ IsFiniteSet(SQLServer!Groups(fkeys))
         /\ \A g \in SQLServer!Groups(fkeys) : g[1] \in Seq(Nat) /\ g[2] \subseteq fkeys
<1> DEFINE Members(k) == {f \in fkeys : SQLServer!TablesID(f) = SQLServer!TablesID(k)}
<1> PICK S : S = {f \in fkeys : \A g \in Members(f) : g = f \/ SQLServer!Less(SQLServer!Place(f), SQLServer!Place(g))}
  OBVIOUS
<1> PICK f : f = [k \in S |-> <<k.table \o <<0, k.name>>, Members(k)>>]
  OBVIOUS
<1>1. SQLServer!Groups(fkeys) = {<<k.table \o <<0, k.name>>, Members(k)>> : k \in S}
  BY DEF SQLServer!Groups
<1>a. \A k \in S : f[k] = <<k.table \o <<0, k.name>>, Members(k)>>
  OBVIOUS
<1>b. IsFiniteSet(S)
  BY FS_Subset
<1> HIDE DEF Members
<1>2. SQLServer!Groups(fkeys) = ImageOf(f)
  BY <1>1, <1>a DEF ImageOf
<1>3. IsFiniteSet(S)
  BY <1>b
<1>4. IsFiniteSet(ImageOf(f))
  BY <1>3, ImageFinite
<1>5. ASSUME NEW g \in SQLServer!Groups(fkeys)
      PROVE  g[1] \in Seq(Nat) /\ g[2] \subseteq fkeys
  <2>1. PICK k \in S : g = <<k.table \o <<0, k.name>>, Members(k)>>
    BY <1>1
  <2>a. Members(k) \subseteq fkeys
    BY DEF Members
  <2>2. k.table \in Nat \X Nat /\ k.name \in Nat
    OBVIOUS
  <2>3. k.table \o <<0, k.name>> \in Seq(Nat)
    BY <2>2, Tuples
  <2> QED
    BY <2>1, <2>3, <2>a
<1> QED
  BY <1>2, <1>4, <1>5

\* Finitely many groups, with a place and with foreign keys that there are.
SQLServerGrouped(groups, fkeys) ==
  /\ IsFiniteSet(DOMAIN groups)
  /\ \A g \in DOMAIN groups : g[1] \in Seq(Nat) /\ groups[g] \subseteq fkeys

\* The groups of the foreign keys of other tables, whatever they have been joined with.
LEMMA SQLServerJoined ==
  ASSUME NEW c, NEW d, NEW named, named, Tidy(c, named), Tidy(d, named), NEW drop,
         NEW groups, groups = SQLServer!AddFkeyGroups(c, d, drop)
  PROVE  SQLServerGrouped(groups, c.constraints \cup d.constraints)
<1> DEFINE again == SQLServer!AgainFkeys(c, d, drop)
           new == SQLServer!Groups(SQLServer!AddFkeys(c, d))
           At(q) == q[1].table \o <<1, q[2].name, q[1].name>>
           Joins(q, g) == /\ g \in new
                          /\ \E f \in g[2] : SQLServer!TablesID(f) = SQLServer!TablesID(q[1])
                          /\ ~SQLServer!Less(q[1].table, g[1])
           others == {r \in again : \A g \in new : ~Joins(r, g)}
           all == new \cup {<<At(q), {q[1]}>> : q \in others}
           Joining(g) == {q \in again : Joins(q, g)}
           Last(g) == {q \in Joining(g) : \A r \in Joining(g) : ~SQLServer!Less(At(q), At(r))}
           Fast(q) == SQLServer!Groups({k \in SQLServer!AddFastFkeys(c, d) : SQLServer!Less(k.table, q[1].table)})
           Joined(q, g) == {h \in Fast(q) : SQLServer!PositionIn(h, Fast(q)) = SQLServer!PositionIn(g, all)}
           Group(g) == IF \E q \in Joining(g) : Joined(q, g) = {} THEN {}
                       ELSE {k \in g[2] : \A q \in Joining(g) : SQLServer!Less(q[1].table, k.table)} \cup
                            UNION {{q[1]} \cup UNION {h[2] : h \in Joined(q, g)} : q \in Last(g)}
<1>1. groups = [g \in all |-> Group(g)]
  BY DEF SQLServer!AddFkeyGroups
<1>2. \A q \in again : q[1] \in c.constraints /\ q[2] \in c.columns
  BY SQLServerAgains DEF SQLServerAgain
<1>3. IsFiniteSet(again)
  BY SQLServerAgains
<1>4. SQLServer!AddFkeys(c, d) \subseteq d.constraints /\ SQLServer!AddFastFkeys(c, d) \subseteq d.constraints
  <2>1. SQLServer!AddFkeys(c, d) = AddFkeys(c, d) /\ SQLServer!AddFastFkeys(c, d) = AddFastFkeys(c, d)
    BY SQLServerSelections
  <2>2. AddFkeys(c, d) \subseteq d.constraints /\ AddFastFkeys(c, d) \subseteq d.constraints
    BY Selections
  <2> QED
    BY <2>1, <2>2
<1>5. \A S : S \subseteq d.constraints =>
        /\ IsFiniteSet(S)
        /\ \A k \in S : k.table \in Nat \X Nat /\ k.name \in Nat
  BY Finite, Parts
<1>6. ASSUME NEW S, S \subseteq d.constraints
      PROVE  /\ IsFiniteSet(SQLServer!Groups(S))
             /\ \A g \in SQLServer!Groups(S) : g[1] \in Seq(Nat) /\ g[2] \subseteq d.constraints
  <2>1. IsFiniteSet(S) /\ \A k \in S : k.table \in Nat \X Nat /\ k.name \in Nat
    BY <1>5, <1>6
  <2>2. /\ IsFiniteSet(SQLServer!Groups(S))
        /\ \A g \in SQLServer!Groups(S) : g[1] \in Seq(Nat) /\ g[2] \subseteq S
    BY <2>1, SQLServerGroups
  <2> QED
    BY <1>6, <2>2
<1>7. IsFiniteSet(new) /\ \A g \in new : g[1] \in Seq(Nat) /\ g[2] \subseteq d.constraints
  BY <1>4, <1>6
<1>8. /\ IsFiniteSet({<<At(q), {q[1]}>> : q \in others})
      /\ \A g \in {<<At(q), {q[1]}>> : q \in others} : g[1] \in Seq(Nat) /\ g[2] \subseteq c.constraints
  <2> PICK S : S = others
    OBVIOUS
  <2>1. S \subseteq again
    OBVIOUS
  <2> HIDE DEF again
  <2> PICK f : f = [q \in S |-> <<At(q), {q[1]}>>]
    OBVIOUS
  <2>2. IsFiniteSet(S)
    BY <1>3, <2>1, FS_Subset
  <2>3. IsFiniteSet(ImageOf(f))
    BY <2>2, ImageFinite
  <2>4. ImageOf(f) = {<<At(q), {q[1]}>> : q \in S}
    BY DEF ImageOf
  <2>5. ASSUME NEW q \in S
        PROVE  At(q) \in Seq(Nat) /\ {q[1]} \subseteq c.constraints
    <3>1. q[1] \in c.constraints /\ q[2] \in c.columns
      BY <1>2, <2>1
    <3>2. q[1].table \in Nat \X Nat /\ q[1].name \in Nat /\ q[2].name \in Nat
      BY <3>1, Parts
    <3>3. <<1, q[2].name, q[1].name>> \in Seq(Nat) /\ q[1].table \in Seq(Nat)
      BY <3>2, Tuples
    <3> QED
      BY <3>1, <3>3, Tuples
  <2> HIDE DEF At
  <2>6. \A g \in {<<At(q), {q[1]}>> : q \in S} : g[1] \in Seq(Nat) /\ g[2] \subseteq c.constraints
    BY <2>5
  <2> QED
    BY <2>3, <2>4, <2>6
<1>9. IsFiniteSet(all) /\ \A g \in all : g[1] \in Seq(Nat) /\ g[2] \subseteq c.constraints \cup d.constraints
  BY <1>7, <1>8, FS_Union
<1>10. ASSUME NEW g \in all
       PROVE  Group(g) \subseteq c.constraints \cup d.constraints
  <2>1. ASSUME NEW q \in Last(g)
        PROVE  {q[1]} \cup UNION {h[2] : h \in Joined(q, g)} \subseteq c.constraints \cup d.constraints
    <3>1. q[1] \in c.constraints
      BY <1>2
    <3>2. {k \in SQLServer!AddFastFkeys(c, d) : SQLServer!Less(k.table, q[1].table)} \subseteq d.constraints
      BY <1>4
    <3>3. \A h \in Fast(q) : h[2] \subseteq d.constraints
      BY <1>6, <3>2
    <3>4. \A h \in Joined(q, g) : h[2] \subseteq d.constraints
      BY <3>3
    <3> HIDE DEF Joined
    <3> QED
      BY <3>1, <3>4
  <2>2. g[2] \subseteq c.constraints \cup d.constraints
    BY <1>9
  <2>3. {k \in g[2] : \A q \in Joining(g) : SQLServer!Less(q[1].table, k.table)} \subseteq c.constraints \cup d.constraints
    BY <2>2
  <2> HIDE DEF Joining, Last, Joined
  <2>4. UNION {{q[1]} \cup UNION {h[2] : h \in Joined(q, g)} : q \in Last(g)} \subseteq c.constraints \cup d.constraints
    BY <2>1
  <2> QED
    BY <2>3, <2>4
<1> HIDE DEF all, Group
<1> QED
  BY <1>1, <1>9, <1>10 DEF SQLServerGrouped

LEMMA SQLServerFkeys ==
  ASSUME NEW c, NEW d, NEW named, named, Tidy(c, named), Tidy(d, named), NEW drop
  PROVE  AllOrdinary(SQLServer!AddFkeysSteps(c, d, drop), named, c, Cols(d), drop)
<1> PICK groups : groups = SQLServer!AddFkeyGroups(c, d, drop)
  OBVIOUS
<1>1. /\ IsFiniteSet(DOMAIN groups)
      /\ \A g \in DOMAIN groups : g[1] \in Seq(Nat) /\ groups[g] \subseteq c.constraints \cup d.constraints
  <2>1. SQLServerGrouped(groups, c.constraints \cup d.constraints)
    BY SQLServerJoined
  <2> QED
    BY <2>1 DEF SQLServerGrouped
<1> PICK steps : steps = [g \in DOMAIN groups |->
                            {Step(<<5>> \o g[1], k.table \o <<k.name>>, With("add foreign key", k.table, k)) : k \in groups[g]}]
  OBVIOUS
<1>2. ASSUME NEW g \in DOMAIN groups
      PROVE  AllOrdinary(steps[g], named, c, Cols(d), drop)
  <2> PICK S : S = groups[g]
    OBVIOUS
  <2> PICK file : file = <<5>> \o g[1]
    OBVIOUS
  <2> PICK f : f = [k \in S |-> <<file, k.table \o <<k.name>>, k>>]
    OBVIOUS
  <2>1. S \subseteq c.constraints \cup d.constraints
    BY <1>1
  <2>2. IsFiniteSet(S)
    <3>1. IsFiniteSet(c.constraints) /\ IsFiniteSet(d.constraints)
      BY DEF Tidy, AreConstraints
    <3>2. IsFiniteSet(c.constraints \cup d.constraints)
      BY <3>1, FS_Union
    <3> QED
      BY <2>1, <3>2, FS_Subset
  <2>3. DOMAIN f = S
    OBVIOUS
  <2>4. file \in Seq(Nat)
    <3>1. g[1] \in Seq(Nat)
      BY <1>1
    <3>2. <<5>> \in Seq(Nat)
      BY Tuples
    <3> QED
      BY <3>1, <3>2, Tuples
  <2>5. ASSUME NEW k \in S
        PROVE  /\ f[k][1] \in Seq(Nat) /\ f[k][2] \in Seq(Nat)
               /\ f[k][3].table \in Nat \X Nat
               /\ Carries("add foreign key", f[k][3].table, f[k][3], named, Cols(d), drop)
    <3>1. k.table \in Nat \X Nat /\ k.name \in Nat /\ IsConstraint(k, {k.table}, named)
      BY <2>1, Parts
    <3>2. k.table \o <<k.name>> \in Seq(Nat)
      BY <3>1, Tuples
    <3>3. Carries("add foreign key", k.table, k, named, Cols(d), drop)
      BY <3>1 DEF Carries, BringsConstraint
    <3>4. f[k] = <<file, k.table \o <<k.name>>, k>>
      OBVIOUS
    <3> QED
      BY <2>4, <3>1, <3>2, <3>3, <3>4
  <2>6. AllOrdinary(SQLServerMakes(f, "add foreign key"), named, c, Cols(d), drop)
    BY <2>2, <2>3, <2>5, SQLServerMade
  <2>7. SQLServerMakes(f, "add foreign key")
        = {Step(file, k.table \o <<k.name>>, With("add foreign key", k.table, k)) : k \in S}
    BY DEF SQLServerMakes
  <2>8. steps[g] = {Step(file, k.table \o <<k.name>>, With("add foreign key", k.table, k)) : k \in S}
    OBVIOUS
  <2> QED
    BY <2>6, <2>7, <2>8
<1>3. DOMAIN steps = DOMAIN groups
  OBVIOUS
<1>4. AllOrdinary(UNION ImageOf(steps), named, c, Cols(d), drop)
  BY <1>1, <1>2, <1>3, OrdinarySets
<1>5. ASSUME NEW x \in SQLServer!AddFkeysSteps(c, d, drop)
      PROVE  x \in UNION ImageOf(steps)
  <2>a. PICK g \in DOMAIN groups : \E k \in groups[g] :
          x = SQLServer!Step(<<5>> \o g[1], SQLServer!Place(k), SQLServer!With("add foreign key", k.table, k))
    BY DEF SQLServer!AddFkeysSteps
  <2>1. PICK k \in groups[g] :
          x = SQLServer!Step(<<5>> \o g[1], SQLServer!Place(k), SQLServer!With("add foreign key", k.table, k))
    BY <2>a
  <2>2. x = Step(<<5>> \o g[1], k.table \o <<k.name>>, With("add foreign key", k.table, k))
    BY <2>1, SQLServerForms
  <2>3. x \in steps[g]
    BY <2>2
  <2> QED
    BY <1>3, <2>3 DEF ImageOf
<1>6. SQLServer!AddFkeysSteps(c, d, drop) \subseteq UNION ImageOf(steps)
  BY <1>5
<1>7. IsFiniteSet(SQLServer!AddFkeysSteps(c, d, drop))
  BY <1>4, <1>6, FS_Subset DEF AllOrdinary
<1> QED
  BY <1>4, <1>6, <1>7 DEF AllOrdinary

LEMMA SQLServerRight ==
  ASSUME NEW c, NEW d, NEW named, named, Tidy(c, named), Tidy(d, named), NEW drop
  PROVE  /\ AllRight(SQLServer!Migration(c, d, drop), named, c, Cols(d), drop)
         /\ Apart(SQLServer!Migration(c, d, drop))
<1>1. PICK S : /\ AllOrdinary(S, named, c, Cols(d), drop)
               /\ SQLServer!TablesSteps(c, d, drop) = S \cup SQLServerCreates(c, d)
  BY SQLServerTables
<1>2. AllRight(SQLServerCreates(c, d), named, c, Cols(d), drop)
  BY SQLServerTables
<1>3. Apart(SQLServerCreates(c, d)) /\ \A x \in SQLServerCreates(c, d) : x.stmt.op # "copy table"
  <2>1. ASSUME NEW x \in SQLServerCreates(c, d)
        PROVE  /\ x.stmt.op = "create table"
               /\ x = Step(<<2>>, <<4>> \o x.stmt.table,
                          With("create table", x.stmt.table, SQLServer!TableObject(d, x.stmt.table)))
    <3>1. PICK t : x = Step(<<2>>, <<4>> \o t, With("create table", t, SQLServer!TableObject(d, t)))
      BY DEF SQLServerCreates
    <3>2. x.stmt.table = t /\ x.stmt.op = "create table"
      BY <3>1 DEF Step, With
    <3> QED
      BY <3>1, <3>2
  <2>2. ASSUME NEW x \in SQLServerCreates(c, d), NEW y \in SQLServerCreates(c, d), x.stmt.table = y.stmt.table
        PROVE  x = y
    BY <2>1, <2>2
  <2> QED
    BY <2>1, <2>2 DEF Apart
<1> PICK T : T = (SQLServer!DropFkeysSteps(c, d, drop) \cup SQLServer!SchemasSteps(c, d, drop) \cup S)
                 \cup (SQLServer!AlterTableSteps(c, d, drop) \cup SQLServer!CreateIndexSteps(c, d, drop)
                          \cup SQLServer!AddKeySteps(c, d, drop))
                 \cup (SQLServer!AddFastFkeysSteps(c, d) \cup SQLServer!AddFkeysSteps(c, d, drop))
  OBVIOUS
<1>4. AllOrdinary(SQLServer!DropFkeysSteps(c, d, drop) \cup SQLServer!SchemasSteps(c, d, drop) \cup S,
                  named, c, Cols(d), drop)
  BY <1>1, SQLServerDrops, SQLServerSchemas, OrdinaryUnion
<1>5. AllOrdinary(SQLServer!AlterTableSteps(c, d, drop) \cup SQLServer!CreateIndexSteps(c, d, drop)
                    \cup SQLServer!AddKeySteps(c, d, drop), named, c, Cols(d), drop)
  BY SQLServerAlters, SQLServerMakings, OrdinaryUnion
<1>6. AllOrdinary(SQLServer!AddFastFkeysSteps(c, d) \cup SQLServer!AddFkeysSteps(c, d, drop), named, c, Cols(d), drop)
  BY SQLServerMakings, SQLServerFkeys, OrdinaryUnion
<1>7. AllOrdinary(T, named, c, Cols(d), drop)
  BY <1>4, <1>5, <1>6, OrdinaryUnion
<1>8. SQLServer!Migration(c, d, drop) = T \cup SQLServerCreates(c, d)
  BY <1>1 DEF SQLServer!Migration
<1>9. AllRight(T \cup SQLServerCreates(c, d), named, c, Cols(d), drop) /\ Apart(T \cup SQLServerCreates(c, d))
  BY <1>2, <1>3, <1>7, WithTables
<1> QED
  BY <1>8, <1>9

-----------------------------------------------------------------------------
(* Any migration                                                           *)

\* SQLite's constraints have no names.
HasNames == dialect # "sqlite"

LEMMA CatalogTidy ==
  ASSUME NEW e \in Dialects, NEW c \in Catalogs[e] \cup Existing[e], NEW named, named <=> e # "sqlite"
  PROVE  Tidy(c, named)
<1>1. IsCatalog(c) /\ IsSound(c)
  BY DialectsAssumption
<1>2. ASSUME NEW k \in c.constraints
      PROVE  IsConstraint(k, c.tables, named)
  <2>1. /\ {"table", "name"} \subseteq DOMAIN k /\ k.table \in c.tables /\ k.name \in Nat
        /\ {"type", "columns", "refTable", "cascade"} \subseteq DOMAIN k
        /\ k.refTable \in Nat \X Nat
    BY <1>1 DEF IsSound, AreSound
  <2>2. NoCascades /\ ~named => ~k.cascade
    BY DEF NoCascades
  <2> QED
    BY <2>1, <2>2 DEF IsConstraint
<1>3. AreConstraints(c.constraints, c.tables, named)
  BY <1>1, <1>2 DEF AreConstraints, IsSound, AreSound
<1> QED
  BY <1>1, <1>3 DEF Tidy, IsCatalog, IsSound

\* What is introspected is the database, but for some indexes.
LEMMA IntrospectedIs ==
  ASSUME NEW c, NEW named, Tidy(c, named), NEW e, e = Introspected(c)
  PROVE  Tidy(e, named) /\ e.tables = c.tables /\ Cols(e) = Cols(c) /\ e.constraints = c.constraints
<1>1. CASE dialect # "mysql"
  BY <1>1 DEF Introspected
<1>2. CASE dialect = "mysql"
  <2> PICK I : I = {i \in c.indexes : \A k \in c.constraints : k.table # i.table \/ k.name # i.name}
    OBVIOUS
  <2>1. e = [c EXCEPT !.indexes = I]
    BY <1>2 DEF Introspected
  <2>2. /\ DOMAIN e = DOMAIN c /\ e.tables = c.tables /\ e.columns = c.columns
        /\ e.constraints = c.constraints /\ e.indexes = I
    BY <2>1 DEF Tidy
  <2>3. AreSound(I, c.tables)
    <3>1. I \subseteq c.indexes
      OBVIOUS
    <3> QED
      BY <3>1, Subsets DEF Tidy
  <2> QED
    BY <2>2, <2>3 DEF Tidy, Cols
<1> QED
  BY <1>1, <1>2

\* Steps that are right stay so for a database of the same tables and columns.
LEMMA SameNew ==
  ASSUME NEW S, NEW named, NEW c, NEW e, NEW C, NEW drop, e.tables = c.tables, Cols(e) = Cols(c),
         AllRight(S, named, e, C, drop)
  PROVE  AllRight(S, named, c, C, drop)
BY DEF AllRight, Right, New

\* A migration of any dialect.
LEMMA MigrationRight ==
  ASSUME dialect \in Dialects, NEW c, Tidy(c, HasNames), NEW d \in Catalogs[dialect], NEW drop
  PROVE  /\ AllRight(Migration(c, d, drop), HasNames, c, Cols(d), drop)
         /\ Apart(Migration(c, d, drop))
<1> PICK named : named = HasNames
  OBVIOUS
<1>1. Tidy(c, named) /\ Tidy(d, named)
  BY CatalogTidy DEF HasNames
<1>2. CASE dialect = "mysql"
  <2>1. named
    BY <1>2 DEF HasNames
  <2>2. Migration(c, d, drop) = MySQL!Migration(c, d, drop)
    BY <1>2 DEF Migration
  <2>3. AllRight(MySQL!Migration(c, d, drop), named, c, Cols(d), drop) /\ Apart(MySQL!Migration(c, d, drop))
    BY <1>1, <2>1, MySQLRight
  <2> QED
    BY <2>2, <2>3
<1>3. CASE dialect = "sqlserver"
  <2>1. named
    BY <1>3 DEF HasNames
  <2>2. Migration(c, d, drop) = SQLServer!Migration(c, d, drop)
    BY <1>3 DEF Migration
  <2>3. AllRight(SQLServer!Migration(c, d, drop), named, c, Cols(d), drop) /\ Apart(SQLServer!Migration(c, d, drop))
    BY <1>1, <2>1, SQLServerRight
  <2> QED
    BY <2>2, <2>3
<1>4. CASE dialect = "sqlite"
  <2>1. ~named
    BY <1>4 DEF HasNames
  <2> PICK s : s = SQLite!Renamed(c)
    OBVIOUS
  <2> PICK e : e = SQLite!Renamed(d)
    OBVIOUS
  <2>2. Tidy(s, named) /\ s.tables = c.tables /\ Cols(s) = Cols(c)
    BY <1>1, <2>1, RenamedTidy
  <2>3. Tidy(e, named) /\ Cols(e) = Cols(d)
    BY <1>1, <2>1, RenamedTidy
  <2> PICK M : M = SQLite!TablesSteps(s, e, drop) \cup SQLite!CopyTableSteps(s, e, drop)
                     \cup SQLite!AlterTableSteps(s, e, drop)
    OBVIOUS
  <2>4. Migration(c, d, drop) = M
    BY <1>4 DEF Migration, SQLite!Migration
  <2>5. AllRight(M, named, s, Cols(e), drop) /\ Apart(M)
    BY <2>2, <2>3, SQLiteRight
  <2>6. AllRight(M, named, c, Cols(e), drop)
    BY <2>2, <2>5, SameNew
  <2>7. AllRight(M, named, c, Cols(d), drop)
    BY <2>3, <2>6
  <2> QED
    BY <2>4, <2>5, <2>7
<1> QED
  BY <1>2, <1>3, <1>4, DialectsAssumption

\* A wipe: everything in it was asked for.
LEMMA WipeRight ==
  ASSUME NEW c, Tidy(c, HasNames), NEW drop, drop
  PROVE  AllRight(WipeSteps(c), HasNames, c, Cols(EmptyCatalog), drop) /\ Apart(WipeSteps(c))
<1> PICK named : named = HasNames
  OBVIOUS
<1> PICK C : C = Cols(EmptyCatalog)
  OBVIOUS
<1>1. C = {}
  BY DEF Cols, EmptyCatalog
<1> DEFINE fkeys == {f \in ForeignKeys(c) : dialect # "sqlite"}
           first == {Step(<<1>>, <<1>> \o k.table \o <<k.name>>, Named("drop constraint", k.table, k.name)) : k \in fkeys}
           last == {Step(<<1>>, <<2>> \o t, On("drop table", t)) : t \in c.tables}
<1>2. AllOrdinary(first, named, c, C, drop)
  <2> PICK S : S = fkeys
    OBVIOUS
  <2> PICK f : f = [k \in S |-> Step(<<1>>, <<1>> \o k.table \o <<k.name>>, Named("drop constraint", k.table, k.name))]
    OBVIOUS
  <2>1. S \subseteq c.constraints
    BY DEF ForeignKeys
  <2>2. IsFiniteSet(S)
    BY <2>1, FS_Subset DEF Tidy, AreConstraints
  <2>3. ASSUME NEW k \in S
        PROVE  Ordinary(f[k], named, c, C, drop)
    <3>1. dialect # "sqlite"
      OBVIOUS
    <3>2. named
      BY <3>1 DEF HasNames
    <3>3. k.table \in Nat \X Nat /\ k.name \in Nat
      BY <2>1, <3>2, Parts
    <3>4. <<1>> \in Seq(Nat) /\ <<1>> \o k.table \o <<k.name>> \in Seq(Nat)
      BY <3>3, Tuples
    <3> QED
      BY <3>3, <3>4, OrdinaryNamed
  <2>4. first = ImageOf(f)
    <3>1. first = {Step(<<1>>, <<1>> \o k.table \o <<k.name>>, Named("drop constraint", k.table, k.name)) : k \in S}
      OBVIOUS
    <3> QED
      BY <3>1 DEF ImageOf
  <2>5. DOMAIN f = S
    OBVIOUS
  <2>6. AllOrdinary(ImageOf(f), named, c, C, drop)
    BY <2>2, <2>3, <2>5, OrdinaryImage
  <2> QED
    BY <2>4, <2>6
<1>3. AllOrdinary(last, named, c, C, drop)
  <2> PICK S : S = c.tables
    OBVIOUS
  <2> PICK f : f = [t \in S |-> Step(<<1>>, <<2>> \o t, On("drop table", t))]
    OBVIOUS
  <2>2. IsFiniteSet(S)
    BY DEF Tidy
  <2>3. ASSUME NEW t \in S
        PROVE  Ordinary(f[t], named, c, C, drop)
    <3>1. t \in Nat \X Nat /\ \A v \in C : v[1] # t
      BY <1>1 DEF Tidy
    <3>2. <<1>> \in Seq(Nat) /\ <<2>> \o t \in Seq(Nat)
      BY <3>1, Tuples
    <3> QED
      BY <3>1, <3>2, OrdinaryOn
  <2>4. last = ImageOf(f)
    <3>1. last = {Step(<<1>>, <<2>> \o t, On("drop table", t)) : t \in S}
      OBVIOUS
    <3> QED
      BY <3>1 DEF ImageOf
  <2>5. DOMAIN f = S
    OBVIOUS
  <2>6. AllOrdinary(ImageOf(f), named, c, C, drop)
    BY <2>2, <2>3, <2>5, OrdinaryImage
  <2> QED
    BY <2>4, <2>6
<1>4. WipeSteps(c) = first \cup last
  BY DEF WipeSteps
<1>5. AllOrdinary(WipeSteps(c), named, c, C, drop)
  <2> PICK F : F = first
    OBVIOUS
  <2> PICK L : L = last
    OBVIOUS
  <2>1. AllOrdinary(F, named, c, C, drop) /\ AllOrdinary(L, named, c, C, drop)
    BY <1>2, <1>3
  <2>2. AllOrdinary(F \cup L, named, c, C, drop)
    BY <2>1, OrdinaryUnion
  <2>3. WipeSteps(c) = F \cup L
    BY <1>4
  <2> HIDE DEF first, last
  <2> QED
    BY <2>2, <2>3
<1> QED
  BY <1>5 DEF AllOrdinary, AllRight, Ordinary, Apart, BringsTable

-----------------------------------------------------------------------------
(* The steps of a unit leave a database as it should be                    *)

\* A database with values, in the course of a unit.
Sane(b, unit) ==
  /\ DOMAIN b = {"left", "db", "rows", "ok"}
  /\ b.ok \in BOOLEAN
  /\ b.ok => Tidy(b.db, HasNames) /\ b.rows \subseteq Cols(b.db) /\ b.left \subseteq unit

\* The steps of a unit.
Runnable(unit) == IsFiniteSet(unit) /\ \A x \in unit : Placed(x) /\ Fits(x.stmt, HasNames)

\* One step of it, x.
Ran(b, e, x) ==
  /\ b.ok
  /\ x = FirstOf(b.left) /\ x \in b.left /\ (\A y \in b.left : ~Before(y, x))
  /\ ~Rejects(b.db, x.stmt)
  /\ e.left = b.left \ {x}
  /\ e.db = EffectOf(b.db, x.stmt)
  /\ e.rows = ValuesAfter(b.db, b.rows, x.stmt)
  /\ Changes(b.db, e.db, x.stmt)

LEMMA RunNextSane ==
  ASSUME NEW unit, Runnable(unit), NEW b, Sane(b, unit), b.ok => b.left # {}, NEW e, e = RunNext(b)
  PROVE  Sane(e, unit) /\ (e.ok => Ran(b, e, FirstOf(b.left)))
<1> PICK x : x = FirstOf(b.left)
  OBVIOUS
<1>1. CASE ~b.ok \/ Rejects(b.db, x.stmt)
  <2>1. e = [b EXCEPT !.ok = FALSE]
    BY <1>1 DEF RunNext
  <2>2. DOMAIN e = {"left", "db", "rows", "ok"} /\ e.ok = FALSE
    BY <2>1 DEF Sane
  <2> QED
    BY <2>2 DEF Sane
<1>2. CASE b.ok /\ ~Rejects(b.db, x.stmt)
  <2> PICK s : s = x.stmt
    OBVIOUS
  <2>1. e = [left |-> b.left \ {x}, db |-> EffectOf(b.db, s), rows |-> ValuesAfter(b.db, b.rows, s), ok |-> TRUE]
    BY <1>2 DEF RunNext
  <2>2. Tidy(b.db, HasNames) /\ b.rows \subseteq Cols(b.db) /\ b.left \subseteq unit
    BY <1>2 DEF Sane
  <2>3. IsFiniteSet(b.left) /\ \A y \in b.left : Placed(y)
    BY <2>2, FS_Subset DEF Runnable
  <2>4. x \in b.left /\ \A y \in b.left : ~Before(y, x)
    BY <1>2, <2>3, FirstIs
  <2>5. Fits(s, HasNames)
    BY <2>2, <2>4 DEF Runnable
  <2>6. dialect = "mysql" => HasNames
    BY DEF HasNames
  <2>7. Tidy(EffectOf(b.db, s), HasNames) /\ Changes(b.db, EffectOf(b.db, s), s)
    BY <1>2, <2>2, <2>5, <2>6, EffectTidy
  <2>8. ValuesAfter(b.db, b.rows, s) \subseteq Cols(EffectOf(b.db, s))
    BY DEF ValuesAfter, Cols
  <2>9. /\ DOMAIN e = {"left", "db", "rows", "ok"} /\ e.ok = TRUE /\ e.left = b.left \ {x}
        /\ e.db = EffectOf(b.db, s) /\ e.rows = ValuesAfter(b.db, b.rows, s)
    BY <2>1
  <2>10. Sane(e, unit)
    BY <2>2, <2>7, <2>8, <2>9 DEF Sane
  <2>11. Ran(b, e, x)
    BY <1>2, <2>4, <2>7, <2>9 DEF Ran
  <2> QED
    BY <2>10, <2>11
<1>3. b.ok \in BOOLEAN
  BY DEF Sane
<1> QED
  BY <1>1, <1>2, <1>3

\* What a unit runs through.
Runs(f, unit) ==
  /\ f[0] = [left |-> unit, db |-> db, rows |-> rows, ok |-> TRUE]
  /\ \A k \in 0 .. Cardinality(unit) :
       /\ Sane(f[k], unit)
       /\ f[k].ok => Cardinality(f[k].left) = Cardinality(unit) - k
  /\ \A k \in 1 .. Cardinality(unit) :
       /\ f[k].ok => Ran(f[k - 1], f[k], FirstOf(f[k - 1].left))
       /\ f[k].ok \/ ~f[k - 1].ok \/ Rejects(f[k - 1].db, FirstOf(f[k - 1].left).stmt)
  /\ After(unit) = f[Cardinality(unit)]

LEMMA AfterRuns ==
  ASSUME NEW unit, Runnable(unit), Tidy(db, HasNames), rows \subseteq Cols(db)
  PROVE  \E f : Runs(f, unit)
<1>1. PICK f : Follows(f, unit)
  BY AfterFollows DEF Runnable
<1> PICK n : n = Cardinality(unit)
  OBVIOUS
<1>2. n \in Nat /\ IsFiniteSet(unit)
  BY FS_CardinalityType DEF Runnable
<1>3. /\ f[0] = [left |-> unit, db |-> db, rows |-> rows, ok |-> TRUE]
      /\ \A k \in 1 .. n : f[k] = RunNext(f[k - 1])
      /\ After(unit) = f[n]
  BY <1>1 DEF Follows
<1> DEFINE Fine(k) == Sane(f[k], unit) /\ (f[k].ok => Cardinality(f[k].left) = n - k)
<1>4. Fine(0)
  <2>1. Sane(f[0], unit)
    BY <1>3 DEF Sane
  <2>2. f[0].left = unit
    BY <1>3
  <2> QED
    BY <1>2, <2>1, <2>2
<1>5. ASSUME NEW k \in 0 .. n - 1, Fine(k)
      PROVE  /\ Fine(k + 1)
             /\ f[k + 1].ok => Ran(f[k], f[k + 1], FirstOf(f[k].left))
             /\ f[k + 1].ok \/ ~f[k].ok \/ Rejects(f[k].db, FirstOf(f[k].left).stmt)
  <2> PICK b : b = f[k]
    OBVIOUS
  <2> PICK e : e = f[k + 1]
    OBVIOUS
  <2>1. e = RunNext(b)
    <3>1. k + 1 \in 1 .. n /\ (k + 1) - 1 = k
      BY <1>2
    <3> QED
      BY <1>3, <3>1
  <2>2. Sane(b, unit) /\ (b.ok => Cardinality(b.left) = n - k)
    BY <1>5
  <2>3. ASSUME b.ok, b.left = {}
        PROVE  FALSE
    <3>1. Cardinality(b.left) = n - k
      BY <2>2, <2>3
    <3>2. Cardinality({}) = 0
      BY FS_EmptySet
    <3>3. n - k # 0
      BY <1>2
    <3> QED
      BY <2>3, <3>1, <3>2, <3>3
  <2>4. Sane(e, unit) /\ (e.ok => Ran(b, e, FirstOf(b.left)))
    BY <2>1, <2>2, <2>3, RunNextSane
  <2>5. ASSUME e.ok
        PROVE  Cardinality(e.left) = n - (k + 1)
    <3>1. b.ok /\ FirstOf(b.left) \in b.left /\ e.left = b.left \ {FirstOf(b.left)}
      BY <2>4, <2>5 DEF Ran
    <3>2. IsFiniteSet(b.left)
      BY <1>2, <2>2, <3>1, FS_Subset DEF Sane
    <3>3. Cardinality(e.left) = Cardinality(b.left) - 1
      BY <3>1, <3>2, FS_RemoveElement
    <3> QED
      BY <1>2, <2>2, <3>1, <3>3
  <2>6. e.ok \/ ~b.ok \/ Rejects(b.db, FirstOf(b.left).stmt)
    BY <2>1 DEF RunNext
  <2> QED
    BY <2>4, <2>5, <2>6
<1> PICK G : G = {k \in 0 .. n : Fine(k)}
  OBVIOUS
<1>6. 0 \in G
  BY <1>2, <1>4
<1>7. \A k \in 0 .. n - 1 : k \in G => k + 1 \in G
  BY <1>2, <1>5
<1>8. \A m \in 0 .. n : m \in G
  <2>1. ASSUME NEW m \in 0 .. n
        PROVE  m \in G
    <3>1. \A k \in 0 .. m - 1 : k \in G => k + 1 \in G
      BY <1>2, <1>7
    <3>2. m \in Nat
      BY <1>2
    <3> QED
      BY <1>6, <3>1, <3>2, UpTo
  <2> QED
    BY <2>1
<1>9. ASSUME NEW k \in 1 .. n
      PROVE  /\ f[k].ok => Ran(f[k - 1], f[k], FirstOf(f[k - 1].left))
             /\ f[k].ok \/ ~f[k - 1].ok \/ Rejects(f[k - 1].db, FirstOf(f[k - 1].left).stmt)
  <2> PICK j : j = k - 1
    OBVIOUS
  <2>1. j \in 0 .. n - 1 /\ j \in 0 .. n /\ k = j + 1
    BY <1>2
  <2>2. Fine(j)
    BY <1>8, <2>1
  <2>3. /\ f[j + 1].ok => Ran(f[j], f[j + 1], FirstOf(f[j].left))
        /\ f[j + 1].ok \/ ~f[j].ok \/ Rejects(f[j].db, FirstOf(f[j].left).stmt)
    BY <1>5, <2>1, <2>2
  <2> QED
    BY <2>1, <2>3
<1> QED
  BY <1>3, <1>8, <1>9 DEF Runs

\* After a unit in which all went well, nothing of it is left.
LEMMA AfterSane ==
  ASSUME NEW unit, Runnable(unit), Tidy(db, HasNames), rows \subseteq Cols(db), After(unit).ok
  PROVE  Tidy(After(unit).db, HasNames) /\ After(unit).rows \subseteq Cols(After(unit).db)
<1>1. PICK f : Runs(f, unit)
  BY AfterRuns
<1> PICK n : n = Cardinality(unit)
  OBVIOUS
<1>2. n \in 0 .. n
  BY FS_CardinalityType DEF Runnable
<1>3. Sane(f[n], unit) /\ After(unit) = f[n]
  BY <1>1, <1>2 DEF Runs
<1> QED
  BY <1>3 DEF Sane

-----------------------------------------------------------------------------
(* The invariant                                                           *)

\* What the plan of a process that makes tables of the columns C is made of.
Promised(S, named, C, drop) ==
  /\ IsFiniteSet(S)
  /\ Apart(S)
  /\ \A x \in S : Placed(x) /\ Fits(x.stmt, named) /\ Asked(x.stmt, C, drop)

Outcomes == {"none", "running", "stopped", "refused", "failed", "ok"}

\* The database, and its values.
DatabaseOK ==
  /\ dialect \in Dialects
  /\ Tidy(db, HasNames)
  /\ rows \subseteq Cols(db)

\* The processes, and what they are to do.
ProcsOK ==
  /\ DOMAIN dest = Procs /\ DOMAIN flags = Procs /\ DOMAIN plan = Procs /\ DOMAIN todo = Procs
  /\ outcome \in [Procs -> Outcomes]
  /\ \A p \in Procs : /\ Promised(plan[p], HasNames, Cols(dest[p]), "drop-objects" \in flags[p])
                      /\ todo[p] \subseteq plan[p]
                      /\ outcome[p] # "running" => todo[p] = {}

Inv == DatabaseOK /\ ProcsOK

LEMMA AllPromised ==
  ASSUME NEW S, NEW named, NEW c, NEW C, NEW drop, AllRight(S, named, c, C, drop), Apart(S)
  PROVE  Promised(S, named, C, drop)
BY DEF AllRight, Right, Promised

LEMMA NothingPromised ==
  ASSUME NEW named, NEW C, NEW drop
  PROVE  Promised({}, named, C, drop)
<1>1. IsFiniteSet({})
  BY FS_EmptySet
<1> QED
  BY <1>1 DEF Promised, Apart

\* What Run and Wipe do, to p; nothing becomes of the others.
Starts(p, d, f, steps) ==
  /\ Start(p, d, f, steps)
  /\ \E why \in {"stopped", "running"} :
       /\ outcome' = [outcome EXCEPT ![p] = why]
       /\ why = "stopped" => steps = {}

LEMMA StartsOK ==
  ASSUME ProcsOK, NEW p \in Procs, NEW d, NEW f, NEW steps, Starts(p, d, f, steps),
         Promised(steps, HasNames, Cols(d), "drop-objects" \in f)
  PROVE  ProcsOK'
<1> PICK named : named = HasNames
  OBVIOUS
<1> PICK w : w = ("drop-objects" \in f)
  OBVIOUS
<1> PICK why \in {"stopped", "running"} : outcome' = [outcome EXCEPT ![p] = why] /\ (why = "stopped" => steps = {})
  BY DEF Starts
<1>1. /\ dest' = [dest EXCEPT ![p] = d] /\ flags' = [flags EXCEPT ![p] = f]
      /\ plan' = [plan EXCEPT ![p] = steps] /\ todo' = [todo EXCEPT ![p] = steps]
      /\ dialect' = dialect
  BY DEF Starts, Start
<1>2. /\ DOMAIN dest' = Procs /\ DOMAIN flags' = Procs /\ DOMAIN plan' = Procs /\ DOMAIN todo' = Procs
      /\ outcome' \in [Procs -> Outcomes]
  BY <1>1 DEF ProcsOK, Outcomes
<1>3. HasNames' = named
  BY <1>1 DEF HasNames
<1>4. ASSUME NEW q \in Procs
      PROVE  /\ Promised(plan'[q], named, Cols(dest'[q]), "drop-objects" \in flags'[q])
             /\ todo'[q] \subseteq plan'[q]
             /\ outcome'[q] # "running" => todo'[q] = {}
  <2>1. CASE q = p
    <3>1. /\ dest'[q] = d /\ flags'[q] = f /\ plan'[q] = steps /\ todo'[q] = steps
          /\ outcome'[q] = why
      BY <1>1, <2>1 DEF ProcsOK
    <3> QED
      BY <3>1
  <2>2. CASE q # p
    <3>1. /\ dest'[q] = dest[q] /\ flags'[q] = flags[q] /\ plan'[q] = plan[q] /\ todo'[q] = todo[q]
          /\ outcome'[q] = outcome[q]
      BY <1>1, <2>2 DEF ProcsOK
    <3> QED
      BY <3>1 DEF ProcsOK
  <2> QED
    BY <2>1, <2>2
<1> QED
  BY <1>2, <1>3, <1>4 DEF ProcsOK

\* What the other actions do, to p: there is less to do.
Proceeds(p, left, why) ==
  /\ UNCHANGED <<dialect, dest, flags, plan>>
  /\ DOMAIN todo' = Procs /\ \A q \in Procs : todo'[q] = IF q = p THEN left ELSE todo[q]
  /\ outcome' = [outcome EXCEPT ![p] = why]

LEMMA ProceedsOK ==
  ASSUME ProcsOK, NEW p \in Procs, NEW left \in SUBSET todo[p], NEW why \in Outcomes,
         Proceeds(p, left, why), why # "running" => left = {}
  PROVE  ProcsOK'
<1> PICK named : named = HasNames
  OBVIOUS
<1>1. /\ dest' = dest /\ flags' = flags /\ plan' = plan /\ dialect' = dialect
      /\ DOMAIN todo' = Procs /\ \A q \in Procs : todo'[q] = IF q = p THEN left ELSE todo[q]
      /\ outcome' = [outcome EXCEPT ![p] = why]
  BY DEF Proceeds
<1>2. DOMAIN todo' = Procs /\ outcome' \in [Procs -> Outcomes]
  BY <1>1 DEF ProcsOK
<1>3. HasNames' = named
  BY <1>1 DEF HasNames
<1>4. ASSUME NEW q \in Procs
      PROVE  todo'[q] \subseteq plan[q] /\ (outcome'[q] # "running" => todo'[q] = {})
  BY <1>1 DEF ProcsOK
<1> QED
  BY <1>1, <1>2, <1>3, <1>4 DEF ProcsOK

\* A unit is of what is left to do.
LEMMA UnitOf ==
  ASSUME ProcsOK, NEW p \in Procs, todo[p] # {}
  PROVE  /\ Runnable(Unit(p)) /\ Unit(p) \subseteq todo[p]
         /\ First(p) \in Unit(p) /\ \A y \in todo[p] : ~Before(y, First(p))
<1> PICK named : named = HasNames
  OBVIOUS
<1> PICK S : S = todo[p]
  OBVIOUS
<1>1. IsFiniteSet(plan[p]) /\ S \subseteq plan[p] /\ \A x \in plan[p] : Placed(x) /\ Fits(x.stmt, named)
  BY DEF ProcsOK, Promised
<1>2. IsFiniteSet(S) /\ S # {} /\ \A x \in S : Placed(x)
  BY <1>1, FS_Subset
<1>3. First(p) \in S /\ \A y \in S : ~Before(y, First(p))
  BY <1>2, FirstIs DEF First
<1>4. Unit(p) \subseteq S /\ First(p) \in Unit(p)
  BY <1>3 DEF Unit
<1>5. IsFiniteSet(Unit(p))
  BY <1>2, <1>4, FS_Subset
<1> QED
  BY <1>1, <1>3, <1>4, <1>5 DEF Runnable

LEMMA UndoneOK ==
  ASSUME DatabaseOK, NEW p \in Procs, Undone(p), dialect' = dialect
  PROVE  DatabaseOK'
<1> PICK named : named = HasNames
  OBVIOUS
<1> PICK w : w = db'
  OBVIOUS
<1>1. PICK T : w = WithoutTables(db, T) /\ rows' = {v \in rows : v[1] \in w.tables}
  BY DEF Undone
<1>2. Tidy(db, named) /\ rows \subseteq Cols(db)
  BY DEF DatabaseOK
<1>3. Tidy(w, named) /\ w.tables = db.tables \ T /\ \A v : v \in Cols(w) <=> v \in Cols(db) /\ v[1] \notin T
  BY <1>1, <1>2, Withouts
<1>4. rows' \subseteq Cols(w)
  BY <1>1, <1>2, <1>3
<1>5. HasNames' = named
  BY DEF HasNames
<1> QED
  BY <1>3, <1>4, <1>5 DEF DatabaseOK

\* The database stays, or the values change only.
LEMMA SameDatabase ==
  ASSUME DatabaseOK, dialect' = dialect, db' = db, rows' \subseteq Cols(db)
  PROVE  DatabaseOK'
<1>1. HasNames' = HasNames
  BY DEF HasNames
<1> QED
  BY <1>1 DEF DatabaseOK

LEMMA RunOK ==
  ASSUME Inv, NEW p \in Procs, NEW d \in Catalogs[dialect], NEW f \in Flags, Run(p, d, f)
  PROVE  Inv'
<1> PICK w : w = ("drop-objects" \in f)
  OBVIOUS
<1> PICK src : src = Introspected(db)
  OBVIOUS
<1> PICK all : all = Migration(src, d, w)
  OBVIOUS
<1>1. Tidy(src, HasNames)
  BY IntrospectedIs DEF Inv, DatabaseOK
<1>2. AllRight(all, HasNames, src, Cols(d), w) /\ Apart(all)
  BY <1>1, MigrationRight DEF Inv, DatabaseOK
<1>3. PICK steps \in {{}, all} : Starts(p, d, f, steps)
  BY DEF Run, Starts
<1>4. Promised(steps, HasNames, Cols(d), w)
  <2>1. Promised(all, HasNames, Cols(d), w)
    BY <1>2, AllPromised
  <2>2. Promised({}, HasNames, Cols(d), w)
    BY NothingPromised
  <2> QED
    BY <2>1, <2>2
<1>5. ProcsOK'
  BY <1>3, <1>4, StartsOK DEF Inv
<1>6. DatabaseOK'
  <2>1. dialect' = dialect /\ db' = db /\ rows' = rows
    BY <1>3 DEF Starts, Start
  <2> QED
    BY <2>1, SameDatabase DEF Inv, DatabaseOK
<1> QED
  BY <1>5, <1>6 DEF Inv

LEMMA WipeOK ==
  ASSUME Inv, NEW p \in Procs, Wipe(p)
  PROVE  Inv'
<1> PICK src : src = Introspected(db)
  OBVIOUS
<1> PICK f : f = {"drop-objects", "wipe"}
  OBVIOUS
<1> PICK w : w = ("drop-objects" \in f)
  OBVIOUS
<1> PICK steps : steps = WipeSteps(src)
  OBVIOUS
<1>1. Tidy(src, HasNames)
  BY IntrospectedIs DEF Inv, DatabaseOK
<1>2. AllRight(steps, HasNames, src, Cols(EmptyCatalog), w) /\ Apart(steps)
  BY <1>1, WipeRight
<1>3. Starts(p, EmptyCatalog, f, steps)
  BY DEF Wipe, Starts
<1>4. Promised(steps, HasNames, Cols(EmptyCatalog), w)
  BY <1>2, AllPromised
<1>5. ProcsOK'
  BY <1>3, <1>4, StartsOK DEF Inv
<1>6. DatabaseOK'
  <2>1. dialect' = dialect /\ db' = db /\ rows' = rows
    BY <1>3 DEF Starts, Start
  <2> QED
    BY <2>1, SameDatabase DEF Inv, DatabaseOK
<1> QED
  BY <1>5, <1>6 DEF Inv

LEMMA ExecuteOK ==
  ASSUME Inv, NEW p \in Procs, Execute(p)
  PROVE  Inv'
<1> PICK named : named = HasNames
  OBVIOUS
<1> PICK u : u = Unit(p)
  OBVIOUS
<1>1. /\ outcome[p] = "running" /\ todo[p] # {}
      /\ After(u).ok /\ db' = After(u).db /\ rows' = After(u).rows
      /\ todo' = [todo EXCEPT ![p] = @ \ u]
      /\ UNCHANGED <<dialect, dest, flags, plan, outcome, runs>>
  BY DEF Execute
<1>2. Runnable(u)
  BY <1>1, UnitOf DEF Inv
<1>3. Tidy(After(u).db, named) /\ After(u).rows \subseteq Cols(After(u).db)
  BY <1>1, <1>2, AfterSane DEF Inv, DatabaseOK
<1>4. DatabaseOK'
  <2>1. HasNames' = named
    BY <1>1 DEF HasNames
  <2> QED
    BY <1>1, <1>3, <2>1 DEF Inv, DatabaseOK
<1>5. Proceeds(p, todo[p] \ u, "running")
  <2>1. DOMAIN todo' = Procs /\ \A q \in Procs : todo'[q] = IF q = p THEN todo[p] \ u ELSE todo[q]
    BY <1>1 DEF Inv, ProcsOK
  <2>2. outcome' = [outcome EXCEPT ![p] = "running"]
    BY <1>1 DEF Inv, ProcsOK
  <2> QED
    BY <1>1, <2>1, <2>2 DEF Proceeds
<1>6. ProcsOK'
  <2>1. todo[p] \ u \in SUBSET todo[p] /\ "running" \in Outcomes
    BY DEF Outcomes
  <2> QED
    BY <1>5, <2>1, ProceedsOK DEF Inv
<1> QED
  BY <1>4, <1>6 DEF Inv

\* Refuse, Fail, Crash and Finish.
LEMMA EndsOK ==
  ASSUME Inv, NEW p \in Procs, Refuse(p) \/ Fail(p) \/ Crash(p) \/ Finish(p)
  PROVE  Inv'
<1>1. PICK why \in {"refused", "failed", "ok"} : Proceeds(p, {}, why)
  <2>1. CASE Finish(p)
    <3>1. todo' = todo /\ todo[p] = {}
      BY <2>1 DEF Finish
    <3>2. DOMAIN todo' = Procs /\ \A q \in Procs : todo'[q] = IF q = p THEN {} ELSE todo[q]
      BY <3>1 DEF Inv, ProcsOK
    <3> QED
      BY <2>1, <3>2 DEF Finish, Proceeds
  <2>2. CASE Refuse(p) \/ Fail(p) \/ Crash(p)
    <3>1. PICK why \in {"refused", "failed"} : Stop(p, why)
      BY <2>2 DEF Refuse, Fail, Crash
    <3>2. DOMAIN todo' = Procs /\ \A q \in Procs : todo'[q] = IF q = p THEN {} ELSE todo[q]
      BY <3>1 DEF Stop, Inv, ProcsOK
    <3> QED
      BY <3>1, <3>2 DEF Stop, Proceeds
  <2> QED
    BY <2>1, <2>2
<1>2. ProcsOK'
  <2>1. {} \in SUBSET todo[p] /\ why \in Outcomes
    BY DEF Outcomes
  <2> QED
    BY <1>1, <2>1, ProceedsOK DEF Inv
<1>3. dialect' = dialect
  BY <1>1 DEF Proceeds
<1>4. DatabaseOK'
  <2>1. CASE Undone(p)
    BY <1>3, <2>1, UndoneOK DEF Inv
  <2>2. CASE db' = db /\ rows' = rows
    BY <1>3, <2>2, SameDatabase DEF Inv, DatabaseOK
  <2> QED
    BY <2>1, <2>2 DEF Refuse, Fail, Crash, Finish
<1> QED
  BY <1>2, <1>4 DEF Inv

LEMMA InsertOK ==
  ASSUME Inv, NEW t, Insert(t)
  PROVE  Inv'
<1>1. /\ rows' = rows \cup {<<t, n>> : n \in ColumnNames(db, t)}
      /\ UNCHANGED <<dialect, db, dest, flags, plan, todo, outcome>>
  BY DEF Insert
<1>2. \A n \in ColumnNames(db, t) : <<t, n>> \in Cols(db)
  BY DEF ColumnNames, Cols
<1>3. rows' \subseteq Cols(db)
  BY <1>1, <1>2 DEF Inv, DatabaseOK
<1>4. DatabaseOK'
  BY <1>1, <1>3, SameDatabase DEF Inv
<1>5. HasNames' = HasNames
  BY <1>1 DEF HasNames
<1>6. ProcsOK'
  BY <1>1, <1>5 DEF Inv, ProcsOK
<1> QED
  BY <1>4, <1>6 DEF Inv

LEMMA InvInit == Init => Inv
<1> SUFFICES ASSUME Init PROVE Inv
  OBVIOUS
<1> PICK named : named = HasNames
  OBVIOUS
<1>1. dialect \in Dialects /\ rows = Cols(db)
  BY DEF Init, Cols
<1>2. PICK c \in Existing[dialect] : db = (IF dialect = "sqlite" THEN SQLite!Renamed(c) ELSE c)
  BY DEF Init
<1>3. Tidy(c, named)
  BY <1>1, CatalogTidy DEF HasNames
<1>4. Tidy(db, named)
  <2>1. CASE dialect # "sqlite"
    BY <1>2, <1>3, <2>1
  <2>2. CASE dialect = "sqlite"
    <3>1. ~named
      BY <2>2 DEF HasNames
    <3> PICK s : s = SQLite!Renamed(c)
      OBVIOUS
    <3>2. Tidy(s, named)
      BY <1>3, <3>1, RenamedTidy
    <3> QED
      BY <1>2, <2>2, <3>2
  <2> QED
    BY <2>1, <2>2
<1>5. DatabaseOK
  BY <1>1, <1>4 DEF DatabaseOK
<1>6. ASSUME NEW p \in Procs
      PROVE  Promised({}, HasNames, Cols(EmptyCatalog), "drop-objects" \in {})
  BY NothingPromised
<1>7. ProcsOK
  BY <1>6 DEF Init, ProcsOK, Outcomes
<1> QED
  BY <1>5, <1>7 DEF Inv

LEMMA InvNext == Inv /\ [Next]_vars => Inv'
<1> SUFFICES ASSUME Inv, [Next]_vars PROVE Inv'
  OBVIOUS
<1>1. CASE UNCHANGED vars
  <2>1. HasNames' = HasNames
    BY <1>1 DEF vars, HasNames
  <2> QED
    BY <1>1, <2>1 DEF vars, Inv, DatabaseOK, ProcsOK
<1>2. ASSUME NEW p \in Procs, NEW d \in Catalogs[dialect], NEW f \in Flags, Run(p, d, f)
      PROVE  Inv'
  BY <1>2, RunOK
<1>3. ASSUME NEW p \in Procs, Wipe(p)
      PROVE  Inv'
  BY <1>3, WipeOK
<1>4. ASSUME NEW p \in Procs, Execute(p)
      PROVE  Inv'
  BY <1>4, ExecuteOK
<1>5. ASSUME NEW p \in Procs, Refuse(p) \/ Fail(p) \/ Crash(p) \/ Finish(p)
      PROVE  Inv'
  BY <1>5, EndsOK
<1>6. ASSUME NEW t \in db.tables, Insert(t)
      PROVE  Inv'
  BY <1>6, InsertOK
<1> QED
  BY <1>1, <1>2, <1>3, <1>4, <1>5, <1>6 DEF Next, Migrating

LEMMA SpecInv == Spec => []Inv
BY InvInit, InvNext, PTL DEF Spec

\* Whatever is run by whomever, and wherever it is refused or fails, on any catalogs: the
\* database stays a catalog, in which there are no values of columns that are not there; a
\* process has nothing left to do but of its plan, and nothing at all once it has ended
\* (src/ddl/migrate_cmd.go:481, src/ddl/automigrate_cmd.go:139).
THEOREM DialectsTypeOK == Spec => []TypeOK
<1>1. Inv => TypeOK
  <2> SUFFICES ASSUME Inv PROVE TypeOK
    OBVIOUS
  <2>1. IsCatalog(db)
    BY DEF Inv, DatabaseOK, Tidy, AreSound, IsCatalog
  <2> QED
    BY <2>1 DEF Inv, DatabaseOK, ProcsOK, TypeOK, Cols, Outcomes
<1> QED
  BY <1>1, SpecInv, PTL

-----------------------------------------------------------------------------
(* A wipe by the only process                                              *)

OneProcess == \A p, q \in Procs : p = q

WipeFkey(k) == Step(<<1>>, <<1>> \o k.table \o <<k.name>>, Named("drop constraint", k.table, k.name))
WipeTable(t) == Step(<<1>>, <<2>> \o t, On("drop table", t))

\* The foreign keys that a wipe drops itself.
InWay(c) == {k \in ForeignKeys(c) : dialect # "sqlite"}

LEMMA WipeParts ==
  ASSUME NEW c, NEW x
  PROVE  x \in WipeSteps(c) <=> (\E k \in InWay(c) : x = WipeFkey(k)) \/ (\E t \in c.tables : x = WipeTable(t))
BY DEF WipeSteps, WipeFkey, WipeTable, InWay

LEMMA WipeForms ==
  /\ \A k : /\ WipeFkey(k).file = <<1>>
            /\ WipeFkey(k).stmt.op = "drop constraint"
            /\ WipeFkey(k).stmt.table = k.table /\ WipeFkey(k).stmt.name = k.name
  /\ \A t : /\ WipeTable(t).file = <<1>>
            /\ WipeTable(t).stmt.op = "drop table" /\ WipeTable(t).stmt.table = t
BY DEF WipeFkey, WipeTable, Step, Named, On

LEMMA WipeSame ==
  ASSUME NEW j, NEW k, j.table = k.table, j.name = k.name
  PROVE  WipeFkey(j) = WipeFkey(k)
BY DEF WipeFkey

\* The foreign keys come first.
LEMMA WipeOrder ==
  ASSUME NEW k, k.table \in Nat \X Nat, k.name \in Nat, NEW t \in Nat \X Nat
  PROVE  Before(WipeFkey(k), WipeTable(t))
<1> PICK n : n = k.name
  OBVIOUS
<1> PICK u : u = k.table
  OBVIOUS
<1> PICK b : b = <<1>> \o u
  OBVIOUS
<1> PICK m : m = b \o <<n>>
  OBVIOUS
<1> PICK l : l = <<2>> \o t
  OBVIOUS
<1>1. WipeFkey(k).file = WipeTable(t).file
  BY WipeForms
<1>2. WipeFkey(k).at = m /\ WipeTable(t).at = l
  BY DEF WipeFkey, WipeTable, Step
<1>3. /\ <<1>> \in Seq(Nat) /\ <<2>> \in Seq(Nat) /\ <<n>> \in Seq(Nat)
      /\ u \in Seq(Nat) /\ t \in Seq(Nat)
  BY Tuples
<1>4. b \in Seq(Nat) /\ Len(b) >= 1 /\ b[1] = 1
  BY <1>3, ConcatProperties
<1>5. m \in Seq(Nat) /\ Len(m) >= 1 /\ m[1] = 1
  BY <1>3, <1>4, ConcatProperties
<1>6. l \in Seq(Nat) /\ Len(l) >= 1 /\ l[1] = 2
  BY <1>3, ConcatProperties
<1>7. Less(m, l)
  <2>1. 1 \in DOMAIN m \cap DOMAIN l
    BY <1>5, <1>6
  <2>2. \A i \in DOMAIN m : i < 1 => m[i] = l[i]
    BY <1>5
  <2>3. m[1] < l[1]
    BY <1>5, <1>6
  <2> QED
    BY <2>1, <2>2, <2>3 DEF Less
<1> QED
  BY <1>1, <1>2, <1>7 DEF Before

\* The first step of a wipe is not refused, and then the others are left.
LEMMA WipeStep ==
  ASSUME NEW c, Tidy(c, HasNames), NEW x \in WipeSteps(c), \A y \in WipeSteps(c) : ~Before(y, x),
         NEW e, e = EffectOf(c, x.stmt)
  PROVE  ~Rejects(c, x.stmt) /\ WipeSteps(e) = WipeSteps(c) \ {x}
<1>1. ASSUME NEW k \in InWay(c)
      PROVE  k \in c.constraints /\ k.table \in c.tables /\ k.table \in Nat \X Nat /\ k.name \in Nat
  BY <1>1 DEF InWay, ForeignKeys, Tidy, AreConstraints, IsConstraint, HasNames
<1>2. ASSUME NEW k \in InWay(c), x = WipeFkey(k)
      PROVE  ~Rejects(c, x.stmt) /\ WipeSteps(e) = WipeSteps(c) \ {x}
  <2> PICK s : s = x.stmt
    OBVIOUS
  <2>1. s.op = "drop constraint" /\ s.table = k.table /\ s.name = k.name
    BY <1>2, WipeForms
  <2>2. ~Rejects(c, s)
    BY <1>1, <2>1 DEF Rejects
  <2>3. e = [c EXCEPT !.constraints = {j \in @ : j.table # s.table \/ j.name # s.name}]
    BY <2>1 DEF EffectOf, Effect, TableStatements, ConstraintStatements, EffectOnConstraint
  <2>4. e.tables = c.tables /\ e.constraints = {j \in c.constraints : j.table # s.table \/ j.name # s.name}
    BY <2>3 DEF Tidy
  <2>5. \A j : j \in InWay(e) <=> j \in InWay(c) /\ (j.table # s.table \/ j.name # s.name)
    BY <2>4 DEF InWay, ForeignKeys
  <2>6. ASSUME NEW y
        PROVE  y \in WipeSteps(e) <=> y \in WipeSteps(c) \ {x}
    <3>1. ASSUME y \in WipeSteps(e)
          PROVE  y \in WipeSteps(c) /\ y # x
      <4>1. CASE \E j \in InWay(e) : y = WipeFkey(j)
        <5> PICK j \in InWay(e) : y = WipeFkey(j)
          BY <4>1
        <5>1. j \in InWay(c) /\ (j.table # s.table \/ j.name # s.name)
          BY <2>5
        <5>2. y \in WipeSteps(c)
          BY <5>1, WipeParts
        <5>3. y # x
          BY <1>2, <2>1, <5>1, WipeForms
        <5> QED
          BY <5>2, <5>3
      <4>2. CASE \E t \in e.tables : y = WipeTable(t)
        <5> PICK t \in e.tables : y = WipeTable(t)
          BY <4>2
        <5>1. y \in WipeSteps(c)
          BY <2>4, WipeParts
        <5>2. y.stmt.op = "drop table"
          BY WipeForms
        <5>3. y # x
          BY <2>1, <5>2
        <5> QED
          BY <5>1, <5>3
      <4> QED
        BY <3>1, <4>1, <4>2, WipeParts
    <3>2. ASSUME y \in WipeSteps(c), y # x
          PROVE  y \in WipeSteps(e)
      <4>1. CASE \E j \in InWay(c) : y = WipeFkey(j)
        <5> PICK j \in InWay(c) : y = WipeFkey(j)
          BY <4>1
        <5>1. j.table # s.table \/ j.name # s.name
          BY <1>2, <2>1, <3>2, WipeSame
        <5>2. j \in InWay(e)
          BY <2>5, <5>1
        <5> QED
          BY <5>2, WipeParts
      <4>2. CASE \E t \in c.tables : y = WipeTable(t)
        <5> PICK t \in c.tables : y = WipeTable(t)
          BY <4>2
        <5> QED
          BY <2>4, WipeParts
      <4> QED
        BY <3>2, <4>1, <4>2, WipeParts
    <3> QED
      BY <3>1, <3>2
  <2> QED
    BY <2>2, <2>6
<1>3. ASSUME NEW t \in c.tables, x = WipeTable(t)
      PROVE  ~Rejects(c, x.stmt) /\ WipeSteps(e) = WipeSteps(c) \ {x}
  <2> PICK s : s = x.stmt
    OBVIOUS
  <2>1. s.op = "drop table" /\ s.table = t
    BY <1>3, WipeForms
  <2>2. t \in Nat \X Nat
    BY DEF Tidy
  <2>3. InWay(c) = {}
    <3>1. ASSUME NEW k \in InWay(c)
          PROVE  FALSE
      <4>1. WipeFkey(k) \in WipeSteps(c)
        BY WipeParts
      <4>2. Before(WipeFkey(k), x)
        BY <1>1, <1>3, <2>2, WipeOrder
      <4> QED
        BY <4>1, <4>2
    <3> QED
      BY <3>1
  <2>4. ~Rejects(c, s)
    BY <2>1, <2>3 DEF Rejects, InWay
  <2>5. e = WithoutTables(c, {t})
    BY <2>1 DEF EffectOf, Effect, TableStatements, ConstraintStatements, EffectOnTables
  <2>6. e.tables = c.tables \ {t} /\ e.constraints \subseteq c.constraints
    BY <2>5 DEF WithoutTables, Tidy
  <2>7. InWay(e) = {}
    BY <2>3, <2>6 DEF InWay, ForeignKeys
  <2>8. ASSUME NEW y
        PROVE  y \in WipeSteps(e) <=> y \in WipeSteps(c) \ {x}
    <3>1. y \in WipeSteps(e) <=> \E u \in e.tables : y = WipeTable(u)
      BY <2>7, WipeParts
    <3>2. y \in WipeSteps(c) <=> \E u \in c.tables : y = WipeTable(u)
      BY <2>3, WipeParts
    <3>3. \A u : u # t => WipeTable(u) # x
      BY <2>1, WipeForms
    <3> QED
      BY <1>3, <2>6, <3>1, <3>2, <3>3
  <2> QED
    BY <2>4, <2>8
<1> QED
  BY <1>2, <1>3, WipeParts

\* What is left of a wipe is what is left of the database.
WipeInv ==
  \A p \in Procs : "wipe" \in flags[p] =>
    /\ outcome[p] # "refused"
    /\ outcome[p] = "running" => todo[p] = WipeSteps(db)

LEMMA WipeUnit ==
  ASSUME ProcsOK, NEW p \in Procs, "wipe" \in flags[p], todo[p] # {}, todo[p] = WipeSteps(db)
  PROVE  \A y \in todo[p] \ Unit(p), x \in Unit(p) : ~Before(y, x)
<1>1. First(p) \in Unit(p) /\ Unit(p) \subseteq todo[p] /\ \A y \in todo[p] : ~Before(y, First(p))
  BY UnitOf
<1>2. CASE dialect = "mysql"
  <2>1. Unit(p) = {First(p)}
    BY <1>2 DEF Unit
  <2> QED
    BY <1>1, <2>1
<1>3. CASE dialect # "mysql"
  <2>1. \A y \in todo[p] : y.file = <<1>>
    <3>1. ASSUME NEW y \in WipeSteps(db)
          PROVE  y.file = <<1>>
      <4>1. CASE \E k \in InWay(db) : y = WipeFkey(k)
        <5> PICK k \in InWay(db) : y = WipeFkey(k)
          BY <4>1
        <5> QED
          BY WipeForms
      <4>2. CASE \E t \in db.tables : y = WipeTable(t)
        <5> PICK t \in db.tables : y = WipeTable(t)
          BY <4>2
        <5> QED
          BY WipeForms
      <4> QED
        BY <3>1, <4>1, <4>2, WipeParts
    <3> QED
      BY <3>1
  <2>2. Unit(p) = todo[p]
    BY <1>1, <1>3, <2>1 DEF Unit
  <2> QED
    BY <2>2
<1> QED
  BY <1>2, <1>3

\* A unit of a wipe, all of whose steps come first, goes well.
LEMMA WipeRuns ==
  ASSUME DatabaseOK, NEW unit, Runnable(unit), NEW rest, unit \cap rest = {}, unit \cup rest = WipeSteps(db),
         \A y \in rest, x \in unit : ~Before(y, x)
  PROVE  After(unit).ok /\ WipeSteps(After(unit).db) = rest
<1>1. PICK f : Runs(f, unit)
  BY AfterRuns DEF DatabaseOK
<1> PICK n : n = Cardinality(unit)
  OBVIOUS
<1>2. n \in Nat /\ IsFiniteSet(unit)
  BY FS_CardinalityType DEF Runnable
<1>3. /\ f[0] = [left |-> unit, db |-> db, rows |-> rows, ok |-> TRUE]
      /\ \A k \in 0 .. n : Sane(f[k], unit) /\ (f[k].ok => Cardinality(f[k].left) = n - k)
      /\ \A k \in 1 .. n : /\ f[k].ok => Ran(f[k - 1], f[k], FirstOf(f[k - 1].left))
                           /\ f[k].ok \/ ~f[k - 1].ok \/ Rejects(f[k - 1].db, FirstOf(f[k - 1].left).stmt)
      /\ After(unit) = f[n]
  BY <1>1 DEF Runs
<1> DEFINE Fine(k) == f[k].ok /\ f[k].left \cup rest = WipeSteps(f[k].db)
<1>4. Fine(0)
  BY <1>3
<1>5. ASSUME NEW k \in 0 .. n - 1, Fine(k)
      PROVE  Fine(k + 1)
  <2> PICK b : b = f[k]
    OBVIOUS
  <2> PICK e : e = f[k + 1]
    OBVIOUS
  <2> PICK x : x = FirstOf(b.left)
    OBVIOUS
  <2>1. b.ok /\ b.left \cup rest = WipeSteps(b.db)
    BY <1>5
  <2>2. Tidy(b.db, HasNames) /\ b.left \subseteq unit /\ Cardinality(b.left) = n - k
    BY <1>2, <1>3, <2>1 DEF Sane
  <2>3. b.left # {}
    <3>1. Cardinality({}) = 0
      BY FS_EmptySet
    <3>2. n - k # 0
      BY <1>2
    <3> QED
      BY <2>2, <3>1, <3>2
  <2>4. x \in b.left /\ \A y \in b.left : ~Before(y, x)
    <3>1. IsFiniteSet(b.left) /\ \A y \in b.left : Placed(y)
      BY <2>2, FS_Subset DEF Runnable
    <3> QED
      BY <2>3, <3>1, FirstIs
  <2>5. x \in WipeSteps(b.db) /\ \A y \in WipeSteps(b.db) : ~Before(y, x)
    BY <2>1, <2>2, <2>4
  <2> PICK w : w = EffectOf(b.db, x.stmt)
    OBVIOUS
  <2>6. ~Rejects(b.db, x.stmt) /\ WipeSteps(w) = WipeSteps(b.db) \ {x}
    BY <2>2, <2>5, WipeStep
  <2>7. e.ok /\ Ran(b, e, x)
    <3>1. k + 1 \in 1 .. n /\ (k + 1) - 1 = k /\ k + 1 \in 0 .. n
      BY <1>2
    <3>2. e.ok \in BOOLEAN
      BY <1>3, <3>1 DEF Sane
    <3>3. e.ok \/ ~b.ok \/ Rejects(b.db, x.stmt)
      BY <1>3, <3>1
    <3>4. e.ok => Ran(b, e, x)
      BY <1>3, <3>1
    <3> QED
      BY <2>1, <2>6, <3>3, <3>4
  <2>8. e.left = b.left \ {x} /\ e.db = w
    BY <2>7 DEF Ran
  <2>9. x \notin rest
    BY <2>2, <2>4
  <2> QED
    BY <2>1, <2>6, <2>7, <2>8, <2>9
<1> PICK G : G = {k \in 0 .. n : Fine(k)}
  OBVIOUS
<1>6. n \in G
  <2>1. 0 \in G
    BY <1>2, <1>4
  <2>2. \A k \in 0 .. n - 1 : k \in G => k + 1 \in G
    BY <1>2, <1>5
  <2> QED
    BY <1>2, <2>1, <2>2, UpTo
<1>7. Fine(n)
  BY <1>6
<1>8. f[n].left = {}
  <2>1. Cardinality(f[n].left) = 0
    BY <1>2, <1>3, <1>7
  <2>2. IsFiniteSet(f[n].left)
    <3>1. f[n].left \subseteq unit
      BY <1>2, <1>3, <1>7 DEF Sane
    <3> QED
      BY <1>2, <3>1, FS_Subset
  <2> QED
    BY <2>1, <2>2, FS_EmptySet
<1> QED
  BY <1>3, <1>7, <1>8

\* A step of a wipe goes well, and leaves a wipe of what is left.
LEMMA WipeGoesOn ==
  ASSUME Inv, NEW p \in Procs, "wipe" \in flags[p], todo[p] # {}, todo[p] = WipeSteps(db)
  PROVE  After(Unit(p)).ok /\ WipeSteps(After(Unit(p)).db) = todo[p] \ Unit(p)
<1> PICK u : u = Unit(p)
  OBVIOUS
<1> PICK rest : rest = todo[p] \ u
  OBVIOUS
<1>1. Runnable(u) /\ u \subseteq todo[p]
  BY UnitOf DEF Inv
<1>2. \A y \in rest, x \in u : ~Before(y, x)
  BY WipeUnit DEF Inv
<1>3. u \cap rest = {} /\ u \cup rest = WipeSteps(db)
  BY <1>1
<1> QED
  BY <1>1, <1>2, <1>3, WipeRuns DEF Inv

LEMMA WipeInvInit == Init => WipeInv
BY DEF Init, WipeInv

LEMMA WipeInvNext == OneProcess /\ Inv /\ WipeInv /\ [Next]_vars => WipeInv'
<1> SUFFICES ASSUME OneProcess, Inv, WipeInv, [Next]_vars PROVE WipeInv'
  OBVIOUS
<1>1. CASE UNCHANGED vars
  BY <1>1 DEF vars, WipeInv, WipeSteps
<1>2. ASSUME NEW p \in Procs, NEW f \in Flags, NEW d, NEW steps, Starts(p, d, f, steps)
      PROVE  WipeInv'
  <2>1. "wipe" \notin f
    BY DialectsAssumption
  <2>2. flags'[p] = f
    BY <1>2 DEF Starts, Start, Inv, ProcsOK
  <2> QED
    BY <2>1, <2>2 DEF WipeInv, OneProcess
<1>3. ASSUME NEW p \in Procs, Wipe(p)
      PROVE  WipeInv'
  <2> PICK src : src = Introspected(db)
    OBVIOUS
  <2>1. src.tables = db.tables /\ src.constraints = db.constraints
    BY IntrospectedIs DEF Inv, DatabaseOK
  <2>2. WipeSteps(src) = WipeSteps(db)
    BY <2>1 DEF WipeSteps, ForeignKeys
  <2>3. /\ outcome'[p] = "running" /\ todo'[p] = WipeSteps(src)
        /\ db' = db /\ dialect' = dialect
    BY <1>3 DEF Wipe, Start, Inv, ProcsOK
  <2>4. WipeSteps(db)' = WipeSteps(db)
    BY <2>3 DEF WipeSteps
  <2> QED
    BY <2>2, <2>3, <2>4 DEF WipeInv, OneProcess
<1>4. ASSUME NEW p \in Procs, Execute(p)
      PROVE  WipeInv'
  <2> PICK u : u = Unit(p)
    OBVIOUS
  <2> PICK e : e = After(u).db
    OBVIOUS
  <2>1. /\ outcome[p] = "running" /\ todo[p] # {} /\ db' = e
        /\ todo'[p] = todo[p] \ u
        /\ UNCHANGED <<dialect, flags, outcome>>
    BY <1>4 DEF Execute, Inv, ProcsOK
  <2>2. ASSUME "wipe" \in flags[p]
        PROVE  todo'[p] = WipeSteps(db')
    <3>1. todo[p] = WipeSteps(db)
      BY <2>1, <2>2 DEF WipeInv
    <3>2. WipeSteps(e) = todo[p] \ u
      BY <2>1, <2>2, <3>1, WipeGoesOn
    <3> QED
      BY <2>1, <3>2
  <2>3. WipeSteps(db)' = WipeSteps(db')
    BY <2>1 DEF WipeSteps
  <2> QED
    BY <2>1, <2>2, <2>3 DEF WipeInv, OneProcess
<1>5. ASSUME NEW p \in Procs, Refuse(p)
      PROVE  WipeInv'
  <2>1. /\ outcome[p] = "running" /\ todo[p] # {} /\ ~After(Unit(p)).ok
        /\ outcome'[p] = "refused" /\ flags' = flags
    BY <1>5 DEF Refuse, Stop, Inv, ProcsOK
  <2>2. "wipe" \notin flags[p]
    BY <2>1, WipeGoesOn DEF WipeInv
  <2> QED
    BY <2>1, <2>2 DEF WipeInv, OneProcess
<1>6. ASSUME NEW p \in Procs, Fail(p) \/ Crash(p) \/ Finish(p)
      PROVE  WipeInv'
  <2>1. outcome'[p] \in {"failed", "ok"}
    BY <1>6 DEF Fail, Crash, Finish, Stop, Inv, ProcsOK
  <2> QED
    BY <2>1 DEF WipeInv, OneProcess
<1>7. ASSUME NEW t \in db.tables, Insert(t)
      PROVE  WipeInv'
  BY <1>7 DEF Insert, WipeInv, WipeSteps
<1>8. ASSUME NEW p \in Procs, NEW d \in Catalogs[dialect], NEW f \in Flags, Run(p, d, f)
      PROVE  WipeInv'
  <2>1. \E steps : Starts(p, d, f, steps)
    BY <1>8 DEF Run, Starts
  <2> QED
    BY <1>2, <2>1
<1> QED
  BY <1>1, <1>3, <1>4, <1>5, <1>6, <1>7, <1>8 DEF Next, Migrating

\* A wipe by the only process drops every foreign key before the tables, whatever runs
\* were refused, failed or died before it, its own included, so that no table is refused
\* for a foreign key that refers to it (src/ddl/wipe_cmd.go:155, "drop all foreign keys").
THEOREM DialectsWipeNeverRefused == ASSUME OneProcess PROVE Spec => []WipeNeverRefused
<1>1. Init => WipeInv
  BY WipeInvInit
<1>2. Inv /\ WipeInv /\ [Next]_vars => WipeInv'
  BY OneProcess, WipeInvNext
<1>3. WipeInv => WipeNeverRefused
  BY DEF WipeInv, WipeNeverRefused
<1> QED
  BY <1>1, <1>2, <1>3, SpecInv, PTL DEF Spec

-----------------------------------------------------------------------------
(* The values, with one process at a time                                  *)

Makes(x, op, t) == x.stmt.op = op /\ x.stmt.table = t
MakesSchema(x, t) == x.stmt.op = "create schema" /\ Schema(x.stmt.table) = Schema(t)
Copied(x) == x.stmt.object.copied

\* A plan P, of which S is still to be done, is due: what it makes is not there; the copies
\* are of all columns declared, C, that are there; in its schemas are its tables only.
Due(S, P, c, C) ==
  /\ \A x \in S, t \in c.tables : ~Makes(x, "create table", t)
  /\ \A x \in S, v \in Cols(c) : v \in C /\ Makes(x, "copy table", v[1]) => v[2] \in Copied(x)
  /\ \A x \in P, t \in c.tables : MakesSchema(x, t) => \E y \in P \ S : Makes(y, "create table", t)

\* A migration is due for the database that it was made for.
LEMMA RightDue ==
  ASSUME NEW S, NEW named, NEW c, NEW C, NEW drop, AllRight(S, named, c, C, drop)
  PROVE  Due(S, S, c, C)
<1>1. ASSUME NEW x \in S
      PROVE  /\ \A t \in c.tables : ~Makes(x, "create table", t) /\ ~MakesSchema(x, t)
             /\ \A v \in Cols(c) : v \in C /\ Makes(x, "copy table", v[1]) => v[2] \in Copied(x)
  <2> PICK s : s = x.stmt
    OBVIOUS
  <2>1. New(s, c, C)
    BY DEF AllRight, Right
  <2> QED
    BY <2>1 DEF New, Makes, MakesSchema, Copied
<1> QED
  BY <1>1 DEF Due

LEMMA NothingDue ==
  ASSUME NEW c, NEW C
  PROVE  Due({}, {}, c, C)
BY DEF Due

\* No two steps make, copy or add to one table.
LEMMA ApartMakes ==
  ASSUME NEW P, Apart(P), NEW x \in P, NEW y \in P, x # y, NEW t
  PROVE  /\ ~(Makes(x, "create table", t) /\ Makes(y, "create table", t))
         /\ \A op \in BringsTable \cup {"add column"} : ~(Makes(x, "copy table", t) /\ Makes(y, op, t))
BY DEF Apart, Makes, BringsTable

\* A step leaves the rest of the plan due.
LEMMA StepDue ==
  ASSUME NEW P, Apart(P), NEW S \in SUBSET P, NEW x \in S, NEW c, NEW C, Due(S, P, c, C),
         NEW e, Changes(c, e, x.stmt)
  PROVE  Due(S \ {x}, P, e, C)
<1> PICK s : s = x.stmt
  OBVIOUS
<1>1. \A t \in e.tables : t \in c.tables \/ Makes(x, "create table", t)
  BY DEF Changes, Makes
<1>2. \A v \in Cols(e) : v \in Cols(c) \/ \E op \in BringsTable \cup {"add column"} : Makes(x, op, v[1])
  BY DEF Changes, Makes
<1>3. ASSUME NEW y \in S \ {x}, NEW t \in e.tables
      PROVE  ~Makes(y, "create table", t)
  <2>1. CASE t \in c.tables
    BY <2>1 DEF Due
  <2>2. CASE Makes(x, "create table", t)
    BY <2>2, ApartMakes
  <2> QED
    BY <1>1, <2>1, <2>2
<1>4. ASSUME NEW y \in S \ {x}, NEW v \in Cols(e), v \in C, Makes(y, "copy table", v[1])
      PROVE  v[2] \in Copied(y)
  <2>1. CASE v \in Cols(c)
    BY <1>4, <2>1 DEF Due
  <2>2. CASE \E op \in BringsTable \cup {"add column"} : Makes(x, op, v[1])
    <3> PICK t : t = v[1]
      OBVIOUS
    <3>1. y \in P /\ x \in P /\ y # x
      OBVIOUS
    <3>2. \A op \in BringsTable \cup {"add column"} : ~(Makes(y, "copy table", t) /\ Makes(x, op, t))
      BY <3>1, ApartMakes
    <3> QED
      BY <1>4, <2>2, <3>2
  <2> QED
    BY <1>2, <2>1, <2>2
<1>5. ASSUME NEW y \in P, NEW t \in e.tables, MakesSchema(y, t)
      PROVE  \E z \in P \ (S \ {x}) : Makes(z, "create table", t)
  <2>1. CASE t \in c.tables
    <3>1. PICK z \in P \ S : Makes(z, "create table", t)
      BY <1>5, <2>1 DEF Due
    <3> QED
      BY <3>1
  <2>2. CASE Makes(x, "create table", t)
    BY <2>2
  <2> QED
    BY <1>1, <2>1, <2>2
<1> QED
  BY <1>3, <1>4, <1>5 DEF Due

\* Values that a step takes away were to be dropped.
LEMMA StepKeeps ==
  ASSUME NoCascades, NEW c, Tidy(c, HasNames), NEW r, r \subseteq Cols(c), NEW S, NEW x \in S, NEW P, NEW C,
         Due(S, P, c, C), NEW drop, Asked(x.stmt, C, drop), Changes(c, EffectOf(c, x.stmt), x.stmt),
         NEW v \in r, v \notin ValuesAfter(c, r, x.stmt)
  PROVE  drop /\ v \notin C
<1> PICK s : s = x.stmt
  OBVIOUS
<1> PICK e : e = EffectOf(c, s)
  OBVIOUS
<1>1. Cascaded(c, s) = {}
  BY DEF Cascaded, ForeignKeys, Tidy, AreConstraints, IsConstraint, HasNames
<1>2. v \notin Cols(e) \/ (s.op = "copy table" /\ v[1] = s.table /\ v[2] \notin s.object.copied)
  BY <1>1 DEF ValuesAfter, Cols
<1>3. CASE v \notin Cols(e)
  BY <1>3 DEF Changes, Asked
<1>4. CASE s.op = "copy table" /\ v[1] = s.table /\ v[2] \notin s.object.copied
  <2>1. Makes(x, "copy table", v[1]) /\ v[2] \notin Copied(x)
    BY <1>4 DEF Makes, Copied
  <2>2. v \notin C
    BY <2>1 DEF Due
  <2>3. drop
    BY <1>4 DEF Asked
  <2> QED
    BY <2>2, <2>3
<1> QED
  BY <1>2, <1>3, <1>4

\* So are those that a unit takes away, and it leaves the rest of the plan due.
LEMMA AfterKeeps ==
  ASSUME NoCascades, DatabaseOK, NEW P, NEW C, NEW drop, Promised(P, HasNames, C, drop),
         NEW unit \in SUBSET P, Runnable(unit), NEW rest \in SUBSET P, unit \cap rest = {},
         Due(unit \cup rest, P, db, C), After(unit).ok
  PROVE  Due(rest, P, After(unit).db, C) /\ \A v \in rows : v \in After(unit).rows \/ (drop /\ v \notin C)
<1>1. PICK f : Runs(f, unit)
  BY AfterRuns DEF DatabaseOK
<1> PICK n : n = Cardinality(unit)
  OBVIOUS
<1>2. n \in Nat /\ IsFiniteSet(unit)
  BY FS_CardinalityType DEF Runnable
<1>3. /\ f[0] = [left |-> unit, db |-> db, rows |-> rows, ok |-> TRUE]
      /\ \A k \in 0 .. n : Sane(f[k], unit) /\ (f[k].ok => Cardinality(f[k].left) = n - k)
      /\ \A k \in 1 .. n : f[k].ok => Ran(f[k - 1], f[k], FirstOf(f[k - 1].left))
      /\ After(unit) = f[n]
  BY <1>1 DEF Runs
<1> DEFINE Fine(k) == f[k].ok => /\ Due(f[k].left \cup rest, P, f[k].db, C)
                                 /\ \A v \in rows : v \in f[k].rows \/ (drop /\ v \notin C)
<1>4. Fine(0)
  BY <1>3
<1>5. ASSUME NEW k \in 0 .. n - 1, Fine(k), f[k + 1].ok
      PROVE  Fine(k + 1)
  <2> PICK b : b = f[k]
    OBVIOUS
  <2> PICK e : e = f[k + 1]
    OBVIOUS
  <2> PICK x : x = FirstOf(b.left)
    OBVIOUS
  <2> PICK S : S = b.left \cup rest
    OBVIOUS
  <2>1. Ran(b, e, x)
    <3>1. k + 1 \in 1 .. n /\ (k + 1) - 1 = k
      BY <1>2
    <3> QED
      BY <1>3, <1>5, <3>1
  <2>2. Due(S, P, b.db, C) /\ \A v \in rows : v \in b.rows \/ (drop /\ v \notin C)
    BY <1>5, <2>1 DEF Ran
  <2>3. Tidy(b.db, HasNames) /\ b.rows \subseteq Cols(b.db) /\ b.left \subseteq unit
    <3>1. k \in 0 .. n
      BY <1>2
    <3> QED
      BY <1>3, <2>1, <3>1 DEF Sane, Ran
  <2>4. /\ x \in b.left /\ e.left = b.left \ {x} /\ e.db = EffectOf(b.db, x.stmt)
        /\ e.rows = ValuesAfter(b.db, b.rows, x.stmt) /\ Changes(b.db, e.db, x.stmt)
    BY <2>1 DEF Ran
  <2>5. S \in SUBSET P /\ x \in S /\ x \in P
    BY <2>3, <2>4
  <2>6. Apart(P) /\ Asked(x.stmt, C, drop)
    BY <2>5 DEF Promised
  <2>7. Due(S \ {x}, P, e.db, C)
    BY <2>2, <2>4, <2>5, <2>6, StepDue
  <2>8. e.left \cup rest = S \ {x}
    BY <2>3, <2>4
  <2>9. ASSUME NEW v \in b.rows, v \notin e.rows
        PROVE  drop /\ v \notin C
    BY <2>2, <2>3, <2>4, <2>5, <2>6, <2>9, StepKeeps
  <2>10. Due(e.left \cup rest, P, e.db, C)
    BY <2>7, <2>8
  <2> QED
    BY <2>2, <2>9, <2>10
<1> PICK G : G = {k \in 0 .. n : Fine(k)}
  OBVIOUS
<1>6. n \in G
  <2>1. 0 \in G
    BY <1>2, <1>4
  <2>2. ASSUME NEW k \in 0 .. n - 1, k \in G
        PROVE  k + 1 \in G
    <3>1. k + 1 \in 0 .. n /\ Fine(k)
      BY <1>2, <2>2
    <3>2. CASE ~f[k + 1].ok
      <4>1. Fine(k + 1)
        BY <3>2
      <4> QED
        BY <3>1, <4>1
    <3>3. CASE f[k + 1].ok
      <4>1. Fine(k + 1)
        BY <1>5, <3>1, <3>3
      <4> QED
        BY <3>1, <4>1
    <3> QED
      BY <3>2, <3>3
  <2> QED
    BY <1>2, <2>1, <2>2, UpTo
<1>7. Due(f[n].left \cup rest, P, f[n].db, C) /\ \A v \in rows : v \in f[n].rows \/ (drop /\ v \notin C)
  BY <1>3, <1>6
<1>8. f[n].left = {}
  <2>1. Cardinality(f[n].left) = 0
    BY <1>2, <1>3
  <2>2. IsFiniteSet(f[n].left)
    <3>1. f[n].left \subseteq unit
      BY <1>2, <1>3 DEF Sane
    <3> QED
      BY <1>2, <3>1, FS_Subset
  <2> QED
    BY <2>1, <2>2, FS_EmptySet
<1>9. f[n].left \cup rest = rest
  BY <1>8
<1> QED
  BY <1>3, <1>7, <1>9

\* The plan of a process is due as long as it runs.
DueInv == \A p \in Procs : outcome[p] = "running" => Due(todo[p], plan[p], db, Cols(dest[p]))

LEMMA ExecuteKeeps ==
  ASSUME NoCascades, Inv, DueInv, NEW p \in Procs, Execute(p)
  PROVE  /\ Due(todo'[p], plan[p], db', Cols(dest[p]))
         /\ \A v \in rows : v \in rows' \/ ("drop-objects" \in flags[p] /\ v \notin Cols(dest[p]))
<1> PICK u : u = Unit(p)
  OBVIOUS
<1> PICK rest : rest = todo[p] \ u
  OBVIOUS
<1> PICK C : C = Cols(dest[p])
  OBVIOUS
<1> PICK drop : drop = ("drop-objects" \in flags[p])
  OBVIOUS
<1> PICK P : P = plan[p]
  OBVIOUS
<1>1. /\ outcome[p] = "running" /\ todo[p] # {} /\ todo'[p] = rest
      /\ After(u).ok /\ db' = After(u).db /\ rows' = After(u).rows
  BY DEF Execute, Inv, ProcsOK
<1>2. Runnable(u) /\ u \subseteq todo[p]
  BY <1>1, UnitOf DEF Inv
<1>3. Promised(P, HasNames, C, drop) /\ todo[p] \subseteq P
  BY DEF Inv, ProcsOK
<1>4. u \cup rest = todo[p] /\ u \cap rest = {} /\ u \in SUBSET P /\ rest \in SUBSET P
  BY <1>2, <1>3
<1>5. Due(u \cup rest, P, db, C)
  BY <1>1, <1>4 DEF DueInv
<1>6. Due(rest, P, After(u).db, C) /\ \A v \in rows : v \in After(u).rows \/ (drop /\ v \notin C)
  <2>1. DatabaseOK /\ After(u).ok
    BY <1>1 DEF Inv
  <2> QED
    BY <1>2, <1>3, <1>4, <1>5, <2>1, AfterKeeps
<1> QED
  BY <1>1, <1>6

\* An undo script drops tables only that the plan made.
LEMMA UndoKeeps ==
  ASSUME Inv, DueInv, NEW p \in Procs, outcome[p] = "running", Undone(p), NEW v \in rows, v \notin rows'
  PROVE  \E x \in plan[p] \ todo[p] : x.stmt.op = "create table" /\ x.stmt.table = v[1]
<1> PICK t : t = v[1]
  OBVIOUS
<1> PICK P : P = plan[p]
  OBVIOUS
<1> PICK S : S = todo[p]
  OBVIOUS
<1>1. t \in db.tables
  BY DEF Inv, DatabaseOK, Cols, Tidy, AreSound
<1>2. Due(S, P, db, Cols(dest[p]))
  BY DEF DueInv
<1>3. t \notin db'.tables
  BY DEF Undone
<1>4. PICK s \in UndoStatements(p) : \/ s.op = "drop table" /\ s.table = t
                                     \/ s.op = "drop schema" /\ Schema(s.table) = Schema(t)
  <2> DEFINE T == {u \in db.tables :
                     \E s \in UndoStatements(p) : \/ s.op = "drop table" /\ s.table = u
                                                  \/ s.op = "drop schema" /\ Schema(s.table) = Schema(u)}
  <2>1. db' = WithoutTables(db, T)
    BY DEF Undone
  <2> HIDE DEF T
  <2>2. db'.tables = db.tables \ T
    BY <2>1 DEF WithoutTables, Inv, DatabaseOK, Tidy
  <2>3. t \in T
    BY <1>1, <1>3, <2>2
  <2> QED
    BY <2>3 DEF T
<1>5. \/ \E x \in P : s = On("drop schema", x.stmt.table) /\ x.stmt.op = "create schema"
      \/ \E x \in P : s = On("drop table", x.stmt.table) /\ x.stmt.op = "create table"
  BY <1>4 DEF UndoStatements, MySQL!Undo, MySQL!On, On
<1>6. CASE \E x \in P : s = On("drop schema", x.stmt.table) /\ x.stmt.op = "create schema"
  <2>1. PICK x \in P : s = On("drop schema", x.stmt.table) /\ x.stmt.op = "create schema"
    BY <1>6
  <2>2. MakesSchema(x, t)
    BY <1>4, <2>1 DEF On, MakesSchema
  <2>3. PICK y \in P \ S : Makes(y, "create table", t)
    BY <1>1, <1>2, <2>2 DEF Due
  <2> QED
    BY <2>3 DEF Makes
<1>7. CASE \E x \in P : s = On("drop table", x.stmt.table) /\ x.stmt.op = "create table"
  <2>1. PICK x \in P : s = On("drop table", x.stmt.table) /\ x.stmt.op = "create table"
    BY <1>7
  <2>2. Makes(x, "create table", t)
    BY <1>4, <2>1 DEF On, Makes
  <2>3. x \notin S
    BY <1>1, <1>2, <2>2 DEF Due
  <2> QED
    BY <2>2, <2>3 DEF Makes
<1> QED
  BY <1>5, <1>6, <1>7

\* A step may take away these values.
May(v) ==
  \E p \in Procs :
    /\ outcome[p] = "running"
    /\ \/ "drop-objects" \in flags[p] /\ \A x \in dest[p].columns : <<x.table, x.name>> # v
       \/ \E x \in plan[p] \ todo[p] : x.stmt.op = "create table" /\ x.stmt.table = v[1]

\* Whatever is done, with the invariants, takes away such values only.
LEMMA NextKeeps ==
  ASSUME NoCascades, Inv, DueInv, [Next]_vars, NEW v \in rows, v \notin rows'
  PROVE  May(v)
<1>1. ASSUME rows \subseteq rows'
      PROVE  FALSE
  BY <1>1
<1>2. ASSUME NEW p \in Procs, Execute(p)
      PROVE  May(v)
  <2>1. "drop-objects" \in flags[p] /\ v \notin Cols(dest[p])
    BY <1>2, ExecuteKeeps
  <2>2. \A x \in dest[p].columns : <<x.table, x.name>> # v
    BY <2>1 DEF Cols
  <2>3. outcome[p] = "running"
    BY <1>2 DEF Execute
  <2> QED
    BY <2>1, <2>2, <2>3 DEF May
<1>3. ASSUME NEW p \in Procs, Refuse(p) \/ Fail(p)
      PROVE  May(v)
  <2>1. outcome[p] = "running" /\ Undone(p)
    BY <1>3 DEF Refuse, Fail
  <2>2. \E x \in plan[p] \ todo[p] : x.stmt.op = "create table" /\ x.stmt.table = v[1]
    BY <2>1, UndoKeeps
  <2> QED
    BY <2>1, <2>2 DEF May
<1>4. CASE UNCHANGED vars
  BY <1>1, <1>4 DEF vars
<1>5. ASSUME NEW p \in Procs, Wipe(p) \/ Crash(p) \/ Finish(p)
      PROVE  May(v)
  BY <1>1, <1>5 DEF Wipe, Start, Crash, Finish
<1>6. ASSUME NEW p \in Procs, NEW d, NEW f, Run(p, d, f)
      PROVE  May(v)
  BY <1>1, <1>6 DEF Run, Start
<1>7. ASSUME NEW t, Insert(t)
      PROVE  May(v)
  BY <1>1, <1>7 DEF Insert
<1> QED
  BY <1>2, <1>3, <1>4, <1>5, <1>6, <1>7 DEF Next, Migrating

LEMMA DueInvNext == OneProcess /\ NoCascades /\ Inv /\ DueInv /\ [Next]_vars => DueInv'
<1> SUFFICES ASSUME OneProcess, NoCascades, Inv, DueInv, [Next]_vars PROVE DueInv'
  OBVIOUS
<1>1. ASSUME NEW p \in Procs, outcome'[p] # "running"
      PROVE  DueInv'
  BY <1>1 DEF DueInv, OneProcess
<1>2. ASSUME NEW p \in Procs, Due(todo'[p], plan'[p], db', Cols(dest'[p]))
      PROVE  DueInv'
  <2>1. Due(todo[p], plan[p], db, Cols(dest[p]))' = Due(todo'[p], plan'[p], db', Cols(dest'[p]))
    OBVIOUS
  <2>2. \A q \in Procs : q = p
    BY DEF OneProcess
  <2> QED
    BY <1>2, <2>2 DEF DueInv
<1>3. ASSUME NEW p \in Procs, NEW d, NEW f, NEW steps, Starts(p, d, f, steps), Due(steps, steps, db, Cols(d))
      PROVE  DueInv'
  <2>1. dest'[p] = d /\ plan'[p] = steps /\ todo'[p] = steps /\ db' = db
    BY <1>3 DEF Starts, Start, Inv, ProcsOK
  <2> QED
    BY <1>2, <1>3, <2>1
<1>4. ASSUME NEW p \in Procs, NEW d \in Catalogs[dialect], NEW f \in Flags, Run(p, d, f)
      PROVE  DueInv'
  <2> PICK w : w = ("drop-objects" \in f)
    OBVIOUS
  <2> PICK src : src = Introspected(db)
    OBVIOUS
  <2> PICK all : all = Migration(src, d, w)
    OBVIOUS
  <2>1. Tidy(src, HasNames) /\ src.tables = db.tables /\ Cols(src) = Cols(db)
    BY IntrospectedIs DEF Inv, DatabaseOK
  <2>2. AllRight(all, HasNames, src, Cols(d), w)
    BY <2>1, MigrationRight DEF Inv, DatabaseOK
  <2>3. AllRight(all, HasNames, db, Cols(d), w)
    BY <2>1, <2>2, SameNew
  <2>4. Due(all, all, db, Cols(d)) /\ Due({}, {}, db, Cols(d))
    BY <2>3, RightDue, NothingDue
  <2>5. PICK steps \in {{}, all} : Starts(p, d, f, steps)
    BY <1>4 DEF Run, Starts
  <2> QED
    BY <1>3, <2>4, <2>5
<1>5. ASSUME NEW p \in Procs, Wipe(p)
      PROVE  DueInv'
  <2> PICK src : src = Introspected(db)
    OBVIOUS
  <2> PICK all : all = WipeSteps(src)
    OBVIOUS
  <2> PICK f : f = {"drop-objects", "wipe"}
    OBVIOUS
  <2> PICK w : w = ("drop-objects" \in f)
    OBVIOUS
  <2>1. Tidy(src, HasNames) /\ src.tables = db.tables /\ Cols(src) = Cols(db)
    BY IntrospectedIs DEF Inv, DatabaseOK
  <2>2. AllRight(all, HasNames, src, Cols(EmptyCatalog), w)
    BY <2>1, WipeRight
  <2>3. AllRight(all, HasNames, db, Cols(EmptyCatalog), w)
    BY <2>1, <2>2, SameNew
  <2>4. Due(all, all, db, Cols(EmptyCatalog))
    BY <2>3, RightDue
  <2>5. Starts(p, EmptyCatalog, f, all)
    BY <1>5 DEF Wipe, Starts
  <2> QED
    BY <1>3, <2>4, <2>5
<1>6. ASSUME NEW p \in Procs, Execute(p)
      PROVE  DueInv'
  <2>1. plan' = plan /\ dest' = dest
    BY <1>6 DEF Execute
  <2>2. Due(todo'[p], plan[p], db', Cols(dest[p]))
    BY <1>6, ExecuteKeeps
  <2> QED
    BY <1>2, <2>1, <2>2
<1>7. ASSUME NEW p \in Procs, Refuse(p) \/ Fail(p) \/ Crash(p) \/ Finish(p)
      PROVE  DueInv'
  <2>1. outcome'[p] \in {"refused", "failed", "ok"}
    BY <1>7 DEF Refuse, Fail, Crash, Finish, Stop, Inv, ProcsOK
  <2> QED
    BY <1>1, <2>1
<1>8. CASE UNCHANGED <<db, dest, plan, todo, outcome>>
  BY <1>8 DEF DueInv
<1>9. CASE UNCHANGED vars \/ \E t \in db.tables : Insert(t)
  BY <1>8, <1>9 DEF vars, Insert
<1> QED
  BY <1>4, <1>5, <1>6, <1>7, <1>9 DEF Next, Migrating

\* Where no foreign key of SQLite cascades, and one process runs at a time, whatever it migrates and
\* wherever it is refused, fails or dies: the only values that a run takes away are of
\* columns that were to be dropped, with -drop-objects, or of a table that the run itself
\* created (src/ddl/sqlite_migration.go:391, src/ddl/mysql_migration.go:142).
THEOREM DialectsValuesKept == ASSUME OneProcess, NoCascades PROVE Spec => ValuesKept
<1>1. Init => DueInv
  BY DEF Init, DueInv
<1>2. Inv /\ DueInv /\ [Next]_vars => DueInv'
  BY OneProcess, NoCascades, DueInvNext
<1>3. Inv /\ DueInv /\ [Next]_vars =>
        [\A v \in rows \ rows' :
           \E p \in Procs :
             /\ outcome[p] = "running"
             /\ \/ /\ "drop-objects" \in flags[p]
                   /\ \A x \in dest[p].columns : <<x.table, x.name>> # v
                \/ \E x \in plan[p] \ todo[p] : x.stmt.op = "create table" /\ x.stmt.table = v[1]]_vars
  BY NoCascades, NextKeeps DEF May
<1> QED
  BY <1>1, <1>2, <1>3, SpecInv, PTL DEF Spec, ValuesKept
=============================================================================

--------------------------- MODULE SubsetterProofs ---------------------------
(* Theorems about Subsetter, for every catalog and any number of queries. *)
EXTENDS Subsetter, SequenceTheorems, NaturalsInduction, WellFoundedInduction, FiniteSetTheorems,
        TLAPS

(***************************************************************************)
(* Facts about the helpers.                                                *)
(***************************************************************************)

\* Foreign keys refer from tables to tables.
LEMMA EndsType ==
  ASSUME TypeOK, NEW i \in Fkeys
  PROVE  From(i) \in Tables /\ To(i) \in Tables /\ i \in Nat
<1>1. catalog \in Seq(Fkey)
  BY SubsetterAssumption DEF TypeOK
<1>2. catalog[i] \in Fkey /\ i \in Nat
  BY <1>1 DEF Fkeys
<1>3. QED
  BY <1>2 DEF Fkey, From, To

LEMMA ExtendedType ==
  ASSUME NEW C \in SUBSET Chain, NEW i \in Nat, NEW t \in Tables
  PROVE  Extended(C, i, t) \in SUBSET Chain
<1>1. SUFFICES ASSUME NEW c \in C
               PROVE  [tables |-> Append(c.tables, t), fkeys |-> Append(c.fkeys, i)] \in Chain
  BY DEF Extended
<1>2. c.tables \in Seq(Tables) /\ c.fkeys \in Seq(Nat)
  BY DEF Chain
<1>3. QED
  BY <1>2 DEF Chain

\* Extending paths to s by a foreign key between s and t, away from the tables they
\* visit, gives paths to t.
LEMMA ExtendedPath ==
  ASSUME TypeOK, NEW C \in SUBSET Chain, NEW base, NEW s \in Tables, NEW t \in Tables,
         NEW i \in Fkeys, {s, t} = {From(i), To(i)},
         \A c \in C : IsPath(c, base, s)
  PROVE  \A c \in Extended(C, i, t) : IsPath(c, base, t)
<1>1. SUFFICES ASSUME NEW c \in C, \A k \in DOMAIN c.tables : c.tables[k] # t
               PROVE  IsPath([tables |-> Append(c.tables, t), fkeys |-> Append(c.fkeys, i)], base, t)
  BY DEF Extended
<1>2. DEFINE T == Append(c.tables, t)
             F == Append(c.fkeys, i)
             n == Len(c.tables)
<1>3. c.tables \in Seq(Tables) /\ c.fkeys \in Seq(Nat) /\ n \in Nat /\ Len(c.fkeys) \in Nat
  BY DEF Chain
<1>4. n = Len(c.fkeys) + 1 /\ n >= 1 /\ c.tables[1] = base /\ c.tables[n] = s
  BY <1>3 DEF IsPath, Last
<1>5. /\ Len(T) = n + 1 /\ DOMAIN T = 1 .. n + 1 /\ T[n + 1] = t
      /\ \A k \in 1 .. n : T[k] = c.tables[k]
  BY <1>3, AppendProperties
<1>6. /\ Len(F) = n /\ DOMAIN F = 1 .. n /\ F[n] = i
      /\ \A k \in 1 .. n - 1 : F[k] = c.fkeys[k]
  BY <1>3, <1>4, EndsType, AppendProperties
<1>7. T[1] = base
  BY <1>4, <1>5
<1>8. ASSUME NEW j \in DOMAIN T, NEW k \in DOMAIN T, T[j] = T[k]
      PROVE  j = k
  <2>1. DOMAIN c.tables = 1 .. n
    BY <1>3
  <2>2. CASE j \in 1 .. n /\ k \in 1 .. n
    <3>1. c.tables[j] = c.tables[k]
      BY <1>5, <1>8, <2>2
    <3>2. QED
      BY <2>1, <2>2, <3>1 DEF IsPath
  <2>3. CASE j = n + 1 /\ k \in 1 .. n
    BY <1>1, <1>5, <1>8, <2>1, <2>3
  <2>4. CASE j \in 1 .. n /\ k = n + 1
    BY <1>1, <1>5, <1>8, <2>1, <2>4
  <2>5. CASE j = n + 1 /\ k = n + 1
    BY <2>5
  <2>6. QED
    BY <1>3, <1>5, <2>2, <2>3, <2>4, <2>5
<1>9. ASSUME NEW k \in DOMAIN F
      PROVE  F[k] \in Fkeys /\ {T[k], T[k + 1]} = {From(F[k]), To(F[k])}
  <2>1. CASE k = n
    BY <1>4, <1>5, <1>6, <2>1
  <2>2. CASE k # n
    <3>1. k \in 1 .. n - 1 /\ k \in 1 .. n /\ k + 1 \in 1 .. n /\ k \in DOMAIN c.fkeys
      <4>1. DOMAIN c.fkeys = 1 .. n - 1 /\ k \in 1 .. n
        BY <1>3, <1>4, <1>6
      <4>2. k \in 1 .. n - 1 /\ k + 1 \in 1 .. n
        BY <1>3, <2>2, <4>1
      <4>3. QED
        BY <4>1, <4>2
    <3>2. /\ F[k] = c.fkeys[k] /\ T[k] = c.tables[k] /\ T[k + 1] = c.tables[k + 1]
      BY <1>5, <1>6, <3>1
    <3>3. QED
      BY <3>1, <3>2 DEF IsPath
  <2>3. QED
    BY <2>1, <2>2
<1>10. QED
  BY <1>3, <1>4, <1>5, <1>6, <1>7, <1>8, <1>9 DEF IsPath, Last

(***************************************************************************)
(* Joins are paths.                                                        *)
(***************************************************************************)

\* A walk, and what it found, belong to a query.
Owned == pc # "idle" \/ (\E t \in Tables : joins[t] # {}) => queries # <<>>

Inv == TypeOK /\ Owned /\ JoinsArePaths

LEMMA InitInv == Init => Inv
  BY DEF Init, Inv, TypeOK, Owned, JoinsArePaths

\* What the two loops share: chains to s, extended by a foreign key between s and t,
\* are added to the chains to t.
LEMMA WalkInv ==
  ASSUME Inv, NEW s \in Tables, NEW t \in Tables, NEW i \in Fkeys,
         {s, t} = {From(i), To(i)}, pc # "idle",
         joins' = [joins EXCEPT ![t] = @ \cup Extended(joins[s], i, t)],
         visited' = visited \cup {i}, toVisit' \in SUBSET Fkeys,
         UNCHANGED <<catalog, queries, saved, pc>>
  PROVE  Inv'
<1>1. TypeOK /\ Owned /\ JoinsArePaths
  BY DEF Inv
<1>2. Fkeys' = Fkeys
  BY DEF Fkeys
<1>3. joins \in [Tables -> SUBSET Chain] /\ joins[s] \in SUBSET Chain
  BY <1>1 DEF TypeOK
<1>4. Extended(joins[s], i, t) \in SUBSET Chain
  BY <1>1, <1>3, EndsType, ExtendedType
<1>5. TypeOK'
  BY <1>1, <1>2, <1>3, <1>4 DEF TypeOK
<1>6. Owned'
  BY <1>1 DEF Owned
<1>7. \A c \in Extended(joins[s], i, t) : IsPath(c, Last(queries).base, t)
  BY <1>1, <1>3, ExtendedPath DEF JoinsArePaths
<1>8. \A u \in Tables : \A c \in joins'[u] : IsPath(c, Last(queries).base, u)
  BY <1>1, <1>3, <1>7 DEF JoinsArePaths
<1>9. \A c, base, u : IsPath(c, base, u)' = IsPath(c, base, u)
  BY DEF IsPath, Fkeys, From, To, Last
<1>10. JoinsArePaths'
  BY <1>1, <1>8, <1>9 DEF JoinsArePaths, Last
<1>11. QED
  BY <1>5, <1>6, <1>10 DEF Inv

LEMMA UpInv == ASSUME Inv, NEW i \in toVisit, Up(i) PROVE Inv'
<1>1. i \in Fkeys /\ toVisit \in SUBSET Fkeys
  BY DEF Inv, TypeOK
<1>2. From(i) \in Tables /\ To(i) \in Tables
  BY <1>1, EndsType DEF Inv
<1>3. toVisit' \in SUBSET Fkeys
  BY <1>1 DEF Up, ReferencedBy
<1>4. QED
  BY <1>1, <1>2, <1>3, WalkInv DEF Up

LEMMA DownInv == ASSUME Inv, NEW i \in toVisit, Down(i) PROVE Inv'
<1>1. i \in Fkeys /\ toVisit \in SUBSET Fkeys
  BY DEF Inv, TypeOK
<1>2. From(i) \in Tables /\ To(i) \in Tables
  BY <1>1, EndsType DEF Inv
<1>3. toVisit' \in SUBSET Fkeys
  BY <1>1 DEF Down, ConstraintsOf
<1>4. QED
  BY <1>1, <1>2, <1>3, WalkInv DEF Down

\* A new query starts with the path that does not leave its base; those before keep
\* their numbers.
LEMMA SubsetInv ==
  ASSUME Inv, NEW b \in Tables, NEW x \in BOOLEAN, Subset(b, x)
  PROVE  Inv'
<1>1. TypeOK /\ JoinsArePaths
  BY DEF Inv
<1>2. DEFINE q == [base |-> b, extended |-> x]
             start == [tables |-> <<b>>, fkeys |-> <<>>]
             Q == [base : Tables, extended : BOOLEAN]
<1>3. /\ queries \in Seq(Q) /\ q \in Q /\ queries' = Append(queries, q)
      /\ saved \in [Tables -> SUBSET [query : DOMAIN queries, chain : Chain]]
  BY <1>1 DEF Subset, TypeOK
<1>4. /\ queries' \in Seq(Q) /\ Len(queries') = Len(queries) + 1 /\ Len(queries) \in Nat
      /\ queries'[Len(queries) + 1] = q
      /\ \A n \in 1 .. Len(queries) : queries'[n] = queries[n]
  BY <1>3, AppendProperties
<1>5. DOMAIN queries = 1 .. Len(queries) /\ DOMAIN queries' = 1 .. Len(queries) + 1
  BY <1>3, <1>4
<1>6. DOMAIN queries \subseteq DOMAIN queries'
  BY <1>4, <1>5
<1>7. start \in Chain /\ joins' = [u \in Tables |-> IF u = b THEN {start} ELSE {}]
  BY DEF Chain, Subset
<1>8. FirstVisit(b, x) \in SUBSET Fkeys
  BY DEF FirstVisit, ReferencedBy, ConstraintsOf
<1>9. TypeOK'
  <2>1. saved' \in [Tables -> SUBSET [query : DOMAIN queries', chain : Chain]]
    BY <1>3, <1>6 DEF Subset
  <2>2. joins' \in [Tables -> SUBSET Chain]
    BY <1>7
  <2>3. toVisit' \in SUBSET Fkeys' /\ visited' \in SUBSET Fkeys'
    BY <1>8 DEF Subset, Fkeys
  <2>4. QED
    BY <1>1, <1>4, <2>1, <2>2, <2>3 DEF TypeOK, Subset
<1>10. Owned'
  <2>1. queries' # <<>>
    BY <1>4
  <2>2. QED
    BY <2>1 DEF Owned
<1>11. \A c, base, u : IsPath(c, base, u)' = IsPath(c, base, u)
  BY DEF IsPath, Fkeys, From, To, Last, Subset
<1>12. IsPath(start, b, b)
  BY DEF IsPath, Last
<1>13. JoinsArePaths'
  <2>1. Last(queries') = q
    BY <1>4 DEF Last
  <2>2. \A u \in Tables : \A c \in joins'[u] : IsPath(c, Last(queries').base, u)
    BY <1>7, <1>12, <2>1
  <2>3. ASSUME NEW u \in Tables, NEW j \in saved[u]
        PROVE  IsPath(j.chain, queries'[j.query].base, u)
    <3>1. j.query \in 1 .. Len(queries)
      BY <1>3, <1>5
    <3>2. queries'[j.query] = queries[j.query]
      BY <1>4, <3>1
    <3>3. QED
      BY <1>1, <3>2 DEF JoinsArePaths
  <2>4. saved' = saved
    BY DEF Subset
  <2>5. QED
    BY <1>11, <2>2, <2>3, <2>4 DEF JoinsArePaths, Last
<1>14. QED
  BY <1>9, <1>10, <1>13 DEF Inv

\* The chains that are saved are those to the last query, which exists.
LEMMA FinishInv == ASSUME Inv, Finish PROVE Inv'
<1>1. TypeOK /\ Owned /\ JoinsArePaths
  BY DEF Inv
<1>2. DEFINE n == Len(queries)
             New(t) == {[query |-> n, chain |-> c] : c \in joins[t]}
<1>3. /\ queries \in Seq([base : Tables, extended : BOOLEAN]) /\ queries # <<>>
      /\ joins \in [Tables -> SUBSET Chain]
      /\ saved \in [Tables -> SUBSET [query : DOMAIN queries, chain : Chain]]
  BY <1>1 DEF TypeOK, Owned, Finish
<1>4. n \in DOMAIN queries
  BY <1>3
<1>5. saved' = [t \in Tables |-> saved[t] \cup New(t)]
  BY DEF Finish
<1>6. \A t \in Tables : New(t) \in SUBSET [query : DOMAIN queries, chain : Chain]
  BY <1>3, <1>4
<1>7. saved' \in [Tables -> SUBSET [query : DOMAIN queries, chain : Chain]]
  BY <1>3, <1>5, <1>6
<1>8. TypeOK'
  BY <1>1, <1>7 DEF TypeOK, Finish, Fkeys
<1>9. Owned'
  BY <1>3 DEF Owned, Finish
<1>10. \A c, base, u : IsPath(c, base, u)' = IsPath(c, base, u)
  BY DEF IsPath, Fkeys, From, To, Last, Finish
<1>11. ASSUME NEW t \in Tables, NEW j \in saved'[t]
       PROVE  IsPath(j.chain, queries[j.query].base, t)
  <2>1. j \in saved[t] \/ j \in New(t)
    BY <1>5, <1>11
  <2>2. CASE j \in saved[t]
    BY <1>1, <2>2 DEF JoinsArePaths
  <2>3. CASE j \in New(t)
    BY <1>1, <2>3 DEF JoinsArePaths, Last
  <2>4. QED
    BY <2>1, <2>2, <2>3
<1>12. JoinsArePaths'
  BY <1>1, <1>10, <1>11 DEF JoinsArePaths, Finish, Last
<1>13. QED
  BY <1>8, <1>9, <1>12 DEF Inv

\* The steps that leave the chains alone.
LEMMA RestInv ==
  ASSUME Inv, (\E i \in toVisit : Skip(i)) \/ Turn \/ UNCHANGED vars
  PROVE  Inv'
<1>1. /\ UNCHANGED <<catalog, queries, saved, joins>>
      /\ toVisit' \in SUBSET Fkeys /\ visited' = visited
      /\ pc' \in {"idle", "up", "down"} /\ (pc = "idle" => pc' = "idle")
  BY DEF Inv, TypeOK, Skip, Turn, vars, ConstraintsOf
<1>2. TypeOK' /\ Owned'
  BY <1>1 DEF Inv, TypeOK, Owned, Fkeys
<1>3. \A c, base, u : IsPath(c, base, u)' = IsPath(c, base, u)
  BY <1>1 DEF IsPath, Fkeys, From, To, Last
<1>4. JoinsArePaths'
  BY <1>1, <1>3 DEF Inv, JoinsArePaths, Last
<1>5. QED
  BY <1>2, <1>4 DEF Inv

LEMMA NextInv == Inv /\ [Next]_vars => Inv'
  BY UpInv, DownInv, SubsetInv, FinishInv, RestInv DEF Next, Walk

LEMMA Invariance == Spec => []Inv
  BY InitInv, NextInv, PTL DEF Spec

\* For every catalog and any queries, the walk only ever visits foreign keys of the
\* catalog, and what it saves belongs to a query that was made.
THEOREM SubsetterTypeCorrect == Spec => []TypeOK
<1>1. Inv => TypeOK
  BY DEF Inv
<1>2. QED
  BY <1>1, Invariance, PTL

\* For every catalog, with cycles, self references and several foreign keys between
\* the same tables, and any queries, the chains toSQL is given are paths of foreign
\* keys from the query's base table to the table they are kept for, and visit no
\* table twice.
THEOREM ChainsArePaths == Spec => []JoinsArePaths
<1>1. Inv => JoinsArePaths
  BY DEF Inv
<1>2. QED
  BY <1>1, Invariance, PTL

(***************************************************************************)
(* What chains select.                                                     *)
(***************************************************************************)

\* A set of numbers has a least one.
LEMMA Least ==
  ASSUME NEW T, T \subseteq Nat, T # {}
  PROVE  \E n \in T : \A m \in T : ~(m < n)
<1> DEFINE R == {ss \in Nat \X Nat : ss[1] < ss[2]}
<1>1. IsWellFoundedOn(OpToRel(<, Nat), Nat)
  BY NatLessThanWellFounded
<1>2. OpToRel(<, Nat) = R
  BY DEF OpToRel
<1>3. IsWellFoundedOn(R, Nat)
  BY <1>1, <1>2
<1> HIDE DEF R
<1>4. \E n \in T : \A m \in T : ~(<<m, n>> \in R)
  BY <1>3, WFMin
<1>5. QED
  BY <1>4 DEF R

\* Steps can be taken one after the other.
Iterates(f, D, s, n, step) ==
  f \in [0 .. n -> D] /\ f[0] = s /\ \A k \in 1 .. n : f[k] = step[k][f[k - 1]]

LEMMA Iterated ==
  ASSUME NEW D, NEW s \in D, NEW n \in Nat, NEW step \in [Nat -> [D -> D]]
  PROVE  \E f : Iterates(f, D, s, n, step)
<1> DEFINE Is(f, m) ==
             f \in [0 .. m -> D] /\ f[0] = s /\ \A k \in 1 .. m : f[k] = step[k][f[k - 1]]
           T == {m \in Nat : ~\E f : Is(f, m)}
<1>1. SUFFICES ASSUME T # {} PROVE FALSE
  BY <1>1 DEF Iterates
<1>2. PICK m \in T : \A k \in T : ~(k < m)
  BY <1>1, Least
<1>3. m # 0
  <2>1. Is([k \in 0 .. 0 |-> s], 0)
    OBVIOUS
  <2>2. QED
    BY <2>1
<1>4. m - 1 \in Nat /\ m - 1 \notin T
  <2>1. m - 1 \in Nat /\ m - 1 < m
    BY <1>3
  <2> HIDE DEF T
  <2>2. QED
    BY <1>2, <2>1
<1>5. PICK f : Is(f, m - 1)
  BY <1>4
<1> DEFINE g == [k \in 0 .. m |-> IF k = m THEN step[m][f[m - 1]] ELSE f[k]]
<1>6. f[m - 1] \in D /\ step[m][f[m - 1]] \in D
  BY <1>4, <1>5
<1>7. Is(g, m)
  <2>1. g \in [0 .. m -> D]
    BY <1>4, <1>5, <1>6
  <2>2. g[0] = s
    BY <1>3, <1>4, <1>5
  <2>3. ASSUME NEW k \in 1 .. m PROVE g[k] = step[k][g[k - 1]]
    <3>1. g[k - 1] = f[k - 1]
      OBVIOUS
    <3>2. CASE k = m
      BY <3>1, <3>2
    <3>3. CASE k # m
      BY <1>4, <1>5, <3>1, <3>3
    <3>4. QED
      BY <3>2, <3>3
  <2>4. QED
    BY <2>1, <2>2, <2>3
<1>8. QED
  BY <1>2, <1>7

\* The rows that a chain selects, table by table.
Joins(ref, c, S, u) ==
  /\ u \in [1 .. Len(c.tables) -> SUBSET Rows] /\ u[1] = S
  /\ \A k \in 1 .. Len(c.tables) - 1 :
       u[k + 1] = Joined(ref, c.fkeys[k], c.tables[k + 1], u[k])

LEMMA JoinedRows ==
  ASSUME NEW ref \in Contents, NEW i \in Fkeys, NEW t, NEW S \in SUBSET Rows
  PROVE  Joined(ref, i, t, S) \in SUBSET Rows
<1>1. ref[i] \in [Rows -> Rows \cup {Null}]
  BY SubsetterAssumption DEF Contents
<1>2. QED
  BY <1>1 DEF Joined

LEMMA SelectedRows ==
  ASSUME NEW ref \in Contents, NEW c \in Chain, Len(c.tables) = Len(c.fkeys) + 1,
         \A k \in DOMAIN c.fkeys : c.fkeys[k] \in Fkeys, NEW S \in SUBSET Rows
  PROVE  \E u : Joins(ref, c, S, u) /\ Selected(ref, c, S) = u[Len(c.tables)]
<1> DEFINE n == Len(c.fkeys)
           step == [k \in Nat |-> [X \in SUBSET Rows |->
                      IF k \in 1 .. n THEN Joined(ref, c.fkeys[k], c.tables[k + 1], X) ELSE X]]
           Is(u) == u = [k \in 1 .. Len(c.tables) |->
                      IF k = 1 THEN S ELSE Joined(ref, c.fkeys[k - 1], c.tables[k], u[k - 1])]
<1>1. n \in Nat /\ DOMAIN c.fkeys = 1 .. n /\ Len(c.tables) = n + 1
  BY DEF Chain
<1>2. step \in [Nat -> [SUBSET Rows -> SUBSET Rows]]
  <2>1. ASSUME NEW k \in Nat, NEW X \in SUBSET Rows
        PROVE  (IF k \in 1 .. n THEN Joined(ref, c.fkeys[k], c.tables[k + 1], X) ELSE X)
                 \in SUBSET Rows
    BY <1>1, JoinedRows
  <2>2. QED
    BY <2>1
<1>3. PICK f : Iterates(f, SUBSET Rows, S, n, step)
  <2> DEFINE D == SUBSET Rows
  <2> HIDE DEF step, n
  <2>1. S \in D /\ n \in Nat /\ step \in [Nat -> [D -> D]]
    BY <1>1, <1>2
  <2> HIDE DEF D
  <2>2. \E f : Iterates(f, D, S, n, step)
    BY <2>1, Iterated
  <2>3. QED
    BY <2>2 DEF D
<1>4. ASSUME NEW k \in 1 .. n
      PROVE  f[k] = Joined(ref, c.fkeys[k], c.tables[k + 1], f[k - 1])
  <2>1. f[k - 1] \in SUBSET Rows /\ k \in Nat
    BY <1>1, <1>3 DEF Iterates
  <2>2. step[k][f[k - 1]] = Joined(ref, c.fkeys[k], c.tables[k + 1], f[k - 1])
    BY <2>1
  <2>3. QED
    BY <1>3, <2>2 DEF Iterates
<1> HIDE DEF step
<1> DEFINE g == [k \in 1 .. Len(c.tables) |-> f[k - 1]]
<1>5. Is(g)
  <2>1. ASSUME NEW k \in 1 .. Len(c.tables)
        PROVE  f[k - 1] =
                 IF k = 1 THEN S ELSE Joined(ref, c.fkeys[k - 1], c.tables[k], g[k - 1])
    <3>1. CASE k = 1
      BY <1>3, <3>1 DEF Iterates
    <3>2. CASE k # 1
      <4>1. k - 1 \in 1 .. n /\ (k - 1) + 1 = k /\ k - 1 \in 1 .. Len(c.tables)
        BY <1>1, <3>2
      <4>2. g[k - 1] = f[(k - 1) - 1]
        BY <4>1
      <4>3. QED
        BY <1>4, <3>2, <4>1, <4>2
    <3>3. QED
      BY <3>1, <3>2
  <2>2. QED
    BY <2>1
<1> DEFINE u == CHOOSE h : Is(h)
<1>6. Is(u)
  BY <1>5
<1>7. Selected(ref, c, S) = u[Len(c.tables)]
  BY DEF Selected
<1> HIDE DEF u
<1>8. u[1] = S
  BY <1>1, <1>6
<1>9. ASSUME NEW k \in 1 .. Len(c.tables) - 1
      PROVE  u[k + 1] = Joined(ref, c.fkeys[k], c.tables[k + 1], u[k])
  BY <1>1, <1>6
<1>10. u \in [1 .. Len(c.tables) -> SUBSET Rows]
  <2> DEFINE Bad == {k \in 1 .. Len(c.tables) : u[k] \notin SUBSET Rows}
  <2>1. ASSUME Bad # {} PROVE FALSE
    <3>1. PICK k \in Bad : \A l \in Bad : ~(l < k)
      <4>1. Bad \subseteq Nat
        BY <1>1
      <4> HIDE DEF Bad
      <4>2. QED
        BY <2>1, <4>1, Least
    <3>2. k # 1
      BY <1>8, <3>1
    <3>3. k - 1 \in 1 .. n /\ k - 1 < k /\ k - 1 \in 1 .. Len(c.tables)
      BY <1>1, <3>1, <3>2
    <3>4. u[k - 1] \in SUBSET Rows
      BY <3>1, <3>3
    <3>5. u[k] = Joined(ref, c.fkeys[k - 1], c.tables[k], u[k - 1])
      BY <1>6, <3>1, <3>2
    <3>6. QED
      BY <1>1, <3>1, <3>3, <3>4, <3>5, JoinedRows
  <2>2. DOMAIN u = 1 .. Len(c.tables) /\ u = [k \in 1 .. Len(c.tables) |-> u[k]]
    BY <1>6
  <2>3. QED
    BY <2>1, <2>2
<1>11. QED
  BY <1>7, <1>8, <1>9, <1>10 DEF Joins

(***************************************************************************)
(* What closures contain.                                                  *)
(***************************************************************************)

Pairs == Tables \X Rows

Size == Cardinality(Tables) * Cardinality(Rows)

LEMMA SizeType == Size \in Nat
<1>1. Cardinality(Tables) \in Nat /\ Cardinality(Rows) \in Nat
  BY FS_CardinalityType, SubsetterAssumption
<1>2. QED
  BY <1>1 DEF Size

LEMMA InReferTo ==
  ASSUME NEW ref, NEW X, NEW x
  PROVE  x \in ReferTo(ref, X) <=>
           \E i \in Fkeys, r \in Rows : x = <<From(i), r>> /\ <<To(i), ref[i][r]>> \in X
<1>1. ASSUME x \in ReferTo(ref, X)
      PROVE  \E i \in Fkeys, r \in Rows : x = <<From(i), r>> /\ <<To(i), ref[i][r]>> \in X
  <2>1. PICK y \in Fkeys \X Rows : x = <<From(y[1]), y[2]>> /\ <<To(y[1]), ref[y[1]][y[2]]>> \in X
    BY <1>1 DEF ReferTo
  <2>2. y[1] \in Fkeys /\ y[2] \in Rows
    BY <2>1
  <2>3. QED
    BY <2>1, <2>2
<1>2. ASSUME NEW i \in Fkeys, NEW r \in Rows, x = <<From(i), r>>, <<To(i), ref[i][r]>> \in X
      PROVE  x \in ReferTo(ref, X)
  <2>1. <<i, r>> \in Fkeys \X Rows /\ <<i, r>>[1] = i /\ <<i, r>>[2] = r
    OBVIOUS
  <2>2. QED
    BY <1>2, <2>1 DEF ReferTo
<1>3. QED
  BY <1>1, <1>2

LEMMA InRefersTo ==
  ASSUME NEW ref, NEW X, NEW x
  PROVE  x \in RefersTo(ref, X) <=>
           \E i \in Fkeys, r \in Rows :
             x = <<To(i), ref[i][r]>> /\ ref[i][r] # Null /\ <<From(i), r>> \in X
<1>1. ASSUME x \in RefersTo(ref, X)
      PROVE  \E i \in Fkeys, r \in Rows :
               x = <<To(i), ref[i][r]>> /\ ref[i][r] # Null /\ <<From(i), r>> \in X
  <2>1. PICK y \in Fkeys \X Rows : /\ x = <<To(y[1]), ref[y[1]][y[2]]>> /\ x[2] # Null
                                  /\ <<From(y[1]), y[2]>> \in X
    BY <1>1 DEF RefersTo
  <2>2. y[1] \in Fkeys /\ y[2] \in Rows /\ x[2] = ref[y[1]][y[2]]
    BY <2>1
  <2>3. QED
    BY <2>1, <2>2
<1>2. ASSUME NEW i \in Fkeys, NEW r \in Rows, x = <<To(i), ref[i][r]>>, ref[i][r] # Null,
             <<From(i), r>> \in X
      PROVE  x \in RefersTo(ref, X)
  <2>1. <<i, r>> \in Fkeys \X Rows /\ <<i, r>>[1] = i /\ <<i, r>>[2] = r /\ x[2] = ref[i][r]
    BY <1>2
  <2>2. QED
    BY <1>2, <2>1 DEF RefersTo
<1>3. QED
  BY <1>1, <1>2

LEMMA EndPairs ==
  ASSUME TypeOK, NEW ref \in Contents, NEW X \in SUBSET Pairs
  PROVE  RefersTo(ref, X) \in SUBSET Pairs /\ ReferTo(ref, X) \in SUBSET Pairs
<1>1. \A i \in Fkeys : ref[i] \in [Rows -> Rows \cup {Null}]
  BY SubsetterAssumption DEF Contents
<1>2. \A i \in Fkeys : From(i) \in Tables /\ To(i) \in Tables
  BY EndsType
<1>3. ASSUME NEW x \in RefersTo(ref, X) PROVE x \in Pairs
  <2>1. PICK i \in Fkeys, r \in Rows :
          x = <<To(i), ref[i][r]>> /\ ref[i][r] # Null /\ <<From(i), r>> \in X
    BY <1>3, InRefersTo
  <2>2. To(i) \in Tables /\ ref[i][r] \in Rows
    BY <1>1, <1>2, <2>1
  <2>3. QED
    BY <2>1, <2>2 DEF Pairs
<1>4. ASSUME NEW x \in ReferTo(ref, X) PROVE x \in Pairs
  <2>1. PICK i \in Fkeys, r \in Rows : x = <<From(i), r>> /\ <<To(i), ref[i][r]>> \in X
    BY <1>4, InReferTo
  <2>2. From(i) \in Tables
    BY <1>2
  <2>3. QED
    BY <2>1, <2>2 DEF Pairs
<1>5. QED
  BY <1>3, <1>4

Steps(v, S) == v \in [0 .. Size -> SUBSET Pairs] /\ v[0] = S

LEMMA ClosureUp ==
  ASSUME TypeOK, NEW ref \in Contents, NEW S \in SUBSET Pairs
  PROVE  \E v : /\ Steps(v, S) /\ Closure(ref, S, ReferTo) = v[Size]
                /\ \A k \in 1 .. Size : v[k] = v[k - 1] \cup ReferTo(ref, v[k - 1])
<1> DEFINE step == [k \in Nat |-> [X \in SUBSET Pairs |-> X \cup ReferTo(ref, X)]]
           Is(v) == v = [k \in 0 .. Size |->
                      IF k = 0 THEN S ELSE v[k - 1] \cup ReferTo(ref, v[k - 1])]
<1>1. ASSUME NEW X \in SUBSET Pairs
      PROVE  X \cup ReferTo(ref, X) \in SUBSET Pairs
  BY EndPairs
<1>2. step \in [Nat -> [SUBSET Pairs -> SUBSET Pairs]]
  BY <1>1
<1>3. PICK f : Iterates(f, SUBSET Pairs, S, Size, step)
  <2> DEFINE D == SUBSET Pairs
  <2> HIDE DEF step
  <2>1. S \in D /\ Size \in Nat /\ step \in [Nat -> [D -> D]]
    BY <1>2, SizeType
  <2> HIDE DEF D
  <2>2. \E f : Iterates(f, D, S, Size, step)
    BY <2>1, Iterated
  <2>3. QED
    BY <2>2 DEF D
<1>4. ASSUME NEW k \in 1 .. Size
      PROVE  f[k] = f[k - 1] \cup ReferTo(ref, f[k - 1])
  <2>1. f[k - 1] \in SUBSET Pairs /\ k \in Nat
    BY <1>3, SizeType DEF Iterates
  <2>2. step[k][f[k - 1]] = f[k - 1] \cup ReferTo(ref, f[k - 1])
    BY <2>1
  <2>3. QED
    BY <1>3, <2>2 DEF Iterates
<1> HIDE DEF step
<1>5. Is(f)
  <2>1. ASSUME NEW k \in 0 .. Size
        PROVE  f[k] = IF k = 0 THEN S ELSE f[k - 1] \cup ReferTo(ref, f[k - 1])
    BY <1>3, <1>4, SizeType DEF Iterates
  <2>2. f = [k \in 0 .. Size |-> f[k]]
    BY <1>3 DEF Iterates
  <2>3. QED
    BY <2>1, <2>2
<1> DEFINE v == CHOOSE h : Is(h)
<1>6. Is(v)
  BY <1>5
<1>7. Closure(ref, S, ReferTo) = v[Size]
  BY DEF Closure, Size
<1> HIDE DEF v
<1>8. v[0] = S
  BY <1>6, SizeType
<1>9. ASSUME NEW k \in 1 .. Size
      PROVE  v[k] = v[k - 1] \cup ReferTo(ref, v[k - 1])
  <2>1. k \in 0 .. Size /\ k # 0
    BY SizeType
  <2>2. QED
    BY <1>6, <2>1
<1>10. v \in [0 .. Size -> SUBSET Pairs]
  <2> DEFINE Bad == {k \in 0 .. Size : v[k] \notin SUBSET Pairs}
  <2>1. ASSUME Bad # {} PROVE FALSE
    <3>1. PICK k \in Bad : \A l \in Bad : ~(l < k)
      <4>1. Bad \subseteq Nat
        BY SizeType
      <4> HIDE DEF Bad
      <4>2. QED
        BY <2>1, <4>1, Least
    <3>2. k \in 1 .. Size /\ k - 1 < k /\ k - 1 \in 0 .. Size
      BY <1>8, <3>1, SizeType
    <3>3. v[k - 1] \in SUBSET Pairs
      BY <3>1, <3>2
    <3>4. QED
      BY <1>1, <1>9, <3>1, <3>2, <3>3
  <2>2. DOMAIN v = 0 .. Size /\ v = [k \in 0 .. Size |-> v[k]]
    BY <1>6
  <2>3. QED
    BY <2>1, <2>2
<1>11. QED
  BY <1>7, <1>8, <1>9, <1>10 DEF Steps

LEMMA ClosureDown ==
  ASSUME TypeOK, NEW ref \in Contents, NEW S \in SUBSET Pairs
  PROVE  \E v : /\ Steps(v, S) /\ Closure(ref, S, RefersTo) = v[Size]
                /\ \A k \in 1 .. Size : v[k] = v[k - 1] \cup RefersTo(ref, v[k - 1])
<1> DEFINE step == [k \in Nat |-> [X \in SUBSET Pairs |-> X \cup RefersTo(ref, X)]]
           Is(v) == v = [k \in 0 .. Size |->
                      IF k = 0 THEN S ELSE v[k - 1] \cup RefersTo(ref, v[k - 1])]
<1>1. ASSUME NEW X \in SUBSET Pairs
      PROVE  X \cup RefersTo(ref, X) \in SUBSET Pairs
  BY EndPairs
<1>2. step \in [Nat -> [SUBSET Pairs -> SUBSET Pairs]]
  BY <1>1
<1>3. PICK f : Iterates(f, SUBSET Pairs, S, Size, step)
  <2> DEFINE D == SUBSET Pairs
  <2> HIDE DEF step
  <2>1. S \in D /\ Size \in Nat /\ step \in [Nat -> [D -> D]]
    BY <1>2, SizeType
  <2> HIDE DEF D
  <2>2. \E f : Iterates(f, D, S, Size, step)
    BY <2>1, Iterated
  <2>3. QED
    BY <2>2 DEF D
<1>4. ASSUME NEW k \in 1 .. Size
      PROVE  f[k] = f[k - 1] \cup RefersTo(ref, f[k - 1])
  <2>1. f[k - 1] \in SUBSET Pairs /\ k \in Nat
    BY <1>3, SizeType DEF Iterates
  <2>2. step[k][f[k - 1]] = f[k - 1] \cup RefersTo(ref, f[k - 1])
    BY <2>1
  <2>3. QED
    BY <1>3, <2>2 DEF Iterates
<1> HIDE DEF step
<1>5. Is(f)
  <2>1. ASSUME NEW k \in 0 .. Size
        PROVE  f[k] = IF k = 0 THEN S ELSE f[k - 1] \cup RefersTo(ref, f[k - 1])
    BY <1>3, <1>4, SizeType DEF Iterates
  <2>2. f = [k \in 0 .. Size |-> f[k]]
    BY <1>3 DEF Iterates
  <2>3. QED
    BY <2>1, <2>2
<1> DEFINE v == CHOOSE h : Is(h)
<1>6. Is(v)
  BY <1>5
<1>7. Closure(ref, S, RefersTo) = v[Size]
  BY DEF Closure, Size
<1> HIDE DEF v
<1>8. v[0] = S
  BY <1>6, SizeType
<1>9. ASSUME NEW k \in 1 .. Size
      PROVE  v[k] = v[k - 1] \cup RefersTo(ref, v[k - 1])
  <2>1. k \in 0 .. Size /\ k # 0
    BY SizeType
  <2>2. QED
    BY <1>6, <2>1
<1>10. v \in [0 .. Size -> SUBSET Pairs]
  <2> DEFINE Bad == {k \in 0 .. Size : v[k] \notin SUBSET Pairs}
  <2>1. ASSUME Bad # {} PROVE FALSE
    <3>1. PICK k \in Bad : \A l \in Bad : ~(l < k)
      <4>1. Bad \subseteq Nat
        BY SizeType
      <4> HIDE DEF Bad
      <4>2. QED
        BY <2>1, <4>1, Least
    <3>2. k \in 1 .. Size /\ k - 1 < k /\ k - 1 \in 0 .. Size
      BY <1>8, <3>1, SizeType
    <3>3. v[k - 1] \in SUBSET Pairs
      BY <3>1, <3>2
    <3>4. QED
      BY <1>1, <1>9, <3>1, <3>2, <3>3
  <2>2. DOMAIN v = 0 .. Size /\ v = [k \in 0 .. Size |-> v[k]]
    BY <1>6
  <2>3. QED
    BY <2>1, <2>2
<1>11. QED
  BY <1>7, <1>8, <1>9, <1>10 DEF Steps

(***************************************************************************)
(* What chains select is needed.                                           *)
(***************************************************************************)

\* A chain goes up m foreign keys and then down the others.
Rises(c, k) == c.tables[k] = To(c.fkeys[k]) /\ c.tables[k + 1] = From(c.fkeys[k])

Falls(c, k) == c.tables[k] = From(c.fkeys[k]) /\ c.tables[k + 1] = To(c.fkeys[k])

Turns(c, m) == \A k \in DOMAIN c.fkeys : (k <= m => Rises(c, k)) /\ (~(k <= m) => Falls(c, k))

Directed(c, q) == \E m \in 0 .. Len(c.fkeys) : Turns(c, m) /\ (q.extended \/ m = 0)

\* A set that grows contains what it did.
LEMMA Grows ==
  ASSUME NEW N \in Nat, NEW v, \A k \in 1 .. N : v[k - 1] \subseteq v[k],
         NEW m \in 0 .. N, NEW n \in 0 .. N, m <= n
  PROVE  v[m] \subseteq v[n]
<1> DEFINE Bad == {k \in m .. n : ~(v[m] \subseteq v[k])}
<1>1. ASSUME Bad # {} PROVE FALSE
  <2>1. PICK k \in Bad : \A l \in Bad : ~(l < k)
    <3>1. Bad \subseteq Nat
      OBVIOUS
    <3> HIDE DEF Bad
    <3>2. QED
      BY <1>1, <3>1, Least
  <2>2. k \in m .. n /\ ~(v[m] \subseteq v[k])
    OBVIOUS
  <2>3. k # m
    BY <2>2
  <2>4. k - 1 \in m .. n /\ k - 1 < k /\ k \in 1 .. N
    BY <2>2, <2>3
  <2>5. v[m] \subseteq v[k - 1]
    BY <2>1, <2>4
  <2> HIDE DEF Bad
  <2>6. QED
    BY <2>2, <2>4, <2>5
<1>2. n \in m .. n
  OBVIOUS
<1>3. QED
  BY <1>1, <1>2

\* So does what a query has found.
LEMMA StepsGrow ==
  ASSUME NEW v, NEW S, Steps(v, S), \A k \in 1 .. Size : v[k - 1] \subseteq v[k],
         NEW k \in 0 .. Size
  PROVE  v[k] \subseteq v[Size]
<1>1. Size \in Nat /\ Size \in 0 .. Size /\ k <= Size
  BY SizeType
<1>2. QED
  BY <1>1, Grows

\* Paths are no longer than there are tables.
LEMMA PathLength ==
  ASSUME TypeOK, NEW c \in Chain, NEW base, NEW t, IsPath(c, base, t), Rows # {}
  PROVE  Len(c.tables) <= Size
<1> DEFINE n == Len(c.tables)
<1>1. c.tables \in Seq(Tables) /\ n \in Nat /\ DOMAIN c.tables = 1 .. n
  BY DEF Chain
<1>2. IsFiniteSet(1 .. n) /\ Cardinality(1 .. n) = n
  BY <1>1, FS_Interval
<1>3. c.tables \in Injection(1 .. n, Tables)
  BY <1>1 DEF IsPath, Injection, IsInjective
<1>4. n <= Cardinality(Tables)
  BY <1>2, <1>3, FS_Injection, SubsetterAssumption
<1>5. Cardinality(Tables) \in Nat /\ Cardinality(Rows) \in Nat
  BY FS_CardinalityType, SubsetterAssumption
<1>6. Cardinality(Rows) # 0
  BY FS_EmptySet, SubsetterAssumption
<1>7. \A x \in Nat, y \in Nat \ {0} : x <= x * y
  OBVIOUS
<1>8. Cardinality(Tables) <= Size
  BY <1>5, <1>6, <1>7 DEF Size
<1>9. QED
  BY <1>1, <1>4, <1>5, <1>8, SizeType

LEMMA JoinedUp ==
  ASSUME NEW ref, NEW i \in Fkeys, NEW A, NEW X, {To(i)} \X A \subseteq X
  PROVE  {From(i)} \X Joined(ref, i, From(i), A) \subseteq ReferTo(ref, X)
<1>1. SUFFICES ASSUME NEW r \in Rows, ref[i][r] \in A
               PROVE  <<From(i), r>> \in ReferTo(ref, X)
  BY DEF Joined
<1>2. <<To(i), ref[i][r]>> \in X
  BY <1>1
<1>3. QED
  BY <1>2, InReferTo

LEMMA JoinedDown ==
  ASSUME NEW ref, NEW i \in Fkeys, From(i) # To(i), NEW A \in SUBSET Rows, NEW X,
         {From(i)} \X A \subseteq X
  PROVE  {To(i)} \X Joined(ref, i, To(i), A) \subseteq RefersTo(ref, X)
<1>1. SUFFICES ASSUME NEW r \in A, ref[i][r] # Null
               PROVE  <<To(i), ref[i][r]>> \in RefersTo(ref, X)
  BY DEF Joined
<1>2. <<From(i), r>> \in X /\ r \in Rows
  BY <1>1
<1>3. QED
  BY <1>1, <1>2, InRefersTo

\* The rows that a chain selects are needed.
LEMMA SelectedNeeded ==
  ASSUME TypeOK, NEW ref \in Contents, NEW c \in Chain, NEW q, q.base \in Tables, NEW t,
         IsPath(c, q.base, t), Directed(c, q), NEW S \in SUBSET Rows,
         NEW r \in Selected(ref, c, S)
  PROVE  <<t, r>> \in Needed(ref, q, S)
<1> DEFINE n == Len(c.tables)
           start == {q.base} \X S
           middle == IF q.extended THEN Closure(ref, start, ReferTo) ELSE start
<1>1. /\ n \in Nat /\ n >= 1 /\ n = Len(c.fkeys) + 1 /\ Len(c.fkeys) \in Nat
      /\ DOMAIN c.fkeys = 1 .. n - 1 /\ DOMAIN c.tables = 1 .. n
      /\ c.tables[1] = q.base /\ c.tables[n] = t
      /\ \A k \in 1 .. n - 1 : c.fkeys[k] \in Fkeys /\ c.tables[k] # c.tables[k + 1]
  BY DEF IsPath, Last, Chain
<1>2. PICK u : Joins(ref, c, S, u) /\ Selected(ref, c, S) = u[n]
  BY <1>1, SelectedRows
<1>3. PICK m \in 0 .. n - 1 : Turns(c, m) /\ (q.extended \/ m = 0)
  BY <1>1 DEF Directed
<1>4. \A k \in 1 .. n : u[k] \in SUBSET Rows
  BY <1>2 DEF Joins
<1>5. n <= Size
  <2>1. r \in Rows
    BY <1>1, <1>2, <1>4
  <2>2. QED
    BY <2>1, PathLength
<1>6. start \in SUBSET Pairs
  BY DEF Pairs
<1>7. {c.tables[m + 1]} \X u[m + 1] \subseteq middle /\ middle \in SUBSET Pairs
  <2>1. CASE ~q.extended
    <3>1. m + 1 = 1 /\ middle = start /\ u[1] = S
      BY <1>2, <1>3, <2>1 DEF Joins
    <3>2. QED
      BY <1>1, <1>6, <3>1
  <2>2. CASE q.extended
    <3>1. PICK v : /\ Steps(v, start) /\ Closure(ref, start, ReferTo) = v[Size]
                   /\ \A k \in 1 .. Size : v[k] = v[k - 1] \cup ReferTo(ref, v[k - 1])
      BY <1>6, ClosureUp
    <3> HIDE DEF start
    <3> DEFINE Bad == {k \in Nat : k <= m /\ ~({c.tables[k + 1]} \X u[k + 1] \subseteq v[k])}
    <3>2. ASSUME Bad # {} PROVE FALSE
      <4>1. PICK k \in Bad : \A l \in Bad : ~(l < k)
        <5>1. Bad \subseteq Nat
          OBVIOUS
        <5> HIDE DEF Bad
        <5>2. QED
          BY <3>2, <5>1, Least
      <4>2. k \in Nat /\ k <= m
        OBVIOUS
      <4>3. k # 0
        <5>1. {c.tables[1]} \X u[1] = v[0]
          BY <1>1, <1>2, <3>1 DEF Joins, Steps, start
        <5>2. ASSUME k = 0 PROVE k + 1 = 1 /\ v[k] = v[0]
          BY <5>2
        <5>3. QED
          BY <5>1, <5>2
      <4>4. /\ k \in 1 .. n - 1 /\ k \in 1 .. Size /\ (k - 1) + 1 = k /\ k <= m
            /\ k - 1 \in Nat /\ k - 1 < k /\ k - 1 <= m
        <5> HIDE DEF Bad, n
        <5>1. QED
          BY <1>1, <1>3, <1>5, <4>2, <4>3, SizeType
      <4>5. k - 1 \notin Bad
        <5> HIDE DEF Bad
        <5>1. QED
          BY <4>1, <4>4
      <4>6. {c.tables[k]} \X u[k] \subseteq v[k - 1]
        BY <4>4, <4>5
      <4>7. c.tables[k] = To(c.fkeys[k]) /\ c.tables[k + 1] = From(c.fkeys[k])
        BY <1>1, <1>3, <4>4 DEF Turns, Rises
      <4>8. u[k + 1] = Joined(ref, c.fkeys[k], c.tables[k + 1], u[k])
        BY <1>2, <4>4 DEF Joins
      <4>9. {c.tables[k + 1]} \X u[k + 1] \subseteq ReferTo(ref, v[k - 1])
        BY <1>1, <4>4, <4>6, <4>7, <4>8, JoinedUp
      <4>10. ~({c.tables[k + 1]} \X u[k + 1] \subseteq v[k])
        OBVIOUS
      <4>11. QED
        BY <3>1, <4>4, <4>9, <4>10
    <3>3. {c.tables[m + 1]} \X u[m + 1] \subseteq v[m]
      BY <1>3, <3>2
    <3>4. m \in 0 .. Size
      BY <1>1, <1>3, <1>5, SizeType
    <3>5. v[m] \subseteq v[Size]
      BY <3>1, <3>4, StepsGrow
    <3>6. v[Size] \in SUBSET Pairs
      BY <3>1, SizeType DEF Steps
    <3>7. QED
      BY <2>2, <3>1, <3>3, <3>5, <3>6
  <2>3. QED
    BY <2>1, <2>2
<1> HIDE DEF start
<1>8. Needed(ref, q, S) = Closure(ref, middle, RefersTo)
  BY DEF Needed, start
<1> HIDE DEF middle
<1>9. PICK w : /\ Steps(w, middle) /\ Closure(ref, middle, RefersTo) = w[Size]
               /\ \A k \in 1 .. Size : w[k] = w[k - 1] \cup RefersTo(ref, w[k - 1])
  BY <1>7, ClosureDown
<1> DEFINE Bad == {k \in Nat : /\ m + k + 1 <= n
                               /\ ~({c.tables[m + k + 1]} \X u[m + k + 1] \subseteq w[k])}
<1>10. ASSUME Bad # {} PROVE FALSE
  <2>1. PICK k \in Bad : \A l \in Bad : ~(l < k)
    <3>1. Bad \subseteq Nat
      OBVIOUS
    <3> HIDE DEF Bad
    <3>2. QED
      BY <1>10, <3>1, Least
  <2>2. k \in Nat /\ m + k + 1 <= n /\ ~({c.tables[m + k + 1]} \X u[m + k + 1] \subseteq w[k])
    OBVIOUS
  <2>3. k # 0
    <3>1. {c.tables[m + 1]} \X u[m + 1] \subseteq w[0]
      BY <1>7, <1>9 DEF Steps
    <3>2. ASSUME k = 0 PROVE m + k + 1 = m + 1 /\ w[k] = w[0]
      BY <1>3, <3>2
    <3>3. QED
      BY <2>2, <3>1, <3>2
  <2> DEFINE j == m + k
  <2>4. /\ j \in 1 .. n - 1 /\ k \in 1 .. Size /\ j > m /\ m + (k - 1) + 1 = j /\ m + k + 1 = j + 1
        /\ k - 1 \in Nat /\ k - 1 < k /\ m + (k - 1) + 1 <= n
    BY <1>1, <1>3, <1>5, <2>2, <2>3, SizeType
  <2>5. k - 1 \notin Bad
    <3> HIDE DEF Bad
    <3>1. QED
      BY <2>1, <2>4
  <2>6. {c.tables[j]} \X u[j] \subseteq w[k - 1]
    BY <2>4, <2>5
  <2> HIDE DEF j, Bad
  <2>7. c.tables[j] = From(c.fkeys[j]) /\ c.tables[j + 1] = To(c.fkeys[j])
    <3>1. j \in DOMAIN c.fkeys /\ ~(j <= m)
      BY <1>1, <1>3, <2>4
    <3>2. QED
      BY <1>3, <3>1 DEF Turns, Falls
  <2>8. u[j + 1] = Joined(ref, c.fkeys[j], c.tables[j + 1], u[j])
    BY <1>2, <2>4 DEF Joins
  <2>9. c.fkeys[j] \in Fkeys /\ From(c.fkeys[j]) # To(c.fkeys[j]) /\ u[j] \in SUBSET Rows
    BY <1>1, <1>4, <2>4, <2>7
  <2>10. {c.tables[j + 1]} \X u[j + 1] \subseteq RefersTo(ref, w[k - 1])
    BY <2>6, <2>7, <2>8, <2>9, JoinedDown
  <2>11. QED
    BY <1>9, <2>2, <2>4, <2>10
<1>11. n - 1 - m \in Nat /\ m + (n - 1 - m) + 1 = n /\ n - 1 - m \in 0 .. Size
  BY <1>1, <1>3, <1>5, SizeType
<1>12. {c.tables[n]} \X u[n] \subseteq w[n - 1 - m]
  <2> DEFINE k == n - 1 - m
  <2>1. k \in Nat /\ m + k + 1 = n /\ m + k + 1 <= n
    BY <1>1, <1>11
  <2>2. k \notin Bad
    <3> HIDE DEF Bad, k
    <3>1. QED
      BY <1>10
  <2> HIDE DEF k, n
  <2>3. {c.tables[m + k + 1]} \X u[m + k + 1] \subseteq w[k]
    BY <2>1, <2>2
  <2>4. QED
    BY <2>1, <2>3 DEF k
<1>13. w[n - 1 - m] \subseteq w[Size]
  BY <1>9, <1>11, StepsGrow
<1>14. QED
  BY <1>1, <1>2, <1>8, <1>9, <1>12, <1>13

(***************************************************************************)
(* Chains go up, then down.                                                *)
(***************************************************************************)

\* The first loop goes up only, and only for extended queries.
Headed ==
  /\ pc = "up" =>
       /\ Last(queries).extended
       /\ \A t \in Tables : \A c \in joins[t] : Turns(c, Len(c.fkeys))
  /\ \A t \in Tables :
       /\ \A c \in joins[t] : Directed(c, Last(queries))
       /\ \A j \in saved[t] : Directed(j.chain, queries[j.query])

With(c, i, t) == [tables |-> Append(c.tables, t), fkeys |-> Append(c.fkeys, i)]

LEMMA ExtendedTurns ==
  ASSUME TypeOK, NEW c \in Chain, NEW base, NEW s, NEW t \in Tables, NEW i \in Fkeys,
         IsPath(c, base, s), NEW m \in 0 .. Len(c.fkeys), Turns(c, m)
  PROVE  /\ Len(c.fkeys) \in Nat /\ Len(With(c, i, t).fkeys) = Len(c.fkeys) + 1
         /\ s = From(i) /\ t = To(i) => Turns(With(c, i, t), m)
         /\ s = To(i) /\ t = From(i) /\ m = Len(c.fkeys) =>
              Turns(With(c, i, t), Len(c.fkeys) + 1)
<1> DEFINE n == Len(c.tables)
           d == With(c, i, t)
<1>1. c.tables \in Seq(Tables) /\ c.fkeys \in Seq(Nat) /\ n \in Nat /\ Len(c.fkeys) \in Nat
  BY DEF Chain
<1>2. n = Len(c.fkeys) + 1 /\ n >= 1 /\ c.tables[n] = s
  BY <1>1 DEF IsPath, Last
<1>3. d.tables[n + 1] = t /\ \A k \in 1 .. n : d.tables[k] = c.tables[k]
  BY <1>1, AppendProperties DEF With
<1>4. /\ Len(d.fkeys) = n /\ DOMAIN d.fkeys = 1 .. n /\ d.fkeys[n] = i
      /\ \A k \in 1 .. n - 1 : d.fkeys[k] = c.fkeys[k]
  BY <1>1, <1>2, EndsType, AppendProperties DEF With
<1>5. ASSUME NEW k \in 1 .. n - 1
      PROVE  (k <= m => Rises(d, k)) /\ (~(k <= m) => Falls(d, k))
  <2>1. k \in DOMAIN c.fkeys /\ k \in 1 .. n /\ k + 1 \in 1 .. n
    BY <1>1, <1>2
  <2>2. /\ d.fkeys[k] = c.fkeys[k] /\ d.tables[k] = c.tables[k]
        /\ d.tables[k + 1] = c.tables[k + 1]
    BY <1>3, <1>4, <2>1
  <2>3. QED
    BY <2>1, <2>2 DEF Turns, Rises, Falls
<1>6. d.tables[n] = s /\ d.tables[n + 1] = t /\ d.fkeys[n] = i
  <2>1. n \in 1 .. n
    BY <1>1, <1>2
  <2>2. QED
    BY <1>2, <1>3, <1>4, <2>1
<1>7. \A k \in 1 .. n : k = n \/ k \in 1 .. n - 1
  BY <1>1
<1>8. ~(n <= m) /\ n <= n /\ \A k \in 1 .. n : k <= n
  BY <1>1, <1>2
<1> HIDE DEF n, d
<1>9. ASSUME s = From(i), t = To(i) PROVE Turns(d, m)
  <2>1. Falls(d, n)
    BY <1>6, <1>9 DEF Falls
  <2>2. QED
    BY <1>4, <1>5, <1>7, <1>8, <2>1 DEF Turns
<1>10. ASSUME s = To(i), t = From(i), m = Len(c.fkeys) PROVE Turns(d, n)
  <2>1. Rises(d, n)
    BY <1>6, <1>10 DEF Rises
  <2>2. \A k \in 1 .. n - 1 : k <= m
    BY <1>1, <1>2, <1>10
  <2>3. QED
    BY <1>4, <1>5, <1>7, <1>8, <2>1, <2>2 DEF Turns
<1>11. QED
  BY <1>1, <1>2, <1>4, <1>9, <1>10 DEF d

LEMMA InitHeaded == Init => Headed
  BY DEF Init, Headed

LEMMA UpHeaded == ASSUME Inv, Headed, NEW i \in toVisit, Up(i) PROVE Headed'
<1>1. TypeOK /\ JoinsArePaths /\ i \in Fkeys
  BY DEF Inv, TypeOK
<1>2. From(i) \in Tables /\ To(i) \in Tables
  BY <1>1, EndsType
<1>3. joins \in [Tables -> SUBSET Chain] /\ Last(queries).extended
  BY <1>1 DEF TypeOK, Headed, Up
<1>4. ASSUME NEW d \in Extended(joins[To(i)], i, From(i))
      PROVE  Turns(d, Len(d.fkeys)) /\ Directed(d, Last(queries))
  <2>1. PICK c \in joins[To(i)] : d = With(c, i, From(i))
    BY DEF Extended, With
  <2>2. c \in Chain /\ IsPath(c, Last(queries).base, To(i)) /\ Turns(c, Len(c.fkeys))
    BY <1>1, <1>2, <1>3 DEF JoinsArePaths, Headed, Up
  <2>3. Len(c.fkeys) \in Nat /\ Len(c.fkeys) \in 0 .. Len(c.fkeys)
    BY <2>2 DEF Chain
  <2> HIDE DEF Inv
  <2>4. Turns(d, Len(d.fkeys)) /\ Len(d.fkeys) = Len(c.fkeys) + 1
    BY <1>1, <1>2, <2>1, <2>2, <2>3, ExtendedTurns
  <2>5. Len(d.fkeys) \in 0 .. Len(d.fkeys)
    BY <2>3, <2>4
  <2>6. QED
    BY <1>3, <2>4, <2>5 DEF Directed
<1>5. ASSUME NEW t \in Tables, NEW c \in joins'[t]
      PROVE  Turns(c, Len(c.fkeys)) /\ Directed(c, Last(queries))
  <2>1. c \in joins[t] \/ c \in Extended(joins[To(i)], i, From(i))
    BY <1>2, <1>3 DEF Up
  <2>2. CASE c \in joins[t]
    BY <2>2 DEF Headed, Up
  <2>3. QED
    BY <1>4, <2>1, <2>2
<1>6. \A c, m : Turns(c, m)' <=> Turns(c, m)
  BY DEF Up, Turns, Rises, Falls, From, To
<1>7. \A c, q : Directed(c, q)' <=> Directed(c, q)
  BY <1>6 DEF Directed
<1>8. queries' = queries /\ saved' = saved
  BY DEF Up
<1>9. QED
  BY <1>3, <1>5, <1>6, <1>7, <1>8 DEF Headed, Last

LEMMA DownHeaded == ASSUME Inv, Headed, NEW i \in toVisit, Down(i) PROVE Headed'
<1>1. TypeOK /\ JoinsArePaths /\ i \in Fkeys
  BY DEF Inv, TypeOK
<1>2. From(i) \in Tables /\ To(i) \in Tables
  BY <1>1, EndsType
<1>3. joins \in [Tables -> SUBSET Chain]
  BY <1>1 DEF TypeOK
<1>4. ASSUME NEW d \in Extended(joins[From(i)], i, To(i))
      PROVE  Directed(d, Last(queries))
  <2>1. PICK c \in joins[From(i)] : d = With(c, i, To(i))
    BY DEF Extended, With
  <2>2. c \in Chain /\ IsPath(c, Last(queries).base, From(i)) /\ Directed(c, Last(queries))
    BY <1>1, <1>2, <1>3 DEF JoinsArePaths, Headed
  <2>3. PICK m \in 0 .. Len(c.fkeys) : Turns(c, m) /\ (Last(queries).extended \/ m = 0)
    BY <2>2 DEF Directed
  <2>4. Turns(d, m) /\ Len(d.fkeys) = Len(c.fkeys) + 1 /\ Len(c.fkeys) \in Nat
    BY <1>1, <1>2, <2>1, <2>2, <2>3, ExtendedTurns
  <2>5. m \in 0 .. Len(d.fkeys)
    BY <2>3, <2>4
  <2>6. QED
    BY <2>3, <2>4, <2>5 DEF Directed
<1>5. ASSUME NEW t \in Tables, NEW c \in joins'[t]
      PROVE  Directed(c, Last(queries))
  <2>1. c \in joins[t] \/ c \in Extended(joins[From(i)], i, To(i))
    BY <1>2, <1>3 DEF Down
  <2>2. CASE c \in joins[t]
    BY <2>2 DEF Headed
  <2>3. QED
    BY <1>4, <2>1, <2>2
<1>6. \A c, m : Turns(c, m)' <=> Turns(c, m)
  BY DEF Down, Turns, Rises, Falls, From, To
<1>7. \A c, q : Directed(c, q)' <=> Directed(c, q)
  BY <1>6 DEF Directed
<1>8. queries' = queries /\ saved' = saved /\ pc' # "up"
  BY DEF Down
<1>9. QED
  BY <1>5, <1>6, <1>7, <1>8 DEF Headed, Last

LEMMA SubsetHeaded ==
  ASSUME Inv, Headed, NEW b \in Tables, NEW x \in BOOLEAN, Subset(b, x)
  PROVE  Headed'
<1> DEFINE q == [base |-> b, extended |-> x]
           start == [tables |-> <<b>>, fkeys |-> <<>>]
           n == Len(queries)
<1>1. /\ queries \in Seq([base : Tables, extended : BOOLEAN]) /\ n \in Nat
      /\ saved \in [Tables -> SUBSET [query : DOMAIN queries, chain : Chain]]
  BY DEF Inv, TypeOK
<1>2. /\ Len(queries') = n + 1 /\ queries'[n + 1] = q /\ \A k \in 1 .. n : queries'[k] = queries[k]
  BY <1>1, AppendProperties DEF Subset
<1>3. Last(queries)' = q
  BY <1>2 DEF Last
<1>4. Turns(start, 0) /\ Len(start.fkeys) = 0
  BY DEF Turns
<1>5. Directed(start, q)
  BY <1>4 DEF Directed
<1>6. \A c, m : Turns(c, m)' <=> Turns(c, m)
  BY DEF Subset, Turns, Rises, Falls, From, To
<1>7. \A c, r : Directed(c, r)' <=> Directed(c, r)
  BY <1>6 DEF Directed
<1>8. \A t \in Tables : \A c \in joins'[t] : c = start
  BY DEF Subset
<1>9. pc' = "up" => q.extended
  BY DEF Subset
<1>10. ASSUME NEW t \in Tables, NEW j \in saved[t]
       PROVE  Directed(j.chain, queries'[j.query])
  <2>1. j.query \in 1 .. n
    BY <1>1
  <2>2. QED
    BY <1>2, <2>1 DEF Headed
<1>11. saved' = saved
  BY DEF Subset
<1> HIDE DEF start, q
<1>12. QED
  BY <1>3, <1>4, <1>5, <1>6, <1>7, <1>8, <1>9, <1>10, <1>11 DEF Headed

LEMMA FinishHeaded == ASSUME Inv, Headed, Finish PROVE Headed'
<1>1. /\ UNCHANGED <<catalog, queries, joins>> /\ pc' = "idle"
      /\ saved' = [t \in Tables |->
                    saved[t] \cup {[query |-> Len(queries), chain |-> c] : c \in joins[t]}]
  BY DEF Finish
<1>2. \A c, m : Turns(c, m)' <=> Turns(c, m)
  BY <1>1 DEF Turns, Rises, Falls, From, To
<1>3. \A c, q : Directed(c, q)' <=> Directed(c, q)
  BY <1>2 DEF Directed
<1>4. ASSUME NEW t \in Tables, NEW j \in saved'[t]
      PROVE  Directed(j.chain, queries[j.query])
  <2>1. CASE j \in saved[t]
    BY <2>1 DEF Headed
  <2>2. CASE j \in {[query |-> Len(queries), chain |-> c] : c \in joins[t]}
    BY <2>2 DEF Headed, Last
  <2>3. QED
    BY <1>1, <2>1, <2>2
<1>5. QED
  BY <1>1, <1>3, <1>4 DEF Headed, Last

LEMMA RestHeaded ==
  ASSUME Headed, (\E i \in toVisit : Skip(i)) \/ Turn \/ UNCHANGED vars
  PROVE  Headed'
<1>1. UNCHANGED <<catalog, queries, saved, joins>> /\ (pc' = "up" => pc = "up")
  BY DEF Skip, Turn, vars
<1>2. \A c, m : Turns(c, m)' <=> Turns(c, m)
  BY <1>1 DEF Turns, Rises, Falls, From, To
<1>3. \A c, q : Directed(c, q)' <=> Directed(c, q)
  BY <1>2 DEF Directed
<1>4. QED
  BY <1>1, <1>2, <1>3 DEF Headed, Last

LEMMA NextHeaded == Inv /\ Headed /\ [Next]_vars => Headed'
  BY UpHeaded, DownHeaded, SubsetHeaded, FinishHeaded, RestHeaded DEF Next, Walk

\* Chains are paths, first up and then down.
LEMMA HeadedNeeded == Inv /\ Headed => OnlyNeeded
<1>1. SUFFICES ASSUME Inv, Headed, NEW ref \in Contents, NEW result \in Results,
                      NEW t \in Tables, NEW r \in Dumped(ref, result, t)
               PROVE  <<t, r>> \in NeededBy(ref, result)
  BY DEF OnlyNeeded, DumpedBy
<1>2. PICK j \in saved[t] : r \in Selected(ref, j.chain, result[j.query])
  BY DEF Dumped
<1>3. TypeOK /\ j.query \in DOMAIN queries /\ j.chain \in Chain
  BY <1>1 DEF Inv, TypeOK
<1>4. queries[j.query].base \in Tables
  <2>1. queries \in Seq([base : Tables, extended : BOOLEAN])
    BY <1>3 DEF TypeOK
  <2>2. queries[j.query] \in [base : Tables, extended : BOOLEAN]
    <3> DEFINE Q == [base : Tables, extended : BOOLEAN]
    <3> HIDE DEF Q
    <3>1. queries \in Seq(Q)
      BY <2>1 DEF Q
    <3>2. queries[j.query] \in Q
      BY <1>3, <3>1
    <3>3. QED
      BY <3>2 DEF Q
  <2>3. QED
    BY <2>2
<1>5. result[j.query] \in SUBSET Rows
  BY <1>3 DEF Results
<1>6. IsPath(j.chain, queries[j.query].base, t) /\ Directed(j.chain, queries[j.query])
  BY <1>1 DEF Inv, JoinsArePaths, Headed
<1>7. <<t, r>> \in Needed(ref, queries[j.query], result[j.query])
  BY <1>2, <1>3, <1>4, <1>5, <1>6, SelectedNeeded
<1>8. QED
  BY <1>3, <1>7 DEF NeededBy

\* For every catalog, any queries and whatever the tables contain, a row is dumped only if
\* foreign keys lead to it from rows that some query selected (Subsetter.Query).
THEOREM NothingTooMuch == Spec => []OnlyNeeded
<1>1. Init => Inv /\ Headed
  BY InitInv, InitHeaded
<1>2. Inv /\ Headed /\ [Next]_vars => (Inv /\ Headed)'
  BY NextInv, NextHeaded
<1>3. QED
  BY <1>1, <1>2, HeadedNeeded, PTL DEF Spec

(***************************************************************************)
(* Routes                                                                  *)
(***************************************************************************)

\* The paths that the walk of a query may find to a table.
Route(c, q, t) == c \in Chain /\ IsPath(c, q.base, t) /\ Directed(c, q)

Visits(c) == {c.tables[k] : k \in DOMAIN c.tables}

Front(c) ==
  [tables |-> SubSeq(c.tables, 1, Len(c.tables) - 1), fkeys |-> SubSeq(c.fkeys, 1, Len(c.fkeys) - 1)]

LEMMA RouteShape ==
  ASSUME TypeOK, NEW c, NEW q, NEW t, Route(c, q, t)
  PROVE  /\ c.tables \in Seq(Tables) /\ c.fkeys \in Seq(Nat)
         /\ Len(c.tables) \in Nat /\ Len(c.tables) >= 1 /\ Len(c.tables) = Len(c.fkeys) + 1
         /\ Len(c.fkeys) \in Nat /\ DOMAIN c.tables = 1 .. Len(c.tables)
         /\ DOMAIN c.fkeys = 1 .. Len(c.fkeys)
         /\ c.tables[1] = q.base /\ c.tables[Len(c.tables)] = t
         /\ \A j, k \in 1 .. Len(c.tables) : c.tables[j] = c.tables[k] => j = k
         /\ \A k \in 1 .. Len(c.fkeys) :
              /\ c.fkeys[k] \in Fkeys /\ c.tables[k] # c.tables[k + 1]
              /\ {c.tables[k], c.tables[k + 1]} = {From(c.fkeys[k]), To(c.fkeys[k])}
              /\ From(c.fkeys[k]) # To(c.fkeys[k])
              /\ Rises(c, k) \/ Falls(c, k)
              /\ ~q.extended => Falls(c, k)
<1>1. c \in Chain /\ IsPath(c, q.base, t) /\ Directed(c, q)
  BY DEF Route
<1>2. /\ c.tables \in Seq(Tables) /\ c.fkeys \in Seq(Nat)
      /\ Len(c.tables) \in Nat /\ Len(c.fkeys) \in Nat
      /\ DOMAIN c.tables = 1 .. Len(c.tables) /\ DOMAIN c.fkeys = 1 .. Len(c.fkeys)
  BY <1>1 DEF Chain
<1>3. Len(c.tables) = Len(c.fkeys) + 1 /\ Len(c.tables) >= 1
  BY <1>1, <1>2 DEF IsPath
<1>4. /\ c.tables[1] = q.base /\ c.tables[Len(c.tables)] = t
      /\ \A j, k \in 1 .. Len(c.tables) : c.tables[j] = c.tables[k] => j = k
  BY <1>1, <1>2 DEF IsPath, Last
<1>5. PICK m \in 0 .. Len(c.fkeys) : Turns(c, m) /\ (q.extended \/ m = 0)
  BY <1>1 DEF Directed
<1>6. ASSUME NEW k \in 1 .. Len(c.fkeys)
      PROVE  /\ c.fkeys[k] \in Fkeys /\ c.tables[k] # c.tables[k + 1]
             /\ {c.tables[k], c.tables[k + 1]} = {From(c.fkeys[k]), To(c.fkeys[k])}
             /\ From(c.fkeys[k]) # To(c.fkeys[k])
             /\ Rises(c, k) \/ Falls(c, k)
             /\ ~q.extended => Falls(c, k)
  <2>1. k \in 1 .. Len(c.tables) /\ k + 1 \in 1 .. Len(c.tables) /\ k # k + 1
    BY <1>2, <1>3
  <2>2. c.tables[k] # c.tables[k + 1]
    BY <1>4, <2>1
  <2>3. /\ c.fkeys[k] \in Fkeys
        /\ {c.tables[k], c.tables[k + 1]} = {From(c.fkeys[k]), To(c.fkeys[k])}
    BY <1>1, <1>2 DEF IsPath
  <2>4. (k <= m => Rises(c, k)) /\ (~(k <= m) => Falls(c, k))
    BY <1>2, <1>5 DEF Turns
  <2>5. ~q.extended => ~(k <= m)
    BY <1>5
  <2>6. From(c.fkeys[k]) # To(c.fkeys[k])
    BY <2>2, <2>4 DEF Rises, Falls
  <2>7. QED
    BY <2>2, <2>3, <2>4, <2>5, <2>6
<1>7. QED
  BY <1>2, <1>3, <1>4, <1>6

\* The beginning of a sequence.
LEMMA BeginningIs ==
  ASSUME NEW S, NEW g \in Seq(S), NEW n \in Nat, n <= Len(g)
  PROVE  /\ SubSeq(g, 1, n) \in Seq(S) /\ Len(SubSeq(g, 1, n)) = n
         /\ DOMAIN SubSeq(g, 1, n) = 1 .. n
         /\ \A k \in 1 .. n : SubSeq(g, 1, n)[k] = g[k]
<1>1. Len(g) \in Nat /\ \A k \in 1 .. n : g[k] \in S
  OBVIOUS
<1>2. /\ SubSeq(g, 1, n) \in Seq(S) /\ Len(SubSeq(g, 1, n)) = n
      /\ \A k \in 1 .. n : SubSeq(g, 1, n)[k] = g[k]
  BY <1>1, SubSeqProperties
<1>3. QED
  BY <1>2

\* A route without its last step is a route.
LEMMA FrontRoute ==
  ASSUME TypeOK, NEW c, NEW q, NEW t, Route(c, q, t), Len(c.fkeys) # 0
  PROVE  /\ Route(Front(c), q, c.tables[Len(c.fkeys)])
         /\ Len(Front(c).fkeys) = Len(c.fkeys) - 1
         /\ c = With(Front(c), c.fkeys[Len(c.fkeys)], t)
<1> DEFINE n == Len(c.fkeys)
           f == Front(c)
<1>1. /\ c.tables \in Seq(Tables) /\ c.fkeys \in Seq(Nat) /\ n \in Nat /\ n >= 1
      /\ Len(c.tables) = n + 1 /\ DOMAIN c.tables = 1 .. n + 1 /\ DOMAIN c.fkeys = 1 .. n
      /\ c.tables[1] = q.base /\ c.tables[n + 1] = t
  BY RouteShape
<1>2. /\ f.tables = SubSeq(c.tables, 1, n) /\ f.fkeys = SubSeq(c.fkeys, 1, n - 1)
  BY <1>1 DEF Front
<1>3. /\ f.tables \in Seq(Tables) /\ Len(f.tables) = n /\ DOMAIN f.tables = 1 .. n
      /\ \A k \in 1 .. n : f.tables[k] = c.tables[k]
  <2>1. n \in Nat /\ n <= Len(c.tables) /\ c.tables \in Seq(Tables)
    BY <1>1
  <2> HIDE DEF f, n
  <2>2. QED
    BY <1>2, <2>1, BeginningIs
<1>4. /\ f.fkeys \in Seq(Nat) /\ Len(f.fkeys) = n - 1 /\ DOMAIN f.fkeys = 1 .. n - 1
      /\ \A k \in 1 .. n - 1 : f.fkeys[k] = c.fkeys[k]
  <2>1. n - 1 \in Nat /\ n - 1 <= Len(c.fkeys) /\ c.fkeys \in Seq(Nat)
    BY <1>1
  <2> HIDE DEF f, n
  <2>2. QED
    BY <1>2, <2>1, BeginningIs
<1>5. f \in Chain
  <2>1. f = [tables |-> f.tables, fkeys |-> f.fkeys]
    BY DEF Front
  <2>2. QED
    BY <1>3, <1>4, <2>1 DEF Chain
<1> HIDE DEF f, n
<1>6. IsPath(f, q.base, c.tables[n])
  <2>1. 1 \in 1 .. n /\ n \in 1 .. n /\ Len(f.tables) = Len(f.fkeys) + 1
    BY <1>1, <1>3, <1>4
  <2>5. f.tables[1] = q.base /\ Last(f.tables) = c.tables[n]
    BY <1>1, <1>3, <2>1 DEF Last
  <2>2. ASSUME NEW j \in 1 .. n, NEW k \in 1 .. n, f.tables[j] = f.tables[k] PROVE j = k
    <3>1. j \in DOMAIN c.tables /\ k \in DOMAIN c.tables /\ c.tables[j] = c.tables[k]
      BY <1>1, <1>3, <2>2
    <3>2. QED
      BY <3>1 DEF Route, IsPath
  <2>3. ASSUME NEW k \in 1 .. n - 1
        PROVE  /\ f.fkeys[k] \in Fkeys
               /\ {f.tables[k], f.tables[k + 1]} = {From(f.fkeys[k]), To(f.fkeys[k])}
    <3>1. k \in DOMAIN c.fkeys /\ k \in 1 .. n /\ k + 1 \in 1 .. n
      BY <1>1
    <3>2. /\ f.fkeys[k] = c.fkeys[k] /\ f.tables[k] = c.tables[k]
          /\ f.tables[k + 1] = c.tables[k + 1]
      BY <1>3, <1>4, <3>1
    <3>3. QED
      BY <3>1, <3>2 DEF Route, IsPath
  <2>4. QED
    BY <1>3, <1>4, <2>1, <2>2, <2>3, <2>5 DEF IsPath
<1>7. Directed(f, q)
  <2>1. PICK m \in 0 .. n : Turns(c, m) /\ (q.extended \/ m = 0)
    BY DEF Route, Directed, n
  <2> DEFINE p == IF m = n THEN n - 1 ELSE m
  <2>2. p \in 0 .. n - 1 /\ (m = 0 => p = 0)
    BY <1>1
  <2>3. ASSUME NEW k \in 1 .. n - 1
        PROVE  (k <= p => Rises(f, k)) /\ (~(k <= p) => Falls(f, k))
    <3>1. k \in DOMAIN c.fkeys /\ k \in 1 .. n /\ k + 1 \in 1 .. n /\ (k <= p <=> k <= m)
      BY <1>1
    <3>2. /\ f.fkeys[k] = c.fkeys[k] /\ f.tables[k] = c.tables[k]
          /\ f.tables[k + 1] = c.tables[k + 1]
      BY <1>3, <1>4, <3>1
    <3>3. (k <= m => Rises(c, k)) /\ (~(k <= m) => Falls(c, k))
      BY <2>1, <3>1 DEF Turns
    <3> HIDE DEF p
    <3>4. QED
      BY <3>1, <3>2, <3>3 DEF Rises, Falls
  <2> HIDE DEF p
  <2>4. Turns(f, p)
    BY <1>4, <2>3 DEF Turns
  <2>5. QED
    BY <1>4, <2>1, <2>2, <2>4 DEF Directed
<1>8. c.tables = Append(f.tables, t)
  BY <1>1, <1>3
<1>9. c.fkeys = Append(f.fkeys, c.fkeys[n])
  <2> DEFINE g == Append(f.fkeys, c.fkeys[n])
  <2>1. n \in DOMAIN c.fkeys /\ c.fkeys[n] \in Nat
    BY <1>1
  <2>2. /\ g \in Seq(Nat) /\ Len(g) = n /\ g[n] = c.fkeys[n]
        /\ \A k \in 1 .. n - 1 : g[k] = f.fkeys[k]
    BY <1>1, <1>4, <2>1, AppendProperties
  <2>3. \A k \in 1 .. n : k = n \/ k \in 1 .. n - 1
    BY <1>1
  <2> HIDE DEF g
  <2>4. \A k \in 1 .. n : g[k] = c.fkeys[k]
    BY <1>4, <2>2, <2>3
  <2>5. g = c.fkeys
    BY <1>1, <2>2, <2>4, SeqEqual
  <2>6. QED
    BY <2>5 DEF g
<1>10. c = [tables |-> c.tables, fkeys |-> c.fkeys]
  BY DEF Route, Chain
<1>11. c = With(f, c.fkeys[n], t)
  BY <1>8, <1>9, <1>10 DEF With
<1>12. QED
  BY <1>1, <1>4, <1>5, <1>6, <1>7, <1>11 DEF Route, f, n

\* The table is one that no two routes lead to, if none meet (Simple).
Settled(q, t) == q.extended \/ \E i \in Fkeys : From(i) = t

\* Routes come to it by the same foreign key.
LastSame(q) ==
  \A t, c, d :
    Route(c, q, t) /\ Route(d, q, t) /\ Settled(q, t) /\ Len(c.fkeys) # 0 =>
      Len(d.fkeys) # 0 /\ c.fkeys[Len(c.fkeys)] = d.fkeys[Len(d.fkeys)]

Start(q) == [tables |-> <<q.base>>, fkeys |-> <<>>]

LEMMA StartRoute ==
  ASSUME TypeOK, NEW c, NEW q, NEW t, Route(c, q, t), Len(c.fkeys) = 0
  PROVE  c = Start(q) /\ t = q.base
<1>1. /\ c.tables \in Seq(Tables) /\ c.fkeys \in Seq(Nat) /\ Len(c.tables) = 1
      /\ c.tables[1] = q.base /\ t = c.tables[1]
  <2>1. /\ c.tables \in Seq(Tables) /\ c.fkeys \in Seq(Nat) /\ Len(c.tables) = Len(c.fkeys) + 1
        /\ c.tables[1] = q.base /\ c.tables[Len(c.tables)] = t
    BY RouteShape
  <2>2. Len(c.tables) = 1
    BY <2>1
  <2>3. QED
    BY <2>1, <2>2
<1>2. c.tables = <<q.base>> /\ c.fkeys = <<>>
  BY <1>1
<1>3. c = [tables |-> c.tables, fkeys |-> c.fkeys]
  BY DEF Route, Chain
<1>4. QED
  BY <1>1, <1>2, <1>3 DEF Start

\* The last step of a route.
LEMMA LastStep ==
  ASSUME TypeOK, NEW c, NEW q, NEW t, Route(c, q, t), Len(c.fkeys) # 0,
         NEW i, i = c.fkeys[Len(c.fkeys)], NEW s, s = c.tables[Len(c.fkeys)]
  PROVE  /\ i \in Fkeys /\ s # t /\ From(i) # To(i)
         /\ (s = From(i) /\ t = To(i)) \/ (s = To(i) /\ t = From(i))
         /\ Settled(q, s)
<1> DEFINE n == Len(c.fkeys)
<1>1. n \in Nat /\ n \in 1 .. n /\ c.tables[n + 1] = t /\ i = c.fkeys[n] /\ s = c.tables[n]
  BY RouteShape
<1>2. /\ i \in Fkeys /\ s # t /\ From(i) # To(i)
      /\ Rises(c, n) \/ Falls(c, n)
      /\ ~q.extended => Falls(c, n)
  <2>1. \A k \in 1 .. n :
          /\ c.fkeys[k] \in Fkeys /\ c.tables[k] # c.tables[k + 1]
          /\ From(c.fkeys[k]) # To(c.fkeys[k])
          /\ Rises(c, k) \/ Falls(c, k)
          /\ ~q.extended => Falls(c, k)
    BY RouteShape
  <2> HIDE DEF n
  <2>2. /\ c.fkeys[n] \in Fkeys /\ c.tables[n] # c.tables[n + 1]
        /\ From(c.fkeys[n]) # To(c.fkeys[n])
        /\ Rises(c, n) \/ Falls(c, n)
        /\ ~q.extended => Falls(c, n)
    BY <1>1, <2>1, Zenon
  <2>3. QED
    BY <1>1, <2>2, Zenon
<1>3. (s = From(i) /\ t = To(i)) \/ (s = To(i) /\ t = From(i))
  BY <1>1, <1>2 DEF Rises, Falls
<1>4. Settled(q, s)
  BY <1>1, <1>2 DEF Settled, Falls
<1>5. QED
  BY <1>2, <1>3, <1>4

LEMMA SameRoute ==
  ASSUME TypeOK, NEW q, LastSame(q)
  PROVE  \A t, c, d : Route(c, q, t) /\ Route(d, q, t) /\ Settled(q, t) => c = d
<1> DEFINE Differ(n, t, c, d) ==
             /\ Route(c, q, t) /\ Route(d, q, t) /\ Settled(q, t)
             /\ c # d /\ n = Len(c.fkeys)
           T == {n \in Nat : \E t, c, d : Differ(n, t, c, d)}
<1>1. SUFFICES ASSUME T # {} PROVE FALSE
  <2>1. \A t, c, d : Route(c, q, t) => Len(c.fkeys) \in Nat
    BY RouteShape
  <2>2. QED
    BY <1>1, <2>1
<1>2. PICK n \in T : \A k \in T : ~(k < n)
  <2>1. T \subseteq Nat
    OBVIOUS
  <2> HIDE DEF T
  <2>2. QED
    BY <1>1, <2>1, Least
<1>3. PICK t, c, d : Differ(n, t, c, d)
  OBVIOUS
<1>4. n \in Nat /\ n = Len(c.fkeys)
  BY <1>3
<1>5. n # 0
  <2>1. ASSUME n = 0 PROVE FALSE
    <3>1. Len(d.fkeys) = 0
      BY <1>3, <1>4, <2>1 DEF LastSame
    <3>2. c = Start(q) /\ d = Start(q)
      BY <1>3, <1>4, <2>1, <3>1, StartRoute
    <3>3. QED
      BY <1>3, <3>2
  <2>2. QED
    BY <2>1
<1> DEFINE m == Len(d.fkeys)
           i == c.fkeys[n]
           s == c.tables[n]
<1>6. m # 0 /\ d.fkeys[m] = i
  BY <1>3, <1>4, <1>5 DEF LastSame
<1>7. /\ s # t /\ From(i) # To(i) /\ Settled(q, s)
      /\ (s = From(i) /\ t = To(i)) \/ (s = To(i) /\ t = From(i))
  BY <1>3, <1>4, <1>5, LastStep
<1>8. (d.tables[m] = From(i) /\ t = To(i)) \/ (d.tables[m] = To(i) /\ t = From(i))
  BY <1>3, <1>6, LastStep
<1>9. d.tables[m] = s
  BY <1>7, <1>8
<1>10. /\ Route(Front(c), q, s) /\ Len(Front(c).fkeys) = n - 1
       /\ c = With(Front(c), i, t)
  BY <1>3, <1>4, <1>5, FrontRoute
<1>11. Route(Front(d), q, s) /\ d = With(Front(d), i, t)
  BY <1>3, <1>6, <1>9, FrontRoute
<1>12. n - 1 \in Nat /\ n - 1 < n
  BY <1>4, <1>5
<1>13. Front(c) = Front(d)
  <2>1. n - 1 \notin T
    <3> HIDE DEF T
    <3>1. QED
      BY <1>2, <1>12
  <2> HIDE DEF m, i, s
  <2>2. ~Differ(n - 1, s, Front(c), Front(d))
    BY <1>12, <2>1
  <2>3. QED
    BY <1>7, <1>10, <1>11, <2>2
<1>14. QED
  BY <1>3, <1>10, <1>11, <1>13

(***************************************************************************)
(* What is needed is selected, when no two paths meet.                     *)
(***************************************************************************)

\* A chain that is longer selects what its last foreign key joins.
LEMMA SelectedWith ==
  ASSUME TypeOK, NEW ref \in Contents, NEW c, NEW q, NEW s, Route(c, q, s),
         NEW i \in Fkeys, NEW t \in Tables, NEW S \in SUBSET Rows
  PROVE  /\ Selected(ref, c, S) \in SUBSET Rows
         /\ Selected(ref, With(c, i, t), S) = Joined(ref, i, t, Selected(ref, c, S))
<1> DEFINE n == Len(c.tables)
           d == With(c, i, t)
<1>1. /\ c \in Chain /\ c.tables \in Seq(Tables) /\ c.fkeys \in Seq(Nat) /\ n \in Nat
      /\ n >= 1 /\ n = Len(c.fkeys) + 1 /\ Len(c.fkeys) \in Nat
      /\ DOMAIN c.fkeys = 1 .. Len(c.fkeys) /\ \A k \in 1 .. Len(c.fkeys) : c.fkeys[k] \in Fkeys
  BY RouteShape DEF Route
<1>2. i \in Nat
  BY EndsType
<1>3. /\ d \in Chain /\ Len(d.tables) = n + 1 /\ d.tables[n + 1] = t
      /\ \A k \in 1 .. n : d.tables[k] = c.tables[k]
  BY <1>1, <1>2, AppendProperties DEF With, Chain
<1>4. /\ Len(d.fkeys) = n /\ DOMAIN d.fkeys = 1 .. n /\ d.fkeys[n] = i
      /\ \A k \in 1 .. n - 1 : d.fkeys[k] = c.fkeys[k]
  BY <1>1, <1>2, AppendProperties DEF With
<1>5. \A k \in 1 .. n : k = n \/ k \in 1 .. n - 1
  BY <1>1
<1> HIDE DEF d, n
<1>6. \A k \in DOMAIN d.fkeys : d.fkeys[k] \in Fkeys
  BY <1>1, <1>4, <1>5
<1>7. PICK u : Joins(ref, c, S, u) /\ Selected(ref, c, S) = u[n]
  BY <1>1, SelectedRows DEF n
<1>8. PICK w : Joins(ref, d, S, w) /\ Selected(ref, d, S) = w[n + 1]
  <2>1. Len(d.tables) = Len(d.fkeys) + 1 /\ d \in Chain
    BY <1>3, <1>4
  <2>2. PICK w : Joins(ref, d, S, w) /\ Selected(ref, d, S) = w[Len(d.tables)]
    BY <1>6, <2>1, SelectedRows
  <2>3. QED
    BY <1>3, <2>2
<1> DEFINE Bad == {k \in 1 .. n : u[k] # w[k]}
<1>9. ASSUME Bad # {} PROVE FALSE
  <2>1. PICK k \in Bad : \A l \in Bad : ~(l < k)
    <3>1. Bad \subseteq Nat
      BY <1>1
    <3> HIDE DEF Bad
    <3>2. QED
      BY <1>9, <3>1, Least
  <2>2. k \in 1 .. n /\ u[k] # w[k]
    OBVIOUS
  <2> HIDE DEF Bad
  <2>3. k # 1
    BY <1>7, <1>8, <2>2 DEF Joins
  <2>4. k - 1 \in 1 .. n - 1 /\ k - 1 \in 1 .. n /\ k - 1 < k /\ (k - 1) + 1 = k
    BY <1>1, <2>2, <2>3
  <2>5. u[k - 1] = w[k - 1]
    BY <2>1, <2>4 DEF Bad
  <2>6. u[k] = Joined(ref, c.fkeys[k - 1], c.tables[k], u[k - 1])
    BY <1>7, <2>4 DEF Joins, n
  <2>7. w[k] = Joined(ref, d.fkeys[k - 1], d.tables[k], w[k - 1])
    <3>1. k - 1 \in 1 .. Len(d.tables) - 1
      BY <1>1, <1>3, <2>4
    <3>2. QED
      BY <1>8, <2>4, <3>1 DEF Joins
  <2>8. QED
    BY <1>3, <1>4, <2>2, <2>4, <2>5, <2>6, <2>7
<1>10. n \in 1 .. n /\ n \in 1 .. Len(d.tables) - 1
  BY <1>1, <1>3
<1>11. u[n] = w[n]
  BY <1>9, <1>10
<1>12. w[n + 1] = Joined(ref, i, t, w[n])
  BY <1>3, <1>4, <1>8, <1>10 DEF Joins
<1>13. u[n] \in SUBSET Rows
  BY <1>7, <1>10 DEF Joins, n
<1>14. QED
  BY <1>7, <1>8, <1>11, <1>12, <1>13 DEF d

LEMMA SelectedStart ==
  ASSUME TypeOK, NEW ref \in Contents, NEW q, Route(Start(q), q, q.base), NEW S \in SUBSET Rows
  PROVE  Selected(ref, Start(q), S) = S
<1>1. /\ Start(q) \in Chain /\ Len(Start(q).tables) = 1 /\ Len(Start(q).fkeys) = 0
      /\ Len(Start(q).tables) = Len(Start(q).fkeys) + 1
      /\ \A k \in DOMAIN Start(q).fkeys : Start(q).fkeys[k] \in Fkeys
  BY DEF Route, Start
<1>2. PICK u : /\ Joins(ref, Start(q), S, u)
               /\ Selected(ref, Start(q), S) = u[Len(Start(q).tables)]
  BY <1>1, SelectedRows
<1>3. QED
  BY <1>1, <1>2 DEF Joins

LEMMA UpWithin ==
  ASSUME TypeOK, NEW ref \in Contents, NEW S \in SUBSET Pairs, NEW D, S \subseteq D,
         ReferTo(ref, D) \subseteq D
  PROVE  Closure(ref, S, ReferTo) \subseteq D
<1>1. PICK v : /\ Steps(v, S) /\ Closure(ref, S, ReferTo) = v[Size]
               /\ \A k \in 1 .. Size : v[k] = v[k - 1] \cup ReferTo(ref, v[k - 1])
  BY ClosureUp
<1> DEFINE Bad == {k \in Nat : k <= Size /\ ~(v[k] \subseteq D)}
<1>2. ASSUME Bad # {} PROVE FALSE
  <2>1. PICK k \in Bad : \A l \in Bad : ~(l < k)
    <3>1. Bad \subseteq Nat
      OBVIOUS
    <3> HIDE DEF Bad
    <3>2. QED
      BY <1>2, <3>1, Least
  <2>2. k \in Nat /\ k <= Size /\ ~(v[k] \subseteq D)
    OBVIOUS
  <2>3. k # 0
    BY <1>1, <2>2 DEF Steps
  <2>4. k \in 1 .. Size /\ k - 1 \in Nat /\ k - 1 < k /\ k - 1 <= Size
    BY <2>2, <2>3, SizeType
  <2>5. k - 1 \notin Bad
    <3> HIDE DEF Bad
    <3>1. QED
      BY <2>1, <2>4
  <2>6. v[k - 1] \subseteq D
    BY <2>4, <2>5
  <2> HIDE DEF Bad
  <2>7. ASSUME NEW x \in ReferTo(ref, v[k - 1]) PROVE x \in ReferTo(ref, D)
    <3>1. PICK i \in Fkeys, r \in Rows : x = <<From(i), r>> /\ <<To(i), ref[i][r]>> \in v[k - 1]
      BY <2>7, InReferTo
    <3>2. QED
      BY <2>6, <3>1, InReferTo
  <2>8. QED
    BY <1>1, <2>2, <2>4, <2>6, <2>7
<1>3. QED
  BY <1>1, <1>2, SizeType

LEMMA DownWithin ==
  ASSUME TypeOK, NEW ref \in Contents, NEW S \in SUBSET Pairs, NEW D, S \subseteq D,
         RefersTo(ref, D) \subseteq D
  PROVE  Closure(ref, S, RefersTo) \subseteq D
<1>1. PICK v : /\ Steps(v, S) /\ Closure(ref, S, RefersTo) = v[Size]
               /\ \A k \in 1 .. Size : v[k] = v[k - 1] \cup RefersTo(ref, v[k - 1])
  BY ClosureDown
<1> DEFINE Bad == {k \in Nat : k <= Size /\ ~(v[k] \subseteq D)}
<1>2. ASSUME Bad # {} PROVE FALSE
  <2>1. PICK k \in Bad : \A l \in Bad : ~(l < k)
    <3>1. Bad \subseteq Nat
      OBVIOUS
    <3> HIDE DEF Bad
    <3>2. QED
      BY <1>2, <3>1, Least
  <2>2. k \in Nat /\ k <= Size /\ ~(v[k] \subseteq D)
    OBVIOUS
  <2>3. k # 0
    BY <1>1, <2>2 DEF Steps
  <2>4. k \in 1 .. Size /\ k - 1 \in Nat /\ k - 1 < k /\ k - 1 <= Size
    BY <2>2, <2>3, SizeType
  <2>5. k - 1 \notin Bad
    <3> HIDE DEF Bad
    <3>1. QED
      BY <2>1, <2>4
  <2>6. v[k - 1] \subseteq D
    BY <2>4, <2>5
  <2> HIDE DEF Bad
  <2>7. ASSUME NEW x \in RefersTo(ref, v[k - 1]) PROVE x \in RefersTo(ref, D)
    <3>1. PICK i \in Fkeys, r \in Rows : x = <<To(i), ref[i][r]>> /\ ref[i][r] # Null /\ <<From(i), r>> \in v[k - 1]
      BY <2>7, InRefersTo
    <3>2. QED
      BY <2>6, <3>1, InRefersTo
  <2>8. QED
    BY <1>1, <2>2, <2>4, <2>6, <2>7
<1>3. QED
  BY <1>1, <1>2, SizeType


\* Foreign keys lead away from the tables that a route has been to.
NoWayUp(q) ==
  q.extended =>
    \A i \in Fkeys : \A c :
      Route(c, q, To(i)) /\ Turns(c, Len(c.fkeys)) => From(i) \notin Visits(c)

NoWayDown(q) ==
  \A i \in Fkeys : \A c :
    Route(c, q, From(i)) /\ To(i) \in Visits(c) =>
      Len(c.fkeys) # 0 /\ c.fkeys[Len(c.fkeys)] = i /\ Rises(c, Len(c.fkeys))

Distinct(q) == LastSame(q) /\ NoWayUp(q) /\ NoWayDown(q)

\* What the walk of a query leaves in joins.
Finished(J, q) ==
  /\ \A t \in Tables : \A c \in J[t] : Route(c, q, t)
  /\ Start(q) \in J[q.base]
  /\ \A t \in Tables : \A c \in J[t] :
       Len(c.fkeys) # 0 => Front(c) \in J[c.tables[Len(c.fkeys)]]
  /\ q.extended =>
       \A i \in Fkeys : \A c \in J[To(i)] :
         Turns(c, Len(c.fkeys)) /\ From(i) \notin Visits(c) => With(c, i, From(i)) \in J[From(i)]
  /\ \A i \in Fkeys : \A c \in J[From(i)] :
       To(i) \notin Visits(c) => With(c, i, To(i)) \in J[To(i)]

\* What the rows of a finished query refer to is selected too.
LEMMA FinishedRefers ==
  ASSUME TypeOK, NEW J, NEW q, Finished(J, q), Distinct(q),
         NEW ref \in Contents, NEW S \in SUBSET Rows, NEW i \in Fkeys, NEW c \in J[From(i)],
         NEW p \in Selected(ref, c, S), ref[i][p] # Null
  PROVE  \E d \in J[To(i)] : ref[i][p] \in Selected(ref, d, S)
<1>1. From(i) \in Tables /\ To(i) \in Tables
  BY EndsType
<1>2. Route(c, q, From(i))
  BY <1>1 DEF Finished
<1>3. CASE To(i) \notin Visits(c)
  <2> DEFINE d == With(c, i, To(i))
  <2>1. d \in J[To(i)]
    BY <1>3 DEF Finished
  <2>2. Selected(ref, d, S) = Joined(ref, i, To(i), Selected(ref, c, S))
    BY <1>1, <1>2, SelectedWith
  <2>3. To(i) # From(i)
    <3>1. /\ DOMAIN c.tables = 1 .. Len(c.tables) /\ Len(c.tables) >= 1 /\ Len(c.tables) \in Nat
          /\ c.tables[Len(c.tables)] = From(i)
      BY <1>2, RouteShape
    <3>2. From(i) \in Visits(c)
      BY <3>1 DEF Visits
    <3>3. QED
      BY <1>3, <3>2
  <2>4. ref[i][p] \in Selected(ref, d, S)
    BY <2>2, <2>3 DEF Joined
  <2> HIDE DEF d
  <2>5. QED
    BY <2>1, <2>4
<1>4. CASE To(i) \in Visits(c)
  <2> DEFINE n == Len(c.fkeys)
             f == Front(c)
             s == c.tables[n]
  <2>1. n # 0 /\ c.fkeys[n] = i /\ Rises(c, n)
    BY <1>2, <1>4 DEF Distinct, NoWayDown
  <2>2. s = To(i)
    BY <2>1 DEF Rises
  <2>3. f \in J[To(i)]
    BY <1>1, <2>1, <2>2 DEF Finished
  <2>4. Route(f, q, To(i)) /\ c = With(f, i, From(i))
    BY <1>2, <2>1, <2>2, FrontRoute
  <2> HIDE DEF f, s, n
  <2>5. Selected(ref, c, S) = Joined(ref, i, From(i), Selected(ref, f, S))
    BY <1>1, <2>4, SelectedWith
  <2>6. ref[i][p] \in Selected(ref, f, S)
    BY <2>5 DEF Joined
  <2>7. QED
    BY <2>3, <2>6
<1>5. QED
  BY <1>3, <1>4

LEMMA FinishedSelects ==
  ASSUME TypeOK, NEW J, NEW q, q.base \in Tables, Finished(J, q), Distinct(q),
         NEW ref \in Contents, NEW S \in SUBSET Rows, NEW t \in Tables, NEW r \in Rows,
         <<t, r>> \in Needed(ref, q, S)
  PROVE  \E c \in J[t] : r \in Selected(ref, c, S)
<1> DEFINE start == {q.base} \X S
           up == {x \in Pairs : \E c \in J[x[1]] :
                    Turns(c, Len(c.fkeys)) /\ x[2] \in Selected(ref, c, S)}
           down == {x \in Pairs : \E c \in J[x[1]] : x[2] \in Selected(ref, c, S)}
           middle == IF q.extended THEN Closure(ref, start, ReferTo) ELSE start
<1>1. ASSUME NEW u \in Tables, NEW c \in J[u] PROVE Route(c, q, u)
  BY DEF Finished
<1>2. Start(q) \in J[q.base] /\ Turns(Start(q), Len(Start(q).fkeys)) /\ Selected(ref, Start(q), S) = S
  <2>1. Start(q) \in J[q.base] /\ Route(Start(q), q, q.base)
    BY <1>1 DEF Finished
  <2>2. Turns(Start(q), Len(Start(q).fkeys))
    BY DEF Turns, Start
  <2>3. QED
    BY <2>1, <2>2, SelectedStart
<1>3. start \in SUBSET Pairs
  BY DEF Pairs
<1>4. start \subseteq up /\ start \subseteq down
  <2>1. ASSUME NEW x \in start
        PROVE  x \in Pairs /\ x[1] = q.base /\ x[2] \in Selected(ref, Start(q), S)
    BY <1>2, <1>3
  <2> HIDE DEF start
  <2>2. QED
    BY <1>2, <2>1
<1>5. up \subseteq down
  OBVIOUS
<1>6. ASSUME q.extended PROVE ReferTo(ref, up) \subseteq up
  <2>1. SUFFICES ASSUME NEW x \in ReferTo(ref, up) PROVE x \in up
    OBVIOUS
  <2>2. PICK i \in Fkeys, p \in Rows : x = <<From(i), p>> /\ <<To(i), ref[i][p]>> \in up
    BY InReferTo
  <2>3. From(i) \in Tables /\ To(i) \in Tables
    BY EndsType
  <2>4. PICK c \in J[To(i)] : Turns(c, Len(c.fkeys)) /\ ref[i][p] \in Selected(ref, c, S)
    BY <2>2
  <2> DEFINE d == With(c, i, From(i))
  <2>5. Route(c, q, To(i))
    BY <1>1, <2>3
  <2>6. From(i) \notin Visits(c)
    BY <1>6, <2>4, <2>5 DEF Distinct, NoWayUp
  <2>7. d \in J[From(i)]
    BY <1>6, <2>4, <2>6 DEF Finished
  <2>8. Turns(d, Len(d.fkeys))
    <3>1. Len(c.fkeys) \in 0 .. Len(c.fkeys) /\ c \in Chain /\ IsPath(c, q.base, To(i))
      BY <2>5, RouteShape DEF Route
    <3>2. /\ Len(d.fkeys) = Len(c.fkeys) + 1
          /\ Turns(d, Len(c.fkeys) + 1)
      BY <2>3, <2>4, <3>1, ExtendedTurns
    <3>3. QED
      BY <3>2
  <2>9. Selected(ref, d, S) = Joined(ref, i, From(i), Selected(ref, c, S))
    BY <2>3, <2>5, SelectedWith
  <2>10. p \in Selected(ref, d, S)
    BY <2>4, <2>9 DEF Joined
  <2>11. x \in Pairs /\ x[1] = From(i) /\ x[2] = p
    BY <2>2, <2>3 DEF Pairs
  <2> HIDE DEF d
  <2>12. QED
    BY <2>7, <2>8, <2>10, <2>11
<1>7. RefersTo(ref, down) \subseteq down
  <2>1. SUFFICES ASSUME NEW x \in RefersTo(ref, down) PROVE x \in down
    OBVIOUS
  <2>2. PICK i \in Fkeys, p \in Rows :
          x = <<To(i), ref[i][p]>> /\ ref[i][p] # Null /\ <<From(i), p>> \in down
    <3> HIDE DEF down
    <3>1. QED
      BY <2>1, InRefersTo
  <2>3. From(i) \in Tables /\ To(i) \in Tables
    BY EndsType
  <2>4. PICK c \in J[From(i)] : p \in Selected(ref, c, S)
    BY <2>2
  <2>5. Route(c, q, From(i))
    BY <1>1, <2>3
  <2>6. ref[i][p] \in Rows
    <3>1. ref[i] \in [Rows -> Rows \cup {Null}]
      BY SubsetterAssumption DEF Contents
    <3>2. QED
      BY <2>2, <3>1
  <2>7. x \in Pairs /\ x[1] = To(i) /\ x[2] = ref[i][p]
    BY <2>2, <2>3, <2>6 DEF Pairs
  <2>8. \E d \in J[To(i)] : ref[i][p] \in Selected(ref, d, S)
    <3> HIDE DEF start, up, down, middle
    <3>1. QED
      BY <2>2, <2>4, FinishedRefers
  <2>9. QED
    BY <2>7, <2>8
<1> HIDE DEF start, up, down
<1>8. middle \in SUBSET Pairs /\ middle \subseteq down
  <2>1. CASE ~q.extended
    BY <1>3, <1>4, <2>1
  <2>2. CASE q.extended
    <3>1. Closure(ref, start, ReferTo) \subseteq up
      BY <1>3, <1>4, <1>6, <2>2, UpWithin
    <3>2. up \subseteq Pairs
      BY DEF up
    <3>3. QED
      BY <1>5, <2>2, <3>1, <3>2
  <2>3. QED
    BY <2>1, <2>2
<1>9. Needed(ref, q, S) = Closure(ref, middle, RefersTo)
  BY DEF Needed, start
<1> HIDE DEF middle
<1>10. <<t, r>> \in down
  <2>1. Closure(ref, middle, RefersTo) \subseteq down
    BY <1>7, <1>8, DownWithin
  <2>2. QED
    BY <1>9, <2>1
<1>11. QED
  BY <1>10 DEF down

(***************************************************************************)
(* The walk forgets nothing.                                               *)
(***************************************************************************)

\* A query whose paths do not meet has its chains, but for the foreign keys that are due.
WalkedBy(q) ==
  /\ Start(q) \in joins[q.base]
  /\ \A t \in Tables : \A c \in joins[t] :
       Len(c.fkeys) # 0 => Front(c) \in joins[c.tables[Len(c.fkeys)]]
  /\ pc = "up" =>
       /\ \A i \in toVisit : joins[To(i)] # {}
       /\ \A i \in visited : joins[To(i)] # {} /\ \E c \in joins[From(i)] : To(i) \in Visits(c)
       /\ \A i \in Fkeys : \A c \in joins[To(i)] :
            \/ From(i) \in Visits(c) \/ With(c, i, From(i)) \in joins[From(i)]
            \/ i \in toVisit \ visited
  /\ pc = "down" =>
       /\ \A i \in toVisit \cup visited : joins[From(i)] # {}
       /\ q.extended =>
            \A i \in Fkeys : \A c \in joins[To(i)] : Turns(c, Len(c.fkeys)) =>
              From(i) \in Visits(c) \/ With(c, i, From(i)) \in joins[From(i)]
       /\ \A i \in Fkeys : \A c \in joins[From(i)] :
            \/ To(i) \in Visits(c) \/ With(c, i, To(i)) \in joins[To(i)]
            \/ i \in toVisit \ visited

Walked == pc # "idle" /\ Distinct(Last(queries)) => WalkedBy(Last(queries))

\* What has been saved of the queries that are through.
ChainsOf(n) == [t \in Tables |-> {j.chain : j \in {k \in saved[t] : k.query = n}}]

Saved ==
  /\ pc # "idle" => \A t \in Tables : \A j \in saved[t] : j.query # Len(queries)
  /\ \A n \in DOMAIN queries :
       Distinct(queries[n]) /\ (pc = "idle" \/ n # Len(queries)) =>
         Finished(ChainsOf(n), queries[n])

AInv == Inv /\ Headed /\ Walked /\ Saved

LEMMA SameCatalog ==
  ASSUME catalog' = catalog
  PROVE  /\ Fkeys' = Fkeys /\ \A i : From(i)' = From(i) /\ To(i)' = To(i)
         /\ \A c, m : Turns(c, m)' <=> Turns(c, m)
         /\ \A c, q, t : Route(c, q, t)' <=> Route(c, q, t)
         /\ \A q : Distinct(q)' <=> Distinct(q)
         /\ \A J, q : Finished(J, q)' <=> Finished(J, q)
<1>1. Fkeys' = Fkeys /\ \A i : From(i)' = From(i) /\ To(i)' = To(i)
  BY DEF Fkeys, From, To
<1>2. /\ \A c, m : Turns(c, m)' <=> Turns(c, m)
      /\ \A c, k : (Rises(c, k)' <=> Rises(c, k)) /\ (Falls(c, k)' <=> Falls(c, k))
  BY <1>1 DEF Turns, Rises, Falls
<1>3. \A c, q, t : Route(c, q, t)' <=> Route(c, q, t)
  <2>1. \A c, b, t : IsPath(c, b, t)' <=> IsPath(c, b, t)
    BY <1>1 DEF IsPath, Last
  <2>2. \A c, q : Directed(c, q)' <=> Directed(c, q)
    BY <1>2 DEF Directed
  <2>3. QED
    BY <2>1, <2>2 DEF Route
<1>4. \A q, t : Settled(q, t)' <=> Settled(q, t)
  BY <1>1 DEF Settled
<1>5. \A q : LastSame(q)' <=> LastSame(q)
  BY <1>3, <1>4 DEF LastSame
<1>6. \A q : NoWayUp(q)' <=> NoWayUp(q)
  BY <1>1, <1>2, <1>3 DEF NoWayUp
<1>7. \A q : NoWayDown(q)' <=> NoWayDown(q)
  BY <1>1, <1>2, <1>3 DEF NoWayDown
<1>8. \A J, q : Finished(J, q)' <=> Finished(J, q)
  BY <1>1, <1>2, <1>3 DEF Finished
<1>9. QED
  BY <1>1, <1>2, <1>3, <1>5, <1>6, <1>7, <1>8 DEF Distinct

LEMMA JoinsRoutes ==
  ASSUME Inv, Headed, NEW t \in Tables, NEW c \in joins[t]
  PROVE  Route(c, Last(queries), t)
  BY DEF Inv, TypeOK, JoinsArePaths, Headed, Route

\* A sequence begins with another one.
LEMMA PrefixIs ==
  ASSUME NEW S, NEW f \in Seq(S), NEW g \in Seq(S), Len(g) <= Len(f),
         \A k \in 1 .. Len(g) : f[k] = g[k]
  PROVE  SubSeq(f, 1, Len(g)) = g
<1> DEFINE n == Len(g)
           h == SubSeq(f, 1, n)
<1>1. n \in Nat /\ Len(f) \in Nat /\ n <= Len(f)
  OBVIOUS
<1>2. \A k \in 1 .. n : f[k] \in S
  BY <1>1
<1> HIDE DEF n
<1>3. h \in Seq(S) /\ Len(h) = n /\ \A k \in 1 .. n : h[k] = f[k]
  BY <1>1, <1>2, SubSeqProperties
<1>4. \A k \in 1 .. n : h[k] = g[k]
  BY <1>3 DEF n
<1> HIDE DEF h
<1>5. h = g
  BY <1>3, <1>4, SeqEqual DEF n
<1>6. QED
  BY <1>5 DEF h, n

\* A route that goes on.
LEMMA WithShape ==
  ASSUME TypeOK, NEW c, NEW q, NEW s, Route(c, q, s), NEW i \in Fkeys, NEW t \in Tables
  PROVE  /\ Front(With(c, i, t)) = c /\ Len(With(c, i, t).fkeys) # 0
         /\ With(c, i, t).tables[Len(With(c, i, t).fkeys)] = s
         /\ With(c, i, t).fkeys[Len(With(c, i, t).fkeys)] = i
         /\ t \in Visits(With(c, i, t)) /\ Visits(c) \subseteq Visits(With(c, i, t))
         /\ s \in Visits(c)
<1> DEFINE n == Len(c.tables)
           d == With(c, i, t)
<1>1. /\ c.tables \in Seq(Tables) /\ c.fkeys \in Seq(Nat) /\ n \in Nat /\ n >= 1
      /\ n = Len(c.fkeys) + 1 /\ Len(c.fkeys) \in Nat /\ c.tables[n] = s
      /\ DOMAIN c.tables = 1 .. n
  BY RouteShape
<1>2. i \in Nat
  BY EndsType
<1>3. /\ d.tables \in Seq(Tables) /\ Len(d.tables) = n + 1 /\ d.tables[n + 1] = t
      /\ \A k \in 1 .. n : d.tables[k] = c.tables[k]
      /\ DOMAIN d.tables = 1 .. n + 1
  BY <1>1, AppendProperties DEF With
<1>4. /\ d.fkeys \in Seq(Nat) /\ Len(d.fkeys) = n /\ d.fkeys[n] = i
      /\ \A k \in 1 .. n - 1 : d.fkeys[k] = c.fkeys[k]
  BY <1>1, <1>2, AppendProperties DEF With
<1>5. n \in 1 .. n /\ n + 1 \in 1 .. n + 1 /\ 1 .. n \subseteq 1 .. n + 1
  BY <1>1
<1> HIDE DEF n, d
<1>6. s \in Visits(c) /\ t \in Visits(d) /\ Visits(c) \subseteq Visits(d)
  BY <1>1, <1>3, <1>5 DEF Visits
<1>7. Front(d) = [tables |-> SubSeq(d.tables, 1, n), fkeys |-> SubSeq(d.fkeys, 1, n - 1)]
  BY <1>1, <1>3, <1>4 DEF Front
<1>8. SubSeq(d.tables, 1, n) = c.tables
  BY <1>1, <1>3, PrefixIs DEF n
<1>9. SubSeq(d.fkeys, 1, n - 1) = c.fkeys
  <2>1. n - 1 = Len(c.fkeys) /\ Len(c.fkeys) <= Len(d.fkeys)
    BY <1>1, <1>4
  <2>2. \A k \in 1 .. Len(c.fkeys) : d.fkeys[k] = c.fkeys[k]
    BY <1>4, <2>1
  <2>3. SubSeq(d.fkeys, 1, Len(c.fkeys)) = c.fkeys
    BY <1>1, <1>4, <2>1, <2>2, PrefixIs
  <2>4. QED
    BY <2>1, <2>3
<1>10. c = [tables |-> c.tables, fkeys |-> c.fkeys]
  BY DEF Route, Chain
<1>11. n \in 1 .. n /\ n # 0
  BY <1>1
<1>12. QED
  BY <1>1, <1>3, <1>4, <1>6, <1>7, <1>8, <1>9, <1>10, <1>11 DEF d

\* The chains of Extended are those of With.
LEMMA ExtendedIs ==
  ASSUME NEW C, NEW i, NEW t
  PROVE  /\ \A d \in Extended(C, i, t) : \E c \in C : t \notin Visits(c) /\ d = With(c, i, t)
         /\ \A c \in C : t \notin Visits(c) => With(c, i, t) \in Extended(C, i, t)
  BY DEF Extended, Visits, With

\* A query is being walked.
LEMMA LastQuery ==
  ASSUME Inv, pc # "idle"
  PROVE  /\ queries \in Seq([base : Tables, extended : BOOLEAN]) /\ queries # <<>>
         /\ Len(queries) \in DOMAIN queries /\ Last(queries) = queries[Len(queries)]
         /\ Last(queries).base \in Tables /\ Last(queries).extended \in BOOLEAN
<1> DEFINE Q == [base : Tables, extended : BOOLEAN]
<1>1. queries \in Seq(Q) /\ queries # <<>>
  BY DEF Inv, Owned, TypeOK
<1> HIDE DEF Q
<1>2. Len(queries) \in DOMAIN queries /\ queries[Len(queries)] \in Q
  <2>1. Len(queries) \in Nat /\ DOMAIN queries = 1 .. Len(queries)
    BY <1>1
  <2>2. Len(queries) # 0
    BY <1>1, EmptySeq
  <2>3. Len(queries) \in DOMAIN queries
    BY <2>1, <2>2
  <2>4. QED
    BY <1>1, <2>3
<1>3. QED
  BY <1>1, <1>2 DEF Last, Q

LEMMA UpWalked ==
  ASSUME Inv, Headed, Inv', Headed', NEW q, q = Last(queries), Distinct(q), WalkedBy(q),
         NEW j \in toVisit, Up(j)
  PROVE  WalkedBy(q)'
<1> DEFINE s == To(j)
           x == From(j)
<1>1. /\ TypeOK /\ Fkeys' = Fkeys /\ j \in Fkeys /\ s \in Tables /\ x \in Tables
      /\ UNCHANGED <<catalog, queries, saved, pc>> /\ pc = "up" /\ pc # "idle" /\ pc # "down"
      /\ toVisit \subseteq Fkeys /\ visited \subseteq Fkeys
  BY EndsType, SameCatalog DEF Inv, TypeOK, Up
<1>2. /\ joins \in [Tables -> SUBSET Chain]
      /\ joins' = [joins EXCEPT ![x] = @ \cup Extended(joins[s], j, x)]
      /\ visited' = visited \cup {j} /\ toVisit' = (toVisit \ {j}) \cup ReferencedBy(x)
  BY <1>1 DEF TypeOK, Up
<1>3. /\ joins'[x] = joins[x] \cup Extended(joins[s], j, x)
      /\ \A t \in Tables : t # x => joins'[t] = joins[t]
      /\ \A t \in Tables : joins[t] \subseteq joins'[t]
  BY <1>1, <1>2
<1>5. q.extended
  BY <1>1 DEF Headed
<1>6. /\ Start(q) \in joins[q.base]
      /\ \A t \in Tables : \A c \in joins[t] :
           Len(c.fkeys) # 0 => Front(c) \in joins[c.tables[Len(c.fkeys)]]
      /\ \A i \in toVisit : joins[To(i)] # {}
      /\ \A i \in visited : joins[To(i)] # {} /\ \E c \in joins[From(i)] : To(i) \in Visits(c)
      /\ \A i \in Fkeys : \A c \in joins[To(i)] :
           \/ From(i) \in Visits(c) \/ With(c, i, From(i)) \in joins[From(i)]
           \/ i \in toVisit \ visited
  BY <1>1 DEF WalkedBy
<1>7. \A t \in Tables : \A c \in joins[t] : Route(c, q, t) /\ Turns(c, Len(c.fkeys))
  BY <1>1, JoinsRoutes DEF Headed
<1>8. \A t \in Tables : \A c \in joins'[t] : Route(c, q, t)
  <2>1. /\ TypeOK' /\ JoinsArePaths' /\ Headed' /\ Last(queries)' = q
    BY <1>1 DEF Inv
  <2>2. ASSUME NEW t \in Tables, NEW c \in joins'[t] PROVE Route(c, q, t)'
    BY <2>1 DEF TypeOK, JoinsArePaths, Headed, Route
  <2>3. \A c, t : Route(c, q, t)' <=> Route(c, q, t)
    BY <1>1, SameCatalog
  <2>4. QED
    BY <2>2, <2>3
<1>9. ASSUME NEW t \in Tables, NEW c \in joins'[t], NEW d \in joins'[t] PROVE c = d
  BY <1>1, <1>5, <1>8, SameRoute DEF Distinct, Settled
<1>10. \A c \in joins[s] : x \notin Visits(c) /\ With(c, j, x) \in joins'[x]
  <2>1. \A c \in joins[s] : x \notin Visits(c)
    BY <1>1, <1>5, <1>7 DEF Distinct, NoWayUp
  <2>2. QED
    BY <1>3, <2>1, ExtendedIs
<1>11. ASSUME NEW d \in Extended(joins[s], j, x)
       PROVE  \E c \in joins[s] : d = With(c, j, x)
  BY ExtendedIs
<1>12. s # x
  <2>1. PICK c \in joins[s] : TRUE
    BY <1>6
  <2>2. s \in Visits(c)
    BY <1>1, <1>7, WithShape
  <2>3. QED
    BY <1>10, <2>2
<1> HIDE DEF s, x
<1>13. Start(q) \in joins'[q.base]
  <2>1. q.base \in Tables
    BY <1>1, LastQuery
  <2>2. QED
    BY <1>3, <1>6, <2>1
<1>14. ASSUME NEW t \in Tables, NEW c \in joins'[t], Len(c.fkeys) # 0
       PROVE  Front(c) \in joins'[c.tables[Len(c.fkeys)]]
  <2>1. CASE c \in joins[t]
    <3>1. Front(c) \in joins[c.tables[Len(c.fkeys)]]
      BY <1>6, <1>14, <2>1
    <3>2. c.tables[Len(c.fkeys)] \in Tables
      <4>1. /\ c.tables \in Seq(Tables) /\ DOMAIN c.tables = 1 .. Len(c.fkeys) + 1
            /\ Len(c.fkeys) \in Nat
        BY <1>1, <1>7, <2>1, RouteShape
      <4>2. Len(c.fkeys) \in 1 .. Len(c.fkeys) + 1
        BY <1>14, <4>1
      <4>3. QED
        BY <4>1, <4>2
    <3>3. QED
      BY <1>3, <3>1, <3>2
  <2>2. CASE c \notin joins[t]
    <3>1. t = x /\ c \in Extended(joins[s], j, x)
      BY <1>3, <1>14, <2>2
    <3>2. PICK d \in joins[s] : c = With(d, j, x)
      BY <1>11, <3>1
    <3>3. Front(c) = d /\ c.tables[Len(c.fkeys)] = s
      BY <1>1, <1>7, <3>2, WithShape
    <3>4. QED
      BY <1>1, <1>3, <3>3
  <2>3. QED
    BY <2>1, <2>2
<1>15. ASSUME NEW i \in toVisit' PROVE joins'[To(i)] # {}
  <2>1. CASE i \in toVisit
    BY <1>1, <1>3, <1>6, <2>1, EndsType
  <2>2. CASE i \notin toVisit
    <3>1. To(i) = x
      BY <1>2, <1>15, <2>2 DEF ReferencedBy
    <3>2. joins'[x] # {}
      BY <1>6, <1>10 DEF s
    <3>3. QED
      BY <3>1, <3>2
  <2>3. QED
    BY <2>1, <2>2
<1>16. ASSUME NEW i \in visited'
       PROVE  joins'[To(i)] # {} /\ \E c \in joins'[From(i)] : To(i) \in Visits(c)
  <2>1. CASE i \in visited
    BY <1>1, <1>3, <1>6, <2>1, EndsType
  <2>2. CASE i \notin visited
    <3>1. i = j
      BY <1>2, <1>16, <2>2
    <3>2. PICK c \in joins[s] : TRUE
      BY <1>6 DEF s
    <3>3. s \in Visits(With(c, j, x))
      BY <1>1, <1>7, WithShape
    <3>4. With(c, j, x) \in joins'[x] /\ joins'[s] # {}
      BY <1>1, <1>3, <1>10, <3>2
    <3>5. QED
      BY <3>1, <3>3, <3>4 DEF s, x
  <2>3. QED
    BY <2>1, <2>2
<1>17. ASSUME NEW i \in Fkeys, NEW c \in joins'[To(i)]
       PROVE  \/ From(i) \in Visits(c) \/ With(c, i, From(i)) \in joins'[From(i)]
              \/ i \in toVisit' \ visited'
  <2>1. From(i) \in Tables /\ To(i) \in Tables
    BY <1>1, EndsType
  <2>2. CASE c \in joins[To(i)]
    <3>1. \/ From(i) \in Visits(c) \/ With(c, i, From(i)) \in joins[From(i)]
          \/ i \in toVisit \ visited
      BY <1>6, <2>2
    <3>2. CASE i \in toVisit \ visited /\ i # j
      BY <1>2, <3>2
    <3>3. CASE i = j
      BY <1>10, <2>2, <3>3 DEF s, x
    <3>4. QED
      BY <1>3, <2>1, <3>1, <3>2, <3>3
  <2>3. CASE c \notin joins[To(i)]
    <3>1. To(i) = x
      BY <1>3, <2>1, <2>3
    <3>2. i \in toVisit' /\ i # j
      BY <1>2, <1>12, <3>1 DEF ReferencedBy, s
    <3>3. i \notin visited
      <4>1. ASSUME i \in visited PROVE FALSE
        <5>1. PICK d \in joins[x] : TRUE
          BY <1>6, <3>1, <4>1
        <5>2. d \in joins'[x] /\ c \in joins'[x]
          BY <1>3, <3>1
        <5>3. c = d
          BY <1>1, <1>9, <5>2
        <5>4. QED
          BY <2>3, <3>1, <5>1, <5>3
      <4>2. QED
        BY <4>1
    <3>4. QED
      BY <1>2, <3>2, <3>3
  <2>4. QED
    BY <2>2, <2>3
<1>18. pc' = "up" /\ \A i : From(i)' = From(i) /\ To(i)' = To(i)
  BY <1>1, SameCatalog
<1>19. QED
  BY <1>1, <1>13, <1>14, <1>15, <1>16, <1>17, <1>18 DEF WalkedBy

\* The joins that a query may have after a step are routes again.
LEMMA StillRoutes ==
  ASSUME Inv', Headed', NEW q, q = Last(queries)', catalog' = catalog,
         NEW t \in Tables, NEW c \in joins'[t]
  PROVE  Route(c, q, t)
<1>1. /\ TypeOK' /\ JoinsArePaths' /\ Headed' /\ Last(queries)' = q
  BY DEF Inv
<1>2. Route(c, q, t)'
  BY <1>1 DEF TypeOK, JoinsArePaths, Headed, Route
<1>3. Route(c, q, t)' <=> Route(c, q, t)
  BY SameCatalog
<1>4. QED
  BY <1>2, <1>3

LEMMA DownWalked ==
  ASSUME Inv, Headed, Inv', Headed', NEW q, q = Last(queries), Distinct(q), WalkedBy(q),
         NEW j \in toVisit, Down(j)
  PROVE  WalkedBy(q)'
<1> DEFINE s == From(j)
           x == To(j)
<1>1. /\ TypeOK /\ Fkeys' = Fkeys /\ j \in Fkeys /\ s \in Tables /\ x \in Tables
      /\ UNCHANGED <<catalog, queries, saved, pc>> /\ pc = "down" /\ pc # "idle" /\ pc # "up"
      /\ toVisit \subseteq Fkeys /\ visited \subseteq Fkeys
  BY EndsType, SameCatalog DEF Inv, TypeOK, Down
<1>2. /\ joins \in [Tables -> SUBSET Chain]
      /\ joins' = [joins EXCEPT ![x] = @ \cup Extended(joins[s], j, x)]
      /\ visited' = visited \cup {j} /\ toVisit' = (toVisit \ {j}) \cup ConstraintsOf({x})
  BY <1>1 DEF TypeOK, Down
<1>3. /\ joins'[x] = joins[x] \cup Extended(joins[s], j, x)
      /\ \A t \in Tables : t # x => joins'[t] = joins[t]
      /\ \A t \in Tables : joins[t] \subseteq joins'[t]
  BY <1>1, <1>2
<1>6. /\ Start(q) \in joins[q.base]
      /\ \A t \in Tables : \A c \in joins[t] :
           Len(c.fkeys) # 0 => Front(c) \in joins[c.tables[Len(c.fkeys)]]
      /\ \A i \in toVisit \cup visited : joins[From(i)] # {}
      /\ q.extended =>
           \A i \in Fkeys : \A c \in joins[To(i)] : Turns(c, Len(c.fkeys)) =>
             From(i) \in Visits(c) \/ With(c, i, From(i)) \in joins[From(i)]
      /\ \A i \in Fkeys : \A c \in joins[From(i)] :
           \/ To(i) \in Visits(c) \/ With(c, i, To(i)) \in joins[To(i)]
           \/ i \in toVisit \ visited
  BY <1>1 DEF WalkedBy
<1>7. \A t \in Tables : \A c \in joins[t] : Route(c, q, t)
  BY <1>1, JoinsRoutes
<1>8. \A t \in Tables : \A c \in joins'[t] : Route(c, q, t)
  BY <1>1, StillRoutes
<1>9. ASSUME NEW t \in Tables, NEW c \in joins'[t], NEW d \in joins'[t], Settled(q, t) PROVE c = d
  BY <1>1, <1>8, <1>9, SameRoute DEF Distinct
<1>10. \A c \in joins[s] : x \notin Visits(c) => With(c, j, x) \in joins'[x]
  BY <1>3, ExtendedIs
<1>11. ASSUME NEW d \in Extended(joins[s], j, x)
       PROVE  \E c \in joins[s] : x \notin Visits(c) /\ d = With(c, j, x)
  BY ExtendedIs
<1>12. joins'[x] # {}
  <2>1. PICK c \in joins[s] : TRUE
    BY <1>6
  <2>2. CASE x \in Visits(c)
    <3>1. Route(c, q, From(j)) /\ To(j) \in Visits(c)
      BY <1>1, <1>7, <2>2
    <3>2. Len(c.fkeys) # 0 /\ c.fkeys[Len(c.fkeys)] = j /\ Rises(c, Len(c.fkeys))
      BY <1>1, <3>1 DEF Distinct, NoWayDown
    <3>3. Front(c) \in joins[x]
      BY <1>1, <1>6, <3>2 DEF Rises
    <3>4. QED
      BY <1>1, <1>3, <3>3
  <2>3. QED
    BY <1>10, <2>2
<1> HIDE DEF s, x
<1>13. Start(q) \in joins'[q.base]
  <2>1. q.base \in Tables
    BY <1>1, LastQuery
  <2>2. QED
    BY <1>3, <1>6, <2>1
<1>14. ASSUME NEW t \in Tables, NEW c \in joins'[t], Len(c.fkeys) # 0
       PROVE  Front(c) \in joins'[c.tables[Len(c.fkeys)]]
  <2>1. CASE c \in joins[t]
    <3>1. Front(c) \in joins[c.tables[Len(c.fkeys)]]
      BY <1>6, <1>14, <2>1
    <3>2. c.tables[Len(c.fkeys)] \in Tables
      <4>1. /\ c.tables \in Seq(Tables) /\ DOMAIN c.tables = 1 .. Len(c.fkeys) + 1
            /\ Len(c.fkeys) \in Nat
        BY <1>1, <1>7, <2>1, RouteShape
      <4>2. Len(c.fkeys) \in 1 .. Len(c.fkeys) + 1
        BY <1>14, <4>1
      <4>3. QED
        BY <4>1, <4>2
    <3>3. QED
      BY <1>3, <3>1, <3>2
  <2>2. CASE c \notin joins[t]
    <3>1. t = x /\ c \in Extended(joins[s], j, x)
      BY <1>3, <1>14, <2>2
    <3>2. PICK d \in joins[s] : c = With(d, j, x)
      BY <1>11, <3>1
    <3>3. Front(c) = d /\ c.tables[Len(c.fkeys)] = s
      BY <1>1, <1>7, <3>2, WithShape
    <3>4. QED
      BY <1>1, <1>3, <3>3
  <2>3. QED
    BY <2>1, <2>2
<1>15. ASSUME NEW i \in toVisit' \cup visited' PROVE joins'[From(i)] # {}
  <2>1. CASE i \in toVisit \cup visited
    BY <1>1, <1>3, <1>6, <2>1, EndsType
  <2>2. CASE i \notin toVisit \cup visited
    <3>1. From(i) = x
      BY <1>2, <1>15, <2>2 DEF ConstraintsOf
    <3>2. QED
      BY <1>12, <3>1
  <2>3. QED
    BY <2>1, <2>2
<1>16. ASSUME q.extended, NEW i \in Fkeys, NEW c \in joins'[To(i)], Turns(c, Len(c.fkeys))
       PROVE  From(i) \in Visits(c) \/ With(c, i, From(i)) \in joins'[From(i)]
  <2>1. From(i) \in Tables /\ To(i) \in Tables
    BY <1>1, EndsType
  <2>2. CASE c \in joins[To(i)]
    BY <1>3, <1>6, <1>16, <2>1, <2>2
  <2>3. CASE c \notin joins[To(i)]
    <3>1. To(i) = x /\ c \in Extended(joins[s], j, x)
      BY <1>3, <2>1, <2>3
    <3>2. PICK d \in joins[s] : x \notin Visits(d) /\ c = With(d, j, x)
      BY <1>11, <3>1
    <3>3. /\ Len(c.fkeys) # 0 /\ c.tables[Len(c.fkeys)] = s /\ c.fkeys[Len(c.fkeys)] = j
          /\ s \in Visits(d)
      BY <1>1, <1>7, <3>2, WithShape
    <3>4. Len(c.fkeys) \in DOMAIN c.fkeys /\ Len(c.fkeys) <= Len(c.fkeys)
      <4>1. Len(c.fkeys) \in Nat /\ DOMAIN c.fkeys = 1 .. Len(c.fkeys)
        BY <1>1, <1>8, <2>1, RouteShape
      <4>2. QED
        BY <3>3, <4>1
    <3>5. s = x
      BY <1>16, <3>3, <3>4 DEF Turns, Rises, x
    <3>6. QED
      BY <3>2, <3>3, <3>5
  <2>4. QED
    BY <2>2, <2>3
<1>17. ASSUME NEW i \in Fkeys, NEW c \in joins'[From(i)]
       PROVE  \/ To(i) \in Visits(c) \/ With(c, i, To(i)) \in joins'[To(i)]
              \/ i \in toVisit' \ visited'
  <2>1. From(i) \in Tables /\ To(i) \in Tables
    BY <1>1, EndsType
  <2>2. CASE c \in joins[From(i)]
    <3>1. \/ To(i) \in Visits(c) \/ With(c, i, To(i)) \in joins[To(i)]
          \/ i \in toVisit \ visited
      BY <1>6, <2>2
    <3>2. CASE i \in toVisit \ visited /\ i # j
      BY <1>2, <3>2
    <3>3. CASE i = j
      BY <1>10, <2>2, <3>3 DEF s, x
    <3>4. QED
      BY <1>3, <2>1, <3>1, <3>2, <3>3
  <2>3. CASE c \notin joins[From(i)]
    <3>1. From(i) = x /\ c \in Extended(joins[s], j, x)
      BY <1>3, <2>1, <2>3
    <3>2. PICK d \in joins[s] : x \notin Visits(d) /\ c = With(d, j, x)
      BY <1>11, <3>1
    <3>3. s \in Visits(d)
      BY <1>1, <1>7, <3>2, WithShape
    <3>4. i \in toVisit' /\ i # j
      BY <1>2, <3>1, <3>2, <3>3 DEF ConstraintsOf, s
    <3>5. i \notin visited
      <4>1. ASSUME i \in visited PROVE FALSE
        <5>1. PICK e \in joins[x] : TRUE
          BY <1>6, <3>1, <4>1
        <5>2. e \in joins'[x] /\ c \in joins'[x] /\ Settled(q, x)
          BY <1>3, <3>1 DEF Settled
        <5>3. c = e
          BY <1>1, <1>9, <5>2
        <5>4. QED
          BY <2>3, <3>1, <5>1, <5>3
      <4>2. QED
        BY <4>1
    <3>6. QED
      BY <1>2, <3>4, <3>5
  <2>4. QED
    BY <2>2, <2>3
<1>18. /\ pc' = "down" /\ \A i : From(i)' = From(i) /\ To(i)' = To(i)
       /\ \A c, m : Turns(c, m)' <=> Turns(c, m)
  BY <1>1, SameCatalog
<1>19. QED
  BY <1>1, <1>13, <1>14, <1>15, <1>16, <1>17, <1>18 DEF WalkedBy

LEMMA SkipWalked ==
  ASSUME Inv, NEW q, WalkedBy(q), NEW j \in toVisit, Skip(j) PROVE WalkedBy(q)'
<1>1. /\ UNCHANGED <<catalog, pc, joins, visited>> /\ toVisit' = toVisit \ {j} /\ j \in visited
  BY DEF Skip, IsNew
<1>2. /\ Fkeys' = Fkeys /\ \A i : From(i)' = From(i) /\ To(i)' = To(i)
      /\ \A c, m : Turns(c, m)' <=> Turns(c, m)
  BY <1>1, SameCatalog
<1>3. toVisit' \ visited' = toVisit \ visited /\ toVisit' \subseteq toVisit
  BY <1>1
<1>4. QED
  BY <1>1, <1>2, <1>3 DEF WalkedBy

LEMMA TurnWalked ==
  ASSUME Inv, Headed, NEW q, q = Last(queries), Distinct(q), WalkedBy(q), Turn
  PROVE  WalkedBy(q)'
<1>1. /\ UNCHANGED <<catalog, joins, visited>> /\ toVisit' = ConstraintsOf(Known)
      /\ pc = "up" /\ pc' = "down" /\ pc' # "up" /\ toVisit = {}
  BY DEF Turn
<1>2. /\ Fkeys' = Fkeys /\ \A i : From(i)' = From(i) /\ To(i)' = To(i)
      /\ \A c, m : Turns(c, m)' <=> Turns(c, m)
  BY <1>1, SameCatalog
<1>3. TypeOK /\ q.extended /\ visited \subseteq Fkeys
  BY <1>1 DEF Inv, TypeOK, Headed
<1>4. /\ Start(q) \in joins[q.base]
      /\ \A t \in Tables : \A c \in joins[t] :
           Len(c.fkeys) # 0 => Front(c) \in joins[c.tables[Len(c.fkeys)]]
      /\ \A i \in visited : joins[To(i)] # {} /\ \E c \in joins[From(i)] : To(i) \in Visits(c)
      /\ \A i \in Fkeys : \A c \in joins[To(i)] :
           From(i) \in Visits(c) \/ With(c, i, From(i)) \in joins[From(i)]
  BY <1>1 DEF WalkedBy
<1>5. \A t \in Tables : \A c \in joins[t] : Route(c, q, t)
  BY JoinsRoutes
<1>6. \A i \in toVisit' \cup visited' : joins[From(i)] # {}
  BY <1>1, <1>4 DEF ConstraintsOf, Known
<1>7. ASSUME NEW i \in Fkeys, NEW c \in joins[From(i)]
      PROVE  To(i) \in Visits(c) \/ i \in toVisit' \ visited'
  <2>1. From(i) \in Tables
    BY <1>3, EndsType
  <2>2. i \in toVisit'
    BY <1>1, <2>1 DEF ConstraintsOf, Known
  <2>3. ASSUME i \in visited PROVE To(i) \in Visits(c)
    <3>1. PICK d \in joins[From(i)] : To(i) \in Visits(d)
      BY <1>4, <2>3
    <3>2. Route(c, q, From(i)) /\ Route(d, q, From(i)) /\ Settled(q, From(i))
      BY <1>3, <1>5, <2>1 DEF Settled
    <3>3. c = d
      BY <1>3, <3>2, SameRoute DEF Distinct
    <3>4. QED
      BY <3>1, <3>3
  <2>4. QED
    BY <1>1, <2>2, <2>3
<1>8. QED
  BY <1>1, <1>2, <1>4, <1>6, <1>7 DEF WalkedBy

\* A new query.
LEMMA SubsetWalked ==
  ASSUME Inv, NEW b \in Tables, NEW e \in BOOLEAN, Subset(b, e),
         NEW q, q = [base |-> b, extended |-> e]
  PROVE  WalkedBy(q)'
<1>1. /\ catalog' = catalog /\ visited' = {} /\ toVisit' = FirstVisit(b, e)
      /\ joins' = [u \in Tables |-> IF u = b THEN {Start(q)} ELSE {}]
      /\ (e => pc' = "up" /\ pc' # "down") /\ (~e => pc' = "down" /\ pc' # "up")
      /\ q.base = b /\ q.extended = e
  BY DEF Subset, Start
<1>2. /\ Fkeys' = Fkeys /\ \A i : From(i)' = From(i) /\ To(i)' = To(i)
      /\ \A c, m : Turns(c, m)' <=> Turns(c, m)
  BY <1>1, SameCatalog
<1>3. joins'[b] = {Start(q)} /\ \A t \in Tables : t # b => joins'[t] = {}
  BY <1>1
<1>4. Len(Start(q).fkeys) = 0
  BY DEF Start
<1>5. \A i \in Fkeys : From(i) \in Tables /\ To(i) \in Tables
  BY EndsType DEF Inv
<1>6. CASE e
  <2>1. toVisit' = ReferencedBy(b)
    BY <1>1, <1>6 DEF FirstVisit
  <2>2. \A i \in toVisit' : joins'[To(i)] # {}
    BY <1>3, <2>1 DEF ReferencedBy
  <2>3. ASSUME NEW i \in Fkeys, NEW c \in joins'[To(i)] PROVE i \in toVisit' \ visited'
    BY <1>1, <1>3, <1>5, <2>1 DEF ReferencedBy
  <2>4. pc' = "up" /\ pc' # "down"
    BY <1>1, <1>6
  <2>5. QED
    BY <1>1, <1>2, <1>3, <1>4, <2>2, <2>3, <2>4 DEF WalkedBy
<1>7. CASE ~e
  <2>1. toVisit' = ConstraintsOf({b})
    BY <1>1, <1>7 DEF FirstVisit
  <2>2. \A i \in toVisit' \cup visited' : joins'[From(i)] # {}
    BY <1>1, <1>3, <2>1 DEF ConstraintsOf
  <2>3. ASSUME NEW i \in Fkeys, NEW c \in joins'[From(i)] PROVE i \in toVisit' \ visited'
    BY <1>1, <1>3, <1>5, <2>1 DEF ConstraintsOf
  <2>4. pc' = "down" /\ pc' # "up" /\ ~q.extended
    BY <1>1, <1>7
  <2>5. QED
    BY <1>1, <1>2, <1>3, <1>4, <2>2, <2>3, <2>4 DEF WalkedBy
<1>8. QED
  BY <1>6, <1>7

(***************************************************************************)
(* What is saved is finished.                                              *)
(***************************************************************************)

LEMMA WalkedFinishes ==
  ASSUME Inv, Headed, NEW q, q = Last(queries), WalkedBy(q), Finish
  PROVE  Finished(joins, q)
<1>1. TypeOK /\ pc = "down" /\ toVisit = {} /\ \A t \in Tables : \A c \in joins[t] : Route(c, q, t)
  BY JoinsRoutes DEF Inv, Finish
<1>2. QED
  BY <1>1 DEF WalkedBy, Finished

\* Finished looks at the chains of tables only.
LEMMA FinishedAlike ==
  ASSUME TypeOK, NEW q, q.base \in Tables, NEW J, NEW K, \A t \in Tables : J[t] = K[t], Finished(J, q)
  PROVE  Finished(K, q)
<1>1. /\ \A t \in Tables : \A c \in K[t] : Route(c, q, t)
      /\ Start(q) \in K[q.base]
  BY DEF Finished
<1>2. ASSUME NEW t \in Tables, NEW c \in K[t], Len(c.fkeys) # 0
      PROVE  Front(c) \in K[c.tables[Len(c.fkeys)]]
  <2>1. Front(c) \in J[c.tables[Len(c.fkeys)]]
    BY <1>2 DEF Finished
  <2>2. c.tables[Len(c.fkeys)] \in Tables
    <3>1. /\ c.tables \in Seq(Tables) /\ DOMAIN c.tables = 1 .. Len(c.fkeys) + 1
          /\ Len(c.fkeys) \in Nat
      BY <1>1, RouteShape
    <3>2. Len(c.fkeys) \in 1 .. Len(c.fkeys) + 1
      BY <1>2, <3>1
    <3>3. QED
      BY <3>1, <3>2
  <2>3. QED
    BY <2>1, <2>2
<1>3. \A i \in Fkeys : From(i) \in Tables /\ To(i) \in Tables
  BY EndsType
<1>4. QED
  BY <1>1, <1>2, <1>3 DEF Finished

LEMMA FinishSaved ==
  ASSUME Inv, Headed, Walked, Saved, Finish PROVE Walked' /\ Saved'
<1>1. /\ TypeOK /\ UNCHANGED <<catalog, queries>> /\ pc = "down" /\ pc # "idle" /\ pc' = "idle"
      /\ saved' = [t \in Tables |->
                     saved[t] \cup {[query |-> Len(queries), chain |-> c] : c \in joins[t]}]
  BY DEF Inv, Finish
<1>2. PICK q : q = Last(queries)
  OBVIOUS
<1>3. q = queries[Len(queries)] /\ q.base \in Tables
  BY <1>1, <1>2, LastQuery
<1>4. ASSUME NEW n \in DOMAIN queries, Distinct(queries[n])
      PROVE  Finished(ChainsOf(n)', queries[n])
  <2>1. CASE n = Len(queries)
    <3>1. Finished(joins, q)
      <4>1. WalkedBy(q)
        BY <1>1, <1>2, <1>3, <1>4, <2>1 DEF Walked
      <4>2. QED
        BY <1>2, <4>1, WalkedFinishes
    <3>2. ASSUME NEW t \in Tables PROVE joins[t] = ChainsOf(n)'[t]
      <4>1. ChainsOf(n)'[t] = {j.chain : j \in {k \in saved'[t] : k.query = n}}
        BY DEF ChainsOf
      <4>2. {k \in saved'[t] : k.query = n} = {[query |-> n, chain |-> c] : c \in joins[t]}
        <5>1. \A k \in saved[t] : k.query # n
          BY <1>1, <2>1 DEF Saved
        <5>2. \A k \in {[query |-> n, chain |-> c] : c \in joins[t]} : k.query = n
          OBVIOUS
        <5>3. saved'[t] = saved[t] \cup {[query |-> n, chain |-> c] : c \in joins[t]}
          BY <1>1, <2>1
        <5>4. QED
          BY <5>1, <5>2, <5>3
      <4> DEFINE R == {[query |-> n, chain |-> c] : c \in joins[t]}
      <4>3. (\A j \in R : j.chain \in joins[t]) /\ (\A c \in joins[t] : \E j \in R : j.chain = c)
        <5>1. \A c \in joins[t] : [query |-> n, chain |-> c] \in R /\ [query |-> n, chain |-> c].chain = c
          OBVIOUS
        <5>2. QED
          BY <5>1
      <4>4. {j.chain : j \in R} = joins[t]
        <5> HIDE DEF R
        <5>1. QED
          BY <4>3
      <4>5. QED
        BY <4>1, <4>2, <4>4
    <3>3. QED
      BY <1>1, <1>3, <2>1, <3>1, <3>2, FinishedAlike
  <2>2. CASE n # Len(queries)
    <3>1. Finished(ChainsOf(n), queries[n])
      BY <1>4, <2>2 DEF Saved
    <3>2. ASSUME NEW t \in Tables PROVE ChainsOf(n)[t] = ChainsOf(n)'[t]
      <4>1. {k \in saved'[t] : k.query = n} = {k \in saved[t] : k.query = n}
        BY <1>1, <2>2
      <4>2. QED
        BY <4>1 DEF ChainsOf
    <3>3. queries[n].base \in Tables
      <4> DEFINE Q == [base : Tables, extended : BOOLEAN]
      <4>1. queries \in Seq(Q)
        BY <1>1 DEF TypeOK
      <4> HIDE DEF Q
      <4>2. queries[n] \in Q
        BY <1>4, <4>1
      <4>3. QED
        BY <4>2 DEF Q
    <3>4. QED
      BY <1>1, <3>1, <3>2, <3>3, FinishedAlike
  <2>3. QED
    BY <2>1, <2>2
<1>5. Walked'
  BY <1>1 DEF Walked
<1>6. ASSUME NEW n \in DOMAIN queries', Distinct(queries[n])' PROVE Finished(ChainsOf(n), queries[n])'
  <2>1. n \in DOMAIN queries /\ queries'[n] = queries[n]
    BY <1>1
  <2>2. PICK p : p = queries[n]
    OBVIOUS
  <2>3. Distinct(p)
    <3>1. Distinct(p)'
      BY <1>6, <2>1, <2>2
    <3>2. QED
      BY <1>1, <3>1, SameCatalog
  <2>4. PICK J : J = ChainsOf(n)'
    OBVIOUS
  <2>5. Finished(J, p)
    BY <1>4, <2>1, <2>2, <2>3, <2>4
  <2>6. Finished(J, p)'
    BY <1>1, <2>5, SameCatalog
  <2>7. QED
    BY <2>1, <2>2, <2>4, <2>6
<1>7. Saved'
  BY <1>1, <1>6 DEF Saved
<1>8. QED
  BY <1>5, <1>7

LEMMA SubsetSaved ==
  ASSUME Inv, Walked, Saved, NEW b \in Tables, NEW e \in BOOLEAN, Subset(b, e)
  PROVE  Walked' /\ Saved'
<1> DEFINE Q == [base : Tables, extended : BOOLEAN]
           m == Len(queries)
<1>1. PICK q : q = [base |-> b, extended |-> e]
  OBVIOUS
<1>2. /\ TypeOK /\ UNCHANGED <<catalog, saved>> /\ pc = "idle" /\ pc' # "idle"
      /\ queries \in Seq(Q) /\ queries' = Append(queries, q) /\ q \in Q
      /\ \A t \in Tables : \A j \in saved[t] : j.query \in DOMAIN queries
  BY <1>1 DEF Inv, TypeOK, Subset
<1> HIDE DEF Q
<1>3. /\ m \in Nat /\ Len(queries') = m + 1 /\ queries'[m + 1] = q
      /\ DOMAIN queries = 1 .. m /\ DOMAIN queries' = 1 .. m + 1
      /\ \A n \in 1 .. m : queries'[n] = queries[n]
  BY <1>2, AppendProperties
<1>4. Last(queries)' = q
  BY <1>3 DEF Last
<1>5. WalkedBy(q)'
  BY <1>1, SubsetWalked
<1>6. Walked'
  BY <1>4, <1>5 DEF Walked
<1>7. ASSUME NEW t \in Tables, NEW j \in saved'[t] PROVE j.query # Len(queries')
  BY <1>2, <1>3
<1>8. ASSUME NEW n \in DOMAIN queries', Distinct(queries[n])', n # Len(queries')
      PROVE  Finished(ChainsOf(n), queries[n])'
  <2>1. n \in DOMAIN queries /\ queries'[n] = queries[n]
    BY <1>3, <1>8
  <2>2. PICK p : p = queries[n]
    OBVIOUS
  <2>3. Distinct(p)
    <3>1. Distinct(p)'
      BY <1>8, <2>1, <2>2
    <3>2. QED
      BY <1>2, <3>1, SameCatalog
  <2>4. PICK J : J = ChainsOf(n)
    OBVIOUS
  <2>5. Finished(J, p)
    BY <1>2, <2>1, <2>2, <2>3, <2>4 DEF Saved
  <2>6. Finished(J, p)'
    BY <1>2, <2>5, SameCatalog
  <2>7. ChainsOf(n)' = J
    BY <1>2, <2>4 DEF ChainsOf
  <2>8. QED
    BY <2>1, <2>2, <2>6, <2>7
<1>9. Saved'
  BY <1>2, <1>7, <1>8 DEF Saved
<1>10. QED
  BY <1>6, <1>9

\* The steps of the loops save nothing.
LEMMA LoopSaved ==
  ASSUME Saved, UNCHANGED <<catalog, queries, saved>>, pc # "idle", pc' # "idle"
  PROVE  Saved'
<1>1. ASSUME NEW t \in Tables, NEW j \in saved'[t] PROVE j.query # Len(queries')
  BY DEF Saved
<1>2. ASSUME NEW n \in DOMAIN queries', Distinct(queries[n])', n # Len(queries')
      PROVE  Finished(ChainsOf(n), queries[n])'
  <2>1. n \in DOMAIN queries /\ n # Len(queries)
    BY <1>2
  <2>2. PICK p : p = queries[n]
    OBVIOUS
  <2>3. Distinct(p)
    <3>1. Distinct(p)'
      BY <1>2, <2>2
    <3>2. QED
      BY <3>1, SameCatalog
  <2>4. PICK J : J = ChainsOf(n)
    OBVIOUS
  <2>5. Finished(J, p)
    BY <2>1, <2>2, <2>3, <2>4 DEF Saved
  <2>6. Finished(J, p)'
    BY <2>5, SameCatalog
  <2>7. ChainsOf(n)' = J
    BY <2>4 DEF ChainsOf
  <2>8. QED
    BY <2>2, <2>6, <2>7
<1>3. QED
  BY <1>1, <1>2 DEF Saved

LEMMA LoopWalked ==
  ASSUME AInv, Inv', Headed', (\E i \in toVisit : Skip(i) \/ Up(i) \/ Down(i)) \/ Turn
  PROVE  Walked' /\ Saved'
<1>1. UNCHANGED <<catalog, queries, saved>> /\ pc # "idle" /\ pc' # "idle"
  BY DEF Skip, Up, Down, Turn
<1>2. Saved'
  BY <1>1, LoopSaved DEF AInv
<1>3. PICK q : q = Last(queries)
  OBVIOUS
<1>4. ASSUME Distinct(q) PROVE WalkedBy(q)'
  <2>1. Inv /\ Headed /\ WalkedBy(q)
    BY <1>1, <1>3, <1>4 DEF AInv, Walked
  <2>2. ASSUME NEW i \in toVisit, Skip(i) PROVE WalkedBy(q)'
    BY <2>1, <2>2, SkipWalked
  <2>3. ASSUME NEW i \in toVisit, Up(i) PROVE WalkedBy(q)'
    BY <1>3, <1>4, <2>1, <2>3, UpWalked
  <2>4. ASSUME NEW i \in toVisit, Down(i) PROVE WalkedBy(q)'
    BY <1>3, <1>4, <2>1, <2>4, DownWalked
  <2>5. ASSUME Turn PROVE WalkedBy(q)'
    BY <1>3, <1>4, <2>1, <2>5, TurnWalked
  <2>6. QED
    BY <2>2, <2>3, <2>4, <2>5
<1>5. Distinct(q)' => Distinct(q)
  BY <1>1, SameCatalog
<1>6. Last(queries)' = q
  BY <1>1, <1>3 DEF Last
<1>7. Walked'
  BY <1>4, <1>5, <1>6 DEF Walked
<1>8. QED
  BY <1>2, <1>7

LEMMA StutterSaved ==
  ASSUME Walked, Saved, UNCHANGED vars PROVE Walked' /\ Saved'
<1>1. UNCHANGED <<catalog, queries, saved, pc, toVisit, visited, joins>>
  BY DEF vars
<1>2. PICK q : q = Last(queries)
  OBVIOUS
<1>3. /\ Fkeys' = Fkeys /\ \A i : From(i)' = From(i) /\ To(i)' = To(i)
      /\ \A c, m : Turns(c, m)' <=> Turns(c, m)
      /\ \A p : Distinct(p)' <=> Distinct(p)
      /\ \A J, p : Finished(J, p)' <=> Finished(J, p)
  BY <1>1, SameCatalog
<1>4. Last(queries)' = q
  BY <1>1, <1>2 DEF Last
<1>5. WalkedBy(q) => WalkedBy(q)'
  BY <1>1, <1>3 DEF WalkedBy
<1>6. Walked'
  BY <1>1, <1>2, <1>3, <1>4, <1>5 DEF Walked
<1>7. ASSUME NEW n \in DOMAIN queries', Distinct(queries[n])', pc' = "idle" \/ n # Len(queries')
      PROVE  Finished(ChainsOf(n), queries[n])'
  <2>1. PICK p : p = queries[n]
    OBVIOUS
  <2>2. PICK J : J = ChainsOf(n)
    OBVIOUS
  <2>3. ChainsOf(n)' = J /\ queries'[n] = p
    BY <1>1, <2>1, <2>2 DEF ChainsOf
  <2>4. Distinct(p)
    <3>1. Distinct(p)'
      BY <1>7, <2>3
    <3>2. QED
      BY <1>3, <3>1
  <2>5. Finished(J, p)
    BY <1>1, <1>7, <2>1, <2>2, <2>4 DEF Saved
  <2>6. Finished(J, p)'
    BY <1>3, <2>5
  <2>7. QED
    BY <2>3, <2>6
<1>8. Saved'
  BY <1>1, <1>7 DEF Saved
<1>9. QED
  BY <1>6, <1>8

LEMMA InitAInv == Init => AInv
<1>1. SUFFICES ASSUME Init PROVE AInv
  OBVIOUS
<1>2. Walked
  BY <1>1 DEF Init, Walked
<1>3. Saved
  BY <1>1 DEF Init, Saved
<1>4. QED
  BY <1>1, <1>2, <1>3, InitInv, InitHeaded DEF AInv

LEMMA NextAInv == AInv /\ [Next]_vars => AInv'
<1>1. SUFFICES ASSUME AInv, [Next]_vars PROVE AInv'
  OBVIOUS
<1>2. Inv' /\ Headed'
  BY <1>1, NextInv, NextHeaded DEF AInv
<1>3. CASE (\E i \in toVisit : Skip(i) \/ Up(i) \/ Down(i)) \/ Turn
  BY <1>1, <1>2, <1>3, LoopWalked DEF AInv
<1>4. CASE Finish
  BY <1>1, <1>2, <1>4, FinishSaved DEF AInv
<1>5. ASSUME NEW t \in Tables, NEW extended \in BOOLEAN, Subset(t, extended) PROVE AInv'
  BY <1>1, <1>2, <1>5, SubsetSaved DEF AInv
<1>6. CASE UNCHANGED vars
  BY <1>1, <1>2, <1>6, StutterSaved DEF AInv
<1>7. QED
  BY <1>1, <1>3, <1>4, <1>5, <1>6 DEF Next, Walk

(***************************************************************************)
(* The paths of a simple query do not meet.                                *)
(***************************************************************************)

Near(q, S) ==
  S \cup {To(i) : i \in {j \in Fkeys : From(j) \in S}}
    \cup (IF q.extended THEN {From(i) : i \in {j \in Fkeys : To(j) \in S}} ELSE {})

Most == Cardinality(Tables)

Reaches(q, f) ==
  /\ f \in [0 .. Most -> SUBSET Tables] /\ f[0] = {q.base}
  /\ \A k \in 1 .. Most : f[k] = Near(q, f[k - 1])

Within(R) == {i \in Fkeys : From(i) \in R /\ To(i) \in R}

LEMMA MostType == Most \in Nat
  BY FS_CardinalityType, SubsetterAssumption DEF Most

LEMMA NearType ==
  ASSUME TypeOK, NEW q, NEW X \in SUBSET Tables
  PROVE  Near(q, X) \in SUBSET Tables
<1>1. \A i \in Fkeys : From(i) \in Tables /\ To(i) \in Tables
  BY EndsType
<1>2. QED
  BY <1>1 DEF Near

LEMMA SimpleReaches ==
  ASSUME TypeOK, NEW q, q.base \in Tables, Simple(q)
  PROVE  \E f : /\ Reaches(q, f)
                /\ q.extended => Cardinality(Within(f[Most])) = Cardinality(f[Most]) - 1
                /\ ~q.extended =>
                     \A i \in Within(f[Most]) :
                       Cardinality({j \in Within(f[Most]) : To(j) = From(i)})
                         <= IF From(i) = q.base THEN 0 ELSE 1
<1> DEFINE step == [k \in Nat |-> [X \in SUBSET Tables |-> Near(q, X)]]
           Is(v) == v = [k \in 0 .. Most |->
                      IF k = 0 THEN {q.base} ELSE Near(q, v[k - 1])]
<1>2. step \in [Nat -> [SUBSET Tables -> SUBSET Tables]]
  BY NearType
<1>3. PICK f : Iterates(f, SUBSET Tables, {q.base}, Most, step)
  <2> DEFINE D == SUBSET Tables
             S == {q.base}
  <2> HIDE DEF step
  <2>1. S \in D /\ Most \in Nat /\ step \in [Nat -> [D -> D]]
    BY <1>2, MostType
  <2> HIDE DEF D, S
  <2>2. \E f : Iterates(f, D, S, Most, step)
    BY <2>1, Iterated
  <2>3. QED
    BY <2>2 DEF D, S
<1>4. ASSUME NEW k \in 1 .. Most
      PROVE  f[k] = Near(q, f[k - 1])
  <2>1. f[k - 1] \in SUBSET Tables /\ k \in Nat
    BY <1>3, MostType DEF Iterates
  <2>2. step[k][f[k - 1]] = Near(q, f[k - 1])
    BY <2>1
  <2>3. QED
    BY <1>3, <2>2 DEF Iterates
<1> HIDE DEF step
<1>5. Is(f)
  <2>1. ASSUME NEW k \in 0 .. Most
        PROVE  f[k] = IF k = 0 THEN {q.base} ELSE Near(q, f[k - 1])
    BY <1>3, <1>4, MostType DEF Iterates
  <2>2. f = [k \in 0 .. Most |-> f[k]]
    BY <1>3 DEF Iterates
  <2>3. QED
    BY <2>1, <2>2
<1> DEFINE v == CHOOSE h : Is(h)
<1>6. Is(v)
  BY <1>5
<1>7. IF q.extended THEN Cardinality(Within(v[Most])) = Cardinality(v[Most]) - 1
      ELSE \A i \in Within(v[Most]) :
             Cardinality({j \in Within(v[Most]) : To(j) = From(i)})
               <= IF From(i) = q.base THEN 0 ELSE 1
  BY DEF Simple, Within, Most, Near
<1> HIDE DEF v
<1>8. v[0] = {q.base}
  BY <1>6, MostType
<1>9. ASSUME NEW k \in 1 .. Most
      PROVE  v[k] = Near(q, v[k - 1])
  <2>1. k \in 0 .. Most /\ k # 0
    BY MostType
  <2>2. QED
    BY <1>6, <2>1
<1>10. v \in [0 .. Most -> SUBSET Tables]
  <2> DEFINE Bad == {k \in 0 .. Most : v[k] \notin SUBSET Tables}
  <2>1. ASSUME Bad # {} PROVE FALSE
    <3>1. PICK k \in Bad : \A l \in Bad : ~(l < k)
      <4>1. Bad \subseteq Nat
        BY MostType
      <4> HIDE DEF Bad
      <4>2. QED
        BY <2>1, <4>1, Least
    <3>2. k \in 1 .. Most /\ k - 1 < k /\ k - 1 \in 0 .. Most
      BY <1>8, <3>1, MostType
    <3>3. v[k - 1] \in SUBSET Tables
      BY <3>1, <3>2
    <3>4. QED
      BY <1>9, <3>1, <3>2, <3>3, NearType
  <2>2. DOMAIN v = 0 .. Most /\ v = [k \in 0 .. Most |-> v[k]]
    BY <1>6
  <2>3. QED
    BY <2>1, <2>2
<1>11. Reaches(q, v)
  BY <1>8, <1>9, <1>10 DEF Reaches
<1>12. QED
  BY <1>7, <1>11

\* What is reached stays so.
LEMMA ReachGrows ==
  ASSUME NEW q, NEW f, Reaches(q, f), NEW m \in 0 .. Most, NEW n \in 0 .. Most, m <= n
  PROVE  f[m] \subseteq f[n]
<1>1. \A k \in 1 .. Most : f[k - 1] \subseteq f[k]
  BY DEF Reaches, Near
<1>2. QED
  BY <1>1, MostType, Grows

\* Routes lead through what is reached.
LEMMA RouteWithin ==
  ASSUME TypeOK, NEW q, NEW f, Reaches(q, f), NEW c, NEW t, Route(c, q, t)
  PROVE  /\ Len(c.tables) <= Most
         /\ \A k \in 1 .. Len(c.tables) : c.tables[k] \in f[k - 1] /\ c.tables[k] \in f[Most]
         /\ \A k \in 1 .. Len(c.fkeys) : c.fkeys[k] \in Within(f[Most])
<1> DEFINE n == Len(c.tables)
<1>1. /\ c.tables \in Seq(Tables) /\ n \in Nat /\ n >= 1 /\ n = Len(c.fkeys) + 1
      /\ DOMAIN c.tables = 1 .. n /\ c.tables[1] = q.base
      /\ \A j, k \in 1 .. n : c.tables[j] = c.tables[k] => j = k
      /\ \A k \in 1 .. n - 1 :
           /\ c.fkeys[k] \in Fkeys
           /\ {c.tables[k], c.tables[k + 1]} = {From(c.fkeys[k]), To(c.fkeys[k])}
           /\ Rises(c, k) \/ Falls(c, k)
           /\ ~q.extended => Falls(c, k)
  <2>1. /\ c.tables \in Seq(Tables) /\ n \in Nat /\ n >= 1 /\ n = Len(c.fkeys) + 1
        /\ Len(c.fkeys) \in Nat /\ DOMAIN c.tables = 1 .. n /\ c.tables[1] = q.base
        /\ \A j, k \in 1 .. n : c.tables[j] = c.tables[k] => j = k
    BY RouteShape
  <2>2. \A k \in 1 .. Len(c.fkeys) :
          /\ c.fkeys[k] \in Fkeys
          /\ {c.tables[k], c.tables[k + 1]} = {From(c.fkeys[k]), To(c.fkeys[k])}
          /\ Rises(c, k) \/ Falls(c, k)
          /\ ~q.extended => Falls(c, k)
    BY RouteShape
  <2>3. Len(c.fkeys) = n - 1
    BY <2>1
  <2> HIDE DEF n
  <2>4. QED
    BY <2>1, <2>2, <2>3
<1>2. n <= Most
  <2>1. IsFiniteSet(1 .. n) /\ Cardinality(1 .. n) = n
    BY <1>1, FS_Interval
  <2>2. c.tables \in Injection(1 .. n, Tables)
    BY <1>1 DEF Injection, IsInjective
  <2>3. QED
    BY <2>1, <2>2, FS_Injection, SubsetterAssumption DEF Most
<1> DEFINE Bad == {k \in 1 .. n : c.tables[k] \notin f[k - 1]}
<1>3. ASSUME Bad # {} PROVE FALSE
  <2>1. PICK k \in Bad : \A l \in Bad : ~(l < k)
    <3>1. Bad \subseteq Nat
      BY <1>1
    <3> HIDE DEF Bad
    <3>2. QED
      BY <1>3, <3>1, Least
  <2>2. k \in 1 .. n /\ c.tables[k] \notin f[k - 1]
    OBVIOUS
  <2> HIDE DEF Bad
  <2>3. k # 1
    BY <1>1, <2>2 DEF Reaches
  <2>4. /\ k - 1 \in 1 .. n /\ k - 1 \in 1 .. n - 1 /\ k - 1 < k /\ (k - 1) + 1 = k
        /\ k - 1 \in 1 .. Most
    BY <1>1, <1>2, <2>2, <2>3, MostType
  <2>5. c.tables[k - 1] \in f[(k - 1) - 1]
    BY <2>1, <2>4 DEF Bad
  <2>6. f[k - 1] = Near(q, f[(k - 1) - 1])
    BY <2>4 DEF Reaches
  <2> DEFINE i == c.fkeys[k - 1]
  <2>7. /\ i \in Fkeys
        /\ Rises(c, k - 1) \/ Falls(c, k - 1)
        /\ ~q.extended => Falls(c, k - 1)
    BY <1>1, <2>4
  <2>8. CASE Falls(c, k - 1)
    BY <2>2, <2>4, <2>5, <2>6, <2>7, <2>8 DEF Falls, Near
  <2>9. CASE ~Falls(c, k - 1)
    BY <2>2, <2>4, <2>5, <2>6, <2>7, <2>9 DEF Rises, Near
  <2>10. QED
    BY <2>8, <2>9
<1>4. ASSUME NEW k \in 1 .. n PROVE c.tables[k] \in f[k - 1] /\ c.tables[k] \in f[Most]
  <2>1. c.tables[k] \in f[k - 1]
    BY <1>3
  <2>2. k - 1 \in 0 .. Most /\ Most \in 0 .. Most /\ k - 1 <= Most
    BY <1>1, <1>2, MostType
  <2>3. f[k - 1] \subseteq f[Most]
    BY <2>2, ReachGrows
  <2>4. QED
    BY <2>1, <2>3
<1>5. ASSUME NEW k \in 1 .. n - 1 PROVE c.fkeys[k] \in Within(f[Most])
  <2>1. k \in 1 .. n /\ k + 1 \in 1 .. n
    BY <1>1
  <2>2. c.tables[k] \in f[Most] /\ c.tables[k + 1] \in f[Most]
    BY <1>4, <2>1
  <2>3. From(c.fkeys[k]) \in {c.tables[k], c.tables[k + 1]} /\ To(c.fkeys[k]) \in {c.tables[k], c.tables[k + 1]}
    <3>1. {c.tables[k], c.tables[k + 1]} = {From(c.fkeys[k]), To(c.fkeys[k])}
      BY <1>1
    <3>2. QED
      BY <3>1
  <2>4. QED
    BY <1>1, <2>2, <2>3 DEF Within
<1>6. Len(c.fkeys) = n - 1
  <2>1. Len(c.fkeys) \in Nat
    BY RouteShape
  <2>2. QED
    BY <1>1, <2>1
<1>7. QED
  BY <1>2, <1>4, <1>5, <1>6

\* A foreign key that leads to where another one that is within reach leads from.
Plain(q, W) ==
  \A i \in W : Cardinality({j \in W : To(j) = From(i)}) <= IF From(i) = q.base THEN 0 ELSE 1

LEMMA PlainMeets ==
  ASSUME TypeOK, NEW q, NEW W, W \subseteq Fkeys, Plain(q, W),
         NEW i \in W, NEW j \in W, To(j) = From(i)
  PROVE  /\ From(i) # q.base
         /\ \A k \in W : To(k) = From(i) => k = j
<1> DEFINE M == {k \in W : To(k) = From(i)}
<1>1. IsFiniteSet(M)
  <2>1. catalog \in Seq(Fkey)
    BY SubsetterAssumption DEF TypeOK
  <2>2. Len(catalog) \in Nat /\ Fkeys = 1 .. Len(catalog)
    BY <2>1 DEF Fkeys
  <2>3. IsFiniteSet(Fkeys)
    BY <2>2, FS_Interval
  <2>4. M \in SUBSET Fkeys
    OBVIOUS
  <2> HIDE DEF M
  <2>5. QED
    BY <2>3, <2>4, FS_Subset
<1>2. j \in M /\ Cardinality(M) \in Nat /\ Cardinality(M) # 0
  <2>1. j \in M
    OBVIOUS
  <2> HIDE DEF M
  <2>2. QED
    BY <1>1, <2>1, FS_CardinalityType, FS_EmptySet
<1>3. Cardinality(M) <= IF From(i) = q.base THEN 0 ELSE 1
  BY DEF Plain
<1>4. From(i) # q.base /\ Cardinality(M) = 1
  <2> HIDE DEF M
  <2>1. QED
    BY <1>2, <1>3
<1>5. \E x : M = {x}
  <2> HIDE DEF M
  <2>1. QED
    BY <1>1, <1>4, FS_Singleton
<1>6. QED
  BY <1>2, <1>4, <1>5

LEMMA PlainDistinct ==
  ASSUME TypeOK, NEW q, NEW f, Reaches(q, f), ~q.extended,
         NEW W, W = Within(f[Most]), Plain(q, W)
  PROVE  Distinct(q)
<1>1. W \subseteq Fkeys
  BY DEF Within
<1>2. ASSUME NEW i \in W, NEW j \in W, To(j) = From(i)
      PROVE  From(i) # q.base /\ \A k \in W : To(k) = From(i) => k = j
  BY <1>1, <1>2, PlainMeets
<1>3. ASSUME NEW t, NEW c, Route(c, q, t), NEW i \in Fkeys, From(i) = t
      PROVE  i \in W
  <2>1. /\ Len(c.tables) <= Most
        /\ \A k \in 1 .. Len(c.tables) : c.tables[k] \in f[k - 1] /\ c.tables[k] \in f[Most]
    BY <1>3, RouteWithin
  <2>2. Len(c.tables) \in Nat /\ Len(c.tables) >= 1 /\ c.tables[Len(c.tables)] = t
    BY <1>3, RouteShape
  <2>3. Len(c.tables) \in 1 .. Len(c.tables) /\ Len(c.tables) \in 1 .. Most /\ Len(c.tables) \in 0 .. Most
    BY <2>1, <2>2, MostType
  <2>4. t \in f[Len(c.tables) - 1] /\ t \in f[Most]
    BY <2>1, <2>2, <2>3
  <2>5. f[Len(c.tables)] = Near(q, f[Len(c.tables) - 1])
    BY <2>3 DEF Reaches
  <2>6. To(i) \in f[Len(c.tables)]
    BY <1>3, <2>4, <2>5 DEF Near
  <2>7. To(i) \in f[Most]
    <3>1. Most \in 0 .. Most /\ Len(c.tables) <= Most
      BY <2>1, MostType
    <3>2. QED
      BY <2>3, <2>6, <3>1, ReachGrows
  <2>8. QED
    BY <1>3, <2>4, <2>7 DEF Within
<1>4. ASSUME NEW t, NEW c, Route(c, q, t)
      PROVE  \A k \in 1 .. Len(c.fkeys) :
               c.fkeys[k] \in W /\ c.tables[k] = From(c.fkeys[k]) /\ c.tables[k + 1] = To(c.fkeys[k])
  <2>1. \A k \in 1 .. Len(c.fkeys) : c.fkeys[k] \in W
    BY <1>4, RouteWithin
  <2>2. \A k \in 1 .. Len(c.fkeys) : Falls(c, k)
    BY <1>4, RouteShape
  <2>3. QED
    BY <2>1, <2>2 DEF Falls
<1>5. LastSame(q)
  <2>1. SUFFICES ASSUME NEW t, NEW c, NEW d, Route(c, q, t), Route(d, q, t), Settled(q, t),
                        Len(c.fkeys) # 0
                 PROVE  Len(d.fkeys) # 0 /\ c.fkeys[Len(c.fkeys)] = d.fkeys[Len(d.fkeys)]
    BY DEF LastSame
  <2>2. PICK i \in W : From(i) = t
    BY <1>3, <2>1 DEF Settled
  <2>3. \A e : Route(e, q, t) =>
          /\ Len(e.fkeys) \in Nat /\ Len(e.tables) = Len(e.fkeys) + 1
          /\ e.tables[Len(e.tables)] = t
    BY RouteShape
  <2>4. Len(c.fkeys) \in 1 .. Len(c.fkeys) /\ c.tables[Len(c.fkeys) + 1] = t
    BY <2>1, <2>3
  <2>5. c.fkeys[Len(c.fkeys)] \in W /\ To(c.fkeys[Len(c.fkeys)]) = t
    BY <1>4, <2>1, <2>4
  <2>6. t # q.base
    BY <1>2, <2>2, <2>5
  <2>7. Len(d.fkeys) # 0
    BY <2>1, <2>6, StartRoute
  <2>8. Len(d.fkeys) \in 1 .. Len(d.fkeys) /\ d.tables[Len(d.fkeys) + 1] = t
    BY <2>1, <2>3, <2>7
  <2>9. d.fkeys[Len(d.fkeys)] \in W /\ To(d.fkeys[Len(d.fkeys)]) = t
    BY <1>4, <2>1, <2>8
  <2>10. QED
    BY <1>2, <2>2, <2>5, <2>7, <2>9
<1>6. NoWayUp(q)
  BY DEF NoWayUp
<1>7. ASSUME NEW i \in Fkeys, NEW c, Route(c, q, From(i)), To(i) \in Visits(c)
      PROVE  FALSE
  <2> DEFINE n == Len(c.fkeys)
  <2>1. /\ n \in Nat /\ Len(c.tables) = n + 1 /\ DOMAIN c.tables = 1 .. n + 1
        /\ c.tables[1] = q.base /\ c.tables[n + 1] = From(i)
        /\ \A j, k \in 1 .. n + 1 : c.tables[j] = c.tables[k] => j = k
    BY <1>7, RouteShape
  <2>2. i \in W
    BY <1>3, <1>7
  <2>3. PICK k \in 1 .. n + 1 : c.tables[k] = To(i)
    BY <1>7, <2>1 DEF Visits
  <2>4. PICK m \in W : From(m) = To(i)
    <3>1. CASE k = n + 1
      BY <2>1, <2>2, <2>3, <3>1
    <3>2. CASE k # n + 1
      <4>1. k \in 1 .. n
        BY <2>1, <3>2
      <4>2. c.fkeys[k] \in W /\ From(c.fkeys[k]) = To(i)
        BY <1>4, <1>7, <2>3, <4>1
      <4>3. QED
        BY <4>2
    <3>3. QED
      BY <3>1, <3>2
  <2>5. To(i) # q.base /\ \A l \in W : To(l) = To(i) => l = i
    BY <1>2, <2>2, <2>4
  <2>6. k # 1
    BY <2>1, <2>3, <2>5
  <2>7. k - 1 \in 1 .. n /\ k - 1 \in 1 .. n + 1 /\ (k - 1) + 1 = k /\ n + 1 \in 1 .. n + 1 /\ k - 1 # n + 1
    BY <2>1, <2>6
  <2>8. c.fkeys[k - 1] \in W /\ c.tables[k - 1] = From(c.fkeys[k - 1]) /\ c.tables[k] = To(c.fkeys[k - 1])
    BY <1>4, <1>7, <2>7
  <2>9. c.fkeys[k - 1] = i
    BY <2>3, <2>5, <2>8
  <2>10. c.tables[k - 1] = c.tables[n + 1]
    BY <2>1, <2>8, <2>9
  <2>11. QED
    BY <2>1, <2>7, <2>10
<1>8. NoWayDown(q)
  BY <1>7 DEF NoWayDown
<1>9. QED
  BY <1>5, <1>6, <1>8 DEF Distinct

\* The foreign keys within reach of an extended query are a tree.
Tree(q, R, e) ==
  /\ e \in [R \ {q.base} -> Within(R)]
  /\ \A t \in R \ {q.base} : t \in {From(e[t]), To(e[t])}
  /\ \A i \in Within(R) : From(i) # To(i) /\ \E t \in R \ {q.base} : e[t] = i

LEMMA TreeExists ==
  ASSUME TypeOK, NEW q, q.base \in Tables, NEW f, Reaches(q, f), q.extended,
         NEW R, R = f[Most], Cardinality(Within(R)) = Cardinality(R) - 1
  PROVE  \E e : Tree(q, R, e)
<1> DEFINE Parent(t, i, n) ==
             /\ i \in Within(R) /\ n \in 1 .. Most /\ t \in f[n] /\ t \notin f[n - 1]
             /\ \E u \in f[n - 1] : {From(i), To(i)} = {u, t}
<1>1. R \subseteq Tables /\ \A k \in 0 .. Most : f[k] \subseteq R /\ f[k] \subseteq Tables
  <2>1. Most \in 0 .. Most /\ \A k \in 0 .. Most : k <= Most
    BY MostType
  <2>2. QED
    BY <2>1, ReachGrows DEF Reaches
<1>2. IsFiniteSet(R) /\ IsFiniteSet(Within(R)) /\ q.base \in R
  <2>1. catalog \in Seq(Fkey)
    BY SubsetterAssumption DEF TypeOK
  <2>2. Len(catalog) \in Nat /\ Fkeys = 1 .. Len(catalog)
    BY <2>1 DEF Fkeys
  <2>3. IsFiniteSet(Fkeys)
    BY <2>2, FS_Interval
  <2>4. Within(R) \in SUBSET Fkeys
    BY DEF Within
  <2>5. IsFiniteSet(Within(R))
    BY <2>3, <2>4, FS_Subset
  <2>6. IsFiniteSet(R)
    BY <1>1, FS_Subset, SubsetterAssumption
  <2>7. 0 \in 0 .. Most /\ q.base \in f[0]
    BY MostType DEF Reaches
  <2>8. QED
    BY <1>1, <2>5, <2>6, <2>7
<1>3. ASSUME NEW t \in R \ {q.base} PROVE \E i, n : Parent(t, i, n)
  <2> DEFINE T == {n \in 0 .. Most : t \in f[n]}
  <2>1. PICK n \in T : \A k \in T : ~(k < n)
    <3>1. T \subseteq Nat /\ T # {}
      BY <1>3, MostType
    <3> HIDE DEF T
    <3>2. QED
      BY <3>1, Least
  <2>2. n # 0
    BY <1>3, <2>1 DEF Reaches
  <2>3. n \in 1 .. Most /\ n - 1 \in 0 .. Most /\ n - 1 < n /\ n \in 0 .. Most /\ t \in f[n]
    BY <2>1, <2>2, MostType
  <2>4. t \notin f[n - 1]
    BY <2>1, <2>3
  <2>5. f[n] = Near(q, f[n - 1])
    BY <2>3 DEF Reaches
  <2>6. PICK i \in Fkeys : (t = To(i) /\ From(i) \in f[n - 1]) \/ (t = From(i) /\ To(i) \in f[n - 1])
    BY <2>3, <2>4, <2>5 DEF Near
  <2>7. i \in Within(R)
    BY <1>1, <1>3, <2>3, <2>6 DEF Within
  <2>8. \E u \in f[n - 1] : {From(i), To(i)} = {u, t}
    BY <2>6
  <2>9. QED
    BY <2>3, <2>4, <2>7, <2>8
<1>4. \A m \in 0 .. Most, n \in 0 .. Most : m <= n => f[m] \subseteq f[n]
  BY ReachGrows
<1>5. ASSUME NEW t, NEW u, NEW i, NEW m, NEW n, Parent(t, i, m), Parent(u, i, n)
      PROVE  t = u
  <2>1. ASSUME t # u PROVE FALSE
    <3>1. u \in f[m - 1] /\ t \in f[n - 1]
      BY <1>5, <2>1
    <3>2. /\ m \in 0 .. Most /\ n \in 0 .. Most /\ m - 1 \in 0 .. Most /\ n - 1 \in 0 .. Most
          /\ m <= n - 1 \/ n <= m - 1 \/ m = n
      BY <1>5, MostType
    <3>3. t \in f[m] /\ t \notin f[m - 1] /\ u \in f[n] /\ u \notin f[n - 1]
      BY <1>5
    <3>4. m # n
      BY <3>1, <3>3
    <3>5. CASE m <= n - 1
      <4>1. m - 1 <= n - 1
        BY <1>5, <3>5
      <4>2. f[m - 1] \subseteq f[n - 1]
        BY <1>4, <3>2, <4>1
      <4>3. QED
        BY <3>1, <3>3, <4>2
    <3>6. CASE n <= m - 1
      <4>1. n - 1 <= m - 1
        BY <1>5, <3>6
      <4>2. f[n - 1] \subseteq f[m - 1]
        BY <1>4, <3>2, <4>1
      <4>3. QED
        BY <3>1, <3>3, <4>2
    <3>7. QED
      BY <3>2, <3>4, <3>5, <3>6
  <2>2. QED
    BY <2>1
<1> DEFINE e == [t \in R \ {q.base} |-> CHOOSE i : \E n : Parent(t, i, n)]
<1>6. \A t \in R \ {q.base} : \E n : Parent(t, e[t], n)
  BY <1>3
<1>7. \A t, i, n : Parent(t, i, n) => i \in Within(R) /\ t \in {From(i), To(i)}
  OBVIOUS
<1> HIDE DEF Parent
<1>9. e \in [R \ {q.base} -> Within(R)]
  <2>1. \A t \in R \ {q.base} : (CHOOSE i : \E n : Parent(t, i, n)) \in Within(R)
    BY <1>6, <1>7
  <2>2. QED
    BY <2>1
<1> HIDE DEF e
<1>10. \A t \in R \ {q.base}, u \in R \ {q.base} : e[t] = e[u] => t = u
  BY <1>5, <1>6
<1>11. e \in Injection(R \ {q.base}, Within(R))
  BY <1>9, <1>10 DEF Injection, IsInjective
<1>12. Cardinality(R \ {q.base}) = Cardinality(Within(R))
  BY <1>2, FS_RemoveElement
<1>13. e \in Surjection(R \ {q.base}, Within(R))
  BY <1>2, <1>11, <1>12, FS_Injection
<1>14. \A i \in Within(R) : \E t \in R \ {q.base} : e[t] = i
  BY <1>13 DEF Surjection
<1>15. ASSUME NEW i \in Within(R) PROVE From(i) # To(i)
  <2>1. PICK t \in R \ {q.base} : e[t] = i
    BY <1>14
  <2>2. PICK n : Parent(t, i, n)
    BY <1>6, <2>1
  <2>3. QED
    BY <2>2 DEF Parent
<1>16. QED
  BY <1>6, <1>7, <1>9, <1>14, <1>15 DEF Tree

\* The foreign key that a route takes to a table is that of the tree.
LEMMA TreeRoute ==
  ASSUME TypeOK, NEW q, NEW f, Reaches(q, f), NEW R, R = f[Most], NEW e, Tree(q, R, e),
         NEW c, NEW t, Route(c, q, t)
  PROVE  \A k \in 1 .. Len(c.fkeys) :
           c.tables[k + 1] \in R \ {q.base} /\ e[c.tables[k + 1]] = c.fkeys[k]
<1> DEFINE n == Len(c.fkeys)
           Bad == {k \in 1 .. n : ~(c.tables[k + 1] \in R \ {q.base} /\ e[c.tables[k + 1]] = c.fkeys[k])}
<1>1. /\ n \in Nat /\ Len(c.tables) = n + 1 /\ c.tables[1] = q.base
      /\ \A j, k \in 1 .. n + 1 : c.tables[j] = c.tables[k] => j = k
      /\ \A k \in 1 .. n : {c.tables[k], c.tables[k + 1]} = {From(c.fkeys[k]), To(c.fkeys[k])}
  BY RouteShape
<1>2. /\ \A k \in 1 .. n + 1 : c.tables[k] \in R
      /\ \A k \in 1 .. n : c.fkeys[k] \in Within(R)
  BY <1>1, RouteWithin
<1>3. ASSUME Bad # {} PROVE FALSE
  <2>1. PICK k \in Bad : \A l \in Bad : ~(l < k)
    <3>1. Bad \subseteq Nat
      BY <1>1
    <3> HIDE DEF Bad
    <3>2. QED
      BY <1>3, <3>1, Least
  <2>2. k \in 1 .. n /\ ~(c.tables[k + 1] \in R \ {q.base} /\ e[c.tables[k + 1]] = c.fkeys[k])
    OBVIOUS
  <2>3. /\ k \in 1 .. n + 1 /\ k + 1 \in 1 .. n + 1 /\ 1 \in 1 .. n + 1 /\ k + 1 # 1
        /\ (k # 1 => k - 1 \in 1 .. n /\ k - 1 \in 1 .. n + 1 /\ k - 1 < k /\ (k - 1) + 1 = k /\ k - 1 # k + 1)
    BY <1>1, <2>2
  <2>4. c.tables[k + 1] \in R \ {q.base}
    BY <1>1, <1>2, <2>3
  <2>5. PICK u \in R \ {q.base} : e[u] = c.fkeys[k]
    BY <1>2, <2>2 DEF Tree
  <2>6. u \in {c.tables[k], c.tables[k + 1]}
    <3>1. u \in {From(c.fkeys[k]), To(c.fkeys[k])}
      BY <2>5 DEF Tree
    <3>2. {c.tables[k], c.tables[k + 1]} = {From(c.fkeys[k]), To(c.fkeys[k])}
      BY <1>1, <2>2
    <3>3. QED
      BY <3>1, <3>2
  <2>7. u = c.tables[k]
    BY <2>2, <2>4, <2>5, <2>6
  <2>8. k # 1
    BY <1>1, <2>5, <2>7
  <2>9. e[c.tables[k]] = c.fkeys[k - 1]
    <3>1. k - 1 \notin Bad
      <4> HIDE DEF Bad
      <4>1. QED
        BY <2>1, <2>3, <2>8
    <3>2. QED
      BY <2>3, <2>8, <3>1
  <2>10. c.fkeys[k - 1] = c.fkeys[k]
    BY <2>5, <2>7, <2>9
  <2> HIDE DEF Bad
  <2>11. {c.tables[k - 1], c.tables[k]} = {c.tables[k], c.tables[k + 1]}
    <3>1. {c.tables[k - 1], c.tables[(k - 1) + 1]} = {From(c.fkeys[k - 1]), To(c.fkeys[k - 1])}
      BY <1>1, <2>3, <2>8
    <3>2. QED
      BY <1>1, <2>2, <2>3, <2>8, <2>10, <3>1
  <2>12. c.tables[k - 1] = c.tables[k + 1] \/ c.tables[k] = c.tables[k + 1]
    BY <2>11
  <2>13. QED
    BY <1>1, <2>3, <2>8, <2>12
<1>4. QED
  BY <1>3

\* A foreign key back to a table of the route is the last one.
LEMMA TreeBack ==
  ASSUME TypeOK, NEW q, NEW f, Reaches(q, f), NEW R, R = f[Most], NEW e, Tree(q, R, e),
         NEW c, NEW s, Route(c, q, s), NEW i \in Fkeys, NEW x \in Visits(c),
         {From(i), To(i)} = {s, x}
  PROVE  Len(c.fkeys) # 0 /\ c.fkeys[Len(c.fkeys)] = i /\ From(i) # To(i)
<1> DEFINE n == Len(c.fkeys)
<1>1. /\ n \in Nat /\ Len(c.tables) = n + 1 /\ c.tables[1] = q.base /\ c.tables[n + 1] = s
      /\ DOMAIN c.tables = 1 .. n + 1
      /\ \A j, k \in 1 .. n + 1 : c.tables[j] = c.tables[k] => j = k
      /\ \A k \in 1 .. n : {c.tables[k], c.tables[k + 1]} = {From(c.fkeys[k]), To(c.fkeys[k])}
  BY RouteShape
<1>2. \A k \in 1 .. n + 1 : c.tables[k] \in R
  BY <1>1, RouteWithin
<1>3. \A k \in 1 .. n : c.tables[k + 1] \in R \ {q.base} /\ e[c.tables[k + 1]] = c.fkeys[k]
  BY TreeRoute
<1> HIDE DEF n
<1>4. PICK k \in 1 .. n + 1 : c.tables[k] = x
  BY <1>1 DEF Visits
<1>5. n + 1 \in 1 .. n + 1 /\ s \in R /\ x \in R
  BY <1>1, <1>2, <1>4
<1>6. i \in Within(R)
  BY <1>5 DEF Within
<1>7. From(i) # To(i) /\ s # x
  BY <1>6 DEF Tree
<1>8. k \in 1 .. n /\ n # 0 /\ n \in 1 .. n
  <2>1. k # n + 1
    BY <1>1, <1>4, <1>7
  <2>2. QED
    BY <1>1, <1>4, <2>1
<1>9. PICK u \in R \ {q.base} : e[u] = i /\ u \in {s, x}
  BY <1>6 DEF Tree
<1>10. CASE u = s
  BY <1>1, <1>3, <1>7, <1>8, <1>9, <1>10 DEF n
<1>11. CASE u = x
  <2>1. k # 1
    BY <1>1, <1>4, <1>9, <1>11
  <2>2. k - 1 \in 1 .. n /\ (k - 1) + 1 = k /\ k - 1 \in 1 .. n + 1 /\ k - 1 # n + 1
    BY <1>1, <1>4, <1>8, <2>1
  <2>3. c.fkeys[k - 1] = i
    BY <1>3, <1>4, <1>9, <1>11, <2>2
  <2>4. {c.tables[k - 1], c.tables[k]} = {s, x}
    BY <1>1, <2>2, <2>3
  <2>5. c.tables[k - 1] = c.tables[n + 1]
    BY <1>1, <1>4, <1>7, <2>4
  <2>6. QED
    BY <1>1, <1>5, <2>2, <2>5
<1>12. QED
  BY <1>9, <1>10, <1>11

LEMMA TreeDistinct ==
  ASSUME TypeOK, NEW q, NEW f, Reaches(q, f), NEW R, R = f[Most], NEW e, Tree(q, R, e), q.extended
  PROVE  Distinct(q)
<1>1. LastSame(q)
  <2>1. SUFFICES ASSUME NEW t, NEW c, NEW d, Route(c, q, t), Route(d, q, t), Len(c.fkeys) # 0
                 PROVE  Len(d.fkeys) # 0 /\ c.fkeys[Len(c.fkeys)] = d.fkeys[Len(d.fkeys)]
    BY DEF LastSame
  <2>2. \A g : Route(g, q, t) =>
          /\ Len(g.fkeys) \in Nat /\ Len(g.tables) = Len(g.fkeys) + 1
          /\ g.tables[Len(g.tables)] = t
    BY RouteShape
  <2>3. \A g : Route(g, q, t) /\ Len(g.fkeys) # 0 =>
          Len(g.fkeys) \in 1 .. Len(g.fkeys) /\ g.tables[Len(g.fkeys) + 1] = t
    BY <2>2
  <2>4. \A g : Route(g, q, t) /\ Len(g.fkeys) # 0 => t # q.base /\ e[t] = g.fkeys[Len(g.fkeys)]
    BY <2>3, TreeRoute
  <2>5. Len(d.fkeys) # 0
    BY <2>1, <2>4, StartRoute
  <2>6. QED
    BY <2>1, <2>4, <2>5
<1>2. ASSUME NEW t, NEW c, Route(c, q, t), Len(c.fkeys) # 0
      PROVE  /\ Len(c.fkeys) \in DOMAIN c.fkeys /\ Len(c.fkeys) <= Len(c.fkeys)
             /\ c.tables[Len(c.fkeys) + 1] = t
             /\ Rises(c, Len(c.fkeys)) \/ Falls(c, Len(c.fkeys))
  <2>1. /\ Len(c.fkeys) \in Nat /\ DOMAIN c.fkeys = 1 .. Len(c.fkeys)
        /\ Len(c.tables) = Len(c.fkeys) + 1 /\ c.tables[Len(c.tables)] = t
        /\ \A k \in 1 .. Len(c.fkeys) : Rises(c, k) \/ Falls(c, k)
    BY <1>2, RouteShape
  <2>2. QED
    BY <1>2, <2>1
<1>3. ASSUME NEW i \in Fkeys, NEW c, Route(c, q, To(i)), Turns(c, Len(c.fkeys)), From(i) \in Visits(c)
      PROVE  FALSE
  <2>1. Len(c.fkeys) # 0 /\ c.fkeys[Len(c.fkeys)] = i /\ From(i) # To(i)
    BY <1>3, TreeBack
  <2>2. Rises(c, Len(c.fkeys)) /\ c.tables[Len(c.fkeys) + 1] = To(i)
    BY <1>2, <1>3, <2>1 DEF Turns
  <2>3. QED
    BY <2>1, <2>2 DEF Rises
<1>4. ASSUME NEW i \in Fkeys, NEW c, Route(c, q, From(i)), To(i) \in Visits(c)
      PROVE  Len(c.fkeys) # 0 /\ c.fkeys[Len(c.fkeys)] = i /\ Rises(c, Len(c.fkeys))
  <2>1. Len(c.fkeys) # 0 /\ c.fkeys[Len(c.fkeys)] = i /\ From(i) # To(i)
    BY <1>4, TreeBack
  <2>2. /\ Rises(c, Len(c.fkeys)) \/ Falls(c, Len(c.fkeys))
        /\ c.tables[Len(c.fkeys) + 1] = From(i)
    BY <1>2, <1>4, <2>1
  <2>3. QED
    BY <2>1, <2>2 DEF Falls
<1>5. NoWayUp(q)
  BY <1>3 DEF NoWayUp
<1>6. NoWayDown(q)
  BY <1>4 DEF NoWayDown
<1>7. QED
  BY <1>1, <1>5, <1>6 DEF Distinct

LEMMA SimpleDistinct ==
  ASSUME TypeOK, NEW q, q.base \in Tables, Simple(q) PROVE Distinct(q)
<1>1. PICK f : /\ Reaches(q, f)
               /\ q.extended => Cardinality(Within(f[Most])) = Cardinality(f[Most]) - 1
               /\ ~q.extended => Plain(q, Within(f[Most]))
  BY SimpleReaches DEF Plain
<1>2. PICK R, W : R = f[Most] /\ W = Within(f[Most])
  OBVIOUS
<1>3. CASE q.extended
  <2>1. PICK e : Tree(q, R, e)
    BY <1>1, <1>2, <1>3, TreeExists
  <2>2. QED
    BY <1>1, <1>2, <1>3, <2>1, TreeDistinct
<1>4. CASE ~q.extended
  BY <1>1, <1>2, <1>4, PlainDistinct
<1>5. QED
  BY <1>3, <1>4

LEMMA NeededPairs ==
  ASSUME TypeOK, NEW ref \in Contents, NEW q, q.base \in Tables, NEW S \in SUBSET Rows
  PROVE  Needed(ref, q, S) \subseteq Pairs
<1> DEFINE start == {q.base} \X S
           middle == IF q.extended THEN Closure(ref, start, ReferTo) ELSE start
<1>1. start \in SUBSET Pairs
  BY DEF Pairs
<1>2. Needed(ref, q, S) = Closure(ref, middle, RefersTo)
  BY DEF Needed
<1> HIDE DEF start
<1>3. middle \in SUBSET Pairs
  <2>1. Closure(ref, start, ReferTo) \subseteq Pairs
    BY <1>1, EndPairs, UpWithin
  <2>2. QED
    BY <1>1, <2>1
<1> HIDE DEF middle
<1>4. Closure(ref, middle, RefersTo) \subseteq Pairs
  BY <1>3, EndPairs, DownWithin
<1>5. QED
  BY <1>2, <1>4

\* What is saved of simple queries is all that is needed.
LEMMA SavedClosure == AInv => SubsetIsClosure
<1>1. SUFFICES ASSUME AInv, pc = "idle", \A n \in DOMAIN queries : Simple(queries[n]),
                      NEW ref \in Contents, NEW result \in Results
               PROVE  DumpedBy(ref, result) = NeededBy(ref, result)
  BY DEF SubsetIsClosure
<1>2. DumpedBy(ref, result) \subseteq NeededBy(ref, result)
  BY <1>1, HeadedNeeded DEF AInv, OnlyNeeded
<1>3. ASSUME NEW x \in NeededBy(ref, result) PROVE x \in DumpedBy(ref, result)
  <2>1. PICK n \in DOMAIN queries : x \in Needed(ref, queries[n], result[n])
    BY <1>3 DEF NeededBy
  <2>2. PICK q, S, J : q = queries[n] /\ S = result[n] /\ J = ChainsOf(n)
    OBVIOUS
  <2>3. TypeOK /\ q.base \in Tables /\ S \in SUBSET Rows
    <3> DEFINE Q == [base : Tables, extended : BOOLEAN]
    <3>1. TypeOK /\ queries \in Seq(Q)
      BY <1>1 DEF AInv, Inv, TypeOK
    <3> HIDE DEF Q
    <3>2. q \in Q
      BY <2>2, <3>1
    <3>3. S \in SUBSET Rows
      BY <2>2 DEF Results
    <3>4. QED
      BY <3>1, <3>2, <3>3 DEF Q
  <2>4. Distinct(q)
    BY <1>1, <2>2, <2>3, SimpleDistinct
  <2>5. Finished(J, q)
    BY <1>1, <2>2, <2>4 DEF AInv, Saved
  <2>6. PICK t \in Tables, r \in Rows : x = <<t, r>>
    BY <2>1, <2>2, <2>3, NeededPairs DEF Pairs
  <2>7. PICK c \in J[t] : r \in Selected(ref, c, S)
    BY <1>1, <2>1, <2>2, <2>3, <2>4, <2>5, <2>6, FinishedSelects
  <2>8. PICK j \in saved[t] : j.query = n /\ j.chain = c
    BY <2>2, <2>7 DEF ChainsOf
  <2>9. r \in Dumped(ref, result, t)
    BY <2>2, <2>7, <2>8 DEF Dumped
  <2>10. QED
    BY <2>6, <2>9 DEF DumpedBy
<1>4. QED
  BY <1>2, <1>3

\* In catalogs where foreign keys do not meet, no row is dumped without those it refers to.
IntactIfSimple == (\A n \in DOMAIN queries : Simple(queries[n])) => ReferentiallyIntact

LEMMA SavedIntact == AInv => IntactIfSimple
<1>1. SUFFICES ASSUME AInv, pc = "idle", \A n \in DOMAIN queries : Simple(queries[n]),
                      NEW ref \in Contents, NEW result \in Results, NEW i \in Fkeys,
                      NEW p \in Dumped(ref, result, From(i)), ref[i][p] # Null
               PROVE  ref[i][p] \in Dumped(ref, result, To(i))
  BY DEF IntactIfSimple, ReferentiallyIntact
<1>2. PICK j \in saved[From(i)] : p \in Selected(ref, j.chain, result[j.query])
  BY DEF Dumped
<1>3. PICK n, c : n = j.query /\ c = j.chain
  OBVIOUS
<1>4. PICK q, S, J : q = queries[n] /\ S = result[n] /\ J = ChainsOf(n)
  OBVIOUS
<1>5. TypeOK /\ From(i) \in Tables /\ To(i) \in Tables /\ n \in DOMAIN queries
  <2>1. TypeOK
    BY <1>1 DEF AInv, Inv
  <2>2. From(i) \in Tables /\ To(i) \in Tables
    BY <2>1, EndsType
  <2>3. saved[From(i)] \in SUBSET [query : DOMAIN queries, chain : Chain]
    BY <2>1, <2>2 DEF TypeOK
  <2>4. QED
    BY <1>3, <2>1, <2>2, <2>3
<1>6. S \in SUBSET Rows /\ q.base \in Tables
  <2> DEFINE Q == [base : Tables, extended : BOOLEAN]
  <2>1. queries \in Seq(Q)
    BY <1>5 DEF TypeOK
  <2> HIDE DEF Q
  <2>2. q \in Q
    BY <1>4, <1>5, <2>1
  <2>3. QED
    BY <1>4, <1>5, <2>2 DEF Results, Q
<1>7. Distinct(q) /\ Finished(J, q)
  <2>1. Distinct(q)
    BY <1>1, <1>4, <1>5, <1>6, SimpleDistinct
  <2>2. QED
    BY <1>1, <1>4, <1>5, <2>1 DEF AInv, Saved
<1>8. c \in J[From(i)] /\ p \in Selected(ref, c, S)
  BY <1>2, <1>3, <1>4, <1>5 DEF ChainsOf
<1>9. PICK d \in J[To(i)] : ref[i][p] \in Selected(ref, d, S)
  BY <1>1, <1>5, <1>6, <1>7, <1>8, FinishedRefers
<1>10. PICK k \in saved[To(i)] : k.query = n /\ k.chain = d
  BY <1>4, <1>5, <1>9 DEF ChainsOf
<1>11. QED
  BY <1>4, <1>9, <1>10 DEF Dumped

\* For every catalog, any number of queries and any contents: when the foreign keys
\* within reach of each query do not meet, what subset has saved selects exactly the
\* rows that the queries' rows need, with nothing missing.
THEOREM NothingMissing == Spec => []SubsetIsClosure
<1>1. Spec => []AInv
  BY InitAInv, NextAInv, PTL DEF Spec
<1>2. QED
  BY <1>1, SavedClosure, PTL

\* And what it has saved leaves no foreign key dangling: "a referentially-intact subset",
\* which the diamonds and double references of subset_meeting.cfg do not get.
THEOREM SimplyIntact == Spec => []IntactIfSimple
<1>1. Spec => []AInv
  BY InitAInv, NextAInv, PTL DEF Spec
<1>2. QED
  BY <1>1, SavedIntact, PTL
=============================================================================

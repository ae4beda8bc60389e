------------------------------ MODULE Subsetter ------------------------------
(***************************************************************************)
(* The subset dump (src/ddl/subsetter.go): from a query that selects rows  *)
(* of one table, subset works out, by walking the foreign keys, chains of *)
(* joins that select the rows of other tables which have to be dumped with *)
(* them.                                                                   *)
(*                                                                         *)
(* The walk looks at the catalog only, never at a row.  The state is that *)
(* of the walk, and the properties quantify over everything the tables may *)
(* contain.                                                                *)
(***************************************************************************)
EXTENDS Naturals, Sequences, FiniteSets

CONSTANTS
  Tables,     \* tables with a primary key, all in the catalog
  Catalogs,   \* foreign keys of a catalog, in its order: sequences of Fkey
  MaxQueries, \* bound: queries added to a subsetter
  Rows,       \* the rows of a table, by primary key
  Null,       \* a foreign key that refers to nothing
  Columns     \* bound: what the column of a foreign key may contain, row by row

Fkey == [from : Tables, to : Tables]

ASSUME SubsetterAssumption ==
  /\ IsFiniteSet(Tables) /\ IsFiniteSet(Rows)
  /\ Catalogs \subseteq Seq(Fkey)
  /\ MaxQueries \in Nat
  /\ Null \notin Rows
  /\ Columns \subseteq [Rows -> Rows \cup {Null}]

VARIABLES
  catalog,   \* ss.catalog; a foreign key is a position in it
  queries,   \* ss.results: the base table of each query, and whether it is extended
  saved,     \* ss.tableJoins: chains by query and table
  pc,        \* where subset is
  toVisit,   \* foreign keys that are due; the code's stack is one order to take them in
  visited,   \* foreign keys that were taken
  joins      \* tableJoins: chains by table; a table not found yet has none

vars == <<catalog, queries, saved, pc, toVisit, visited, joins>>

-----------------------------------------------------------------------------
Fkeys == DOMAIN catalog
From(i) == catalog[i].from
To(i) == catalog[i].to

\* A chain of tables joined by foreign keys: fkeys[k] joins tables[k] and
\* tables[k+1].  The join with the rows of the query itself is left out.
Chain == [tables : Seq(Tables), fkeys : Seq(Nat)]

Last(s) == s[Len(s)]

\* table.Constraints of the tables S, and ss.referencedBy[t].
ConstraintsOf(S) == {i \in Fkeys : From(i) \in S}
ReferencedBy(t) == {i \in Fkeys : To(i) = t}

\* Plausible bug: the second loop sets out from the base table only.
KnownBase == {Last(queries).base}

\* The keys of tableJoins.
Known == {t \in Tables : joins[t] # {}}

\* Plausible bug: a chain may come back to a table it has been to.
ExtendedInCircles(C, i, t) ==
  {[tables |-> Append(c.tables, t), fkeys |-> Append(c.fkeys, i)] : c \in C}

\* newJoins: the chains of C that do not lead through table t yet, extended to it.
Extended(C, i, t) ==
  {[tables |-> Append(c.tables, t), fkeys |-> Append(c.fkeys, i)] :
     c \in {d \in C : \A k \in DOMAIN d.tables : d.tables[k] # t}}

-----------------------------------------------------------------------------
Init ==
  /\ catalog \in Catalogs
  /\ queries = <<>>
  /\ saved = [t \in Tables |-> {}]
  /\ pc = "idle"
  /\ toVisit = {}
  /\ visited = {}
  /\ joins = [t \in Tables |-> {}]

FirstVisit(t, extended) ==
  IF extended THEN ReferencedBy(t) ELSE ConstraintsOf({t})

\* Subset and ExtendedSubset: a query is added.
Subset(t, extended) ==
  /\ pc = "idle"
  /\ Len(queries) < MaxQueries
  /\ queries' = Append(queries, [base |-> t, extended |-> extended])
  /\ joins' = [u \in Tables |->
                 IF u = t THEN {[tables |-> <<t>>, fkeys |-> <<>>]} ELSE {}]
  /\ visited' = {}
  /\ toVisit' = FirstVisit(t, extended)
  /\ pc' = IF extended THEN "up" ELSE "down"
  /\ UNCHANGED <<catalog, saved>>

\* Plausible bug: a cycle is not broken.
IsNewAlways(i) == TRUE

\* In order to break cycles, never visit the same fkey twice.
IsNew(i) == i \notin visited

Skip(i) ==
  /\ pc \in {"up", "down"}
  /\ ~IsNew(i)
  /\ toVisit' = toVisit \ {i}
  /\ UNCHANGED <<catalog, queries, saved, pc, visited, joins>>

\* The first loop of an extended query: from a table to those that refer to it.
Up(i) ==
  /\ pc = "up"
  /\ IsNew(i)
  /\ visited' = visited \cup {i}
  /\ joins' = [joins EXCEPT ![From(i)] = @ \cup Extended(joins[To(i)], i, From(i))]
  /\ toVisit' = (toVisit \ {i}) \cup ReferencedBy(From(i))
  /\ UNCHANGED <<catalog, queries, saved, pc>>

\* Then the constraints of all tables found are due.
Turn ==
  /\ pc = "up"
  /\ toVisit = {}
  /\ toVisit' = ConstraintsOf(Known)
  /\ pc' = "down"
  /\ UNCHANGED <<catalog, queries, saved, visited, joins>>

\* The loop of every query: from a table to those it refers to.
Down(i) ==
  /\ pc = "down"
  /\ IsNew(i)
  /\ visited' = visited \cup {i}
  /\ joins' = [joins EXCEPT ![To(i)] = @ \cup Extended(joins[From(i)], i, To(i))]
  /\ toVisit' = (toVisit \ {i}) \cup ConstraintsOf({To(i)})
  /\ UNCHANGED <<catalog, queries, saved, pc>>

\* The chains are added to those of the queries before.
Finish ==
  /\ pc = "down"
  /\ toVisit = {}
  /\ saved' = [t \in Tables |->
                 saved[t] \cup {[query |-> Len(queries), chain |-> c] : c \in joins[t]}]
  /\ pc' = "idle"
  /\ UNCHANGED <<catalog, queries, toVisit, visited, joins>>

Walk ==
  \/ \E i \in toVisit : Skip(i) \/ Up(i) \/ Down(i)
  \/ Turn
  \/ Finish

Next == Walk \/ \E t \in Tables, extended \in BOOLEAN : Subset(t, extended)

Spec == Init /\ [][Next]_vars

-----------------------------------------------------------------------------
(* What a dump selects *)

\* The contents of the tables, as far as the subset depends on them: the row each
\* row refers to, by foreign key.
Contents == [Fkeys -> Columns]

\* Plausible bug: the columns of the two tables are mixed up.
JoinedBackwards(ref, i, t, S) ==
  IF t = From(i) THEN {ref[i][r] : r \in S} \ {Null} ELSE {r \in Rows : ref[i][r] \in S}

\* toSQL: the rows of table t that join with the rows S at the other end of i.
Joined(ref, i, t, S) ==
  IF t = From(i) THEN {r \in Rows : ref[i][r] \in S} ELSE {ref[i][r] : r \in S} \ {Null}

\* The rows that a chain selects, where the query selected S.
Selected(ref, c, S) ==
  LET upto[k \in 1 .. Len(c.tables)] ==
        IF k = 1 THEN S ELSE Joined(ref, c.fkeys[k - 1], c.tables[k], upto[k - 1])
  IN upto[Len(c.tables)]

\* Query: the rows of t that are dumped, where query n selected the rows result[n].
Dumped(ref, result, t) ==
  UNION {Selected(ref, j.chain, result[j.query]) : j \in saved[t]}

-----------------------------------------------------------------------------
(* Properties *)

TypeOK ==
  /\ catalog \in Catalogs
  /\ queries \in Seq([base : Tables, extended : BOOLEAN])
  /\ saved \in [Tables -> SUBSET [query : DOMAIN queries, chain : Chain]]
  /\ pc \in {"idle", "up", "down"}
  /\ toVisit \in SUBSET Fkeys
  /\ visited \in SUBSET Fkeys
  /\ joins \in [Tables -> SUBSET Chain]

\* A chain is a path of foreign keys, each in either direction, from the base
\* table to another one that does not visit a table twice: toSQL neither finds a
\* broken chain nor joins a table with itself under one name.
IsPath(c, base, t) ==
  /\ Len(c.tables) = Len(c.fkeys) + 1
  /\ c.tables[1] = base
  /\ Last(c.tables) = t
  /\ \A j, k \in DOMAIN c.tables : c.tables[j] = c.tables[k] => j = k
  /\ \A k \in DOMAIN c.fkeys :
       /\ c.fkeys[k] \in Fkeys
       /\ {c.tables[k], c.tables[k + 1]} = {From(c.fkeys[k]), To(c.fkeys[k])}

JoinsArePaths ==
  \A t \in Tables :
    /\ \A c \in joins[t] : IsPath(c, Last(queries).base, t)
    /\ \A j \in saved[t] : IsPath(j.chain, queries[j.query].base, t)

\* The rows that those of S refer to, and those that refer to them, as sets of
\* <<table, row>>; and the least set with S that is closed under such an operator.
RefersTo(ref, S) ==
  {x \in {<<To(y[1]), ref[y[1]][y[2]]>> : y \in {z \in Fkeys \X Rows : <<From(z[1]), z[2]>> \in S}} :
     x[2] # Null}

ReferTo(ref, S) ==
  {<<From(y[1]), y[2]>> : y \in {z \in Fkeys \X Rows : <<To(z[1]), ref[z[1]][z[2]]>> \in S}}

Closure(ref, S, Op(_, _)) ==
  LET size == Cardinality(Tables) * Cardinality(Rows)
      upto[n \in 0 .. size] == IF n = 0 THEN S ELSE upto[n - 1] \cup Op(ref, upto[n - 1])
  IN upto[size]

Needed(ref, q, S) ==
  LET start == {q.base} \X S
  IN Closure(ref, IF q.extended THEN Closure(ref, start, ReferTo) ELSE start, RefersTo)

NeededBy(ref, result) ==
  UNION {Needed(ref, queries[n], result[n]) : n \in DOMAIN queries}

DumpedBy(ref, result) ==
  UNION {{t} \X Dumped(ref, result, t) : t \in Tables}

Results == [DOMAIN queries -> SUBSET Rows]

\* Whatever the tables contain, a row is dumped only if the rows selected by some
\* query need it: they lead to it by foreign keys.
OnlyNeeded ==
  pc = "idle" =>
    \A ref \in Contents, result \in Results : DumpedBy(ref, result) \subseteq NeededBy(ref, result)

\* No table that refers to others can be reached from the base along two foreign
\* keys, or, in an extended query, no table at all along two of them.
Simple(q) ==
  LET near(S) == S \cup {To(i) : i \in {j \in Fkeys : From(j) \in S}}
                   \cup (IF q.extended
                         THEN {From(i) : i \in {j \in Fkeys : To(j) \in S}} ELSE {})
      reach[n \in 0 .. Cardinality(Tables)] ==
        IF n = 0 THEN {q.base} ELSE near(reach[n - 1])
      R == reach[Cardinality(Tables)]
      within == {i \in Fkeys : From(i) \in R /\ To(i) \in R}
  IN IF q.extended THEN Cardinality(within) = Cardinality(R) - 1
     ELSE \A i \in within :
            Cardinality({j \in within : To(j) = From(i)}) <= IF From(i) = q.base THEN 0 ELSE 1

\* sqddl.md, dump: "You can dump a referentially-intact subset of the database":
\* in catalogs where foreign keys do not meet, what is dumped is the closure of
\* the queries' rows, with nothing missing and nothing too much.
SubsetIsClosure ==
  pc = "idle" /\ (\A n \in DOMAIN queries : Simple(queries[n])) =>
    \A ref \in Contents, result \in Results : DumpedBy(ref, result) = NeededBy(ref, result)

\* The same for every catalog: no row is dumped without the row it refers to.
ReferentiallyIntact ==
  pc = "idle" =>
    \A ref \in Contents, result \in Results :
      \A i \in Fkeys : \A r \in Dumped(ref, result, From(i)) :
        ref[i][r] # Null => ref[i][r] \in Dumped(ref, result, To(i))
=============================================================================

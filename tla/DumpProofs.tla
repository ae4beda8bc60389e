------------------------------ MODULE DumpProofs ------------------------------
(***************************************************************************)
(* Proofs about Dump: it runs the subsetter as module Subsetter has it, so *)
(* that what is proved there holds of a dump, and what it says that it has *)
(* dumped can be restored.                                                 *)
(***************************************************************************)
EXTENDS Dump, TLAPS, SequenceTheorems

\* The subsetter of a dump, which stays as it is once it was asked for its queries.
SS == INSTANCE SubsetterProofs WITH pc <- IF pc = "asked" THEN "idle" ELSE pc

(***************************************************************************)
(* The subsetter of a dump.                                                *)
(***************************************************************************)

LEMMA InitSS == InitDump => SS!Init
  BY DEF InitDump, Init, SS!Init

LEMMA SkipSS == ASSUME NEW i \in toVisit, Skip(i) PROVE SS!Skip(i)
  BY DEF Skip, IsNew, SS!Skip, SS!IsNew

LEMMA UpSS == ASSUME NEW i \in toVisit, Up(i) PROVE SS!Up(i)
  BY DEF Up, IsNew, Extended, ReferencedBy, Fkeys, From, To,
         SS!Up, SS!IsNew, SS!Extended, SS!ReferencedBy, SS!Fkeys, SS!From, SS!To

LEMMA DownSS == ASSUME NEW i \in toVisit, Down(i) PROVE SS!Down(i)
  BY DEF Down, IsNew, Extended, ConstraintsOf, Fkeys, From, To,
         SS!Down, SS!IsNew, SS!Extended, SS!ConstraintsOf, SS!Fkeys, SS!From, SS!To

LEMMA TurnSS == Turn => SS!Turn
  BY DEF Turn, Known, ConstraintsOf, Fkeys, From, SS!Turn, SS!Known, SS!ConstraintsOf, SS!Fkeys, SS!From

LEMMA FinishSS == Finish => SS!Finish
  BY DEF Finish, SS!Finish

LEMMA SubsetSS == \A t, extended : Subset(t, extended) => SS!Subset(t, extended)
  BY DEF Subset, FirstVisit, ConstraintsOf, ReferencedBy, Fkeys, From, To,
         SS!Subset, SS!FirstVisit, SS!ConstraintsOf, SS!ReferencedBy, SS!Fkeys, SS!From, SS!To

\* A step of dump is one of its subsetter, or leaves it as it is.
LEMMA NextSS == [NextDump]_allVars => [SS!Next]_SS!vars
<1>1. SUFFICES ASSUME [NextDump]_allVars PROVE SS!Next \/ UNCHANGED SS!vars
  OBVIOUS
<1>2. CASE WalkOn
  <2>1. Walk
    BY <1>2 DEF WalkOn
  <2>2. SS!Walk
    <3>1. CASE \E i \in toVisit : Skip(i) \/ Up(i) \/ Down(i)
      BY <3>1, SkipSS, UpSS, DownSS DEF SS!Walk
    <3>2. CASE Turn
      BY <3>2, TurnSS DEF SS!Walk
    <3>3. CASE Finish
      BY <3>3, FinishSS DEF SS!Walk
    <3>4. QED
      BY <2>1, <3>1, <3>2, <3>3 DEF Walk
  <2>3. QED
    BY <2>2 DEF SS!Next
<1>3. CASE \E t \in Tables, extended \in BOOLEAN, rows \in Picks : Query(t, extended, rows)
  BY <1>3, SubsetSS DEF Query, SS!Next
<1>4. CASE RunFails
  BY <1>4 DEF RunFails, SS!vars
<1>5. CASE \E k \in Kinds : Begin(k)
  BY <1>5 DEF Begin, SS!vars
<1>6. CASE UNCHANGED vars
  BY <1>6 DEF vars, SS!vars
<1>7. CASE WriteScript \/ ScriptFails \/ AfterScripts \/ Return
  BY <1>6, <1>7 DEF WriteScript, ScriptFails, AfterScripts, Return
<1>8. CASE \E t \in Tables : Copies(t)
  BY <1>6, <1>8 DEF Copies, Open, CopyRows, BreakOff, CopyFails
<1>9. CASE \E i \in Fkeys : \E r, s \in Rows : Update(i, r, s)
  BY <1>6, <1>9 DEF Update
<1>10. CASE UNCHANGED allVars
  BY <1>6, <1>10 DEF allVars
<1>11. QED
  BY <1>1, <1>2, <1>3, <1>4, <1>5, <1>7, <1>8, <1>9, <1>10 DEF NextDump, DumpStep

\* dump takes the subsetter through its steps and no others: a walk is not broken off or
\* mixed with another one, whatever the scripts, the goroutines and the other clients do.
THEOREM DumpSubsets == SpecDump => SS!Spec
  BY InitSS, NextSS, PTL DEF SpecDump, SS!Spec

Reliable == SS!TypeOK /\ SS!SubsetIsClosure /\ SS!IntactIfSimple

LEMMA SubsetterOfDump == SpecDump => []Reliable
<1>1. SS!Spec => []SS!TypeOK
  BY SS!SubsetterTypeCorrect, SubsetterAssumption, Zenon
     DEF SS!SubsetterTypeCorrect, SS!SubsetterAssumption, SubsetterAssumption, SS!Fkey, Fkey,
         SS!IsFiniteSet, IsFiniteSet
<1>2. SS!Spec => []SS!SubsetIsClosure
  BY SS!NothingMissing, SubsetterAssumption, Zenon
     DEF SS!NothingMissing, SS!SubsetterAssumption, SubsetterAssumption, SS!Fkey, Fkey,
         SS!IsFiniteSet, IsFiniteSet
<1>3. SS!Spec => []SS!IntactIfSimple
  BY SS!SimplyIntact, SubsetterAssumption, Zenon
     DEF SS!SimplyIntact, SS!SubsetterAssumption, SubsetterAssumption, SS!Fkey, Fkey,
         SS!IsFiniteSet, IsFiniteSet
<1>4. QED
  BY <1>1, <1>2, <1>3, DumpSubsets, PTL DEF Reliable

(***************************************************************************)
(* What a dump has written.                                                *)
(***************************************************************************)

\* The definitions of dump at given values of what its queries depend on.
At(cat, qs, sv, rf, sel) ==
  INSTANCE Dump WITH catalog <- cat, queries <- qs, saved <- sv, ref <- rf, selected <- sel

SelectsAsAt ==
  \A C, Q, V, R, L, t :
    <<catalog, queries, saved, ref, selected>> = <<C, Q, V, R, L>> =>
      Selects(t) = At(C, Q, V, R, L)!Selects(t)

LEMMA SelectsAt == SelectsAsAt
<1>1. SUFFICES ASSUME NEW C, NEW Q, NEW V, NEW R, NEW L, NEW t,
                      <<catalog, queries, saved, ref, selected>> = <<C, Q, V, R, L>>
               PROVE  Selects(t) = At(C, Q, V, R, L)!Selects(t)
  BY DEF SelectsAsAt
<1>2. catalog = C /\ queries = Q /\ saved = V /\ ref = R /\ selected = L
  BY <1>1
<1>3. At(catalog, queries, saved, ref, selected)!Selects(t) = At(C, Q, V, R, L)!Selects(t)
  BY <1>2
<1>4. Selects(t) = At(catalog, queries, saved, ref, selected)!Selects(t)
  BY DEF Selects, At!Selects, RowsOf, At!RowsOf, Dumped, At!Dumped, Selected, At!Selected,
         Joined, At!Joined, ConstraintsOf, At!ConstraintsOf, Fkeys, At!Fkeys, From, At!From
<1>5. QED
  BY <1>3, <1>4

\* A query selects the same as long as nothing that it depends on changes.
LEMMA SelectsAlike ==
  ASSUME UNCHANGED <<catalog, queries, saved, ref, selected>>
  PROVE  \A t : Selects(t)' = Selects(t)
<1>1. SUFFICES ASSUME NEW t PROVE Selects(t)' = Selects(t)
  OBVIOUS
<1>2. PICK C, Q, V, R, L : <<catalog, queries, saved, ref, selected>> = <<C, Q, V, R, L>>
  OBVIOUS
<1>3. Selects(t) = At(C, Q, V, R, L)!Selects(t)
  BY <1>2, SelectsAt DEF SelectsAsAt
<1>4. SelectsAsAt'
  BY SelectsAt, PTL
<1>5. At(C, Q, V, R, L)!Selects(t)' = At(C, Q, V, R, L)!Selects(t)
  BY DEF At!Selects, At!RowsOf, At!Dumped, At!Selected, At!Joined, At!ConstraintsOf, At!Fkeys, At!From
<1>6. Selects(t)' = At(C, Q, V, R, L)!Selects(t)'
  BY <1>2, <1>4 DEF SelectsAsAt
<1>7. QED
  BY <1>3, <1>5, <1>6

\* Where Run is, and what it has at hand.
Progress ==
  /\ phase \in {"subset", "scripts", "data", "returned"}
  /\ phase # "subset" => pc = "asked"
  /\ phase # "returned" => result = "none"
  /\ phase \in {"scripts", "data"} \/ result = "ok" => kind \in Kinds
  /\ troubles \in Nat
  /\ troubles = 0 => ref \in Contents
  /\ selected \in Seq(SUBSET Rows) /\ Len(selected) = Len(queries)

\* A table that is done has its file, unless others have interfered.
Written ==
  /\ gpc \in [Tables -> {"idle", "open", "done", "failed"}]
  /\ phase \in {"subset", "scripts"} => \A t \in Tables : gpc[t] = "idle"
  /\ troubles = 0 => \A t \in Tables :
       gpc[t] = "done" => FileOf(t) \in DOMAIN csv /\ csv[FileOf(t)] = Selects(t)
  /\ result = "ok" => kind.only = "schema" \/ \A t \in Queried : gpc[t] = "done"

DInv == Progress /\ Written

LEMMA InitDInv == InitDump => DInv
<1>1. SUFFICES ASSUME InitDump PROVE DInv
  OBVIOUS
<1>2. ref \in Contents
  BY <1>1, DumpAssumption DEF InitDump, Init, Contents, Fkeys
<1>3. Progress
  BY <1>1, <1>2 DEF InitDump, Init, Progress
<1>4. Written
  BY <1>1 DEF InitDump, Written
<1>5. QED
  BY <1>3, <1>4 DEF DInv

\* What does not change with the state of dump alone.
LEMMA ContentsAlike ==
  ASSUME catalog' = catalog PROVE Contents' = Contents
  BY DEF Contents, Fkeys

LEMMA QueriedAlike ==
  ASSUME UNCHANGED <<queries, saved>> PROVE Queried' = Queried
  BY DEF Queried

LEMMA FileOfOnly ==
  ASSUME NEW t \in Tables, NEW u \in Tables, FileOf(t) = FileOf(u)
  PROVE  t = u
  BY DumpAssumption DEF FileOf

LEMMA HoldingOnly ==
  ASSUME NEW f, NEW rows, Holding(f, rows)
  PROVE  /\ f \in DOMAIN csv' /\ csv'[f] = rows
         /\ \A g \in DOMAIN csv : g # f => g \in DOMAIN csv' /\ csv'[g] = csv[g]
  BY DEF Holding

LEMMA WalkDInv == ASSUME DInv, SS!TypeOK, WalkOn PROVE DInv'
<1>1. /\ catalog' = catalog /\ queries' = queries /\ phase = "subset"
      /\ UNCHANGED dump
  BY DEF WalkOn, Walk, Skip, Up, Down, Turn, Finish
<1>2. Contents' = Contents
  BY <1>1, ContentsAlike
<1>3. Progress'
  BY <1>1, <1>2 DEF DInv, Progress, dump
<1>4. Written'
  BY <1>1 DEF DInv, Progress, Written, dump
<1>5. QED
  BY <1>3, <1>4 DEF DInv

LEMMA QueryDInv ==
  ASSUME DInv, SS!TypeOK, NEW t \in Tables, NEW extended \in BOOLEAN, NEW rows \in Picks,
         Query(t, extended, rows)
  PROVE  DInv'
<1> DEFINE Q == [base : Tables, extended : BOOLEAN]
           q == [base |-> t, extended |-> extended]
           R == SUBSET Rows
<1>1. /\ catalog' = catalog /\ queries' = Append(queries, q) /\ phase = "subset"
      /\ selected' = Append(selected, rows)
      /\ UNCHANGED <<ref, phase, kind, scripts, csv, gpc, result, troubles>>
  BY DEF Query, Subset
<1>2. Contents' = Contents
  BY <1>1, ContentsAlike
<1>3. selected' \in Seq(R) /\ Len(selected') = Len(queries')
  <2>1. queries \in Seq(Q) /\ q \in Q
    BY DEF SS!TypeOK
  <2>2. selected \in Seq(R) /\ rows \in R /\ Len(selected) = Len(queries)
    BY DumpAssumption DEF DInv, Progress
  <2> HIDE DEF Q, q, R
  <2>3. Len(Append(queries, q)) = Len(queries) + 1
    BY <2>1, AppendProperties
  <2>4. Append(selected, rows) \in Seq(R) /\ Len(Append(selected, rows)) = Len(selected) + 1
    BY <2>2, AppendProperties
  <2>5. QED
    BY <1>1, <2>2, <2>3, <2>4
<1>4. Progress'
  BY <1>1, <1>2, <1>3 DEF DInv, Progress
<1>5. Written'
  BY <1>1 DEF DInv, Progress, Written
<1>6. QED
  BY <1>4, <1>5 DEF DInv

\* A step that writes no row.
LEMMA OtherDInv ==
  ASSUME DInv, RunFails \/ (\E k \in Kinds : Begin(k)) \/ WriteScript \/ ScriptFails \/ AfterScripts
  PROVE  DInv'
<1>1. /\ UNCHANGED <<catalog, queries, saved, ref, selected, gpc, troubles>>
      /\ phase \in {"subset", "scripts"}
  BY DEF RunFails, Begin, WriteScript, ScriptFails, AfterScripts, vars
<1>2. Contents' = Contents
  BY <1>1, ContentsAlike
<1>3. Progress'
  <2>1. CASE RunFails
    BY <1>1, <1>2, <2>1 DEF RunFails, Fail, DInv, Progress
  <2>2. CASE \E k \in Kinds : Begin(k)
    BY <1>1, <1>2, <2>2 DEF Begin, DInv, Progress
  <2>3. CASE WriteScript
    BY <1>1, <1>2, <2>3 DEF WriteScript, vars, DInv, Progress
  <2>4. CASE ScriptFails
    BY <1>1, <1>2, <2>4 DEF ScriptFails, Fail, vars, DInv, Progress
  <2>5. CASE AfterScripts
    BY <1>1, <1>2, <2>5 DEF AfterScripts, vars, DInv, Progress
  <2>6. QED
    BY <2>1, <2>2, <2>3, <2>4, <2>5
<1>4. \A t \in Tables : gpc[t] = "idle"
  BY <1>1 DEF DInv, Written
<1>5. result' = "ok" => kind'.only = "schema"
  BY <1>1 DEF RunFails, Begin, WriteScript, ScriptFails, AfterScripts, Fail, DInv, Progress
<1>6. Written'
  BY <1>1, <1>4, <1>5 DEF DInv, Written
<1>7. QED
  BY <1>3, <1>6 DEF DInv

\* A step of the dump of one table.
LEMMA CopiesDInv == ASSUME DInv, NEW t \in Tables, Copies(t) PROVE DInv'
<1>1. /\ UNCHANGED <<catalog, queries, saved, pc, ref, phase, kind, selected, result>>
      /\ phase = "data"
  BY DEF Copies, Open, CopyRows, BreakOff, CopyFails, vars
<1>2. Contents' = Contents /\ \A u : Selects(u)' = Selects(u)
  BY <1>1, ContentsAlike, SelectsAlike
<1>3. troubles' \in Nat /\ (troubles' = 0 => troubles = 0)
  BY DEF Copies, Open, CopyRows, BreakOff, CopyFails, DInv, Progress
<1>4. Progress'
  BY <1>1, <1>2, <1>3 DEF DInv, Progress
<1>5. /\ gpc' \in [Tables -> {"idle", "open", "done", "failed"}]
      /\ \A u \in Tables : u # t => gpc'[u] = gpc[u]
      /\ gpc'[t] = "done" => CopyRows(t) \/ BreakOff(t)
  BY DEF Copies, Open, CopyRows, BreakOff, CopyFails, DInv, Written
<1>6. ASSUME troubles' = 0, NEW u \in Tables, gpc'[u] = "done"
      PROVE  FileOf(u) \in DOMAIN csv' /\ csv'[FileOf(u)] = Selects(u)
  <2>1. troubles = 0 /\ ~BreakOff(t)
    BY <1>3, <1>6 DEF BreakOff, DInv, Progress
  <2>2. CASE u = t
    <3>1. CopyRows(t)
      BY <1>5, <1>6, <2>1, <2>2
    <3>2. QED
      BY <2>2, <3>1, HoldingOnly DEF CopyRows
  <2>3. CASE u # t
    <3>1. FileOf(u) \in DOMAIN csv /\ csv[FileOf(u)] = Selects(u)
      BY <1>5, <1>6, <2>1, <2>3 DEF DInv, Written
    <3>2. FileOf(u) # FileOf(t)
      BY <2>3, FileOfOnly
    <3>3. csv' = csv \/ \E rows : Holding(FileOf(t), rows)
      BY DEF Copies, Open, CopyRows, BreakOff, CopyFails
    <3>4. QED
      BY <3>1, <3>2, <3>3, HoldingOnly
  <2>4. QED
    BY <2>2, <2>3
<1>7. FileOf(t)' = FileOf(t) /\ \A u : FileOf(u)' = FileOf(u)
  BY DEF FileOf
<1>8. result' # "ok"
  BY <1>1 DEF DInv, Progress
<1>9. Written'
  BY <1>1, <1>2, <1>5, <1>6, <1>7, <1>8 DEF Written
<1>10. QED
  BY <1>4, <1>9 DEF DInv

LEMMA ReturnDInv == ASSUME DInv, Return PROVE DInv'
<1>1. /\ UNCHANGED <<catalog, queries, saved, pc, ref, kind, selected, csv, gpc, troubles>>
      /\ phase = "data" /\ phase' = "returned" /\ result' = Outcome /\ Over
  BY DEF Return, vars
<1>2. Contents' = Contents /\ Queried' = Queried /\ \A u : Selects(u)' = Selects(u)
  BY <1>1, ContentsAlike, QueriedAlike, SelectsAlike
<1>3. Progress'
  BY <1>1, <1>2 DEF DInv, Progress
<1>4. ASSUME result' = "ok" PROVE \A t \in Queried : gpc[t] = "done"
  <2>1. \A t \in Queried : gpc[t] # "failed"
    BY <1>1, <1>4 DEF Outcome
  <2>2. QED
    BY <1>1, <2>1 DEF Over, Ended
<1>5. Written'
  BY <1>1, <1>2, <1>4 DEF DInv, Written
<1>6. QED
  BY <1>3, <1>5 DEF DInv

LEMMA UpdateDInv ==
  ASSUME DInv, NEW i \in Fkeys, NEW r \in Rows, NEW s \in Rows, Update(i, r, s)
  PROVE  DInv'
<1>1. /\ UNCHANGED <<catalog, queries, saved, pc, phase, kind, selected, csv, gpc, result>>
      /\ troubles' = troubles + 1 /\ phase = "data"
  BY DEF Update, vars
<1>2. troubles' \in Nat /\ troubles' # 0
  BY <1>1 DEF DInv, Progress
<1>3. Progress'
  BY <1>1, <1>2 DEF DInv, Progress
<1>4. Written'
  BY <1>1, <1>2 DEF DInv, Progress, Written
<1>5. QED
  BY <1>3, <1>4 DEF DInv

LEMMA StutterDInv == ASSUME DInv, UNCHANGED allVars PROVE DInv'
<1>1. /\ UNCHANGED <<catalog, queries, saved, pc, ref, phase, kind, selected, csv, gpc, result>>
      /\ troubles' = troubles
  BY DEF allVars, vars, dump
<1>2. Contents' = Contents /\ Queried' = Queried /\ \A u : Selects(u)' = Selects(u)
  BY <1>1, ContentsAlike, QueriedAlike, SelectsAlike
<1>3. Progress'
  BY <1>1, <1>2 DEF DInv, Progress
<1>4. Written'
  BY <1>1, <1>2 DEF DInv, Written
<1>5. QED
  BY <1>3, <1>4 DEF DInv

LEMMA NextDInv == DInv /\ SS!TypeOK /\ [NextDump]_allVars => DInv'
<1>1. SUFFICES ASSUME DInv, SS!TypeOK, [NextDump]_allVars PROVE DInv'
  OBVIOUS
<1>2. CASE \E t \in Tables, extended \in BOOLEAN, rows \in Picks : Query(t, extended, rows)
  BY <1>1, <1>2, QueryDInv
<1>3. CASE \E t \in Tables : Copies(t)
  BY <1>1, <1>3, CopiesDInv
<1>4. CASE \E i \in Fkeys : \E r, s \in Rows : Update(i, r, s)
  BY <1>1, <1>4, UpdateDInv
<1>5. CASE WalkOn \/ Return \/ UNCHANGED allVars
  BY <1>1, <1>5, WalkDInv, ReturnDInv, StutterDInv
<1>6. CASE RunFails \/ (\E k \in Kinds : Begin(k)) \/ WriteScript \/ ScriptFails \/ AfterScripts
  BY <1>1, <1>6, OtherDInv
<1>7. QED
  BY <1>1, <1>2, <1>3, <1>4, <1>5, <1>6 DEF NextDump, DumpStep

LEMMA DumpInvariance == SpecDump => [](DInv /\ Reliable)
<1>1. DInv /\ Reliable /\ [NextDump]_allVars => DInv'
  BY NextDInv DEF Reliable
<1>2. QED
  BY InitDInv, <1>1, SubsetterOfDump, PTL DEF SpecDump

(***************************************************************************)
(* What load makes of it.                                                  *)
(***************************************************************************)

\* What the subsetter of a dump says of its queries, dump does.
LEMMA SimpleSS == \A q : SS!Simple(q) <=> Simple(q)
  BY DEF SS!Simple, Simple, SS!Fkeys, Fkeys, SS!From, From, SS!To, To,
         SS!Cardinality, Cardinality

LEMMA NeededSS == \A r, s : SS!NeededBy(r, s) = NeededBy(r, s)
  BY DEF NeededBy, SS!NeededBy, Needed, SS!Needed, Closure, SS!Closure, ReferTo, SS!ReferTo,
         RefersTo, SS!RefersTo, Fkeys, SS!Fkeys, From, SS!From, To, SS!To,
         SS!Cardinality, Cardinality

LEMMA DumpedSS == \A r, s : SS!DumpedBy(r, s) = DumpedBy(r, s)
  BY DEF DumpedBy, SS!DumpedBy, Dumped, SS!Dumped, Selected, SS!Selected, Joined, SS!Joined,
         From, SS!From

LEMMA EndsSS ==
  ASSUME SS!TypeOK, NEW i \in Fkeys
  PROVE  From(i) \in Tables /\ To(i) \in Tables
<1>1. catalog \in Seq(Fkey)
  BY SubsetterAssumption DEF SS!TypeOK
<1>2. catalog[i] \in Fkey
  BY <1>1 DEF Fkeys
<1>3. QED
  BY <1>2 DEF From, To, Fkey

\* What the subsetter of a dump promises, once it was asked.
LEMMA AskedSubset ==
  ASSUME Reliable, pc = "asked", \A n \in DOMAIN queries : Simple(queries[n]),
         NEW r \in Contents, NEW s \in Results
  PROVE  /\ DumpedBy(r, s) = NeededBy(r, s)
         /\ \A i \in Fkeys : \A p \in Dumped(r, s, From(i)) :
              r[i][p] # Null => r[i][p] \in Dumped(r, s, To(i))
<1>1. \A n \in DOMAIN queries : SS!Simple(queries[n])
  BY SimpleSS
<1>2. r \in SS!Contents /\ s \in SS!Results /\ Fkeys = SS!Fkeys
  BY DEF SS!Contents, SS!Results, Contents, Results, SS!Fkeys, Fkeys
<1>3. \A i : From(i) = SS!From(i) /\ To(i) = SS!To(i)
  BY DEF SS!From, From, SS!To, To
<1>4. \A t : Dumped(r, s, t) = SS!Dumped(r, s, t)
  BY DEF Dumped, SS!Dumped, Selected, SS!Selected, Joined, SS!Joined, From, SS!From
<1>5. DumpedBy(r, s) = SS!DumpedBy(r, s)
  BY DumpedSS
<1>6. NeededBy(r, s) = SS!NeededBy(r, s)
  BY NeededSS
<1>7. SS!DumpedBy(r, s) = SS!NeededBy(r, s)
  BY <1>1, <1>2 DEF Reliable, SS!SubsetIsClosure
<1>8. \A i \in SS!Fkeys : \A p \in SS!Dumped(r, s, SS!From(i)) :
        r[i][p] # Null => r[i][p] \in SS!Dumped(r, s, SS!To(i))
  BY <1>1, <1>2 DEF Reliable, SS!IntactIfSimple, SS!ReferentiallyIntact
<1>9. QED
  BY <1>2, <1>3, <1>4, <1>5, <1>6, <1>7, <1>8

\* The rows of a table among pairs of tables and rows.
LEMMA RowsOfTable ==
  ASSUME NEW r, NEW s, NEW t \in Tables
  PROVE  {x[2] : x \in {y \in DumpedBy(r, s) : y[1] = t}} = Dumped(r, s, t)
<1> DEFINE D == {x[2] : x \in {y \in DumpedBy(r, s) : y[1] = t}}
<1>1. ASSUME NEW p \in D PROVE p \in Dumped(r, s, t)
  <2>1. PICK x \in DumpedBy(r, s) : x[1] = t /\ x[2] = p
    BY <1>1
  <2>2. PICK u \in Tables : x \in {u} \X Dumped(r, s, u)
    BY <2>1 DEF DumpedBy
  <2>3. QED
    BY <2>1, <2>2
<1>2. ASSUME NEW p \in Dumped(r, s, t) PROVE p \in D
  <2>1. <<t, p>> \in {t} \X Dumped(r, s, t) /\ <<t, p>>[1] = t /\ <<t, p>>[2] = p
    BY <1>2
  <2>2. <<t, p>> \in DumpedBy(r, s)
    BY <2>1 DEF DumpedBy
  <2>3. QED
    BY <2>1, <2>2
<1>3. QED
  BY <1>1, <1>2

\* The rows of a dump that has come to its end.
Rest(t) == IF queries = <<>> THEN Rows ELSE Dumped(ref, selected, t)

LEMMA CompleteLoads ==
  ASSUME DInv, Reliable, Complete, troubles = 0, NEW t \in Tables
  PROVE  /\ Loaded(t) = Wanted(t)
         /\ kind.only # "schema" => Loaded(t) = RowsOf(t, Rest(t))
<1>1. /\ pc = "asked" /\ phase = "returned" /\ result = "ok" /\ Fresh
      /\ \A n \in DOMAIN queries : Simple(queries[n])
  BY DEF DInv, Progress, Complete
<1>2. ref \in Contents /\ selected \in Results
  BY DEF DInv, Progress, Results, Reliable, SS!TypeOK
<1>3. CASE kind.only = "schema"
  BY <1>1, <1>3 DEF Fresh, Loaded, Wanted
<1>4. CASE kind.only # "schema"
  <2>1. Wanted(t) = RowsOf(t, Rest(t))
    <3>1. DumpedBy(ref, selected) = NeededBy(ref, selected)
      BY <1>1, <1>2, AskedSubset
    <3>2. {x[2] : x \in {y \in NeededBy(ref, selected) : y[1] = t}} = Dumped(ref, selected, t)
      BY <3>1, RowsOfTable
    <3>3. QED
      BY <1>4, <3>2 DEF Wanted, Rest
  <2>2. CASE t \in Queried
    <3>1. gpc[t] = "done"
      BY <1>1, <1>4, <2>2 DEF DInv, Written
    <3>2. Loaded(t) = Selects(t)
      BY <3>1 DEF DInv, Written, Loaded
    <3>3. QED
      BY <1>4, <2>1, <3>2 DEF Selects, Rest
  <2>3. CASE t \notin Queried
    <3>1. queries # <<>> /\ saved[t] = {}
      BY <2>3 DEF Queried
    <3>2. Rest(t) = {}
      BY <3>1 DEF Rest, Dumped
    <3>3. Loaded(t) = {}
      BY <1>1, <2>3 DEF Fresh, Loaded
    <3>4. QED
      BY <1>4, <2>1, <3>2, <3>3 DEF RowsOf
  <2>4. QED
    BY <2>2, <2>3
<1>5. QED
  BY <1>3, <1>4

\* A row is loaded with those it refers to.
LEMMA CompleteRefers ==
  ASSUME DInv, Reliable, Complete, troubles = 0, NEW i \in Fkeys, NEW x \in Loaded(From(i)),
         x[2][i] # Null
  PROVE  \E y \in Loaded(To(i)) : y[1] = x[2][i]
<1>1. From(i) \in Tables /\ To(i) \in Tables
  BY EndsSS DEF Reliable
<1>2. kind.only # "schema"
  BY <1>1, CompleteLoads DEF Wanted
<1>3. x \in RowsOf(From(i), Rest(From(i)))
  BY <1>1, <1>2, CompleteLoads
<1>4. PICK r \in Rest(From(i)) : x = <<r, [k \in ConstraintsOf({From(i)}) |-> ref[k][r]]>>
  BY <1>3 DEF RowsOf
<1>5. i \in ConstraintsOf({From(i)})
  BY DEF ConstraintsOf
<1>6. x[2][i] = ref[i][r]
  BY <1>4, <1>5
<1>7. /\ pc = "asked" /\ \A n \in DOMAIN queries : Simple(queries[n])
      /\ ref \in Contents /\ selected \in Results
  BY DEF DInv, Progress, Complete, Results, Reliable, SS!TypeOK
<1>8. ref[i][r] \in Rest(To(i))
  <2>1. CASE queries = <<>>
    <3>1. ref[i] \in [Rows -> Rows \cup {Null}]
      BY <1>7, SubsetterAssumption DEF Contents
    <3>2. r \in Rows
      BY <2>1 DEF Rest
    <3>3. QED
      BY <1>6, <2>1, <3>1, <3>2 DEF Rest
  <2>2. CASE queries # <<>>
    <3>1. r \in Dumped(ref, selected, From(i))
      BY <2>2 DEF Rest
    <3>2. ref[i][r] \in Dumped(ref, selected, To(i))
      BY <1>6, <1>7, <3>1, AskedSubset
    <3>3. QED
      BY <2>2, <3>2 DEF Rest
  <2>3. QED
    BY <2>1, <2>2
<1>9. <<ref[i][r], [k \in ConstraintsOf({To(i)}) |-> ref[k][ref[i][r]]]>> \in Loaded(To(i))
  BY <1>1, <1>2, <1>8, CompleteLoads DEF RowsOf
<1>10. QED
  BY <1>6, <1>9

LEMMA CompleteRestores == DInv /\ Reliable => Restores
<1>1. SUFFICES ASSUME DInv, Reliable, Complete, troubles = 0
               PROVE  /\ \A t \in Tables : Loaded(t) = Wanted(t)
                      /\ \A i \in Fkeys : kind.only # "data" /\ Refused(i) =>
                           kind.dialect = "postgres" /\ Position(From(i)) < Position(To(i))
  BY DEF Restores
<1>2. \A t \in Tables : Loaded(t) = Wanted(t)
  BY <1>1, CompleteLoads
<1>3. ASSUME NEW i \in Fkeys, Refused(i)
      PROVE  kind.dialect = "postgres" /\ Position(From(i)) < Position(To(i))
  <2>1. From(i) \in Tables /\ To(i) \in Tables
    BY <1>1, EndsSS DEF Reliable
  <2>2. kind.dialect # "sqlite" /\ ~KeysInTables /\ ~KeyBefore(i)
    <3>1. \A x \in Loaded(From(i)) : x[2][i] # Null => \E y \in Loaded(To(i)) : y[1] = x[2][i]
      BY <1>1, CompleteRefers
    <3>2. QED
      BY <1>3, <3>1 DEF Refused
  <2>3. kind \in Kinds
    BY <1>1 DEF DInv, Progress, Complete
  <2>4. kind.dialect = "postgres"
    BY <2>2, <2>3, DumpAssumption DEF KeysInTables
  <2>5. ASSUME NEW t \in Tables PROVE Position(t) \in Nat
    <3>1. \E n \in DOMAIN Schemas : Schemas[n] = SchemaOf[t]
      BY DumpAssumption
    <3>2. Position(t) \in DOMAIN Schemas
      BY <3>1 DEF Position
    <3>3. DOMAIN Schemas \subseteq Nat
      <4> DEFINE S == {SchemaOf[u] : u \in Tables}
      <4>1. Schemas \in Seq(S)
        BY DumpAssumption
      <4> HIDE DEF S
      <4>2. QED
        BY <4>1
    <3>4. QED
      BY <3>2, <3>3
  <2>6. QED
    BY <2>1, <2>2, <2>4, <2>5 DEF KeyBefore
<1>4. QED
  BY <1>2, <1>3

\* For every catalog, any contents, queries and kinds of dump, and however many tables are
\* written at a time: a dump that says it has ended well, beside no earlier files, holds
\* every row that was to be dumped and no other, in the file that load looks for, and load
\* gets its foreign keys back, but for those of Postgres to a later schema.
THEOREM DumpRestores == SpecDump => []Restores
  BY DumpInvariance, CompleteRestores, PTL
=============================================================================

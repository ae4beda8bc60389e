--------------------------- MODULE AutomigrateProofs ---------------------------
(***************************************************************************)
(* What automigrate may never take away, for every pair of catalogs, and   *)
(* that it locks nobody out for long if nobody accepted its warnings.      *)
(***************************************************************************)
EXTENDS Automigrate, SequenceTheorems, TLAPS

Dropping == {"drop schema", "drop table", "drop column"}

\* The columns that a statement brings are columns.
Fits(s) ==
  /\ "op" \in DOMAIN s
  /\ s.op = "add column" => {"table", "name"} \subseteq DOMAIN s.object
  /\ s.op = "create table" =>
       \A x \in s.object.columns : {"table", "name"} \subseteq DOMAIN x

\* A statement that takes a table or a column away must have been asked for.
Allowed(drop, s) == Fits(s) /\ (s.op \in Dropping => drop)

\* So it is with what is left to do, and without -drop-objects what the open
\* transaction has done took nothing away.
Keeps ==
  /\ \A x \in todo : Allowed("drop-objects" \in flags, x.stmt)
  /\ "drop-objects" \notin flags => Holds(work, db)

\* The inductive invariant.
Inv ==
  /\ IsCatalog(db)
  /\ IsCatalog(work)
  /\ ran = {} => work = db
  /\ outcome # "running" => ran = {} /\ todo = {}
  /\ Keeps

-----------------------------------------------------------------------------
(* The migration *)

\* The statements that bring no column and take none away.
Harmless(op) == op \notin Dropping \cup {"add column", "create table"}

LEMMA HarmlessSteps ==
  ASSUME NEW drop, NEW op, Harmless(op)
  PROVE  /\ \A file, at, t : Allowed(drop, Step(file, at, On(op, t)).stmt)
         /\ \A file, at, t, n : Allowed(drop, Step(file, at, Named(op, t, n)).stmt)
         /\ \A file, at, t, x : Allowed(drop, Step(file, at, With(op, t, x)).stmt)
<1>1. \A s : "op" \in DOMAIN s /\ s.op = op => Allowed(drop, s)
  BY DEF Harmless, Allowed, Fits, Dropping
<1>2. \A file, at, s : Step(file, at, s).stmt = s
  BY DEF Step
<1>3. \A t : "op" \in DOMAIN On(op, t) /\ On(op, t).op = op
  BY DEF On
<1>4. \A t, n : "op" \in DOMAIN Named(op, t, n) /\ Named(op, t, n).op = op
  BY DEF Named
<1>5. \A t, x : "op" \in DOMAIN With(op, t, x) /\ With(op, t, x).op = op
  BY DEF With
<1> QED
  BY <1>1, <1>2, <1>3, <1>4, <1>5

\* No part of a migration drops a table or a column, unless dropObjects is set.
LEMMA MigrationAllowed ==
  ASSUME NEW src, NEW dst, NEW drop, NEW version, IsCatalog(dst)
  PROVE  \A x \in Migration(src, dst, drop, version) : Allowed(drop, x.stmt)
<1>1. \A x \in DropFkeysSteps(src, dst, drop) : Allowed(drop, x.stmt)
  <2>1. Harmless("drop constraint")
    BY DEF Harmless, Dropping
  <2> QED
    BY <2>1, HarmlessSteps DEF DropFkeysSteps
<1>2. \A x \in SchemasSteps(src, dst, drop) : Allowed(drop, x.stmt)
  <2>1. Harmless("create schema")
    BY DEF Harmless, Dropping
  <2>2. ASSUME NEW n \in DropSchemas(src, dst, drop), NEW file, NEW at, NEW t
        PROVE  Allowed(drop, Step(file, at, On("drop schema", t)).stmt)
    BY DEF DropSchemas, Step, On, Allowed, Fits, Dropping
  <2> QED
    BY <2>1, <2>2, HarmlessSteps DEF SchemasSteps
<1>3. \A x \in TablesSteps(src, dst, drop) : Allowed(drop, x.stmt)
  <2>1. ASSUME NEW t \in DropTables(src, dst, drop), NEW file, NEW at
        PROVE  Allowed(drop, Step(file, at, On("drop table", t)).stmt)
    BY DEF DropTables, Step, On, Allowed, Fits, Dropping
  <2>2. ASSUME NEW file, NEW at, NEW t
        PROVE  Allowed(drop, Step(file, at, With("create table", t, TableObject(dst, t))).stmt)
    BY DEF Step, With, TableObject, Allowed, Fits, Dropping, IsCatalog
  <2> QED
    BY <2>1, <2>2 DEF TablesSteps
<1>4. \A x \in AlterTableSteps(src, dst, drop, version) : Allowed(drop, x.stmt)
  <2>1. ASSUME NEW y, NEW z
        PROVE  \A x \in AlterColumnStatements(y, z, version) : Allowed(drop, x.stmt)
    <3>1. \A op \in {"alter type", "alter collation", "set default", "drop not null",
                     "set not null", "add check", "drop identity", "add identity"} : Harmless(op)
      BY DEF Harmless, Dropping
    <3> QED
      BY <3>1, HarmlessSteps DEF AlterColumnStatements
  <2>2. ASSUME NEW x \in DropColumns(src, dst, drop), NEW file, NEW at
        PROVE  Allowed(drop, Step(file, at, With("drop column", x.table, x)).stmt)
    BY DEF DropColumns, Step, With, Allowed, Fits, Dropping
  <2>3. ASSUME NEW file, NEW at, NEW x \in AddColumns(src, dst)
        PROVE  Allowed(drop, Step(file, at, With("add column", x.table, x)).stmt)
    BY DEF AddColumns, Gone, Step, With, Allowed, Fits, Dropping, IsCatalog
  <2>4. /\ Harmless("drop index")
        /\ Harmless("drop constraint")
        /\ Harmless("alter constraint")
    BY DEF Harmless, Dropping
  <2> QED
    BY <2>1, <2>2, <2>3, <2>4, HarmlessSteps DEF AlterTableSteps
<1>5. \A x \in ValidateNotNullSteps(src, dst, version) : Allowed(drop, x.stmt)
  <2>1. Harmless("validate check") /\ Harmless("set not null") /\ Harmless("drop check")
    BY DEF Harmless, Dropping
  <2> QED
    BY <2>1, HarmlessSteps DEF ValidateNotNullSteps
<1>6. \A x \in CreateIndexSteps(src, dst) : Allowed(drop, x.stmt)
  <2>1. Harmless("create index")
    BY DEF Harmless, Dropping
  <2> QED
    BY <2>1, HarmlessSteps DEF CreateIndexSteps
<1>7. \A x \in AddKeySteps(src, dst) : Allowed(drop, x.stmt)
  <2>1. Harmless("create index") /\ Harmless("add key")
    BY DEF Harmless, Dropping
  <2> QED
    BY <2>1, HarmlessSteps DEF AddKeySteps
<1>8. \A x \in AddFastFkeysSteps(src, dst) \cup AddFkeysSteps(src, dst) : Allowed(drop, x.stmt)
  <2>1. Harmless("add foreign key") /\ Harmless("validate constraint")
    BY DEF Harmless, Dropping
  <2>2. \A x \in AddFastFkeysSteps(src, dst) : Allowed(drop, x.stmt)
    BY <2>1, HarmlessSteps DEF AddFastFkeysSteps
  <2>3. \A x \in AddFkeysSteps(src, dst) : Allowed(drop, x.stmt)
    BY <2>1, HarmlessSteps DEF AddFkeysSteps
  <2> QED
    BY <2>2, <2>3
<1> QED
  BY <1>1, <1>2, <1>3, <1>4, <1>5, <1>6, <1>7, <1>8 DEF Migration

-----------------------------------------------------------------------------
(* The statements *)

\* Statements leave a catalog, and but for those that drop them they leave all the tables
\* and a column of every name.
LEMMA EffectKeeps ==
  ASSUME NEW c, IsCatalog(c), NEW s, Fits(s)
  PROVE  IsCatalog(Effect(c, s)) /\ (s.op \notin Dropping => Holds(Effect(c, s), c))
<1>1. CASE s.op \in TableStatements
  <2>1. Effect(c, s) = EffectOnTables(c, s)
    BY <1>1 DEF Effect, TableStatements, ConstraintStatements
  <2>2. CASE s.op \in Dropping
    <3>1. \A T : /\ DOMAIN WithoutTables(c, T) = DOMAIN c
                 /\ WithoutTables(c, T).columns \subseteq c.columns
      BY DEF WithoutTables, IsCatalog
    <3>2. DOMAIN Effect(c, s) = DOMAIN c /\ Effect(c, s).columns \subseteq c.columns
      <4>1. CASE s.op = "drop schema"
        <5>1. PICK S, T : Effect(c, s) = [WithoutTables(c, T) EXCEPT !.schemas = S]
          BY <2>1, <4>1 DEF EffectOnTables
        <5> QED
          BY <3>1, <5>1
      <4>2. CASE s.op = "drop table"
        BY <2>1, <3>1, <4>2 DEF EffectOnTables
      <4>3. CASE s.op = "drop column"
        <5>1. PICK K, I, H :
                Effect(c, s) = [c EXCEPT !.columns = {x \in @ : x.table # s.table \/ x.name # s.name},
                                         !.constraints = K, !.indexes = I, !.checks = H]
          BY <2>1, <4>3 DEF EffectOnTables
        <5> QED
          BY <5>1 DEF IsCatalog
      <4> QED
        BY <2>2, <4>1, <4>2, <4>3 DEF Dropping
    <3> QED
      BY <2>2, <3>2 DEF IsCatalog
  <2>3. CASE s.op = "create table"
    <3>1. Effect(c, s) = [c EXCEPT !.tables = @ \cup {s.table},
                                   !.columns = @ \cup s.object.columns,
                                   !.constraints = @ \cup s.object.constraints,
                                   !.indexes = @ \cup s.object.indexes]
      BY <2>1, <2>3 DEF EffectOnTables
    <3>2. /\ DOMAIN Effect(c, s) = DOMAIN c
          /\ Effect(c, s).tables = c.tables \cup {s.table}
          /\ Effect(c, s).columns = c.columns \cup s.object.columns
      BY <3>1 DEF IsCatalog
    <3> QED
      BY <2>3, <3>2 DEF IsCatalog, Holds, Fits
  <2>4. CASE s.op = "add column"
    <3>1. Effect(c, s) = [c EXCEPT !.columns = @ \cup {s.object}]
      BY <2>1, <2>4 DEF EffectOnTables
    <3>2. /\ DOMAIN Effect(c, s) = DOMAIN c
          /\ Effect(c, s).tables = c.tables
          /\ Effect(c, s).columns = c.columns \cup {s.object}
      BY <3>1 DEF IsCatalog
    <3> QED
      BY <2>4, <3>2 DEF IsCatalog, Holds, Fits
  <2>5. CASE s.op = "create schema"
    <3>1. Effect(c, s) = [c EXCEPT !.schemas = @ \cup {Schema(s.table)}]
      BY <2>1, <2>5 DEF EffectOnTables
    <3> QED
      BY <3>1 DEF IsCatalog, Holds
  <2>6. CASE s.op \in {"create index", "drop index"}
    <3>1. PICK I : Effect(c, s) = [c EXCEPT !.indexes = I]
      BY <2>1, <2>6 DEF EffectOnTables
    <3> QED
      BY <3>1 DEF IsCatalog, Holds
  <2> QED
    BY <1>1, <2>2, <2>3, <2>4, <2>5, <2>6 DEF TableStatements, Dropping
<1>2. CASE s.op \in ConstraintStatements
  <2>1. Effect(c, s) = EffectOnConstraint(c, s)
    BY <1>2 DEF Effect, TableStatements, ConstraintStatements
  <2>2. CASE s.op = "add key"
    <3> DEFINE new(x) == IF x.table = s.table /\ x.name \in s.object.columns
                         THEN [x EXCEPT !.notNull = @ \/ s.object.type = PRIMARY_KEY] ELSE x
    <3>1. PICK I, K : Effect(c, s) = [c EXCEPT !.indexes = I, !.constraints = K,
                                               !.columns = {new(x) : x \in @}]
      BY <2>1, <2>2 DEF EffectOnConstraint
    <3>2. /\ DOMAIN Effect(c, s) = DOMAIN c
          /\ Effect(c, s).tables = c.tables
          /\ Effect(c, s).columns = {new(x) : x \in c.columns}
      BY <3>1 DEF IsCatalog
    <3>3. \A x \in c.columns : /\ {"table", "name"} \subseteq DOMAIN new(x)
                               /\ new(x).table = x.table
                               /\ new(x).name = x.name
      BY DEF IsCatalog
    <3> QED
      BY <3>2, <3>3 DEF IsCatalog, Holds
  <2>3. CASE s.op # "add key"
    <3>1. PICK K : Effect(c, s) = [c EXCEPT !.constraints = K]
      BY <1>2, <2>1, <2>3 DEF EffectOnConstraint, ConstraintStatements
    <3> QED
      BY <3>1 DEF IsCatalog, Holds
  <2> QED
    BY <2>2, <2>3
<1>3. CASE s.op \notin TableStatements \cup ConstraintStatements
  <2>1. Effect(c, s) = EffectOnColumn(c, s)
    BY <1>3 DEF Effect
  <2>2. CASE s.op \in {"add check", "drop check"}
    <3>1. PICK C : Effect(c, s) = [c EXCEPT !.checks = C]
      BY <2>1, <2>2 DEF EffectOnColumn
    <3> QED
      BY <3>1 DEF IsCatalog, Holds
  <2>3. CASE s.op \notin {"add check", "drop check"}
    <3>1. \A x \in c.columns :
            /\ {"table", "name"} \subseteq DOMAIN NewColumn(x, s)
            /\ NewColumn(x, s).table = x.table
            /\ NewColumn(x, s).name = x.name
      BY DEF NewColumn, IsCatalog
    <3> DEFINE new(x) == IF x.table = s.table /\ x.name = s.name THEN NewColumn(x, s) ELSE x
    <3>2. Effect(c, s) = [c EXCEPT !.columns = {new(x) : x \in @}]
      BY <2>1, <2>3 DEF EffectOnColumn
    <3>3. /\ DOMAIN Effect(c, s) = DOMAIN c
          /\ Effect(c, s).tables = c.tables
          /\ Effect(c, s).columns = {new(x) : x \in c.columns}
      BY <3>2 DEF IsCatalog
    <3>4. \A x \in c.columns : /\ {"table", "name"} \subseteq DOMAIN new(x)
                               /\ new(x).table = x.table
                               /\ new(x).name = x.name
      BY <3>1 DEF IsCatalog
    <3> QED
      BY <3>3, <3>4 DEF IsCatalog, Holds
  <2> QED
    BY <2>2, <2>3
<1> QED
  BY <1>1, <1>2, <1>3

-----------------------------------------------------------------------------
(* The runs *)

LEMMA HoldsReflexive == ASSUME NEW c PROVE Holds(c, c)
BY DEF Holds

LEMMA HoldsTransitive ==
  ASSUME NEW c, NEW d, NEW e, Holds(c, d), Holds(d, e)
  PROVE  Holds(c, e)
BY DEF Holds

\* Whatever an index that was being created leaves behind, nothing is lost.
LEMMA RemainsKeeps ==
  ASSUME IsCatalog(db), NEW x, NEW left \in Remains(x), Fits(x.stmt)
  PROVE  IsCatalog(left) /\ Holds(left, db)
<1>1. CASE left = db
  BY <1>1, HoldsReflexive
<1>2. CASE left # db
  <2> DEFINE s == [x.stmt EXCEPT !.object.valid = FALSE]
  <2>1. x.stmt.op = "create index" /\ left = Effect(db, s)
    BY <1>2 DEF Remains
  <2>2. Fits(s) /\ s.op \notin Dropping
    BY <2>1 DEF Fits, Dropping
  <2> QED
    BY <2>1, <2>2, EffectKeeps
<1> QED
  BY <1>1, <1>2

LEMMA InitKeeps == Init => Inv
BY AutomigrateAssumption, HoldsReflexive DEF Init, Inv, Keeps

LEMMA RunKeeps ==
  ASSUME Inv, NEW d \in Declared, NEW f \in Flags, Run(d, f)
  PROVE  Inv'
<1>1. /\ db' = db /\ work' = work /\ ran' = ran
      /\ ran = {} /\ work = db
  BY DEF Run, Inv
<1>2. IsCatalog(d)
  BY AutomigrateAssumption
<1>3. todo' \subseteq Migration(db, d, "drop-objects" \in f, Version) /\ flags' = f
  BY DEF Run
<1>4. Keeps'
  BY <1>1, <1>2, <1>3, MigrationAllowed, HoldsReflexive DEF Keeps
<1>5. (outcome # "running" => ran = {} /\ todo = {})'
  BY <1>1 DEF Run
<1> QED
  BY <1>1, <1>4, <1>5 DEF Inv

LEMMA ExecuteKeeps ==
  ASSUME Inv, NEW x \in todo, Execute(x)
  PROVE  Inv'
<1>1. /\ work' = Effect(work, x.stmt)
      /\ todo' = todo \ {x} /\ ran' = ran \cup {x}
      /\ UNCHANGED <<db, flags, outcome>>
      /\ outcome = "running"
  BY DEF Execute, Next1
<1>2. Allowed("drop-objects" \in flags, x.stmt)
  BY DEF Inv, Keeps
<1>3. /\ IsCatalog(work')
      /\ x.stmt.op \notin Dropping => Holds(work', work)
  BY <1>1, <1>2, EffectKeeps DEF Inv, Allowed
<1>4. "drop-objects" \notin flags => Holds(work', db)
  BY <1>2, <1>3, HoldsTransitive DEF Inv, Keeps, Allowed
<1>5. Keeps'
  BY <1>1, <1>4 DEF Inv, Keeps
<1> QED
  BY <1>1, <1>3, <1>5 DEF Inv

LEMMA StopKeeps ==
  ASSUME Inv, NEW why \in {"refused", "failed"}, NEW left, IsCatalog(left), Stop(why, left)
  PROVE  Inv'
BY HoldsReflexive DEF Stop, Inv, Keeps

\* A step that FailOnRows or Interrupt strikes.
LEMMA StruckKeeps ==
  ASSUME Inv, NEW x \in todo, NEW left \in Remains(x), Stop("failed", left)
  PROVE  Inv' /\ Holds(db', db)
<1>1. IsCatalog(left) /\ Holds(left, db)
  BY RemainsKeeps DEF Inv, Keeps, Allowed
<1> QED
  BY <1>1, StopKeeps DEF Stop

\* Every step keeps the invariant, and without -drop-objects all tables and columns.
LEMMA NextKeeps ==
  ASSUME Inv, [Next]_vars
  PROVE  Inv' /\ (Holds(db', db) \/ "drop-objects" \in flags)
<1>1. ASSUME NEW d \in Declared, NEW f \in Flags, Run(d, f)
      PROVE  Inv' /\ Holds(db', db)
  BY <1>1, RunKeeps, HoldsReflexive DEF Run
<1>2. ASSUME Commit
      PROVE  Inv' /\ (Holds(db', db) \/ "drop-objects" \in flags)
  BY <1>2, HoldsReflexive DEF Commit, Inv, Keeps
<1>3. ASSUME Finish
      PROVE  Inv' /\ Holds(db', db)
  BY <1>3, HoldsReflexive DEF Finish, Inv, Keeps
<1>4. ASSUME NEW x \in todo, Execute(x)
      PROVE  Inv' /\ Holds(db', db)
  BY <1>4, ExecuteKeeps, HoldsReflexive DEF Execute
<1>5. ASSUME NEW x \in todo, Refuse(x)
      PROVE  Inv' /\ Holds(db', db)
  <2>1. Stop("refused", db) /\ IsCatalog(db)
    BY <1>5 DEF Refuse, Inv
  <2> QED
    BY <2>1, StopKeeps, HoldsReflexive DEF Stop
<1>6. ASSUME NEW x \in todo, FailOnRows(x)
      PROVE  Inv' /\ Holds(db', db)
  BY <1>6, StruckKeeps DEF FailOnRows
<1>7. ASSUME Interrupt
      PROVE  Inv' /\ Holds(db', db)
  <2>1. ASSUME Stop("failed", db)
        PROVE  Inv' /\ Holds(db', db)
    <3>1. IsCatalog(db)
      BY DEF Inv
    <3> QED
      BY <2>1, <3>1, StopKeeps, HoldsReflexive DEF Stop
  <2> QED
    BY <1>7, <2>1, StruckKeeps DEF Interrupt
<1>8. ASSUME UNCHANGED vars
      PROVE  Inv' /\ Holds(db', db)
  BY <1>8, HoldsReflexive DEF vars, Inv, Keeps
<1> QED
  BY <1>1, <1>2, <1>3, <1>4, <1>5, <1>6, <1>7, <1>8 DEF Next, Migrating

\* What is in the database or in the open transaction is a catalog; no statement that
\* drops a table or a column is due without -drop-objects; outside of a transaction
\* nothing is in the making.  The invariant of automigrate.
THEOREM AutomigrateInvariant == Spec => []Inv
<1>1. Inv /\ [Next]_vars => Inv'
  BY NextKeeps
<1> QED
  BY InitKeeps, <1>1, PTL DEF Spec

\* The type invariant: outside of a run nothing is left to do, outside of a
\* transaction the database is what the server has committed.
THEOREM AutomigrateTypeCorrect == Spec => []TypeOK
<1>1. Init => TypeOK
  <2>1. \A c \in Existing : IsCatalog(c)
    BY AutomigrateAssumption
  <2>2. MaxRuns \in Nat
    BY AutomigrateAssumption
  <2>3. Init => IsCatalog(db) /\ IsCatalog(work)
    BY <2>1 DEF Init
  <2>4. Init => broken \in BOOLEAN /\ outcome \in Outcomes
    BY DEF Init, Outcomes
  <2> QED
    BY <2>2, <2>3, <2>4 DEF Init, TypeOK, Outcomes
<1>2. ASSUME TypeOK, Inv, Inv', [Next]_vars
      PROVE  TypeOK'
  <2>1. ASSUME NEW d \in Declared, NEW f \in Flags, Run(d, f)
        PROVE  TypeOK'
    <3>1. /\ dest' = d /\ flags' = f
          /\ outcome' \in Outcomes
          /\ broken' = broken
          /\ runs < MaxRuns /\ runs' = runs + 1
      BY <2>1 DEF Run, Outcomes
    <3>2. f \in SUBSET {"drop-objects", "accept-warnings"} /\ MaxRuns \in Nat
      BY AutomigrateAssumption
    <3>3. runs' \in 0 .. MaxRuns
      BY <1>2, <3>1, <3>2 DEF TypeOK
    <3> QED
      BY <1>2, <3>1, <3>2, <3>3 DEF TypeOK, Inv
  <2>2. ASSUME NEW why \in {"refused", "failed"}, NEW left, Stop(why, left)
        PROVE  TypeOK'
    BY <1>2, <2>2 DEF Stop, TypeOK, Inv, Outcomes
  <2>3. ASSUME NEW x \in todo, Execute(x)
        PROVE  TypeOK'
    BY <1>2, <2>3 DEF Execute, TypeOK, Inv
  <2>4. ASSUME Commit
        PROVE  TypeOK'
    BY <1>2, <2>4 DEF Commit, TypeOK, Inv
  <2>5. ASSUME Finish
        PROVE  TypeOK'
    BY <1>2, <2>5 DEF Finish, TypeOK, Inv, Outcomes
  <2>6. ASSUME NEW x \in todo, Refuse(x) \/ FailOnRows(x)
        PROVE  TypeOK'
    BY <2>2, <2>6 DEF Refuse, FailOnRows
  <2>7. ASSUME Interrupt
        PROVE  TypeOK'
    BY <2>2, <2>7 DEF Interrupt
  <2>8. ASSUME UNCHANGED vars
        PROVE  TypeOK'
    BY <1>2, <2>8 DEF vars, TypeOK, Inv
  <2> QED
    BY <1>2, <2>1, <2>3, <2>4, <2>5, <2>6, <2>7, <2>8 DEF Next, Migrating
<1> QED
  BY <1>1, <1>2, AutomigrateInvariant, PTL DEF Spec

\* Without -drop-objects no table and no column is ever lost, whatever the catalogs are,
\* whichever statements the database refuses and wherever a run is interrupted.
THEOREM NothingIsLost == Spec => KeepsWithoutDrop
<1>1. Inv /\ [Next]_vars => [Holds(db', db) \/ "drop-objects" \in flags]_vars
  BY NextKeeps
<1> QED
  BY AutomigrateInvariant, <1>1, PTL DEF Spec, KeepsWithoutDrop

-----------------------------------------------------------------------------
(* Online: what the statements do to columns, checks and constraints       *)

\* What is dropped with statement s.
TableGoes(s, t) ==
  \/ s.op = "drop table" /\ t = s.table
  \/ s.op = "drop schema" /\ Schema(t) = Schema(s.table)

Goes(s, x) == TableGoes(s, x.table) \/ (s.op = "drop column" /\ x.table = s.table /\ x.name = s.name)

\* A column as statement s leaves it.
Left(s, x) ==
  CASE s.op = "add key" ->
         IF x.table = s.table /\ x.name \in s.object.columns
         THEN [x EXCEPT !.notNull = @ \/ s.object.type = PRIMARY_KEY] ELSE x
    [] s.op \notin TableStatements \cup ConstraintStatements \cup {"add check", "drop check"} ->
         IF x.table = s.table /\ x.name = s.name THEN NewColumn(x, s) ELSE x
    [] OTHER -> x

Brought(s) ==
  CASE s.op = "add column" -> {s.object}
    [] s.op = "create table" -> s.object.columns
    [] OTHER -> {}

BringsRefs(s) ==
  /\ s.op = "create table" => \A k \in s.object.constraints : IsRef(k)
  /\ s.op \in {"add key", "add foreign key"} => IsRef(s.object)
  /\ s.op = "add foreign key" => s.table \in Nat \X Nat

\* Catalog e is what statement s makes of c.
Becomes(c, e, s) ==
  /\ IsCatalog(e)
  /\ e.tables = {t \in c.tables : ~TableGoes(s, t)} \cup {t \in {s.table} : s.op = "create table"}
  /\ e.columns = {Left(s, x) : x \in {y \in c.columns : ~Goes(s, y)}} \cup Brought(s)
  /\ \A h \in c.checks : h \in e.checks \/ Goes(s, h) \/ (s.op = "drop check" /\ h = [table |-> s.table, name |-> s.name])
  /\ \A k \in e.constraints : IsRef(k)

LEMMA EffectBecomes ==
  ASSUME NEW c, Whole(c), NEW s, Fits(s), BringsRefs(s), NEW e, e = Effect(c, s)
  PROVE  Becomes(c, e, s)
<1>1. IsCatalog(e)
  BY EffectKeeps DEF Whole
<1>2. CASE s.op \in TableStatements
  <2>1. e = EffectOnTables(c, s)
    BY <1>2 DEF Effect, TableStatements, ConstraintStatements
  <2>2. \A x : Left(s, x) = x
    BY <1>2 DEF Left, TableStatements, ConstraintStatements
  <2>3. \A T : /\ WithoutTables(c, T).tables = c.tables \ T
               /\ WithoutTables(c, T).columns = {x \in c.columns : x.table \notin T}
               /\ WithoutTables(c, T).constraints \subseteq c.constraints
               /\ WithoutTables(c, T).checks = {h \in c.checks : h.table \notin T}
               /\ DOMAIN WithoutTables(c, T) = DOMAIN c
    BY DEF WithoutTables, Whole, IsCatalog
  <2>4. CASE s.op = "drop schema"
    <3> PICK T : T = {t \in c.tables : Schema(t) = Schema(s.table)}
      OBVIOUS
    <3> PICK w : w = WithoutTables(c, T)
      OBVIOUS
    <3>1. PICK S : e = [w EXCEPT !.schemas = S]
      BY <2>1, <2>4 DEF EffectOnTables
    <3>2. e.tables = w.tables /\ e.columns = w.columns /\ e.constraints = w.constraints /\ e.checks = w.checks
      BY <2>3, <3>1 DEF Whole, IsCatalog
    <3>3. /\ \A t : TableGoes(s, t) <=> Schema(t) = Schema(s.table)
          /\ \A x : Goes(s, x) <=> TableGoes(s, x.table)
          /\ Brought(s) = {}
      BY <2>4 DEF TableGoes, Goes, Brought
    <3>4. e.tables = {t \in c.tables : ~TableGoes(s, t)}
      BY <2>3, <3>2, <3>3
    <3>5. e.columns = {y \in c.columns : ~Goes(s, y)}
      BY <2>3, <3>2, <3>3 DEF Whole
    <3>6. e.columns = {Left(s, x) : x \in {y \in c.columns : ~Goes(s, y)}} \cup Brought(s)
      BY <2>2, <3>5, <3>3
    <3>7. e.tables = {t \in c.tables : ~TableGoes(s, t)} \cup {t \in {s.table} : s.op = "create table"}
      BY <2>4, <3>3, <3>4
    <3>8. (\A h \in c.checks : h \in e.checks \/ Goes(s, h)) /\ \A k \in e.constraints : IsRef(k)
      BY <2>3, <3>2, <3>3 DEF Whole
    <3> QED
      BY <1>1, <3>6, <3>7, <3>8 DEF Becomes
  <2>5. CASE s.op = "drop table"
    <3>1. e = WithoutTables(c, {s.table})
      BY <2>1, <2>5 DEF EffectOnTables
    <3>2. /\ \A t : TableGoes(s, t) <=> t = s.table
          /\ \A x : Goes(s, x) <=> TableGoes(s, x.table)
          /\ Brought(s) = {}
      BY <2>5 DEF TableGoes, Goes, Brought
    <3>3. e.columns = {y \in c.columns : ~Goes(s, y)}
      BY <2>3, <3>1, <3>2
    <3>4. e.columns = {Left(s, x) : x \in {y \in c.columns : ~Goes(s, y)}} \cup Brought(s)
      BY <2>2, <3>3, <3>2
    <3>5. e.tables = {t \in c.tables : ~TableGoes(s, t)} \cup {t \in {s.table} : s.op = "create table"}
      <4>1. e.tables = c.tables \ {s.table}
        BY <2>3, <3>1
      <4> QED
        BY <2>5, <3>2, <4>1
    <3>6. (\A h \in c.checks : h \in e.checks \/ Goes(s, h)) /\ \A k \in e.constraints : IsRef(k)
      BY <2>3, <3>1, <3>2 DEF Whole
    <3> QED
      BY <1>1, <3>4, <3>5, <3>6 DEF Becomes
  <2>6. CASE s.op = "drop column"
    <3>1. PICK I : e = [c EXCEPT !.columns = {x \in @ : x.table # s.table \/ x.name # s.name},
                    !.constraints = {k \in @ : k.table # s.table \/ s.name \notin k.columns},
                    !.indexes = I,
                    !.checks = {h \in @ : h.table # s.table \/ h.name # s.name}]
      BY <2>1, <2>6 DEF EffectOnTables
    <3>2. /\ e.tables = c.tables /\ e.constraints \subseteq c.constraints
          /\ e.columns = {x \in c.columns : x.table # s.table \/ x.name # s.name}
          /\ e.checks = {h \in c.checks : h.table # s.table \/ h.name # s.name}
      BY <3>1 DEF Whole, IsCatalog
    <3>3. /\ \A t : ~TableGoes(s, t)
          /\ \A x : Goes(s, x) <=> x.table = s.table /\ x.name = s.name
          /\ Brought(s) = {}
      BY <2>6 DEF TableGoes, Goes, Brought
    <3>4. e.columns = {y \in c.columns : ~Goes(s, y)}
      BY <3>2, <3>3
    <3>5. e.columns = {Left(s, x) : x \in {y \in c.columns : ~Goes(s, y)}} \cup Brought(s)
      BY <2>2, <3>4, <3>3
    <3>6. e.tables = {t \in c.tables : ~TableGoes(s, t)} \cup {t \in {s.table} : s.op = "create table"}
      BY <2>6, <3>2, <3>3
    <3>7. (\A h \in c.checks : h \in e.checks \/ Goes(s, h)) /\ \A k \in e.constraints : IsRef(k)
      BY <3>2, <3>3 DEF Whole
    <3> QED
      BY <1>1, <3>5, <3>6, <3>7 DEF Becomes
  <2>7. CASE s.op \notin {"drop schema", "drop table", "drop column"}
    <3>1. (\A t : ~TableGoes(s, t)) /\ \A x : ~Goes(s, x)
      BY <2>7 DEF TableGoes, Goes
    <3>2. {Left(s, x) : x \in {y \in c.columns : ~Goes(s, y)}} = c.columns
      BY <2>2, <3>1
    <3>3. CASE s.op = "create table"
      <4>1. e = [c EXCEPT !.tables = @ \cup {s.table},
                          !.columns = @ \cup s.object.columns,
                          !.constraints = @ \cup s.object.constraints,
                          !.indexes = @ \cup s.object.indexes]
        BY <2>1, <3>3 DEF EffectOnTables
      <4>2. /\ e.tables = c.tables \cup {s.table}
            /\ e.columns = c.columns \cup s.object.columns
            /\ e.constraints = c.constraints \cup s.object.constraints
            /\ e.checks = c.checks
        BY <4>1 DEF Whole, IsCatalog
      <4>3. Brought(s) = s.object.columns
        BY <3>3 DEF Brought
      <4> QED
        BY <1>1, <3>1, <3>2, <3>3, <4>2, <4>3 DEF Becomes, Whole, BringsRefs
    <3>4. CASE s.op # "create table"
      <4>1. /\ e.tables = c.tables /\ e.columns = c.columns \cup Brought(s)
            /\ e.constraints = c.constraints /\ e.checks = c.checks
        <5>1. CASE s.op = "add column"
          <6>1. e = [c EXCEPT !.columns = @ \cup {s.object}]
            BY <2>1, <5>1 DEF EffectOnTables
          <6> QED
            BY <5>1, <6>1 DEF Brought, Whole, IsCatalog
        <5>2. CASE s.op = "create schema"
          <6>1. e = [c EXCEPT !.schemas = @ \cup {Schema(s.table)}]
            BY <2>1, <5>2 DEF EffectOnTables
          <6> QED
            BY <5>2, <6>1 DEF Brought, Whole, IsCatalog
        <5>3. CASE s.op \in {"create index", "drop index"}
          <6>1. PICK I : e = [c EXCEPT !.indexes = I]
            BY <2>1, <5>3 DEF EffectOnTables
          <6> QED
            BY <5>3, <6>1 DEF Brought, Whole, IsCatalog
        <5> QED
          BY <1>2, <2>7, <3>4, <5>1, <5>2, <5>3 DEF TableStatements
      <4> QED
        BY <1>1, <3>1, <3>2, <3>4, <4>1 DEF Becomes, Whole
    <3> QED
      BY <3>3, <3>4
  <2> QED
    BY <2>4, <2>5, <2>6, <2>7
<1>3. CASE s.op \notin TableStatements
  <2>1. (\A t : ~TableGoes(s, t)) /\ (\A x : ~Goes(s, x)) /\ Brought(s) = {} /\ s.op # "create table"
    BY <1>3 DEF TableGoes, Goes, Brought, TableStatements
  <2>2. {y \in c.columns : ~Goes(s, y)} = c.columns
    BY <2>1
  <2>3. ASSUME e.tables = c.tables, e.columns = {Left(s, x) : x \in c.columns},
               \A h \in c.checks : h \in e.checks \/ (s.op = "drop check" /\ h = [table |-> s.table, name |-> s.name]),
               \A k \in e.constraints : IsRef(k)
        PROVE  Becomes(c, e, s)
    BY <1>1, <2>1, <2>2, <2>3 DEF Becomes
  <2>4. CASE s.op \in ConstraintStatements
    <3>1. e = EffectOnConstraint(c, s)
      BY <2>4 DEF Effect, TableStatements, ConstraintStatements
    <3>2. CASE s.op = "add key"
      <4>1. PICK I : e = [c EXCEPT !.indexes = I,
              !.constraints = @ \cup {s.object},
              !.columns = {IF x.table = s.table /\ x.name \in s.object.columns
                           THEN [x EXCEPT !.notNull = @ \/ s.object.type = PRIMARY_KEY] ELSE x
                           : x \in @}]
        BY <3>1, <3>2 DEF EffectOnConstraint
      <4>2. /\ e.tables = c.tables /\ e.constraints = c.constraints \cup {s.object} /\ e.checks = c.checks
            /\ e.columns = {IF x.table = s.table /\ x.name \in s.object.columns
                           THEN [x EXCEPT !.notNull = @ \/ s.object.type = PRIMARY_KEY] ELSE x
                           : x \in c.columns}
        BY <4>1 DEF Whole, IsCatalog
      <4>3. \A x : Left(s, x) = IF x.table = s.table /\ x.name \in s.object.columns
                           THEN [x EXCEPT !.notNull = @ \/ s.object.type = PRIMARY_KEY] ELSE x
        BY <3>2 DEF Left, ConstraintStatements
      <4>4. e.columns = {Left(s, x) : x \in c.columns}
        BY <4>2, <4>3
      <4>5. IsRef(s.object)
        BY <3>2 DEF BringsRefs
      <4> QED
        BY <2>3, <4>2, <4>4, <4>5 DEF Whole
    <3>3. CASE s.op # "add key"
      <4>1. \A x : Left(s, x) = x
        BY <2>4, <3>3 DEF Left
      <4>2. PICK K : e = [c EXCEPT !.constraints = K]
        BY <2>4, <3>1, <3>3 DEF EffectOnConstraint, ConstraintStatements
      <4>3. e.tables = c.tables /\ e.columns = c.columns /\ e.checks = c.checks
        BY <4>2 DEF Whole, IsCatalog
      <4>4. \A k \in e.constraints : IsRef(k)
        <5>1. \A k \in c.constraints : IsRef(k)
          BY DEF Whole
        <5>2. CASE s.op = "drop constraint"
          <6>1. e = [c EXCEPT !.constraints = {k \in @ : k.table # s.table \/ k.name # s.name}]
            BY <3>1, <5>2 DEF EffectOnConstraint
          <6> QED
            BY <5>1, <6>1 DEF Whole, IsCatalog
        <5>3. CASE s.op = "alter constraint"
          <6>1. e = [c EXCEPT !.constraints = {IF k.table = s.table /\ k.name = s.name
                                     THEN [k EXCEPT !.deferral = s.object.deferral] ELSE k : k \in @}]
            BY <3>1, <5>3 DEF EffectOnConstraint
          <6>2. e.constraints = {IF k.table = s.table /\ k.name = s.name
                                     THEN [k EXCEPT !.deferral = s.object.deferral] ELSE k : k \in c.constraints}
            BY <6>1 DEF Whole, IsCatalog
          <6>3. \A k \in c.constraints : IsRef([k EXCEPT !.deferral = s.object.deferral])
            BY <5>1 DEF IsRef
          <6> QED
            BY <5>1, <6>2, <6>3
        <5>4. CASE s.op = "validate constraint"
          <6>1. e = [c EXCEPT !.constraints = {IF k.table = s.table /\ k.name = s.name
                                     THEN [k EXCEPT !.valid = TRUE] ELSE k : k \in @}]
            BY <3>1, <5>4 DEF EffectOnConstraint
          <6>2. e.constraints = {IF k.table = s.table /\ k.name = s.name
                                     THEN [k EXCEPT !.valid = TRUE] ELSE k : k \in c.constraints}
            BY <6>1 DEF Whole, IsCatalog
          <6>3. \A k \in c.constraints : IsRef([k EXCEPT !.valid = TRUE])
            BY <5>1 DEF IsRef
          <6> QED
            BY <5>1, <6>2, <6>3
        <5>5. CASE s.op = "add foreign key"
          <6>1. e = [c EXCEPT !.constraints = @ \cup {[s.object EXCEPT !.table = s.table]}]
            BY <3>1, <5>5 DEF EffectOnConstraint
          <6>2. e.constraints = c.constraints \cup {[s.object EXCEPT !.table = s.table]}
            BY <6>1 DEF Whole, IsCatalog
          <6>3. IsRef([s.object EXCEPT !.table = s.table])
            BY <5>5 DEF BringsRefs, IsRef
          <6> QED
            BY <5>1, <6>2, <6>3
        <5> QED
          BY <2>4, <3>3, <5>2, <5>3, <5>4, <5>5 DEF ConstraintStatements
      <4> QED
        BY <2>3, <4>1, <4>3, <4>4
    <3> QED
      BY <3>2, <3>3
  <2>5. CASE s.op \notin ConstraintStatements
    <3>1. e = EffectOnColumn(c, s)
      BY <1>3, <2>5 DEF Effect
    <3>2. CASE s.op \in {"add check", "drop check"}
      <4>1. \A x : Left(s, x) = x
        BY <3>2 DEF Left
      <4>2. PICK H : e = [c EXCEPT !.checks = H]
        BY <3>1, <3>2 DEF EffectOnColumn
      <4>3. e.tables = c.tables /\ e.columns = c.columns /\ e.constraints = c.constraints
        BY <4>2 DEF Whole, IsCatalog
      <4>4. \A h \in c.checks : h \in e.checks \/ (s.op = "drop check" /\ h = [table |-> s.table, name |-> s.name])
        <5>1. CASE s.op = "add check"
          <6>1. e = [c EXCEPT !.checks = @ \cup {[table |-> s.table, name |-> s.name]}]
            BY <3>1, <5>1 DEF EffectOnColumn
          <6> QED
            BY <6>1 DEF Whole, IsCatalog
        <5>2. CASE s.op = "drop check"
          <6>1. e = [c EXCEPT !.checks = @ \ {[table |-> s.table, name |-> s.name]}]
            BY <3>1, <5>2 DEF EffectOnColumn
          <6> QED
            BY <5>2, <6>1 DEF Whole, IsCatalog
        <5> QED
          BY <3>2, <5>1, <5>2
      <4> QED
        BY <2>3, <4>1, <4>3, <4>4 DEF Whole
    <3>3. CASE s.op \notin {"add check", "drop check"}
      <4>1. e = [c EXCEPT !.columns = {IF x.table = s.table /\ x.name = s.name
                                        THEN NewColumn(x, s) ELSE x : x \in @}]
        BY <3>1, <3>3 DEF EffectOnColumn
      <4>2. /\ e.tables = c.tables /\ e.constraints = c.constraints /\ e.checks = c.checks
            /\ e.columns = {IF x.table = s.table /\ x.name = s.name
                                        THEN NewColumn(x, s) ELSE x : x \in c.columns}
        BY <4>1 DEF Whole, IsCatalog
      <4>3. \A x : Left(s, x) = IF x.table = s.table /\ x.name = s.name THEN NewColumn(x, s) ELSE x
        BY <1>3, <2>5, <3>3 DEF Left, ConstraintStatements
      <4>4. e.columns = {Left(s, x) : x \in c.columns}
        BY <4>2, <4>3
      <4> QED
        BY <2>3, <4>2, <4>4 DEF Whole
    <3> QED
      BY <3>2, <3>3
  <2> QED
    BY <2>4, <2>5
<1> QED
  BY <1>2, <1>3

LEMMA Concat ==
  ASSUME NEW S, NEW s \in Seq(S), NEW t \in Seq(S)
  PROVE  /\ s \o t \in Seq(S) /\ Len(s \o t) = Len(s) + Len(t)
         /\ Len(s) \in Nat /\ Len(t) \in Nat /\ DOMAIN (s \o t) = 1 .. Len(s \o t)
         /\ \A i \in 1 .. Len(s) : (s \o t)[i] = s[i]
         /\ \A i \in 1 .. Len(t) : (s \o t)[Len(s) + i] = t[i]
<1>1. /\ s \o t \in Seq(S) /\ Len(s \o t) = Len(s) + Len(t)
      /\ \A i \in 1 .. Len(s) + Len(t) : (s \o t)[i] = IF i <= Len(s) THEN s[i] ELSE t[i - Len(s)]
  BY ConcatProperties
<1>2. Len(s) \in Nat /\ Len(t) \in Nat /\ DOMAIN (s \o t) = 1 .. Len(s \o t)
  BY <1>1, LenProperties
<1>3. \A m, n \in Nat : /\ \A i \in 1 .. m : i \in 1 .. m + n /\ i <= m
                        /\ \A i \in 1 .. n : m + i \in 1 .. m + n /\ ~(m + i <= m) /\ m + i - m = i
  OBVIOUS
<1>4. \A i \in 1 .. Len(s) : (s \o t)[i] = s[i]
  BY <1>1, <1>2, <1>3
<1>5. \A i \in 1 .. Len(t) : (s \o t)[Len(s) + i] = t[i]
  <2> TAKE i \in 1 .. Len(t)
  <2>1. Len(s) + i \in 1 .. Len(s) + Len(t) /\ ~(Len(s) + i <= Len(s)) /\ Len(s) + i - Len(s) = i
    BY <1>2
  <2> QED
    BY <1>1, <2>1
<1> QED
  BY <1>1, <1>2, <1>4, <1>5

LEMMA ConcatAt ==
  ASSUME NEW S, NEW f \in Seq(S), NEW h \in Seq(S), NEW g, g = f \o h
  PROVE  /\ g \in Seq(S) /\ Len(g) = Len(f) + Len(h)
         /\ \A j \in 1 .. Len(f) : g[j] = f[j]
         /\ \A j \in 1 .. Len(h) : g[Len(f) + j] = h[j]
<1>1. g \in Seq(S) /\ Len(g) = Len(f) + Len(h)
  BY Concat
<1>2. \A j \in 1 .. Len(f) : g[j] = f[j]
  BY Concat
<1>3. \A j \in 1 .. Len(h) : g[Len(f) + j] = h[j]
  BY Concat
<1> QED
  BY <1>1, <1>2, <1>3

LEMMA PairSeq ==
  ASSUME NEW S, NEW t \in S \X S
  PROVE  t \in Seq(S) /\ Len(t) = 2
<1>1. t = <<t[1], t[2]>> /\ t[1] \in S /\ t[2] \in S
  OBVIOUS
<1>2. <<t[1], t[2]>> \in Seq(S) /\ Len(<<t[1], t[2]>>) = 2
  BY <1>1
<1> QED
  BY <1>1, <1>2

\* The files of a table.
LEMMA TableFile ==
  ASSUME NEW S, NEW t \in S \X S, NEW n \in S, NEW q \in Seq(S), Len(q) >= 1
  PROVE  /\ DOMAIN (<<n>> \o t \o q) = 1 .. 3 + Len(q)
         /\ (<<n>> \o t \o q)[1] = n /\ (<<n>> \o t \o q)[2] = t[1]
         /\ (<<n>> \o t \o q)[3] = t[2] /\ (<<n>> \o t \o q)[4] = q[1]
<1> PICK a : a = <<n>>
  OBVIOUS
<1>1. a \in Seq(S) /\ Len(a) = 1 /\ a[1] = n
  OBVIOUS
<1>2. t \in Seq(S) /\ Len(t) = 2
  BY PairSeq
<1> PICK f : f = a \o t
  OBVIOUS
<1>3. f \in Seq(S) /\ Len(f) = 3 /\ f[1] = n /\ f[2] = t[1] /\ f[3] = t[2]
  <2>1. /\ f \in Seq(S) /\ Len(f) = Len(a) + Len(t)
        /\ \A i \in 1 .. Len(a) : f[i] = a[i]
        /\ \A i \in 1 .. Len(t) : f[Len(a) + i] = t[i]
    <3>1. a \in Seq(S) /\ t \in Seq(S)
      BY <1>1, <1>2
    <3> QED
      BY <3>1, ConcatAt
  <2>2. /\ \A i \in 1 .. 1 : f[i] = a[i]
        /\ \A i \in 1 .. 2 : f[1 + i] = t[i]
    BY <1>1, <1>2, <2>1
  <2>3. f[1] = a[1] /\ f[1 + 1] = t[1] /\ f[1 + 2] = t[2]
    BY <2>2
  <2> QED
    BY <1>1, <1>2, <2>1, <2>3
<1> PICK g : g = f \o q
  OBVIOUS
<1>4. /\ DOMAIN g = 1 .. Len(f) + Len(q) /\ Len(q) \in Nat
      /\ \A i \in 1 .. Len(f) : g[i] = f[i]
      /\ \A i \in 1 .. Len(q) : g[Len(f) + i] = q[i]
  BY <1>3, Concat
<1>5. /\ \A i \in 1 .. 3 : g[i] = f[i]
      /\ \A i \in 1 .. Len(q) : g[3 + i] = q[i]
  BY <1>3, <1>4
<1>6. 1 \in 1 .. Len(q)
  BY <1>4
<1>7. g[1] = f[1] /\ g[2] = f[2] /\ g[3] = f[3] /\ g[3 + 1] = q[1]
  <2>1. 1 \in 1 .. 3 /\ 2 \in 1 .. 3 /\ 3 \in 1 .. 3
    OBVIOUS
  <2>2. g[1] = f[1] /\ g[2] = f[2] /\ g[3] = f[3]
    BY <1>5, <2>1
  <2>3. g[3 + 1] = q[1]
    BY <1>5, <1>6
  <2> QED
    BY <2>2, <2>3
<1>8. DOMAIN g = 1 .. 3 + Len(q) /\ g[1] = n /\ g[2] = t[1] /\ g[3] = t[2] /\ g[4] = q[1]
  BY <1>3, <1>4, <1>7
<1> QED
  BY <1>8

\* The place of what is in file number n of a table, in part m of it.
PartOf(file, n, t, m) ==
  /\ DOMAIN file \in {1 .. 4, 1 .. 5, 1 .. 6}
  /\ file[1] = n /\ file[2] = t[1] /\ file[3] = t[2] /\ file[4] = m

LEMMA Files ==
  ASSUME NEW t \in Nat \X Nat, NEW n \in Nat, NEW m \in Nat, NEW k, NEW l
  PROVE  /\ PartOf(<<n>> \o t \o <<m>>, n, t, m)
         /\ PartOf(<<n>> \o t \o <<m, k>>, n, t, m)
         /\ PartOf(<<n>> \o t \o <<m, k, l>>, n, t, m)
<1> PICK T : T = Nat \cup {k, l}
  OBVIOUS
<1>1. t \in T \X T /\ n \in T /\ m \in T
  OBVIOUS
<1>2. ASSUME NEW q \in Seq(T), Len(q) \in {1, 2, 3}, q[1] = m
      PROVE  PartOf(<<n>> \o t \o q, n, t, m)
  <2>1. /\ DOMAIN (<<n>> \o t \o q) = 1 .. 3 + Len(q)
        /\ (<<n>> \o t \o q)[1] = n /\ (<<n>> \o t \o q)[2] = t[1]
        /\ (<<n>> \o t \o q)[3] = t[2] /\ (<<n>> \o t \o q)[4] = q[1]
    <3>1. Len(q) >= 1
      BY <1>2
    <3> QED
      BY <1>1, <1>2, <3>1, TableFile
  <2>2. PICK j : j = Len(q)
    OBVIOUS
  <2>3. 1 .. 3 + j \in {1 .. 4, 1 .. 5, 1 .. 6}
    <3>1. j = 1 \/ j = 2 \/ j = 3
      BY <1>2, <2>2
    <3>2. 3 + 1 = 4 /\ 3 + 2 = 5 /\ 3 + 3 = 6
      OBVIOUS
    <3> QED
      BY <3>1, <3>2
  <2> QED
    BY <1>2, <2>1, <2>2, <2>3 DEF PartOf
<1>3. <<m>> \in Seq(T) /\ Len(<<m>>) \in {1, 2, 3} /\ <<m>>[1] = m
  OBVIOUS
<1>4. <<m, k>> \in Seq(T) /\ Len(<<m, k>>) \in {1, 2, 3} /\ <<m, k>>[1] = m
  OBVIOUS
<1>5. <<m, k, l>> \in Seq(T) /\ Len(<<m, k, l>>) \in {1, 2, 3} /\ <<m, k, l>>[1] = m
  OBVIOUS
<1>6. PartOf(<<n>> \o t \o <<m>>, n, t, m)
  BY <1>2, <1>3
<1>7. PartOf(<<n>> \o t \o <<m, k>>, n, t, m)
  BY <1>2, <1>4
<1>8. PartOf(<<n>> \o t \o <<m, k, l>>, n, t, m)
  BY <1>2, <1>5
<1> QED
  BY <1>6, <1>7, <1>8

\* The files of two tables.
LEMMA TwoPairs ==
  ASSUME NEW S, NEW t \in S \X S, NEW u \in S \X S
  PROVE  t \o u \in Seq(S) /\ Len(t \o u) = 4
<1>1. t \in Seq(S) /\ Len(t) = 2 /\ u \in Seq(S) /\ Len(u) = 2
  BY PairSeq
<1>2. t \o u \in Seq(S) /\ Len(t \o u) = Len(t) + Len(u)
  BY <1>1, Concat
<1> QED
  BY <1>1, <1>2

FkeyStart(n, k) == <<n>> \o TablesID(k)

LEMMA FkeySeq ==
  ASSUME NEW k, IsRef(k), NEW n \in Nat, NEW f, f = FkeyStart(n, k)
  PROVE  f \in Seq(Nat) /\ Len(f) = 5 /\ f[1] = n
<1>1. k.table \in Nat \X Nat /\ k.refTable \in Nat \X Nat
  BY DEF IsRef
<1>2. PICK t \in Nat \X Nat, u \in Nat \X Nat : TablesID(k) = t \o u
  BY <1>1 DEF TablesID
<1> PICK i : i = TablesID(k)
  OBVIOUS
<1>3. i \in Seq(Nat) /\ Len(i) = 4
  <2>1. t \o u \in Seq(Nat) /\ Len(t \o u) = 4
    BY TwoPairs
  <2> QED
    BY <1>2, <2>1
<1> PICK g : g = <<n>>
  OBVIOUS
<1>4. g \in Seq(Nat) /\ Len(g) = 1 /\ g[1] = n
  OBVIOUS
<1>5. f \in Seq(Nat) /\ Len(f) = Len(g) + Len(i) /\ \A j \in 1 .. Len(g) : f[j] = g[j]
  <2>1. g \in Seq(Nat) /\ i \in Seq(Nat) /\ f = g \o i
    BY <1>3, <1>4 DEF FkeyStart
  <2> QED
    BY <2>1, Concat
<1>6. 1 \in 1 .. Len(g)
  BY <1>4
<1> QED
  BY <1>3, <1>4, <1>5, <1>6

FkeyFile(n, k, m) == <<n>> \o TablesID(k) \o <<m>>

LEMMA Appended ==
  ASSUME NEW S, NEW f \in Seq(S), NEW h \in Seq(S)
  PROVE  Len(f) = 5 /\ Len(h) = 1 => (f \o h)[1] = f[1] /\ (f \o h)[6] = h[1]
<1> PICK g : g = f \o h
  OBVIOUS
<1>1. /\ \A j \in 1 .. Len(f) : g[j] = f[j]
      /\ \A j \in 1 .. Len(h) : g[Len(f) + j] = h[j]
  BY ConcatAt
<1> HAVE Len(f) = 5 /\ Len(h) = 1
<1>2. 1 \in 1 .. Len(f) /\ 1 \in 1 .. Len(h) /\ Len(f) + 1 = 6
  OBVIOUS
<1> QED
  BY <1>1, <1>2

LEMMA FkeyFiles ==
  ASSUME NEW k, IsRef(k), NEW n \in Nat, NEW m \in Nat, NEW file, file = FkeyFile(n, k, m)
  PROVE  file[1] = n /\ file[6] = m
<1> PICK f : f = FkeyStart(n, k)
  OBVIOUS
<1> PICK h : h = <<m>>
  OBVIOUS
<1>1. f \in Seq(Nat) /\ Len(f) = 5 /\ f[1] = n
  BY FkeySeq
<1>2. h \in Seq(Nat) /\ Len(h) = 1 /\ h[1] = m
  OBVIOUS
<1>3. file = f \o h
  BY DEF FkeyFile, FkeyStart
<1>4. Len(f) = 5 /\ Len(h) = 1 => (f \o h)[1] = f[1] /\ (f \o h)[6] = h[1]
  <2>1. f \in Seq(Nat) /\ h \in Seq(Nat)
    BY <1>1, <1>2
  <2> QED
    BY <2>1, Appended
<1> QED
  BY <1>1, <1>2, <1>3, <1>4

-----------------------------------------------------------------------------
(* What is known of the steps of a migration                               *)

OfColumn(s, d) == s.object \in d.columns /\ s.table = s.object.table /\ s.name = s.object.name

\* The columns of ValidateNotNullSteps.
NewlyNotNull(src, d) == {p[2] : p \in {q \in AlterColumns(src, d) : ~q[1].notNull /\ q[2].notNull}}

BecomesNotNull(src, d, t, n) == \E y \in NewlyNotNull(src, d) : y.table = t /\ y.name = n

\* The statements that make a column NOT NULL, each in its turn.
IsCheck(op) == op \in {"validate check", "set not null", "drop check"}
Turn(op) == IF op = "validate check" THEN 1 ELSE IF op = "set not null" THEN 2 ELSE 3

KnownTable(s, src, d) ==
  /\ s.op = "drop schema" => Schema(s.table) \notin Schemas(d)
  /\ s.op = "drop table" => s.table \notin d.tables
  /\ s.op = "create table" => /\ s.table \in d.tables \ src.tables
                              /\ s.object.columns = {y \in d.columns : y.table = s.table}
                              /\ s.object.constraints \subseteq d.constraints

KnownColumn(file, at, s, src, d, version) ==
  /\ s.op = "drop column" => \A y \in d.columns : y.table # s.table \/ y.name # s.name
  /\ s.op \in {"add column", "alter type", "drop not null"} => OfColumn(s, d)
  /\ s.op = "add column" => (\A x \in src.columns : ~Same(x, s.object)) /\ file = <<3>> \o s.table \o <<1>>
  /\ s.op = "alter type" => /\ \E x \in src.columns : Same(x, s.object) /\ x.type # s.object.type
                            /\ file = <<3>> \o s.table \o <<1>> /\ at = <<5, s.name, 1>>
                            /\ s = With("alter type", s.table, s.object)
  /\ s.op = "drop not null" => ~s.object.notNull
  /\ IsCheck(s.op) => BecomesNotNull(src, d, s.table, s.name)
  /\ IsCheck(s.op) /\ version >= 12 => /\ file = <<3>> \o s.table \o <<2>> /\ at = <<s.name, Turn(s.op)>>
                                       /\ s = Named(s.op, s.table, s.name)

KnownKey(file, s, src, d) ==
  /\ s.op \in {"add key", "add foreign key"} => IsRef(s.object)
  /\ s.op = "add key" => \E k \in Keys(d) : /\ s.table = k.table /\ k.table \in src.tables
                                            /\ s.object.type = k.type /\ s.object.columns = k.columns
                                            /\ file = <<3>> \o k.table \o <<4, k.name, 2>>

KnownFile(file, s) ==
  /\ file[1] = 3 /\ file[4] = 2 => IsCheck(s.op)
  /\ file[1] = 5 /\ file[6] = 2 => s.op = "validate constraint"
  /\ s.op = "validate constraint" => file[1] = 5 /\ file[6] = 2

Known(x, src, d, version) ==
  /\ x = Step(x.file, x.at, x.stmt)
  /\ KnownTable(x.stmt, src, d)
  /\ KnownColumn(x.file, x.at, x.stmt, src, d, version)
  /\ KnownKey(x.file, x.stmt, src, d)
  /\ KnownFile(x.file, x.stmt)

\* Files in which no column becomes NOT NULL and no constraint is validated.
Plain(file) == (file[1] # 3 \/ file[4] # 2) /\ (file[1] # 5 \/ file[6] # 2)

\* Statements of which nothing but the file is known.
Ordinary(op) ==
  op \in {"create schema", "create index", "drop index", "drop constraint", "alter constraint",
          "alter collation", "set default", "add check", "add identity", "drop identity"}

\* A step of a file that is plain.
LEMMA PlainKnown ==
  ASSUME NEW file, Plain(file), NEW at, NEW s, s.op # "validate constraint",
         NEW src, NEW d, NEW version,
         KnownTable(s, src, d), KnownColumn(file, at, s, src, d, version), KnownKey(file, s, src, d)
  PROVE  Known(Step(file, at, s), src, d, version)
BY DEF Plain, Known, KnownFile, Step

LEMMA OrdinaryKnown ==
  ASSUME NEW s, Ordinary(s.op), NEW file, Plain(file), NEW at, NEW src, NEW d, NEW version
  PROVE  Known(Step(file, at, s), src, d, version)
<1>1. /\ s.op \notin {"drop schema", "drop table", "create table", "drop column", "add column", "alter type"}
      /\ s.op \notin {"drop not null", "add key", "add foreign key", "validate constraint"}
      /\ ~IsCheck(s.op)
  BY DEF Ordinary, IsCheck
<1>2. KnownTable(s, src, d) /\ KnownKey(file, s, src, d)
  BY <1>1 DEF KnownTable, KnownKey
<1>3. KnownColumn(file, at, s, src, d, version)
  BY <1>1 DEF KnownColumn
<1> QED
  BY <1>1, <1>2, <1>3, PlainKnown

\* Files in which constraints are validated.
Validates(file) == file[1] = 5 /\ file[6] = 2

LEMMA FkeyFilesOf5 ==
  ASSUME NEW k, IsRef(k)
  PROVE  Plain(FkeyFile(5, k, 1)) /\ Validates(FkeyFile(5, k, 2))
<1>1. ASSUME NEW file, file = FkeyFile(5, k, 1)
      PROVE  Plain(file)
  <2>1. file[1] = 5 /\ file[6] = 1
    BY <1>1, FkeyFiles
  <2> QED
    BY <2>1 DEF Plain
<1>2. ASSUME NEW file, file = FkeyFile(5, k, 2)
      PROVE  Validates(file)
  <2>1. file[1] = 5 /\ file[6] = 2
    BY <1>2, FkeyFiles
  <2> QED
    BY <2>1 DEF Validates
<1> QED
  BY <1>1, <1>2

LEMMA ValidatesNoOther == ASSUME NEW file, Validates(file) PROVE file[1] # 3
BY DEF Validates

LEMMA ValidateKnown ==
  ASSUME NEW file, Validates(file), NEW at, NEW s, s.op = "validate constraint",
         NEW src, NEW d, NEW version
  PROVE  Known(Step(file, at, s), src, d, version)
<1>1. KnownTable(s, src, d) /\ KnownKey(file, s, src, d) /\ KnownColumn(file, at, s, src, d, version)
  BY DEF KnownTable, KnownColumn, KnownKey, IsCheck
<1>2. file[1] # 3
  BY ValidatesNoOther
<1>3. KnownFile(file, s)
  BY <1>2, Zenon DEF KnownFile, Validates
<1> QED
  BY <1>1, <1>3 DEF Known, Step

LEMMA PlainFiles ==
  ASSUME NEW t \in Nat \X Nat
  PROVE  /\ \A file : file[1] \in {1, 2, 4} => Plain(file)
         /\ Plain(<<3>> \o t \o <<1>>)
         /\ \A n : Plain(<<3>> \o t \o <<3, n>>)
         /\ \A n : Plain(<<3>> \o t \o <<4, n, 1>>) /\ Plain(<<3>> \o t \o <<4, n, 2>>)
<1>1. \A file : file[1] \in {1, 2, 4} => Plain(file)
  BY DEF Plain
<1>2. \A file, m : PartOf(file, 3, t, m) /\ m # 2 => Plain(file)
  BY DEF PartOf, Plain
<1>3. PartOf(<<3>> \o t \o <<1>>, 3, t, 1)
  BY Files
<1>4. \A n : PartOf(<<3>> \o t \o <<3, n>>, 3, t, 3)
  BY Files
<1>5. \A n : PartOf(<<3>> \o t \o <<4, n, 1>>, 3, t, 4) /\ PartOf(<<3>> \o t \o <<4, n, 2>>, 3, t, 4)
  BY Files
<1> QED
  BY <1>1, <1>2, <1>3, <1>4, <1>5

LEMMA TablesKnown ==
  ASSUME NEW src, NEW d, NEW drop, NEW version, Whole(d), Whole(src)
  PROVE  \A x \in SchemasSteps(src, d, drop) \cup TablesSteps(src, d, drop) : Known(x, src, d, version)
<1> PICK file : file = <<2>>
  OBVIOUS
<1>0. Plain(file)
  BY DEF Plain
<1>1. ASSUME NEW n \in DropSchemas(src, d, drop), NEW at
      PROVE  Known(Step(file, at, On("drop schema", <<n, 0>>)), src, d, version)
  <2> PICK s : s = On("drop schema", <<n, 0>>)
    OBVIOUS
  <2>1. s.op = "drop schema" /\ Schema(s.table) = n /\ n \notin Schemas(d)
    BY DEF On, Schema, DropSchemas
  <2> QED
    BY <1>0, <2>1, PlainKnown DEF IsCheck, KnownTable, KnownColumn, KnownKey
<1>2. ASSUME NEW n, NEW at
      PROVE  Known(Step(file, at, On("create schema", <<n, 0>>)), src, d, version)
  <2> PICK s : s = On("create schema", <<n, 0>>)
    OBVIOUS
  <2>1. Ordinary(s.op)
    BY DEF Ordinary, On
  <2> QED
    BY <1>0, <2>1, OrdinaryKnown
<1>3. ASSUME NEW t \in DropTables(src, d, drop), NEW at
      PROVE  Known(Step(file, at, On("drop table", t)), src, d, version)
  <2> PICK s : s = On("drop table", t)
    OBVIOUS
  <2>1. s.op = "drop table" /\ s.table \notin d.tables
    BY DEF On, DropTables
  <2> QED
    BY <1>0, <2>1, PlainKnown DEF IsCheck, KnownTable, KnownColumn, KnownKey
<1>4. ASSUME NEW t \in CreateTables(src, d), NEW at
      PROVE  Known(Step(file, at, With("create table", t, TableObject(d, t))), src, d, version)
  <2> PICK s : s = With("create table", t, TableObject(d, t))
    OBVIOUS
  <2>1. /\ s.op = "create table" /\ s.table = t /\ t \in d.tables \ src.tables
        /\ s.object.columns = {y \in d.columns : y.table = t}
        /\ s.object.constraints \subseteq d.constraints
    BY DEF With, CreateTables, TableObject, Keys
  <2> QED
    BY <1>0, <2>1, PlainKnown DEF IsCheck, KnownTable, KnownColumn, KnownKey
<1>5. \A x \in SchemasSteps(src, d, drop) : Known(x, src, d, version)
  BY <1>1, <1>2 DEF SchemasSteps
<1>6. \A x \in TablesSteps(src, d, drop) : Known(x, src, d, version)
  BY <1>3, <1>4 DEF TablesSteps
<1> QED
  BY <1>5, <1>6

LEMMA DropFkeysKnown ==
  ASSUME NEW src, NEW d, NEW drop, NEW version, Whole(src)
  PROVE  \A x \in DropFkeysSteps(src, d, drop) : Known(x, src, d, version)
<1>2. ASSUME NEW k \in DropFkeys(src, d, drop), NEW at, NEW t, NEW n
      PROVE  Known(Step(<<1>> \o TablesID(k), at, Named("drop constraint", t, n)), src, d, version)
  <2>1. IsRef(k)
    BY DEF DropFkeys, Gone, ForeignKeys, Whole
  <2> PICK file : file = <<1>> \o TablesID(k)
    OBVIOUS
  <2>2. file[1] = 1
    BY <2>1, FkeySeq
  <2>3. Plain(file)
    BY <2>2 DEF Plain
  <2> PICK s : s = Named("drop constraint", t, n)
    OBVIOUS
  <2>4. Ordinary(s.op)
    BY DEF Ordinary, Named
  <2> QED
    BY <2>3, <2>4, OrdinaryKnown
<1>3. DOMAIN DropPlaces(src, d, drop) = DropFkeys(src, d, drop)
  BY DEF DropPlaces
<1> QED
  BY <1>2, <1>3 DEF DropFkeysSteps

LEMMA AddFkeysKnown ==
  ASSUME NEW src, NEW d, NEW version, Whole(d)
  PROVE  \A x \in AddFastFkeysSteps(src, d) \cup AddFkeysSteps(src, d) : Known(x, src, d, version)
<1>0. \A k \in AddFastFkeys(src, d) \cup AddFkeys(src, d) : IsRef(k)
  BY DEF AddFastFkeys, AddFkeys, Gone, ForeignKeys, Whole
<1>1. ASSUME NEW k, IsRef(k), NEW at, NEW t, NEW file, Plain(file)
      PROVE  Known(Step(file, at, With("add foreign key", t, k)), src, d, version)
  <2> PICK s : s = With("add foreign key", t, k)
    OBVIOUS
  <2>1. s.op = "add foreign key" /\ s.object = k
    BY DEF With
  <2> QED
    BY <1>1, <2>1, PlainKnown DEF IsCheck, KnownTable, KnownColumn, KnownKey
<1>2. ASSUME NEW k \in AddFastFkeys(src, d), NEW at, NEW t
      PROVE  Known(Step(<<4>> \o TablesID(k), at, With("add foreign key", t, k)), src, d, version)
  <2> PICK file : file = <<4>> \o TablesID(k)
    OBVIOUS
  <2>1. file[1] = 4
    BY <1>0, FkeySeq
  <2>2. Plain(file)
    BY <2>1 DEF Plain
  <2> QED
    BY <1>0, <1>1, <2>2
<1>3. ASSUME NEW k \in AddFkeys(src, d), NEW at, NEW t
      PROVE  /\ Known(Step(FkeyFile(5, k, 1), at,
                           With("add foreign key", t, [k EXCEPT !.valid = FALSE])), src, d, version)
             /\ Known(Step(FkeyFile(5, k, 2), at,
                           Named("validate constraint", t, k.name)), src, d, version)
  <2>1. IsRef(k)
    BY <1>0
  <2>2. IsRef([k EXCEPT !.valid = FALSE])
    BY <2>1 DEF IsRef
  <2>4. Plain(FkeyFile(5, k, 1)) /\ Validates(FkeyFile(5, k, 2))
    BY <2>1, FkeyFilesOf5
  <2> PICK s : s = Named("validate constraint", t, k.name)
    OBVIOUS
  <2>6. s.op = "validate constraint"
    BY DEF Named
  <2>7. Known(Step(FkeyFile(5, k, 2), at, s), src, d, version)
    BY <2>4, <2>6, ValidateKnown
  <2> QED
    BY <1>1, <2>2, <2>4, <2>7
<1>4. \A S : DOMAIN Places(S) = S
  BY DEF Places
<1>5. \A x \in AddFastFkeysSteps(src, d) : Known(x, src, d, version)
  BY <1>2, <1>4 DEF AddFastFkeysSteps
<1>6. \A x \in AddFkeysSteps(src, d) : Known(x, src, d, version)
  <2> DEFINE at == Places(AddFkeys(src, d))
  <2>1. DOMAIN at = AddFkeys(src, d)
    BY <1>4
  <2>2. \A k \in DOMAIN at : Known(Step(FkeyFile(5, k, 1), at[k],
           With("add foreign key", Lead(at, k).table, [k EXCEPT !.valid = FALSE])), src, d, version)
    BY <1>3, <2>1
  <2>3. \A k \in DOMAIN at : Known(Step(FkeyFile(5, k, 2), at[k],
           Named("validate constraint", Lead(at, k).table, k.name)), src, d, version)
    BY <1>3, <2>1
  <2> QED
    BY <2>2, <2>3 DEF AddFkeysSteps, FkeyFile
<1> QED
  BY <1>5, <1>6

LEMMA NewlyNotNullPair ==
  ASSUME NEW src, NEW d, NEW x, NEW y, <<x, y>> \in AlterColumns(src, d), ~x.notNull, y.notNull
  PROVE  y \in NewlyNotNull(src, d)
<1>1. PICK p \in AlterColumns(src, d) : p[1] = x /\ p[2] = y
  OBVIOUS
<1> QED
  BY <1>1 DEF NewlyNotNull

LEMMA AlterColumnKnown ==
  ASSUME NEW src, NEW d, NEW version \in Nat, Whole(d),
         NEW x \in src.columns, NEW y \in d.columns, Same(x, y), <<x, y>> \in AlterColumns(src, d)
  PROVE  \A z \in AlterColumnStatements(x, y, version) : Known(z, src, d, version)
<1>0. version < 12 => ~(version >= 12)
  OBVIOUS
<1> PICK file : file = <<3>> \o y.table \o <<1>>
  OBVIOUS
<1>1. Plain(file)
  <2>1. y.table \in Nat \X Nat
    BY DEF Whole, IsColumn
  <2> QED
    BY <2>1, PlainFiles
<1>2. ASSUME NEW op, Ordinary(op), NEW at
      PROVE  Known(Step(file, at, With(op, y.table, y)), src, d, version)
  <2> PICK s : s = With(op, y.table, y)
    OBVIOUS
  <2>1. Ordinary(s.op)
    BY <1>2 DEF With
  <2> QED
    BY <1>1, <2>1, OrdinaryKnown
<1>3. ASSUME x.type # y.type
      PROVE  Known(Step(file, <<5, y.name, 1>>, With("alter type", y.table, y)), src, d, version)
  <2> PICK s : s = With("alter type", y.table, y)
    OBVIOUS
  <2>1. s.op = "alter type" /\ s.table = y.table /\ s.name = y.name /\ s.object = y
    BY DEF With
  <2> PICK at : at = <<5, y.name, 1>>
    OBVIOUS
  <2>2. KnownTable(s, src, d) /\ KnownKey(file, s, src, d)
    BY <2>1 DEF KnownTable, KnownKey
  <2>3. OfColumn(s, d) /\ \E c \in src.columns : Same(c, s.object) /\ c.type # s.object.type
    BY <1>3, <2>1 DEF OfColumn
  <2>4. file = <<3>> \o s.table \o <<1>> /\ at = <<5, s.name, 1>> /\ s = With("alter type", s.table, s.object)
    BY <2>1
  <2>5. ~IsCheck(s.op)
    BY <2>1 DEF IsCheck
  <2>6. KnownColumn(file, at, s, src, d, version)
    BY <2>1, <2>3, <2>4, <2>5 DEF KnownColumn
  <2> QED
    BY <1>1, <2>1, <2>2, <2>6, PlainKnown
<1>4. ASSUME ~y.notNull, NEW at
      PROVE  Known(Step(file, at, With("drop not null", y.table, y)), src, d, version)
  <2> PICK s : s = With("drop not null", y.table, y)
    OBVIOUS
  <2>1. s.op = "drop not null" /\ s.table = y.table /\ s.name = y.name /\ s.object = y
    BY DEF With
  <2>2. KnownTable(s, src, d) /\ KnownKey(file, s, src, d) /\ ~IsCheck(s.op)
    BY <2>1 DEF KnownTable, KnownKey, IsCheck
  <2>3. OfColumn(s, d)
    BY <2>1 DEF OfColumn
  <2>4. KnownColumn(file, at, s, src, d, version)
    BY <1>4, <2>1, <2>2, <2>3 DEF KnownColumn
  <2> QED
    BY <1>1, <2>1, <2>2, <2>4, PlainKnown
<1>5. ASSUME ~x.notNull, y.notNull, version < 12, NEW at
      PROVE  Known(Step(file, at, With("set not null", y.table, y)), src, d, version)
  <2> PICK s : s = With("set not null", y.table, y)
    OBVIOUS
  <2>1. s.op = "set not null" /\ s.table = y.table /\ s.name = y.name
    BY DEF With
  <2>2. KnownTable(s, src, d) /\ KnownKey(file, s, src, d)
    BY <2>1 DEF KnownTable, KnownKey
  <2>3. BecomesNotNull(src, d, s.table, s.name)
    <3>1. y \in NewlyNotNull(src, d)
      BY <1>5, NewlyNotNullPair
    <3> QED
      BY <2>1, <3>1 DEF BecomesNotNull
  <2>4. ~(version >= 12)
    BY <1>0, <1>5, Zenon
  <2>5. KnownColumn(file, at, s, src, d, version)
    BY <2>1, <2>3, <2>4 DEF KnownColumn
  <2> QED
    BY <1>1, <2>1, <2>2, <2>5, PlainKnown
<1>6. /\ Ordinary("alter collation") /\ Ordinary("set default") /\ Ordinary("add check")
      /\ Ordinary("drop identity") /\ Ordinary("add identity")
  BY DEF Ordinary
<1> QED
  BY <1>2, <1>3, <1>4, <1>5, <1>6 DEF AlterColumnStatements

LEMMA AlterTableKnown ==
  ASSUME NEW src, NEW d, NEW drop, NEW version \in Nat, Whole(src), Whole(d)
  PROVE  \A x \in AlterTableSteps(src, d, drop, version) : Known(x, src, d, version)
<1>1. ASSUME NEW op, Ordinary(op), NEW x, x.table \in Nat \X Nat, NEW at
      PROVE  Known(Step(<<3>> \o x.table \o <<1>>, at, With(op, x.table, x)), src, d, version)
  <2> PICK file : file = <<3>> \o x.table \o <<1>>
    OBVIOUS
  <2> PICK s : s = With(op, x.table, x)
    OBVIOUS
  <2>1. Plain(file)
    BY <1>1, PlainFiles
  <2>2. Ordinary(s.op)
    BY <1>1 DEF With
  <2> QED
    BY <2>1, <2>2, OrdinaryKnown
<1>2. Ordinary("drop index") /\ Ordinary("drop constraint") /\ Ordinary("alter constraint")
  BY DEF Ordinary
<1>3. /\ \A x \in DropIndexes(src, d, drop) : x.table \in Nat \X Nat
      /\ \A x \in DropConstraints(src, d, drop) : x.table \in Nat \X Nat
      /\ \A p \in AlterConstraints(src, d) : p[2].table \in Nat \X Nat
  <2>1. /\ d.tables \subseteq Nat \X Nat
        /\ \A k \in src.constraints \cup d.constraints : k.table \in Nat \X Nat
    BY DEF Whole, IsRef
  <2>2. /\ \A x \in DropIndexes(src, d, drop) : x.table \in d.tables
        /\ \A x \in DropConstraints(src, d, drop) : x \in src.constraints
        /\ \A p \in AlterConstraints(src, d) : p[2] \in d.constraints
    BY DEF DropIndexes, DropConstraints, DropKeys, Gone, Keys, AlterConstraints, Pairs
  <2> QED
    BY <2>1, <2>2
<1>4. ASSUME NEW x \in DropColumns(src, d, drop), NEW at
      PROVE  Known(Step(<<3>> \o x.table \o <<1>>, at, With("drop column", x.table, x)), src, d, version)
  <2> PICK file : file = <<3>> \o x.table \o <<1>>
    OBVIOUS
  <2> PICK s : s = With("drop column", x.table, x)
    OBVIOUS
  <2>1. x.table \in Nat \X Nat /\ \A y \in d.columns : y.table # x.table \/ y.name # x.name
    BY DEF DropColumns, Gone, Whole
  <2>2. Plain(file)
    BY <2>1, PlainFiles
  <2>3. s.op = "drop column" /\ s.table = x.table /\ s.name = x.name
    BY DEF With
  <2>4. KnownTable(s, src, d) /\ KnownKey(file, s, src, d) /\ ~IsCheck(s.op)
    BY <2>3 DEF KnownTable, KnownKey, IsCheck
  <2>5. KnownColumn(file, at, s, src, d, version)
    BY <2>1, <2>3, <2>4 DEF KnownColumn
  <2> QED
    BY <2>2, <2>3, <2>4, <2>5, PlainKnown
<1>5. ASSUME NEW x \in AddColumns(src, d), NEW at
      PROVE  Known(Step(<<3>> \o x.table \o <<1>>, at, With("add column", x.table, x)), src, d, version)
  <2> PICK file : file = <<3>> \o x.table \o <<1>>
    OBVIOUS
  <2> PICK s : s = With("add column", x.table, x)
    OBVIOUS
  <2>1. x.table \in Nat \X Nat /\ x \in d.columns /\ \A y \in src.columns : ~Same(y, x)
    BY DEF AddColumns, Gone, Whole, Same
  <2>2. Plain(file)
    BY <2>1, PlainFiles
  <2>3. s.op = "add column" /\ s.table = x.table /\ s.name = x.name /\ s.object = x
    BY DEF With
  <2>4. KnownTable(s, src, d) /\ KnownKey(file, s, src, d) /\ ~IsCheck(s.op)
    BY <2>3 DEF KnownTable, KnownKey, IsCheck
  <2>5. OfColumn(s, d) /\ (\A y \in src.columns : ~Same(y, s.object)) /\ file = <<3>> \o s.table \o <<1>>
    BY <2>1, <2>3 DEF OfColumn
  <2>6. KnownColumn(file, at, s, src, d, version)
    BY <2>3, <2>4, <2>5 DEF KnownColumn
  <2> QED
    BY <2>2, <2>3, <2>4, <2>6, PlainKnown
<1>6. ASSUME NEW p \in AlterColumns(src, d)
      PROVE  \A z \in AlterColumnStatements(p[1], p[2], version) : Known(z, src, d, version)
  <2>1. /\ p[1] \in src.columns /\ p[2] \in d.columns /\ Same(p[1], p[2])
        /\ <<p[1], p[2]>> \in AlterColumns(src, d)
    BY DEF AlterColumns, Pairs, Same
  <2> QED
    BY <2>1, AlterColumnKnown
<1> QED
  BY <1>1, <1>2, <1>3, <1>4, <1>5, <1>6 DEF AlterTableSteps

LEMMA ValidateNotNullKnown ==
  ASSUME NEW src, NEW d, NEW version \in Nat, Whole(d)
  PROVE  \A x \in ValidateNotNullSteps(src, d, version) : Known(x, src, d, version)
<1>1. ASSUME NEW y \in NewlyNotNull(src, d), NEW op, IsCheck(op)
      PROVE  Known(Step(<<3>> \o y.table \o <<2>>, <<y.name, Turn(op)>>, Named(op, y.table, y.name)), src, d, version)
  <2> PICK file : file = <<3>> \o y.table \o <<2>>
    OBVIOUS
  <2> PICK at : at = <<y.name, Turn(op)>>
    OBVIOUS
  <2> PICK s : s = Named(op, y.table, y.name)
    OBVIOUS
  <2>1. s.op = op /\ s.table = y.table /\ s.name = y.name
    BY DEF Named
  <2>2. y \in d.columns
    BY DEF NewlyNotNull, AlterColumns, Pairs
  <2>3. BecomesNotNull(src, d, s.table, s.name)
    BY <2>1 DEF BecomesNotNull
  <2>4. PartOf(file, 3, y.table, 2)
    <3>1. y.table \in Nat \X Nat
      BY <2>2 DEF Whole, IsColumn
    <3> QED
      BY <3>1, Files
  <2>5. file[1] # 5
    BY <2>4 DEF PartOf
  <2>6. /\ op \notin {"drop schema", "drop table", "create table", "drop column", "add column", "alter type"}
        /\ op \notin {"drop not null", "add key", "add foreign key", "validate constraint"}
    BY <1>1 DEF IsCheck
  <2>7. KnownTable(s, src, d) /\ KnownKey(file, s, src, d)
    BY <2>1, <2>6 DEF KnownTable, KnownKey
  <2>8. file = <<3>> \o s.table \o <<2>> /\ at = <<s.name, Turn(s.op)>> /\ s = Named(s.op, s.table, s.name)
    BY <2>1
  <2>9. KnownColumn(file, at, s, src, d, version)
    BY <2>1, <2>3, <2>6, <2>8 DEF KnownColumn
  <2>10. KnownFile(file, s)
    BY <1>1, <2>1, <2>5, <2>6, Zenon DEF KnownFile
  <2> QED
    BY <2>7, <2>9, <2>10 DEF Known, Step
<1>2. /\ IsCheck("validate check") /\ Turn("validate check") = 1
      /\ IsCheck("set not null") /\ Turn("set not null") = 2
      /\ IsCheck("drop check") /\ Turn("drop check") = 3
  BY DEF IsCheck, Turn
<1>3. \A y \in NewlyNotNull(src, d) :
        /\ Known(Step(<<3>> \o y.table \o <<2>>, <<y.name, 1>>, Named("validate check", y.table, y.name)), src, d, version)
        /\ Known(Step(<<3>> \o y.table \o <<2>>, <<y.name, 2>>, Named("set not null", y.table, y.name)), src, d, version)
        /\ Known(Step(<<3>> \o y.table \o <<2>>, <<y.name, 3>>, Named("drop check", y.table, y.name)), src, d, version)
  BY <1>1, <1>2
<1> QED
  BY <1>3 DEF ValidateNotNullSteps, NewlyNotNull

LEMMA IndexKnown ==
  ASSUME NEW src, NEW d, NEW version, Whole(src), Whole(d)
  PROVE  \A x \in CreateIndexSteps(src, d) \cup AddKeySteps(src, d) : Known(x, src, d, version)
<1>1. ASSUME NEW file, Plain(file), NEW at, NEW t, NEW x
      PROVE  Known(Step(file, at, With("create index", t, x)), src, d, version)
  <2> PICK s : s = With("create index", t, x)
    OBVIOUS
  <2>1. Ordinary(s.op)
    BY DEF With, Ordinary
  <2> QED
    BY <1>1, <2>1, OrdinaryKnown
<1>2. ASSUME NEW k \in AddKeys(src, d), NEW at
      PROVE  Known(Step(<<3>> \o k.table \o <<4, k.name, 2>>, at,
                        With("add key", k.table, [k EXCEPT !.deferral = "NOT DEFERRABLE"])), src, d, version)
  <2> PICK file : file = <<3>> \o k.table \o <<4, k.name, 2>>
    OBVIOUS
  <2> PICK l : l = [k EXCEPT !.deferral = "NOT DEFERRABLE"]
    OBVIOUS
  <2> PICK s : s = With("add key", k.table, l)
    OBVIOUS
  <2>1. IsRef(k) /\ k \in Keys(d) /\ k.table \in src.tables
    BY DEF AddKeys, Gone, Keys, Whole
  <2>2. IsRef(l) /\ l.type = k.type /\ l.columns = k.columns
    BY <2>1 DEF IsRef
  <2>3. s.op = "add key" /\ s.table = k.table /\ s.object = l
    BY DEF With
  <2>4. KnownTable(s, src, d) /\ KnownColumn(file, at, s, src, d, version)
    BY <2>3 DEF KnownTable, KnownColumn, IsCheck
  <2>5. KnownKey(file, s, src, d)
    BY <2>1, <2>2, <2>3 DEF KnownKey
  <2>6. Plain(file)
    BY <2>1, PlainFiles DEF IsRef
  <2> QED
    BY <2>3, <2>4, <2>5, <2>6, PlainKnown
<1>3. \A i \in CreateIndexes(src, d) : Plain(<<3>> \o i.table \o <<3, i.name>>)
  <2>1. \A i \in CreateIndexes(src, d) : i.table \in Nat \X Nat
    BY DEF CreateIndexes, Whole
  <2> QED
    BY <2>1, PlainFiles
<1>4. \A k \in AddKeys(src, d) : Plain(<<3>> \o k.table \o <<4, k.name, 1>>)
  <2>1. \A k \in AddKeys(src, d) : k.table \in Nat \X Nat
    BY DEF AddKeys, Whole
  <2> QED
    BY <2>1, PlainFiles
<1>5. \A x \in CreateIndexSteps(src, d) : Known(x, src, d, version)
  BY <1>1, <1>3 DEF CreateIndexSteps
<1>6. \A x \in AddKeySteps(src, d) : Known(x, src, d, version)
  BY <1>1, <1>2, <1>4 DEF AddKeySteps
<1> QED
  BY <1>5, <1>6

LEMMA MigrationKnown ==
  ASSUME NEW src, NEW d, NEW drop, NEW version \in Nat, Whole(src), Whole(d)
  PROVE  \A x \in Migration(src, d, drop, version) : Known(x, src, d, version)
BY TablesKnown, DropFkeysKnown, AddFkeysKnown, AlterTableKnown, ValidateNotNullKnown, IndexKnown DEF Migration

-----------------------------------------------------------------------------
(* What a step does to the columns                                         *)

\* Column x is the one that statement s names.
Names(s, x) == x.table = s.table /\ x.name = s.name

TypeFits(s) == s.op = "alter type" => IsColumn(s.object)

\* Column l is what statement s leaves of x.
LeftAs(l, s, x) ==
  /\ IsColumn(l) /\ Same(l, x)
  /\ l.type = x.type \/ (s.op = "alter type" /\ Names(s, x) /\ l.type = s.object.type)
  /\ \/ l.notNull = x.notNull
     \/ s.op = "set not null" /\ Names(s, x) /\ l.notNull
     \/ s.op = "drop not null" /\ Names(s, x) /\ ~l.notNull
     \/ s.op = "add key" /\ l.notNull

LEMMA LeftCases ==
  ASSUME NEW x, NEW s
  PROVE  /\ s.op = "add key" => Left(s, x) = x \/ Left(s, x) = [x EXCEPT !.notNull = @ \/ s.object.type = PRIMARY_KEY]
         /\ s.op # "add key" => Left(s, x) = x \/ (Names(s, x) /\ Left(s, x) = NewColumn(x, s))
<1>1. CASE s.op = "add key"
  BY <1>1 DEF Left, ConstraintStatements
<1>2. CASE s.op \in TableStatements \cup ConstraintStatements \cup {"add check", "drop check"} /\ s.op # "add key"
  BY <1>2 DEF Left
<1>3. CASE s.op \notin TableStatements \cup ConstraintStatements \cup {"add check", "drop check"}
  BY <1>3 DEF Left, Names, ConstraintStatements
<1> QED
  BY <1>1, <1>2, <1>3

\* The statements on the type and on NOT NULL.
OfType(s) == s.op = "alter type"
OfNull(s) == s.op \in {"set not null", "drop not null"}

\* What is not about the type or about NOT NULL leaves them.
LEMMA NewColumnLikeOld ==
  ASSUME NEW x, IsColumn(x), NEW s, ~OfType(s), ~OfNull(s),
         NEW l, l = NewColumn(x, s)
  PROVE  IsColumn(l) /\ Same(l, x) /\ l.type = x.type /\ l.notNull = x.notNull
<1>0. {"table", "name", "type", "notNull"} \subseteq DOMAIN x
  BY DEF IsColumn
<1>1. ASSUME NEW v, \/ l = [x EXCEPT !.collation = v]
                    \/ l = [x EXCEPT !.default = v]
                    \/ l = [x EXCEPT !.identity = v]
      PROVE  DOMAIN l = DOMAIN x /\ Same(l, x) /\ l.type = x.type /\ l.notNull = x.notNull
  BY <1>0, <1>1 DEF Same
<1>2. \/ NewColumn(x, s) = x
      \/ \E v : \/ NewColumn(x, s) = [x EXCEPT !.collation = v]
               \/ NewColumn(x, s) = [x EXCEPT !.default = v]
               \/ NewColumn(x, s) = [x EXCEPT !.identity = v]
  BY DEF NewColumn, OfType, OfNull
<1>3. DOMAIN l = DOMAIN x /\ Same(l, x) /\ l.type = x.type /\ l.notNull = x.notNull
  BY <1>1, <1>2 DEF Same
<1> QED
  BY <1>3 DEF IsColumn, Same

LEMMA NewColumnOfType ==
  ASSUME NEW x, IsColumn(x), NEW s, OfType(s), IsColumn(s.object), NEW l, l = NewColumn(x, s)
  PROVE  IsColumn(l) /\ Same(l, x) /\ l.type = s.object.type /\ l.notNull = x.notNull
<1>0. {"table", "name", "type", "notNull"} \subseteq DOMAIN x
  BY DEF IsColumn
<1>1. l = [x EXCEPT !.type = s.object.type, !.collation = s.object.collation]
  BY DEF NewColumn, OfType
<1>2. DOMAIN l = DOMAIN x /\ Same(l, x) /\ l.notNull = x.notNull
  BY <1>0, <1>1 DEF Same
<1>3. l.type = s.object.type
  BY <1>0, <1>1
<1> QED
  BY <1>2, <1>3 DEF IsColumn, Same

LEMMA NewColumnNullable ==
  ASSUME NEW x, IsColumn(x), NEW s, OfNull(s), NEW l, l = NewColumn(x, s)
  PROVE  IsColumn(l) /\ Same(l, x) /\ l.type = x.type /\ (l.notNull <=> s.op = "set not null")
<1>0. {"table", "name", "type", "notNull"} \subseteq DOMAIN x
  BY DEF IsColumn
<1>1. ASSUME NEW v \in BOOLEAN, l = [x EXCEPT !.notNull = v]
      PROVE  IsColumn(l) /\ Same(l, x) /\ l.type = x.type /\ l.notNull = v
  <2>1. DOMAIN l = DOMAIN x /\ Same(l, x) /\ l.type = x.type /\ l.notNull = v
    BY <1>0, <1>1 DEF Same
  <2> QED
    BY <2>1 DEF IsColumn, Same
<1>2. CASE s.op = "set not null"
  <2>1. NewColumn(x, s) = [x EXCEPT !.notNull = TRUE]
    BY <1>2 DEF NewColumn
  <2> QED
    BY <1>1, <1>2, <2>1
<1>3. CASE s.op = "drop not null"
  <2>1. NewColumn(x, s) = [x EXCEPT !.notNull = FALSE]
    BY <1>3 DEF NewColumn
  <2> QED
    BY <1>1, <1>3, <2>1
<1> QED
  BY <1>2, <1>3 DEF OfNull

LEMMA LeftColumn ==
  ASSUME NEW x, IsColumn(x), NEW s, TypeFits(s), NEW l, l = Left(s, x)
  PROVE  LeftAs(l, s, x)
<1>1. CASE l = x
  BY <1>1 DEF Same, LeftAs
<1>2. CASE s.op = "add key" /\ l # x
  <2> PICK v : v = (s.object.type = PRIMARY_KEY)
    OBVIOUS
  <2>1. l = [x EXCEPT !.notNull = @ \/ v]
    BY <1>2, LeftCases
  <2>2. DOMAIN l = DOMAIN x /\ l.table = x.table /\ l.name = x.name /\ l.type = x.type
    BY <2>1
  <2>3. "notNull" \in DOMAIN x /\ x.notNull \in BOOLEAN
    BY DEF IsColumn
  <2>4. l.notNull = (x.notNull \/ v)
    BY <2>1, <2>3
  <2>5. l.notNull \in BOOLEAN /\ (l.notNull = x.notNull \/ l.notNull)
    BY <2>3, <2>4
  <2>6. IsColumn(l) /\ Same(l, x)
    BY <2>2, <2>5 DEF IsColumn, Same
  <2> QED
    BY <1>2, <2>2, <2>5, <2>6 DEF LeftAs
<1>3. CASE s.op # "add key" /\ l # x
  <2>1. Names(s, x) /\ l = NewColumn(x, s)
    BY <1>3, LeftCases
  <2>2. CASE OfType(s)
    <3>1. IsColumn(s.object)
      BY <2>2 DEF TypeFits, OfType
    <3>2. IsColumn(l) /\ Same(l, x) /\ l.type = s.object.type /\ l.notNull = x.notNull
      BY <2>1, <2>2, <3>1, NewColumnOfType
    <3> QED
      BY <2>1, <2>2, <3>2 DEF LeftAs, OfType
  <2>3. CASE OfNull(s)
    <3>1. IsColumn(l) /\ Same(l, x) /\ l.type = x.type /\ (l.notNull <=> s.op = "set not null")
      BY <2>1, <2>3, NewColumnNullable
    <3> QED
      BY <2>1, <2>3, <3>1 DEF LeftAs, OfNull
  <2>4. CASE ~OfType(s) /\ ~OfNull(s)
    <3>1. IsColumn(l) /\ Same(l, x) /\ l.type = x.type /\ l.notNull = x.notNull
      BY <2>1, <2>4, NewColumnLikeOld
    <3> QED
      BY <3>1 DEF LeftAs
  <2> QED
    BY <2>2, <2>3, <2>4
<1> QED
  BY <1>1, <1>2, <1>3

\* The columns of c have the types of namesakes, and are nullable only if a namesake is.
FairColumn(x) ==
  /\ \E y \in AnyColumn : Same(y, x) /\ y.type = x.type
  /\ ~x.notNull => \E y \in AnyColumn : Same(y, x) /\ ~y.notNull

Fair(c) == Whole(c) /\ \A x \in c.columns : FairColumn(x)

LEMMA CatalogIsFair ==
  ASSUME NEW c \in Declared \cup Existing, Whole(c)
  PROVE  Fair(c)
<1>1. c.columns \subseteq AnyColumn
  BY DEF AnyColumn
<1> QED
  BY <1>1 DEF Fair, FairColumn, Same

\* A statement on what is in a table needs the table.
LEMMA TableIsThere ==
  ASSUME NEW w, NEW s, ~Refused(w, s),
         s.op \notin {"drop schema", "create schema", "drop table", "create table", "drop index"}
  PROVE  s.table \in w.tables
BY DEF Refused, Missing

LEMMA StatementBecomes ==
  ASSUME NEW w, Whole(w), NEW src, NEW d, Whole(d), NEW file, NEW s, Fits(s), ~Refused(w, s),
         KnownTable(s, src, d), KnownKey(file, s, src, d), NEW e, e = Effect(w, s)
  PROVE  Becomes(w, e, s)
<1>1. CASE s.op = "create table"
  <2>1. \A k \in s.object.constraints : IsRef(k)
    BY <1>1 DEF KnownTable, Whole
  <2> QED
    BY <1>1, <2>1, EffectBecomes DEF BringsRefs
<1>2. CASE s.op = "add key"
  <2>1. IsRef(s.object)
    BY <1>2 DEF KnownKey
  <2> QED
    BY <1>2, <2>1, EffectBecomes DEF BringsRefs
<1>3. CASE s.op = "add foreign key"
  <2>1. IsRef(s.object)
    BY <1>3 DEF KnownKey
  <2>2. s.table \in w.tables
    BY <1>3, TableIsThere
  <2>3. s.table \in Nat \X Nat
    BY <2>2 DEF Whole
  <2> QED
    BY <1>3, <2>1, <2>3, EffectBecomes DEF BringsRefs
<1>4. CASE s.op \notin {"create table", "add key", "add foreign key"}
  BY <1>4, EffectBecomes DEF BringsRefs
<1> QED
  BY <1>1, <1>2, <1>3, <1>4

\* What a statement of a migration brings are declared columns, new to the database.
LEMMA BroughtColumns ==
  ASSUME NEW w, Whole(w), NEW src, NEW d, Whole(d), NEW file, NEW at, NEW s, NEW version, ~Refused(w, s),
         KnownTable(s, src, d), KnownColumn(file, at, s, src, d, version), NEW e, Becomes(w, e, s)
  PROVE  \A y \in Brought(s) : y \in d.columns /\ y.table \in e.tables /\ \A x \in w.columns : ~Same(x, y)
<1>1. CASE s.op = "add column"
  <2>1. Brought(s) = {s.object} /\ OfColumn(s, d)
    BY <1>1 DEF Brought, KnownColumn
  <2>2. s.table \in w.tables
    BY <1>1, TableIsThere
  <2>3. s.name \notin ColumnNames(w, s.table)
    BY <1>1 DEF Refused, Exists
  <2>4. \A x \in w.columns : ~Same(x, s.object)
    BY <2>1, <2>3 DEF ColumnNames, Same, OfColumn
  <2>5. \A t : ~TableGoes(s, t)
    BY <1>1 DEF TableGoes
  <2>6. s.table \in e.tables
    BY <2>2, <2>5 DEF Becomes
  <2> QED
    BY <2>1, <2>4, <2>6 DEF OfColumn
<1>2. CASE s.op = "create table"
  <2>1. Brought(s) = {y \in d.columns : y.table = s.table}
    BY <1>2 DEF Brought, KnownTable
  <2>2. s.table \notin w.tables
    BY <1>2 DEF Refused, Exists
  <2>3. s.table \in e.tables
    BY <1>2 DEF Becomes
  <2>4. \A x \in w.columns : x.table # s.table
    BY <2>2 DEF Whole
  <2> QED
    BY <2>1, <2>3, <2>4 DEF Same
<1>3. CASE s.op \notin {"add column", "create table"}
  BY <1>3 DEF Brought
<1> QED
  BY <1>1, <1>2, <1>3

LEMMA StatementFair ==
  ASSUME NEW w, Fair(w), NEW src, NEW d \in Declared, Whole(d), NEW file, NEW at, NEW s, NEW version,
         ~Refused(w, s), KnownTable(s, src, d), KnownColumn(file, at, s, src, d, version),
         NEW e, Becomes(w, e, s)
  PROVE  Fair(e)
<1>0. Whole(w) /\ d.columns \subseteq AnyColumn
  BY DEF Fair, AnyColumn
<1>1. \A y \in Brought(s) : y \in d.columns /\ y.table \in e.tables /\ \A x \in w.columns : ~Same(x, y)
  BY <1>0, BroughtColumns
<1>2. s.op \in {"alter type", "drop not null"} => s.object \in d.columns /\ IsColumn(s.object) /\ Names(s, s.object)
  BY DEF KnownColumn, OfColumn, Names, Whole
<1>3. ASSUME NEW x \in w.columns, ~Goes(s, x), NEW l, l = Left(s, x)
      PROVE  IsColumn(l) /\ Same(l, x) /\ l.table \in e.tables /\ FairColumn(l)
  <2>1. IsColumn(x) /\ FairColumn(x) /\ x.table \in w.tables
    BY <1>0 DEF Fair, Whole
  <2>2a. LeftAs(l, s, x)
    <3>1. TypeFits(s)
      BY <1>2 DEF TypeFits
    <3> QED
      BY <1>3, <2>1, <3>1, LeftColumn
  <2>2. /\ IsColumn(l) /\ Same(l, x)
        /\ l.type = x.type \/ (s.op = "alter type" /\ Names(s, x) /\ l.type = s.object.type)
        /\ \/ l.notNull = x.notNull
           \/ s.op = "set not null" /\ Names(s, x) /\ l.notNull
           \/ s.op = "drop not null" /\ Names(s, x) /\ ~l.notNull
           \/ s.op = "add key" /\ l.notNull
    BY <2>2a DEF LeftAs
  <2>3. ~TableGoes(s, x.table)
    BY <1>3 DEF Goes
  <2>4. l.table \in e.tables
    BY <2>1, <2>2, <2>3 DEF Becomes, Same
  <2>5. \E y \in AnyColumn : Same(y, l) /\ y.type = l.type
    <3>1. CASE l.type = x.type
      BY <2>1, <2>2, <3>1 DEF FairColumn, Same
    <3>2. CASE s.op = "alter type" /\ Names(s, x) /\ l.type = s.object.type
      <4>1. s.object \in AnyColumn /\ Same(s.object, l)
        BY <1>0, <1>2, <2>2, <3>2 DEF Same, Names
      <4> QED
        BY <3>2, <4>1
    <3> QED
      BY <2>2, <3>1, <3>2
  <2>6. ASSUME ~l.notNull
        PROVE  \E y \in AnyColumn : Same(y, l) /\ ~y.notNull
    <3>1. CASE l.notNull = x.notNull
      BY <2>1, <2>2, <2>6, <3>1 DEF FairColumn, Same
    <3>2. CASE s.op = "drop not null" /\ Names(s, x)
      <4>1. s.object \in AnyColumn /\ Same(s.object, l)
        BY <1>0, <1>2, <2>2, <3>2 DEF Same, Names
      <4>2. ~s.object.notNull
        BY <3>2 DEF KnownColumn
      <4> QED
        BY <4>1, <4>2
    <3> QED
      BY <2>2, <2>6, <3>1, <3>2
  <2> QED
    BY <2>2, <2>4, <2>5, <2>6 DEF FairColumn
<1>4. \A z \in e.columns : z \in Brought(s) \/ \E x \in w.columns : ~Goes(s, x) /\ z = Left(s, x)
  BY DEF Becomes
<1>5. \A y \in Brought(s) : IsColumn(y) /\ FairColumn(y)
  <2>1. \A y \in Brought(s) : y \in AnyColumn /\ y \in d.columns
    BY <1>0, <1>1
  <2> QED
    BY <2>1 DEF Whole, FairColumn, Same
<1>6. \A z \in e.columns : IsColumn(z) /\ z.table \in e.tables /\ FairColumn(z)
  BY <1>1, <1>3, <1>4, <1>5
<1>7. ASSUME NEW y \in e.columns, NEW z \in e.columns, Same(y, z)
      PROVE  y = z
  <2>1. CASE y \in Brought(s) /\ z \in Brought(s)
    BY <1>1, <1>7, <2>1 DEF Whole
  <2>2. ASSUME NEW f \in Brought(s), NEW x \in w.columns, ~Goes(s, x), NEW g, g = Left(s, x)
        PROVE  ~Same(f, g) /\ ~Same(g, f)
    <3>1. Same(g, x) /\ ~Same(x, f)
      BY <1>1, <1>3, <2>2
    <3> QED
      BY <3>1 DEF Same
  <2>3. ASSUME NEW f \in w.columns, ~Goes(s, f), y = Left(s, f), NEW x \in w.columns, ~Goes(s, x), z = Left(s, x)
        PROVE  y = z
    <3>1. Same(y, f) /\ Same(z, x)
      BY <1>3, <2>3
    <3>2. f = x
      BY <1>0, <1>7, <3>1 DEF Same, Whole
    <3> QED
      BY <2>3, <3>2
  <2> QED
    BY <1>4, <1>7, <2>1, <2>2, <2>3
<1>8. e.tables \subseteq Nat \X Nat
  <2>1. s.op = "create table" => s.table \in Nat \X Nat
    BY DEF KnownTable, Whole
  <2> QED
    BY <1>0, <2>1 DEF Becomes, Whole
<1>9. IsCatalog(e) /\ \A k \in e.constraints : IsRef(k)
  BY DEF Becomes
<1> QED
  BY <1>6, <1>7, <1>8, <1>9 DEF Fair, Whole

-----------------------------------------------------------------------------
(* What a migration still owes                                             *)

\* The type of a column changes if it is not the source's: until then it is.
TypesDue(src, S, w) ==
  \A x \in S : OfType(x.stmt) =>
    \A c \in w.columns : Names(x.stmt, c) => \E z \in src.columns : Same(z, c) /\ z.type = c.type

\* What is declared NOT NULL becomes so, but for a column that is a primary key.
NotNullDue(S, w, d) ==
  \A c \in w.columns, y \in d.columns :
    Same(c, y) /\ ~c.notNull /\ y.notNull /\ ~IsPrimaryKey(d, y) =>
      \E x \in S : x.stmt.op = "set not null" /\ Names(x.stmt, y)

ColumnsDue(src, S, w, d) ==
  \A y \in d.columns : y.table \in src.tables =>
    \/ \E c \in w.columns : Same(c, y)
    \/ \E x \in S : x.stmt.op = "add column" /\ Same(x.stmt.object, y)

\* Before a column is made NOT NULL a check of its name is there, or will have been looked for.
CheckOf(s) == [table |-> s.table, name |-> s.name]

ChecksDue(S, w) ==
  \A x \in S : x.stmt.op = "set not null" =>
    \/ CheckOf(x.stmt) \in w.checks
    \/ \E v \in S : v.stmt.op = "validate check" /\ CheckOf(v.stmt) = CheckOf(x.stmt)

Due(src, S, w, d) ==
  TypesDue(src, S, w) /\ NotNullDue(S, w, d) /\ ColumnsDue(src, S, w, d) /\ ChecksDue(S, w)

\* A column that is declared is not dropped.
LEMMA DeclaredStays ==
  ASSUME NEW src, NEW d, Whole(d), NEW file, NEW at, NEW s, NEW version,
         KnownTable(s, src, d), KnownColumn(file, at, s, src, d, version),
         NEW y \in d.columns, NEW h, Same(h, y)
  PROVE  ~Goes(s, h)
<1>1. y.table \in d.tables /\ h.table = y.table /\ h.name = y.name
  BY DEF Whole, Same
<1>2. Schema(y.table) \in Schemas(d)
  BY <1>1 DEF Schemas
<1>3. ~TableGoes(s, h.table)
  BY <1>1, <1>2 DEF TableGoes, KnownTable
<1>4. s.op = "drop column" => h.table # s.table \/ h.name # s.name
  BY <1>1 DEF KnownColumn
<1> QED
  BY <1>3, <1>4 DEF Goes

\* What is brought is not in the source.
LEMMA BroughtIsNew ==
  ASSUME NEW src, Whole(src), NEW d, NEW file, NEW at, NEW s, NEW version,
         KnownTable(s, src, d), KnownColumn(file, at, s, src, d, version)
  PROVE  \A y \in Brought(s), z \in src.columns : ~Same(z, y)
<1>1. CASE s.op = "add column"
  BY <1>1 DEF Brought, KnownColumn
<1>2. CASE s.op = "create table"
  <2>1. \A y \in Brought(s) : y.table \notin src.tables
    BY <1>2 DEF Brought, KnownTable
  <2>2. \A z \in src.columns : z.table \in src.tables
    BY DEF Whole
  <2> QED
    BY <2>1, <2>2 DEF Same
<1>3. CASE s.op \notin {"add column", "create table"}
  BY <1>3 DEF Brought
<1> QED
  BY <1>1, <1>2, <1>3

\* A column after a step is one of before the step, or is new.
LEMMA ColumnAfter ==
  ASSUME NEW w, NEW e, NEW s, Becomes(w, e, s), Whole(w), TypeFits(s), NEW c \in e.columns
  PROVE  c \in Brought(s) \/ \E b \in w.columns : c = Left(s, b) /\ LeftAs(c, s, b)
<1>1. c \in Brought(s) \/ \E b \in w.columns : c = Left(s, b)
  BY DEF Becomes
<1>2. \A b \in w.columns : IsColumn(b)
  BY DEF Whole
<1> QED
  BY <1>1, <1>2, LeftColumn

LEMMA SetsNotNull ==
  ASSUME NEW b, IsColumn(b), NEW s, s.op = "set not null", Names(s, b)
  PROVE  Left(s, b).notNull
<1>1. Left(s, b) = NewColumn(b, s)
  BY DEF Left, Names, TableStatements, ConstraintStatements
<1>2. NewColumn(b, s) = [b EXCEPT !.notNull = TRUE]
  BY DEF NewColumn
<1>3. "notNull" \in DOMAIN b
  BY DEF IsColumn
<1> QED
  BY <1>1, <1>2, <1>3

LEMMA KnownTypeFits ==
  ASSUME NEW d, Whole(d), NEW src, NEW file, NEW at, NEW s, NEW version,
         KnownColumn(file, at, s, src, d, version)
  PROVE  TypeFits(s)
BY DEF KnownColumn, OfColumn, Whole, TypeFits

LEMMA TypesDueKept ==
  ASSUME NEW src, Whole(src), NEW d, Whole(d), NEW version, NEW w, Whole(w), NEW e,
         NEW S, NEW x \in S, \A z \in S : Known(z, src, d, version),
         Becomes(w, e, x.stmt), TypesDue(src, S, w)
  PROVE  TypesDue(src, S \ {x}, e)
<1> SUFFICES ASSUME NEW y \in S \ {x}, OfType(y.stmt), NEW c \in e.columns, Names(y.stmt, c)
             PROVE  \E z \in src.columns : Same(z, c) /\ z.type = c.type
  BY DEF TypesDue
<1> PICK s : s = x.stmt
  OBVIOUS
<1> PICK r : r = y.stmt
  OBVIOUS
<1>1. /\ KnownTable(s, src, d) /\ KnownColumn(x.file, x.at, s, src, d, version)
      /\ KnownColumn(y.file, y.at, r, src, d, version)
  BY DEF Known
<1>2. TypeFits(s)
  BY <1>1, KnownTypeFits
<1>3. OfColumn(r, d) /\ \E z \in src.columns : Same(z, r.object)
  BY <1>1 DEF KnownColumn, OfType
<1>4. CASE c \in Brought(s)
  <2>1. \A z \in src.columns : ~Same(z, c)
    BY <1>1, <1>4, BroughtIsNew
  <2>2. Same(r.object, c)
    BY <1>3 DEF OfColumn, Names, Same
  <2> QED
    BY <1>3, <2>1, <2>2 DEF Same
<1>5. ASSUME NEW b \in w.columns, LeftAs(c, s, b)
      PROVE  \E z \in src.columns : Same(z, c) /\ z.type = c.type
  <2>1. Same(c, b) /\ (c.type = b.type \/ (OfType(s) /\ Names(s, b)))
    BY <1>5 DEF LeftAs, OfType
  <2>2. CASE c.type = b.type
    <3>1. Names(r, b)
      BY <2>1 DEF Names, Same
    <3>2. \E z \in src.columns : Same(z, b) /\ z.type = b.type
      BY <3>1 DEF TypesDue
    <3> QED
      BY <2>1, <2>2, <3>2 DEF Same
  <2>3. CASE OfType(s) /\ Names(s, b)
    <3>1. /\ OfColumn(s, d) /\ x.file = <<3>> \o s.table \o <<1>> /\ x.at = <<5, s.name, 1>>
          /\ s = With("alter type", s.table, s.object)
      BY <1>1, <2>3 DEF KnownColumn, OfType
    <3>2. /\ y.file = <<3>> \o r.table \o <<1>> /\ y.at = <<5, r.name, 1>>
          /\ r = With("alter type", r.table, r.object)
      BY <1>1 DEF KnownColumn, OfType
    <3>3. s.table = r.table /\ s.name = r.name
      BY <2>1, <2>3 DEF Names, Same
    <3>4. s.object = r.object
      <4>1. s.object \in d.columns /\ r.object \in d.columns
        BY <1>3, <3>1 DEF OfColumn
      <4>2. Same(s.object, r.object)
        BY <1>3, <3>1, <3>3 DEF OfColumn, Same
      <4> QED
        BY <4>1, <4>2 DEF Whole
    <3>5. s = r /\ x.file = y.file /\ x.at = y.at
      <4>1. With("alter type", s.table, s.object) = With("alter type", r.table, r.object)
        BY <3>3, <3>4
      <4>2. s = r
        BY <3>1, <3>2, <4>1, Zenon
      <4>3. x.file = y.file
        BY <3>1, <3>2, <3>3, Zenon
      <4>4. x.at = y.at
        BY <3>1, <3>2, <3>3, Zenon
      <4> QED
        BY <4>2, <4>3, <4>4
    <3>6. x = Step(x.file, x.at, s) /\ y = Step(y.file, y.at, r)
      BY DEF Known
    <3> QED
      BY <3>5, <3>6
  <2> QED
    BY <2>1, <2>2, <2>3
<1> QED
  BY <1>2, <1>4, <1>5, ColumnAfter

LEMMA NotNullDueKept ==
  ASSUME NEW src, Whole(src), NEW d, Whole(d), NEW version, NEW w, Whole(w), NEW e,
         NEW S, NEW x \in S, \A z \in S : Known(z, src, d, version), ~Refused(w, x.stmt),
         Becomes(w, e, x.stmt), NotNullDue(S, w, d)
  PROVE  NotNullDue(S \ {x}, e, d)
<1> SUFFICES ASSUME NEW c \in e.columns, NEW y \in d.columns,
                    Same(c, y), ~c.notNull, y.notNull, ~IsPrimaryKey(d, y)
             PROVE  \E z \in S \ {x} : z.stmt.op = "set not null" /\ Names(z.stmt, y)
  BY DEF NotNullDue
<1> PICK s : s = x.stmt
  OBVIOUS
<1>1. KnownTable(s, src, d) /\ KnownColumn(x.file, x.at, s, src, d, version)
  BY DEF Known
<1>2. TypeFits(s)
  BY <1>1, KnownTypeFits
<1>3. CASE c \in Brought(s)
  <2>1. c \in d.columns
    BY <1>1, <1>3, BroughtColumns
  <2> QED
    BY <2>1 DEF Whole
<1>4. ASSUME NEW b \in w.columns, LeftAs(c, s, b), c = Left(s, b)
      PROVE  \E z \in S \ {x} : z.stmt.op = "set not null" /\ Names(z.stmt, y)
  <2>1. /\ Same(c, b)
        /\ c.notNull = b.notNull \/ (s.op = "drop not null" /\ Names(s, b))
    BY <1>4 DEF LeftAs
  <2>2. ~(s.op = "drop not null" /\ Names(s, b))
    <3>1. SUFFICES ASSUME s.op = "drop not null", Names(s, b)
                   PROVE  FALSE
      OBVIOUS
    <3>2. OfColumn(s, d) /\ ~s.object.notNull
      BY <1>1, <3>1 DEF KnownColumn
    <3>3. Same(s.object, y) /\ s.object \in d.columns
      BY <2>1, <3>1, <3>2 DEF OfColumn, Names, Same
    <3>4. s.object = y
      BY <3>3 DEF Whole
    <3> QED
      BY <3>2, <3>4
  <2>3. ~b.notNull /\ Same(b, y)
    BY <2>1, <2>2 DEF Same
  <2>4. PICK z \in S : z.stmt.op = "set not null" /\ Names(z.stmt, y)
    BY <2>3 DEF NotNullDue
  <2>5. z # x
    <3>1. SUFFICES ASSUME z = x
                   PROVE  FALSE
      OBVIOUS
    <3>2. s.op = "set not null" /\ Names(s, b) /\ IsColumn(b)
      BY <2>3, <2>4, <3>1 DEF Names, Same, Whole
    <3>3. Left(s, b).notNull
      BY <3>2, SetsNotNull
    <3> QED
      BY <1>4, <3>3
  <2> QED
    BY <2>4, <2>5
<1> QED
  BY <1>2, <1>3, <1>4, ColumnAfter

LEMMA ColumnsDueKept ==
  ASSUME NEW src, Whole(src), NEW d, Whole(d), NEW version, NEW w, Whole(w), NEW e,
         NEW S, NEW x \in S, \A z \in S : Known(z, src, d, version),
         Becomes(w, e, x.stmt), ColumnsDue(src, S, w, d)
  PROVE  ColumnsDue(src, S \ {x}, e, d)
<1> SUFFICES ASSUME NEW y \in d.columns, y.table \in src.tables
             PROVE  \/ \E c \in e.columns : Same(c, y)
                    \/ \E z \in S \ {x} : z.stmt.op = "add column" /\ Same(z.stmt.object, y)
  BY DEF ColumnsDue
<1> PICK s : s = x.stmt
  OBVIOUS
<1>1. KnownTable(s, src, d) /\ KnownColumn(x.file, x.at, s, src, d, version)
  BY DEF Known
<1>2. TypeFits(s)
  BY <1>1, KnownTypeFits
<1>3. ASSUME NEW b \in w.columns, Same(b, y)
      PROVE  \E c \in e.columns : Same(c, y)
  <2>1. ~Goes(s, b)
    BY <1>1, <1>3, DeclaredStays
  <2>2. Left(s, b) \in e.columns
    BY <2>1 DEF Becomes
  <2>3. IsColumn(b)
    BY DEF Whole
  <2>4. LeftAs(Left(s, b), s, b)
    BY <1>2, <2>3, LeftColumn
  <2>5. Same(Left(s, b), y)
    BY <1>3, <2>4 DEF LeftAs, Same
  <2> QED
    BY <2>2, <2>5
<1>4. ASSUME s.op = "add column", Same(s.object, y)
      PROVE  \E c \in e.columns : Same(c, y)
  <2>1. s.object \in e.columns
    BY <1>4 DEF Becomes, Brought
  <2> QED
    BY <1>4, <2>1
<1> QED
  BY <1>3, <1>4 DEF ColumnsDue

\* Nothing comes before itself.
LEMMA NotLess ==
  ASSUME NEW a, NEW b, NEW i \in Nat, NEW j \in Nat, NEW n \in Nat, a = <<n, i>>, b = <<n, j>>, j <= i
  PROVE  ~Less(a, b)
<1>1. DOMAIN a = {1, 2} /\ a[1] = n /\ a[2] = i /\ b[1] = n /\ b[2] = j
  OBVIOUS
<1>2. ~(a[1] < b[1]) /\ ~(a[2] < b[2])
  BY <1>1
<1> QED
  BY <1>1, <1>2 DEF Less

LEMMA FileNotLess ==
  ASSUME NEW n \in Nat, NEW m \in Nat, NEW t \in Nat \X Nat, NEW file, PartOf(file, n, t, m), DOMAIN file = 1 .. 4
  PROVE  ~Less(file, file)
<1>1. file[1] = n /\ file[2] = t[1] /\ file[3] = t[2] /\ file[4] = m
  BY DEF PartOf
<1>2. t[1] \in Nat /\ t[2] \in Nat
  OBVIOUS
<1>3. \A v \in Nat : ~(v < v)
  OBVIOUS
<1>4. ~(file[1] < file[1]) /\ ~(file[2] < file[2]) /\ ~(file[3] < file[3]) /\ ~(file[4] < file[4])
  BY <1>1, <1>2, <1>3
<1>5. \A i \in 1 .. 4 : i = 1 \/ i = 2 \/ i = 3 \/ i = 4
  OBVIOUS
<1>6. \A i \in 1 .. 4 : ~(file[i] < file[i])
  BY <1>4, <1>5
<1> QED
  BY <1>6 DEF Less

LEMMA TableFileDomain ==
  ASSUME NEW S, NEW t \in S \X S, NEW n \in S, NEW q \in Seq(S), Len(q) >= 1
  PROVE  DOMAIN (<<n>> \o t \o q) = 1 .. 3 + Len(q)
BY TableFile

LEMMA FileDomain ==
  ASSUME NEW S, NEW t \in S \X S, NEW n \in S, NEW q \in Seq(S)
  PROVE  Len(q) = 1 => DOMAIN (<<n>> \o t \o q) = 1 .. 4
<1>1. Len(q) >= 1 => DOMAIN (<<n>> \o t \o q) = 1 .. 3 + Len(q)
  BY TableFileDomain
<1> PICK D : D = DOMAIN (<<n>> \o t \o q)
  OBVIOUS
<1>2. Len(q) >= 1 => D = 1 .. 3 + Len(q)
  BY <1>1
<1>3. Len(q) = 1 => D = 1 .. 4
  BY <1>2
<1> QED
  BY <1>3

LEMMA TableFiles ==
  ASSUME NEW t \in Nat \X Nat, NEW n \in Nat, NEW m \in Nat
  PROVE  \A file : file = <<n>> \o t \o <<m>> => PartOf(file, n, t, m) /\ ~Less(file, file)
<1>1. <<m>> \in Seq(Nat) /\ Len(<<m>>) = 1
  OBVIOUS
<1>2. DOMAIN (<<n>> \o t \o <<m>>) = 1 .. 4
  BY <1>1, FileDomain
<1>3. PartOf(<<n>> \o t \o <<m>>, n, t, m)
  BY Files
<1> TAKE file
<1> HAVE file = <<n>> \o t \o <<m>>
<1> QED
  BY <1>2, <1>3, FileNotLess

\* The steps that make a column NOT NULL are run in their turn.
LEMMA InTurn ==
  ASSUME NEW src, NEW d, Whole(d), NEW version \in Nat, version >= 12,
         NEW x, NEW y, Known(x, src, d, version), Known(y, src, d, version),
         IsCheck(x.stmt.op), IsCheck(y.stmt.op), CheckOf(x.stmt) = CheckOf(y.stmt),
         Turn(y.stmt.op) <= Turn(x.stmt.op)
  PROVE  ~Before(x, y)
<1> PICK s : s = x.stmt
  OBVIOUS
<1> PICK r : r = y.stmt
  OBVIOUS
<1> PICK i : i = Turn(s.op)
  OBVIOUS
<1> PICK j : j = Turn(r.op)
  OBVIOUS
<1>1. /\ x.file = <<3>> \o s.table \o <<2>> /\ x.at = <<s.name, i>>
      /\ y.file = <<3>> \o r.table \o <<2>> /\ y.at = <<r.name, j>>
  BY DEF Known, KnownColumn
<1>2. s.table = r.table /\ s.name = r.name
  BY DEF CheckOf
<1>3. s.table \in Nat \X Nat /\ s.name \in Nat
  <2>1. \E z \in d.columns : z.table = s.table /\ z.name = s.name
    BY DEF Known, KnownColumn, BecomesNotNull, NewlyNotNull, AlterColumns, Pairs
  <2> QED
    BY <2>1 DEF Whole, IsColumn
<1>4. i \in Nat /\ j \in Nat /\ j <= i
  BY DEF Turn
<1>5. ~Less(x.file, y.file)
  <2>1. x.file = y.file
    BY <1>1, <1>2
  <2>2. \A file : file = <<3>> \o s.table \o <<2>> => ~Less(file, file)
    <3>1. \A t \in Nat \X Nat : \A file : file = <<3>> \o t \o <<2>> => ~Less(file, file)
      BY TableFiles
    <3> QED
      BY <1>3, <3>1
  <2> QED
    BY <1>1, <2>1, <2>2
<1>6. ~Less(x.at, y.at)
  BY <1>1, <1>2, <1>3, <1>4, NotLess
<1> QED
  BY <1>5, <1>6 DEF Before

LEMMA Turns ==
  /\ \A op : Turn(op) \in {1, 2, 3}
  /\ \A op : op = "validate check" => Turn(op) = 1
  /\ \A op : op = "set not null" => Turn(op) = 2
  /\ \A op : op = "drop check" => Turn(op) = 3
BY DEF Turn

InOrder(op, next) ==
  \/ op = "validate check"
  \/ op = "set not null" /\ next \in {"set not null", "drop check"}
  \/ op = "drop check" /\ next = "drop check"

LEMMA TurnOrder ==
  ASSUME NEW op, NEW next, InOrder(op, next)
  PROVE  Turn(op) <= Turn(next)
<1>1. Turn(op) \in {1, 2, 3} /\ Turn(next) \in {1, 2, 3}
  BY Turns
<1>2. op = "validate check" => Turn(op) = 1
  BY Turns, Zenon
<1>3. op = "set not null" => Turn(op) = 2
  BY Turns, Zenon
<1>4. next = "set not null" => Turn(next) = 2
  BY Turns, Zenon
<1>5. next = "drop check" => Turn(next) = 3
  BY Turns, Zenon
<1>6. Turn(op) = 1 \/ Turn(next) = 3 \/ (Turn(op) = 2 /\ Turn(next) = 2)
  BY <1>2, <1>3, <1>4, <1>5, Zenon DEF InOrder
<1> QED
  BY <1>1, <1>6

\* A check that is due to be looked for, or to be there, is.
LEMMA ChecksDueKept ==
  ASSUME NEW src, NEW d, Whole(d), NEW version \in Nat, NEW w, NEW e,
         NEW S, NEW x \in S, \A z \in S : Known(z, src, d, version),
         \A z \in S : IsCheck(z.stmt.op) => version >= 12,
         \A z \in S : x = z \/ Before(x, z),
         ~Refused(w, x.stmt), Becomes(w, e, x.stmt), ChecksDue(S, w)
  PROVE  ChecksDue(S \ {x}, e)
<1> SUFFICES ASSUME NEW z \in S \ {x}, z.stmt.op = "set not null"
             PROVE  \/ CheckOf(z.stmt) \in e.checks
                    \/ \E v \in S \ {x} : v.stmt.op = "validate check" /\ CheckOf(v.stmt) = CheckOf(z.stmt)
  BY DEF ChecksDue
<1> PICK s : s = x.stmt
  OBVIOUS
<1>1. /\ KnownTable(s, src, d) /\ KnownColumn(x.file, x.at, s, src, d, version)
      /\ KnownColumn(z.file, z.at, z.stmt, src, d, version)
  BY DEF Known
<1>2. IsCheck(z.stmt.op) /\ version >= 12
  BY DEF IsCheck
<1>3. PICK y \in d.columns : y.table = z.stmt.table /\ y.name = z.stmt.name
  BY <1>1, <1>2 DEF KnownColumn, BecomesNotNull, NewlyNotNull, AlterColumns, Pairs
<1>4. ~(s.op = "drop check" /\ CheckOf(s) = CheckOf(z.stmt))
  <2>1. SUFFICES ASSUME s.op = "drop check", CheckOf(s) = CheckOf(z.stmt)
                 PROVE  FALSE
    OBVIOUS
  <2>2. IsCheck(s.op)
    BY <2>1 DEF IsCheck
  <2>5. Turn(z.stmt.op) <= Turn(s.op)
    BY <2>1, TurnOrder DEF InOrder
  <2>3. ~Before(x, z)
    BY <1>2, <2>1, <2>2, <2>5, InTurn
  <2> QED
    BY <2>3
<1>5. ASSUME CheckOf(z.stmt) \in w.checks
      PROVE  CheckOf(z.stmt) \in e.checks
  <2>1. Same(CheckOf(z.stmt), y)
    BY <1>3 DEF CheckOf, Same
  <2>2. ~Goes(s, CheckOf(z.stmt))
    BY <1>1, <2>1, DeclaredStays
  <2>3. ~(s.op = "drop check" /\ CheckOf(z.stmt) = [table |-> s.table, name |-> s.name])
    BY <1>4 DEF CheckOf
  <2> QED
    BY <1>5, <2>2, <2>3 DEF Becomes
<1>6. ASSUME s.op = "validate check", CheckOf(s) = CheckOf(z.stmt)
      PROVE  CheckOf(z.stmt) \in w.checks
  <2>1. [table |-> s.table, name |-> s.name] \in w.checks
    BY <1>6 DEF Refused, Missing
  <2> QED
    BY <1>6, <2>1 DEF CheckOf
<1> QED
  BY <1>5, <1>6 DEF ChecksDue

-----------------------------------------------------------------------------
(* A migration that nothing is warned of                                   *)

LEMMA NoWarning ==
  ASSUME NEW src, NEW d, NEW version, Warnings(src, d, version) = {}
  PROVE  /\ \A p \in AlterColumns(src, d) : p[1].type # p[2].type => ~UnsafeType(p[1].type, p[2].type)
         /\ version < 12 => NewlyNotNull(src, d) = {}
BY DEF Warnings, NewlyNotNull

LEMMA ChecksFrom12 ==
  ASSUME NEW src, NEW d, NEW version \in Nat, Warnings(src, d, version) = {},
         NEW x, Known(x, src, d, version), IsCheck(x.stmt.op)
  PROVE  version >= 12
<1>1. NewlyNotNull(src, d) # {}
  BY DEF Known, KnownColumn, BecomesNotNull
<1>2. ~(version < 12)
  BY <1>1, NoWarning
<1> QED
  BY <1>2

\* One of the steps S is of that kind and names column y.
HasStep(S, op, y) == \E x \in S : x.stmt.op = op /\ Names(x.stmt, y)

LEMMA NamedStep ==
  ASSUME NEW f, NEW at, NEW op, NEW y, NEW S, Step(f, at, Named(op, y.table, y.name)) \in S
  PROVE  HasStep(S, op, y)
<1> PICK x : x = Step(f, at, Named(op, y.table, y.name))
  OBVIOUS
<1>1. x.stmt.op = op /\ x.stmt.table = y.table /\ x.stmt.name = y.name
  BY DEF Step, Named
<1> QED
  BY <1>1 DEF HasStep, Names

LEMMA NewlyNotNullSteps ==
  ASSUME NEW src, NEW d, NEW drop, NEW version \in Nat, version >= 12, NEW y \in NewlyNotNull(src, d)
  PROVE  /\ HasStep(Migration(src, d, drop, version), "validate check", y)
         /\ HasStep(Migration(src, d, drop, version), "set not null", y)
<1> PICK f : f = <<3>> \o y.table \o <<2>>
  OBVIOUS
<1>1. /\ Step(f, <<y.name, 1>>, Named("validate check", y.table, y.name)) \in ValidateNotNullSteps(src, d, version)
      /\ Step(f, <<y.name, 2>>, Named("set not null", y.table, y.name)) \in ValidateNotNullSteps(src, d, version)
  <2>1. ~(version < 12)
    OBVIOUS
  <2> QED
    BY <2>1 DEF ValidateNotNullSteps, NewlyNotNull
<1>2. ValidateNotNullSteps(src, d, version) \subseteq Migration(src, d, drop, version)
  BY DEF Migration
<1>3. /\ Step(f, <<y.name, 1>>, Named("validate check", y.table, y.name)) \in Migration(src, d, drop, version)
      /\ Step(f, <<y.name, 2>>, Named("set not null", y.table, y.name)) \in Migration(src, d, drop, version)
  BY <1>1, <1>2
<1> QED
  BY <1>3, NamedStep

LEMMA ColumnsDueStart ==
  ASSUME NEW src, NEW d, NEW drop, NEW version
  PROVE  ColumnsDue(src, Migration(src, d, drop, version), src, d)
<1> SUFFICES ASSUME NEW y \in d.columns, y.table \in src.tables, \A c \in src.columns : ~Same(c, y)
             PROVE  \E x \in Migration(src, d, drop, version) : x.stmt.op = "add column" /\ Same(x.stmt.object, y)
  BY DEF ColumnsDue
<1>1. y \in AddColumns(src, d)
  BY DEF AddColumns, Gone, Same
<1> PICK x : x = Step(<<3>> \o y.table \o <<1>>, <<4, y.name>>, With("add column", y.table, y))
  OBVIOUS
<1>2. x \in AlterTableSteps(src, d, drop, version)
  BY <1>1 DEF AlterTableSteps
<1>3. x.stmt.op = "add column" /\ x.stmt.object = y
  BY DEF Step, With
<1> QED
  BY <1>2, <1>3 DEF Migration, Same

LEMMA DueStart ==
  ASSUME NEW src, Whole(src), NEW d, Whole(d), NEW drop, NEW version \in Nat,
         Warnings(src, d, version) = {}, NEW S, S = Migration(src, d, drop, version)
  PROVE  Due(src, S, src, d)
<1>1. TypesDue(src, S, src)
  BY DEF TypesDue, Same
<1>2. NotNullDue(S, src, d)
  <2> SUFFICES ASSUME NEW c \in src.columns, NEW y \in d.columns,
                      Same(c, y), ~c.notNull, y.notNull, ~IsPrimaryKey(d, y)
               PROVE  \E x \in S : x.stmt.op = "set not null" /\ Names(x.stmt, y)
    BY DEF NotNullDue
  <2>1. <<c, y>> \in AlterColumns(src, d)
    BY DEF AlterColumns, Pairs, ColumnsAreDifferent, Same
  <2>2. y \in NewlyNotNull(src, d)
    BY <2>1, NewlyNotNullPair
  <2>3. ~(version < 12)
    BY <2>2, NoWarning
  <2>4. version >= 12
    BY <2>3
  <2>5. HasStep(S, "set not null", y)
    BY <2>2, <2>4, NewlyNotNullSteps
  <2> QED
    BY <2>5 DEF HasStep
<1>3. ColumnsDue(src, S, src, d)
  BY ColumnsDueStart
<1>4. ChecksDue(S, src)
  <2> SUFFICES ASSUME NEW x \in S, x.stmt.op = "set not null"
               PROVE  \E v \in S : v.stmt.op = "validate check" /\ CheckOf(v.stmt) = CheckOf(x.stmt)
    BY DEF ChecksDue
  <2>1. Known(x, src, d, version) /\ IsCheck(x.stmt.op)
    BY MigrationKnown DEF IsCheck
  <2>2. version >= 12
    BY <2>1, ChecksFrom12
  <2>3. PICK y \in NewlyNotNull(src, d) : y.table = x.stmt.table /\ y.name = x.stmt.name
    BY <2>1 DEF Known, KnownColumn, BecomesNotNull
  <2>4. HasStep(S, "validate check", y)
    BY <2>2, <2>3, NewlyNotNullSteps
  <2> QED
    BY <2>3, <2>4 DEF HasStep, Names, CheckOf
<1> QED
  BY <1>1, <1>2, <1>3, <1>4 DEF Due

-----------------------------------------------------------------------------
(* What reads a table through                                              *)

LEMMA NoShorter ==
  ASSUME NEW n \in Nat, NEW m \in Nat, m \notin 1 .. n - 1, m # 0, n # 0
  PROVE  n \in 1 .. m
OBVIOUS

LEMMA SafeStorage ==
  ASSUME NEW x, NEW y, x.arg1 \in Nat, y.arg1 \in Nat, ~UnsafeType(x, y), KeepsLimits(x, y)
  PROVE  SameStorage(x, y)
<1> PICK n : n = x.arg1
  OBVIOUS
<1> PICK m : m = y.arg1
  OBVIOUS
<1> PICK shorter : shorter = (m \in 1 .. n - 1)
  OBVIOUS
<1> PICK fits : fits = (n \in 1 .. m)
  OBVIOUS
<1>1. ~shorter /\ m # 0 /\ n # 0 => fits
  BY NoShorter
<1>2. CASE <<x.base, y.base>> \in {<<"CIDR", "INET">>, <<"VARCHAR", "TEXT">>}
  BY <1>2 DEF SameStorage
<1>3. CASE <<x.base, y.base>> = <<"TEXT", "VARCHAR">>
  BY <1>3 DEF UnsafeType, SameStorage
<1>4. CASE <<x.base, y.base>> = <<"VARCHAR", "VARCHAR">>
  BY <1>1, <1>4 DEF UnsafeType, SameStorage, KeepsLimits
<1>5. CASE <<x.base, y.base>> = <<"NUMERIC", "NUMERIC">>
  BY <1>1, <1>5 DEF UnsafeType, SameStorage, KeepsLimits
<1>6. CASE <<x.base, y.base>> \notin {<<"CIDR", "INET">>, <<"VARCHAR", "TEXT">>, <<"TEXT", "VARCHAR">>,
                                      <<"VARCHAR", "VARCHAR">>, <<"NUMERIC", "NUMERIC">>}
  BY <1>6 DEF UnsafeType
<1> QED
  BY <1>2, <1>3, <1>4, <1>5, <1>6

\* What is in file 3 of a table comes after what is in an earlier part of it.
LEMMA PartsInOrder ==
  ASSUME NEW t \in Nat \X Nat, NEW l \in Nat, NEW m \in Nat, l < m,
         NEW f, PartOf(f, 3, t, m), NEW g, PartOf(g, 3, t, l)
  PROVE  f # g /\ ~Less(f, g)
<1>1. /\ f[1] = 3 /\ f[2] = t[1] /\ f[3] = t[2] /\ f[4] = m
      /\ g[1] = 3 /\ g[2] = t[1] /\ g[3] = t[2] /\ g[4] = l
  BY DEF PartOf
<1>2. f # g
  BY <1>1
<1>3. t[1] \in Nat /\ t[2] \in Nat
  OBVIOUS
<1>4. \A v \in Nat : ~(v < v)
  OBVIOUS
<1>5. ~(f[1] < g[1]) /\ ~(f[2] < g[2]) /\ ~(f[3] < g[3]) /\ ~(f[4] < g[4]) /\ f[4] # g[4]
  BY <1>1, <1>3, <1>4
<1>6. DOMAIN f \subseteq 1 .. 6 /\ 4 \in DOMAIN f
  BY DEF PartOf
<1>7. \A i \in 1 .. 6 : i = 1 \/ i = 2 \/ i = 3 \/ i = 4 \/ 4 < i
  OBVIOUS
<1>8. ASSUME NEW i \in DOMAIN f, f[i] < g[i], \A j \in DOMAIN f : j < i => f[j] = g[j]
      PROVE  FALSE
  <2>1. i = 1 \/ i = 2 \/ i = 3 \/ i = 4 \/ 4 < i
    BY <1>6, <1>7
  <2>2. 4 < i
    BY <1>5, <1>8, <2>1
  <2> QED
    BY <1>5, <1>6, <1>8, <2>2
<1> QED
  BY <1>2, <1>8 DEF Less

LEMMA PartBefore ==
  ASSUME NEW t \in Nat \X Nat, NEW l \in Nat, NEW m \in Nat, l < m,
         NEW x, PartOf(x.file, 3, t, m), NEW y, PartOf(y.file, 3, t, l)
  PROVE  ~Before(x, y)
BY PartsInOrder DEF Before

\* The column that a statement finds by its name.
LEMMA ColumnIsThere ==
  ASSUME NEW w, Whole(w), NEW t, NEW n, NEW c \in w.columns, c.table = t, c.name = n
  PROVE  TheColumn(w, t, n) = c
<1>1. \A x \in w.columns : x.table = t /\ x.name = n => x = c
  BY DEF Whole, Same
<1> QED
  BY <1>1 DEF TheColumn

\* The column of an ALTER TYPE is there, and stored like its new type.
LEMMA TypeIsStoredAlike ==
  ASSUME NEW src, Fair(src), NEW d, Whole(d), LimitsAreKept(d), NEW version,
         Warnings(src, d, version) = {},
         NEW w, Whole(w), NEW S, TypesDue(src, S, w),
         NEW x \in S, Known(x, src, d, version), OfType(x.stmt), ~Refused(w, x.stmt)
  PROVE  SameStorage(TheColumn(w, x.stmt.table, x.stmt.name).type, x.stmt.object.type)
<1> PICK s : s = x.stmt
  OBVIOUS
<1>1. s.name \in ColumnNames(w, s.table)
  BY DEF Refused, Missing, OfType
<1>2. PICK c \in w.columns : c.table = s.table /\ c.name = s.name
  BY <1>1 DEF ColumnNames
<1>3. TheColumn(w, s.table, s.name) = c
  BY <1>2, ColumnIsThere
<1>4. PICK z \in src.columns : Same(z, c) /\ z.type = c.type
  BY <1>2 DEF TypesDue, Names
<1>5. OfColumn(s, d) /\ \E u \in src.columns : Same(u, s.object) /\ u.type # s.object.type
  BY DEF Known, KnownColumn, OfType
<1> PICK y : y = s.object
  OBVIOUS
<1>6. y \in d.columns /\ Same(z, y) /\ Same(c, y)
  BY <1>2, <1>4, <1>5 DEF OfColumn, Same
<1>7. z.type # y.type
  BY <1>4, <1>5, <1>6 DEF Same, Fair, Whole
<1>8. <<z, y>> \in AlterColumns(src, d)
  BY <1>6, <1>7 DEF AlterColumns, Pairs, ColumnsAreDifferent, Same
<1>9. ~UnsafeType(z.type, y.type)
  <2> PICK p : p = <<z, y>>
    OBVIOUS
  <2>1. p \in AlterColumns(src, d) /\ p[1] = z /\ p[2] = y
    BY <1>8
  <2> QED
    BY <1>7, <2>1, NoWarning
<1>10. KeepsLimits(z.type, y.type)
  <2>1. PICK u \in AnyColumn : Same(u, z) /\ u.type = z.type
    BY DEF Fair, FairColumn
  <2>2. Same(u, y)
    BY <1>6, <2>1 DEF Same
  <2> QED
    BY <1>6, <2>1, <2>2 DEF LimitsAreKept
<1>11. z.type.arg1 \in Nat /\ y.type.arg1 \in Nat
  BY <1>6 DEF Fair, Whole, IsColumn
<1> QED
  BY <1>3, <1>4, <1>9, <1>10, <1>11, SafeStorage

\* A check is there when a column is made NOT NULL.
LEMMA CheckIsThere ==
  ASSUME NEW src, NEW d, Whole(d), NEW version \in Nat,
         NEW w, NEW S, \A z \in S : Known(z, src, d, version),
         \A z \in S : IsCheck(z.stmt.op) => version >= 12,
         ChecksDue(S, w), NEW x \in S, x.stmt.op = "set not null",
         \A z \in S : x = z \/ Before(x, z)
  PROVE  CheckOf(x.stmt) \in w.checks
<1> SUFFICES ASSUME NEW v \in S, v.stmt.op = "validate check", CheckOf(v.stmt) = CheckOf(x.stmt)
             PROVE  FALSE
  BY DEF ChecksDue
<1>1. Turn(v.stmt.op) <= Turn(x.stmt.op)
  BY TurnOrder DEF InOrder
<1>2. IsCheck(v.stmt.op) /\ IsCheck(x.stmt.op)
  BY DEF IsCheck
<1>3. version >= 12
  BY <1>2
<1>4. ~Before(x, v)
  BY <1>1, <1>2, <1>3, InTurn
<1>5. x # v
  OBVIOUS
<1> QED
  BY <1>4, <1>5

\* The files of a table in which its columns are altered, become NOT NULL, and a key is added.
ColumnsFile(t) == <<3>> \o t \o <<1>>
ChecksFile(t) == <<3>> \o t \o <<2>>
KeyFile(t, n) == <<3>> \o t \o <<4, n, 2>>

LEMMA TheFiles ==
  ASSUME NEW t \in Nat \X Nat, NEW n
  PROVE  PartOf(ColumnsFile(t), 3, t, 1) /\ PartOf(ChecksFile(t), 3, t, 2) /\ PartOf(KeyFile(t, n), 3, t, 4)
<1>1. PartOf(ColumnsFile(t), 3, t, 1)
  BY Files DEF ColumnsFile
<1>2. PartOf(ChecksFile(t), 3, t, 2)
  BY Files DEF ChecksFile
<1>3. PartOf(KeyFile(t, n), 3, t, 4)
  BY Files DEF KeyFile
<1> QED
  BY <1>1, <1>2, <1>3

LEMMA KeyAfterColumns ==
  ASSUME NEW t \in Nat \X Nat, NEW n, NEW x, x.file = KeyFile(t, n),
         NEW y, y.file = ColumnsFile(t) \/ y.file = ChecksFile(t)
  PROVE  ~Before(x, y)
<1>1. PartOf(x.file, 3, t, 4)
  BY TheFiles
<1>2. CASE y.file = ColumnsFile(t)
  <2>1. PartOf(y.file, 3, t, 1)
    BY <1>2, TheFiles
  <2> QED
    BY <1>1, <2>1, PartBefore
<1>3. CASE y.file = ChecksFile(t)
  <2>1. PartOf(y.file, 3, t, 2)
    BY <1>3, TheFiles
  <2> QED
    BY <1>1, <2>1, PartBefore
<1> QED
  BY <1>2, <1>3

\* The files of the steps on a column.
LEMMA ColumnFiles ==
  ASSUME NEW src, NEW d, NEW version, NEW z, Known(z, src, d, version)
  PROVE  /\ z.stmt.op = "add column" => z.file = ColumnsFile(z.stmt.table) /\ z.stmt.table = z.stmt.object.table
         /\ IsCheck(z.stmt.op) /\ version >= 12 => z.file = ChecksFile(z.stmt.table)
BY DEF Known, KnownColumn, OfColumn, ColumnsFile, ChecksFile

\* Step x adds key k.
AddsKey(x, k, src) ==
  /\ x.stmt.table = k.table /\ k.table \in src.tables
  /\ x.stmt.object.type = k.type /\ x.stmt.object.columns = k.columns
  /\ \A y : y.file = ColumnsFile(k.table) \/ y.file = ChecksFile(k.table) => ~Before(x, y)

LEMMA AddKeyOf ==
  ASSUME NEW src, NEW d, Whole(d), NEW version, NEW x, Known(x, src, d, version), x.stmt.op = "add key"
  PROVE  \E k \in Keys(d) : AddsKey(x, k, src)
<1>1. PICK k \in Keys(d) : /\ x.stmt.table = k.table /\ k.table \in src.tables
                           /\ x.stmt.object.type = k.type /\ x.stmt.object.columns = k.columns
                           /\ x.file = KeyFile(k.table, k.name)
  BY DEF Known, KnownKey, KeyFile
<1>2. k.table \in Nat \X Nat
  BY DEF Keys, Whole, IsRef
<1>3. \A y : y.file = ColumnsFile(k.table) \/ y.file = ChecksFile(k.table) => ~Before(x, y)
  BY <1>1, <1>2, KeyAfterColumns
<1> QED
  BY <1>1, <1>2, <1>3 DEF AddsKey

\* The columns of a primary key are NOT NULL when the key is added.
LEMMA KeyColumn ==
  ASSUME NEW src, NEW d, KeysAreNotNull(d), Whole(d), NEW version \in Nat,
         NEW w, Fair(w), NEW S, \A z \in S : Known(z, src, d, version),
         \A z \in S : IsCheck(z.stmt.op) => version >= 12,
         ColumnsDue(src, S, w, d), NotNullDue(S, w, d),
         NEW x \in S, \A z \in S : x = z \/ Before(x, z),
         x.stmt.op = "add key", x.stmt.object.type = PRIMARY_KEY, NEW n \in x.stmt.object.columns
  PROVE  TheColumn(w, x.stmt.table, n).notNull
<1>1. PICK k \in Keys(d) : AddsKey(x, k, src)
  BY AddKeyOf
<1> PICK t : t = k.table
  OBVIOUS
<1>2. PICK y \in d.columns : y.table = t /\ y.name = n /\ y.notNull /\ (k.columns = {n} => ~NullableSomewhere(y))
  BY <1>1 DEF KeysAreNotNull, AddsKey
<1>3. \A z \in S : z.stmt.op # "add key" => z.file # ColumnsFile(t) /\ z.file # ChecksFile(t)
  BY <1>1 DEF AddsKey
<1>4. PICK c \in w.columns : Same(c, y)
  <2>1. SUFFICES ASSUME NEW z \in S, z.stmt.op = "add column", Same(z.stmt.object, y)
                 PROVE  FALSE
    BY <1>1, <1>2 DEF ColumnsDue, AddsKey
  <2>2. z.file = ColumnsFile(t)
    BY <1>2, <2>1, ColumnFiles DEF Same
  <2> QED
    BY <1>3, <2>1, <2>2
<1>5. TheColumn(w, t, n) = c
  <2>1. Whole(w) /\ c.table = t /\ c.name = n
    BY <1>2, <1>4 DEF Fair, Same
  <2> QED
    BY <2>1, ColumnIsThere
<1>6. c.notNull
  <2>1. SUFFICES ASSUME ~c.notNull
                 PROVE  FALSE
    OBVIOUS
  <2>2. NullableSomewhere(y)
    <3>1. PICK u \in AnyColumn : Same(u, c) /\ ~u.notNull
      BY <2>1 DEF Fair, FairColumn
    <3> QED
      BY <1>4, <3>1 DEF NullableSomewhere, Same
  <2>3. ~IsPrimaryKey(d, y)
    <3>1. SUFFICES ASSUME NEW l \in Keys(d), l.type = PRIMARY_KEY, l.table = y.table, l.columns = {y.name}
                   PROVE  FALSE
      BY DEF IsPrimaryKey
    <3>2. PICK u \in d.columns : u.table = l.table /\ u.name = y.name /\ ~NullableSomewhere(u)
      BY <3>1 DEF KeysAreNotNull
    <3>3. u = y
      BY <3>1, <3>2 DEF Whole, Same
    <3> QED
      BY <2>2, <3>2, <3>3
  <2>4. PICK z \in S : z.stmt.op = "set not null" /\ Names(z.stmt, y)
    BY <1>2, <1>4, <2>1, <2>3 DEF NotNullDue
  <2>5. IsCheck(z.stmt.op) /\ z.stmt.table = t
    BY <1>2, <2>4 DEF IsCheck, Names
  <2>6. z.file = ChecksFile(t)
    BY <2>5, ColumnFiles
  <2> QED
    BY <1>3, <2>4, <2>6
<1> QED
  BY <1>1, <1>5, <1>6 DEF AddsKey

-----------------------------------------------------------------------------
(* The steps                                                               *)

\* The steps are of the migration of database src, of which no warning was accepted.
Planned(src) ==
  /\ Fair(src) /\ dest \in Declared
  /\ \A x \in todo \cup ran : Known(x, src, dest, Version)
  /\ "accept-warnings" \notin flags =>
       /\ Warnings(src, dest, Version) = {}
       /\ Due(src, todo, work, dest)
       /\ \A y \in ran, x \in todo : Before(y, x)

\* The inductive invariant.
Online == Fair(db) /\ Fair(work) /\ (todo \cup ran # {} => \E src : Planned(src))

LEMMA InitOnline ==
  ASSUME CatalogsAreWhole, Init
  PROVE  Online
<1>1. Fair(db) /\ work = db
  BY CatalogIsFair DEF CatalogsAreWhole, Init
<1> QED
  BY <1>1 DEF Init, Online

LEMMA RunOnline ==
  ASSUME CatalogsAreWhole, Inv, Online, NEW d \in Declared, NEW f \in Flags, Run(d, f)
  PROVE  Online'
<1> PICK drop : drop = ("drop-objects" \in f)
  OBVIOUS
<1> PICK plan : plan = Migration(db, d, drop, Version)
  OBVIOUS
<1>1. /\ db' = db /\ work' = work /\ ran' = ran /\ dest' = d /\ flags' = f
      /\ ran = {} /\ work = db
  BY DEF Run, Inv
<1>2. todo' = {} \/ (todo' = plan /\ plan # {} /\ ("accept-warnings" \notin f => Warnings(db, d, Version) = {}))
  BY DEF Run
<1>3. Fair(db) /\ Whole(db) /\ Whole(d) /\ Version \in Nat
  BY AutomigrateAssumption DEF Online, Fair, CatalogsAreWhole
<1>4. ASSUME todo' # {}
      PROVE  Planned(db)'
  <2>1. \A x \in plan : Known(x, db, d, Version)
    BY <1>3, MigrationKnown
  <2>2. Warnings(db, d, Version) = {} => Due(db, plan, db, d)
    BY <1>3, DueStart
  <2>3. /\ todo' = plan /\ todo' \cup ran' = plan
        /\ "accept-warnings" \notin f => Warnings(db, d, Version) = {}
    BY <1>1, <1>2, <1>4
  <2>4. (\A x \in todo \cup ran : Known(x, db, dest, Version))'
    BY <1>1, <2>1, <2>3
  <2> QED
    BY <1>1, <1>3, <2>2, <2>3, <2>4 DEF Planned
<1>5. ASSUME todo' # {}
      PROVE  (\E src : Planned(src))'
  BY <1>4, <1>5
<1> QED
  BY <1>1, <1>5 DEF Online

\* What is known of a step that comes next.
LEMMA NextStep ==
  ASSUME CatalogsAreWhole, Inv, Online, NEW x \in todo, Next1(x)
  PROVE  \E src : /\ Planned(src) /\ Whole(src) /\ Whole(dest) /\ Fair(work) /\ Whole(work)
                  /\ Known(x, src, dest, Version) /\ Fits(x.stmt)
                  /\ \A y \in todo : x = y \/ Before(x, y)
<1>1. PICK src : Planned(src)
  BY DEF Online
<1>2. Fits(x.stmt)
  BY DEF Inv, Keeps, Allowed
<1> QED
  BY <1>1, <1>2 DEF Planned, Online, Fair, CatalogsAreWhole, Next1

LEMMA DueKept ==
  ASSUME NEW src, Whole(src), NEW d, Whole(d), NEW version \in Nat, Warnings(src, d, version) = {},
         NEW w, Whole(w), NEW e, NEW S, NEW x \in S, \A z \in S : Known(z, src, d, version),
         \A z \in S : x = z \/ Before(x, z),
         ~Refused(w, x.stmt), Becomes(w, e, x.stmt), Due(src, S, w, d)
  PROVE  Due(src, S \ {x}, e, d)
<1>1. \A z \in S : IsCheck(z.stmt.op) => version >= 12
  BY ChecksFrom12
<1>2. TypesDue(src, S \ {x}, e)
  BY TypesDueKept DEF Due
<1>3. NotNullDue(S \ {x}, e, d)
  BY NotNullDueKept DEF Due
<1>4. ColumnsDue(src, S \ {x}, e, d)
  BY ColumnsDueKept DEF Due
<1>5. ChecksDue(S \ {x}, e)
  BY <1>1, ChecksDueKept DEF Due
<1> QED
  BY <1>2, <1>3, <1>4, <1>5 DEF Due

LEMMA ExecuteOnline ==
  ASSUME CatalogsAreWhole, Inv, Online, NEW x \in todo, Execute(x)
  PROVE  Online'
<1>1. /\ Next1(x) /\ ~Refused(work, x.stmt)
      /\ work' = Effect(work, x.stmt) /\ todo' = todo \ {x} /\ ran' = ran \cup {x}
      /\ db' = db /\ dest' = dest /\ flags' = flags
  BY DEF Execute
<1>2. PICK src : /\ Planned(src) /\ Whole(src) /\ Whole(dest) /\ Fair(work) /\ Whole(work)
                 /\ Known(x, src, dest, Version) /\ Fits(x.stmt)
                 /\ \A y \in todo : x = y \/ Before(x, y)
  BY <1>1, NextStep
<1> PICK e : e = Effect(work, x.stmt)
  OBVIOUS
<1>3. KnownTable(x.stmt, src, dest) /\ KnownColumn(x.file, x.at, x.stmt, src, dest, Version) /\ KnownKey(x.file, x.stmt, src, dest)
  BY <1>2 DEF Known
<1>4. Becomes(work, e, x.stmt)
  BY <1>1, <1>2, <1>3, StatementBecomes
<1>5. Fair(e)
  BY <1>1, <1>2, <1>3, <1>4, StatementFair DEF Planned
<1>6. todo' \cup ran' = todo \cup ran
  BY <1>1
<1>7. "accept-warnings" \notin flags => Due(src, todo \ {x}, e, dest)
  BY <1>1, <1>2, <1>4, DueKept, AutomigrateAssumption DEF Planned
<1>8. "accept-warnings" \notin flags => \A y \in ran \cup {x}, z \in todo \ {x} : Before(y, z)
  BY <1>2 DEF Planned
<1>9. Planned(src)'
  <2>1. (\A y \in todo \cup ran : Known(y, src, dest, Version))'
    BY <1>1, <1>2, <1>6 DEF Planned
  <2> QED
    BY <1>1, <1>2, <1>7, <1>8, <2>1 DEF Planned
<1>10. (\E c : Planned(c))'
  BY <1>9
<1> QED
  BY <1>1, <1>5, <1>10 DEF Online

LEMMA CommitOnline ==
  ASSUME Online, Commit
  PROVE  Online'
<1>1. /\ db' = work /\ ran' = {}
      /\ UNCHANGED <<work, dest, flags, todo>>
  BY DEF Commit
<1>2. ASSUME todo # {}
      PROVE  (\E src : Planned(src))'
  <2>1. PICK src : Planned(src)
    BY <1>2 DEF Online
  <2>2. Planned(src)'
    BY <1>1, <2>1 DEF Planned
  <2> QED
    BY <2>2
<1> QED
  BY <1>1, <1>2 DEF Online

LEMMA StopOnline ==
  ASSUME NEW why, NEW left, Fair(left), Stop(why, left)
  PROVE  Online'
<1>1. db' = left /\ work' = left /\ todo' = {} /\ ran' = {}
  BY DEF Stop
<1> QED
  BY <1>1 DEF Online

LEMMA CreateIndexEffect ==
  ASSUME NEW c, NEW s, s.op = "create index"
  PROVE  Effect(c, s) = [c EXCEPT !.indexes = @ \cup {s.object}]
<1>1. Effect(c, s) = EffectOnTables(c, s)
  BY DEF Effect, TableStatements, ConstraintStatements
<1> QED
  BY <1>1 DEF EffectOnTables

\* An index that is left changes no column.
LEMMA RemainsFair ==
  ASSUME Inv, Online, NEW x \in todo, NEW left \in Remains(x)
  PROVE  Fair(left)
<1>1. CASE left = db
  BY <1>1 DEF Online
<1>2. CASE left # db
  <2> DEFINE s == [x.stmt EXCEPT !.object.valid = FALSE]
  <2>1. left = Effect(db, s) /\ x.stmt.op = "create index"
    BY <1>2 DEF Remains
  <2>2. s.op = "create index"
    <3>1. "op" \in DOMAIN x.stmt
      BY DEF Inv, Keeps, Allowed, Fits
    <3> QED
      BY <2>1, <3>1
  <2>3. left = [db EXCEPT !.indexes = @ \cup {s.object}]
    <3> HIDE DEF s
    <3> QED
      BY <2>1, <2>2, CreateIndexEffect
  <2>4. IsCatalog(db)
    BY DEF Inv
  <2>5. /\ IsCatalog(left) /\ left.tables = db.tables /\ left.columns = db.columns
        /\ left.constraints = db.constraints
    BY <2>3, <2>4 DEF IsCatalog
  <2> QED
    BY <2>5 DEF Online, Fair, Whole
<1> QED
  BY <1>1, <1>2

LEMMA NextOnline ==
  ASSUME CatalogsAreWhole, Inv, Online, [Next]_vars
  PROVE  Online'
<1>1. ASSUME NEW d \in Declared, NEW f \in Flags, Run(d, f)
      PROVE  Online'
  BY <1>1, RunOnline
<1>2. ASSUME Finish
      PROVE  Online'
  BY <1>2 DEF Finish, Online
<1>3. ASSUME NEW x \in todo, Refuse(x)
      PROVE  Online'
  <2>1. Stop("refused", db) /\ Fair(db)
    BY <1>3 DEF Refuse, Online
  <2> QED
    BY <2>1, StopOnline
<1>4. ASSUME NEW x \in todo, FailOnRows(x)
      PROVE  Online'
  BY <1>4, RemainsFair, StopOnline DEF FailOnRows
<1>5. ASSUME Interrupt
      PROVE  Online'
  <2>1. ASSUME Stop("failed", db)
        PROVE  Online'
    BY <2>1, StopOnline DEF Online
  <2>2. ASSUME NEW x \in todo, NEW left \in Remains(x), Stop("failed", left)
        PROVE  Online'
    BY <2>2, RemainsFair, StopOnline
  <2> QED
    BY <1>5, <2>1, <2>2 DEF Interrupt
<1>6. ASSUME UNCHANGED vars
      PROVE  Online'
  <2>1. /\ todo' = todo /\ ran' = ran /\ db' = db /\ work' = work /\ dest' = dest /\ flags' = flags
    BY <1>6 DEF vars
  <2>2. \A src : Planned(src) => Planned(src)'
    BY <2>1 DEF Planned
  <2> QED
    BY <2>1, <2>2 DEF Online
<1> QED
  BY <1>1, <1>2, <1>3, <1>4, <1>5, <1>6, ExecuteOnline, CommitOnline DEF Next, Migrating

\* In a file in which checks are validated the other steps on the table are of the column.
LEMMA OneColumn ==
  ASSUME NEW src, Fair(src), NEW d, OneNotNull(d), NEW version,
         NEW x, NEW y, Known(x, src, d, version), Known(y, src, d, version),
         IsCheck(x.stmt.op), IsCheck(y.stmt.op), x.stmt.table = y.stmt.table
  PROVE  CheckOf(x.stmt) = CheckOf(y.stmt)
<1>1. \A u \in NewlyNotNull(src, d) : u \in d.columns /\ u.notNull /\ NullableSomewhere(u)
  <2> TAKE u \in NewlyNotNull(src, d)
  <2>1. PICK z \in src.columns : u \in d.columns /\ u.notNull /\ Same(z, u) /\ ~z.notNull
    BY DEF NewlyNotNull, AlterColumns, Pairs, Same
  <2>2. PICK v \in AnyColumn : Same(v, z) /\ ~v.notNull
    BY <2>1 DEF Fair, FairColumn
  <2> QED
    BY <2>1, <2>2 DEF NullableSomewhere, Same
<1>2. PICK u \in NewlyNotNull(src, d) : u.table = x.stmt.table /\ u.name = x.stmt.name
  BY DEF Known, KnownColumn, BecomesNotNull
<1>3. PICK v \in NewlyNotNull(src, d) : v.table = y.stmt.table /\ v.name = y.stmt.name
  BY DEF Known, KnownColumn, BecomesNotNull
<1>4. u = v
  BY <1>1, <1>2, <1>3 DEF OneNotNull
<1> QED
  BY <1>2, <1>3, <1>4 DEF CheckOf

\* A step that shares the file of VALIDATE CONSTRAINT does not lock.
LEMMA ValidateConstraintFile ==
  ASSUME NEW x, NEW y, x.file = y.file, KnownFile(x.file, x.stmt), KnownFile(y.file, y.stmt),
         x.stmt.op = "validate constraint"
  PROVE  ~Locks(x.stmt) /\ ~Locks(y.stmt)
<1>1. y.stmt.op = "validate constraint"
  BY DEF KnownFile
<1> QED
  BY <1>1 DEF Locks

\* The file of VALIDATE CHECK is one of checks.
LEMMA CheckFile ==
  ASSUME NEW src, NEW d, Whole(d), NEW version \in Nat, version >= 12,
         NEW x, Known(x, src, d, version), IsCheck(x.stmt.op),
         NEW y, Known(y, src, d, version), x.file = y.file
  PROVE  IsCheck(y.stmt.op)
<1>1. x.stmt.table \in Nat \X Nat
  <2>1. \E z \in d.columns : z.table = x.stmt.table
    BY DEF Known, KnownColumn, BecomesNotNull, NewlyNotNull, AlterColumns, Pairs
  <2> QED
    BY <2>1 DEF Whole, IsColumn
<1>2. x.file = ChecksFile(x.stmt.table)
  BY ColumnFiles
<1>3. PartOf(x.file, 3, x.stmt.table, 2)
  BY <1>1, <1>2, TheFiles
<1>4. y.file[1] = 3 /\ y.file[4] = 2
  BY <1>3 DEF PartOf
<1> QED
  BY <1>4 DEF Known, KnownFile

\* VALIDATE CHECK comes first of the steps on its table in its file.
LEMMA ValidateCheckFile ==
  ASSUME NEW src, Fair(src), NEW d, Whole(d), OneNotNull(d), NEW version \in Nat, version >= 12,
         NEW x, Known(x, src, d, version), IsCheck(x.stmt.op),
         NEW y, Known(y, src, d, version), x.file = y.file, y.stmt.table = x.stmt.table, Before(y, x)
  PROVE  x.stmt.op # "validate check"
<1>1. IsCheck(y.stmt.op)
  BY CheckFile
<1>2. CheckOf(x.stmt) = CheckOf(y.stmt)
  BY <1>1, OneColumn
<1>3. ~(Turn(x.stmt.op) <= Turn(y.stmt.op))
  BY <1>1, <1>2, InTurn
<1> QED
  BY <1>3, TurnOrder DEF InOrder

\* A statement that reads its table through validates something, or is warned of.
LEMMA ScansAre ==
  ASSUME NEW w, NEW s, Scans(w, s)
  PROVE  \/ s.op \in {"validate check", "validate constraint"}
         \/ OfType(s) /\ ~SameStorage(TheColumn(w, s.table, s.name).type, s.object.type)
         \/ s.op = "set not null" /\ CheckOf(s) \notin w.checks
         \/ s.op = "add key" /\ s.object.type = PRIMARY_KEY
            /\ \E n \in s.object.columns : ~TheColumn(w, s.table, n).notNull
BY DEF Scans, OfType, CheckOf

\* A step of a migration without warnings that reads a table through does not lock it, and
\* nothing in its transaction did before.
LEMMA ScanDoesNotLock ==
  ASSUME NEW src, Fair(src), NEW d, Whole(d), KeysAreNotNull(d), OneNotNull(d), LimitsAreKept(d),
         NEW version \in Nat, Warnings(src, d, version) = {},
         NEW w, Fair(w), NEW S, NEW R, \A z \in S \cup R : Known(z, src, d, version), Due(src, S, w, d),
         NEW x \in S, \A z \in S : x = z \/ Before(x, z), ~Refused(w, x.stmt), Scans(w, x.stmt),
         \A y \in R : y.file = x.file /\ Before(y, x)
  PROVE  ~Locks(x.stmt) /\ \A y \in R : y.stmt.table = x.stmt.table => ~Locks(y.stmt)
<1>1. Whole(w) /\ Whole(src) /\ Known(x, src, d, version)
  BY DEF Fair
<1>2. \A z \in S : Known(z, src, d, version) /\ (IsCheck(z.stmt.op) => version >= 12)
  BY ChecksFrom12
<1>3. CASE x.stmt.op = "validate check"
  <2>1. version >= 12
    BY <1>2, <1>3 DEF IsCheck
  <2>2. \A y \in R : y.stmt.table # x.stmt.table
    <3>1. IsCheck(x.stmt.op)
      BY <1>3 DEF IsCheck
    <3> QED
      BY <1>1, <1>3, <2>1, <3>1, ValidateCheckFile
  <2> QED
    BY <1>3, <2>2 DEF Locks
<1>4. CASE x.stmt.op = "validate constraint"
  <2>1. ~Locks(x.stmt)
    BY <1>4 DEF Locks
  <2>2. \A y \in R : ~Locks(y.stmt)
    BY <1>1, <1>4, ValidateConstraintFile DEF Known
  <2> QED
    BY <2>1, <2>2
<1>5. ~(OfType(x.stmt) /\ ~SameStorage(TheColumn(w, x.stmt.table, x.stmt.name).type, x.stmt.object.type))
  BY <1>1, TypeIsStoredAlike DEF Due
<1>6. ~(x.stmt.op = "set not null" /\ CheckOf(x.stmt) \notin w.checks)
  BY <1>2, CheckIsThere DEF Due
<1>7. ~(x.stmt.op = "add key" /\ x.stmt.object.type = PRIMARY_KEY
        /\ \E n \in x.stmt.object.columns : ~TheColumn(w, x.stmt.table, n).notNull)
  BY <1>2, KeyColumn DEF Due
<1> QED
  BY <1>3, <1>4, <1>5, <1>6, <1>7, ScansAre

LEMMA ExecuteStaysOnline ==
  ASSUME CatalogsAreWhole, CatalogsAreEven, Inv, Online, NEW x \in todo, Execute(x),
         Scans(work, x.stmt), "accept-warnings" \notin flags
  PROVE  ~Locks(x.stmt) /\ \A y \in ran : y.stmt.table = x.stmt.table => ~Locks(y.stmt)
<1>1. Next1(x) /\ ~Refused(work, x.stmt)
  BY DEF Execute
<1>2. PICK src : /\ Planned(src) /\ Whole(src) /\ Whole(dest) /\ Fair(work) /\ Whole(work)
                 /\ Known(x, src, dest, Version) /\ Fits(x.stmt)
                 /\ \A y \in todo : x = y \/ Before(x, y)
  BY <1>1, NextStep
<1>3. /\ Fair(src) /\ Warnings(src, dest, Version) = {} /\ Due(src, todo, work, dest)
      /\ \A z \in todo \cup ran : Known(z, src, dest, Version)
      /\ \A y \in ran : Before(y, x)
      /\ KeysAreNotNull(dest) /\ OneNotNull(dest) /\ LimitsAreKept(dest)
  BY <1>2 DEF Planned, CatalogsAreEven
<1>4. \A y \in ran : y.file = x.file /\ Before(y, x)
  BY <1>1, <1>3 DEF Next1
<1>5. Version \in Nat
  BY AutomigrateAssumption
<1> QED
  BY <1>1, <1>2, <1>3, <1>4, <1>5, ScanDoesNotLock

\* What a step must do to the property StaysOnline.
StepStaysOnline ==
  \A x \in ran' \ ran :
    Scans(work, x.stmt) /\ x.stmt.table \in db.tables /\ "accept-warnings" \notin flags =>
      /\ ~Locks(x.stmt)
      /\ \A y \in ran : y.stmt.table = x.stmt.table => ~Locks(y.stmt)

LEMMA NextStaysOnline ==
  ASSUME CatalogsAreWhole, CatalogsAreEven, Inv, Online, [Next]_vars
  PROVE  StepStaysOnline
<1>1. ASSUME NEW x \in todo, Execute(x)
      PROVE  StepStaysOnline
  <2>1. ran' = ran \cup {x}
    BY <1>1 DEF Execute
  <2> QED
    BY <1>1, <2>1, ExecuteStaysOnline DEF StepStaysOnline
<1>2. ASSUME ran' \subseteq ran
      PROVE  StepStaysOnline
  BY <1>2 DEF StepStaysOnline
<1> QED
  BY <1>1, <1>2 DEF Next, Migrating, Run, Commit, Finish, Refuse, FailOnRows, Interrupt, Stop, vars

\* Without -accept-warnings no table that was there before is read through, or written
\* anew, under a lock, wherever a run stops and whatever the next one finds: for all
\* catalogs in which a table has one column at most that is NOT NULL in one catalog and
\* nullable in another, a primary key of one column is of one that is NOT NULL before, and
\* no VARCHAR or NUMERIC without a limit gets one.
THEOREM AutomigrateStaysOnline ==
  ASSUME CatalogsAreWhole, CatalogsAreEven
  PROVE  Spec => StaysOnline
<1>1. Init => Online
  BY InitOnline
<1>2. Inv /\ Online /\ [Next]_vars => Online'
  BY NextOnline
<1>3. Inv /\ Online /\ [Next]_vars => [StepStaysOnline]_vars
  BY NextStaysOnline
<1> QED
  BY AutomigrateInvariant, <1>1, <1>2, <1>3, PTL DEF Spec, StaysOnline, StepStaysOnline
=============================================================================

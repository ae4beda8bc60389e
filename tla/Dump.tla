--------------------------------- MODULE Dump ---------------------------------
(***************************************************************************)
(* sqddl dump (src/ddl/dump_cmd.go): the scripts of the schema one after   *)
(* the other, then a CSV file per table, from queries that select the      *)
(* whole table or what Subsetter has found.  In a directory every table    *)
(* has its goroutine; an archive is written by one.                        *)
(*                                                                         *)
(* Others may write to the database meanwhile: the queries share no        *)
(* transaction.  What load (module Load) makes of the files is stated in   *)
(* terms of them, since that is what they are for.                         *)
(***************************************************************************)
EXTENDS Subsetter

CONSTANTS
  Schemas,   \* the schemas of a catalog, in its order
  Current,   \* catalog.CurrentSchema
  SchemaOf,  \* of each table
  NameOf,    \* of each table; tables of different schemas may share it
  Content,   \* what the database holds at first: a column for each foreign key
  Picks,     \* the rows that the query of a subset may select
  Kinds,     \* what may be dumped: the flags that matter once the subset is known
  Scripts,   \* number of scripts: schema.json, schema.sql, indexes.sql, constraints.sql
  Faults,    \* what may happen: "error", "break", "write"
  MaxTroubles  \* bound: what others write, and results that break off

ASSUME DumpAssumption ==
  /\ Schemas \in Seq({SchemaOf[t] : t \in Tables})
  /\ \A t \in Tables : \E n \in DOMAIN Schemas : Schemas[n] = SchemaOf[t]
  /\ \A t \in Tables : SchemaOf[t] = "" => Current = ""
  /\ \A t, u \in Tables : SchemaOf[t] = SchemaOf[u] /\ NameOf[t] = NameOf[u] => t = u
  /\ \A s \in Catalogs : DOMAIN s \subseteq DOMAIN Content
  /\ \A i \in DOMAIN Content : Content[i] \in Columns
  /\ Picks \subseteq SUBSET Rows
  /\ Kinds \subseteq [dialect : {"postgres", "mysql", "sqlserver", "sqlite"},
                      container : {"dir", "zip", "tgz"}, only : {"", "schema", "data"}]
  /\ MaxTroubles \in Nat

VARIABLES
  ref,          \* the database: which row each row refers to, by foreign key
  phase,        \* where Run is
  kind,         \* its flags
  selected,     \* the rows that each query of the subset selected
  scripts,      \* number of scripts written
  csv,          \* the CSV files in the output, by name: the rows in them
  gpc,          \* of each table: where dumpCSV is
  result,       \* what Run returns
  troubles      \* how often others have written meanwhile, and results have broken off

dump == <<ref, phase, kind, selected, scripts, csv, gpc, result, troubles>>
allVars == <<vars, dump>>

-----------------------------------------------------------------------------
\* Mutant: the file has the name of the table only.
FileOfName(t) == <<"", NameOf[t]>>

FileOf(t) == <<IF SchemaOf[t] = Current THEN "" ELSE SchemaOf[t], NameOf[t]>>

CsvFiles == {FileOf(t) : t \in Tables}

\* cmd.tableQueries, and what each of them selects: rows, and the rows they refer to.
Queried == IF queries = <<>> THEN Tables ELSE {t \in Tables : saved[t] # {}}

RowsOf(t, rows) == {<<r, [i \in ConstraintsOf({t}) |-> ref[i][r]]>> : r \in rows}

Selects(t) == RowsOf(t, IF queries = <<>> THEN Rows ELSE Dumped(ref, selected, t))

\* A loop dumps one table after the other, until one fails.
Sequential == kind.container # "dir"

Ended == {"done", "failed"}

\* Mutant: the tables after one that fails are waited for.
OverWithoutError == \A t \in Queried : gpc[t] \in Ended

\* The loop has ended, or all goroutines have: they do not look at the context of the group.
Over ==
  \/ \A t \in Queried : gpc[t] \in Ended
  \/ Sequential /\ \E t \in Queried : gpc[t] = "failed"

\* Mutant: the errors of goroutines are lost.
OutcomeLost == "ok"

Outcome == IF \E t \in Queried : gpc[t] = "failed" THEN "failed" ELSE "ok"

NoKind == [dialect |-> "", container |-> "", only |-> ""]

-----------------------------------------------------------------------------
\* An earlier dump of all tables may be there, of when their rows referred to nothing.
StaleRows(t) == {<<r, [i \in ConstraintsOf({t}) |-> Null]>> : r \in Rows}

EarlierFiles == [f \in CsvFiles |-> UNION {StaleRows(t) : t \in {u \in Tables : FileOf(u) = f}}]

InitDump ==
  /\ Init
  /\ ref = [i \in Fkeys |-> Content[i]]
  /\ phase = "subset"
  /\ kind = NoKind
  /\ selected = <<>>
  /\ scripts = 0
  /\ csv = [f \in {} |-> {}]
  /\ gpc = [t \in Tables |-> "idle"]
  /\ result = "none"
  /\ troubles = 0

\* The queries of -subset come before those of -extended-subset.  Each is run, and its rows
\* are kept, before the foreign keys are walked.
Query(t, extended, rows) ==
  /\ phase = "subset"
  /\ extended \/ \A n \in DOMAIN queries : ~queries[n].extended
  /\ Subset(t, extended)
  /\ selected' = Append(selected, rows)
  /\ UNCHANGED <<ref, phase, kind, scripts, csv, gpc, result, troubles>>

WalkOn == phase = "subset" /\ Walk /\ UNCHANGED dump

\* Run returns an error.
Fail ==
  /\ phase' = "returned"
  /\ result' = "failed"

\* The database cannot be introspected, a query of the subset is refused, or the output
\* cannot be made.  The walk itself does not fail.
RunFails ==
  /\ phase = "subset" /\ pc = "idle"
  /\ "error" \in Faults
  /\ Fail
  /\ pc' = "asked"
  /\ UNCHANGED <<catalog, queries, saved, toVisit, visited, joins>>
  /\ UNCHANGED <<ref, kind, selected, scripts, csv, gpc, troubles>>

\* Subsetter's Tables and Query, unless no data is wanted, and the creation of the output:
\* an archive starts empty.
Begin(k) ==
  /\ phase = "subset" /\ pc = "idle"
  /\ k.only = "schema" => queries = <<>>
  /\ pc' = "asked"
  /\ kind' = k
  /\ phase' = IF k.only = "data" THEN "data" ELSE "scripts"
  /\ \/ csv' = [f \in {} |-> {}]
     \/ k.container = "dir" /\ csv' = EarlierFiles
  /\ UNCHANGED <<catalog, queries, saved, toVisit, visited, joins>>
  /\ UNCHANGED <<ref, selected, scripts, gpc, result, troubles>>

WriteScript ==
  /\ phase = "scripts"
  /\ scripts < Scripts
  /\ scripts' = scripts + 1
  /\ UNCHANGED <<vars, ref, phase, kind, selected, csv, gpc, result, troubles>>

ScriptFails ==
  /\ phase = "scripts"
  /\ "error" \in Faults
  /\ Fail
  /\ UNCHANGED <<vars, ref, kind, selected, scripts, csv, gpc, troubles>>

AfterScripts ==
  /\ phase = "scripts"
  /\ scripts = Scripts
  /\ IF kind.only = "schema" THEN phase' = "returned" /\ result' = "ok"
                             ELSE phase' = "data" /\ UNCHANGED result
  /\ UNCHANGED <<vars, ref, kind, selected, scripts, csv, gpc, troubles>>

Holding(f, rows) == csv' = [g \in DOMAIN csv \cup {f} |-> IF g = f THEN rows ELSE csv[g]]

\* The file of a table is created or emptied; that of a .tgz is written in memory first.
Open(t) ==
  /\ phase = "data" /\ t \in Queried /\ gpc[t] = "idle"
  /\ Sequential => \A u \in Queried : gpc[u] \in {"idle", "done"}
  /\ gpc' = [gpc EXCEPT ![t] = "open"]
  /\ IF kind.container = "tgz" THEN UNCHANGED csv ELSE Holding(FileOf(t), {})
  /\ UNCHANGED <<vars, ref, phase, kind, selected, scripts, result, troubles>>

\* dumpCSV: the query, and its rows up to the last.
CopyRows(t) ==
  /\ phase = "data" /\ gpc[t] = "open"
  /\ gpc' = [gpc EXCEPT ![t] = "done"]
  /\ Holding(FileOf(t), Selects(t))
  /\ UNCHANGED <<vars, ref, phase, kind, selected, scripts, result, troubles>>

\* Next returns false at an error too, which is not asked for.
BreakOff(t) ==
  /\ phase = "data" /\ gpc[t] = "open"
  /\ "break" \in Faults
  /\ troubles < MaxTroubles
  /\ troubles' = troubles + 1
  /\ gpc' = [gpc EXCEPT ![t] = "done"]
  /\ \E some \in SUBSET Selects(t) : some # Selects(t) /\ Holding(FileOf(t), some)
  /\ UNCHANGED <<vars, ref, phase, kind, selected, scripts, result>>

\* The query is refused, a value cannot be scanned, or the file not be written.
CopyFails(t) ==
  /\ phase = "data" /\ gpc[t] = "open"
  /\ "error" \in Faults
  /\ gpc' = [gpc EXCEPT ![t] = "failed"]
  /\ UNCHANGED <<vars, ref, phase, kind, selected, scripts, csv, result, troubles>>

\* Archives are closed whatever has happened, and can be read.
Return ==
  /\ phase = "data"
  /\ Over
  /\ phase' = "returned"
  /\ result' = Outcome
  /\ UNCHANGED <<vars, ref, kind, selected, scripts, csv, gpc, troubles>>

Copies(t) == Open(t) \/ CopyRows(t) \/ BreakOff(t) \/ CopyFails(t)

DumpStep ==
  \/ \E t \in Tables, extended \in BOOLEAN, rows \in Picks : Query(t, extended, rows)
  \/ WalkOn
  \/ RunFails
  \/ \E k \in Kinds : Begin(k)
  \/ WriteScript
  \/ ScriptFails
  \/ AfterScripts
  \/ \E t \in Tables : Copies(t)
  \/ Return

\* Somebody else makes a row refer to another one.
Update(i, r, s) ==
  /\ phase = "data"
  /\ "write" \in Faults
  /\ troubles < MaxTroubles
  /\ troubles' = troubles + 1
  /\ ref[i][r] # s
  /\ ref' = [ref EXCEPT ![i][r] = s]
  /\ UNCHANGED <<vars, phase, kind, selected, scripts, csv, gpc, result>>

NextDump ==
  \/ DumpStep
  \/ \E i \in Fkeys : \E r, s \in Rows : Update(i, r, s)

\* dump goes on until it returns; its goroutines are scheduled in turn.
SpecDump == InitDump /\ [][NextDump]_allVars /\ WF_allVars(DumpStep)

-----------------------------------------------------------------------------
(* What load makes of it: the rows, then the statements of constraints.sql *)

\* load finds the table of a file by its name.
Loaded(t) == IF FileOf(t) \in DOMAIN csv THEN csv[FileOf(t)] ELSE {}

Position(t) == CHOOSE n \in DOMAIN Schemas : Schemas[n] = SchemaOf[t]

\* Mutant: the keys of a table are followed by its foreign keys.
KeyBeforePerTable(i) ==
  Position(To(i)) < Position(From(i)) \/ To(i) = From(i)

\* In constraints.sql, is the primary key of the table that i refers to before i?  Each
\* schema has the keys of all its tables, then their foreign keys.
KeyBefore(i) == Position(To(i)) <= Position(From(i))

\* The keys that are not in schema.sql are in constraints.sql.
KeysInTables == kind.dialect \in {"mysql", "sqlserver", "sqlite"}

Refused(i) ==
  /\ kind.dialect # "sqlite"
  /\ \/ ~KeysInTables /\ ~KeyBefore(i)
     \/ \E x \in Loaded(From(i)) : x[2][i] # Null /\ \A y \in Loaded(To(i)) : y[1] # x[2][i]

\* What was to be dumped.
Wanted(t) ==
  IF kind.only = "schema" THEN {}
  ELSE RowsOf(t, IF queries = <<>> THEN Rows ELSE {x[2] : x \in {y \in NeededBy(ref, selected) : y[1] = t}})

\* No file of an earlier dump stays.
Fresh == \A t \in Tables : FileOf(t) \in DOMAIN csv => t \in Queried /\ kind.only # "schema"

Complete == phase = "returned" /\ result = "ok" /\ Fresh /\ \A n \in DOMAIN queries : Simple(queries[n])

-----------------------------------------------------------------------------
(* Properties *)

\* "Dump a database and restore it later" (src/sqddl.md:26): if nobody wrote to the
\* database meanwhile, no result broke off and no file of an earlier dump is left, what
\* dump says that it has dumped is what was to be dumped, each row in its table, and its
\* foreign keys are accepted, apart from those of Postgres to a table of a later schema.
Restores ==
  Complete /\ troubles = 0 =>
    /\ \A t \in Tables : Loaded(t) = Wanted(t)
    /\ \A i \in Fkeys : kind.only # "data" /\ Refused(i) =>
         kind.dialect = "postgres" /\ Position(From(i)) < Position(To(i))

\* The same without exceptions: foreign keys are accepted whatever others do.
AlwaysAccepted == Complete /\ kind.only # "data" => \A i \in Fkeys : ~Refused(i)

\* dump returns, however its queries fail: nobody waits for a table that is not dumped.
DumpEnds == <>(phase = "returned")
=============================================================================

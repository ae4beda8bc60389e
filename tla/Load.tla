--------------------------------- MODULE Load ---------------------------------
(***************************************************************************)
(* sqddl load (src/ddl/load_cmd.go) of a directory or an archive: the      *)
(* scripts and CSV files it runs, in which order, on which connections and *)
(* in which transactions.  CSV files of a directory or a zip archive are   *)
(* loaded by one goroutine each, unless the database is SQLite.            *)
(*                                                                         *)
(* Connections, transactions and the cancelling of contexts are those of  *)
(* Go's database/sql, which is external: a statement whose context is done *)
(* fails, and the transaction is rolled back by a goroutine of its own.    *)
(***************************************************************************)
EXTENDS Naturals, FiniteSets

CONSTANTS
  Files,    \* number of CSV files
  Batches,  \* number of batches of rows in a file
  Conns,    \* connections the pool may open
  Main,     \* the one that Run holds
  None,     \* no connection
  Kinds,    \* what may be loaded, and into what
  Faults    \* errors that may occur

Dialects == {"sqlite", "postgres", "mysql", "sqlserver"}
FaultKinds == {"sql", "connect", "statement", "commit", "interrupt"}

ASSUME LoadAssumption ==
  /\ Files \in Nat
  /\ Batches \in Nat \ {0}
  /\ Main \in Conns
  /\ None \notin Conns
  /\ Kinds \subseteq [dialect : Dialects, container : {"dir", "zip", "tgz"}]
  /\ Faults \subseteq FaultKinds

VARIABLES
  kind,     \* cmd.Dialect, and which of loadDir, loadZip and loadTgz runs
  pc,       \* where Run is
  result,   \* what it returns
  ctx,      \* whether cmd.Ctx is cancelled
  group,    \* whether the context of the errgroup is cancelled
  lpc,      \* where loadCSV is, for each file
  conn,     \* the connection on which the file's transaction is open
  old,      \* oldValue of the file's session setting
  staged,   \* batches inserted by the open transaction
  stored,   \* batches in the database
  value     \* session setting of a connection, "loading" where load changed it

vars == <<kind, pc, result, ctx, group, lpc, conn, old, staged, stored, value>>
csv == <<lpc, conn, old, staged, stored>>

Csv == 1 .. Files

-----------------------------------------------------------------------------
\* g # nil, or the container is streamed.
Concurrent == kind.dialect # "sqlite" /\ kind.container # "tgz"

\* The context that the statements of file f are run with is done.
Done(f) == ctx = "cancelled" \/ (Concurrent /\ group = "cancelled")

InTransaction == {"read", "set", "insert", "restore", "commit", "unwind", "rollback"}
Ended == {"loaded", "failed"}

Busy == {conn[f] : f \in Csv} \ {None}
Idle == Conns \ (Busy \cup {Main})

\* loadDir takes a connection from the pool, unless the database is SQLite.
ConnsFor(f) == IF Concurrent /\ kind.container = "dir" THEN Idle ELSE {Main}

\* loadCSV changes a setting of the session, and Postgres undoes that with the
\* transaction.
HasSetting == kind.dialect \in {"postgres", "mysql"}
SettingIsTransactional == kind.dialect = "postgres"

\* Plausible bug: the names of columns are read by way of cmd.DB.
QueryConnPooled(f) == Idle

\* The connections that may answer a query of loadCSV.
QueryConn(f) == {conn[f]}

\* Plausible bug: the setting is made once, for the first file.
MustSetOnce(f) == \A g \in Csv : old[g] = "none"

\* setSessionValue: the setting differs from what is wanted.
MustSet(f) == value[conn[f]] # "loading"

\* next returns io.EOF after this batch.
IsLastBatch(f) == staged[f] + 1 = Batches

\* Plausible bug: any error of next ends the loop, as io.EOF does.
AfterRowErrorEnd(f) == "restore"

\* An error of next, or of a batch, is returned.
AfterRowError(f) == "unwind"

\* Plausible bug: the setting is restored when all went well only.
DeferredNot(f) == value

\* The deferred restoreSessionValue: the settings it leaves behind.
Deferred(f) == IF Done(f) THEN value ELSE [value EXCEPT ![conn[f]] = old[f]]

\* Plausible bug: g.Wait returns with the first error.
WaitedForFirst == (\A f \in Csv : lpc[f] \in Ended) \/ (\E f \in Csv : lpc[f] = "failed")

\* g.Wait returns when all goroutines have ended.
Waited == \A f \in Csv : lpc[f] \in Ended

-----------------------------------------------------------------------------
Init ==
  /\ kind \in Kinds
  /\ pc = "start"
  /\ result = "none"
  /\ ctx = "live"
  /\ group = "live"
  /\ lpc = [f \in Csv |-> "idle"]
  /\ conn = [f \in Csv |-> None]
  /\ old = [f \in Csv |-> "none"]
  /\ staged = [f \in Csv |-> 0]
  /\ stored = [f \in Csv |-> 0]
  /\ value = [c \in Conns |-> "own"]

\* Run returns err; what it deferred follows.
Fail == pc' = "return" /\ result' = "failed"

\* A statement of Run or loadSQL fails.
SQLFails == ctx = "cancelled" \/ "sql" \in Faults

\* Run, up to the main loop: foreign keys of SQLite are disabled.
Start ==
  /\ pc = "start"
  /\ \/ /\ ctx = "live"
        /\ pc' = "schema"
        /\ value' = [value EXCEPT ![Main] = IF kind.dialect = "sqlite" THEN "loading" ELSE @]
        /\ UNCHANGED result
     \/ SQLFails /\ Fail /\ UNCHANGED value
  /\ UNCHANGED <<kind, ctx, group, csv>>

\* loadSQL of schema.sql, after which every file gets its goroutine.
RunSchema ==
  /\ pc = "schema"
  /\ \/ /\ ctx = "live"
        /\ pc' = "csv"
        /\ lpc' = IF Concurrent THEN [f \in Csv |-> "open"] ELSE lpc
        /\ UNCHANGED result
     \/ SQLFails /\ Fail /\ UNCHANGED lpc
  /\ UNCHANGED <<kind, ctx, group, conn, old, staged, stored, value>>

\* The loop over the files, where there are no goroutines.
LoadNext(f) ==
  /\ pc = "csv"
  /\ ~Concurrent
  /\ lpc[f] = "idle"
  /\ \A g \in 1 .. f - 1 : lpc[g] = "loaded"
  /\ lpc' = [lpc EXCEPT ![f] = "open"]
  /\ UNCHANGED <<kind, pc, result, ctx, group, conn, old, staged, stored, value>>

\* An error of a file is that of Run.
CsvFailed ==
  /\ pc = "csv"
  /\ \E f \in Csv : lpc[f] = "failed"
  /\ Concurrent => Waited
  /\ Fail
  /\ UNCHANGED <<kind, ctx, group, csv, value>>

CsvLoaded ==
  /\ pc = "csv"
  /\ \A f \in Csv : lpc[f] = "loaded"
  /\ pc' = "indexes"
  /\ UNCHANGED <<kind, result, ctx, group, csv, value>>

\* loadSQL of indexes.sql.
RunIndexes ==
  /\ pc = "indexes"
  /\ \/ ctx = "live" /\ pc' = "constraints" /\ UNCHANGED result
     \/ SQLFails /\ Fail
  /\ UNCHANGED <<kind, ctx, group, csv, value>>

\* loadSQL of constraints.sql: MySQL checks no foreign keys meanwhile.
PrepareConstraints ==
  /\ pc = "constraints"
  /\ \/ /\ ctx = "live"
        /\ pc' = "execute"
        /\ value' = [value EXCEPT ![Main] = IF kind.dialect = "mysql" THEN "loading" ELSE @]
        /\ UNCHANGED result
     \/ SQLFails /\ Fail /\ UNCHANGED value
  /\ UNCHANGED <<kind, ctx, group, csv>>

RunConstraints ==
  /\ pc = "execute"
  /\ \/ ctx = "live" /\ pc' = "return" /\ result' = "ok"
     \/ SQLFails /\ Fail
  /\ value' = [value EXCEPT ![Main] =
                 IF kind.dialect = "mysql" /\ ctx = "live" THEN "own" ELSE @]
  /\ UNCHANGED <<kind, ctx, group, csv>>

\* Run restores the foreign keys of SQLite and gives its connection back.
Return ==
  /\ pc = "return"
  /\ pc' = "done"
  /\ value' = [value EXCEPT ![Main] =
                 IF kind.dialect = "sqlite" /\ ctx = "live" THEN "own" ELSE @]
  /\ result' = IF kind.dialect = "sqlite" /\ ctx # "live" THEN "failed" ELSE result
  /\ UNCHANGED <<kind, ctx, group, csv>>

Run ==
  \/ Start \/ RunSchema \/ (\E f \in Csv : LoadNext(f)) \/ CsvFailed \/ CsvLoaded
  \/ RunIndexes \/ PrepareConstraints \/ RunConstraints \/ Return

-----------------------------------------------------------------------------
(* loadCSV *)

Goto(f, l) == lpc' = [lpc EXCEPT ![f] = l]

\* The goroutine of f returns an error, and errgroup cancels those of the others.
EndWithError(f) ==
  /\ Goto(f, "failed")
  /\ group' = IF Concurrent THEN "cancelled" ELSE group

\* The file is opened, and BeginTx; a connection in a transaction refuses another one.
Begin(f) ==
  /\ lpc[f] = "open"
  /\ \/ /\ ~Done(f)
        /\ \E c \in ConnsFor(f) \ Busy :
             /\ Goto(f, "read")
             /\ conn' = [conn EXCEPT ![f] = c]
             /\ UNCHANGED group
     \/ /\ \/ Done(f)
           \/ ConnsFor(f) \cap Busy # {}
           \/ ConnsFor(f) # {} /\ "connect" \in Faults
        /\ EndWithError(f)
        /\ UNCHANGED conn
  /\ UNCHANGED <<kind, pc, result, ctx, old, staged, stored, value>>

\* A statement of loadCSV fails.
Fails(f) == Done(f) \/ "statement" \in Faults

\* The header, the current schema and getColumnInfo.
Read(f) ==
  /\ lpc[f] = "read"
  /\ Done(f) \/ QueryConn(f) # {}
  /\ \/ ~Done(f) /\ Goto(f, "set")
     \/ Fails(f) /\ Goto(f, "rollback")
  /\ UNCHANGED <<kind, pc, result, ctx, group, conn, old, staged, stored, value>>

\* setSessionValue.
Set(f) ==
  /\ lpc[f] = "set"
  /\ \/ /\ ~Done(f)
        /\ Goto(f, "insert")
        /\ old' = [old EXCEPT ![f] = value[conn[f]]]
        /\ value' = IF HasSetting /\ MustSet(f)
                    THEN [value EXCEPT ![conn[f]] = "loading"] ELSE value
     \/ Fails(f) /\ Goto(f, "rollback") /\ UNCHANGED <<old, value>>
  /\ UNCHANGED <<kind, pc, result, ctx, group, conn, staged, stored>>

\* BatchInsert: the rows of a batch are read and inserted.
Insert(f) ==
  /\ lpc[f] = "insert"
  /\ \/ /\ ~Done(f)
        /\ staged' = [staged EXCEPT ![f] = @ + 1]
        /\ Goto(f, IF IsLastBatch(f) THEN "restore" ELSE "insert")
     \/ Fails(f) /\ Goto(f, AfterRowError(f)) /\ UNCHANGED staged
  /\ UNCHANGED <<kind, pc, result, ctx, group, conn, old, stored, value>>

\* restoreSessionValue is called once: where it fails it is not called again.
Restore(f) ==
  /\ lpc[f] = "restore"
  /\ \/ /\ ~Done(f)
        /\ Goto(f, "commit")
        /\ value' = [value EXCEPT ![conn[f]] = old[f]]
     \/ Done(f) /\ Goto(f, "rollback") /\ UNCHANGED value
  /\ UNCHANGED <<kind, pc, result, ctx, group, conn, old, staged, stored>>

\* tx.Commit.  Where its answer is lost, the rows may be in the database or not.
Commit(f) ==
  /\ lpc[f] = "commit"
  /\ \/ /\ ~Done(f)
        /\ \/ Goto(f, "loaded") /\ stored' = [stored EXCEPT ![f] = staged[f]] /\ UNCHANGED group
           \/ /\ "commit" \in Faults
              /\ EndWithError(f)
              /\ \E n \in {stored[f], staged[f]} : stored' = [stored EXCEPT ![f] = n]
        /\ conn' = [conn EXCEPT ![f] = None]
        /\ staged' = [staged EXCEPT ![f] = 0]
     \/ Done(f) /\ Goto(f, "rollback") /\ UNCHANGED <<group, conn, staged, stored>>
  /\ UNCHANGED <<kind, pc, result, ctx, old, value>>

\* What loadCSV deferred, last first: restoreSessionValue ...
Unwind(f) ==
  /\ lpc[f] = "unwind"
  /\ Goto(f, "rollback")
  /\ value' = Deferred(f)
  /\ UNCHANGED <<kind, pc, result, ctx, group, conn, old, staged, stored>>

\* The transaction of f is rolled back, and its connection is free.
RolledBack(f) ==
  /\ conn' = [conn EXCEPT ![f] = None]
  /\ staged' = [staged EXCEPT ![f] = 0]
  /\ UNCHANGED <<kind, pc, result, ctx, old, stored>>

\* What a rollback makes of the settings.
Reverted(f) ==
  IF SettingIsTransactional /\ old[f] # "none"
  THEN [value EXCEPT ![conn[f]] = old[f]] ELSE value

\* ... and tx.Rollback, which does not wait where AwaitDone is at it.
Rollback(f) ==
  /\ lpc[f] = "rollback"
  /\ EndWithError(f)
  /\ \/ ~Done(f) /\ RolledBack(f) /\ value' = Reverted(f)
     \/ Done(f) /\ UNCHANGED <<kind, pc, result, ctx, conn, old, staged, stored, value>>

\* database/sql rolls a transaction back when its context is done, and keeps the
\* connection unless a statement was just running.
AwaitDone(f) ==
  /\ conn[f] # None
  /\ Done(f)
  /\ RolledBack(f)
  /\ value' \in {Reverted(f), [value EXCEPT ![conn[f]] = "own"]}
  /\ UNCHANGED <<group, lpc>>

LoadCSV(f) ==
  \/ Begin(f) \/ Read(f) \/ Set(f) \/ Insert(f) \/ Restore(f) \/ Commit(f)
  \/ Unwind(f) \/ Rollback(f)

\* The caller cancels cmd.Ctx.
Interrupt ==
  /\ "interrupt" \in Faults
  /\ ctx = "live"
  /\ pc # "done"
  /\ ctx' = "cancelled"
  /\ UNCHANGED <<kind, pc, result, group, csv, value>>

Next == Run \/ (\E f \in Csv : LoadCSV(f) \/ AwaitDone(f)) \/ Interrupt

Spec == Init /\ [][Next]_vars

\* Goroutines run, connections are freed by rollbacks, and statements end.
FairSpec ==
  /\ Spec
  /\ WF_vars(Run)
  /\ \A f \in Csv : WF_vars(LoadCSV(f)) /\ WF_vars(AwaitDone(f))

-----------------------------------------------------------------------------
(* Properties *)

TypeOK ==
  /\ kind \in Kinds
  /\ pc \in {"start", "schema", "csv", "indexes", "constraints", "execute", "return", "done"}
  /\ result \in {"none", "ok", "failed"}
  /\ ctx \in {"live", "cancelled"}
  /\ group \in {"live", "cancelled"}
  /\ lpc \in [Csv -> {"idle", "open"} \cup InTransaction \cup Ended]
  /\ conn \in [Csv -> Conns \cup {None}]
  /\ old \in [Csv -> {"none", "own", "loading"}]
  /\ staged \in [Csv -> 0 .. Batches]
  /\ stored \in [Csv -> 0 .. Batches]
  /\ value \in [Conns -> {"own", "loading"}]

\* The rows of a file are in the database all or not at all, whatever fails and
\* whoever is cancelled, and all of them if loadCSV says so.
AllOrNothing ==
  \A f \in Csv :
    /\ stored[f] \in {0, Batches}
    /\ lpc[f] = "loaded" => stored[f] = Batches

\* sqddl.md, load: "files inside are loaded in a specific order": no file is being
\* loaded any more when Run goes on or returns, and indexes and constraints are made
\* when all data is there.
DataFirst ==
  /\ pc \in {"indexes", "constraints", "execute", "return", "done"} =>
       \A f \in Csv : lpc[f] \in {"idle", "loaded", "failed"}
  /\ pc \in {"indexes", "constraints", "execute"} \/ result = "ok" =>
       \A f \in Csv : stored[f] = Batches

\* No batch is inserted without the session setting that load wants, although the
\* setting belongs to a connection that others have used and will use.
InsertsUnderSetting ==
  \A f \in Csv :
    lpc[f] = "insert" /\ conn[f] # None /\ (HasSetting \/ kind.dialect = "sqlite") =>
      value[conn[f]] = "loading"

\* load_cmd.go:401: the setting is changed "temporarily": in the end all connections
\* have their own again, unless a context was cancelled where a rollback does not
\* undo the setting.
SettingsRestored ==
  pc = "done" /\ Busy = {} =>
    \/ ~SettingIsTransactional /\ "cancelled" \in {ctx, group}
    \/ \A c \in Conns : value[c] = "own"

\* With nothing to wait for but each other, and at least one connection besides that
\* of Run, the goroutines and Run end, and leave no transaction open.
LoadEnds == <>(pc = "done" /\ Busy = {})

\* sqddl.md, load: "If it is a directory or a .zip archive, the CSV files are loaded
\* concurrently": without a fault, they are loaded.
LoadsAll == pc = "done" => result = "ok"
=============================================================================

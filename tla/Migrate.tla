------------------------------- MODULE Migrate -------------------------------
(***************************************************************************)
(* `sqddl migrate` (src/ddl/migrate_cmd.go): MigrateCmd processes run the  *)
(* migration scripts of a directory against one database, batch them into *)
(* transactions, retry what timed out waiting for a lock, undo what cannot *)
(* be rolled back, and keep the history table from which the next run      *)
(* learns what is left to do.                                              *)
(*                                                                         *)
(* A script is a name; what its SQL does is abstracted to whether its      *)
(* effects are in the database (times, residue, version).  The database    *)
(* server is external: a transaction's effects appear at COMMIT, all at    *)
(* once, and a script that fails outside a transaction may leave some of   *)
(* its effects behind.                                                     *)
(***************************************************************************)
EXTENDS Naturals, Sequences, FiniteSets

CONSTANTS
  Procs,            \* concurrent invocations of `sqddl migrate`
  Files,            \* the files of the migration directory
  Reserved,         \* the ones that are no migrations: *.undo.sql, schema.sql, ...
  TxFiles,          \* <name>.tx.sql
  TxoffFiles,       \* <name>.txoff.sql
  Repeatable,       \* repeatable/...
  UndoFiles,        \* the migrations that have a <name>.undo.sql
  SingleStmt,       \* scripts with one semicolon, at the very end
  Divisible,        \* scripts that can leave effects when they fail outside a transaction
  MySQL,            \* cmd.Dialect == DialectMySQL
  SkipHistoryTable, \* the -skip-history-table flag, always set by automigrate
  MaxAttempts,      \* the -max-attempts flag
  ArgLists,         \* the lists of filenames a run may be given (or walkDir returns)
  MaxVersion,       \* bound: contents a repeatable migration may have
  MaxStarts,        \* bound: invocations of migrate in a behaviour
  Faults            \* what may go wrong, see FaultKinds

FaultKinds ==
  { "read",    \* the history query breaks off; rows.Err() is not looked at
    "begin",   \* BEGIN fails
    "script",  \* a script fails
    "lock",    \* a script times out waiting for a lock
    "upsert",  \* writing a history row of a script that ran fails
    "busy",    \* ... by timing out waiting for a lock
    "commit",  \* COMMIT fails (a deferred constraint)
    "undo",    \* an undo script fails
    "record",  \* writing the history rows of a failed run fails
    "crash" }  \* the process or its connection dies

ASSUME MigrateAssumption ==
  /\ Reserved \subseteq Files
  /\ TxFiles \subseteq Files
  /\ TxoffFiles \subseteq Files
  /\ TxFiles \cap TxoffFiles = {}
  /\ Repeatable \subseteq Files
  /\ UndoFiles \subseteq Files
  /\ SingleStmt \subseteq Files
  /\ Divisible \subseteq Files
  /\ MySQL \in BOOLEAN
  /\ SkipHistoryTable \in BOOLEAN
  /\ MaxAttempts \in Nat \ {0}
  /\ ArgLists \subseteq Seq(Files)
  /\ MaxVersion \in Nat \ {0}
  /\ MaxStarts \in Nat
  /\ Faults \subseteq FaultKinds

VARIABLES
  \* The database and the directory.
  tableExists,  \* the history table has been created
  history,      \* its rows
  times,        \* how often a script's effects are in the database: 0, 1, 2 = more than once
  residue,      \* scripts that left part of their effects behind
  version,      \* the contents of a script that ran last (0: none)
  content,      \* the contents of the file in the directory
  starts,       \* invocations so far
  \* The local variables of Run, runWithRetry and run, per process.
  pc,
  args,         \* cmd.Filenames
  todo,         \* positions of args the loop over migrations has not reached
  seen,         \* the history row read for each position of args
  queue,        \* the batch
  held,         \* the migration that waits for the batch to be flushed
  attempts,     \* runWithRetry's attempts
  done          \* scripts of the batch that ran: run's index i

db == <<tableExists, history, times, residue, version>>
locals == <<args, todo, seen, queue, held, attempts, done>>
vars == <<db, content, starts, pc, locals>>

-----------------------------------------------------------------------------
(* Types *)

Versions == 1 .. MaxVersion

\* A row of the history table as `migration` holds it; valid says it exists.
Row == [valid : BOOLEAN, checksum : 0 .. MaxVersion, success : BOOLEAN]
NoRow == [valid |-> FALSE, checksum |-> 0, success |-> FALSE]

\* A migration in the queue: its position in args, its name, its checksum.
Migration == [pos : Nat, file : Files, checksum : 0 .. MaxVersion]

Labels == {"idle", "ensure", "create", "read", "plan", "begin", "exec",
           "upsert", "commit", "undo", "record"}

TypeOK ==
  /\ tableExists \in BOOLEAN
  /\ history \in [Files -> Row]
  /\ times \in [Files -> 0 .. 2]
  /\ residue \in SUBSET Files
  /\ version \in [Files -> 0 .. MaxVersion]
  /\ content \in [Files -> Versions]
  /\ starts \in 0 .. MaxStarts
  /\ pc \in [Procs -> Labels]
  /\ args \in [Procs -> Seq(Files)]
  /\ todo \in [Procs -> SUBSET Nat]
  /\ \A p \in Procs : todo[p] \subseteq DOMAIN args[p]
  /\ \A p \in Procs : seen[p] \in [DOMAIN args[p] -> Row]
  /\ DOMAIN seen = Procs
  /\ queue \in [Procs -> Seq(Migration)]
  /\ held \in [Procs -> Seq(Migration)]
  /\ attempts \in [Procs -> 0 .. MaxAttempts]
  /\ done \in [Procs -> Nat]
  /\ \A p \in Procs : done[p] <= Len(queue[p])
  /\ \A p \in Procs : pc[p] \in {"exec", "upsert"} => done[p] < Len(queue[p])
  /\ \A p \in Procs : pc[p] \in {"begin", "commit", "undo", "record"} => queue[p] # <<>>

-----------------------------------------------------------------------------
(* Files, migrations and batches *)

FilesOf(q) == {q[k].file : k \in DOMAIN q}

\* The checksum f is queued with (files do not change during a run, so that two
\* entries of one file agree).
QueuedChecksum(q, f) == q[CHOOSE k \in DOMAIN q : q[k].file = f].checksum

\* Plausible bug: the repeatable migrations keep their place in the list.
BeforeAsListed(a, i, j) == i <= j

\* The order sortAndFilterFilenames gives the positions of a list of names:
\* theirs, but every repeatable migration comes after all the others.

Before(a, i, j) ==
  IF (a[i] \in Repeatable) = (a[j] \in Repeatable) THEN i <= j
  ELSE a[j] \in Repeatable

\* The checksum a migration goes into the queue with: only the contents of
\* repeatable migrations are hashed.
ChecksumOf(f) == IF f \in Repeatable THEN content[f] ELSE 0

\* Plausible bug: a repeatable migration is skipped by its checksum alone.
UpToDateByChecksum(row, f) ==
  row.valid /\ IF f \in Repeatable THEN row.checksum = ChecksumOf(f) ELSE row.success

\* There is nothing left to do for f, by the row of it that was read.
UpToDate(row, f) ==
  /\ row.valid
  /\ row.success
  /\ f \in Repeatable => row.checksum = ChecksumOf(f)

\* Plausible bug: only the first migration of the batch is looked at.
MustFlushAfter(g, f) == MySQL \/ g \in TxFiles \cup TxoffFiles

\* Does f have to wait until the batch that g opened is flushed?
MustFlush(g, f) ==
  \/ MySQL
  \/ g \in TxFiles \cup TxoffFiles
  \/ f \in TxFiles \cup TxoffFiles

\* Plausible bug: a migration on its own gets a transaction only on request.
IsTxIfShared(q) == Len(q) > 1 \/ q[1].file \in TxFiles

\* Does run wrap the batch in a transaction?
IsTx(q) ==
  \/ Len(q) > 1
  \/ q[1].file \notin TxoffFiles /\ ~MySQL
  \/ q[1].file \in TxFiles

\* Plausible bug: every batch counts as retryable.
IsRetryableAlways(q) == TRUE

IsRetryable(q) == IsTx(q) \/ q[1].file \in SingleStmt

\* The migrations a failed run is recorded for: queue[0..stoppedAt].
Attempted(q, n) == SubSeq(q, 1, IF n < Len(q) THEN n + 1 ELSE Len(q))

-----------------------------------------------------------------------------
(* What the statements sent to the database do *)

\* The scripts of q take full effect.
Execute(q) ==
  /\ times' = [f \in Files |->
       IF f \notin FilesOf(q) THEN times[f]
       ELSE IF times[f] = 0 /\ \A j, k \in DOMAIN q : q[j].file = f /\ q[k].file = f => j = k
            THEN 1 ELSE 2]
  /\ residue' = residue \ FilesOf(q)
  /\ version' = [f \in Files |-> IF f \in FilesOf(q) THEN content[f] ELSE version[f]]

\* Plausible bugs: the rows of q are inserted but not updated; the rows of a
\* failed run are written with the success their own script had.
RecordedIfNew(q, ok) ==
  [f \in Files |->
     IF f \in FilesOf(q) /\ ~history[f].valid
     THEN [valid |-> TRUE, checksum |-> QueuedChecksum(q, f), success |-> ok]
     ELSE history[f]]

RecordedAsRun(q, ok) ==
  [f \in Files |->
     IF f \in FilesOf(q)
     THEN [valid |-> TRUE, checksum |-> QueuedChecksum(q, f),
           success |-> ok \/ q[Len(q)].file # f]
     ELSE history[f]]

\* The history table after the upsert of the rows of q.
Recorded(q, ok) ==
  [f \in Files |->
     IF f \in FilesOf(q)
     THEN [valid |-> TRUE, checksum |-> QueuedChecksum(q, f), success |-> ok]
     ELSE history[f]]

-----------------------------------------------------------------------------
Init ==
  /\ tableExists = FALSE
  /\ history = [f \in Files |-> NoRow]
  /\ times = [f \in Files |-> 0]
  /\ residue = {}
  /\ version = [f \in Files |-> 0]
  /\ content = [f \in Files |-> 1]
  /\ starts = 0
  /\ pc = [p \in Procs |-> "idle"]
  /\ args = [p \in Procs |-> <<>>]
  /\ todo = [p \in Procs |-> {}]
  /\ seen = [p \in Procs |-> <<>>]
  /\ queue = [p \in Procs |-> <<>>]
  /\ held = [p \in Procs |-> <<>>]
  /\ attempts = [p \in Procs |-> 0]
  /\ done = [p \in Procs |-> 0]

Goto(p, label) == pc' = [pc EXCEPT ![p] = label]

\* The process ends: Run returns, or it dies.
Leave(p) ==
  /\ Goto(p, "idle")
  /\ args' = [args EXCEPT ![p] = <<>>]
  /\ todo' = [todo EXCEPT ![p] = {}]
  /\ seen' = [seen EXCEPT ![p] = <<>>]
  /\ queue' = [queue EXCEPT ![p] = <<>>]
  /\ held' = [held EXCEPT ![p] = <<>>]
  /\ attempts' = [attempts EXCEPT ![p] = 0]
  /\ done' = [done EXCEPT ![p] = 0]

-----------------------------------------------------------------------------
(* Run *)

\* migrate is started with the filenames a.
Start(p) ==
  /\ pc[p] = "idle"
  /\ starts < MaxStarts
  /\ starts' = starts + 1
  /\ \E a \in ArgLists :
       /\ args' = [args EXCEPT ![p] = a]
       /\ todo' = [todo EXCEPT ![p] = {i \in DOMAIN a : a[i] \notin Reserved}]
       /\ seen' = [seen EXCEPT ![p] = [i \in DOMAIN a |-> NoRow]]
  /\ Goto(p, IF SkipHistoryTable THEN "plan" ELSE "ensure")
  /\ UNCHANGED <<db, content, queue, held, attempts, done>>

\* ensureHistoryTableExists looks whether the table is there ...
Ensure(p) ==
  /\ pc[p] = "ensure"
  /\ Goto(p, IF tableExists THEN "read" ELSE "create")
  /\ UNCHANGED <<db, content, starts, locals>>

\* ... and creates it if it was not; CREATE TABLE fails if it is there by now.
Create(p) ==
  /\ pc[p] = "create"
  /\ \/ /\ ~tableExists
        /\ tableExists' = TRUE
        /\ Goto(p, "read")
        /\ UNCHANGED locals
     \/ /\ tableExists
        /\ Leave(p)
        /\ UNCHANGED tableExists
  /\ UNCHANGED <<history, times, residue, version, content, starts>>

\* The one time the run reads the history table.  cache maps a name to its last
\* position, so that earlier ones get no row.
ReadHistory(p) ==
  /\ pc[p] = "read"
  /\ \E lost \in SUBSET DOMAIN args[p] :
       /\ "read" \notin Faults => lost = {}
       /\ seen' = [seen EXCEPT ![p] = [i \in DOMAIN args[p] |->
            IF i \in lost \/ \E j \in DOMAIN args[p] : j > i /\ args[p][j] = args[p][i]
            THEN NoRow ELSE history[args[p][i]]]]
  /\ Goto(p, "plan")
  /\ UNCHANGED <<db, content, starts, args, todo, queue, held, attempts, done>>

\* One iteration of the loop over migrations, up to the call of runWithRetry.
Plan(p) ==
  /\ pc[p] = "plan"
  /\ \E i \in todo[p] :
       LET f == args[p][i]
           m == [pos |-> i, file |-> f, checksum |-> ChecksumOf(f)]
       IN /\ \A j \in todo[p] : Before(args[p], i, j)
          /\ todo' = [todo EXCEPT ![p] = @ \ {i}]
          /\ \/ /\ UpToDate(seen[p][i], f)
                /\ UNCHANGED <<queue, held, pc>>
             \/ /\ ~UpToDate(seen[p][i], f)
                /\ queue[p] # <<>> => ~MustFlush(queue[p][1].file, f)
                /\ queue' = [queue EXCEPT ![p] = Append(@, m)]
                /\ UNCHANGED <<held, pc>>
             \/ /\ ~UpToDate(seen[p][i], f)
                /\ queue[p] # <<>>
                /\ MustFlush(queue[p][1].file, f)
                /\ held' = [held EXCEPT ![p] = <<m>>]
                /\ Goto(p, "begin")
                /\ UNCHANGED queue
  /\ UNCHANGED <<db, content, starts, args, seen, attempts, done>>

\* The loop is over: flush the queue, or return if it is empty.
PlanDone(p) ==
  /\ pc[p] = "plan"
  /\ todo[p] = {}
  /\ \/ /\ queue[p] # <<>>
        /\ Goto(p, "begin")
        /\ UNCHANGED locals
     \/ /\ queue[p] = <<>>
        /\ Leave(p)
  /\ UNCHANGED <<db, content, starts>>

-----------------------------------------------------------------------------
(* runWithRetry and run *)

\* Plausible bug: the count starts again with every attempt.
NextAttemptFromZero(n) == 1

NextAttempt(n) == n + 1

\* An attempt at the batch.  When BEGIN fails the error is returned at once.
Begin(p) ==
  /\ pc[p] = "begin"
  /\ \/ /\ Goto(p, "exec")
        /\ attempts' = [attempts EXCEPT ![p] = NextAttempt(@)]
        /\ done' = [done EXCEPT ![p] = 0]
        /\ UNCHANGED <<args, todo, seen, queue, held>>
     \/ /\ "begin" \in Faults
        /\ IsTx(queue[p])
        /\ Leave(p)
  /\ UNCHANGED <<db, content, starts>>

GivesUp(p) == attempts[p] >= MaxAttempts

\* run returned an error, its transaction (if any) rolled back.
Fail(p, timeout) ==
  \/ /\ timeout /\ IsRetryable(queue[p])
     /\ ~GivesUp(p)
     /\ Goto(p, "begin")
     /\ UNCHANGED locals
  \/ /\ timeout /\ IsRetryable(queue[p])
     /\ GivesUp(p)
     /\ Leave(p)
  \/ /\ ~(timeout /\ IsRetryable(queue[p]))
     /\ Goto(p, IF IsRetryable(queue[p]) THEN "record" ELSE "undo")
     /\ UNCHANGED locals

\* The batch is through: the migration that waited for it opens the next one.
Flushed(p) ==
  /\ Goto(p, "plan")
  /\ queue' = [queue EXCEPT ![p] = held[p]]
  /\ held' = [held EXCEPT ![p] = <<>>]
  /\ attempts' = [attempts EXCEPT ![p] = 0]
  /\ done' = [done EXCEPT ![p] = 0]
  /\ UNCHANGED <<args, todo, seen>>

\* A script of the batch and its history row are through.
Advance(p) ==
  IF done[p] + 1 = Len(queue[p]) /\ ~IsTx(queue[p])
  THEN Flushed(p)
  ELSE /\ done' = [done EXCEPT ![p] = @ + 1]
       /\ Goto(p, IF done[p] + 1 = Len(queue[p]) THEN "commit" ELSE "exec")
       /\ UNCHANGED <<args, todo, seen, queue, held, attempts>>

\* db.ExecContext runs the next script.
Exec(p) ==
  LET f == queue[p][done[p] + 1].file IN
  /\ pc[p] = "exec"
  /\ \/ /\ IF IsTx(queue[p]) THEN UNCHANGED <<times, residue, version>>
           ELSE Execute(queue[p])
        /\ IF SkipHistoryTable THEN Advance(p)
           ELSE Goto(p, "upsert") /\ UNCHANGED locals
     \/ \E fault \in {"script", "lock"} \cap Faults :
          /\ \/ UNCHANGED residue
             \/ /\ ~IsTx(queue[p])
                /\ f \in Divisible
                /\ residue' = residue \cup {f}
          /\ Fail(p, fault = "lock")
          /\ UNCHANGED <<times, version>>
  /\ UNCHANGED <<tableExists, history, content, starts>>

\* The script's history row is written, in the batch's transaction if it has one.
Upsert(p) ==
  /\ pc[p] = "upsert"
  /\ \/ /\ history' = IF IsTx(queue[p]) THEN history ELSE Recorded(queue[p], TRUE)
        /\ Advance(p)
     \/ /\ \E fault \in {"upsert", "busy"} \cap Faults : Fail(p, fault = "busy")
        /\ UNCHANGED history
  /\ UNCHANGED <<tableExists, times, residue, version, content, starts>>

Commit(p) ==
  /\ pc[p] = "commit"
  /\ \/ /\ Execute(queue[p])
        /\ history' = IF SkipHistoryTable THEN history ELSE Recorded(queue[p], TRUE)
        /\ Flushed(p)
     \/ /\ "commit" \in Faults
        /\ Fail(p, FALSE)
        /\ UNCHANGED <<history, times, residue, version>>
  /\ UNCHANGED <<tableExists, content, starts>>

\* undo runs <name>.undo.sql if there is one: nothing is left of the script then.
Undo(p) ==
  LET f == queue[p][1].file IN
  /\ pc[p] = "undo"
  /\ \/ /\ f \in UndoFiles
        /\ times' = [times EXCEPT ![f] = 0]
        /\ version' = [version EXCEPT ![f] = 0]
        /\ residue' = residue \ {f}
     \/ /\ f \notin UndoFiles \/ "undo" \in Faults
        /\ UNCHANGED <<times, version, residue>>
  /\ Goto(p, "record")
  /\ UNCHANGED <<tableExists, history, content, starts, locals>>

\* The failed run is recorded, and its error returned; an error of the upsert is
\* only printed.
Record(p) ==
  /\ pc[p] = "record"
  /\ \/ history' = IF SkipHistoryTable THEN history
                   ELSE Recorded(Attempted(queue[p], done[p]), FALSE)
     \/ "record" \in Faults /\ UNCHANGED history
  /\ Leave(p)
  /\ UNCHANGED <<tableExists, times, residue, version, content, starts>>

-----------------------------------------------------------------------------
(* The environment *)

\* The process or its connection dies: an open transaction is rolled back.
Crash(p) ==
  /\ "crash" \in Faults
  /\ pc[p] # "idle"
  /\ Leave(p)
  /\ UNCHANGED <<db, content, starts>>

\* A repeatable migration is edited while no migrate is running.
Edit(f) ==
  /\ f \in Repeatable
  /\ \A p \in Procs : pc[p] = "idle"
  /\ \E v \in Versions \ {content[f]} : content' = [content EXCEPT ![f] = v]
  /\ UNCHANGED <<db, starts, pc, locals>>

Step(p) ==
  \/ Ensure(p) \/ Create(p) \/ ReadHistory(p) \/ Plan(p) \/ PlanDone(p)
  \/ Begin(p) \/ Exec(p) \/ Upsert(p) \/ Commit(p) \/ Undo(p) \/ Record(p)

Next ==
  \/ \E p \in Procs : Start(p) \/ Step(p) \/ Crash(p)
  \/ \E f \in Files : Edit(f)

Spec == Init /\ [][Next]_vars

\* A process keeps taking steps: nothing in Run waits for another process but
\* the locks, and these time out.
FairSpec == Spec /\ \A p \in Procs : WF_vars(Step(p))

-----------------------------------------------------------------------------
(* Properties *)

Migrations == Files \ Reserved

\* The migrations that only ever run in a transaction.
Transactional ==
  {f \in Migrations : f \in TxFiles \/ (~MySQL /\ f \notin TxoffFiles)}

\* The history table says that f is done.
Current(f) ==
  history[f].success /\ (f \in Repeatable => history[f].checksum = content[f])

\* A migration that runs in a transaction and its history row stand or fall
\* together: whatever fails or crashes, its effects are in the database exactly
\* when the history says so, once, and no part of them is left behind by a
\* failure.  (run, migrate_cmd.go: rollback and commit around scripts and upserts.)
TransactionalLedger ==
  \A f \in Transactional :
    /\ times[f] > 0 <=> version[f] > 0
    /\ f \notin Repeatable => (times[f] = IF history[f].success THEN 1 ELSE 0)
    /\ f \notin residue

\* sqddl.md, migrate: "Once a migration has been run, it will be recorded in a
\* history table so that it doesn't get run again": no two executions of a
\* migration that is not repeatable have effects in the database.
AppliedAtMostOnce == \A f \in Migrations \ Repeatable : times[f] <= 1

\* A repeatable migration that migrate would skip because of its checksum is one
\* whose present contents are what ran last, also after failed runs and after
\* edits that are taken back.
RepeatableFresh ==
  \A f \in Migrations \cap Repeatable :
    UpToDate(history[f], f) => version[f] = content[f]

\* Migrations run in the order of their list, and a failed one stops the run:
\* when a script starts, every migration listed before it is either recorded as
\* done or has run before it in the same transaction.
ListedBefore(a, i, j) ==
  IF a[j] \in Repeatable THEN i < j \/ a[i] \notin Repeatable
  ELSE i < j /\ a[i] \notin Repeatable

InOrder ==
  \A p \in Procs : pc[p] = "exec" =>
    LET next == queue[p][done[p] + 1].pos IN
    \A i \in DOMAIN args[p] :
      args[p][i] \in Migrations /\ ListedBefore(args[p], i, next) =>
        \/ Current(args[p][i])
        \/ \E k \in 1 .. done[p] : queue[p][k].pos = i

\* A script marked .tx or .txoff, and every script on MySQL, has its batch to
\* itself; so what shares a transaction is what is always transactional.
BatchShape ==
  \A p \in Procs : Len(queue[p]) > 1 =>
    /\ ~MySQL
    /\ FilesOf(queue[p]) \cap (TxFiles \cup TxoffFiles) = {}

\* What a migration of several statements leaves behind when it fails outside a
\* transaction is cleaned up by its undo script before the run returns.  One of a
\* single statement counts as retryable and gets no undo: see FailureIsUndone.
NoResidueLeft ==
  \A f \in (residue \cap UndoFiles) \ SingleStmt :
    \E p \in Procs : pc[p] = "undo" /\ queue[p][1].file = f

\* sqddl.md, undo migrations: "When a non-transactional migration fails, a
\* corresponding undo migration (if one exists) will be called": a failed batch
\* goes from the failure to the recording only through the undo script.
FailureIsUndone ==
  [][\A p \in Procs :
       pc[p] \in {"exec", "upsert"} /\ pc'[p] = "record" /\ ~IsTx(queue[p])
         => queue[p][1].file \notin UndoFiles]_vars

\* What the history table calls done of the migrations that run in transactions is in
\* the database, in full: no run takes it away again while the row stays, and no
\* partial run gets the row.  Any number of concurrent runs and any crash leave this
\* true.
TransactionalRecorded ==
  \A f \in Transactional :
    history[f].success => times[f] > 0 /\ f \notin residue

\* The retries are bounded: every run of migrate ends.
EveryRunEnds == \A p \in Procs : pc[p] # "idle" ~> pc[p] = "idle"

\* Under transactions, migrate implements the ledger: each of its steps applies a
\* batch of what is left to do, rejects one, or is invisible there.
Ledger == INSTANCE MigrationLedger
            WITH Files <- Files, Repeatable <- Repeatable, MaxVersion <- MaxVersion,
                 history <- history, times <- times, version <- version, content <- content
ImplementsLedger == Ledger!Spec
=============================================================================

---------------------------- MODULE HistoryCommands ----------------------------
(***************************************************************************)
(* `sqddl touch`, `rm`, `mv` and `ls` (src/ddl/touch_cmd.go, rm_cmd.go,    *)
(* mv_cmd.go, ls_cmd.go), which change or show the history table that      *)
(* `sqddl migrate` works from, by any number of processes at the same      *)
(* time, while migrate runs and users edit the directory.                  *)
(*                                                                         *)
(* Here migrate is what MigrationLedger makes of it: it reads what is left *)
(* to do, and later records some of that in one step.  Migrate has the     *)
(* rest.  Contents are numbers, 0 where there is no file; a checksum is    *)
(* that of a content, 0 the NULL of a migration that is not repeatable.    *)
(***************************************************************************)
EXTENDS BatchInsert, FiniteSets

CONSTANTS
  Procs,       \* processes that may run sqddl
  Files,       \* names of files
  Reserved,    \* the ones that are no migrations: *.undo.sql, schema.sql, ...
  Repeatable,  \* repeatable/...
  Lexical,     \* the order in which walkDir lists them
  Dialects,    \* the dialects the database may have
  ArgLists,    \* the lists of filenames that touch and rm may be given
  Moves,       \* the pairs of filenames that mv may be given
  Directories, \* the contents that the directory may have at first
  Histories,   \* the rows that the history table may have at first
  Edited,      \* bound: the files that users change meanwhile
  MaxVersion,  \* bound: contents that a file may have
  MaxRuns,     \* bound: commands in a behaviour
  MaxEdits,    \* bound: changes of files in a behaviour
  Faults       \* what may go wrong: "fail", a command at any point; "read", the result of a query

\* A row of the history table.
Row == [valid : BOOLEAN, checksum : 0 .. MaxVersion, success : BOOLEAN]
NoRow == [valid |-> FALSE, checksum |-> 0, success |-> FALSE]

Columns == 5    \* filename, checksum, started_at, time_taken_ns, success

ASSUME HistoryAssumption ==
  /\ Reserved \subseteq Files
  /\ Repeatable \subseteq Files
  /\ Edited \subseteq Files
  /\ Lexical \in Seq(Files)
  /\ Dialects \subseteq DOMAIN ParamLimit
  /\ \A d \in Dialects : ParamLimit[d] >= Columns
  /\ ArgLists \subseteq Seq(Files)
  /\ Moves \subseteq Files \X Files
  /\ Directories \subseteq [Files -> 0 .. MaxVersion]
  /\ Histories \subseteq [Files -> Row]
  /\ \A h \in Histories : \A f \in Files \ Repeatable : h[f].checksum = 0
  /\ MaxVersion \in Nat
  /\ MaxRuns \in Nat
  /\ MaxEdits \in Nat

VARIABLES
  dialect,      \* cmd.Dialect
  tableExists,  \* the history table has been created
  history,      \* its rows
  content,      \* the directory
  theirs,       \* the checksums that the name of a file has had a right to
  runs,         \* commands so far
  edits,        \* changes of files so far
  pc,           \* of each process: where it is
  names,        \* ... cmd.Filenames; the source and the destination of mv
  todo,         \* ... the positions of names that are left
  rowvalue,     \* ... touch: row[1], which BatchInsert does not clear between rows
  batch,        \* ... touch: BatchInsert's args
  written,      \* ... touch: the rows its transaction has written, and locks
  plan,         \* ... migrate: the checksums of what is to run; ls: the rows it read
  shown,        \* ... ls -all: the lines it has written
  quiet         \* ... nobody else has changed the history or the directory since it began

shared == <<tableExists, history, content, theirs>>
locals == <<names, todo, rowvalue, batch, written, plan, shown>>
vars == <<dialect, shared, runs, edits, pc, locals, quiet>>


\* sortAndFilterFilenames.
Migrations(a) == {i \in DOMAIN a : a[i] \notin Reserved}

\* Mutant: the names are taken as they come.
BeforeAsListed(a, i, j) == i <= j

Before(a, i, j) ==
  IF (a[i] \in Repeatable) = (a[j] \in Repeatable) THEN i <= j ELSE a[j] \in Repeatable

ChecksumOf(f) == IF f \in Repeatable THEN content[f] ELSE 0

\* What migrate runs.
UpToDate(f) ==
  /\ history[f].valid
  /\ history[f].success
  /\ f \notin Repeatable \/ history[f].checksum = content[f]

Pending == {f \in Files \ Reserved : content[f] # 0 /\ ~UpToDate(f)}

\* The rows of S are locked by the transaction of somebody else.  SQLite locks them all.
Blocked(p, S) ==
  \E q \in Procs \ {p} :
    DOMAIN written[q] # {} /\ (dialect = "sqlite" \/ S \cap DOMAIN written[q] # {})

\* What a mapping of some names makes of the rows.
Overwritten(rows, with) == [f \in Files |-> IF f \in DOMAIN with THEN with[f] ELSE rows[f]]

Nothing == [f \in {} |-> NoRow]

\* What a query for the rows S returns.  A result that breaks off looks like the end of it,
\* since rows.Err() is not looked at.
Results(S) == IF "read" \in Faults THEN SUBSET S ELSE {S}

-----------------------------------------------------------------------------

Init ==
  /\ dialect \in Dialects
  /\ history \in Histories
  /\ tableExists = \E f \in Files : history[f].valid
  /\ content \in Directories
  /\ theirs = [f \in Files |-> IF f \in Repeatable THEN {content[f], history[f].checksum} ELSE {0}]
  /\ runs = 0
  /\ edits = 0
  /\ pc = [p \in Procs |-> "idle"]
  /\ names = [p \in Procs |-> <<>>]
  /\ todo = [p \in Procs |-> {}]
  /\ rowvalue = [p \in Procs |-> 0]
  /\ batch = [p \in Procs |-> <<>>]
  /\ written = [p \in Procs |-> Nothing]
  /\ plan = [p \in Procs |-> Nothing]
  /\ shown = [p \in Procs |-> {}]
  /\ quiet = [p \in Procs |-> FALSE]

Goto(p, label) == pc' = [pc EXCEPT ![p] = label]

\* The transaction of touch is over; what has not been committed is gone.
Rollback(p) == written' = [written EXCEPT ![p] = Nothing]

\* A command ends, well or not.
End(p) ==
  /\ Goto(p, "idle")
  /\ names' = [names EXCEPT ![p] = <<>>]
  /\ todo' = [todo EXCEPT ![p] = {}]
  /\ rowvalue' = [rowvalue EXCEPT ![p] = 0]
  /\ batch' = [batch EXCEPT ![p] = <<>>]
  /\ Rollback(p)
  /\ plan' = [plan EXCEPT ![p] = Nothing]
  /\ shown' = [shown EXCEPT ![p] = {}]

\* Nobody else sees anything of it.
EndQuietly(p) ==
  /\ End(p)
  /\ quiet' = [quiet EXCEPT ![p] = FALSE]

\* A change that the commands of all others may see half of.
Disturb(p) == quiet' = [q \in Procs |-> q = p /\ quiet[q]]

EndDisturbing(p) ==
  /\ End(p)
  /\ quiet' = [q \in Procs |-> FALSE]

Start(p, label, a) ==
  /\ pc[p] = "idle"
  /\ runs < MaxRuns
  /\ runs' = runs + 1
  /\ Goto(p, label)
  /\ names' = [names EXCEPT ![p] = a]
  /\ quiet' = [quiet EXCEPT ![p] = TRUE]
  /\ UNCHANGED <<dialect, shared, edits, todo, rowvalue, batch, written, plan, shown>>

-----------------------------------------------------------------------------
(* touch *)

Touch(p) == \E a \in ArgLists : Start(p, "ensure", a)

\* ensureHistoryTableExists, then walkDir or validateFilesExist.
Ensure(p) ==
  /\ pc[p] = "ensure"
  /\ Goto(p, IF tableExists THEN "list" ELSE "create")
  /\ UNCHANGED <<dialect, shared, runs, edits, locals, quiet>>

Create(p) ==
  /\ pc[p] = "create"
  /\ ~tableExists
  /\ tableExists' = TRUE
  /\ Goto(p, "list")
  /\ Disturb(p)
  /\ UNCHANGED <<dialect, history, content, theirs, runs, edits, locals>>

\* Somebody else has created it meanwhile.
CreateFails(p) ==
  /\ pc[p] = "create"
  /\ tableExists
  /\ EndQuietly(p)
  /\ UNCHANGED <<dialect, shared, runs, edits>>

List(p) ==
  LET given == IF names[p] = <<>> THEN Lexical ELSE names[p]
  IN /\ pc[p] = "list"
     /\ \A i \in DOMAIN names[p] : content[names[p][i]] # 0
     /\ names' = [names EXCEPT ![p] = given]
     /\ todo' = [todo EXCEPT ![p] = {i \in Migrations(given) : content[given[i]] # 0}]
     /\ Goto(p, "next")
     /\ UNCHANGED <<dialect, shared, runs, edits, rowvalue, batch, written, plan, shown, quiet>>

FileMissing(p) ==
  /\ pc[p] = "list"
  /\ \E i \in DOMAIN names[p] : content[names[p][i]] = 0
  /\ EndQuietly(p)
  /\ UNCHANGED <<dialect, shared, runs, edits>>

\* The iterator of touch, and the loop of ExecContext around it.
NextRow(p) ==
  \E i \in todo[p] :
    LET f == names[p][i]
        sum == IF f \in Repeatable THEN content[f] ELSE rowvalue[p]
        rows == Append(batch[p], [key |-> f, checksum |-> sum])
    IN /\ pc[p] = "next"
       /\ \A j \in todo[p] : Before(names[p], i, j)
       /\ f \in Repeatable => content[f] # 0
       /\ rowvalue' = [rowvalue EXCEPT ![p] = sum]
       /\ batch' = [batch EXCEPT ![p] = rows]
       /\ todo' = [todo EXCEPT ![p] = @ \ {i}]
       /\ Goto(p, IF IsFull(rows, Batchsize(dialect, 0, Columns)) THEN "upsert" ELSE "next")
       /\ UNCHANGED <<dialect, shared, runs, edits, names, written, plan, shown, quiet>>

\* A repeatable migration has been removed since.
OpenFails(p) ==
  /\ pc[p] = "next"
  /\ \E i \in todo[p] : names[p][i] \in Repeatable /\ content[names[p][i]] = 0
                        /\ \A j \in todo[p] : Before(names[p], i, j)
  /\ EndQuietly(p)
  /\ UNCHANGED <<dialect, shared, runs, edits>>

\* Mutant: the rows that do not fill a batch are left out.
LeftoverDropped(p) == "commit"

\* Where the loop goes when the iterator has returned io.EOF.
Leftover(p) == IF batch[p] # <<>> THEN "upsert" ELSE "commit"

LastRow(p) ==
  /\ pc[p] = "next"
  /\ todo[p] = {}
  /\ Goto(p, Leftover(p))
  /\ UNCHANGED <<dialect, shared, runs, edits, locals, quiet>>

\* Mutant: the rows that were sent are kept.
KeptRows(rows) == rows

\* args after a batch.
RestRows(rows) == <<>>

\* One batch, in the transaction of touch.
Has(p) == {f \in Files : history[f].valid} \cup DOMAIN written[p]

Upsert(p) ==
  /\ pc[p] = "upsert"
  /\ ~Blocked(p, KeysOf(batch[p]))
  /\ Accepts(dialect, Has(p), batch[p])
  /\ \E rows \in Upserts(dialect, batch[p]) :
       written' = [written EXCEPT ![p] =
                     [f \in DOMAIN @ \cup DOMAIN rows |->
                        IF f \in DOMAIN rows
                        THEN [valid |-> TRUE, checksum |-> rows[f].checksum, success |-> TRUE]
                        ELSE @[f]]]
  /\ batch' = [batch EXCEPT ![p] = RestRows(@)]
  /\ Goto(p, "next")
  /\ UNCHANGED <<dialect, shared, runs, edits, names, todo, rowvalue, plan, shown, quiet>>

UpsertFails(p) ==
  /\ pc[p] = "upsert"
  /\ ~Blocked(p, KeysOf(batch[p]))
  /\ ~Accepts(dialect, Has(p), batch[p])
  /\ EndQuietly(p)
  /\ UNCHANGED <<dialect, shared, runs, edits>>

\* Who waits for whom.
WaitsFor(p, q) ==
  /\ p # q
  /\ pc[p] = "upsert"
  /\ KeysOf(batch[p]) \cap DOMAIN written[q] # {}

\* The server ends a transaction that waits for one that waits for it.
Victim(p) ==
  /\ \E S \in SUBSET Procs : p \in S /\ \A q \in S : \E r \in S : WaitsFor(q, r)
  /\ EndQuietly(p)
  /\ UNCHANGED <<dialect, shared, runs, edits>>

Commit(p) ==
  /\ pc[p] = "commit"
  /\ history' = Overwritten(history, written[p])
  /\ EndDisturbing(p)
  /\ UNCHANGED <<dialect, tableExists, content, theirs, runs, edits>>

-----------------------------------------------------------------------------
(* rm and mv: a look-up of the table, and one statement *)

Rm(p) == \E a \in ArgLists : Start(p, "rm", a)

Mv(p) == \E move \in Moves : Start(p, "mv", move)

LookUp(p) ==
  /\ pc[p] \in {"rm", "mv"}
  /\ tableExists /\ names[p] # <<>>
  /\ Goto(p, IF pc[p] = "rm" THEN "delete" ELSE "rename")
  /\ UNCHANGED <<dialect, shared, runs, edits, locals, quiet>>

NothingToChange(p) ==
  /\ pc[p] \in {"rm", "mv"}
  /\ ~tableExists \/ names[p] = <<>>
  /\ EndQuietly(p)
  /\ UNCHANGED <<dialect, shared, runs, edits>>

\* What a statement on the rows of S waits for: in Postgres, rows that it does not see yet
\* are none of its business.
WaitsOn(S) == {f \in S : dialect # "postgres" \/ history[f].valid}

Named(p) == {names[p][i] : i \in DOMAIN names[p]}

Delete(p) ==
  /\ pc[p] = "delete"
  /\ ~Blocked(p, WaitsOn(Named(p)))
  /\ history' = Overwritten(history, [f \in Named(p) |-> NoRow])
  /\ EndDisturbing(p)
  /\ UNCHANGED <<dialect, tableExists, content, theirs, runs, edits>>

\* The row of the name src is that of dest from now on, and so is its checksum.
Rename(p) ==
  LET src == names[p][1]
      dest == names[p][2]
  IN /\ pc[p] = "rename"
     /\ ~Blocked(p, {src, dest})
     /\ history[src].valid
     /\ src = dest \/ ~history[dest].valid
     /\ history' = Overwritten(history, [f \in {src, dest} |-> IF f = dest THEN history[src] ELSE NoRow])
     /\ theirs' = [theirs EXCEPT ![dest] = @ \cup theirs[src]]
     /\ EndDisturbing(p)
     /\ UNCHANGED <<dialect, tableExists, content, runs, edits>>

\* There is no such row, or there is one of the new name, or the statement fails for any
\* other reason: the error is not returned.
RenameNothing(p) ==
  /\ pc[p] = "rename"
  /\ \/ ~history[names[p][1]].valid
     \/ history[names[p][2]].valid
     \/ "fail" \in Faults
  /\ EndQuietly(p)
  /\ UNCHANGED <<dialect, shared, runs, edits>>

-----------------------------------------------------------------------------
(* ls -all.  Its other flags leave out lines. *)

Ls(p) == Start(p, "walk", <<>>)

Walk(p) ==
  /\ pc[p] = "walk"
  /\ names' = [names EXCEPT ![p] = Lexical]
  /\ todo' = [todo EXCEPT ![p] = {i \in Migrations(Lexical) : content[Lexical[i]] # 0}]
  /\ Goto(p, "select")
  /\ UNCHANGED <<dialect, shared, runs, edits, rowvalue, batch, written, plan, shown, quiet>>

\* Without files it asks for IN (), which only SQLite takes.
Select(p) ==
  LET listed == {names[p][i] : i \in todo[p]}
  IN /\ pc[p] = "select"
     /\ tableExists => listed # {} \/ dialect = "sqlite"
     /\ \E S \in Results({f \in listed : history[f].valid}) :
          plan' = [plan EXCEPT ![p] = [f \in S |-> history[f]]]
     /\ Goto(p, IF tableExists THEN "print" ELSE "tableless")
     /\ UNCHANGED <<dialect, shared, runs, edits, names, todo, rowvalue, batch, written, shown, quiet>>

SelectFails(p) ==
  /\ pc[p] = "select"
  /\ tableExists /\ todo[p] = {} /\ dialect # "sqlite"
  /\ EndQuietly(p)
  /\ UNCHANGED <<dialect, shared, runs, edits>>

\* Mutant: what has been run is applied, whatever has become of the file.
StatusOfRow(p, f) ==
  IF f \notin DOMAIN plan[p] THEN "pending" ELSE IF plan[p][f].success THEN "applied" ELSE "failed"

Status(p, f) ==
  CASE f \notin DOMAIN plan[p] -> "pending"
    [] f \in DOMAIN plan[p] /\ ~plan[p][f].success -> "failed"
    [] OTHER -> IF f \in Repeatable /\ content[f] # plan[p][f].checksum THEN "pending" ELSE "applied"

\* The file of a repeatable migration that has been run is read.
Unreadable(p, f) ==
  f \in Repeatable /\ content[f] = 0 /\ f \in DOMAIN plan[p] /\ plan[p][f].success

PrintLine(p) ==
  \E i \in todo[p] :
    LET f == names[p][i]
    IN /\ pc[p] \in {"print", "tableless"}
       /\ \A j \in todo[p] : Before(names[p], i, j)
       /\ ~Unreadable(p, f)
       /\ shown' = [shown EXCEPT ![p] = @ \cup {<<Status(p, f), f>>}]
       /\ todo' = [todo EXCEPT ![p] = @ \ {i}]
       /\ UNCHANGED <<dialect, shared, runs, edits, pc, names, rowvalue, batch, written, plan, quiet>>

PrintFails(p) ==
  /\ pc[p] \in {"print", "tableless"}
  /\ \E i \in todo[p] : Unreadable(p, names[p][i]) /\ \A j \in todo[p] : Before(names[p], i, j)
  /\ EndQuietly(p)
  /\ UNCHANGED <<dialect, shared, runs, edits>>

\* The rows of no file, by a query of its own, are the last lines.
Missing(p) == {f \in Files : pc[p] = "print" /\ history[f].valid} \ {line[2] : line \in shown[p]}

PrintMissing(p) ==
  /\ pc[p] \in {"print", "tableless"}
  /\ todo[p] = {}
  /\ \E S \in Results(Missing(p)) :
       shown' = [shown EXCEPT ![p] = @ \cup {<<"missing", f>> : f \in S}]
  /\ Goto(p, "printed")
  /\ UNCHANGED <<dialect, shared, runs, edits, names, todo, rowvalue, batch, written, plan, quiet>>

LsEnds(p) ==
  /\ pc[p] = "printed"
  /\ EndQuietly(p)
  /\ UNCHANGED <<dialect, shared, runs, edits>>

-----------------------------------------------------------------------------
(* migrate, users, and what goes wrong *)

Migrate(p) == Start(p, "read", <<>>)

\* Without its row, a migration is to be run whatever has become of it.
Again(S) == {f \in Files \ Reserved : content[f] # 0} \ S

Read(p) ==
  /\ pc[p] = "read"
  /\ tableExists' = TRUE
  /\ \E S \in Results({f \in Files : history[f].valid}) :
       plan' = [plan EXCEPT ![p] = [f \in Pending \cup Again(S) |->
                  [valid |-> TRUE, checksum |-> ChecksumOf(f), success |-> TRUE]]]
  /\ Goto(p, "apply")
  /\ IF tableExists THEN UNCHANGED quiet ELSE Disturb(p)
  /\ UNCHANGED <<dialect, history, content, theirs, runs, edits, names, todo, rowvalue, batch, written, shown>>

\* Some of what is left to do is recorded as run, or as failed.
Apply(p) ==
  /\ pc[p] = "apply"
  /\ ~Blocked(p, DOMAIN plan[p])
  /\ \E S \in SUBSET DOMAIN plan[p], ok \in BOOLEAN :
       history' = Overwritten(history, [f \in S |-> [plan[p][f] EXCEPT !.success = ok]])
  /\ EndDisturbing(p)
  /\ UNCHANGED <<dialect, tableExists, content, theirs, runs, edits>>

\* Files are written, edited and removed.  Only of repeatable ones does the content matter.
Edit(f) ==
  \E v \in {n \in 0 .. MaxVersion : n # content[f] /\ (f \in Repeatable \/ n <= 1)} :
    /\ edits < MaxEdits
    /\ edits' = edits + 1
    /\ content' = [content EXCEPT ![f] = v]
    /\ theirs' = [theirs EXCEPT ![f] = IF f \in Repeatable THEN @ \cup {v} ELSE @]
    /\ quiet' = [p \in Procs |-> FALSE]
    /\ UNCHANGED <<dialect, tableExists, history, runs, pc, locals>>

\* A statement fails, or the process or its connection dies.
Fail(p) ==
  /\ "fail" \in Faults
  /\ pc[p] \notin {"idle", "rename"}
  /\ EndQuietly(p)
  /\ UNCHANGED <<dialect, shared, runs, edits>>

Begins(p) == Touch(p) \/ Rm(p) \/ Mv(p) \/ Ls(p) \/ Migrate(p)

Touches(p) ==
  \/ Ensure(p) \/ Create(p) \/ CreateFails(p) \/ List(p) \/ FileMissing(p)
  \/ NextRow(p) \/ OpenFails(p) \/ LastRow(p)
  \/ Upsert(p) \/ UpsertFails(p) \/ Victim(p) \/ Commit(p)

Changes(p) ==
  \/ LookUp(p) \/ NothingToChange(p) \/ Delete(p) \/ Rename(p) \/ RenameNothing(p)
  \/ Read(p) \/ Apply(p)

Lists(p) ==
  \/ Walk(p) \/ Select(p) \/ SelectFails(p)
  \/ PrintLine(p) \/ PrintFails(p) \/ PrintMissing(p) \/ LsEnds(p)

Step(p) == Touches(p) \/ Changes(p) \/ Lists(p)

Next ==
  \/ \E p \in Procs : Begins(p) \/ Step(p) \/ Fail(p)
  \/ \E f \in Edited : Edit(f)

Spec == Init /\ [][Next]_vars

\* Processes run until they end, and locks are given away in turn.
FairSpec == Spec /\ \A p \in Procs : WF_vars(Step(p))

-----------------------------------------------------------------------------
(* Properties *)

Labels == {"idle", "ensure", "create", "list", "next", "upsert", "commit", "rm", "mv", "delete",
           "rename", "walk", "select", "print", "tableless", "printed", "read", "apply"}

IsMapping(g) == DOMAIN g \subseteq Files /\ g = [f \in DOMAIN g |-> g[f]] /\ \A f \in DOMAIN g : g[f] \in Row

\* Nobody writes but touch, between its first batch and its end.
TypeOK ==
  /\ dialect \in Dialects
  /\ tableExists \in BOOLEAN
  /\ history \in [Files -> Row]
  /\ content \in [Files -> 0 .. MaxVersion]
  /\ theirs \in [Files -> SUBSET (0 .. MaxVersion)]
  /\ runs \in 0 .. MaxRuns
  /\ edits \in 0 .. MaxEdits
  /\ pc \in [Procs -> Labels]
  /\ names \in [Procs -> Seq(Files)]
  /\ todo \in [Procs -> SUBSET Nat]
  /\ \A p \in Procs :
       /\ todo[p] \subseteq DOMAIN names[p]
       /\ pc[p] = "idle" => todo[p] = {}
       /\ pc[p] \in {"mv", "rename"} => Len(names[p]) = 2
  /\ rowvalue \in [Procs -> 0 .. MaxVersion]
  /\ batch \in [Procs -> Seq([key : Files, checksum : 0 .. MaxVersion])]
  /\ DOMAIN written = Procs /\ DOMAIN plan = Procs
  /\ \A p \in Procs : IsMapping(written[p]) /\ IsMapping(plan[p])
  /\ \A p \in Procs : DOMAIN written[p] # {} => pc[p] \in {"next", "upsert", "commit"}
  /\ quiet \in [Procs -> BOOLEAN]

\* The checksum in a row is one of a content that the file of this name has had, or the
\* file that the row was renamed from; a migration that is not repeatable has none.
ChecksumsAreTheirs ==
  \A f \in Files : history[f].valid => history[f].checksum \in theirs[f]

\* A batch has a row, and no more parameters than a statement may have.
StatementsFit ==
  \A p \in Procs : pc[p] = "upsert" =>
    Len(batch[p]) > 0 /\ Len(batch[p]) * Columns <= ParamLimit[dialect]

\* If nobody changes anything meanwhile, ls shows everything that migrate would run
\* (src/sqddl.md: "shows the pending migrations to be run. No output means no pending
\* migrations"), even where the result of a query has broken off, and it has one line at
\* most for a name; if its first query has returned all the rows of the files, it shows
\* nothing else as pending or failed.
ToRun(p) == {line[2] : line \in {l \in shown[p] : l[1] \in {"pending", "failed"}}}

ReadAll(p) == {f \in Files \ Reserved : content[f] # 0 /\ history[f].valid} \subseteq DOMAIN plan[p]

LsTellsMigrate ==
  \A p \in Procs : pc[p] = "printed" /\ quiet[p] =>
    /\ Pending \subseteq ToRun(p)
    /\ \A l, m \in shown[p] : l[2] = m[2] => l = m
    /\ ReadAll(p) => ToRun(p) = Pending

\* When touch says that it is done, there is nothing left to run of what it was given (of
\* the whole directory, if that was nothing), if nobody has changed anything meanwhile.
TouchAdopts ==
  [][\A p \in Procs : Commit(p) /\ quiet[p] =>
       \A i \in DOMAIN names[p] : names[p][i] \notin Pending']_vars

\* Every command ends, though touches wait for each other's rows.
EveryCommandEnds == \A p \in Procs : pc[p] # "idle" ~> pc[p] = "idle"
=============================================================================

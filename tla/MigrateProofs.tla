---------------------------- MODULE MigrateProofs ----------------------------
(* Theorems about Migrate, for every value of its constants. *)
EXTENDS Migrate, SequenceTheorems, TLAPS

(***************************************************************************)
(* Facts about the helpers.                                                *)
(***************************************************************************)

\* A file of a batch is queued with a checksum that a history row can hold.
LEMMA QueuedChecksumType ==
  ASSUME NEW q \in Seq(Migration), NEW f \in FilesOf(q)
  PROVE  QueuedChecksum(q, f) \in 0 .. MaxVersion
<1>1. PICK k \in DOMAIN q : q[k].file = f
  BY DEF FilesOf
<1>2. DEFINE c == CHOOSE j \in DOMAIN q : q[j].file = f
<1>3. c \in DOMAIN q
  BY <1>1
<1>4. q[c] \in Migration
  BY <1>3, ElementOfSeq, LenProperties
<1>5. QED
  BY <1>4 DEF QueuedChecksum, Migration

\* An upsert leaves a history of rows.
LEMMA RecordedType ==
  ASSUME NEW q \in Seq(Migration), NEW ok \in BOOLEAN, history \in [Files -> Row]
  PROVE  Recorded(q, ok) \in [Files -> Row]
<1>1. ASSUME NEW f \in Files, f \in FilesOf(q)
      PROVE  [valid |-> TRUE, checksum |-> QueuedChecksum(q, f), success |-> ok] \in Row
  BY <1>1, QueuedChecksumType DEF Row
<1>2. QED
  BY <1>1 DEF Recorded

\* The part of a batch a failure is recorded for is a batch.
LEMMA AttemptedType ==
  ASSUME NEW q \in Seq(Migration), NEW n \in Nat
  PROVE  Attempted(q, n) \in Seq(Migration)
<1>1. Len(q) \in Nat
  OBVIOUS
<1>2. QED
  BY <1>1, SubSeqProperties DEF Attempted

(***************************************************************************)
(* Type correctness.                                                       *)
(***************************************************************************)

\* What TypeOK says of the variables of the database and of the directory.
DatabaseTypeOK ==
  /\ tableExists \in BOOLEAN
  /\ history \in [Files -> Row]
  /\ times \in [Files -> 0 .. 2]
  /\ residue \in SUBSET Files
  /\ version \in [Files -> 0 .. MaxVersion]
  /\ content \in [Files -> Versions]
  /\ starts \in 0 .. MaxStarts

\* What it says of the processes.
ProcessTypeOK ==
  /\ pc \in [Procs -> Labels]
  /\ args \in [Procs -> Seq(Files)]
  /\ todo \in [Procs -> SUBSET Nat]
  /\ \A p \in Procs : todo[p] \subseteq DOMAIN args[p]
  /\ \A p \in Procs : seen[p] \in [DOMAIN args[p] -> Row]
  /\ DOMAIN seen = Procs
  /\ queue \in [Procs -> Seq(Migration)]
  /\ held \in [Procs -> Seq(Migration)]
  /\ attempts \in [Procs -> 0 .. MaxAttempts]
  /\ done \in [Procs -> Nat]
  /\ \A p \in Procs : done[p] <= Len(queue[p])
  /\ \A p \in Procs : pc[p] \in {"exec", "upsert"} => done[p] < Len(queue[p])
  /\ \A p \in Procs : pc[p] \in {"begin", "commit", "undo", "record"} => queue[p] # <<>>
  /\ \A p \in Procs : pc[p] \in {"idle", "ensure", "create", "read", "plan"} => attempts[p] = 0
  /\ \A p \in Procs : pc[p] = "begin" => attempts[p] < MaxAttempts

\* The inductive form of TypeOK: attempts stays in its range because it is reset
\* with every batch, and because a batch is tried again only below the limit.
Typed == DatabaseTypeOK /\ ProcessTypeOK

LEMMA TypedIsTypeOK == Typed => TypeOK
  BY DEF TypeOK, Typed, DatabaseTypeOK, ProcessTypeOK

\* What a script does to the database keeps the types of the database.
LEMMA ExecuteType ==
  ASSUME DatabaseTypeOK, NEW q \in Seq(Migration), Execute(q)
  PROVE  /\ times' \in [Files -> 0 .. 2]
         /\ residue' \in SUBSET Files
         /\ version' \in [Files -> 0 .. MaxVersion]
  BY MigrateAssumption DEF DatabaseTypeOK, Execute, Versions

\* A process that ends has well-typed (empty) local variables.
LEMMA LeaveType ==
  ASSUME ProcessTypeOK, NEW p \in Procs, Leave(p)
  PROVE  ProcessTypeOK'
<1>1. /\ <<>> \in Seq(Files) /\ <<>> \in Seq(Migration) /\ Len(<<>>) = 0
      /\ DOMAIN <<>> = {} /\ <<>> \in [{} -> Row]
  OBVIOUS
<1>2. /\ pc' \in [Procs -> Labels]
      /\ args' \in [Procs -> Seq(Files)]
      /\ todo' \in [Procs -> SUBSET Nat]
      /\ DOMAIN seen' = Procs
      /\ queue' \in [Procs -> Seq(Migration)]
      /\ held' \in [Procs -> Seq(Migration)]
      /\ attempts' \in [Procs -> 0 .. MaxAttempts]
      /\ done' \in [Procs -> Nat]
  BY <1>1, MigrateAssumption DEF ProcessTypeOK, Leave, Goto, Labels
<1>3. ASSUME NEW q \in Procs
      PROVE  /\ todo'[q] \subseteq DOMAIN args'[q]
             /\ seen'[q] \in [DOMAIN args'[q] -> Row]
             /\ done'[q] <= Len(queue'[q])
             /\ pc'[q] \in {"exec", "upsert"} => done'[q] < Len(queue'[q])
             /\ pc'[q] \in {"begin", "commit", "undo", "record"} => queue'[q] # <<>>
             /\ pc'[q] \in {"idle", "ensure", "create", "read", "plan"} => attempts'[q] = 0
             /\ pc'[q] = "begin" => attempts'[q] < MaxAttempts
  <2>1. CASE q = p
    BY <2>1, <1>1 DEF ProcessTypeOK, Leave, Goto
  <2>2. CASE q # p
    BY <2>2 DEF ProcessTypeOK, Leave, Goto
  <2>3. QED
    BY <2>1, <2>2
<1>4. QED
  BY <1>2, <1>3 DEF ProcessTypeOK

\* A move of the control point alone keeps the types, if the new label allows
\* the batch the process has.
LEMMA GotoType ==
  ASSUME ProcessTypeOK, NEW p \in Procs, NEW l \in Labels, Goto(p, l), UNCHANGED locals,
         l \in {"exec", "upsert"} => done[p] < Len(queue[p]),
         l \in {"begin", "commit", "undo", "record"} => queue[p] # <<>>,
         l \in {"idle", "ensure", "create", "read", "plan"} => attempts[p] = 0,
         l = "begin" => attempts[p] < MaxAttempts
  PROVE  ProcessTypeOK'
  BY DEF ProcessTypeOK, Goto, locals

LEMMA FailType ==
  ASSUME ProcessTypeOK, NEW p \in Procs, NEW t \in BOOLEAN, queue[p] # <<>>, Fail(p, t)
  PROVE  ProcessTypeOK'
<1>1. CASE /\ UNCHANGED locals
           /\ \E l \in {"begin", "record", "undo"} :
                Goto(p, l) /\ (l = "begin" => ~GivesUp(p))
  <2>1. PICK l \in {"begin", "record", "undo"} :
          Goto(p, l) /\ (l = "begin" => ~GivesUp(p))
    BY <1>1
  <2>2. l = "begin" => attempts[p] < MaxAttempts
    BY <2>1, MigrateAssumption DEF ProcessTypeOK, GivesUp
  <2>3. QED
    BY <1>1, <2>1, <2>2, GotoType DEF Labels
<1>2. CASE Leave(p)
  BY <1>2, LeaveType
<1>3. QED
  BY <1>1, <1>2 DEF Fail

LEMMA FlushedType ==
  ASSUME ProcessTypeOK, NEW p \in Procs, Flushed(p)
  PROVE  ProcessTypeOK'
<1>1. /\ <<>> \in Seq(Migration) /\ \A q \in Procs : Len(held[q]) \in Nat
  BY DEF ProcessTypeOK
<1>2. QED
  BY <1>1, MigrateAssumption DEF ProcessTypeOK, Flushed, Goto, Labels

LEMMA AdvanceType ==
  ASSUME ProcessTypeOK, NEW p \in Procs, done[p] < Len(queue[p]), Advance(p)
  PROVE  ProcessTypeOK'
<1>1. CASE Flushed(p)
  BY <1>1, FlushedType
<1>2. CASE /\ done' = [done EXCEPT ![p] = @ + 1]
           /\ Goto(p, IF done[p] + 1 = Len(queue[p]) THEN "commit" ELSE "exec")
           /\ UNCHANGED <<args, todo, seen, queue, held, attempts>>
  <2>1. queue[p] # <<>> /\ Len(queue[p]) \in Nat /\ done[p] \in Nat
    BY DEF ProcessTypeOK
  <2>2. QED
    BY <1>2, <2>1 DEF ProcessTypeOK, Goto, Labels
<1>3. QED
  BY <1>1, <1>2 DEF Advance

LEMMA StartType ==
  ASSUME Typed, NEW p \in Procs, Start(p)
  PROVE  Typed'
<1>1. PICK a \in ArgLists :
        /\ args' = [args EXCEPT ![p] = a]
        /\ todo' = [todo EXCEPT ![p] = {i \in DOMAIN a : a[i] \notin Reserved}]
        /\ seen' = [seen EXCEPT ![p] = [i \in DOMAIN a |-> NoRow]]
  BY DEF Start
<1>2. a \in Seq(Files) /\ DOMAIN a = 1 .. Len(a) /\ Len(a) \in Nat
  BY MigrateAssumption
<1>3. DatabaseTypeOK'
  BY MigrateAssumption DEF Typed, DatabaseTypeOK, Start, db
<1>4. NoRow \in Row
  BY MigrateAssumption DEF NoRow, Row
<1>5. ProcessTypeOK'
  <2>1. /\ pc' \in [Procs -> Labels]
        /\ args' \in [Procs -> Seq(Files)]
        /\ todo' \in [Procs -> SUBSET Nat]
        /\ DOMAIN seen' = Procs
        /\ UNCHANGED <<queue, held, attempts, done>>
    BY <1>1, <1>2 DEF Typed, ProcessTypeOK, Start, Goto, Labels
  <2>2. ASSUME NEW q \in Procs
        PROVE  /\ todo'[q] \subseteq DOMAIN args'[q]
               /\ seen'[q] \in [DOMAIN args'[q] -> Row]
    <3>1. CASE q = p
      BY <3>1, <1>1, <1>2, <1>4 DEF Typed, ProcessTypeOK
    <3>2. CASE q # p
      BY <3>2, <1>1 DEF Typed, ProcessTypeOK
    <3>3. QED
      BY <3>1, <3>2
  <2>3. ASSUME NEW q \in Procs
        PROVE  /\ pc'[q] \in {"exec", "upsert"} => done'[q] < Len(queue'[q])
               /\ pc'[q] \in {"begin", "commit", "undo", "record"} => queue'[q] # <<>>
               /\ pc'[q] \in {"idle", "ensure", "create", "read", "plan"} => attempts'[q] = 0
               /\ pc'[q] = "begin" => attempts'[q] < MaxAttempts
    BY <2>1 DEF Typed, ProcessTypeOK, Start, Goto
  <2>4. QED
    BY <2>1, <2>2, <2>3 DEF Typed, ProcessTypeOK
<1>6. QED
  BY <1>3, <1>5 DEF Typed

LEMMA EnsureType ==
  ASSUME Typed, NEW p \in Procs, Ensure(p)
  PROVE  Typed'
<1>1. DatabaseTypeOK'
  BY DEF Typed, DatabaseTypeOK, Ensure, db
<1>2. PICK l \in {"read", "create"} : Goto(p, l)
  BY DEF Ensure
<1>3. attempts[p] = 0
  BY DEF Typed, ProcessTypeOK, Ensure
<1>4. ProcessTypeOK'
  BY <1>2, <1>3, GotoType DEF Typed, Ensure, Labels
<1>5. QED
  BY <1>1, <1>4 DEF Typed

LEMMA CreateType ==
  ASSUME Typed, NEW p \in Procs, Create(p)
  PROVE  Typed'
<1>1. DatabaseTypeOK'
  BY DEF Typed, DatabaseTypeOK, Create
<1>2. attempts[p] = 0
  BY DEF Typed, ProcessTypeOK, Create
<1>3. ProcessTypeOK'
  BY <1>2, GotoType, LeaveType DEF Typed, Create, Labels
<1>4. QED
  BY <1>1, <1>3 DEF Typed

LEMMA ReadHistoryType ==
  ASSUME Typed, NEW p \in Procs, ReadHistory(p)
  PROVE  Typed'
<1>1. NoRow \in Row
  BY MigrateAssumption DEF NoRow, Row
<1>2. PICK lost \in SUBSET DOMAIN args[p] :
        seen' = [seen EXCEPT ![p] = [i \in DOMAIN args[p] |->
          IF i \in lost \/ \E j \in DOMAIN args[p] : j > i /\ args[p][j] = args[p][i]
          THEN NoRow ELSE history[args[p][i]]]]
  BY DEF ReadHistory
<1>3. \A i \in DOMAIN args[p] : args[p][i] \in Files
  BY DEF Typed, ProcessTypeOK
<1>4. \A q \in Procs : seen'[q] \in [DOMAIN args[q] -> Row]
  <2>1. SUFFICES ASSUME NEW q \in Procs PROVE seen'[q] \in [DOMAIN args[q] -> Row]
    OBVIOUS
  <2>2. CASE q = p
    BY <2>2, <1>1, <1>2, <1>3 DEF Typed, DatabaseTypeOK, ProcessTypeOK
  <2>3. CASE q # p
    BY <2>3, <1>2 DEF Typed, ProcessTypeOK
  <2>4. QED
    BY <2>2, <2>3
<1>5. DOMAIN seen' = Procs
  BY <1>2 DEF Typed, ProcessTypeOK
<1>6. ProcessTypeOK'
  BY <1>4, <1>5 DEF Typed, ProcessTypeOK, ReadHistory, Goto, Labels
<1>7. DatabaseTypeOK'
  BY DEF Typed, DatabaseTypeOK, ReadHistory, db
<1>8. QED
  BY <1>6, <1>7 DEF Typed

LEMMA PlanType ==
  ASSUME Typed, NEW p \in Procs, Plan(p)
  PROVE  Typed'
<1>1. PICK i \in todo[p] :
        LET f == args[p][i]
            m == [pos |-> i, file |-> f, checksum |-> ChecksumOf(f)]
        IN /\ todo' = [todo EXCEPT ![p] = @ \ {i}]
           /\ \/ UNCHANGED <<queue, held, pc>>
              \/ /\ queue' = [queue EXCEPT ![p] = Append(@, m)]
                 /\ UNCHANGED <<held, pc>>
              \/ /\ queue[p] # <<>>
                 /\ held' = [held EXCEPT ![p] = <<m>>]
                 /\ Goto(p, "begin")
                 /\ UNCHANGED queue
  BY DEF Plan
<1>2. DEFINE f == args[p][i]
             m == [pos |-> i, file |-> f, checksum |-> ChecksumOf(f)]
<1>3. i \in Nat /\ f \in Files
  BY DEF Typed, ProcessTypeOK
<1>4. m \in Migration
  <2>1. content[f] \in 0 .. MaxVersion /\ 0 \in 0 .. MaxVersion
    BY <1>3, MigrateAssumption DEF Typed, DatabaseTypeOK, Versions
  <2>2. QED
    BY <1>3, <2>1 DEF Migration, ChecksumOf
<1>5. <<m>> \in Seq(Migration)
  BY <1>4
<1>6. \A q \in Procs : Append(queue[q], m) \in Seq(Migration)
                       /\ Len(Append(queue[q], m)) = Len(queue[q]) + 1
                       /\ Len(queue[q]) \in Nat
  BY <1>4 DEF Typed, ProcessTypeOK
<1>7. UNCHANGED <<db, content, starts, args, seen, attempts, done>> /\ pc[p] = "plan"
  BY DEF Plan
<1>8. todo' \in [Procs -> SUBSET Nat] /\ \A q \in Procs : todo'[q] \subseteq DOMAIN args'[q]
  BY <1>1, <1>7 DEF Typed, ProcessTypeOK
<1>9. ASSUME UNCHANGED <<queue, held, pc>> PROVE ProcessTypeOK'
  BY <1>7, <1>8, <1>9 DEF Typed, ProcessTypeOK
<1>10. ASSUME queue' = [queue EXCEPT ![p] = Append(@, m)], UNCHANGED <<held, pc>>
       PROVE  ProcessTypeOK'
  <2>1. queue' \in [Procs -> Seq(Migration)]
    BY <1>6, <1>10 DEF Typed, ProcessTypeOK
  <2>2. \A q \in Procs : done'[q] <= Len(queue'[q])
    BY <1>6, <1>7, <1>10 DEF Typed, ProcessTypeOK
  <2>3. ASSUME NEW q \in Procs
        PROVE  /\ pc'[q] \in {"exec", "upsert"} => done'[q] < Len(queue'[q])
               /\ pc'[q] \in {"begin", "commit", "undo", "record"} => queue'[q] # <<>>
               /\ pc'[q] \in {"idle", "ensure", "create", "read", "plan"} => attempts'[q] = 0
               /\ pc'[q] = "begin" => attempts'[q] < MaxAttempts
    BY <1>7, <1>10 DEF Typed, ProcessTypeOK
  <2>4. QED
    BY <1>7, <1>8, <1>10, <2>1, <2>2, <2>3 DEF Typed, ProcessTypeOK
<1>11. ASSUME queue[p] # <<>>, held' = [held EXCEPT ![p] = <<m>>], Goto(p, "begin"),
              UNCHANGED queue
       PROVE  ProcessTypeOK'
  BY <1>5, <1>7, <1>8, <1>11, MigrateAssumption DEF Typed, ProcessTypeOK, Goto, Labels
<1>12. ProcessTypeOK'
  BY <1>1, <1>9, <1>10, <1>11
<1>13. DatabaseTypeOK'
  BY <1>7 DEF Typed, DatabaseTypeOK, db
<1>14. QED
  BY <1>12, <1>13 DEF Typed

LEMMA PlanDoneType ==
  ASSUME Typed, NEW p \in Procs, PlanDone(p)
  PROVE  Typed'
<1>1. DatabaseTypeOK'
  BY DEF Typed, DatabaseTypeOK, PlanDone, db
<1>2. attempts[p] = 0 /\ 0 < MaxAttempts
  BY MigrateAssumption DEF Typed, ProcessTypeOK, PlanDone
<1>3. ProcessTypeOK'
  BY <1>2, GotoType, LeaveType DEF Typed, PlanDone, Labels
<1>4. QED
  BY <1>1, <1>3 DEF Typed

LEMMA BeginType ==
  ASSUME Typed, NEW p \in Procs, Begin(p)
  PROVE  Typed'
<1>1. DatabaseTypeOK'
  BY DEF Typed, DatabaseTypeOK, Begin, db
<1>2. CASE Leave(p)
  BY <1>1, <1>2, LeaveType DEF Typed
<1>3. CASE /\ Goto(p, "exec")
           /\ attempts' = [attempts EXCEPT ![p] = NextAttempt(@)]
           /\ done' = [done EXCEPT ![p] = 0]
           /\ UNCHANGED <<args, todo, seen, queue, held>>
  <2>1. /\ queue[p] # <<>> /\ Len(queue[p]) \in Nat /\ queue[p] \in Seq(Migration)
        /\ attempts[p] < MaxAttempts
    BY DEF Typed, ProcessTypeOK, Begin
  <2>2. Len(queue[p]) > 0
    BY <2>1, EmptySeq
  <2>3. attempts' \in [Procs -> 0 .. MaxAttempts]
    BY <1>3, <2>1, MigrateAssumption DEF Typed, ProcessTypeOK, NextAttempt
  <2>4. ProcessTypeOK'
    BY <1>3, <2>1, <2>2, <2>3 DEF Typed, ProcessTypeOK, Goto, Labels
  <2>5. QED
    BY <1>1, <2>4 DEF Typed
<1>4. QED
  BY <1>2, <1>3 DEF Begin

LEMMA ExecType ==
  ASSUME Typed, NEW p \in Procs, Exec(p)
  PROVE  Typed'
<1>1. /\ done[p] < Len(queue[p]) /\ queue[p] # <<>> /\ queue[p] \in Seq(Migration)
      /\ done[p] \in Nat /\ Len(queue[p]) \in Nat
  BY DEF Typed, ProcessTypeOK, Exec
<1>2. UNCHANGED <<tableExists, history, content, starts>>
  BY DEF Exec
<1>3. CASE /\ IF IsTx(queue[p]) THEN UNCHANGED <<times, residue, version>>
              ELSE Execute(queue[p])
           /\ IF SkipHistoryTable THEN Advance(p)
              ELSE Goto(p, "upsert") /\ UNCHANGED locals
  <2>1. /\ times' \in [Files -> 0 .. 2]
        /\ residue' \in SUBSET Files
        /\ version' \in [Files -> 0 .. MaxVersion]
    BY <1>1, <1>3, ExecuteType DEF Typed, DatabaseTypeOK
  <2>2. DatabaseTypeOK'
    BY <1>2, <2>1 DEF Typed, DatabaseTypeOK
  <2>3. ProcessTypeOK'
    BY <1>1, <1>3, AdvanceType, GotoType DEF Typed, Labels
  <2>4. QED
    BY <2>2, <2>3 DEF Typed
<1>4. ASSUME NEW fault \in {"script", "lock"} \cap Faults,
             \/ UNCHANGED residue
             \/ residue' = residue \cup {queue[p][done[p] + 1].file},
             Fail(p, fault = "lock"), UNCHANGED <<times, version>>
      PROVE  Typed'
  <2>1. queue[p][done[p] + 1].file \in Files
    <3>1. done[p] + 1 \in 1 .. Len(queue[p])
      BY <1>1
    <3>2. queue[p][done[p] + 1] \in Migration
      BY <1>1, <3>1, ElementOfSeq
    <3>3. QED
      BY <3>2 DEF Migration
  <2>2. DatabaseTypeOK'
    BY <1>2, <1>4, <2>1 DEF Typed, DatabaseTypeOK
  <2>3. ProcessTypeOK'
    BY <1>1, <1>4, FailType DEF Typed
  <2>4. QED
    BY <2>2, <2>3 DEF Typed
<1>5. QED
  BY <1>3, <1>4 DEF Exec

LEMMA UpsertType ==
  ASSUME Typed, NEW p \in Procs, Upsert(p)
  PROVE  Typed'
<1>1. /\ done[p] < Len(queue[p]) /\ queue[p] # <<>> /\ queue[p] \in Seq(Migration)
      /\ done[p] \in Nat /\ Len(queue[p]) \in Nat
  BY DEF Typed, ProcessTypeOK, Upsert
<1>2. DatabaseTypeOK'
  BY <1>1, RecordedType DEF Typed, DatabaseTypeOK, Upsert
<1>3. ProcessTypeOK'
  BY <1>1, AdvanceType, FailType DEF Typed, Upsert
<1>4. QED
  BY <1>2, <1>3 DEF Typed

LEMMA CommitType ==
  ASSUME Typed, NEW p \in Procs, Commit(p)
  PROVE  Typed'
<1>1. queue[p] # <<>> /\ queue[p] \in Seq(Migration)
  BY DEF Typed, ProcessTypeOK, Commit
<1>2. CASE /\ Execute(queue[p])
           /\ history' = IF SkipHistoryTable THEN history ELSE Recorded(queue[p], TRUE)
           /\ Flushed(p)
  <2>1. DatabaseTypeOK'
    BY <1>1, <1>2, ExecuteType, RecordedType DEF Typed, DatabaseTypeOK, Commit
  <2>2. ProcessTypeOK'
    BY <1>2, FlushedType DEF Typed
  <2>3. QED
    BY <2>1, <2>2 DEF Typed
<1>3. CASE Fail(p, FALSE) /\ UNCHANGED <<history, times, residue, version>>
  <2>1. DatabaseTypeOK'
    BY <1>3 DEF Typed, DatabaseTypeOK, Commit
  <2>2. ProcessTypeOK'
    BY <1>1, <1>3, FailType DEF Typed
  <2>3. QED
    BY <2>1, <2>2 DEF Typed
<1>4. QED
  BY <1>2, <1>3 DEF Commit

LEMMA UndoType ==
  ASSUME Typed, NEW p \in Procs, Undo(p)
  PROVE  Typed'
<1>1. queue[p] # <<>>
  BY DEF Typed, ProcessTypeOK, Undo
<1>2. DatabaseTypeOK'
  BY MigrateAssumption DEF Typed, DatabaseTypeOK, Undo
<1>3. ProcessTypeOK'
  BY <1>1, GotoType DEF Typed, Undo, Labels
<1>4. QED
  BY <1>2, <1>3 DEF Typed

LEMMA RecordType ==
  ASSUME Typed, NEW p \in Procs, Record(p)
  PROVE  Typed'
<1>1. Attempted(queue[p], done[p]) \in Seq(Migration)
  BY AttemptedType DEF Typed, ProcessTypeOK
<1>2. DatabaseTypeOK'
  BY <1>1, RecordedType DEF Typed, DatabaseTypeOK, Record
<1>3. ProcessTypeOK'
  BY LeaveType DEF Typed, Record
<1>4. QED
  BY <1>2, <1>3 DEF Typed

LEMMA CrashType ==
  ASSUME Typed, NEW p \in Procs, Crash(p)
  PROVE  Typed'
<1>1. DatabaseTypeOK'
  BY DEF Typed, DatabaseTypeOK, Crash, db
<1>2. ProcessTypeOK'
  BY LeaveType DEF Typed, Crash
<1>3. QED
  BY <1>1, <1>2 DEF Typed

LEMMA EditType ==
  ASSUME Typed, NEW f \in Files, Edit(f)
  PROVE  Typed'
  BY DEF Typed, DatabaseTypeOK, ProcessTypeOK, Edit, db, locals

LEMMA InitType == Init => Typed
<1>1. SUFFICES ASSUME Init PROVE Typed
  OBVIOUS
<1>2. NoRow \in Row
  BY MigrateAssumption DEF NoRow, Row
<1>3. DatabaseTypeOK
  <2>1. /\ 1 \in Versions /\ 0 \in 0 .. MaxVersion /\ 0 \in 0 .. MaxStarts
        /\ 0 \in 0 .. 2
    BY MigrateAssumption DEF Versions
  <2>2. QED
    BY <1>1, <1>2, <2>1 DEF Init, DatabaseTypeOK
<1>4. /\ <<>> \in Seq(Files) /\ <<>> \in Seq(Migration) /\ Len(<<>>) = 0
      /\ DOMAIN <<>> = {} /\ <<>> \in [{} -> Row]
  OBVIOUS
<1>5. ProcessTypeOK
  BY <1>1, <1>4, MigrateAssumption DEF Init, ProcessTypeOK, Labels
<1>6. QED
  BY <1>3, <1>5 DEF Typed

LEMMA NextType == Typed /\ [Next]_vars => Typed'
<1>1. SUFFICES ASSUME Typed, [Next]_vars PROVE Typed'
  OBVIOUS
<1>2. ASSUME NEW p \in Procs, Start(p) \/ Step(p) \/ Crash(p)
      PROVE  Typed'
  BY <1>1, <1>2, StartType, EnsureType, CreateType, ReadHistoryType, PlanType, PlanDoneType,
     BeginType, ExecType, UpsertType, CommitType, UndoType, RecordType, CrashType DEF Step
<1>3. ASSUME NEW f \in Files, Edit(f)
      PROVE  Typed'
  BY <1>1, <1>3, EditType
<1>4. ASSUME UNCHANGED vars
      PROVE  Typed'
  BY <1>1, <1>4 DEF Typed, DatabaseTypeOK, ProcessTypeOK, vars, db, locals
<1>5. QED
  BY <1>1, <1>2, <1>3, <1>4 DEF Next

\* Every state of migrate is well-typed: whatever fails, a process stays within
\* its batch and makes no more than MaxAttempts attempts at it.
THEOREM TypeCorrect == Spec => []TypeOK
<1>1. Init => Typed
  BY InitType
<1>2. Typed /\ [Next]_vars => Typed'
  BY NextType
<1>3. Typed => TypeOK
  BY TypedIsTypeOK
<1>4. QED
  BY <1>1, <1>2, <1>3, PTL DEF Spec

(***************************************************************************)
(* What is recorded is applied.                                            *)
(***************************************************************************)

\* A batch that runs outside a transaction is one migration, and not one of
\* those that only run in transactions.
LEMMA OutsideTransaction ==
  ASSUME NEW q \in Seq(Migration), q # <<>>, ~IsTx(q)
  PROVE  /\ Len(q) = 1
         /\ FilesOf(q) = {q[1].file}
         /\ q[1].file \notin Transactional
<1>1. Len(q) = 1
  <2>1. Len(q) \in Nat /\ Len(q) # 0
    BY EmptySeq
  <2>2. ~(Len(q) > 1)
    BY DEF IsTx
  <2>3. \A n \in Nat : n # 0 /\ ~(n > 1) => n = 1
    OBVIOUS
  <2>4. QED
    BY <2>1, <2>2, <2>3, Zenon
<1>2. FilesOf(q) = {q[1].file}
  BY <1>1 DEF FilesOf
<1>3. QED
  BY <1>1, <1>2 DEF IsTx, Transactional

\* The control point of the undo script is reached with such a batch only.
UndoesAlone == \A p \in Procs : pc[p] = "undo" => ~IsTx(queue[p])

\* A failed attempt leads to the undo script only outside a transaction.
LEMMA FailUndoesAlone ==
  ASSUME Typed, UndoesAlone, NEW p \in Procs, NEW t \in BOOLEAN, Fail(p, t)
  PROVE  UndoesAlone'
<1>1. CASE Leave(p)
  BY <1>1 DEF UndoesAlone, Leave, Goto, Typed, ProcessTypeOK, IsTx
<1>2. CASE UNCHANGED locals /\ Goto(p, "begin")
  BY <1>2 DEF UndoesAlone, Goto, locals, Typed, ProcessTypeOK, IsTx
<1>3. CASE UNCHANGED locals /\ Goto(p, IF IsRetryable(queue[p]) THEN "record" ELSE "undo")
  BY <1>3 DEF UndoesAlone, Goto, locals, Typed, ProcessTypeOK, IsTx, IsRetryable
<1>4. QED
  BY <1>1, <1>2, <1>3 DEF Fail

\* So does no other step.
LEMMA StepUndoesAlone ==
  ASSUME Typed, UndoesAlone, [Next]_vars
  PROVE  UndoesAlone'
<1>1. ASSUME NEW p \in Procs, NEW l \in Labels \ {"undo"}, Goto(p, l),
             \A q \in Procs : q # p => queue'[q] = queue[q]
      PROVE  UndoesAlone'
  <2>1. \A q \in Procs : pc'[q] = "undo" => q # p /\ pc[q] = "undo"
    BY <1>1 DEF Goto, Typed, ProcessTypeOK
  <2>2. QED
    BY <1>1, <2>1 DEF UndoesAlone, IsTx
<1>2. ASSUME NEW p \in Procs, Leave(p)
      PROVE  UndoesAlone'
  <2>1. \A q \in Procs : q # p => queue'[q] = queue[q]
    BY <1>2 DEF Leave, Typed, ProcessTypeOK
  <2>2. QED
    BY <1>1, <1>2, <2>1 DEF Leave, Labels
<1>3. ASSUME NEW p \in Procs, Flushed(p)
      PROVE  UndoesAlone'
  <2>1. \A q \in Procs : q # p => queue'[q] = queue[q]
    BY <1>3 DEF Flushed, Typed, ProcessTypeOK
  <2>2. QED
    BY <1>1, <1>3, <2>1 DEF Flushed, Labels
<1>4. ASSUME NEW p \in Procs, Advance(p)
      PROVE  UndoesAlone'
  BY <1>1, <1>3, <1>4 DEF Advance, Labels
<1>5. ASSUME NEW p \in Procs, Start(p) \/ Ensure(p) \/ Create(p) \/ ReadHistory(p) \/ PlanDone(p)
      PROVE  UndoesAlone'
  BY <1>1, <1>2, <1>5 DEF Start, Ensure, Create, ReadHistory, PlanDone, locals, Labels
<1>6. ASSUME NEW p \in Procs, Plan(p)
      PROVE  UndoesAlone'
  <2>1. /\ pc[p] = "plan" /\ (pc' = pc \/ Goto(p, "begin"))
        /\ \A q \in Procs : q # p => queue'[q] = queue[q]
    BY <1>6 DEF Plan, Typed, ProcessTypeOK
  <2>2. QED
    BY <2>1 DEF UndoesAlone, Goto, Typed, ProcessTypeOK, IsTx
<1>7. ASSUME NEW p \in Procs, Begin(p)
      PROVE  UndoesAlone'
  BY <1>1, <1>2, <1>7 DEF Begin, Labels
<1>8. ASSUME NEW p \in Procs, Exec(p)
      PROVE  UndoesAlone'
  BY <1>1, <1>4, <1>8, FailUndoesAlone DEF Exec, locals, Labels
<1>9. ASSUME NEW p \in Procs, Upsert(p) \/ Commit(p)
      PROVE  UndoesAlone'
  BY <1>3, <1>4, <1>9, FailUndoesAlone DEF Upsert, Commit
<1>10. ASSUME NEW p \in Procs, Undo(p) \/ Record(p) \/ Crash(p)
      PROVE  UndoesAlone'
  BY <1>1, <1>2, <1>10 DEF Undo, Record, Crash, locals, Labels
<1>11. ASSUME (\E f \in Files : Edit(f)) \/ UNCHANGED vars
      PROVE  UndoesAlone'
  BY <1>11 DEF UndoesAlone, Edit, vars, locals, IsTx
<1>12. QED
  BY <1>5, <1>6, <1>7, <1>8, <1>9, <1>10, <1>11 DEF Next, Step

\* The scripts of a batch that takes effect have effects afterwards, and none of
\* them a partial one; the others are as before.
LEMMA ExecuteEffect ==
  ASSUME Typed, NEW q \in Seq(Migration), Execute(q), NEW f \in Files
  PROVE  IF f \in FilesOf(q) THEN times'[f] > 0 /\ f \notin residue'
         ELSE times'[f] = times[f] /\ (f \in residue' <=> f \in residue)
  BY DEF Execute, Typed, DatabaseTypeOK

\* A step that takes no effect away and records no success keeps it.
LEMMA TransactionalRecordedKept ==
  ASSUME Typed, TransactionalRecorded,
         \A f \in Transactional :
           /\ history'[f].success => history[f].success
           /\ times'[f] = times[f]
           /\ f \in residue' => f \in residue
  PROVE  TransactionalRecorded'
  BY DEF TransactionalRecorded, Transactional, Migrations

LEMMA ExecRecorded ==
  ASSUME Typed, TransactionalRecorded, NEW p \in Procs, Exec(p)
  PROVE  TransactionalRecorded'
<1>1. /\ done[p] < Len(queue[p]) /\ queue[p] # <<>> /\ queue[p] \in Seq(Migration)
      /\ done[p] \in Nat /\ Len(queue[p]) \in Nat /\ UNCHANGED history
  BY DEF Typed, ProcessTypeOK, Exec
<1>2. CASE UNCHANGED <<times, residue, version>>
  BY <1>1, <1>2, TransactionalRecordedKept
<1>3. CASE Execute(queue[p])
  BY <1>1, <1>3, ExecuteEffect DEF TransactionalRecorded, Transactional, Migrations
<1>4. CASE /\ UNCHANGED times /\ ~IsTx(queue[p])
           /\ residue' = residue \cup {queue[p][done[p] + 1].file}
  <2>1. Len(queue[p]) = 1 /\ queue[p][1].file \notin Transactional
    BY <1>1, <1>4, OutsideTransaction
  <2>2. done[p] + 1 = 1
    BY <1>1, <2>1
  <2>3. QED
    BY <1>1, <1>4, <2>1, <2>2, TransactionalRecordedKept
<1>5. QED
  BY <1>1, <1>2, <1>3, <1>4 DEF Exec

LEMMA UpsertRecorded ==
  ASSUME Typed, TransactionalRecorded, NEW p \in Procs, Upsert(p)
  PROVE  TransactionalRecorded'
<1>1. queue[p] # <<>> /\ queue[p] \in Seq(Migration) /\ UNCHANGED <<times, residue>>
  BY DEF Typed, ProcessTypeOK, Upsert
<1>2. CASE history' = history
  BY <1>1, <1>2, TransactionalRecordedKept
<1>3. CASE ~IsTx(queue[p]) /\ history' = Recorded(queue[p], TRUE)
  <2>1. \A f \in Transactional : f \in Files /\ f \notin FilesOf(queue[p])
    BY <1>1, <1>3, OutsideTransaction DEF Transactional, Migrations
  <2>2. QED
    BY <1>1, <1>3, <2>1, TransactionalRecordedKept DEF Recorded
<1>4. QED
  BY <1>2, <1>3 DEF Upsert

LEMMA CommitRecorded ==
  ASSUME Typed, TransactionalRecorded, NEW p \in Procs, Commit(p)
  PROVE  TransactionalRecorded'
<1>1. queue[p] \in Seq(Migration)
  BY DEF Typed, ProcessTypeOK
<1>2. CASE UNCHANGED <<history, times, residue, version>>
  BY <1>2, TransactionalRecordedKept
<1>3. CASE /\ Execute(queue[p])
           /\ history' = IF SkipHistoryTable THEN history ELSE Recorded(queue[p], TRUE)
  <2>1. SUFFICES ASSUME NEW f \in Transactional, history'[f].success
                 PROVE  times'[f] > 0 /\ f \notin residue'
    BY DEF TransactionalRecorded, Transactional
  <2>2. f \in Files
    BY DEF Transactional, Migrations
  <2>3. CASE f \in FilesOf(queue[p])
    BY <1>1, <1>3, <2>2, <2>3, ExecuteEffect
  <2>4. CASE f \notin FilesOf(queue[p])
    BY <1>1, <1>3, <2>1, <2>2, <2>4, ExecuteEffect DEF TransactionalRecorded, Recorded
  <2>5. QED
    BY <2>3, <2>4
<1>4. QED
  BY <1>2, <1>3 DEF Commit

LEMMA UndoRecorded ==
  ASSUME Typed, UndoesAlone, TransactionalRecorded, NEW p \in Procs, Undo(p)
  PROVE  TransactionalRecorded'
<1>1. /\ queue[p] # <<>> /\ queue[p] \in Seq(Migration) /\ ~IsTx(queue[p])
      /\ UNCHANGED history
  BY DEF Typed, ProcessTypeOK, UndoesAlone, Undo
<1>2. queue[p][1].file \notin Transactional
  BY <1>1, OutsideTransaction
<1>3. \A f \in Transactional : f \in Files /\ f # queue[p][1].file
  BY <1>2 DEF Transactional, Migrations
<1>4. \A f \in Transactional : times'[f] = times[f] /\ (f \in residue' => f \in residue)
  BY <1>3 DEF Undo, Typed, DatabaseTypeOK
<1>5. QED
  BY <1>1, <1>4, TransactionalRecordedKept

LEMMA RecordRecorded ==
  ASSUME Typed, TransactionalRecorded, NEW p \in Procs, Record(p)
  PROVE  TransactionalRecorded'
<1>1. \A f \in Transactional : f \in Files
  BY DEF Transactional, Migrations
<1>2. \A f \in Transactional : history'[f].success => history[f].success
  BY <1>1 DEF Record, Recorded
<1>3. QED
  BY <1>2, TransactionalRecordedKept DEF Record

\* A migration that runs in a transaction and that the history table calls done
\* is in the database, in full, with any number of concurrent runs of migrate,
\* and whatever fails or crashes: the rows are written in the transaction of the
\* scripts, and what is undone never ran in one.
THEOREM RecordedIsInDatabase == Spec => []TransactionalRecorded
<1>1. Init => TransactionalRecorded /\ UndoesAlone
  BY DEF Init, TransactionalRecorded, Transactional, Migrations, NoRow, UndoesAlone
<1>2. ASSUME Typed, UndoesAlone, TransactionalRecorded, [Next]_vars
      PROVE  TransactionalRecorded'
  <2>1. ASSUME NEW p \in Procs, Start(p) \/ Ensure(p) \/ Create(p) \/ ReadHistory(p)
                 \/ Plan(p) \/ PlanDone(p) \/ Begin(p) \/ Crash(p)
        PROVE  TransactionalRecorded'
    <3>1. UNCHANGED <<history, times, residue>>
      BY <2>1 DEF Start, Ensure, Create, ReadHistory, Plan, PlanDone, Begin, Crash, db
    <3>2. QED
      BY <1>2, <3>1, TransactionalRecordedKept
  <2>2. ASSUME NEW p \in Procs, Exec(p) \/ Upsert(p) \/ Commit(p) \/ Undo(p) \/ Record(p)
        PROVE  TransactionalRecorded'
    BY <1>2, <2>2, ExecRecorded, UpsertRecorded, CommitRecorded, UndoRecorded, RecordRecorded
  <2>3. ASSUME (\E f \in Files : Edit(f)) \/ UNCHANGED vars
        PROVE  TransactionalRecorded'
    BY <1>2, <2>3, TransactionalRecordedKept DEF Edit, vars, db
  <2>4. QED
    BY <1>2, <2>1, <2>2, <2>3 DEF Next, Step
<1>3. Typed /\ UndoesAlone /\ TransactionalRecorded /\ [Next]_vars
        => (Typed /\ UndoesAlone /\ TransactionalRecorded)'
  BY <1>2, NextType, StepUndoesAlone
<1>4. Init => Typed
  BY InitType
<1>5. QED
  BY <1>1, <1>3, <1>4, PTL DEF Spec

(***************************************************************************)
(* What a failure leaves behind.                                           *)
(***************************************************************************)

\* Nothing comes between a failure and the end of the undo script.
UndoWorks == {"crash", "undo"} \cap Faults = {}

\* Process p is about to run the undo script of f.
UndoIsNext(p, f) == pc[p] = "undo" /\ queue[p][1].file = f

\* A process has its pc and its batch to itself.
LEMMA OthersStay ==
  ASSUME Typed, NEW p \in Procs, Start(p) \/ Step(p), NEW q \in Procs, q # p
  PROVE  pc'[q] = pc[q] /\ queue'[q] = queue[q]
<1>1. ASSUME NEW l, Goto(p, l)
      PROVE  pc'[q] = pc[q]
  BY <1>1 DEF Goto, Typed, ProcessTypeOK
<1>2. CASE Leave(p) \/ Flushed(p)
  BY <1>1, <1>2 DEF Leave, Flushed, Typed, ProcessTypeOK
<1>3. ASSUME NEW t, Fail(p, t)
      PROVE  pc'[q] = pc[q] /\ queue'[q] = queue[q]
  BY <1>1, <1>2, <1>3 DEF Fail, locals
<1>4. CASE Advance(p)
  BY <1>1, <1>2, <1>4 DEF Advance
<1>5. CASE Plan(p)
  BY <1>1, <1>5 DEF Plan, Typed, ProcessTypeOK
<1>6. CASE Start(p) \/ Ensure(p) \/ Create(p) \/ ReadHistory(p) \/ PlanDone(p) \/ Begin(p)
  BY <1>1, <1>2, <1>6 DEF Start, Ensure, Create, ReadHistory, PlanDone, Begin, locals
<1>7. CASE Exec(p) \/ Upsert(p) \/ Commit(p) \/ Undo(p) \/ Record(p)
  BY <1>1, <1>2, <1>3, <1>4, <1>7 DEF Exec, Upsert, Commit, Undo, Record, locals
<1>8. QED
  BY <1>5, <1>6, <1>7 DEF Step

\* A script that leaves something behind runs alone and outside a transaction; unless it is
\* one statement, its undo script is next.
LEMMA ResidueLeadsToUndo ==
  ASSUME Typed, NEW p \in Procs, Start(p) \/ Step(p),
         NEW f \in Files \ SingleStmt, f \in residue', f \notin residue
  PROVE  UndoIsNext(p, f)'
<1>1. /\ done[p] \in Nat /\ residue \in SUBSET Files /\ queue[p] \in Seq(Migration)
      /\ pc \in [Procs -> Labels]
      /\ pc[p] = "exec" => done[p] < Len(queue[p]) /\ queue[p] # <<>>
  BY DEF Typed, ProcessTypeOK, DatabaseTypeOK
<1>2. Exec(p)
  BY <1>1 DEF Step, Start, Ensure, Create, ReadHistory, Plan, PlanDone, Begin, Upsert, Commit,
       Undo, Record, db, Execute
<1>3. PICK fault \in {"script", "lock"} :
        /\ ~IsTx(queue[p])
        /\ f = queue[p][done[p] + 1].file
        /\ Fail(p, fault = "lock")
  BY <1>2 DEF Exec, Execute
<1>4. pc[p] = "exec" /\ Len(queue[p]) = 1 /\ done[p] + 1 = 1
  BY <1>1, <1>2, <1>3, OutsideTransaction DEF Exec
<1>5. ~IsRetryable(queue[p])
  BY <1>3, <1>4 DEF IsRetryable
<1>6. Goto(p, "undo") /\ queue' = queue
  BY <1>3, <1>5 DEF Fail, locals
<1>7. QED
  BY <1>1, <1>3, <1>4, <1>6 DEF Goto, UndoIsNext

\* From there only the undo script leads on, which removes it or fails.
LEMMA UndoRemoves ==
  ASSUME Typed, NEW p \in Procs, Start(p) \/ Step(p), NEW f \in UndoFiles, UndoIsNext(p, f)
  PROVE  f \notin residue' \/ "undo" \in Faults
<1>1. Undo(p)
  BY DEF UndoIsNext, Step, Start, Ensure, Create, ReadHistory, Plan, PlanDone, Begin, Exec, Upsert,
       Commit, Record
<1>2. QED
  BY <1>1 DEF Undo, UndoIsNext

\* The steps of other processes leave a process where it is.
LEMMA OthersUndo ==
  ASSUME Typed, NEW p \in Procs, Start(p) \/ Step(p), NEW q \in Procs, q # p, NEW f, UndoIsNext(q, f)
  PROVE  UndoIsNext(q, f)'
  BY OthersStay DEF UndoIsNext

\* Whatever else fails, what a script of several statements with an undo script leaves
\* behind outside a transaction is gone when the process that ran it gets to recording the
\* failure, also if other processes run the same script: such a batch is one script, and
\* its failure leads nowhere but to the undo script.
THEOREM ResidueIsUndone == ASSUME UndoWorks PROVE Spec => []NoResidueLeft
<1>1. Init => NoResidueLeft
  BY DEF Init, NoResidueLeft
<1>2. ASSUME Typed, NoResidueLeft, [Next]_vars
      PROVE  NoResidueLeft'
  <2>1. ASSUME NEW p \in Procs, Start(p) \/ Step(p)
        PROVE  NoResidueLeft'
    <3>1. SUFFICES ASSUME NEW f \in (residue' \cap UndoFiles) \ SingleStmt
                   PROVE  \E q \in Procs : UndoIsNext(q, f)'
      BY DEF NoResidueLeft, UndoIsNext
    <3>2. CASE f \notin residue
      <4>1. f \in Files \ SingleStmt
        BY <3>1, MigrateAssumption DEF MigrateAssumption
      <4>2. QED
        BY <1>2, <2>1, <3>1, <3>2, <4>1, ResidueLeadsToUndo
    <3>3. CASE f \in residue
      <4>1. PICK q \in Procs : UndoIsNext(q, f)
        BY <1>2, <3>3 DEF NoResidueLeft, UndoIsNext
      <4>2. q # p
        BY <1>2, <2>1, <3>1, <4>1, UndoWorks, UndoRemoves DEF UndoWorks
      <4>3. QED
        BY <1>2, <2>1, <4>1, <4>2, OthersUndo
    <3>4. QED
      BY <3>2, <3>3
  <2>2. CASE (\E f \in Files : Edit(f)) \/ UNCHANGED vars
    BY <1>2, <2>2 DEF NoResidueLeft, Edit, vars, db, locals
  <2>3. ~ \E p \in Procs : Crash(p)
    BY UndoWorks DEF UndoWorks, Crash
  <2>4. QED
    BY <1>2, <2>1, <2>2, <2>3 DEF Next
<1>3. Typed /\ NoResidueLeft /\ [Next]_vars => (Typed /\ NoResidueLeft)'
  BY <1>2, NextType
<1>4. QED
  BY <1>1, <1>3, InitType, PTL DEF Spec

\* What a step may not do, whatever fails or dies, under crashes and failing undo scripts:
\* a batch that failed outside a transaction gets to its recording without the undo script
\* only if it is a single statement; what is left behind by any other script leads to its
\* undo script; and that removes it, unless it fails itself or the process dies.
UndoFollowsStep ==
  /\ \A p \in Procs :
       pc[p] \in {"exec", "upsert"} /\ ~IsTx(queue[p]) /\ pc'[p] = "record"
         => queue[p][1].file \in SingleStmt
  /\ \A f \in (residue' \ residue) \ SingleStmt : \E p \in Procs : UndoIsNext(p, f)'
  /\ \A p \in Procs, f \in UndoFiles :
       UndoIsNext(p, f) /\ ~UndoIsNext(p, f)' /\ f \in residue'
         => "undo" \in Faults \/ pc'[p] = "idle"

\* A process that records a failure without the undo script has failed at a batch that is
\* retryable.
LEMMA RecordsRetryable ==
  ASSUME Typed, NEW p \in Procs, Start(p) \/ Step(p), pc[p] \in {"exec", "upsert"},
         ~IsTx(queue[p]), pc'[p] = "record"
  PROVE  queue[p][1].file \in SingleStmt
<1>1. pc \in [Procs -> Labels]
  BY DEF Typed, ProcessTypeOK
<1>2. ~Advance(p) /\ ~Goto(p, "upsert")
  BY <1>1 DEF Advance, Flushed, Goto
<1>3. Exec(p) \/ Upsert(p)
  BY DEF Step, Start, Ensure, Create, ReadHistory, Plan, PlanDone, Begin, Commit, Undo, Record
<1>4. PICK t \in BOOLEAN : Fail(p, t)
  BY <1>2, <1>3, Zenon DEF Exec, Upsert
<1>5. IsRetryable(queue[p])
  BY <1>1, <1>4 DEF Fail, Leave, Goto
<1>6. QED
  BY <1>5 DEF IsRetryable

\* For any number of processes running the same scripts, and with every fault, the undo
\* script that sqddl.md promises for a failure outside a transaction is called for all
\* scripts but those of a single statement.
THEOREM UndoFollowsFailure == Spec => [][UndoFollowsStep]_vars
<1>1. ASSUME Typed, Next
      PROVE  UndoFollowsStep
  <2>1. ASSUME NEW p \in Procs, Start(p) \/ Step(p)
        PROVE  UndoFollowsStep
    <3>1. ASSUME NEW q \in Procs, pc[q] \in {"exec", "upsert"}, ~IsTx(queue[q]), pc'[q] = "record"
          PROVE  queue[q][1].file \in SingleStmt
      <4>1. CASE q = p
        BY <1>1, <2>1, <3>1, <4>1, RecordsRetryable
      <4>2. CASE q # p
        <5>1. pc'[q] = pc[q]
          BY <1>1, <2>1, <4>2, OthersStay
        <5>2. QED
          BY <3>1, <5>1
      <4>3. QED
        BY <4>1, <4>2
    <3>2. ASSUME NEW f \in (residue' \ residue) \ SingleStmt
          PROVE  \E q \in Procs : UndoIsNext(q, f)'
      <4>1. f \in Files
        BY <1>1, <3>2, NextType DEF Typed, DatabaseTypeOK
      <4>2. QED
        BY <1>1, <2>1, <3>2, <4>1, ResidueLeadsToUndo
    <3>3. ASSUME NEW q \in Procs, NEW f \in UndoFiles,
                 UndoIsNext(q, f), ~UndoIsNext(q, f)', f \in residue'
          PROVE  "undo" \in Faults
      <4>1. q = p
        BY <1>1, <2>1, <3>3, OthersUndo
      <4>2. QED
        BY <1>1, <2>1, <3>3, <4>1, UndoRemoves
    <3>4. QED
      BY <3>1, <3>2, <3>3 DEF UndoFollowsStep
  <2>2. ASSUME NEW p \in Procs, Crash(p)
        PROVE  UndoFollowsStep
    <3>1. /\ residue' = residue
          /\ pc'[p] = "idle"
          /\ \A q \in Procs : q # p => pc'[q] = pc[q] /\ queue'[q] = queue[q]
      BY <1>1, <2>2 DEF Crash, Leave, Goto, db, Typed, ProcessTypeOK
    <3>2. QED
      BY <3>1 DEF UndoFollowsStep, UndoIsNext
  <2>3. CASE \E f \in Files : Edit(f)
    BY <2>3 DEF UndoFollowsStep, UndoIsNext, Edit, db, locals
  <2>4. QED
    BY <1>1, <2>1, <2>2, <2>3 DEF Next
<1>2. Typed /\ [Next]_vars => [UndoFollowsStep]_vars
  BY <1>1
<1>3. QED
  BY <1>2, InitType, NextType, PTL DEF Spec

(***************************************************************************)
(* What shares a transaction.                                              *)
(***************************************************************************)

\* At most one migration waits for the batch to be flushed.
HeldAlone == \A p \in Procs : Len(held[p]) <= 1

Batched == Typed /\ HeldAlone /\ BatchShape

\* A batch that only got shorter than two, or did not change, keeps its shape.
LEMMA BatchedKept ==
  ASSUME Batched, Typed',
         \A p \in Procs : queue'[p] = queue[p] \/ Len(queue'[p]) <= 1,
         \A p \in Procs : held'[p] = held[p] \/ Len(held'[p]) <= 1
  PROVE  Batched'
<1>1. \A p \in Procs : Len(queue[p]) \in Nat /\ Len(queue'[p]) \in Nat
  BY DEF Batched, Typed, ProcessTypeOK
<1>2. HeldAlone'
  BY DEF Batched, HeldAlone
<1>3. ASSUME NEW p \in Procs, Len(queue'[p]) > 1
      PROVE  ~MySQL /\ FilesOf(queue'[p]) \cap (TxFiles \cup TxoffFiles) = {}
  <2>1. queue'[p] = queue[p]
    BY <1>1, <1>3
  <2>2. QED
    BY <1>3, <2>1 DEF Batched, BatchShape, FilesOf
<1>4. QED
  BY <1>2, <1>3 DEF Batched, BatchShape

\* The steps that change no batch but for emptying it, or opening the next one.
LEMMA BatchEnds ==
  ASSUME Batched, Typed', NEW p \in Procs,
         \/ UNCHANGED <<queue, held>>
         \/ Leave(p)
         \/ Flushed(p)
  PROVE  Batched'
<1>1. Len(<<>>) = 0
  OBVIOUS
<1>2. CASE UNCHANGED <<queue, held>>
  BY <1>2, BatchedKept
<1>3. CASE Leave(p) \/ Flushed(p)
  <2>1. /\ queue' = [queue EXCEPT ![p] = <<>>] \/ queue' = [queue EXCEPT ![p] = held[p]]
        /\ held' = [held EXCEPT ![p] = <<>>]
    BY <1>3 DEF Leave, Flushed
  <2>2. Len(held[p]) <= 1
    BY DEF Batched, HeldAlone
  <2>3. DOMAIN queue = Procs /\ DOMAIN held = Procs
    BY DEF Batched, Typed, ProcessTypeOK
  <2>4. \A q \in Procs : /\ queue'[q] = queue[q] \/ queue'[q] = <<>> \/ queue'[q] = held[p]
                         /\ held'[q] = held[q] \/ held'[q] = <<>>
    BY <2>1, <2>3
  <2>5. QED
    BY <1>1, <2>2, <2>4, BatchedKept
<1>4. QED
  BY <1>2, <1>3

\* A migration joins a batch of others only if none of them asks to be alone.
LEMMA PlanBatched ==
  ASSUME Batched, Typed', NEW p \in Procs, Plan(p)
  PROVE  Batched'
<1>1. PICK i \in todo[p] :
        LET f == args[p][i]
            m == [pos |-> i, file |-> f, checksum |-> ChecksumOf(f)]
        IN \/ UNCHANGED <<queue, held>>
           \/ /\ queue[p] # <<>> => ~MustFlush(queue[p][1].file, f)
              /\ queue' = [queue EXCEPT ![p] = Append(@, m)]
              /\ UNCHANGED held
           \/ /\ held' = [held EXCEPT ![p] = <<m>>]
              /\ UNCHANGED queue
  BY DEF Plan
<1>2. DEFINE f == args[p][i]
             m == [pos |-> i, file |-> f, checksum |-> ChecksumOf(f)]
<1>3. CASE UNCHANGED <<queue, held>>
  BY <1>3, BatchEnds
<1>4. ASSUME held' = [held EXCEPT ![p] = <<m>>], UNCHANGED queue
      PROVE  Batched'
  <2>1. Len(<<m>>) = 1
    OBVIOUS
  <2>2. \A q \in Procs : held'[q] = held[q] \/ Len(held'[q]) <= 1
    BY <1>4, <2>1 DEF Batched, Typed, ProcessTypeOK
  <2>3. QED
    BY <1>4, <2>2, BatchedKept
<1>5. ASSUME queue[p] # <<>> => ~MustFlush(queue[p][1].file, f),
             queue' = [queue EXCEPT ![p] = Append(@, m)], UNCHANGED held
      PROVE  Batched'
  <2>1. queue[p] \in Seq(Migration) /\ Len(queue[p]) \in Nat
    BY DEF Batched, Typed, ProcessTypeOK
  <2>2. /\ Len(Append(queue[p], m)) = Len(queue[p]) + 1
        /\ \A k \in 1 .. Len(queue[p]) : Append(queue[p], m)[k] = queue[p][k]
        /\ Append(queue[p], m)[Len(queue[p]) + 1] = m
        /\ DOMAIN Append(queue[p], m) = 1 .. Len(queue[p]) + 1
    BY <2>1
  <2>3. \A q \in Procs : q # p => queue'[q] = queue[q]
    BY <1>5 DEF Batched, Typed, ProcessTypeOK
  <2>4. queue'[p] = Append(queue[p], m)
    BY <1>5 DEF Batched, Typed, ProcessTypeOK
  <2>5. CASE queue[p] = <<>>
    <3>1. Len(queue'[p]) <= 1
      BY <2>2, <2>4, <2>5
    <3>2. QED
      BY <1>5, <2>3, <3>1, BatchedKept
  <2>6. CASE queue[p] # <<>>
    <3>1. /\ ~MySQL /\ f \notin TxFiles \cup TxoffFiles
          /\ queue[p][1].file \notin TxFiles \cup TxoffFiles
      BY <1>5, <2>6 DEF MustFlush
    <3>2. FilesOf(queue[p]) \cap (TxFiles \cup TxoffFiles) = {}
      <4>1. CASE Len(queue[p]) > 1
        BY <4>1 DEF Batched, BatchShape
      <4>2. CASE ~(Len(queue[p]) > 1)
        <5>1. DOMAIN queue[p] = 1 .. Len(queue[p])
          BY <2>1
        <5>2. \A k \in DOMAIN queue[p] : k = 1
          BY <2>1, <4>2, <5>1
        <5>3. QED
          BY <3>1, <5>2 DEF FilesOf
      <4>3. QED
        BY <4>1, <4>2
    <3>3. \A k \in DOMAIN queue'[p] : queue'[p][k].file \in FilesOf(queue[p]) \cup {f}
      <4>1. SUFFICES ASSUME NEW k \in 1 .. Len(queue[p]) + 1
                     PROVE  Append(queue[p], m)[k].file \in FilesOf(queue[p]) \cup {f}
        BY <2>2, <2>4
      <4>2. CASE k = Len(queue[p]) + 1
        BY <2>2, <4>2
      <4>3. CASE k # Len(queue[p]) + 1
        <5>1. k \in 1 .. Len(queue[p]) /\ k \in DOMAIN queue[p]
          BY <2>1, <4>3
        <5>2. QED
          BY <2>2, <5>1 DEF FilesOf
      <4>4. QED
        BY <4>2, <4>3
    <3>4. FilesOf(queue'[p]) \cap (TxFiles \cup TxoffFiles) = {}
      BY <3>1, <3>2, <3>3 DEF FilesOf
    <3>5. BatchShape'
      BY <2>3, <3>1, <3>4 DEF Batched, BatchShape, FilesOf
    <3>6. QED
      BY <1>5, <3>5 DEF Batched, HeldAlone
  <2>7. QED
    BY <2>5, <2>6
<1>6. QED
  BY <1>1, <1>3, <1>4, <1>5

\* On every database, with any number of runs: a migration marked .tx or .txoff is
\* never in a transaction with another one, and on MySQL none is.
THEOREM MarkedRunAlone == Spec => []BatchShape
<1>1. Init => HeldAlone /\ BatchShape
  BY DEF Init, HeldAlone, BatchShape
<1>2. ASSUME Batched, Typed', [Next]_vars
      PROVE  Batched'
  <2>1. ASSUME NEW p \in Procs, Plan(p)
        PROVE  Batched'
    BY <1>2, <2>1, PlanBatched
  <2>2. ASSUME NEW p \in Procs, Start(p) \/ Ensure(p) \/ ReadHistory(p) \/ Undo(p)
        PROVE  Batched'
    BY <1>2, <2>2, BatchEnds DEF Start, Ensure, ReadHistory, Undo, locals
  <2>3. ASSUME NEW p \in Procs, Create(p) \/ PlanDone(p) \/ Begin(p) \/ Record(p) \/ Crash(p)
        PROVE  Batched'
    BY <1>2, <2>3, BatchEnds DEF Create, PlanDone, Begin, Record, Crash, locals
  <2>4. ASSUME NEW p \in Procs, Exec(p) \/ Upsert(p) \/ Commit(p)
        PROVE  Batched'
    <3>1. UNCHANGED <<queue, held>> \/ Leave(p) \/ Flushed(p)
      BY <2>4 DEF Exec, Upsert, Commit, Advance, Fail, locals
    <3>2. QED
      BY <1>2, <3>1, BatchEnds
  <2>5. ASSUME (\E f \in Files : Edit(f)) \/ UNCHANGED vars
        PROVE  Batched'
    BY <1>2, <2>5, BatchedKept DEF Edit, vars, locals
  <2>6. QED
    BY <1>2, <2>1, <2>2, <2>3, <2>4, <2>5 DEF Next, Step
<1>3. Typed /\ HeldAlone /\ BatchShape /\ [Next]_vars
        => (Typed /\ HeldAlone /\ BatchShape)'
  BY <1>2, NextType DEF Batched
<1>4. Init => Typed
  BY InitType
<1>5. QED
  BY <1>1, <1>3, <1>4, PTL DEF Spec

(***************************************************************************)
(* Runs that have the database to themselves: in which order they run the  *)
(* scripts, that each takes effect once, and that they implement           *)
(* MigrationLedger when everything is in transactions.                     *)
(***************************************************************************)

\* One migrate at a time, of distinct names; the result of the query of the history does
\* not break off.
Single ==
  /\ \A p, q \in Procs : p = q
  /\ ~SkipHistoryTable
  /\ "read" \notin Faults
  /\ \A list \in ArgLists : \A i, j \in DOMAIN list : list[i] = list[j] => i = j

\* The scripts that run outside a transaction when they have their batch to themselves.
Direct == {f \in Files : f \notin TxFiles /\ (MySQL \/ f \in TxoffFiles)}

\* ... and there is none of these.
Alone == Single /\ Direct = {}

\* Nothing comes between a script that runs outside a transaction and its history row.
Certain == Single /\ {"upsert", "busy", "crash"} \cap Faults = {}

(***************************************************************************)
(* The invariant.                                                          *)
(***************************************************************************)

\* What the history says of the scripts that run in transactions is true.
Booked ==
  \A f \in Files :
    /\ history[f].success => history[f].valid
    /\ f \notin Repeatable => history[f].checksum = 0
    /\ f \notin Direct =>
         /\ f \notin residue
         /\ times[f] > 0 <=> version[f] > 0
         /\ f \notin Repeatable => times[f] = (IF history[f].success THEN 1 ELSE 0)
         /\ f \in Repeatable /\ history[f].success => history[f].checksum = version[f]

\* A script that ran outside a transaction, and its history row is next.
Unbooked(f) ==
  \E p \in Procs : pc[p] = "upsert" /\ ~IsTx(queue[p]) /\ f \in FilesOf(queue[p])

\* What is in the database has its row, or gets it next.
AppliedIsBooked ==
  \A f \in Files \ Repeatable :
    times[f] = IF history[f].success \/ Unbooked(f) THEN 1 ELSE 0

Waiting == {"idle", "ensure", "create", "read"}

Entries(p) == {queue[p][k] : k \in DOMAIN queue[p]} \cup {held[p][k] : k \in DOMAIN held[p]}

\* What has been read of the history still holds, and nothing is in a batch yet.
Reads(p) ==
  /\ \A i, j \in DOMAIN args[p] : args[p][i] = args[p][j] => i = j
  /\ pc[p] = "idle" => args[p] = <<>>
  /\ pc[p] \in Waiting => queue[p] = <<>>
  /\ pc[p] \in Waiting \cup {"plan"} => held[p] = <<>>
  /\ pc[p] \notin Waiting => \A i \in todo[p] : seen[p][i] = history[args[p][i]]

\* What is in a batch is left to do.
Left(p) ==
  \A m \in Entries(p) :
    /\ m.pos \in DOMAIN args[p] \ todo[p]
    /\ m.file = args[p][m.pos]
    /\ m.checksum = ChecksumOf(m.file)
    /\ ~UpToDate(history[m.file], m.file)

\* The batch, what waits for it and what has not been looked at follow each other.
Follows(p, i, j) == i # j /\ Before(args[p], i, j)

Sorted(p) ==
  /\ Len(held[p]) <= 1
  /\ \A k, l \in DOMAIN queue[p] : k < l => Follows(p, queue[p][k].pos, queue[p][l].pos)
  /\ \A k \in DOMAIN queue[p], l \in DOMAIN held[p] : Follows(p, queue[p][k].pos, held[p][l].pos)
  /\ \A m \in Entries(p) : \A j \in todo[p] : Before(args[p], m.pos, j)

\* Nothing is forgotten.
Covered(p) ==
  \A i \in DOMAIN args[p] :
    args[p][i] \in Migrations =>
      i \in todo[p] \/ Current(args[p][i]) \/ \E m \in Entries(p) : m.pos = i

Planned(p) == Reads(p) /\ Left(p) /\ Sorted(p) /\ Covered(p)

LedgerInv == UndoesAlone /\ Booked /\ \A p \in Procs : Planned(p)

(***************************************************************************)
(* Facts about batches.                                                    *)
(***************************************************************************)

\* A batch without a transaction is one script that runs outside of them.
LEMMA DirectBatch ==
  ASSUME NEW q \in Seq(Migration), q # <<>>, ~IsTx(q)
  PROVE  /\ Len(q) = 1
         /\ FilesOf(q) = {q[1].file}
         /\ q[1].file \in Direct
<1>1. Len(q) = 1 /\ FilesOf(q) = {q[1].file}
  BY OutsideTransaction
<1>2. q[1] \in Migration
  BY <1>1
<1>3. QED
  BY <1>1, <1>2 DEF IsTx, Direct, Migration

\* A file is in a batch once.
LEMMA OnceInBatch ==
  ASSUME Typed, NEW p \in Procs, Planned(p), NEW k \in DOMAIN queue[p], NEW l \in DOMAIN queue[p],
         queue[p][k].file = queue[p][l].file
  PROVE  k = l
<1>1. queue[p][k] \in Entries(p) /\ queue[p][l] \in Entries(p)
  BY DEF Entries
<1>2. queue[p][k].pos = queue[p][l].pos
  BY <1>1 DEF Planned, Left, Reads
<1>3. k \in Nat /\ l \in Nat
  BY DEF Typed, ProcessTypeOK
<1>4. ~(k < l) /\ ~(l < k)
  BY <1>2 DEF Planned, Sorted, Follows
<1>5. QED
  BY <1>3, <1>4

\* The history row of a file gets the checksum of its contents.
LEMMA QueuedChecksums ==
  ASSUME NEW q \in Seq(Migration), \A k \in DOMAIN q : q[k].checksum = ChecksumOf(q[k].file),
         NEW f \in FilesOf(q)
  PROVE  QueuedChecksum(q, f) = ChecksumOf(f)
<1>1. PICK k \in DOMAIN q : q[k].file = f
  BY DEF FilesOf
<1>2. DEFINE c == CHOOSE j \in DOMAIN q : q[j].file = f
<1>3. c \in DOMAIN q /\ q[c].file = f
  BY <1>1
<1>4. QED
  BY <1>3 DEF QueuedChecksum

\* What a failure is recorded for is the beginning of the batch.
LEMMA AttemptedIsPrefix ==
  ASSUME NEW q \in Seq(Migration), NEW n \in Nat
  PROVE  /\ Attempted(q, n) \in Seq(Migration)
         /\ DOMAIN Attempted(q, n) \subseteq DOMAIN q
         /\ \A k \in DOMAIN Attempted(q, n) : Attempted(q, n)[k] = q[k]
<1>1. Len(q) \in Nat /\ DOMAIN q = 1 .. Len(q)
  OBVIOUS
<1>2. DEFINE n1 == IF n < Len(q) THEN n + 1 ELSE Len(q)
<1>3. n1 \in Nat /\ n1 <= Len(q)
  BY <1>1
<1>4. Attempted(q, n) = SubSeq(q, 1, n1)
  BY DEF Attempted
<1> HIDE DEF n1
<1>5. QED
  BY <1>1, <1>3, <1>4, SubSeqProperties

(***************************************************************************)
(* A process that goes on with the same batch, or ends.                    *)
(***************************************************************************)

LEMMA LeavePlanned ==
  ASSUME Typed, NEW p \in Procs, Leave(p)
  PROVE  Planned(p)'
<1>1. /\ pc'[p] = "idle" /\ args'[p] = <<>> /\ todo'[p] = {}
      /\ queue'[p] = <<>> /\ held'[p] = <<>>
  BY DEF Leave, Goto, Typed, ProcessTypeOK
<1>2. Entries(p)' = {}
  BY <1>1 DEF Entries
<1>3. Reads(p)'
  BY <1>1 DEF Reads, Waiting
<1>4. Left(p)' /\ Covered(p)'
  BY <1>1, <1>2 DEF Left, Covered
<1>5. Sorted(p)'
  BY <1>1, <1>2 DEF Sorted
<1>6. QED
  BY <1>3, <1>4, <1>5 DEF Planned

LEMMA SamePlanned ==
  ASSUME NEW p \in Procs, Planned(p),
         args'[p] = args[p], todo'[p] = todo[p], seen'[p] = seen[p],
         queue'[p] = queue[p], held'[p] = held[p],
         history' = history, content' = content,
         \/ pc'[p] \in {"create", "read"} /\ pc[p] \in Waiting
         \/ pc'[p] \in {"begin", "exec", "upsert", "commit", "undo", "record"} /\ pc[p] \notin Waiting
  PROVE  Planned(p)'
<1>1. Entries(p)' = Entries(p)
  BY DEF Entries
<1>2. Reads(p)'
  BY DEF Planned, Reads, Waiting
<1>3. Left(p)'
  BY <1>1 DEF Planned, Left, ChecksumOf, UpToDate
<1>4. Sorted(p)'
  BY <1>1 DEF Planned, Sorted, Follows, Before
<1>5. Covered(p)'
  BY <1>1 DEF Planned, Covered, Current
<1>6. QED
  BY <1>2, <1>3, <1>4, <1>5 DEF Planned

(***************************************************************************)
(* The actions of Run.                                                     *)
(***************************************************************************)

LEMMA StartPlanned ==
  ASSUME Single, Typed, NEW p \in Procs, Planned(p), Start(p)
  PROVE  Planned(p)'
<1>1. PICK a \in ArgLists :
        /\ args' = [args EXCEPT ![p] = a]
        /\ todo' = [todo EXCEPT ![p] = {i \in DOMAIN a : a[i] \notin Reserved}]
  BY DEF Start
<1>2. a \in Seq(Files)
  BY MigrateAssumption
<1>3. /\ args'[p] = a
      /\ todo'[p] = {i \in DOMAIN a : a[i] \notin Reserved}
      /\ pc'[p] = "ensure"
  BY <1>1 DEF Start, Goto, Single, Typed, ProcessTypeOK
<1>4. queue'[p] = <<>> /\ held'[p] = <<>>
  BY DEF Start, Planned, Reads, Waiting
<1>5. Entries(p)' = {}
  BY <1>4 DEF Entries
<1>6. Reads(p)'
  BY <1>3, <1>4 DEF Reads, Waiting, Single
<1>7. Left(p)'
  BY <1>5 DEF Left
<1>8. Sorted(p)'
  BY <1>4, <1>5 DEF Sorted
<1>9. Covered(p)'
  BY <1>3 DEF Covered, Migrations
<1>10. QED
  BY <1>6, <1>7, <1>8, <1>9 DEF Planned

LEMMA EnsurePlanned ==
  ASSUME Typed, NEW p \in Procs, Planned(p), Ensure(p)
  PROVE  Planned(p)'
<1>1. pc[p] \in Waiting /\ pc'[p] \in {"create", "read"}
  BY DEF Ensure, Goto, Waiting, Typed, ProcessTypeOK
<1>2. QED
  BY <1>1, SamePlanned DEF Ensure, locals, db

LEMMA CreatePlanned ==
  ASSUME Typed, NEW p \in Procs, Planned(p), Create(p)
  PROVE  Planned(p)'
<1>1. CASE Leave(p)
  BY <1>1, LeavePlanned
<1>2. CASE UNCHANGED locals /\ Goto(p, "read")
  <2>1. pc[p] \in Waiting /\ pc'[p] = "read"
    BY <1>2 DEF Create, Goto, Waiting, Typed, ProcessTypeOK
  <2>2. QED
    BY <1>2, <2>1, SamePlanned DEF Create, locals
<1>3. QED
  BY <1>1, <1>2 DEF Create

\* No name comes twice, so each has its row.
LEMMA ReadHistoryPlanned ==
  ASSUME Single, Typed, NEW p \in Procs, Planned(p), ReadHistory(p)
  PROVE  Planned(p)'
<1>1. seen'[p] = [i \in DOMAIN args[p] |-> history[args[p][i]]]
  <2>1. seen' = [seen EXCEPT ![p] = [i \in DOMAIN args[p] |->
            IF \E j \in DOMAIN args[p] : j > i /\ args[p][j] = args[p][i]
            THEN NoRow ELSE history[args[p][i]]]]
    BY DEF ReadHistory, Single
  <2>2. \A i \in DOMAIN args[p] : ~\E j \in DOMAIN args[p] : j > i /\ args[p][j] = args[p][i]
    <3>1. DOMAIN args[p] \subseteq Nat
      BY DEF Typed, ProcessTypeOK
    <3>2. QED
      BY <3>1 DEF Planned, Reads
  <2>3. QED
    BY <2>1, <2>2 DEF Typed, ProcessTypeOK
<1>2. /\ pc[p] = "read" /\ pc'[p] = "plan"
      /\ args' = args /\ todo' = todo /\ queue' = queue /\ held' = held
      /\ history' = history /\ content' = content
  BY DEF ReadHistory, Goto, db, Typed, ProcessTypeOK
<1>3. queue[p] = <<>> /\ held[p] = <<>>
  BY <1>2 DEF Planned, Reads, Waiting
<1>4. Entries(p) = {} /\ Entries(p)' = {}
  BY <1>2, <1>3 DEF Entries
<1>5. Reads(p)'
  <2>1. todo[p] \subseteq DOMAIN args[p]
    BY DEF Typed, ProcessTypeOK
  <2>2. QED
    BY <1>1, <1>2, <1>3, <2>1 DEF Planned, Reads, Waiting
<1>6. Left(p)'
  BY <1>4 DEF Left
<1>7. Sorted(p)'
  BY <1>2, <1>3, <1>4 DEF Sorted
<1>8. Covered(p)'
  BY <1>2, <1>4 DEF Planned, Covered, Current
<1>9. QED
  BY <1>5, <1>6, <1>7, <1>8 DEF Planned

\* What the loop takes from the list goes into a batch.
LEMMA CoveredByBatch ==
  ASSUME NEW p \in Procs, Covered(p), NEW m, todo'[p] = todo[p] \ {m.pos},
         Entries(p)' = Entries(p) \cup {m},
         args' = args, history' = history, content' = content
  PROVE  Covered(p)'
<1>1. SUFFICES ASSUME NEW j \in DOMAIN args[p], args[p][j] \in Migrations
               PROVE  j \in todo'[p] \/ Current(args[p][j])' \/ \E n \in Entries(p)' : n.pos = j
  BY DEF Covered, Migrations
<1>2. CASE j = m.pos
  BY <1>2
<1>3. CASE j # m.pos
  <2>1. j \in todo[p] \/ Current(args[p][j]) \/ \E n \in Entries(p) : n.pos = j
    BY <1>1 DEF Covered
  <2>2. Current(args[p][j])' <=> Current(args[p][j])
    BY DEF Current
  <2>3. QED
    BY <1>3, <2>1, <2>2
<1>4. QED
  BY <1>2, <1>3

\* An iteration takes the first position that is left.
LEMMA PlanPlanned ==
  ASSUME Typed, Booked, NEW p \in Procs, Planned(p), Plan(p)
  PROVE  Planned(p)'
<1>1. PICK i \in todo[p] :
        LET f == args[p][i]
            m == [pos |-> i, file |-> f, checksum |-> ChecksumOf(f)]
        IN /\ \A j \in todo[p] : Before(args[p], i, j)
           /\ todo' = [todo EXCEPT ![p] = @ \ {i}]
           /\ \/ /\ UpToDate(seen[p][i], f)
                 /\ UNCHANGED <<queue, held, pc>>
              \/ /\ ~UpToDate(seen[p][i], f)
                 /\ queue' = [queue EXCEPT ![p] = Append(@, m)]
                 /\ UNCHANGED <<held, pc>>
              \/ /\ ~UpToDate(seen[p][i], f)
                 /\ held' = [held EXCEPT ![p] = <<m>>]
                 /\ Goto(p, "begin")
                 /\ UNCHANGED queue
  BY DEF Plan
<1> DEFINE f == args[p][i]
           m == [pos |-> i, file |-> f, checksum |-> ChecksumOf(f)]
<1>2. /\ pc[p] = "plan" /\ i \in DOMAIN args[p]
      /\ todo'[p] = todo[p] \ {i}
      /\ args' = args /\ seen' = seen /\ history' = history /\ content' = content
  BY <1>1 DEF Plan, db, Typed, ProcessTypeOK
<1>3. held[p] = <<>> /\ seen[p][i] = history[f]
  BY <1>2 DEF Planned, Reads, Waiting
<1>4. \A n \in Entries(p) : n.pos # i /\ Before(args[p], n.pos, i)
  BY DEF Planned, Left, Sorted
<1>5. m \in Migration
  <2>1. f \in Files /\ i \in Nat
    BY <1>2 DEF Typed, ProcessTypeOK
  <2>2. ChecksumOf(f) \in 0 .. MaxVersion
    BY <2>1, MigrateAssumption DEF ChecksumOf, Typed, DatabaseTypeOK, Versions
  <2>3. QED
    BY <2>1, <2>2 DEF Migration
<1>6. ASSUME UpToDate(seen[p][i], f), UNCHANGED <<queue, held, pc>>
      PROVE  Planned(p)'
  <2>1. Entries(p)' = Entries(p)
    BY <1>6 DEF Entries
  <2>2. Current(f)
    BY <1>3, <1>6 DEF UpToDate, Current, ChecksumOf
  <2>3. Reads(p)'
    BY <1>2, <1>6 DEF Planned, Reads
  <2>4. Left(p)'
    BY <1>2, <2>1 DEF Planned, Left, UpToDate, ChecksumOf
  <2>5. Sorted(p)'
    BY <1>2, <1>6, <2>1 DEF Planned, Sorted, Follows, Before
  <2>6. Covered(p)'
    BY <1>2, <2>1, <2>2 DEF Planned, Covered, Current
  <2>7. QED
    BY <2>3, <2>4, <2>5, <2>6 DEF Planned
<1>7. ASSUME ~UpToDate(seen[p][i], f), queue' = [queue EXCEPT ![p] = Append(@, m)],
             UNCHANGED <<held, pc>>
      PROVE  Planned(p)'
  <2>1. /\ queue[p] \in Seq(Migration) /\ queue'[p] = Append(queue[p], m)
        /\ DOMAIN queue'[p] = 1 .. Len(queue[p]) + 1
        /\ \A k \in DOMAIN queue[p] : queue'[p][k] = queue[p][k]
        /\ queue'[p][Len(queue[p]) + 1] = m
    BY <1>5, <1>7 DEF Typed, ProcessTypeOK
  <2>2. Entries(p)' = Entries(p) \cup {m}
    BY <1>7, <2>1 DEF Entries
  <2>3. Reads(p)'
    BY <1>2, <1>7 DEF Planned, Reads, Waiting
  <2>4. Left(p)'
    BY <1>2, <1>3, <1>7, <2>2 DEF Planned, Left, UpToDate, ChecksumOf
  <2>5. Sorted(p)'
    <3>1. ASSUME NEW k \in DOMAIN queue'[p], NEW l \in DOMAIN queue'[p], k < l
          PROVE  Follows(p, queue'[p][k].pos, queue'[p][l].pos)
      <4>1. k \in DOMAIN queue[p] /\ queue[p][k] \in Entries(p)
        BY <2>1, <3>1 DEF Entries
      <4>2. CASE l \in DOMAIN queue[p]
        BY <2>1, <3>1, <4>1, <4>2 DEF Planned, Sorted
      <4>3. CASE l = Len(queue[p]) + 1
        BY <1>4, <2>1, <4>1, <4>3 DEF Follows
      <4>4. QED
        BY <2>1, <4>2, <4>3
    <3>2. \A n \in Entries(p)' : \A j \in todo'[p] : Before(args[p], n.pos, j)
      BY <1>1, <1>2, <2>2 DEF Planned, Sorted
    <3>3. QED
      BY <1>2, <1>3, <1>7, <3>1, <3>2 DEF Sorted, Follows, Before
  <2>6. Covered(p)'
    <3>1. m.pos = i /\ Covered(p)
      BY DEF Planned
    <3> HIDE DEF m
    <3>2. QED
      BY <1>2, <2>2, <3>1, CoveredByBatch
  <2>7. QED
    BY <2>3, <2>4, <2>5, <2>6 DEF Planned
<1>8. ASSUME ~UpToDate(seen[p][i], f), held' = [held EXCEPT ![p] = <<m>>],
             Goto(p, "begin"), UNCHANGED queue
      PROVE  Planned(p)'
  <2>1. held'[p] = <<m>> /\ pc'[p] = "begin" /\ queue' = queue
    BY <1>8 DEF Goto, Typed, ProcessTypeOK
  <2>2. Entries(p)' = Entries(p) \cup {m}
    BY <1>3, <2>1 DEF Entries
  <2>3. Reads(p)'
    BY <1>2, <2>1 DEF Planned, Reads, Waiting
  <2>4. Left(p)'
    BY <1>2, <1>3, <1>8, <2>2 DEF Planned, Left, UpToDate, ChecksumOf
  <2>5. Sorted(p)'
    <3>1. \A n \in Entries(p)' : \A j \in todo'[p] : Before(args[p], n.pos, j)
      BY <1>1, <1>2, <2>2 DEF Planned, Sorted
    <3>2. \A k \in DOMAIN queue[p] : Follows(p, queue[p][k].pos, i)
      BY <1>4 DEF Follows, Entries
    <3>3. QED
      BY <1>2, <2>1, <3>1, <3>2 DEF Planned, Sorted, Follows, Before
  <2>6. Covered(p)'
    <3>1. m.pos = i /\ Covered(p)
      BY DEF Planned
    <3> HIDE DEF m
    <3>2. QED
      BY <1>2, <2>2, <3>1, CoveredByBatch
  <2>7. QED
    BY <2>3, <2>4, <2>5, <2>6 DEF Planned
<1>9. QED
  BY <1>1, <1>6, <1>7, <1>8

LEMMA PlanDonePlanned ==
  ASSUME Typed, NEW p \in Procs, Planned(p), PlanDone(p)
  PROVE  Planned(p)'
<1>1. CASE Leave(p)
  BY <1>1, LeavePlanned
<1>2. CASE UNCHANGED locals /\ Goto(p, "begin")
  <2>1. pc[p] \notin Waiting /\ pc'[p] = "begin"
    BY <1>2 DEF PlanDone, Goto, Waiting, Typed, ProcessTypeOK
  <2>2. QED
    BY <1>2, <2>1, SamePlanned DEF PlanDone, locals, db
<1>3. QED
  BY <1>1, <1>2 DEF PlanDone

(***************************************************************************)
(* The actions of runWithRetry and run.                                    *)
(***************************************************************************)

\* A failed attempt is tried again, undone, recorded, or the end of the run.
LEMMA FailPlanned ==
  ASSUME Typed, NEW p \in Procs, Planned(p), NEW t, Fail(p, t),
         pc[p] \in {"exec", "upsert", "commit"}, history' = history, content' = content
  PROVE  Planned(p)'
<1>1. CASE Leave(p)
  BY <1>1, LeavePlanned
<1>2. CASE UNCHANGED locals /\ (Goto(p, "begin") \/ Goto(p, "undo") \/ Goto(p, "record"))
  <2>1. pc[p] \notin Waiting /\ pc'[p] \in {"begin", "undo", "record"}
    BY <1>2 DEF Goto, Waiting, Typed, ProcessTypeOK
  <2>2. QED
    BY <1>2, <2>1, SamePlanned DEF locals
<1>3. QED
  BY <1>1, <1>2 DEF Fail

LEMMA BeginPlanned ==
  ASSUME Typed, NEW p \in Procs, Planned(p), Begin(p)
  PROVE  Planned(p)'
<1>1. CASE Leave(p)
  BY <1>1, LeavePlanned
<1>2. CASE Goto(p, "exec") /\ UNCHANGED <<args, todo, seen, queue, held>>
  <2>1. pc[p] \notin Waiting /\ pc'[p] = "exec"
    BY <1>2 DEF Begin, Goto, Waiting, Typed, ProcessTypeOK
  <2>2. QED
    BY <1>2, <2>1, SamePlanned DEF Begin, db
<1>3. QED
  BY <1>1, <1>2 DEF Begin

\* A script does not write the history.
LEMMA ExecPlanned ==
  ASSUME Single, Typed, NEW p \in Procs, Planned(p), Exec(p)
  PROVE  Planned(p)'
<1>1. CASE \E t \in BOOLEAN : Fail(p, t)
  BY <1>1, FailPlanned DEF Exec
<1>2. CASE Goto(p, "upsert") /\ UNCHANGED locals
  <2>1. pc[p] \notin Waiting /\ pc'[p] = "upsert"
    BY <1>2 DEF Exec, Goto, Waiting, Typed, ProcessTypeOK
  <2>2. QED
    BY <1>2, <2>1, SamePlanned DEF Exec, locals
<1>3. QED
  BY <1>1, <1>2 DEF Exec, Single

\* The row of a script is written at once if it ran outside a transaction, and with COMMIT
\* otherwise.
LEMMA UpsertOutcome ==
  ASSUME Typed, NEW p \in Procs, Upsert(p)
  PROVE  \/ /\ IsTx(queue[p])
            /\ history' = history
            /\ Goto(p, "commit") \/ Goto(p, "exec")
            /\ UNCHANGED <<args, todo, seen, queue, held, attempts>>
         \/ /\ ~IsTx(queue[p])
            /\ history' = Recorded(queue[p], TRUE)
            /\ Flushed(p)
         \/ /\ history' = history
            /\ \E fault \in {"upsert", "busy"} \cap Faults : Fail(p, fault = "busy")
<1>1. /\ queue[p] \in Seq(Migration) /\ queue[p] # <<>>
      /\ done[p] \in Nat /\ done[p] < Len(queue[p])
  BY DEF Upsert, Typed, ProcessTypeOK
<1>2. CASE IsTx(queue[p])
  BY <1>2 DEF Upsert, Advance
<1>3. CASE ~IsTx(queue[p])
  <2>1. Len(queue[p]) = 1
    BY <1>1, <1>3, DirectBatch
  <2>2. done[p] + 1 = Len(queue[p])
    BY <1>1, <2>1
  <2>3. QED
    BY <1>3, <2>2 DEF Upsert, Advance
<1>4. QED
  BY <1>2, <1>3

\* What is in a batch is not done, or is a repeatable migration that changed.
LEMMA BatchIsPending ==
  ASSUME Typed, Booked, NEW p \in Procs, Planned(p), NEW k \in DOMAIN queue[p]
  PROVE  LET f == queue[p][k].file IN
         /\ f \in Files
         /\ queue[p][k].checksum = ChecksumOf(f)
         /\ ~UpToDate(history[f], f)
         /\ f \notin Repeatable => ~history[f].success
<1> DEFINE f == queue[p][k].file
<1>1. queue[p][k] \in Migration
  <2>1. queue[p] \in Seq(Migration)
    BY DEF Typed, ProcessTypeOK
  <2>2. QED
    BY <2>1
<1>2. f \in Files
  BY <1>1 DEF Migration
<1>3. queue[p][k] \in Entries(p)
  BY DEF Entries
<1>4. queue[p][k].checksum = ChecksumOf(f) /\ ~UpToDate(history[f], f)
  BY <1>3 DEF Planned, Left
<1>5. f \notin Repeatable => ~history[f].success
  BY <1>2, <1>4 DEF UpToDate, Booked
<1>6. QED
  BY <1>2, <1>4, <1>5

\* What a batch is recorded as.
LEMMA RecordedRow ==
  ASSUME Typed, Booked, NEW p \in Procs, Planned(p), NEW q \in Seq(Migration), NEW ok,
         DOMAIN q \subseteq DOMAIN queue[p], \A k \in DOMAIN q : q[k] = queue[p][k],
         NEW f \in Files
  PROVE  Recorded(q, ok)[f] = IF f \in FilesOf(q)
                              THEN [valid |-> TRUE, checksum |-> ChecksumOf(f), success |-> ok]
                              ELSE history[f]
<1>1. \A k \in DOMAIN q : q[k].checksum = ChecksumOf(q[k].file)
  BY BatchIsPending
<1>2. f \in FilesOf(q) => QueuedChecksum(q, f) = ChecksumOf(f)
  BY <1>1, QueuedChecksums
<1>3. QED
  BY <1>2 DEF Recorded

\* A position outside of the batch is of a file outside of the batch.
LEMMA OtherFile ==
  ASSUME NEW p \in Procs, Planned(p), NEW i \in DOMAIN args[p],
         \A k \in DOMAIN queue[p] : queue[p][k].pos # i
  PROVE  args[p][i] \notin FilesOf(queue[p])
<1>1. \A k \in DOMAIN queue[p] : queue[p][k] \in Entries(p)
  BY DEF Entries
<1>2. \A k \in DOMAIN queue[p] :
        queue[p][k].pos \in DOMAIN args[p] /\ queue[p][k].file = args[p][queue[p][k].pos]
  BY <1>1 DEF Planned, Left
<1>3. \A i1, j1 \in DOMAIN args[p] : args[p][i1] = args[p][j1] => i1 = j1
  BY DEF Planned, Reads
<1>4. QED
  BY <1>2, <1>3 DEF FilesOf

\* A row that says so makes a file current.
LEMMA RecordedIsDone ==
  ASSUME NEW f \in Files, content' = content,
         history'[f] = [valid |-> TRUE, checksum |-> ChecksumOf(f), success |-> TRUE]
  PROVE  history'[f].success /\ (f \in Repeatable => history'[f].checksum = content'[f])
  BY DEF ChecksumOf

\* A batch is recorded: the migration that waited opens the next one.
LEMMA FlushedPlanned ==
  ASSUME Typed, Booked, NEW p \in Procs, Planned(p), pc[p] \in {"upsert", "commit"}, Flushed(p),
         history' = Recorded(queue[p], TRUE), content' = content
  PROVE  Planned(p)'
<1>1. /\ queue[p] \in Seq(Migration) /\ held[p] \in Seq(Migration)
      /\ args[p] \in Seq(Files) /\ todo[p] \subseteq DOMAIN args[p]
  BY DEF Typed, ProcessTypeOK
<1>2. /\ pc'[p] = "plan" /\ queue'[p] = held[p] /\ held'[p] = <<>>
      /\ args' = args /\ todo' = todo /\ seen' = seen
  BY DEF Flushed, Goto, Typed, ProcessTypeOK
<1>3. \A f \in Files :
        history'[f] = IF f \in FilesOf(queue[p])
                      THEN [valid |-> TRUE, checksum |-> ChecksumOf(f), success |-> TRUE]
                      ELSE history[f]
  BY <1>1, RecordedRow
<1>4. Entries(p)' = {held[p][k] : k \in DOMAIN held[p]}
  BY <1>2 DEF Entries
<1>5. Entries(p)' \subseteq Entries(p)
  BY <1>4 DEF Entries
<1>6. \A i \in todo[p] : args[p][i] \in Files /\ history'[args[p][i]] = history[args[p][i]]
  <2>1. SUFFICES ASSUME NEW i \in todo[p]
                 PROVE  args[p][i] \in Files /\ args[p][i] \notin FilesOf(queue[p])
    BY <1>3
  <2>2. \A k \in DOMAIN queue[p] : queue[p][k].pos # i
    BY DEF Planned, Left, Entries
  <2>3. QED
    BY <1>1, <2>2, OtherFile
<1>7. \A m \in Entries(p)' : m.file \in Files /\ history'[m.file] = history[m.file]
  <2>1. SUFFICES ASSUME NEW l \in DOMAIN held[p]
                 PROVE  held[p][l].file \in Files /\ held[p][l].file \notin FilesOf(queue[p])
    BY <1>3, <1>4
  <2>2. held[p][l] \in Entries(p)
    BY DEF Entries
  <2>3. held[p][l].pos \in DOMAIN args[p] /\ held[p][l].file = args[p][held[p][l].pos]
    BY <2>2 DEF Planned, Left
  <2>4. \A k \in DOMAIN queue[p] : queue[p][k].pos # held[p][l].pos
    BY DEF Planned, Sorted, Follows
  <2>5. QED
    BY <1>1, <2>3, <2>4, OtherFile
<1>8. Reads(p)'
  BY <1>2, <1>6 DEF Planned, Reads, Waiting
<1>9. Left(p)'
  BY <1>2, <1>5, <1>7 DEF Planned, Left, UpToDate, ChecksumOf
<1>10. Sorted(p)'
  <2>1. Len(held[p]) \in Nat /\ Len(held[p]) <= 1 /\ DOMAIN held[p] = 1 .. Len(held[p])
    BY <1>1 DEF Planned, Sorted
  <2>2. \A k, l \in DOMAIN held[p] : ~(k < l)
    BY <2>1
  <2>3. \A m \in Entries(p)' : \A j \in todo[p] : Before(args[p], m.pos, j)
    BY <1>5 DEF Planned, Sorted
  <2>4. QED
    BY <1>2, <2>2, <2>3 DEF Sorted, Before
<1>11. Covered(p)'
  <2>1. SUFFICES ASSUME NEW i \in DOMAIN args[p], args[p][i] \in Migrations
                 PROVE  i \in todo[p] \/ Current(args[p][i])' \/ \E m \in Entries(p)' : m.pos = i
    BY <1>2 DEF Covered, Migrations
  <2>2. args[p][i] \in Files
    BY <1>1
  <2>3. CASE args[p][i] \in FilesOf(queue[p])
    <3>1. ASSUME NEW f \in Files, f \in FilesOf(queue[p])
          PROVE  history'[f].success /\ (f \in Repeatable => history'[f].checksum = content'[f])
      BY <1>3, <3>1, RecordedIsDone
    <3>2. Current(args[p][i])'
      BY <1>2, <2>2, <2>3, <3>1 DEF Current
    <3>3. QED
      BY <3>2
  <2>4. CASE args[p][i] \notin FilesOf(queue[p])
    <3>1. ~\E k \in DOMAIN queue[p] : queue[p][k].pos = i
      BY <2>4 DEF Planned, Left, Entries, FilesOf
    <3>2. i \in todo[p] \/ Current(args[p][i]) \/ \E m \in Entries(p) : m.pos = i
      BY <2>1 DEF Planned, Covered
    <3>3. Current(args[p][i]) => Current(args[p][i])'
      BY <1>2, <1>3, <2>2, <2>4 DEF Current
    <3>4. (\E m \in Entries(p) : m.pos = i) => \E m \in Entries(p)' : m.pos = i
      BY <1>4, <3>1 DEF Entries
    <3>5. QED
      BY <3>2, <3>3, <3>4
  <2>5. QED
    BY <2>3, <2>4
<1>12. QED
  BY <1>8, <1>9, <1>10, <1>11 DEF Planned

LEMMA UpsertPlanned ==
  ASSUME Typed, Booked, NEW p \in Procs, Planned(p), Upsert(p)
  PROVE  Planned(p)'
<1>1. CASE history' = history /\ \E t : Fail(p, t)
  BY <1>1, FailPlanned DEF Upsert
<1>2. CASE /\ history' = history
           /\ Goto(p, "commit") \/ Goto(p, "exec")
           /\ UNCHANGED <<args, todo, seen, queue, held, attempts>>
  <2>1. pc[p] \notin Waiting /\ pc'[p] \in {"commit", "exec"}
    BY <1>2 DEF Upsert, Goto, Waiting, Typed, ProcessTypeOK
  <2>2. QED
    BY <1>2, <2>1, SamePlanned DEF Upsert
<1>3. CASE history' = Recorded(queue[p], TRUE) /\ Flushed(p)
  BY <1>3, FlushedPlanned DEF Upsert
<1>4. QED
  BY <1>1, <1>2, <1>3, UpsertOutcome

LEMMA CommitPlanned ==
  ASSUME Single, Typed, Booked, NEW p \in Procs, Planned(p), Commit(p)
  PROVE  Planned(p)'
<1>1. CASE Flushed(p) /\ history' = Recorded(queue[p], TRUE)
  BY <1>1, FlushedPlanned DEF Commit
<1>2. CASE Fail(p, FALSE) /\ UNCHANGED history
  BY <1>2, FailPlanned DEF Commit
<1>3. QED
  BY <1>1, <1>2 DEF Commit, Single

LEMMA UndoPlanned ==
  ASSUME Typed, NEW p \in Procs, Planned(p), Undo(p)
  PROVE  Planned(p)'
<1>1. pc[p] \notin Waiting /\ pc'[p] = "record"
  BY DEF Undo, Goto, Waiting, Typed, ProcessTypeOK
<1>2. QED
  BY <1>1, SamePlanned DEF Undo, locals

(***************************************************************************)
(* What the actions do to the books.                                       *)
(***************************************************************************)

\* What Booked says of a file.
BookedFile(f) ==
  /\ history[f].success => history[f].valid
  /\ f \notin Repeatable => history[f].checksum = 0
  /\ f \notin Direct =>
       /\ f \notin residue
       /\ times[f] > 0 <=> version[f] > 0
       /\ f \notin Repeatable => times[f] = (IF history[f].success THEN 1 ELSE 0)
       /\ f \in Repeatable /\ history[f].success => history[f].checksum = version[f]

LEMMA BookedFiles == Booked <=> \A f \in Files : BookedFile(f)
  BY DEF Booked, BookedFile

LEMMA BookedNext == Booked' <=> \A f \in Files : BookedFile(f)'
  BY DEF Booked, BookedFile, Direct

\* What concerns other files than f only.
LEMMA BookedKept ==
  ASSUME NEW f, BookedFile(f), history'[f] = history[f],
         f \notin Direct =>
           /\ times'[f] = times[f] /\ version'[f] = version[f]
           /\ f \in residue' => f \in residue
  PROVE  BookedFile(f)'
BY DEF BookedFile, Direct

\* A row of the kind a batch gets, of a script that runs outside a transaction.
LEMMA BookedDirect ==
  ASSUME NEW f \in Direct, NEW ok \in BOOLEAN,
         history'[f] = [valid |-> TRUE, checksum |-> ChecksumOf(f), success |-> ok]
  PROVE  BookedFile(f)'
BY DEF BookedFile, Direct, ChecksumOf

LEMMA ExecBooked ==
  ASSUME Typed, Booked, NEW p \in Procs, Exec(p)
  PROVE  Booked'
<1>1. /\ queue[p] \in Seq(Migration) /\ queue[p] # <<>>
      /\ done[p] \in Nat /\ done[p] < Len(queue[p]) /\ UNCHANGED history
  BY DEF Exec, Typed, ProcessTypeOK
<1>2. SUFFICES ASSUME NEW f \in Files, f \notin Direct
               PROVE  /\ times'[f] = times[f] /\ version'[f] = version[f]
                      /\ f \in residue' => f \in residue
  BY <1>1, BookedFiles, BookedNext, BookedKept
<1>3. CASE UNCHANGED <<times, residue, version>>
  BY <1>3
<1>4. CASE ~IsTx(queue[p])
  <2>1. FilesOf(queue[p]) = {queue[p][1].file} /\ queue[p][1].file # f /\ Len(queue[p]) = 1
    BY <1>1, <1>2, <1>4, DirectBatch
  <2>2. CASE Execute(queue[p])
    BY <2>1, <2>2 DEF Execute
  <2>3. CASE UNCHANGED <<times, version>> /\ residue' = residue \cup {queue[p][done[p] + 1].file}
    <3>1. done[p] + 1 = 1
      BY <1>1, <2>1
    <3>2. QED
      BY <2>1, <2>3, <3>1
  <2>4. QED
    BY <1>3, <2>2, <2>3 DEF Exec
<1>5. QED
  BY <1>3, <1>4 DEF Exec

LEMMA UpsertBooked ==
  ASSUME Typed, Booked, NEW p \in Procs, Planned(p), Upsert(p)
  PROVE  Booked'
<1>1. UNCHANGED <<times, residue, version>> /\ queue[p] \in Seq(Migration) /\ queue[p] # <<>>
  BY DEF Upsert, Typed, ProcessTypeOK
<1>2. CASE history' = history
  BY <1>1, <1>2 DEF Booked
<1>3. CASE ~IsTx(queue[p]) /\ history' = Recorded(queue[p], TRUE)
  <2>1. SUFFICES ASSUME NEW f \in Files PROVE BookedFile(f)'
    BY BookedNext
  <2>2. history'[f] = IF f \in FilesOf(queue[p])
                      THEN [valid |-> TRUE, checksum |-> ChecksumOf(f), success |-> TRUE]
                      ELSE history[f]
    BY <1>1, <1>3, RecordedRow
  <2>3. CASE f \in FilesOf(queue[p])
    BY <1>1, <1>3, <2>2, <2>3, DirectBatch, BookedDirect
  <2>4. CASE f \notin FilesOf(queue[p])
    BY <1>1, <2>2, <2>4, BookedFiles, BookedKept
  <2>5. QED
    BY <2>3, <2>4
<1>4. QED
  BY <1>2, <1>3, UpsertOutcome

LEMMA CommitBooked ==
  ASSUME Single, Typed, Booked, NEW p \in Procs, Planned(p), Commit(p)
  PROVE  Booked'
<1>1. CASE UNCHANGED <<history, times, residue, version>>
  BY <1>1 DEF Booked
<1>2. CASE Execute(queue[p]) /\ history' = Recorded(queue[p], TRUE)
  <2>1. SUFFICES ASSUME NEW f \in Files PROVE BookedFile(f)'
    BY BookedNext
  <2>2. queue[p] \in Seq(Migration)
    BY DEF Typed, ProcessTypeOK
  <2>3. history'[f] = IF f \in FilesOf(queue[p])
                      THEN [valid |-> TRUE, checksum |-> ChecksumOf(f), success |-> TRUE]
                      ELSE history[f]
    BY <1>2, <2>2, RecordedRow
  <2>4. CASE f \notin FilesOf(queue[p])
    <3>1. /\ times'[f] = times[f] /\ version'[f] = version[f] /\ history'[f] = history[f]
          /\ f \in residue' => f \in residue
      BY <1>2, <2>3, <2>4 DEF Execute
    <3>2. QED
      BY <3>1, BookedFiles, BookedKept
  <2>5. CASE f \in FilesOf(queue[p])
    <3>1. PICK k \in DOMAIN queue[p] : queue[p][k].file = f
      BY <2>5 DEF FilesOf
    <3>2. f \notin Direct /\ f \notin Repeatable => times[f] = 0
      BY <3>1, BatchIsPending DEF Booked
    <3>3. \A j, l \in DOMAIN queue[p] : queue[p][j].file = f /\ queue[p][l].file = f => j = l
      BY OnceInBatch
    <3>4. /\ times'[f] = IF times[f] = 0 THEN 1 ELSE 2
          /\ version'[f] = content[f] /\ f \notin residue'
      BY <1>2, <2>5, <3>3 DEF Execute
    <3>5. content[f] \in Nat /\ content[f] > 0
      BY MigrateAssumption DEF Typed, DatabaseTypeOK, Versions
    <3>6. times'[f] > 0 <=> version'[f] > 0
      BY <3>4, <3>5
    <3>7. history'[f] = [valid |-> TRUE, checksum |-> ChecksumOf(f), success |-> TRUE]
      BY <2>3, <2>5
    <3>8. f \notin Direct /\ f \notin Repeatable => times'[f] = 1
      BY <3>2, <3>4
    <3>9. f \in Repeatable => history'[f].checksum = version'[f]
      BY <3>4, <3>7 DEF ChecksumOf
    <3>10. f \notin Repeatable => history'[f].checksum = 0
      BY <3>7 DEF ChecksumOf
    <3>11. QED
      BY <3>4, <3>6, <3>7, <3>8, <3>9, <3>10 DEF BookedFile, Direct
  <2>6. QED
    BY <2>4, <2>5
<1>3. QED
  BY <1>1, <1>2 DEF Commit, Single

LEMMA UndoBooked ==
  ASSUME Typed, UndoesAlone, Booked, NEW p \in Procs, Undo(p)
  PROVE  Booked'
<1>1. /\ queue[p] \in Seq(Migration) /\ queue[p] # <<>> /\ ~IsTx(queue[p])
      /\ UNCHANGED history
  BY DEF Undo, UndoesAlone, Typed, ProcessTypeOK
<1>2. queue[p][1].file \in Direct
  BY <1>1, DirectBatch
<1>3. ASSUME NEW f \in Files, f \notin Direct
      PROVE  /\ times'[f] = times[f] /\ version'[f] = version[f]
             /\ f \in residue' => f \in residue
  BY <1>2, <1>3 DEF Undo, Typed, DatabaseTypeOK
<1>4. QED
  BY <1>1, <1>3, BookedFiles, BookedNext, BookedKept

LEMMA RecordBooked ==
  ASSUME Single, Typed, Booked, NEW p \in Procs, Planned(p), Record(p)
  PROVE  Booked'
<1>1. UNCHANGED <<times, residue, version>>
  BY DEF Record
<1>2. CASE UNCHANGED history
  BY <1>1, <1>2 DEF Booked
<1>3. DEFINE q == Attempted(queue[p], done[p])
<1>4. CASE history' = Recorded(q, FALSE)
  <2>1. queue[p] \in Seq(Migration) /\ done[p] \in Nat
    BY DEF Typed, ProcessTypeOK
  <2>2. /\ q \in Seq(Migration) /\ DOMAIN q \subseteq DOMAIN queue[p]
        /\ \A k \in DOMAIN q : q[k] = queue[p][k]
    BY <2>1, AttemptedIsPrefix
  <2> HIDE DEF q
  <2>3. SUFFICES ASSUME NEW f \in Files PROVE BookedFile(f)'
    BY BookedNext
  <2>4. history'[f] = IF f \in FilesOf(q)
                      THEN [valid |-> TRUE, checksum |-> ChecksumOf(f), success |-> FALSE]
                      ELSE history[f]
    BY <1>4, <2>2, RecordedRow
  <2>5. CASE f \notin FilesOf(q)
    BY <1>1, <2>4, <2>5, BookedFiles, BookedKept
  <2>6. CASE f \in FilesOf(q)
    <3>1. PICK k \in DOMAIN q : q[k].file = f
      BY <2>6 DEF FilesOf
    <3>2. k \in DOMAIN queue[p] /\ queue[p][k].file = f
      BY <2>2, <3>1
    <3>3. f \notin Direct /\ f \notin Repeatable => times[f] = 0
      BY <3>2, BatchIsPending DEF Booked
    <3>4. f \notin Direct => f \notin residue /\ (times[f] > 0 <=> version[f] > 0)
      BY DEF Booked
    <3>5. history'[f] = [valid |-> TRUE, checksum |-> ChecksumOf(f), success |-> FALSE]
      BY <2>4, <2>6
    <3>6. QED
      BY <1>1, <3>3, <3>4, <3>5 DEF BookedFile, Direct, ChecksumOf
  <2>7. QED
    BY <2>5, <2>6
<1>5. QED
  BY <1>2, <1>4 DEF Record, Single

(***************************************************************************)
(* The invariant holds.                                                    *)
(***************************************************************************)

LEMMA EditPlanned ==
  ASSUME Typed, NEW p \in Procs, Planned(p), NEW f \in Files, Edit(f)
  PROVE  Planned(p)'
<1>1. pc[p] = "idle" /\ UNCHANGED <<pc, args, todo, seen, queue, held>>
  BY DEF Edit, locals
<1>2. queue[p] = <<>> /\ held[p] = <<>> /\ args[p] = <<>>
  BY <1>1 DEF Planned, Reads, Waiting
<1>3. Entries(p)' = {}
  BY <1>1, <1>2 DEF Entries
<1>4. Reads(p)'
  BY <1>1, <1>2 DEF Planned, Reads, Waiting
<1>5. Left(p)' /\ Covered(p)'
  BY <1>1, <1>2, <1>3 DEF Left, Covered
<1>6. Sorted(p)'
  BY <1>1, <1>2, <1>3 DEF Sorted
<1>7. QED
  BY <1>4, <1>5, <1>6 DEF Planned

LEMMA InitLedgerInv == Init => LedgerInv
<1>1. SUFFICES ASSUME Init PROVE LedgerInv
  OBVIOUS
<1>2. Booked /\ UndoesAlone
  BY <1>1 DEF Init, Booked, NoRow, UndoesAlone
<1>3. ASSUME NEW p \in Procs PROVE Planned(p)
  <2>1. /\ pc[p] = "idle" /\ args[p] = <<>> /\ todo[p] = {}
        /\ queue[p] = <<>> /\ held[p] = <<>>
    BY <1>1 DEF Init
  <2>2. Entries(p) = {}
    BY <2>1 DEF Entries
  <2>3. QED
    BY <2>1, <2>2 DEF Planned, Reads, Left, Sorted, Covered
<1>4. QED
  BY <1>2, <1>3 DEF LedgerInv

LEMMA NextLedgerInv ==
  ASSUME Single, Typed, LedgerInv, [Next]_vars
  PROVE  LedgerInv'
<1>1. UndoesAlone' /\ UndoesAlone /\ Booked /\ \A p \in Procs : Planned(p)
  BY StepUndoesAlone DEF LedgerInv
<1>2. ASSUME NEW p \in Procs, Start(p) \/ Step(p) \/ Crash(p)
      PROVE  LedgerInv'
  <2>1. SUFFICES Booked' /\ Planned(p)'
    BY <1>1 DEF LedgerInv, Single
  <2>2. ASSUME UNCHANGED <<history, times, residue, version>> PROVE Booked'
    BY <1>1, <2>2 DEF Booked
  <2>3. CASE Start(p)
    BY <1>1, <2>2, <2>3, StartPlanned DEF Start, db
  <2>4. CASE Ensure(p)
    BY <1>1, <2>2, <2>4, EnsurePlanned DEF Ensure, db
  <2>5. CASE Create(p)
    BY <1>1, <2>2, <2>5, CreatePlanned DEF Create
  <2>6. CASE ReadHistory(p)
    BY <1>1, <2>2, <2>6, ReadHistoryPlanned DEF ReadHistory, db
  <2>7. CASE Plan(p)
    BY <1>1, <2>2, <2>7, PlanPlanned DEF Plan, db
  <2>8. CASE PlanDone(p)
    BY <1>1, <2>2, <2>8, PlanDonePlanned DEF PlanDone, db
  <2>9. CASE Begin(p)
    BY <1>1, <2>2, <2>9, BeginPlanned DEF Begin, db
  <2>10. CASE Exec(p)
    BY <1>1, <2>10, ExecPlanned, ExecBooked
  <2>11. CASE Upsert(p)
    BY <1>1, <2>11, UpsertPlanned, UpsertBooked
  <2>12. CASE Commit(p)
    BY <1>1, <2>12, CommitPlanned, CommitBooked
  <2>13. CASE Undo(p)
    BY <1>1, <2>13, UndoPlanned, UndoBooked
  <2>14. CASE Record(p)
    BY <1>1, <2>14, RecordBooked, LeavePlanned DEF Record
  <2>15. CASE Crash(p)
    BY <1>1, <2>2, <2>15, LeavePlanned DEF Crash, db
  <2>16. QED
    BY <1>2, <2>3, <2>4, <2>5, <2>6, <2>7, <2>8, <2>9, <2>10, <2>11, <2>12, <2>13, <2>14, <2>15
       DEF Step
<1>3. ASSUME NEW f \in Files, Edit(f)
      PROVE  LedgerInv'
  <2>1. Booked'
    BY <1>1, <1>3 DEF Edit, db, Booked
  <2>2. QED
    BY <1>1, <1>3, <2>1, EditPlanned DEF LedgerInv
<1>4. ASSUME UNCHANGED vars PROVE LedgerInv'
  <2>1. Booked' /\ \A p \in Procs : Entries(p)' = Entries(p)
    BY <1>1, <1>4 DEF vars, db, locals, Booked, Entries
  <2>2. ASSUME NEW p \in Procs PROVE Planned(p)'
    <3>1. Planned(p)
      BY <1>1
    <3>2. Reads(p)' /\ Covered(p)'
      BY <1>4, <2>1, <3>1 DEF vars, db, locals, Planned, Reads, Covered, Current
    <3>3. Left(p)' /\ Sorted(p)'
      BY <1>4, <2>1, <3>1 DEF vars, db, locals, Planned, Left, Sorted, Follows, UpToDate, ChecksumOf
    <3>4. QED
      BY <3>2, <3>3 DEF Planned
  <2>3. QED
    BY <1>1, <2>1, <2>2 DEF LedgerInv
<1>5. QED
  BY <1>2, <1>3, <1>4 DEF Next

(***************************************************************************)
(* Outside of transactions.                                                *)
(***************************************************************************)

\* What AppliedIsBooked says of a file.
AppliedFile(f) == times[f] = IF history[f].success \/ Unbooked(f) THEN 1 ELSE 0

LEMMA AppliedFiles == AppliedIsBooked <=> \A f \in Files \ Repeatable : AppliedFile(f)
  BY DEF AppliedIsBooked, AppliedFile

LEMMA AppliedNext == AppliedIsBooked' <=> \A f \in Files \ Repeatable : AppliedFile(f)'
  BY DEF AppliedIsBooked, AppliedFile, Unbooked, IsTx, FilesOf

LEMMA UnbookedHere ==
  ASSUME Single, NEW p \in Procs, NEW f
  PROVE  /\ Unbooked(f) <=>
              pc[p] = "upsert" /\ ~IsTx(queue[p]) /\ f \in FilesOf(queue[p])
         /\ Unbooked(f)' <=>
              pc'[p] = "upsert" /\ ~IsTx(queue[p])' /\ f \in FilesOf(queue[p])'
BY DEF Single, Unbooked, IsTx, FilesOf

\* Away from the upsert, what is in a batch is not in the database.
LEMMA BatchIsNotApplied ==
  ASSUME Single, Typed, LedgerInv, AppliedIsBooked, NEW p \in Procs, pc[p] # "upsert",
         NEW k \in DOMAIN queue[p], queue[p][k].file \notin Repeatable
  PROVE  times[queue[p][k].file] = 0
<1> DEFINE f == queue[p][k].file
<1>1. Planned(p) /\ Booked
  BY DEF LedgerInv
<1>2. f \in Files /\ ~history[f].success
  BY <1>1, BatchIsPending
<1>3. ~Unbooked(f)
  BY UnbookedHere
<1>4. QED
  BY <1>2, <1>3 DEF AppliedIsBooked

\* A step that is not about the upsert and leaves the database alone.
LEMMA AppliedKept ==
  ASSUME Single, AppliedIsBooked, NEW p \in Procs, pc[p] # "upsert", pc'[p] # "upsert",
         UNCHANGED <<history, times>>
  PROVE  AppliedIsBooked'
BY AppliedFiles, AppliedNext, UnbookedHere DEF AppliedFile

LEMMA ExecApplied ==
  ASSUME Single, Typed, LedgerInv, AppliedIsBooked, NEW p \in Procs, Exec(p)
  PROVE  AppliedIsBooked'
<1>1. /\ queue[p] \in Seq(Migration) /\ queue[p] # <<>>
      /\ pc[p] = "exec" /\ UNCHANGED history /\ p \in DOMAIN pc
  BY DEF Exec, Typed, ProcessTypeOK
<1>2. CASE UNCHANGED times /\ \E t \in BOOLEAN : Fail(p, t)
  <2>1. pc'[p] # "upsert"
    BY <1>1, <1>2 DEF Fail, Leave, Goto, Typed, ProcessTypeOK
  <2>2. QED
    BY <1>1, <1>2, <2>1, AppliedKept
<1>3. CASE /\ IF IsTx(queue[p]) THEN UNCHANGED <<times, residue, version>>
              ELSE Execute(queue[p])
           /\ Goto(p, "upsert") /\ UNCHANGED locals
  <2>1. pc'[p] = "upsert" /\ queue' = queue
    BY <1>1, <1>3 DEF Goto, locals
  <2>2. SUFFICES ASSUME NEW f \in Files \ Repeatable PROVE AppliedFile(f)'
    BY AppliedNext
  <2>3. AppliedFile(f) /\ ~Unbooked(f)
    BY <1>1, AppliedFiles, UnbookedHere
  <2>4. Unbooked(f)' <=> ~IsTx(queue[p]) /\ f \in FilesOf(queue[p])
    BY <2>1, UnbookedHere DEF IsTx, FilesOf
  <2>5. CASE ~IsTx(queue[p]) /\ f \in FilesOf(queue[p])
    <3>1. /\ Execute(queue[p])
          /\ Len(queue[p]) = 1 /\ f = queue[p][1].file /\ 1 \in DOMAIN queue[p]
          /\ \A j, k \in DOMAIN queue[p] : j = k
      BY <1>1, <1>3, <2>5, DirectBatch
    <3>2. times[f] = 0
      BY <1>1, <3>1, BatchIsNotApplied
    <3>3. times'[f] = 1
      BY <2>5, <3>1, <3>2 DEF Execute
    <3>4. QED
      BY <2>4, <2>5, <3>3 DEF AppliedFile
  <2>6. CASE ~(~IsTx(queue[p]) /\ f \in FilesOf(queue[p]))
    <3>1. times'[f] = times[f]
      BY <1>3, <2>6 DEF Execute
    <3>2. QED
      BY <1>1, <2>3, <2>4, <2>6, <3>1 DEF AppliedFile
  <2>7. QED
    BY <2>5, <2>6
<1>4. QED
  BY <1>2, <1>3 DEF Exec, Single

LEMMA UpsertApplied ==
  ASSUME Certain, Typed, LedgerInv, AppliedIsBooked, NEW p \in Procs, Upsert(p)
  PROVE  AppliedIsBooked'
<1>1. /\ queue[p] \in Seq(Migration) /\ pc[p] = "upsert" /\ UNCHANGED times
      /\ Single /\ Planned(p) /\ Booked
  BY DEF Upsert, Typed, ProcessTypeOK, Certain, LedgerInv
<1>2. SUFFICES ASSUME NEW f \in Files \ Repeatable PROVE AppliedFile(f)'
  BY AppliedNext
<1>3. AppliedFile(f)
  BY AppliedFiles
<1>4. CASE /\ IsTx(queue[p])
           /\ history' = history
           /\ Goto(p, "commit") \/ Goto(p, "exec")
  <2>1. pc'[p] # "upsert"
    BY <1>4 DEF Goto, Typed, ProcessTypeOK
  <2>2. ~Unbooked(f) /\ ~Unbooked(f)'
    BY <1>1, <1>4, <2>1, UnbookedHere
  <2>3. QED
    BY <1>1, <1>3, <1>4, <2>2 DEF AppliedFile
<1>5. CASE ~IsTx(queue[p]) /\ history' = Recorded(queue[p], TRUE) /\ Flushed(p)
  <2>1. pc'[p] # "upsert"
    BY <1>5 DEF Flushed, Goto, Typed, ProcessTypeOK
  <2>2. ~Unbooked(f)' /\ (Unbooked(f) <=> f \in FilesOf(queue[p]))
    BY <1>1, <1>5, <2>1, UnbookedHere
  <2>3. history'[f] = IF f \in FilesOf(queue[p])
                      THEN [valid |-> TRUE, checksum |-> ChecksumOf(f), success |-> TRUE]
                      ELSE history[f]
    BY <1>1, <1>5, RecordedRow
  <2>4. QED
    BY <1>1, <1>3, <2>2, <2>3 DEF AppliedFile
<1>6. {"upsert", "busy"} \cap Faults = {}
  BY DEF Certain
<1>7. QED
  BY <1>4, <1>5, <1>6, UpsertOutcome

LEMMA CommitApplied ==
  ASSUME Single, Typed, LedgerInv, AppliedIsBooked, NEW p \in Procs, Commit(p)
  PROVE  AppliedIsBooked'
<1>1. /\ queue[p] \in Seq(Migration) /\ pc[p] = "commit" /\ Planned(p) /\ Booked
      /\ p \in DOMAIN pc
  BY DEF Commit, Typed, ProcessTypeOK, LedgerInv
<1>2. pc'[p] # "upsert"
  BY <1>1 DEF Commit, Flushed, Fail, Leave, Goto
<1>3. CASE UNCHANGED <<history, times>>
  BY <1>1, <1>2, <1>3, AppliedKept
<1>4. CASE Execute(queue[p]) /\ history' = Recorded(queue[p], TRUE)
  <2>1. SUFFICES ASSUME NEW f \in Files \ Repeatable PROVE AppliedFile(f)'
    BY AppliedNext
  <2>2. AppliedFile(f) /\ ~Unbooked(f) /\ ~Unbooked(f)'
    BY <1>1, <1>2, AppliedFiles, UnbookedHere
  <2>3. history'[f] = IF f \in FilesOf(queue[p])
                      THEN [valid |-> TRUE, checksum |-> ChecksumOf(f), success |-> TRUE]
                      ELSE history[f]
    BY <1>1, <1>4, RecordedRow
  <2>4. CASE f \notin FilesOf(queue[p])
    <3>1. times'[f] = times[f]
      BY <1>4, <2>4 DEF Execute
    <3>2. QED
      BY <2>2, <2>3, <2>4, <3>1 DEF AppliedFile
  <2>5. CASE f \in FilesOf(queue[p])
    <3>1. PICK k \in DOMAIN queue[p] : queue[p][k].file = f
      BY <2>5 DEF FilesOf
    <3>2. times[f] = 0
      BY <1>1, <3>1, BatchIsNotApplied
    <3>3. \A j, l \in DOMAIN queue[p] : queue[p][j].file = f /\ queue[p][l].file = f => j = l
      BY <1>1, OnceInBatch
    <3>4. times'[f] = 1
      BY <1>4, <2>5, <3>2, <3>3 DEF Execute
    <3>5. QED
      BY <2>2, <2>3, <2>5, <3>4 DEF AppliedFile
  <2>6. QED
    BY <2>4, <2>5
<1>5. QED
  BY <1>3, <1>4 DEF Commit, Single

\* An undo script finds nothing of a script that is not repeatable.
LEMMA UndoApplied ==
  ASSUME Single, Typed, LedgerInv, AppliedIsBooked, NEW p \in Procs, Undo(p)
  PROVE  AppliedIsBooked'
<1>1. /\ queue[p] \in Seq(Migration) /\ queue[p] # <<>> /\ p \in DOMAIN pc
      /\ pc[p] = "undo" /\ UNCHANGED history
  BY DEF Undo, Typed, ProcessTypeOK
<1>2. pc'[p] # "upsert" /\ 1 \in DOMAIN queue[p]
  BY <1>1 DEF Undo, Goto
<1>3. SUFFICES ASSUME NEW f \in Files \ Repeatable PROVE AppliedFile(f)'
  BY AppliedNext
<1>4. AppliedFile(f) /\ ~Unbooked(f) /\ ~Unbooked(f)'
  BY <1>1, <1>2, AppliedFiles, UnbookedHere
<1>5. f = queue[p][1].file => times[f] = 0
  BY <1>1, <1>2, BatchIsNotApplied
<1>6. times'[f] = times[f]
  BY <1>5 DEF Undo, Typed, DatabaseTypeOK
<1>7. QED
  BY <1>1, <1>4, <1>6 DEF AppliedFile

LEMMA RecordApplied ==
  ASSUME Single, Typed, LedgerInv, AppliedIsBooked, NEW p \in Procs, Record(p)
  PROVE  AppliedIsBooked'
<1>1. /\ queue[p] \in Seq(Migration) /\ done[p] \in Nat /\ p \in DOMAIN pc
      /\ pc[p] = "record" /\ UNCHANGED times
  BY DEF Record, Typed, ProcessTypeOK
<1>2. pc'[p] # "upsert"
  BY <1>1 DEF Record, Leave, Goto
<1> DEFINE q == Attempted(queue[p], done[p])
<1>3. /\ q \in Seq(Migration) /\ DOMAIN q \subseteq DOMAIN queue[p]
      /\ \A k \in DOMAIN q : q[k] = queue[p][k]
  BY <1>1, AttemptedIsPrefix
<1> HIDE DEF q
<1>4. SUFFICES ASSUME NEW f \in Files \ Repeatable PROVE AppliedFile(f)'
  BY AppliedNext
<1>5. AppliedFile(f) /\ ~Unbooked(f) /\ ~Unbooked(f)'
  BY <1>1, <1>2, AppliedFiles, UnbookedHere
<1>6. f \in FilesOf(q) => times[f] = 0
  BY <1>1, <1>3, BatchIsNotApplied DEF FilesOf
<1>7. history'[f] = history[f] \/ (f \in FilesOf(q) /\ ~history'[f].success)
  BY DEF Record, Recorded, q
<1>8. QED
  BY <1>1, <1>5, <1>6, <1>7 DEF AppliedFile

LEMMA NextApplied ==
  ASSUME Certain, Typed, LedgerInv, AppliedIsBooked, [Next]_vars
  PROVE  AppliedIsBooked'
<1>1. Single /\ "crash" \notin Faults
  BY DEF Certain
<1>2. ASSUME NEW p \in Procs, Start(p) \/ Ensure(p) \/ Create(p) \/ ReadHistory(p)
               \/ Plan(p) \/ PlanDone(p) \/ Begin(p)
      PROVE  AppliedIsBooked'
  <2>1. pc[p] # "upsert" /\ p \in DOMAIN pc /\ UNCHANGED <<history, times>>
    BY <1>2 DEF Start, Ensure, Create, ReadHistory, Plan, PlanDone, Begin, db, Typed, ProcessTypeOK
  <2>2. pc'[p] # "upsert"
    BY <1>2, <2>1 DEF Start, Ensure, Create, ReadHistory, Plan, PlanDone, Begin, Leave, Goto
  <2>3. QED
    BY <1>1, <2>1, <2>2, AppliedKept
<1>3. ASSUME NEW p \in Procs, Exec(p) \/ Upsert(p) \/ Commit(p) \/ Undo(p) \/ Record(p)
      PROVE  AppliedIsBooked'
  BY <1>1, <1>3, ExecApplied, UpsertApplied, CommitApplied, UndoApplied, RecordApplied
<1>4. ASSUME (\E f \in Files : Edit(f)) \/ UNCHANGED vars
      PROVE  AppliedIsBooked'
  BY <1>4 DEF Edit, vars, db, locals, AppliedIsBooked, Unbooked, IsTx, FilesOf
<1>5. QED
  BY <1>1, <1>2, <1>3, <1>4 DEF Next, Step, Crash

(***************************************************************************)
(* What follows from it.                                                   *)
(***************************************************************************)

\* Nothing runs outside a transaction: what a script and its row do is seen at COMMIT.
LEMMA AloneTx ==
  ASSUME Alone, Typed, NEW p \in Procs, pc[p] \in {"exec", "upsert", "undo"}
  PROVE  IsTx(queue[p])
<1>1. queue[p] \in Seq(Migration) /\ queue[p] # <<>>
  BY DEF Typed, ProcessTypeOK
<1>2. QED
  BY <1>1, DirectBatch DEF Alone

\* A step of migrate is a step of the ledger, or none.
LEMMA LedgerStep ==
  ASSUME Alone, Typed, LedgerInv, [Next]_vars
  PROVE  [Ledger!Next]_Ledger!vars
<1>1. Single /\ UndoesAlone /\ Booked /\ \A p \in Procs : Planned(p)
  BY DEF LedgerInv, Alone
<1>2. ASSUME UNCHANGED <<history, times, version, content>>
      PROVE  [Ledger!Next]_Ledger!vars
  BY <1>2 DEF Ledger!vars
<1>3. \A f \in Files : ChecksumOf(f) = Ledger!Checksum(f)
  BY DEF ChecksumOf, Ledger!Checksum
<1>4. ASSUME NEW p \in Procs, NEW k \in DOMAIN queue[p]
      PROVE  queue[p][k].file \in Ledger!Pending
  <2> DEFINE f == queue[p][k].file
  <2>1. f \in Files /\ ~UpToDate(history[f], f) /\ (f \notin Repeatable => ~history[f].success)
    BY <1>1, BatchIsPending
  <2>2. history[f].success => history[f].valid
    BY <1>1, <2>1 DEF Booked
  <2>3. QED
    BY <1>3, <2>1, <2>2 DEF Ledger!Pending, UpToDate
<1>5. ASSUME NEW p \in Procs, Execute(queue[p]), history' = Recorded(queue[p], TRUE),
             UNCHANGED content
      PROVE  [Ledger!Next]_Ledger!vars
  <2> DEFINE S == FilesOf(queue[p])
  <2>1. queue[p] \in Seq(Migration) /\ Planned(p) /\ Booked
    BY <1>1 DEF Typed, ProcessTypeOK
  <2>2. S \in SUBSET Ledger!Pending
    BY <1>4 DEF FilesOf
  <2>3. \A f \in S \ Repeatable : times[f] = 0
    BY <2>1, BatchIsPending DEF FilesOf, Booked, Alone
  <2>4. \A f \in Files : \A j, l \in DOMAIN queue[p] :
          queue[p][j].file = f /\ queue[p][l].file = f => j = l
    BY <2>1, OnceInBatch
  <2>5. times' = [f \in Files |-> IF f \notin S THEN times[f] ELSE IF times[f] = 0 THEN 1 ELSE 2]
    BY <1>5, <2>4 DEF Execute
  <2>6. \A f \in Files :
          Recorded(queue[p], TRUE)[f] = IF f \in S
                                        THEN [valid |-> TRUE, checksum |-> Ledger!Checksum(f),
                                              success |-> TRUE]
                                        ELSE history[f]
    BY ZenonT(40), <1>3, <2>1, RecordedRow
  <2>7. history' = Ledger!Marked(S, TRUE)
    BY <1>5, <2>6 DEF Recorded, Ledger!Marked
  <2>8. Ledger!Apply(S)
    BY <1>5, <2>3, <2>5, <2>7 DEF Ledger!Apply, Execute
  <2>9. QED
    BY <2>2, <2>8 DEF Ledger!Next
<1>6. ASSUME NEW p \in Procs, history' = Recorded(Attempted(queue[p], done[p]), FALSE),
             UNCHANGED <<times, version, content>>
      PROVE  [Ledger!Next]_Ledger!vars
  <2> DEFINE q == Attempted(queue[p], done[p])
             S == FilesOf(q)
  <2>1. queue[p] \in Seq(Migration) /\ done[p] \in Nat /\ Planned(p) /\ Booked
    BY <1>1 DEF Typed, ProcessTypeOK
  <2>2. /\ q \in Seq(Migration) /\ DOMAIN q \subseteq DOMAIN queue[p]
        /\ \A k \in DOMAIN q : q[k] = queue[p][k]
    BY <2>1, AttemptedIsPrefix
  <2>3. history' = Recorded(q, FALSE)
    BY <1>6
  <2> HIDE DEF q
  <2>4. S \in SUBSET Ledger!Pending
    BY <1>4, <2>2 DEF FilesOf
  <2>5. \A f \in Files :
          Recorded(q, FALSE)[f] = IF f \in S
                                  THEN [valid |-> TRUE, checksum |-> Ledger!Checksum(f),
                                        success |-> FALSE]
                                  ELSE history[f]
    BY ZenonT(40), <1>3, <2>1, <2>2, RecordedRow
  <2>6. history' = Ledger!Marked(S, FALSE)
    BY <2>3, <2>5 DEF Recorded, Ledger!Marked
  <2>7. Ledger!Reject(S)
    BY <1>6, <2>6 DEF Ledger!Reject
  <2>8. QED
    BY <2>4, <2>7 DEF Ledger!Next
<1>7. ASSUME NEW p \in Procs, Start(p) \/ Step(p) \/ Crash(p)
      PROVE  [Ledger!Next]_Ledger!vars
  <2>1. CASE Start(p) \/ Ensure(p) \/ Create(p) \/ ReadHistory(p)
    BY <1>2, <2>1 DEF Start, Ensure, Create, ReadHistory, db
  <2>2. CASE Plan(p) \/ PlanDone(p) \/ Begin(p) \/ Crash(p)
    BY <1>2, <2>2 DEF Plan, PlanDone, Begin, Crash, db
  <2>3. CASE Exec(p)
    BY <1>2, <2>3, AloneTx DEF Exec
  <2>4. CASE Upsert(p)
    BY <1>2, <2>4, AloneTx DEF Upsert
  <2>5. CASE Commit(p)
    BY <1>1, <1>2, <1>5, <2>5 DEF Commit, Single
  <2>6. CASE Undo(p)
    BY <1>1, <2>6, AloneTx DEF Undo, UndoesAlone
  <2>7. CASE Record(p)
    BY <1>1, <1>2, <1>6, <2>7 DEF Record, Single
  <2>8. QED
    BY <1>7, <2>1, <2>2, <2>3, <2>4, <2>5, <2>6, <2>7 DEF Step
<1>8. ASSUME NEW f \in Files, Edit(f)
      PROVE  [Ledger!Next]_Ledger!vars
  BY <1>8 DEF Edit, db, Versions, Ledger!Edit, Ledger!Next
<1>9. ASSUME UNCHANGED vars PROVE [Ledger!Next]_Ledger!vars
  BY <1>2, <1>9 DEF vars, db
<1>10. QED
  BY <1>7, <1>8, <1>9 DEF Next

\* While migrate is on its own and everything runs in transactions, what the database and
\* the history go through is what MigrationLedger allows: the pending migrations are
\* applied and recorded in whole batches, or recorded as failed without any effect, however
\* often it is started, retried, killed or refused.
THEOREM LedgerImplemented ==
  ASSUME Alone
  PROVE  Spec => ImplementsLedger
<1>1. Init => Typed /\ LedgerInv
  BY InitType, InitLedgerInv
<1>2. Typed /\ LedgerInv /\ [Next]_vars => (Typed /\ LedgerInv)'
  BY NextType, NextLedgerInv DEF Alone
<1>3. Init => Ledger!Init
  BY DEF Init, NoRow, Ledger!Init
<1>4. Typed /\ LedgerInv /\ [Next]_vars => [Ledger!Next]_Ledger!vars
  BY LedgerStep
<1>5. QED
  BY <1>1, <1>2, <1>3, <1>4, PTL DEF Spec, ImplementsLedger, Ledger!Spec

\* The effects of a migration that runs in transactions are in the database exactly when the
\* history says so, once, also in a directory with others that do not, and on MySQL.
THEOREM LedgerIsTransactional ==
  ASSUME Single
  PROVE  Spec => []TransactionalLedger
<1>1. Init => Typed /\ LedgerInv
  BY InitType, InitLedgerInv
<1>2. Typed /\ LedgerInv /\ [Next]_vars => (Typed /\ LedgerInv)'
  BY NextType, NextLedgerInv
<1>3. LedgerInv => TransactionalLedger
  <2>1. SUFFICES ASSUME LedgerInv, NEW f \in Transactional
                 PROVE  /\ times[f] > 0 <=> version[f] > 0
                        /\ f \notin Repeatable => (times[f] = IF history[f].success THEN 1 ELSE 0)
                        /\ f \notin residue
    BY DEF TransactionalLedger
  <2>2. f \in Files /\ f \notin Direct
    BY MigrateAssumption DEF Transactional, Migrations, Direct
  <2>3. QED
    BY <2>1, <2>2 DEF LedgerInv, Booked
<1>4. QED
  BY <1>1, <1>2, <1>3, PTL DEF Spec

\* No migration has its effects twice: when everything runs in transactions, whatever
\* happens; otherwise, as long as a script that ran gets its history row.
THEOREM AppliedOnce ==
  ASSUME Alone \/ Certain
  PROVE  Spec => []AppliedAtMostOnce
<1>1. Init => Typed /\ LedgerInv
  BY InitType, InitLedgerInv
<1>2. Typed /\ LedgerInv /\ [Next]_vars => (Typed /\ LedgerInv)'
  BY NextType, NextLedgerInv DEF Alone, Certain
<1>3. CASE Alone
  <2>1. LedgerInv => AppliedAtMostOnce
    BY <1>3 DEF LedgerInv, Booked, Alone, AppliedAtMostOnce, Migrations
  <2>2. QED
    BY <1>1, <1>2, <2>1, PTL DEF Spec
<1>4. CASE Certain
  <2>1. Init => AppliedIsBooked
    BY DEF Init, AppliedIsBooked, Unbooked, NoRow
  <2>2. Typed /\ LedgerInv /\ AppliedIsBooked /\ [Next]_vars => AppliedIsBooked'
    BY <1>4, NextApplied
  <2>3. AppliedIsBooked => AppliedAtMostOnce
    BY DEF AppliedIsBooked, AppliedAtMostOnce, Migrations
  <2>4. QED
    BY <1>1, <1>2, <2>1, <2>2, <2>3, PTL DEF Spec
<1>5. QED
  BY <1>3, <1>4

\* A repeatable migration that is passed over is one whose contents are in the database,
\* where the repeatable ones run in transactions.
THEOREM RepeatablesAreFresh ==
  ASSUME Single, Direct \cap Repeatable = {}
  PROVE  Spec => []RepeatableFresh
<1>1. Init => Typed /\ LedgerInv
  BY InitType, InitLedgerInv
<1>2. Typed /\ LedgerInv /\ [Next]_vars => (Typed /\ LedgerInv)'
  BY NextType, NextLedgerInv
<1>3. LedgerInv => RepeatableFresh
  BY DEF LedgerInv, Booked, RepeatableFresh, UpToDate, ChecksumOf, Migrations
<1>4. QED
  BY <1>1, <1>2, <1>3, PTL DEF Spec

\* Scripts start in their order, and only when everything before them is done, in
\* transactions or outside.
THEOREM RunsInOrder ==
  ASSUME Single
  PROVE  Spec => []InOrder
<1>1. Init => Typed /\ LedgerInv
  BY InitType, InitLedgerInv
<1>2. Typed /\ LedgerInv /\ [Next]_vars => (Typed /\ LedgerInv)'
  BY NextType, NextLedgerInv
<1>3. Typed /\ LedgerInv => InOrder
  <2>1. SUFFICES ASSUME Typed, LedgerInv, NEW p \in Procs, pc[p] = "exec",
                        NEW i \in DOMAIN args[p], args[p][i] \in Migrations,
                        ListedBefore(args[p], i, queue[p][done[p] + 1].pos)
                 PROVE  \/ Current(args[p][i])
                        \/ \E k \in 1 .. done[p] : queue[p][k].pos = i
    BY DEF InOrder
  <2> DEFINE d == done[p] + 1
             n == queue[p][d].pos
  <2>2. Planned(p)
    BY <2>1 DEF LedgerInv
  <2>3. /\ d \in DOMAIN queue[p] /\ DOMAIN queue[p] = 1 .. Len(queue[p])
        /\ Len(queue[p]) \in Nat /\ done[p] \in Nat
    BY <2>1 DEF Typed, ProcessTypeOK
  <2>4. queue[p][d] \in Entries(p)
    BY <2>3 DEF Entries
  <2>5. args[p] \in Seq(Files) /\ todo[p] \subseteq DOMAIN args[p]
    BY <2>1 DEF Typed, ProcessTypeOK
  <2>6. n \in DOMAIN args[p] /\ i \in Nat /\ n \in Nat
    BY <2>2, <2>4, <2>5 DEF Planned, Left
  <2>7. ~Before(args[p], n, i)
    BY <2>1, <2>6 DEF ListedBefore, Before
  <2>8. i \notin todo[p] /\ n # i
    <3>1. i \notin todo[p]
      BY <2>2, <2>4, <2>7 DEF Planned, Sorted
    <3>2. Before(args[p], n, n)
      BY <2>6 DEF Before
    <3>3. QED
      BY <2>7, <3>1, <3>2
  <2>9. ASSUME NEW m \in Entries(p), m.pos = i
        PROVE  \E k \in 1 .. done[p] : queue[p][k].pos = i
    <3>1. CASE \E l \in DOMAIN held[p] : m = held[p][l]
      BY <2>2, <2>3, <2>7, <2>9, <3>1 DEF Planned, Sorted, Follows
    <3>2. CASE \E k \in DOMAIN queue[p] : m = queue[p][k]
      <4>1. PICK k \in DOMAIN queue[p] : m = queue[p][k]
        BY <3>2
      <4>2. ~(d < k)
        BY <2>2, <2>3, <2>7, <2>9, <4>1 DEF Planned, Sorted, Follows
      <4>3. d # k
        BY <2>8, <2>9, <4>1
      <4>4. k \in 1 .. done[p]
        BY <2>3, <4>2, <4>3
      <4>5. QED
        BY <2>9, <4>1, <4>4
    <3>3. QED
      BY <3>1, <3>2 DEF Entries
  <2>10. QED
    BY <2>1, <2>2, <2>8, <2>9 DEF Planned, Covered
<1>4. QED
  BY <1>1, <1>2, <1>3, PTL DEF Spec
=============================================================================

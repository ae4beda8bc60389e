------------------------------ MODULE LoadProofs ------------------------------
(* Theorems about Load, for any number of files, batches and connections. *)
EXTENDS Load, TLAPS

(***************************************************************************)
(* The inductive invariant.                                                *)
(***************************************************************************)

\* Where the files are, by where Run is.
Phases ==
  /\ pc \in {"start", "schema"} => \A f \in Csv : lpc[f] = "idle"
  /\ pc \in {"indexes", "constraints", "execute", "return", "done"} =>
       \A f \in Csv : lpc[f] \in {"idle", "loaded", "failed"}
  /\ pc \in {"indexes", "constraints", "execute"} \/ result = "ok" =>
       \A f \in Csv : lpc[f] = "loaded"
  /\ result = "ok" => pc \in {"return", "done"}
  /\ ~Concurrent =>
       \A f, g \in Csv : lpc[f] # "idle" /\ g < f => lpc[g] = "loaded"

\* A transaction is open on a connection until it ends, or until its context is done.
Transactions ==
  \A f \in Csv :
    /\ conn[f] # None => lpc[f] \in InTransaction \cup {"failed"}
    /\ lpc[f] \in InTransaction /\ conn[f] = None => Done(f)
    /\ conn[f] = None \/ lpc[f] \in {"read", "set"} => staged[f] = 0
    /\ lpc[f] \in {"insert", "restore", "unwind"} => old[f] # "none"
    /\ lpc[f] = "insert" => staged[f] < Batches
    /\ lpc[f] \in {"restore", "commit"} /\ conn[f] # None => staged[f] = Batches

\* Nothing of a file is in the database before it ends.
Unstored == \A f \in Csv : lpc[f] \notin Ended => stored[f] = 0

\* No two transactions share a connection; Run's is the only one where there are no
\* goroutines.
Exclusive ==
  /\ \A f, g \in Csv : f # g /\ conn[f] # None => conn[f] # conn[g]
  /\ ~Concurrent => \A f \in Csv : conn[f] \in {Main, None}

\* SQLite's foreign keys are off from the start, and no file switches them on.
Settings ==
  /\ InsertsUnderSetting
  /\ kind.dialect = "sqlite" =>
       /\ pc \in {"schema", "csv"} /\ ctx = "live" => value[Main] = "loading"
       /\ \A f \in Csv :
            lpc[f] \in {"insert", "restore", "unwind"} /\ conn[f] # None => old[f] = "loading"

Inv == TypeOK /\ Phases /\ Transactions /\ AllOrNothing /\ Unstored /\ Exclusive /\ Settings

LEMMA InitInv == Init => Inv
  BY LoadAssumption DEF Init, Inv, TypeOK, Phases, Transactions, AllOrNothing, Unstored,
       Exclusive, Settings, InsertsUnderSetting, InTransaction

\* A transaction whose context is not done has a connection.
LEMMA HasConn ==
  ASSUME TypeOK, Transactions, NEW f \in Csv, lpc[f] \in InTransaction, ~Done(f)
  PROVE  conn[f] \in Conns
  BY DEF TypeOK, Transactions

\* Settings stay settings when one of them is put back or dropped.
LEMMA ValueType ==
  ASSUME TypeOK, NEW c, NEW v \in {"own", "loading"}
  PROVE  [value EXCEPT ![c] = v] \in [Conns -> {"own", "loading"}]
  BY DEF TypeOK

LEMMA GotoType ==
  ASSUME TypeOK, NEW f \in Csv,
         NEW l \in {"idle", "open"} \cup InTransaction \cup Ended, Goto(f, l)
  PROVE  lpc' \in [Csv -> {"idle", "open"} \cup InTransaction \cup Ended]
  BY DEF TypeOK, Goto

LEMMA RevertedType ==
  ASSUME TypeOK, NEW f \in Csv
  PROVE  Reverted(f) \in [Conns -> {"own", "loading"}]
<1>1. value \in [Conns -> {"own", "loading"}] /\ old[f] \in {"none", "own", "loading"}
  BY DEF TypeOK
<1>2. QED
  BY <1>1, ValueType DEF Reverted

\* No statement runs without its connection, and no batch is inserted after the last.
LEMMA TypeStep == ASSUME Inv, [Next]_vars PROVE TypeOK'
<1>1. CASE Start
  BY <1>1 DEF Start, Fail, Inv, TypeOK, csv
<1>2. CASE RunSchema
  BY <1>2 DEF RunSchema, Fail, Inv, TypeOK
<1>3. CASE CsvFailed
  BY <1>3 DEF CsvFailed, Fail, Inv, TypeOK, csv
<1>4. CASE CsvLoaded
  BY <1>4 DEF CsvLoaded, Inv, TypeOK, csv
<1>5. CASE RunIndexes
  BY <1>5 DEF RunIndexes, Fail, Inv, TypeOK, csv
<1>6. CASE PrepareConstraints
  BY <1>6 DEF PrepareConstraints, Fail, Inv, TypeOK, csv
<1>7. CASE RunConstraints
  BY <1>7 DEF RunConstraints, Fail, Inv, TypeOK, csv
<1>8. CASE Return
  BY <1>8 DEF Return, Inv, TypeOK, csv
<1>9. CASE Interrupt
  BY <1>9 DEF Interrupt, Inv, TypeOK, csv
<1>10. ASSUME NEW f \in Csv, LoadNext(f) \/ LoadCSV(f) \/ AwaitDone(f)
       PROVE  TypeOK'
  <2>1. CASE LoadNext(f)
    BY <2>1 DEF LoadNext, Inv, TypeOK
  <2>2. CASE Begin(f)
    <3>1. lpc' \in [Csv -> {"idle", "open"} \cup InTransaction \cup Ended]
      BY <2>2, GotoType DEF Begin, EndWithError, Inv, InTransaction, Ended
    <3>2. conn' \in [Csv -> Conns \cup {None}]
      BY <2>2, LoadAssumption DEF Begin, ConnsFor, Idle, Inv, TypeOK
    <3>3. group' \in {"live", "cancelled"}
      BY <2>2 DEF Begin, EndWithError, Inv, TypeOK
    <3>4. QED
      BY <2>2, <3>1, <3>2, <3>3 DEF Begin, Inv, TypeOK
  <2>3. CASE Read(f)
    BY <2>3 DEF Read, Goto, Inv, TypeOK, InTransaction
  <2>4. CASE Set(f)
    <3>1. lpc' \in [Csv -> {"idle", "open"} \cup InTransaction \cup Ended]
      BY <2>4, GotoType DEF Set, Inv, InTransaction, Ended
    <3>2. old' \in [Csv -> {"none", "own", "loading"}]
      <4>1. CASE Done(f)
        BY <2>4, <4>1 DEF Set, Inv, TypeOK
      <4>2. CASE ~Done(f)
        <5>1. value[conn[f]] \in {"own", "loading"}
          BY <2>4, <4>2, HasConn DEF Set, Inv, TypeOK, InTransaction
        <5>2. QED
          BY <2>4, <5>1 DEF Set, Inv, TypeOK
      <4>3. QED
        BY <4>1, <4>2
    <3>3. value' \in [Conns -> {"own", "loading"}]
      BY <2>4, ValueType DEF Set, Inv, TypeOK
    <3>4. QED
      BY <2>4, <3>1, <3>2, <3>3 DEF Set, Inv, TypeOK
  <2>5. CASE Insert(f)
    <3>1. lpc' \in [Csv -> {"idle", "open"} \cup InTransaction \cup Ended]
      BY <2>5, GotoType DEF Insert, AfterRowError, Inv, InTransaction
    <3>2. staged' \in [Csv -> 0 .. Batches]
      BY <2>5, LoadAssumption DEF Insert, Inv, TypeOK, Transactions
    <3>3. QED
      BY <2>5, <3>1, <3>2 DEF Insert, Inv, TypeOK
  <2>6. CASE Restore(f)
    <3>1. lpc' \in [Csv -> {"idle", "open"} \cup InTransaction \cup Ended]
      BY <2>6, GotoType DEF Restore, Inv, InTransaction
    <3>2. value' \in [Conns -> {"own", "loading"}]
      BY <2>6, ValueType DEF Restore, Inv, TypeOK, Transactions
    <3>3. QED
      BY <2>6, <3>1, <3>2 DEF Restore, Inv, TypeOK
  <2>7. CASE Commit(f)
    <3>1. lpc' \in [Csv -> {"idle", "open"} \cup InTransaction \cup Ended]
      BY <2>7, GotoType DEF Commit, EndWithError, Inv, InTransaction, Ended
    <3>2. conn' \in [Csv -> Conns \cup {None}] /\ staged' \in [Csv -> 0 .. Batches]
      BY <2>7, LoadAssumption DEF Commit, Inv, TypeOK
    <3>3. stored' \in [Csv -> 0 .. Batches]
      BY <2>7 DEF Commit, Inv, TypeOK
    <3>4. group' \in {"live", "cancelled"}
      BY <2>7 DEF Commit, EndWithError, Inv, TypeOK
    <3>5. QED
      BY <2>7, <3>1, <3>2, <3>3, <3>4 DEF Commit, Inv, TypeOK
  <2>8. CASE Unwind(f)
    <3>1. lpc' \in [Csv -> {"idle", "open"} \cup InTransaction \cup Ended]
      BY <2>8, GotoType DEF Unwind, Inv, InTransaction
    <3>2. value' \in [Conns -> {"own", "loading"}]
      BY <2>8, ValueType DEF Unwind, Deferred, Inv, TypeOK, Transactions
    <3>3. QED
      BY <2>8, <3>1, <3>2 DEF Unwind, Inv, TypeOK
  <2>9. CASE Rollback(f)
    <3>1. lpc' \in [Csv -> {"idle", "open"} \cup InTransaction \cup Ended]
      BY <2>9, GotoType DEF Rollback, EndWithError, Inv, Ended
    <3>2. value' \in [Conns -> {"own", "loading"}]
      BY <2>9, RevertedType DEF Rollback, Inv, TypeOK
    <3>3. conn' \in [Csv -> Conns \cup {None}] /\ staged' \in [Csv -> 0 .. Batches]
      BY <2>9, LoadAssumption DEF Rollback, RolledBack, Inv, TypeOK
    <3>4. QED
      BY <2>9, <3>1, <3>2, <3>3 DEF Rollback, RolledBack, EndWithError, Inv, TypeOK
  <2>10. CASE AwaitDone(f)
    <3>1. value' \in [Conns -> {"own", "loading"}]
      BY <2>10, ValueType, RevertedType DEF AwaitDone, Inv
    <3>2. conn' \in [Csv -> Conns \cup {None}] /\ staged' \in [Csv -> 0 .. Batches]
      BY <2>10, LoadAssumption DEF AwaitDone, RolledBack, Inv, TypeOK
    <3>3. QED
      BY <2>10, <3>1, <3>2 DEF AwaitDone, RolledBack, Inv, TypeOK
  <2>11. QED
    BY <1>10, <2>1, <2>2, <2>3, <2>4, <2>5, <2>6, <2>7, <2>8, <2>9, <2>10 DEF LoadCSV
<1>11. CASE UNCHANGED vars
  BY <1>11 DEF vars, Inv, TypeOK
<1>12. QED
  BY <1>1, <1>2, <1>3, <1>4, <1>5, <1>6, <1>7, <1>8, <1>9, <1>10, <1>11 DEF Next, Run

\* No file is loaded before its time or after it.
LEMMA PhasesStep == ASSUME Inv, [Next]_vars PROVE Phases'
<1>1. CASE Start
  BY <1>1 DEF Start, Fail, Inv, Phases, csv
<1>2. CASE RunSchema
  BY <1>2 DEF RunSchema, Fail, Inv, Phases, Concurrent
<1>3. CASE CsvFailed
  <2>1. \A f \in Csv : lpc[f] \in {"idle", "loaded", "failed"}
    <3>1. CASE Concurrent
      BY <1>3, <3>1 DEF CsvFailed, Waited, Ended
    <3>2. CASE ~Concurrent
      <4>1. PICK e \in Csv : lpc[e] = "failed"
        BY <1>3 DEF CsvFailed
      <4>2. ASSUME NEW f \in Csv, f # e
            PROVE  lpc[f] \in {"idle", "loaded"}
        <5>1. f < e \/ e < f
          BY <4>2, LoadAssumption DEF Csv
        <5>2. QED
          BY <3>2, <4>1, <5>1 DEF Inv, Phases
      <4>3. QED
        BY <4>1, <4>2
    <3>3. QED
      BY <3>1, <3>2
  <2>2. QED
    BY <1>3, <2>1 DEF CsvFailed, Fail, Inv, Phases, Concurrent, csv
<1>4. CASE CsvLoaded
  BY <1>4 DEF CsvLoaded, Inv, Phases, csv
<1>5. CASE RunIndexes
  BY <1>5 DEF RunIndexes, Fail, Inv, Phases, csv
<1>6. CASE PrepareConstraints
  BY <1>6 DEF PrepareConstraints, Fail, Inv, Phases, csv
<1>7. CASE RunConstraints
  BY <1>7 DEF RunConstraints, Fail, Inv, Phases, csv
<1>8. CASE Return
  BY <1>8 DEF Return, Inv, Phases, Concurrent, csv
<1>9. CASE Interrupt
  BY <1>9 DEF Interrupt, Inv, Phases, Concurrent, csv
<1>10. ASSUME NEW f \in Csv, LoadNext(f) \/ LoadCSV(f) \/ AwaitDone(f)
       PROVE  Phases'
  <2>1. CASE LoadNext(f)
    BY <2>1 DEF LoadNext, Csv, Inv, Phases
  <2>2. CASE Begin(f)
    BY <2>2 DEF Begin, Goto, EndWithError, Inv, TypeOK, Phases, Concurrent
  <2>3. CASE Read(f)
    BY <2>3 DEF Read, Goto, Inv, TypeOK, Phases, Concurrent
  <2>4. CASE Set(f)
    BY <2>4 DEF Set, Goto, Inv, TypeOK, Phases, Concurrent
  <2>5. CASE Insert(f)
    BY <2>5 DEF Insert, Goto, Inv, TypeOK, Phases, Concurrent
  <2>6. CASE Restore(f)
    BY <2>6 DEF Restore, Goto, Inv, TypeOK, Phases, Concurrent
  <2>7. CASE Commit(f)
    BY <2>7 DEF Commit, Goto, EndWithError, Inv, TypeOK, Phases, Concurrent
  <2>8. CASE Unwind(f)
    BY <2>8 DEF Unwind, Goto, Inv, Phases, Concurrent
  <2>9. CASE Rollback(f)
    BY <2>9 DEF Rollback, Goto, EndWithError, RolledBack, Inv, Phases, Concurrent
  <2>10. CASE AwaitDone(f)
    BY <2>10 DEF AwaitDone, RolledBack, Inv, Phases, Concurrent
  <2>11. QED
    BY <1>10, <2>1, <2>2, <2>3, <2>4, <2>5, <2>6, <2>7, <2>8, <2>9, <2>10 DEF LoadCSV
<1>11. CASE UNCHANGED vars
  BY <1>11 DEF vars, Inv, Phases, Concurrent
<1>12. QED
  BY <1>1, <1>2, <1>3, <1>4, <1>5, <1>6, <1>7, <1>8, <1>9, <1>10, <1>11 DEF Next, Run

\* A transaction has its connection, and its batches.
LEMMA TransactionsStep == ASSUME Inv, [Next]_vars PROVE Transactions'
<1>1. CASE Start
  BY <1>1 DEF Start, Inv, Transactions, Done, Concurrent, csv
<1>2. CASE RunSchema
  BY <1>2 DEF RunSchema, Inv, Phases, Transactions, InTransaction
<1>3. CASE CsvFailed
  BY <1>3 DEF CsvFailed, Inv, Transactions, Done, Concurrent, csv
<1>4. CASE CsvLoaded
  BY <1>4 DEF CsvLoaded, Inv, Transactions, Done, Concurrent, csv
<1>5. CASE RunIndexes
  BY <1>5 DEF RunIndexes, Inv, Transactions, Done, Concurrent, csv
<1>6. CASE PrepareConstraints
  BY <1>6 DEF PrepareConstraints, Inv, Transactions, Done, Concurrent, csv
<1>7. CASE RunConstraints
  BY <1>7 DEF RunConstraints, Inv, Transactions, Done, Concurrent, csv
<1>8. CASE Return
  BY <1>8 DEF Return, Inv, Transactions, Done, Concurrent, csv
<1>9. CASE Interrupt
  BY <1>9 DEF Interrupt, Inv, Transactions, Done, csv
<1>10. ASSUME NEW f \in Csv, LoadNext(f) \/ LoadCSV(f) \/ AwaitDone(f)
       PROVE  Transactions'
  <2>1. CASE LoadNext(f)
    BY <2>1 DEF LoadNext, Inv, Transactions, Done, InTransaction
  <2>2. CASE Begin(f)
    BY <2>2, LoadAssumption DEF Begin, Goto, EndWithError, ConnsFor, Idle, Inv, TypeOK,
         Transactions, Done, Concurrent, InTransaction
  <2>3. CASE Read(f)
    BY <2>3 DEF Read, Goto, Inv, TypeOK, Transactions, Done, Concurrent, InTransaction
  <2>4. CASE Set(f)
    BY <2>4, LoadAssumption DEF Set, Goto, Inv, TypeOK, Transactions, Done, Concurrent,
         InTransaction
  <2>5. CASE Insert(f)
    BY <2>5, LoadAssumption DEF Insert, Goto, IsLastBatch, AfterRowError, Inv, TypeOK,
         Transactions, Done, Concurrent, InTransaction
  <2>6. CASE Restore(f)
    BY <2>6 DEF Restore, Goto, Inv, TypeOK, Transactions, Done, Concurrent, InTransaction
  <2>7. CASE Commit(f)
    BY <2>7 DEF Commit, Goto, EndWithError, Inv, TypeOK, Transactions, Done, Concurrent,
         InTransaction
  <2>8. CASE Unwind(f)
    BY <2>8 DEF Unwind, Goto, Inv, Transactions, Done, Concurrent, InTransaction
  <2>9. CASE Rollback(f)
    BY <2>9 DEF Rollback, Goto, EndWithError, RolledBack, Inv, TypeOK, Transactions,
         Done, Concurrent, InTransaction
  <2>10. CASE AwaitDone(f)
    BY <2>10, LoadAssumption DEF AwaitDone, RolledBack, Inv, TypeOK, Transactions, Done,
         Concurrent
  <2>11. QED
    BY <1>10, <2>1, <2>2, <2>3, <2>4, <2>5, <2>6, <2>7, <2>8, <2>9, <2>10 DEF LoadCSV
<1>11. CASE UNCHANGED vars
  BY <1>11 DEF vars, Inv, Transactions, Done, Concurrent
<1>12. QED
  BY <1>1, <1>2, <1>3, <1>4, <1>5, <1>6, <1>7, <1>8, <1>9, <1>10, <1>11 DEF Next, Run

\* What is committed is a whole file.
LEMMA StoredStep == ASSUME Inv, [Next]_vars PROVE (AllOrNothing /\ Unstored)'
<1>1. CASE Start
  BY <1>1 DEF Start, Inv, AllOrNothing, Unstored, csv
<1>2. CASE RunSchema
  BY <1>2 DEF RunSchema, Inv, AllOrNothing, Unstored, Phases, Ended
<1>3. CASE CsvFailed
  BY <1>3 DEF CsvFailed, Inv, AllOrNothing, Unstored, csv
<1>4. CASE CsvLoaded
  BY <1>4 DEF CsvLoaded, Inv, AllOrNothing, Unstored, csv
<1>5. CASE RunIndexes
  BY <1>5 DEF RunIndexes, Inv, AllOrNothing, Unstored, csv
<1>6. CASE PrepareConstraints
  BY <1>6 DEF PrepareConstraints, Inv, AllOrNothing, Unstored, csv
<1>7. CASE RunConstraints
  BY <1>7 DEF RunConstraints, Inv, AllOrNothing, Unstored, csv
<1>8. CASE Return
  BY <1>8 DEF Return, Inv, AllOrNothing, Unstored, csv
<1>9. CASE Interrupt
  BY <1>9 DEF Interrupt, Inv, AllOrNothing, Unstored, csv
<1>10. ASSUME NEW f \in Csv, LoadNext(f) \/ LoadCSV(f) \/ AwaitDone(f)
       PROVE  (AllOrNothing /\ Unstored)'
  <2>1. CASE LoadNext(f)
    BY <2>1 DEF LoadNext, Inv, AllOrNothing, Unstored, Ended
  <2>2. CASE Begin(f)
    BY <2>2 DEF Begin, Goto, EndWithError, Inv, TypeOK, AllOrNothing, Unstored, Ended
  <2>3. CASE Read(f)
    BY <2>3 DEF Read, Goto, Inv, TypeOK, AllOrNothing, Unstored, Ended
  <2>4. CASE Set(f)
    BY <2>4 DEF Set, Goto, Inv, TypeOK, AllOrNothing, Unstored, Ended
  <2>5. CASE Insert(f)
    BY <2>5 DEF Insert, Goto, AfterRowError, Inv, TypeOK, AllOrNothing, Unstored, Ended
  <2>6. CASE Restore(f)
    BY <2>6 DEF Restore, Goto, Inv, TypeOK, AllOrNothing, Unstored, Ended
  <2>7. CASE Commit(f)
    BY <2>7 DEF Commit, Goto, EndWithError, Inv, TypeOK, AllOrNothing, Unstored,
         Transactions, Ended
  <2>8. CASE Unwind(f)
    BY <2>8 DEF Unwind, Goto, Inv, AllOrNothing, Unstored, Ended
  <2>9. CASE Rollback(f)
    BY <2>9 DEF Rollback, Goto, EndWithError, RolledBack, Inv, AllOrNothing, Unstored, Ended
  <2>10. CASE AwaitDone(f)
    BY <2>10 DEF AwaitDone, RolledBack, Inv, AllOrNothing, Unstored
  <2>11. QED
    BY <1>10, <2>1, <2>2, <2>3, <2>4, <2>5, <2>6, <2>7, <2>8, <2>9, <2>10 DEF LoadCSV
<1>11. CASE UNCHANGED vars
  BY <1>11 DEF vars, Inv, AllOrNothing, Unstored
<1>12. QED
  BY <1>1, <1>2, <1>3, <1>4, <1>5, <1>6, <1>7, <1>8, <1>9, <1>10, <1>11 DEF Next, Run

\* A transaction begins on a connection that no other one uses.
LEMMA ExclusiveStep == ASSUME Inv, [Next]_vars PROVE Exclusive'
<1>1. CASE Start
  BY <1>1 DEF Start, Inv, Exclusive, Concurrent, csv
<1>2. CASE RunSchema
  BY <1>2 DEF RunSchema, Inv, Exclusive, Concurrent
<1>3. CASE CsvFailed
  BY <1>3 DEF CsvFailed, Inv, Exclusive, Concurrent, csv
<1>4. CASE CsvLoaded
  BY <1>4 DEF CsvLoaded, Inv, Exclusive, Concurrent, csv
<1>5. CASE RunIndexes
  BY <1>5 DEF RunIndexes, Inv, Exclusive, Concurrent, csv
<1>6. CASE PrepareConstraints
  BY <1>6 DEF PrepareConstraints, Inv, Exclusive, Concurrent, csv
<1>7. CASE RunConstraints
  BY <1>7 DEF RunConstraints, Inv, Exclusive, Concurrent, csv
<1>8. CASE Return
  BY <1>8 DEF Return, Inv, Exclusive, Concurrent, csv
<1>9. CASE Interrupt
  BY <1>9 DEF Interrupt, Inv, Exclusive, Concurrent, csv
<1>10. ASSUME NEW f \in Csv, LoadNext(f) \/ LoadCSV(f) \/ AwaitDone(f)
       PROVE  Exclusive'
  <2>1. CASE LoadNext(f)
    BY <2>1 DEF LoadNext, Inv, Exclusive
  <2>2. CASE Begin(f)
    BY <2>2 DEF Begin, ConnsFor, Inv, TypeOK, Exclusive, Busy, Concurrent
  <2>3. CASE Read(f)
    BY <2>3 DEF Read, Inv, Exclusive, Concurrent
  <2>4. CASE Set(f)
    BY <2>4 DEF Set, Inv, Exclusive, Concurrent
  <2>5. CASE Insert(f)
    BY <2>5 DEF Insert, Inv, Exclusive, Concurrent
  <2>6. CASE Restore(f)
    BY <2>6 DEF Restore, Inv, Exclusive, Concurrent
  <2>7. CASE Commit(f)
    BY <2>7 DEF Commit, Inv, TypeOK, Exclusive, Concurrent
  <2>8. CASE Unwind(f)
    BY <2>8 DEF Unwind, Inv, Exclusive, Concurrent
  <2>9. CASE Rollback(f)
    BY <2>9 DEF Rollback, RolledBack, Inv, TypeOK, Exclusive, Concurrent
  <2>10. CASE AwaitDone(f)
    BY <2>10 DEF AwaitDone, RolledBack, Inv, Exclusive, Concurrent
  <2>11. QED
    BY <1>10, <2>1, <2>2, <2>3, <2>4, <2>5, <2>6, <2>7, <2>8, <2>9, <2>10 DEF LoadCSV
<1>11. CASE UNCHANGED vars
  BY <1>11 DEF vars, Inv, Exclusive, Concurrent
<1>12. QED
  BY <1>1, <1>2, <1>3, <1>4, <1>5, <1>6, <1>7, <1>8, <1>9, <1>10, <1>11 DEF Next, Run

\* A setting is put back where no file is being inserted any more.
LEMMA SettingsStep == ASSUME Inv, [Next]_vars PROVE Settings'
<1>1. CASE Start
  BY <1>1, LoadAssumption DEF Start, Fail, Inv, TypeOK, Settings, InsertsUnderSetting,
       Phases, csv
<1>2. CASE RunSchema
  BY <1>2 DEF RunSchema, Inv, Settings, InsertsUnderSetting, Phases
<1>3. CASE CsvFailed
  BY <1>3 DEF CsvFailed, Inv, Settings, InsertsUnderSetting, HasSetting, csv
<1>4. CASE CsvLoaded
  BY <1>4 DEF CsvLoaded, Settings, InsertsUnderSetting, csv
<1>5. CASE RunIndexes
  BY <1>5 DEF RunIndexes, Fail, Inv, Settings, InsertsUnderSetting, Phases, csv
<1>6. CASE PrepareConstraints
  BY <1>6 DEF PrepareConstraints, Fail, Inv, Settings, InsertsUnderSetting, Phases, csv
<1>7. CASE RunConstraints
  BY <1>7 DEF RunConstraints, Fail, Inv, Settings, InsertsUnderSetting, Phases, csv
<1>8. CASE Return
  BY <1>8 DEF Return, Inv, Settings, InsertsUnderSetting, Phases, csv
<1>9. CASE Interrupt
  BY <1>9 DEF Interrupt, Inv, Settings, InsertsUnderSetting, HasSetting, csv
<1>10. ASSUME NEW f \in Csv, LoadNext(f) \/ LoadCSV(f) \/ AwaitDone(f)
       PROVE  Settings'
  <2>1. CASE LoadNext(f)
    BY <2>1 DEF LoadNext, Inv, Settings, InsertsUnderSetting, HasSetting
  <2>2. CASE Begin(f)
    BY <2>2 DEF Begin, Goto, EndWithError, Inv, TypeOK, Settings, InsertsUnderSetting,
         HasSetting
  <2>3. CASE Read(f)
    BY <2>3 DEF Read, Goto, Inv, TypeOK, Settings, InsertsUnderSetting, HasSetting
  <2>4. CASE Set(f)
    BY <2>4 DEF Set, Goto, MustSet, HasSetting, Inv, TypeOK, Settings,
         InsertsUnderSetting, Exclusive, Phases, Done, Concurrent, HasSetting
  <2>5. CASE Insert(f)
    BY <2>5 DEF Insert, Goto, Inv, TypeOK, Settings, InsertsUnderSetting, HasSetting
  <2>6. CASE Restore(f)
    BY <2>6, LoadAssumption DEF Restore, Goto, Inv, TypeOK, Settings,
         InsertsUnderSetting, Exclusive, HasSetting
  <2>7. CASE Commit(f)
    BY <2>7 DEF Commit, Goto, EndWithError, Inv, TypeOK, Settings, InsertsUnderSetting,
         HasSetting
  <2>8. CASE Unwind(f)
    BY <2>8, LoadAssumption DEF Unwind, Goto, Deferred, Inv, Settings,
         InsertsUnderSetting, Exclusive, HasSetting
  <2>9. CASE Rollback(f)
    BY <2>9 DEF Rollback, Goto, EndWithError, RolledBack, Reverted, Inv, TypeOK,
         Settings, InsertsUnderSetting, Exclusive, HasSetting, SettingIsTransactional
  <2>10. CASE AwaitDone(f)
    BY <2>10 DEF AwaitDone, RolledBack, Reverted, Inv, TypeOK, Settings,
         InsertsUnderSetting, Exclusive, Done, Concurrent, HasSetting
  <2>11. QED
    BY <1>10, <2>1, <2>2, <2>3, <2>4, <2>5, <2>6, <2>7, <2>8, <2>9, <2>10 DEF LoadCSV
<1>11. CASE UNCHANGED vars
  BY <1>11 DEF vars, Inv, Settings, InsertsUnderSetting, HasSetting
<1>12. QED
  BY <1>1, <1>2, <1>3, <1>4, <1>5, <1>6, <1>7, <1>8, <1>9, <1>10, <1>11 DEF Next, Run

LEMMA Invariance == Spec => []Inv
<1>1. Inv /\ [Next]_vars => Inv'
  BY TypeStep, PhasesStep, TransactionsStep, StoredStep, ExclusiveStep, SettingsStep DEF Inv
<1>2. QED
  BY <1>1, InitInv, PTL DEF Spec

(***************************************************************************)
(* Settings are restored.                                                  *)
(***************************************************************************)

\* No rollback can miss a setting: it undoes it, or no transaction ends by a context.
Undoable == SettingIsTransactional \/ "cancelled" \notin {ctx, group}

\* A setting is remembered by the transaction that changed it, and by no other one.
Remembered ==
  \A f \in Csv :
    /\ lpc[f] \in {"idle", "open", "read", "set"} => old[f] = "none"
    /\ kind.dialect # "sqlite" /\ Undoable /\ conn[f] # None =>
         /\ old[f] # "loading"
         /\ old[f] = "none" \/ lpc[f] = "commit" => value[conn[f]] = "own"
         /\ ~SettingIsTransactional /\ lpc[f] \in {"rollback", "failed"} =>
              value[conn[f]] = "own"

\* Run itself holds a setting: MySQL's for constraints.sql, SQLite's from start to end.
HeldByRun ==
  \/ kind.dialect = "mysql" /\ pc = "execute"
  \/ kind.dialect = "sqlite" /\ pc \notin {"start", "done"}

\* A connection that no transaction is open on has its own setting, but for that of Run.
Released ==
  Undoable =>
    \A c \in Conns \ Busy : value[c] = "own" \/ (c = Main /\ HeldByRun)

Restorable == Remembered /\ Released

\* A connection is taken with its own setting, and a transaction puts back what it changed.
LEMMA RememberedStep == ASSUME Inv, Restorable, [Next]_vars PROVE Remembered'
<1>1. CASE Start
  BY <1>1 DEF Start, Inv, TypeOK, Restorable, Remembered, Undoable,
       SettingIsTransactional, csv
<1>2. CASE RunSchema
  BY <1>2 DEF RunSchema, Inv, Phases, Restorable, Remembered, Undoable,
       SettingIsTransactional
<1>3. CASE CsvFailed
  BY <1>3 DEF CsvFailed, Restorable, Remembered, Undoable, SettingIsTransactional, csv
<1>4. CASE CsvLoaded
  BY <1>4 DEF CsvLoaded, Restorable, Remembered, Undoable, SettingIsTransactional, csv
<1>5. CASE RunIndexes
  BY <1>5 DEF RunIndexes, Restorable, Remembered, Undoable, SettingIsTransactional, csv
<1>6. CASE PrepareConstraints
  BY <1>6 DEF PrepareConstraints, Inv, Phases, Transactions, Remembered, InTransaction, csv
<1>7. CASE RunConstraints
  BY <1>7 DEF RunConstraints, Restorable, Remembered, Undoable, SettingIsTransactional, csv
<1>8. CASE Return
  BY <1>8 DEF Return, Restorable, Remembered, Undoable, SettingIsTransactional, csv
<1>9. CASE Interrupt
  BY <1>9 DEF Interrupt, Restorable, Remembered, Undoable, SettingIsTransactional, csv
<1>10. ASSUME NEW f \in Csv, LoadNext(f) \/ LoadCSV(f) \/ AwaitDone(f)
       PROVE  Remembered'
  <2>1. CASE LoadNext(f)
    BY <2>1 DEF LoadNext, Restorable, Remembered, Undoable, SettingIsTransactional
  <2>2. CASE Begin(f)
    BY <2>2, LoadAssumption DEF Begin, EndWithError, ConnsFor, Idle, Released,
         HeldByRun, Phases, Goto, Inv, TypeOK, Restorable, Remembered, Undoable,
         SettingIsTransactional
  <2>3. CASE Read(f)
    BY <2>3 DEF Read, Goto, Inv, TypeOK, Restorable, Remembered, Undoable,
         SettingIsTransactional
  <2>4. CASE Set(f)
    BY <2>4 DEF Set, Goto, Inv, TypeOK, Exclusive, Restorable, Remembered, Undoable,
         SettingIsTransactional
  <2>5. CASE Insert(f)
    BY <2>5 DEF Insert, AfterRowError, Goto, Inv, TypeOK, Restorable, Remembered,
         Undoable, SettingIsTransactional
  <2>6. CASE Restore(f)
    BY <2>6 DEF Restore, Goto, Inv, TypeOK, Transactions, Restorable, Remembered,
         Undoable, SettingIsTransactional, Done
  <2>7. CASE Commit(f)
    BY <2>7 DEF Commit, EndWithError, Goto, Inv, TypeOK, Restorable, Remembered,
         Undoable, SettingIsTransactional
  <2>8. CASE Unwind(f)
    BY <2>8 DEF Unwind, Deferred, Goto, Inv, TypeOK, Transactions, Restorable,
         Remembered, Undoable, SettingIsTransactional, Done
  <2>9. CASE Rollback(f)
    BY <2>9 DEF Rollback, EndWithError, RolledBack, Reverted, Goto, Inv, TypeOK,
         Restorable, Remembered, Undoable, SettingIsTransactional
  <2>10. CASE AwaitDone(f)
    BY <2>10 DEF AwaitDone, RolledBack, Reverted, Inv, TypeOK, Restorable, Remembered,
         Undoable, SettingIsTransactional
  <2>11. QED
    BY <1>10, <2>1, <2>2, <2>3, <2>4, <2>5, <2>6, <2>7, <2>8, <2>9, <2>10 DEF LoadCSV
<1>11. CASE UNCHANGED vars
  BY <1>11 DEF vars, Restorable, Remembered, Undoable, SettingIsTransactional
<1>12. QED
  BY <1>1, <1>2, <1>3, <1>4, <1>5, <1>6, <1>7, <1>8, <1>9, <1>10, <1>11 DEF Next, Run

\* A connection goes back to the pool with its own setting.
LEMMA ReleasedStep == ASSUME Inv, Restorable, [Next]_vars PROVE Released'
<1>1. CASE Start
  BY <1>1 DEF Start, Inv, TypeOK, Restorable, Released, HeldByRun, Undoable,
       SettingIsTransactional, Busy, csv
<1>2. CASE RunSchema
  BY <1>2 DEF RunSchema, Fail, Restorable, Released, HeldByRun, Undoable,
       SettingIsTransactional, Busy
<1>3. CASE CsvFailed
  BY <1>3 DEF CsvFailed, Fail, Restorable, Released, HeldByRun, Undoable,
       SettingIsTransactional, Busy, csv
<1>4. CASE CsvLoaded
  BY <1>4 DEF CsvLoaded, Restorable, Released, HeldByRun, Undoable,
       SettingIsTransactional, Busy, csv
<1>5. CASE RunIndexes
  BY <1>5 DEF RunIndexes, Fail, Restorable, Released, HeldByRun, Undoable,
       SettingIsTransactional, Busy, csv
<1>6. CASE PrepareConstraints
  BY <1>6 DEF PrepareConstraints, Fail, Inv, TypeOK, Restorable, Released, HeldByRun,
       Undoable, SettingIsTransactional, Busy, csv
<1>7. CASE RunConstraints
  BY <1>7 DEF RunConstraints, Fail, Inv, TypeOK, Restorable, Released, HeldByRun,
       Undoable, SettingIsTransactional, Busy, csv
<1>8. CASE Return
  BY <1>8 DEF Return, Inv, TypeOK, Restorable, Released, HeldByRun, Undoable,
       SettingIsTransactional, Busy, csv
<1>9. CASE Interrupt
  BY <1>9 DEF Interrupt, Restorable, Released, HeldByRun, Undoable,
       SettingIsTransactional, Busy, csv
<1>10. ASSUME NEW f \in Csv, LoadNext(f) \/ LoadCSV(f) \/ AwaitDone(f)
       PROVE  Released'
  <2>1. CASE LoadNext(f)
    BY <2>1 DEF LoadNext, Restorable, Released, HeldByRun, Undoable,
         SettingIsTransactional, Busy
  <2>2. CASE Begin(f)
    BY <2>2 DEF Begin, EndWithError, ConnsFor, Inv, TypeOK, Exclusive, Restorable,
         Remembered, Released, HeldByRun, Undoable, SettingIsTransactional, Busy,
         Concurrent
  <2>3. CASE Read(f)
    BY <2>3 DEF Read, Restorable, Released, HeldByRun, Undoable, SettingIsTransactional,
         Busy
  <2>4. CASE Set(f)
    BY <2>4 DEF Set, Inv, TypeOK, Transactions, Restorable, Released, HeldByRun,
         Undoable, SettingIsTransactional, Busy, InTransaction
  <2>5. CASE Insert(f)
    BY <2>5 DEF Insert, Restorable, Released, HeldByRun, Undoable,
         SettingIsTransactional, Busy
  <2>6. CASE Restore(f)
    BY <2>6 DEF Restore, Inv, TypeOK, Transactions, Restorable, Released, HeldByRun,
         Undoable, SettingIsTransactional, Busy, InTransaction
  <2>7. CASE Commit(f)
    BY <2>7 DEF Commit, EndWithError, Inv, TypeOK, Phases, Exclusive, Restorable,
         Remembered, Released, HeldByRun, Undoable, SettingIsTransactional, Busy,
         Concurrent
  <2>8. CASE Unwind(f)
    BY <2>8 DEF Unwind, Deferred, Inv, Transactions, Restorable, Released, HeldByRun,
         Undoable, SettingIsTransactional, Busy, InTransaction
  <2>9. CASE Rollback(f)
    BY <2>9 DEF Rollback, EndWithError, RolledBack, Reverted, Inv, TypeOK, Phases,
         Transactions, Exclusive, Restorable, Remembered, Released, HeldByRun, Undoable,
         SettingIsTransactional, Busy, InTransaction
  <2>10. CASE AwaitDone(f)
    BY <2>10 DEF AwaitDone, RolledBack, Reverted, Inv, TypeOK, Restorable, Remembered,
         Released, HeldByRun, Undoable, SettingIsTransactional, Busy, Done
  <2>11. QED
    BY <1>10, <2>1, <2>2, <2>3, <2>4, <2>5, <2>6, <2>7, <2>8, <2>9, <2>10 DEF LoadCSV
<1>11. CASE UNCHANGED vars
  BY <1>11 DEF vars, Restorable, Released, HeldByRun, Undoable, SettingIsTransactional, Busy
<1>12. QED
  BY <1>1, <1>2, <1>3, <1>4, <1>5, <1>6, <1>7, <1>8, <1>9, <1>10, <1>11 DEF Next, Run

\* The invariant of the settings, on top of Inv.
LEMMA Restorability == Spec => []Restorable
<1>1. Init => Restorable
  BY LoadAssumption DEF Init, Restorable, Remembered, Released
<1>2. Inv /\ Restorable /\ [Next]_vars => Restorable'
  BY RememberedStep, ReleasedStep DEF Restorable
<1>3. QED
  BY <1>1, <1>2, Invariance, PTL DEF Spec

(***************************************************************************)
(* The theorems.                                                           *)
(***************************************************************************)

\* For any number of files and batches: no file is given more batches than it has.
THEOREM LoadTypeCorrect == Spec => []TypeOK
<1>1. Inv => TypeOK
  BY DEF Inv
<1>2. QED
  BY <1>1, Invariance, PTL

\* Whatever fails, and whichever context is cancelled between any two statements, the
\* rows of a CSV file are in the database all or not at all, and all of them where
\* loadCSV reports success.
THEOREM FilesAreAtomic == Spec => []AllOrNothing
<1>1. Inv => AllOrNothing
  BY DEF Inv
<1>2. QED
  BY <1>1, Invariance, PTL

\* No goroutine outlives Run, and indexes.sql, constraints.sql and success wait for the
\* data of every file.
THEOREM DataComesFirst == Spec => []DataFirst
<1>1. Inv => DataFirst
  BY DEF Inv, Phases, AllOrNothing, DataFirst
<1>2. QED
  BY <1>1, Invariance, PTL

\* Every batch is inserted under the session setting load wants, although connections
\* are shared one after the other; because no two transactions share one at a time.
THEOREM SettingHolds == Spec => []InsertsUnderSetting
<1>1. Inv => InsertsUnderSetting
  BY DEF Inv, Settings
<1>2. QED
  BY <1>1, Invariance, PTL

\* When Run has returned and no transaction is open, every connection has its own
\* session setting, whatever failed, unless a cancelled context ended a transaction of a
\* database that does not undo settings.
THEOREM SettingsComeBack == Spec => []SettingsRestored
<1>1. Inv /\ Restorable => SettingsRestored
  <2>1. SUFFICES ASSUME Inv, Restorable, pc = "done", Busy = {}, Undoable, NEW c \in Conns
                 PROVE  value[c] = "own"
    BY DEF SettingsRestored, Undoable
  <2>2. QED
    BY <2>1 DEF Restorable, Released, HeldByRun
<1>2. QED
  BY <1>1, Invariance, Restorability, PTL
=============================================================================

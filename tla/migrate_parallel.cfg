\* Two migrates at the same time on Postgres, with every fault.
\* The invocations are bounded by MaxStarts, after which the system may stop.
SPECIFICATION FairSpec
CONSTANTS
  a = a
  b = b
  c = c
  o = o
  r = r
  s = s
  Procs = {p1, p2}
  Files = {a, o, r}
  Reserved = {}
  TxFiles = {}
  TxoffFiles = {o}
  Repeatable = {r}
  UndoFiles = {o}
  SingleStmt = {}
  Divisible = {o}
  MySQL = FALSE
  SkipHistoryTable = FALSE
  MaxAttempts = 2
  ArgLists <- WithTxoff
  MaxVersion = 1
  MaxStarts = 3
  Faults = {"begin", "script", "lock", "upsert", "busy", "commit", "undo", "record", "crash"}
INVARIANTS
  TransactionalRecorded
PROPERTIES
  EveryRunEnds
CHECK_DEADLOCK FALSE

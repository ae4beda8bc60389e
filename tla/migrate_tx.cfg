\* One migrate at a time, transactional migrations (Postgres, SQLite, SQL Server),
\* every fault but a torn read of the history.
\* The invocations are bounded by MaxStarts, after which the system may stop.
SPECIFICATION Spec
CONSTANTS
  a = a
  b = b
  c = c
  o = o
  r = r
  s = s
  Procs = {p1}
  Files = {a, b, c, r, s}
  Reserved = {s}
  TxFiles = {b}
  TxoffFiles = {}
  Repeatable = {r}
  UndoFiles = {}
  SingleStmt = {a}
  Divisible = {a, b, c, r}
  MySQL = FALSE
  SkipHistoryTable = FALSE
  MaxAttempts = 2
  ArgLists <- DirectoryOrSome
  MaxVersion = 2
  MaxStarts = 4
  Faults = {"begin", "script", "lock", "upsert", "busy", "commit", "undo", "record", "crash"}
INVARIANTS
  TransactionalLedger
  RepeatableFresh
  InOrder
  BatchShape
PROPERTIES
  ImplementsLedger
CHECK_DEADLOCK FALSE

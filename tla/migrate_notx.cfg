\* MySQL: everything but b runs outside a transaction; a has several statements
\* and an undo script, c is one statement, which may leave something behind although it
\* has an undo script.
\* The invocations are bounded by MaxStarts, after which the system may stop.
SPECIFICATION Spec
CONSTANTS
  a = a
  b = b
  c = c
  o = o
  r = r
  s = s
  Procs = {p1}
  Files = {a, b, c, r, s}
  Reserved = {s}
  TxFiles = {b}
  TxoffFiles = {}
  Repeatable = {r}
  UndoFiles = {a, c, r}
  SingleStmt = {c}
  Divisible = {a, c, r}
  MySQL = TRUE
  SkipHistoryTable = FALSE
  MaxAttempts = 2
  ArgLists <- Directory
  MaxVersion = 2
  MaxStarts = 4
  Faults = {"script", "lock", "commit", "record"}
INVARIANTS
  AppliedAtMostOnce
  NoResidueLeft
CHECK_DEADLOCK FALSE

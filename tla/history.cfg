\* Two commands of two processes, in any order of their steps, and a user.  The commands
\* are bounded by MaxRuns, after which the system may stop.
SPECIFICATION FairSpec
CONSTANTS
  a = a
  b = b
  r = r
  p = p
  q = q
  Procs = {p, q}
  Files = {a, b, r}
  Reserved = {}
  Repeatable = {r}
  Lexical <- Names
  Dialects = {"postgres", "mysql", "sqlite", "sqlserver"}
  ArgLists <- Args
  Moves <- Renamings
  Directories <- Present
  Histories <- Rows
  ParamLimit <- Limits
  Edited = {r}
  MaxVersion = 2
  MaxRuns = 2
  MaxEdits = 1
  Faults = {"fail", "read"}
INVARIANTS
  ChecksumsAreTheirs
  StatementsFit
  LsTellsMigrate
PROPERTIES
  TouchAdopts
  EveryCommandEnds
CHECK_DEADLOCK FALSE

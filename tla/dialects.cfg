SPECIFICATION Spec
CONSTANTS
  p = p
  q = q
  Procs = {p}
  Dialects = {"mysql", "sqlite", "sqlserver"}
  Catalogs <- MixedCatalogs
  Existing <- MixedExisting
  Flags = {{}, {"accept-warnings"}, {"drop-objects", "accept-warnings"}}
  Faults = {"fail", "crash"}
  MaxRuns = 2
INVARIANTS
  TypeOK
  Reached
  WipeNeverRefused
PROPERTIES
  ValuesKept
CHECK_DEADLOCK FALSE

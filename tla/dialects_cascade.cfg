SPECIFICATION Spec
CONSTANTS
  p = p
  q = q
  Procs = {p}
  Dialects = {"sqlite"}
  Catalogs <- Cascading
  Existing <- CascadingExisting
  Flags = {{}, {"accept-warnings"}, {"drop-objects", "accept-warnings"}}
  Faults = {}
  MaxRuns = 1
PROPERTIES
  ValuesKept
CHECK_DEADLOCK FALSE

SPECIFICATION Spec
CONSTANTS
  Declared <- Mixed
  Existing <- MixedDatabases
  Flags = {{}, {"drop-objects"}, {"drop-objects", "accept-warnings"}}
  Version = 13
  Faults = {"rows", "interrupt"}
  MaxRuns = 2
INVARIANTS
  Reached
PROPERTIES
  KeepsWithoutDrop
  NeverRefused
  StaysOnline
CHECK_DEADLOCK FALSE

\* Directories and archives of three files, two connections besides that of Run, all
\* faults.  The system stops when Run has returned.
SPECIFICATION FairSpec
CONSTANTS
  Files = 3
  Batches = 2
  Main = Main
  k1 = k1
  k2 = k2
  None = None
  Conns = {Main, k1, k2}
  Kinds <- Usual
  Faults = {"sql", "connect", "statement", "commit", "interrupt"}
INVARIANTS
  AllOrNothing
  DataFirst
  InsertsUnderSetting
  SettingsRestored
PROPERTIES
  LoadEnds
CHECK_DEADLOCK FALSE

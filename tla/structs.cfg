\* The tables command on databases of every dialect, and structs of a user.  After
\* WriteCatalog has returned nothing is left to do.
SPECIFICATION Spec
CONSTANTS
  Dialects = {"sqlite", "postgres", "mysql", "sqlserver"}
  Databases <- Introspected
  Written <- UserStructs
  Current <- main
INVARIANTS
  ReadBack
  Sound
  
CHECK_DEADLOCK FALSE

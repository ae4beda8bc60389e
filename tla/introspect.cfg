\* Every filter on databases of every dialect, which others change twice meanwhile.  After
\* WriteCatalog has returned nothing is left to do.
SPECIFICATION Spec
CONSTANTS
  Dialects = {"postgres", "mysql", "sqlite", "sqlserver"}
  Filters <- AnyFilter
  Databases <- WithChanges
  MaxChanges = 2
  Faults = {"query", "rows"}
INVARIANTS
  TypeOK
  CacheAgrees
  RemadeAlike
  
  PanicsAreKnown
CHECK_DEADLOCK FALSE

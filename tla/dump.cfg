\* A dump of a whole database or of the subset of a query, for catalogs of every shape with
\* up to four foreign keys, while somebody writes.  It ends, so the system stops.
SPECIFICATION SpecDump
CONSTANTS
  a = a
  b = b
  c = c
  d = d
  r1 = r1
  r2 = r2
  public = public
  other = other
  Tables = {a, b, c, d}
  Catalogs <- AllShapes
  MaxQueries = 1
  Rows = {r1, r2}
  Null = Null
  Columns <- Few
  Schemas <- InOrder
  Current = public
  SchemaOf <- InSchema
  NameOf <- Names
  Content <- Stored
  Picks <- Selections
  Kinds <- FewKinds
  Scripts = 4
  Faults = {"error", "break", "write"}
  MaxTroubles = 1
INVARIANTS
  JoinsArePaths
  OnlyNeeded
  SubsetIsClosure
  Restores
PROPERTIES
  DumpEnds
CHECK_DEADLOCK FALSE

\* Two foreign keys from one table to another, which refers to a third, as from film
\* to language.
\* The queries are bounded by MaxQueries, after which the system may stop.
SPECIFICATION Spec
CONSTANTS
  a = a
  b = b
  c = c
  d = d
  r1 = r1
  r2 = r2
  Tables = {a, b, c, d}
  Catalogs <- Meeting
  MaxQueries = 1
  Rows = {r1, r2}
  Null = Null
  Columns <- Few
INVARIANTS
  ReferentiallyIntact
CHECK_DEADLOCK FALSE

CONSTANTS
  x1 = x1  x2 = x2  v1 = v1  v2 = v2  b1 = b1  b2 = b2
  k1 = k1  k2 = k2  r1 = r1  r2 = r2  g1 = g1
  Databases = {x1}
  Versions = {v1, v2}
  Bases = {b1, b2}
  Dumpers = {k1, k2}
  Restorers = {r1}
  Latest = {g1}
  Mortal = {k1, r1}
  NoDb = NoDb
  PgDatabase <- AnyDatabase
  MayInit = TRUE
SPECIFICATION Spec
SYMMETRY TuneSymmetry
INVARIANTS TypeOK RowsHaveFiles Recoverable
CHECK_DEADLOCK FALSE

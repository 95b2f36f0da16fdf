CONSTANTS
  Prefixes = {p1}
  Keys = {k1, k2}
  Values = {v1}
  Indexes = {}
  SecKeys = {s1}
  MaxTables = 1
  MaxChanges = 5
  MaxDrift = 1
  undefined = undefined
SPECIFICATION Spec
SYMMETRY Symmetry
INVARIANTS
  NoRowOutlivesItsTable

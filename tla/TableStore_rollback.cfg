CONSTANTS
  Prefixes = {p1,p2}
  Keys = {k1, k2}
  Values = {v1,v2}
  Indexes = {i1}
  SecKeys = {s1,s2}
  MaxTables = 3
  MaxChanges = 5
  MaxDrift = 1
  undefined = undefined
SPECIFICATION Spec
SYMMETRY Symmetry
INVARIANTS
  TypeOK
  RevertNeverThrows
  StoreTreesAgree
  CountsExactUntilDrift
PROPERTIES
  RollbackIsExact
  ImplementsAtomicStore

SPECIFICATION Spec
CONSTANTS
  a = a
  b = b
  pa = pa
  undefined = undefined
  Contracts = {a, b}
  Prefixes = {pa}
  Code <- MCCode
  MaxKey = 1
  MaxTables = 2
  MaxObjects = 3
  MaxIterators = 3
  MaxDrift = 1
INVARIANTS
  LookupsAreCurrent
  SoleIteratorsAreCurrent
  EndIteratorsNameTables
  RegisteredTablesCached
PROPERTY OnlyOwnTables

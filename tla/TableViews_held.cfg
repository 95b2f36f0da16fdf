CONSTANTS
  Prefixes = {p1, p2}
  Unlisted = {p2}
  Keys = {0, 1}
  Values = {v1}
  Indexes = {}
  SecKeys = {}
  MaxTables = 2
  MaxChanges = 6
  MaxDrift = 0
  MaxViews = 1
  MaxStores = 2
  MaxWrites = 6
  undefined = undefined
SPECIFICATION ViewSpec
INVARIANTS
  HeldIdsAreKept
  ListingsAreOwn
  RowsRemovable
PROPERTIES
  RejectionsChangeNothing

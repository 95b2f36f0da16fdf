SPECIFICATION Spec
CONSTANTS
  alice = alice
  bob = bob
  pa = pa
  undefined = undefined
  Contracts = {alice, bob}
  Prefixes = {pa}
  Code <- MCCode
  MaxKey = 1
  MaxSecKey = 1
  MaxObjects = 3
  MaxIterators = 2
  MaxChanges = 3
INVARIANT RevertStackIntact

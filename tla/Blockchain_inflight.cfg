SPECIFICATION FairSpec
CONSTANTS
  alice = alice
  bob = bob
  t1 = t1
  t2 = t2
  undefined = undefined
  Accounts = {alice, bob}
  Loaded = {alice}
  Transactions = {t1, t2}
  MaxInFlight = 2
  MaxCode = 2
  MaxContexts = 2
INVARIANTS
  CodeNotStale
  ResultsAreOwn
PROPERTIES
  UnreadyVmExplained
  SendsSettle
CHECK_DEADLOCK FALSE

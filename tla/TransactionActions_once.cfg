SPECIFICATION Spec
CONSTANTS
  alice = alice
  bob = bob
  carol = carol
  user = user
  ghost = ghost
  none = none
  Names = {alice, bob, carol}
  Accounts = {alice, bob, carol}
  Contracts = {alice, bob, carol}
  Privileged = {}
  Permissions <- MCPermissions
  Authorizations <- MCUnauthorized
  Transactions <- MCOrderTransactions
  MaxTraces = 4
  MaxAuthorized = 4
INVARIANTS
  NotifiedOnce

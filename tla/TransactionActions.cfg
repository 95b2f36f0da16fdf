SPECIFICATION MCSpec
CONSTANTS
  alice = alice
  bob = bob
  carol = carol
  user = user
  ghost = ghost
  none = none
  Names = {alice, bob, carol, user, ghost}
  Accounts = {alice, bob, carol, user}
  Contracts = {alice, bob, carol}
  Privileged = {bob}
  Permissions <- MCPermissions
  Authorizations <- MCAuthorizations
  Transactions <- MCTransactions
  MaxTraces = 6
  MaxAuthorized = 3
INVARIANTS
  AuthorityIsGiven
  NotificationsFollowTheirAction
  InlinesDepthFirst
  NotNotifiedAfterwards
PROPERTY OwnInlinesAccepted

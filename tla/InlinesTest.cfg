SPECIFICATION InlinesTest
CONSTANTS
  none = none
  Names <- MCNames
  Accounts <- MCNames
  Contracts <- MCNames
  Privileged = {}
  Permissions <- MCInlinePermissions
  Authorizations <- MCSelves
  Transactions <- MCTransactions
  MaxTraces = 20
INVARIANT ConsoleAsTested

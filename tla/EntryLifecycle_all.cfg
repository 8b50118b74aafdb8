\* Two accounts and a machine, two submissions that may cross and one change.
SPECIFICATION Spec
CONSTANTS
  None = None
  home = home
  other = other
  myAccount = myAccount
  herAccount = herAccount
  litterbox = litterbox
  Creds <- TwoCreds
  Accounts <- TwoAccounts
  Account <- OneEach
  Machines <- OneMachine
  Flows <- TwoFlows
  Options <- TwoOptions
  Default = 60
  Sharing <- SharedOrNot
  MaxSubmits = 2
  MaxChanges = 1
  MaxFails = 1
INVARIANTS
  TypeOK
  SettledIsCurrent
  ClientsAreExplained
  DevicesAreTheMachines
PROPERTIES
  EntrySettles

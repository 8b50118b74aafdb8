\* The same instance; a reload while a machine does not answer.
SPECIFICATION Spec
CONSTANTS
  None = None
  home = home
  other = other
  myAccount = myAccount
  herAccount = herAccount
  litterbox = litterbox
  Creds <- TwoCreds
  Accounts <- TwoAccounts
  Account <- OneEach
  Machines <- OneMachine
  Flows <- TwoFlows
  Options <- TwoOptions
  Default = 60
  Sharing <- SharedOrNot
  MaxSubmits = 2
  MaxChanges = 1
  MaxFails = 1
PROPERTIES
  MachinesSurvive

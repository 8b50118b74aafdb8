\* Three tasks and two losses: one waits while another signs in again.
SPECIFICATION LiveSpec
CONSTANTS
  Tasks = {t1, t2, t3}
  NoTask = NoTask
  MaxLosses = 2
INVARIANTS
  TypeOK
  SignInsAreExplained
  TwoLoginsAtMost
PROPERTIES
  ImplementsShared
  EveryAskEnds

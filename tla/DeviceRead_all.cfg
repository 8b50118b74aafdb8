\* A scan and a Refresh press that read one device, of either kind.
SPECIFICATION FairSpec
CONSTANTS
  Scans = {scan}
  Refreshes = {press}
  NoTask = NoTask
  MaxUses = 2
  MaxRefusals = 1
  Kinds <- LitterAndFeeder
INVARIANTS
  TypeOK
  NoUseMissed
PROPERTIES
  FollowsCache
  EveryUseIsRead

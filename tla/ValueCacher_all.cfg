\* Two callers of each cache of the coordinator.
SPECIFICATION CacherLiveSpec
CONSTANTS
  Tasks = {c1, c2}
  NoTask = NoTask
  NoLimit = NoLimit
  Caches <- AllCaches
  MaxVersion = 1
  MaxAge = 2
INVARIANTS
  CacherTypeOK
  OneFetch
  ZeroRefreshReadsAgain
  QuietMarkHonoured
PROPERTIES
  ImplementsCache
  EveryCallEnds

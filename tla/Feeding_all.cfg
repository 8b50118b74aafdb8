\* Two presses of Feed now, a scan and the app.
SPECIFICATION Spec
CONSTANTS
  Feeds = {t1, t2}
  Foods <- OneFood
  Ratios <- OneRatio
  Stated <- NoneStated
  Settings <- OneSetting
  Minutes <- OneMinute
  NoConfig = NoConfig
  MaxPresses = 3
  t1 = t1
  t2 = t2
SYMMETRY Alike
INVARIANTS
  TypeOK
  ShownIsUsed
  KeptIsStored
PROPERTIES
  StagedAreFed

\* A scan, the app and no press, over an object of two fields.
SPECIFICATION FairSpec
CONSTANTS
  Presses = {}
  Scan = Scan
  Refreshes = {}
  Fields = {f1, f2}
  Values = {on, off}
  MaxSets = 1
  MaxBumps = 0
  Own <- NoneOwn
  Nothing = Nothing
  p1 = p1
  f1 = f1
  f2 = f2
  on = on
  off = off
PROPERTY EntityCatchesUp

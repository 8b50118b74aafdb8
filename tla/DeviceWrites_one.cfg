\* A scan, a press and the app, over an object of two fields.
SPECIFICATION Spec
CONSTANTS
  Presses = {p1}
  Scan = Scan
  Refreshes = {}
  Fields = {f1, f2}
  Values = {on, off}
  MaxSets = 2
  MaxBumps = 1
  Own <- OneOwn
  Nothing = Nothing
  p1 = p1
  f1 = f1
  f2 = f2
  on = on
  off = off
SYMMETRY Flip
INVARIANTS
  TypeOK
  PressAloneIsExact
PROPERTIES
  OrderlyUpdateShows

\* A scan and a press.
SPECIFICATION Spec
CONSTANTS
  Scans = {s1}
  Presses = {p1}
  MaxAttempts = 2
  MaxRare = 2
INVARIANTS
  OneForcedPerCooldown

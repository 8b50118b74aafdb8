\* A feeder or a litter box, one press and two changes from elsewhere.
SPECIFICATION Spec
CONSTANTS
  Missing = Missing
  Junk = Junk
  None = None
  NoStamp = NoStamp
  lab = lab
  Labels <- SomeLabels
  Midnights <- SomeMidnights
  Hours <- SomeHours
  Cats <- SomeCats
  Days <- SomeDays
  Minutes <- SomeMinutes
  Volumes <- SomeVolumes
  States <- ThreeStates
  Uses <- SomeUses
  Meals <- SomeMeals
  Weighings <- SomeWeighings
  Settings <- SomeSettings
  MaxPresses = 1
  MaxChanges = 2
INVARIANTS
  TypeOK
  ReportedIsTheModel
  ServedIsTheDays
PROPERTIES
  PressIsShown
  PressMovesOne

\* Three tasks over one client; tokens age twice.
SPECIFICATION Spec
CONSTANTS
  Tasks = {t1, t2, t3}
  MaxAges = 2
  MaxIssued = 4
SYMMETRY Symmetry
INVARIANTS
  TypeOK
  ExchangesAreExplained
  GivenUpIsExplained

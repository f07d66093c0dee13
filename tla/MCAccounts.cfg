CONSTANTS
  d1 = d1  d2 = d2
  p1 = p1  p2 = p2
  c1 = c1  c2 = c2
  Dbs = {d1, d2}
  People = {p1, p2}
  Calls = {c1, c2}
  Amounts <- MCAmounts
  Fees <- MCFees
  MinDeposit = 2
  UnitsPerIcp = 1
  E8sPerIcp = 2
  MaxU64 = 8
  MaxTime = 1
  MaxChanges = 2
SPECIFICATION Spec
SYMMETRY CallSymmetry
INVARIANTS TypeOK KeepsOwner PaymentsMatchBlocks SuccessMeansCredited GuardsAreHeld UnitsAreBacked
PROPERTIES TokensComeFromOwners
CHECK_DEADLOCK FALSE

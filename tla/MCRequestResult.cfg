SPECIFICATION Spec
CONSTANTS
  Calls = {c1, c2}
  Cells = {p1, p2}
  Untouched = untouched
  UUIDs = {id1, id2}
  NilUUID = nil
  Errors = {e1, e2}
  NoError = noerror
  MinInt <- MCMinInt
  MaxInt = 1
  None = none
SYMMETRY Symmetry
INVARIANT TypeOK
INVARIANT OutcomeDelivered
INVARIANT CellHoldsSum

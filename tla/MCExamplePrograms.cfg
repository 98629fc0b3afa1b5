SPECIFICATION Spec
CONSTANTS
  Programs = {p1, p2, p3}
  UUIDs = {id1, id2}
  NilUUID = nil
  None = none
  Asked = {0, 3}
  IdRange = 2
  BackendResults = {TRUE, FALSE}
SYMMETRY Symmetry
INVARIANT EInv
INVARIANT StatusTellsOutcome
INVARIANT PrintedIdWorks

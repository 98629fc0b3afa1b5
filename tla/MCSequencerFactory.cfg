SPECIFICATION Spec
CONSTANTS
  b1 = b1
  b2 = b2
  b3 = b3
  n1 = n1
  n2 = n2
  n3 = n3
  Backends <- MCBackends
  Names <- MCNames
  Name <- MCName
  Requests = {r1, r2, r3}
  None = none
SYMMETRY Symmetry
INVARIANT TypeOK
INVARIANT LateIsFound
INVARIANT OneTypePerName

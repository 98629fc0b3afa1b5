SPECIFICATION FairSpec
CONSTANTS
  Objects = {o1, o2, o3}
  Calls = {c1, c2}
  Null = null
  Threads = 2
  Outcomes = {"sum", "failed"}
INVARIANT TakenOnce
INVARIANT NothingAbandoned
INVARIANT AInv
PROPERTY EndsOnlyOnFailure
PROPERTY OperationsEnd

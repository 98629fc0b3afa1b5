SPECIFICATION Spec
CONSTANTS
  Objects = {o1, o2, o3}
  Calls = {c1, c2, c3}
  Null = null
  Threads = 1
  Outcomes = {"sum", "failed"}
INVARIANT ComputeSumNonBlocking

SPECIFICATION FairSpec
CONSTANTS
  Users = {u1, u2}
  Requests = {r1, r2, r3}
  UUIDs = {a, b}
  NilUUID = nil
  None = none
  Rpcs = {"create", "close", "check", "hello", "sum"}
  BackendResults = {TRUE}
INVARIANT WaitsForAnswer
INVARIANT StaleUseFails
INVARIANT ThrowMeansGone
INVARIANT OneRemovalReturns
INVARIANT CreatedIsUsable
INVARIANT LostOnlyToRemoval
INVARIANT CInv
PROPERTY EveryCallEnds

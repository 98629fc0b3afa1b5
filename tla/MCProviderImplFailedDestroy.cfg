SPECIFICATION Spec
CONSTANTS
  Requests = {r1, r2}
  UUIDs = {u1}
  NilUUID = nil
  Tokens = {notoken}
  NoToken = notoken
  NewTokens = {}
  BackendResults = {TRUE, FALSE}
  Rpcs = {"create", "destroy"}
  None = none
INVARIANT FailedDestroyKeepsSequencer

SPECIFICATION Spec
CONSTANTS
  Requests = {r1, r2}
  UUIDs = {u1, u2}
  NilUUID = nil
  Tokens = {notoken, t1, t2}
  NoToken = notoken
  NewTokens = {notoken, t1, t2}
  BackendResults = {TRUE}
  Rpcs = {"create", "open", "close", "destroy", "check"}
  None = none
SYMMETRY Symmetry
INVARIANT TokenRespected

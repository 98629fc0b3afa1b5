SPECIFICATION FairSpec
CONSTANTS
  Requests = {r1, r2, r3}
  UUIDs = {u1, u2}
  NilUUID = nil
  Tokens = {notoken}
  NoToken = notoken
  NewTokens = {}
  BackendResults = {TRUE, FALSE}
  Rpcs = {"create", "close", "destroy", "hello", "sum"}
  None = none
INVARIANT AnsweredOnce
INVARIANT RegistrySound
INVARIANT NoUseAfterDelete
INVARIANT RemovedOnce
INVARIANT CreatedStaysRegistered
INVARIANT RemovedForGood
INVARIANT IInv
PROPERTY LookupAvoidsDestroyed
PROPERTY EveryRequestAnswered
PROPERTY RemovedIsDeleted
PROPERTY Linearizable

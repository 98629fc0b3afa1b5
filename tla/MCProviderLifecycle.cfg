SPECIFICATION FairSpec
CONSTANTS
  Addresses = {a1, a2, a3}
  Impls = {i1, i2, i3}
  Requests = {r1, r2}
  Uses = {"move", "delete"}
  Null = null
  Raw = raw
INVARIANT LInv
INVARIANT ValidHasCallback
INVARIANT OneOwner
INVARIANT DanglesOnlyWhereMoved
PROPERTY FinalizeResets

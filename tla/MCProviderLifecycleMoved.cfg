SPECIFICATION Spec
CONSTANTS
  Addresses = {a1, a2, a3}
  Impls = {i1, i2, i3}
  Requests = {r1, r2}
  Uses = {"move"}
  Null = null
  Raw = raw
INVARIANT CallbackFindsProvider

\* Two overlapping invocations of one user.
SPECIFICATION InvalidationSpec
CONSTANTS
  Users = {u1}
  Keys = {k1}
  Invocations = {i1, i2}
  Operators = {a1}
  NoUser = NoUser
  NoKey = NoKey
  ConfiguredTtl = 0
  DefaultTtl = 1
  MaxTtl = 2
  MaxTime = 1
PROPERTIES NextRequestRereads
CHECK_DEADLOCK FALSE

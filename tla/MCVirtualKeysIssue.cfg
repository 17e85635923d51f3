\* Two invocations of one user, neither sees an ACTIVE key.
SPECIFICATION Spec
CONSTANTS
  Users = {u1}
  Keys = {k1, k2}
  Invocations = {i1, i2}
  Operators = {a1}
  NoUser = NoUser
  NoKey = NoKey
  ConfiguredTtl = 5
  DefaultTtl = 1
  MaxTtl = 1
  MaxTime = 1
SYMMETRY Symmetric
PROPERTIES IssueOnlyWithoutActive
CHECK_DEADLOCK FALSE

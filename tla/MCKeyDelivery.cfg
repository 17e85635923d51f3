\* One helper, another machine of its user and one operator, any two at a time,
\* with both caches.
SPECIFICATION DeliverySpec
CONSTANTS
  Users = {u1}
  Keys = {k1, k2}
  Invocations = {i1, i2}
  HelperSlots = {i1}
  Operators = {a1}
  NoUser = NoUser
  NoKey = NoKey
  ConfiguredTtl = 5
  DefaultTtl = 1
  MaxTtl = 1
  MaxTime = 1
  ConfiguredLocalTtl = 0
  MinLocalTtl = 1
  MaxLocalTtl = 2
  MaxBusy = 2
SYMMETRY Symmetric
CONSTRAINT FewBusy
INVARIANTS EndedItemBounded BlockedItemBounded GrantRecent IInv
INVARIANTS LockoutBounded BlockedFileBounded DeliveryInv
PROPERTIES NoResurrection ImplementsLeases
CHECK_DEADLOCK FALSE

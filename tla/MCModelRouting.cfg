\* Two calls and a request on two tasks, two routes and a price.
SPECIFICATION Spec
CONSTANTS
  m1 = m1
  sonnet = sonnet
  haiku = haiku
  x1 = x1
  x2 = x2
  r1 = r1
  r2 = r2
  p1 = p1
  NoId = NoId
  Tasks = {t1, t2}
  Calls = {c1, c2}
  Requests = {q1}
  Models = {m1}
  Routes = {r1, r2}
  Prices = {p1}
  ModelIds = {x1, x2}
  MaxWrites = 2
  AliasRules <- Rules
  RouteValues <- Values
  SeedValues <- Seed
SYMMETRY Symmetric
INVARIANTS AcknowledgedIsServed PreferredIsServed IInv
CHECK_DEADLOCK FALSE

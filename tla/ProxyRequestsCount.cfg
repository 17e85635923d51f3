\* One request, on every route.
SPECIFICATION Spec
CONSTANTS
  Requests = {r1}
  Users = {u1}
  Tasks = {t1}
  NoUser = NoUser
  NoTask = NoTask
INVARIANTS NoRouteSkipsPolicy
CHECK_DEADLOCK FALSE

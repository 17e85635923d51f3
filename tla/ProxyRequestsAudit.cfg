\* One request, every way it can end.
SPECIFICATION Spec
CONSTANTS
  Requests = {r1}
  Users = {u1}
  Tasks = {t1}
  NoUser = NoUser
  NoTask = NoTask
INVARIANTS EveryAnswerAudited
CHECK_DEADLOCK FALSE

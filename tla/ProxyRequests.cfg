\* Two requests of one user that wait for the event loop of one task.
SPECIFICATION FairSpec
CONSTANTS
  Requests = {r1, r2}
  Users = {u1}
  Tasks = {t1}
  NoUser = NoUser
  NoTask = NoTask
INVARIANTS BarredNeverCalls BooksAgree IInv
PROPERTIES EveryRequestAnswered ImplementsTrail
CHECK_DEADLOCK FALSE

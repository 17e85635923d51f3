\* Windows of three seconds of two ticks each, two sessions of one or two users; the
\* clock runs into the second window.
SPECIFICATION Spec
CONSTANTS
  Users = {u1, u2}
  Tasks = {t1}
  Sessions = {s1, s2}
  ConfiguredRpm = 2
  Second = 2
  Minute = 6
  MaxTime = 8
SYMMETRY Symmetric
INVARIANTS MinuteBounded SpanBounded RefusedAtMostTwice IInv
PROPERTIES RefusedForCause
CHECK_DEADLOCK FALSE

\* Answers of up to two blocks of up to two deltas, one supported stop reason
\* and one that is not.
SPECIFICATION FairSpec
CONSTANTS
  StopReasons = {end_turn, guardrail}
  Supported = {end_turn}
  EndTurn = end_turn
  NoStop = NoStop
  Usages = {1, 2}
  MaxBlocks = 2
  MaxDeltas = 2
INVARIANTS Framing StopCarriesUsage RecordedIsReported ThoughtsIntact IInv
PROPERTIES StartedIsRecorded
CHECK_DEADLOCK FALSE

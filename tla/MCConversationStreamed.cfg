\* The shortest conversation that can go on after a streamed answer.
SPECIFICATION Spec
CONSTANTS
  Shapes <- AnswerShapes
  Catalogue <- Capabilities
  MaxMessages = 3
INVARIANTS NextTurnAccepted
CHECK_DEADLOCK FALSE

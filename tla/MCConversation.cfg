\* Two answers and a third request.
SPECIFICATION Spec
CONSTANTS
  Shapes <- AnswerShapes
  Catalogue <- Capabilities
  MaxMessages = 5
INVARIANTS ReasoningReplayed AnswersReplayed OptionsLostForCause RefusedForCause IInv
CHECK_DEADLOCK FALSE

SPECIFICATION Spec
CONSTANTS
  LO = 6
  HI = 2
  Programs <- MCPrograms
  IntInputs <- MCIntInputs
  FloatInputs <- MCFloatInputs
  Replies <- MCReplies
INVARIANTS AstKeepsSource AssertsHold FunctionsComplete ContextOK RunsAsWritten
PROPERTY RunTerminates

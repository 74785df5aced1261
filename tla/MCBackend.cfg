SPECIFICATION Spec
CONSTANTS
  LO = 6
  HI = 3
  Garbage = 77
  Replies <- MCReplies
  GlobalVariables <- MCGlobalVariables
  Functions <- MCFunctions
  IntInputs <- MCIntInputs
  FloatInputs <- MCFloatInputs
INVARIANTS SlotsDisjoint Encodable FrameKept
PROPERTIES RefinesIR Termination

\* The phis of a loop header, copied one after the other.
CONSTANTS
  N = 4
  NVars = 2
  NInstr = 5
  Programs <- Shift
SPECIFICATION RunSpec
INVARIANT SlotsHoldMemory

\* Three graphs with unreachable code, every choice of three instructions.
CONSTANTS
  N = 7
  NInstr = 3
  Programs <- AllPrograms
SPECIFICATION FairSpec
INVARIANTS
  NeededKept
  NothingDeadLeft
  GraphConsistent
  OperandsKept
PROPERTY Termination

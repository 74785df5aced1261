\* Three loads and stores of two locals, placed anywhere in three graphs.
CONSTANTS
  N = 6
  NVars = 2
  NInstr = 3
  Programs <- MCPrograms
SPECIFICATION FairRunSpec
INVARIANTS
  StacksFollowDominators
  LoadsSeeMemory
  SlotsHoldUnlessFed
PROPERTY Termination

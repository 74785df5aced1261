\* Every control flow graph over four blocks.
CONSTANTS
  N = 4
  CFGs <- AllSmall
SPECIFICATION FairSpec
INVARIANTS
  TypeOK
  IdomSound
  FingersProcessed
  IdomCorrect
  FrontierCorrect
  TreeOrderCorrect
PROPERTY Termination

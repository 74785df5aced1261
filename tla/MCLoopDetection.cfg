\* Every control flow graph over five blocks, all of them reached.
CONSTANTS
  N = 5
  CFGs <- AllReached
SPECIFICATION Spec
INVARIANTS
  LoopsAreNatural
  LoopsNested

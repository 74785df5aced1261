\* Every call graph over three functions.
CONSTANTS
  NFuncs = 3
  Modules <- AllModules
SPECIFICATION Spec
INVARIANTS
  PurityExact
  ImpureForAReason

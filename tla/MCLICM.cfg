\* Nested loops and loops in a row, every choice of three instructions, every pointer order.
CONSTANTS
  N = 10
  NInstr = 3
  Programs <- WhileLoops
  const = const
  global = global
SPECIFICATION FairSpec
INVARIANTS
  OnlyNestedUsesBreak
  GraphConsistent
  LoadsStayWithStores
PROPERTY Termination

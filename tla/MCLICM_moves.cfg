\* Nested loops and loops in a row, every choice of two instructions, every pointer order.
CONSTANTS
  N = 10
  NInstr = 2
  Programs <- WhileLoops
  const = const
  global = global
SPECIFICATION Spec
INVARIANT MovedIsInvariant

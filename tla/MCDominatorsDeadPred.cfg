\* while (c) { if (a) return 1; else return 2; }
CONSTANTS
  N = 7
  CFGs <- BothArmsReturn
SPECIFICATION Spec
INVARIANT WalkEndsAtIdom

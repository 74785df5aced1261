\* Up to four operands: two pairs of a phi.
CONSTANTS
  p1 = p1
  i1 = i1
  b1 = b1
  b2 = b2
  Values <- MCValues
  Users <- MCUsers
  Phis <- MCPhis
  Labels <- MCLabels
  nullptr = nullptr
  MaxOperands = 4
SPECIFICATION FairSpec
INVARIANTS
  TypeOK
  UsesMirrorOperands
  NoDanglingOperand
  PhisInPairs
PROPERTY CallsEnd
\* The client may stop calling.
CHECK_DEADLOCK FALSE

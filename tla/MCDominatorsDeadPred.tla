------------------------ MODULE MCDominatorsDeadPred ------------------------
(***************************************************************************)
(* What CminusfBuilder makes of                                            *)
(*   while (c) { if (a) return 1; else return 2; }  return 0;              *)
(* 1 entry, 2 the condition, 3 the body, 4 after the loop, 5 and 7 the     *)
(* arms of the if, 6 its join, which no arm branches to but which the end  *)
(* of the body leaves with a br back to the condition.                     *)
(***************************************************************************)
EXTENDS Dominators

BothArmsReturn ==
  {[succ |-> <<<<2>>, <<3, 4>>, <<5, 7>>, << >>, << >>, <<2>>, << >>>>,
    pre  |-> <<<< >>, <<1, 6>>, <<2>>, <<2>>, <<3>>, << >>, <<3>>>>]}
=============================================================================

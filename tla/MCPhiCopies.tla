----------------------------- MODULE MCPhiCopies -----------------------------
(***************************************************************************)
(* b = 1; while (..) { a = b; b = 2; } .. a ..                             *)
(* The loop header has a phi for a and one for b, and a's is fed by b's.   *)
(***************************************************************************)
EXTENDS Mem2RegRuns

Shift ==
  {[cfg  |-> [succ |-> << <<2>>, <<3, 4>>, <<2>>, << >> >>,
              pre  |-> << << >>, <<1, 3>>, <<2>>, <<2>> >>],
    body |-> << <<1>>, << >>, <<2, 3, 4>>, <<5>> >>,
    op   |-> <<"store", "load", "store", "store", "load">>,
    var  |-> <<2, 2, 1, 2, 1>>,
    rval |-> <<Const(1), Const(2), Load(2), Const(4), Const(5)>>]}
=============================================================================

----------------------------- MODULE MCDeadCode -----------------------------
(***************************************************************************)
(* Three functions as CminusfBuilder lays them out, each with an if whose  *)
(* arms both return and the unreachable code that follows it:              *)
(*   DeadLoop:  1 if 2 true 4 false, 3 behind it and 5 6 7 a while loop;   *)
(*   DeadIf:    the same with an if, 5 true 7 false 6 behind it;           *)
(*   LiveLoop:  2 3 4 a while loop, then the if, 6 behind it;              *)
(* and every choice of NInstr instructions in four of their blocks.        *)
(***************************************************************************)
EXTENDS DeadCode

(* scope: the blocks whose definitions a block's code may use: they        *)
(* dominate it, or precede it in the source if it is unreachable.          *)
Shapes == [
  DeadLoop |->
    [succ |-> <<<<2, 4>>, << >>, <<5>>, << >>, <<6, 7>>, <<5>>, << >>>>,
     pre  |-> <<<< >>, <<1>>, << >>, <<1>>, <<3, 6>>, <<5>>, <<5>>>>,
     at |-> {1, 3, 5, 6}, phi |-> 5, latch |-> 6,
     scope |-> <<{}, {1}, {1}, {1}, {1, 3}, {1, 3, 5}, {1, 3, 5}>>],
  DeadIf |->
    [succ |-> <<<<2, 4>>, << >>, <<5, 7>>, << >>, <<6>>, << >>, <<6>>>>,
     pre  |-> <<<< >>, <<1>>, << >>, <<1>>, <<3>>, <<5, 7>>, <<3>>>>,
     at |-> {1, 3, 5, 6}, phi |-> nullptr, latch |-> nullptr,
     scope |-> <<{}, {1}, {1}, {1}, {1, 3}, {1, 3}, {1, 3}>>],
  LiveLoop |->
    [succ |-> <<<<2>>, <<3, 4>>, <<2>>, <<5, 7>>, << >>, << >>, << >>>>,
     pre  |-> <<<< >>, <<1, 3>>, <<2>>, <<2>>, <<4>>, << >>, <<4>>>>,
     at |-> {1, 2, 3, 6}, phi |-> 2, latch |-> 3,
     scope |-> <<{}, {1}, {1, 2}, {1, 2}, {1, 2, 4}, {1, 2, 4}, {1, 2, 4}>>]]

OperandLists ==
  {<< >>} \cup {<<i>> : i \in Instrs} \cup {o \in Instrs \X Instrs : o[1] < o[2]}

(* A phi stands first in a loop's header and takes its values at the       *)
(* latch; another operand is defined before it is used.                    *)
Defined(s, c, i, d) ==
  IF c[i].op = "phi" THEN c[d].at \in s.scope[s.latch] \cup {s.latch}
  ELSE c[d].at \in s.scope[c[i].at] \/ (c[d].at = c[i].at /\ d < i)

Choices(s) ==
  {c \in [Instrs -> [at : s.at, op : {"call", "pure_call"}, ops : OperandLists]
                      \cup [at : {s.phi} \ {nullptr}, op : {"phi"}, ops : OperandLists]] :
     /\ \A i, j \in Instrs : i < j => c[i].at <= c[j].at
     /\ \A i, j \in Instrs : i < j /\ c[j].op = "phi" /\ c[i].at = c[j].at => c[i].op = "phi"
     /\ \A i \in Instrs : \A l \in 1 .. Len(c[i].ops) :
          Defined(s, c, i, c[i].ops[l]) /\ c[c[i].ops[l]].op # "call"}

AllPrograms ==
  UNION {{[cfg |-> [succ |-> s.succ, pre |-> s.pre],
           at |-> [i \in Instrs |-> c[i].at],
           op |-> [i \in Instrs |-> IF c[i].op = "phi" THEN "other" ELSE c[i].op],
           ops |-> [i \in Instrs |-> c[i].ops]] : c \in Choices(s)} :
         s \in {Shapes[n] : n \in DOMAIN Shapes}}
=============================================================================

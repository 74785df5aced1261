------------------------------- MODULE MCLICM -------------------------------
(***************************************************************************)
(* Loops that CminusfBuilder makes of                                      *)
(*   while (...) { while (...) { } } if (...) { } else { }                 *)
(*   while (...) { while (...) { } while (...) { } }                       *)
(* with every choice of three instructions: in the first, in the bodies,   *)
(* in the block between the loops' ends and, for phis, in the headers; in  *)
(* the second, arithmetic in or behind the inner loops and phis in their   *)
(* headers, where one loop may use what the other computes.                *)
(*                                                                         *)
(*   1 entry      2 outer test   3 outer body   4 behind the outer loop    *)
(*   5 inner test 6 inner body   7 behind the inner loop                   *)
(*   8, 9 the branches of the if and 10 behind it; or                      *)
(*   8 second inner test 9 second inner body 10 behind the second loop     *)
(***************************************************************************)
EXTENDS LICM

SuccNested == <<<<2>>, <<3, 4>>, <<5>>, <<8, 9>>, <<6, 7>>, <<5>>, <<2>>, <<10>>, <<10>>, << >>>>
PreNested  == <<<< >>, <<1, 7>>, <<2>>, <<2>>, <<3, 6>>, <<5>>, <<5>>, <<4>>, <<4>>, <<8, 9>>>>

SuccSiblings == <<<<2>>, <<3, 4>>, <<5>>, << >>, <<6, 7>>, <<5>>, <<8>>, <<9, 10>>, <<8>>, <<2>>>>
PreSiblings  == <<<< >>, <<1, 10>>, <<2>>, <<2>>, <<3, 6>>, <<5>>, <<5>>, <<7, 9>>, <<8>>, <<8>>>>

Entering == [h \in {2, 5, 8} |-> CASE h = 2 -> 1 [] h = 5 -> 3 [] h = 8 -> 7]
Back     == [h \in {2, 5, 8} |-> CASE h = 2 -> 7 [] h = 5 -> 6 [] h = 8 -> 9]

NestedCandidates ==
  [at : {3, 6, 7}, op : {"binary"}, arg : Instrs \cup {const}]
    \cup [at : {3, 6, 7}, op : {"load", "store", "impure_call"}, arg : {const}]
    \cup [at : {2, 5}, op : {"phi"}, arg : Instrs \cup {const}, init : {TRUE}]
    \cup [at : {2, 5}, op : {"phi"}, arg : Instrs, init : {FALSE}]

SiblingCandidates ==
  [at : 5 .. 10, op : {"binary"}, arg : Instrs \cup {const}]
    \cup [at : {5, 8}, op : {"phi"}, arg : {const}, init : {TRUE}]

Args(c) ==
  CASE c.op = "load" -> <<global>>
    [] c.op = "store" -> <<c.arg, global>>
    [] c.op = "phi" -> << >>
    [] OTHER -> <<c.arg>>

(* Instructions are numbered block by block.                               *)
Sorted(f) == \A x, y \in Instrs : x < y => f[x].at <= f[y].at

(* SSA form: a definition before its uses, in a block or along all paths.  *)
Dom(succ_of) == [d \in Blocks |-> Blocks \ ReachAvoiding(Padded(succ_of), d)]
DomNested   == Dom(SuccNested)
DomSiblings == Dom(SuccSiblings)
InSsa(f, dom) ==
  \A j \in Instrs : f[j].arg # const =>
    IF f[j].op = "phi" THEN Back[f[j].at] \in dom[f[f[j].arg].at]
    ELSE IF f[f[j].arg].at = f[j].at THEN f[j].arg < j
    ELSE f[j].at \in dom[f[f[j].arg].at]

(* A value is what a binary, load or phi gives.                            *)
UsesValues(f) == \A j \in Instrs : f[j].arg # const => f[f[j].arg].op \in {"binary", "load", "phi"}

Program(f) ==
  [cfg |-> [succ |-> SuccNested, pre |-> PreNested],
   loops |-> <<5, 2>>,
   blocks |-> [b \in Blocks |-> CASE b = 2 -> <<2, 7, 3>> [] b = 5 -> <<5, 6>> [] OTHER -> << >>],
   parent |-> [b \in Blocks |-> IF b = 5 THEN 2 ELSE nullptr],
   latches |-> [b \in Blocks |-> CASE b = 2 -> {7} [] b = 5 -> {6} [] OTHER -> {}],
   op |-> [j \in Instrs |-> f[j].op],
   args |-> [j \in Instrs |-> Args(f[j])],
   phis |-> [j \in Instrs |->
               IF f[j].op # "phi" THEN << >>
               ELSE (IF f[j].init THEN <<<<const, Entering[f[j].at]>>>> ELSE << >>)
                    \o <<<<f[j].arg, Back[f[j].at]>>>>],
   instrs |-> [b \in Blocks |-> SelectSeq([j \in Instrs |-> j], LAMBDA j : f[j].at = b)]]

Nested ==
  {Program(f) : f \in {c \in [Instrs -> NestedCandidates] : Sorted(c) /\ InSsa(c, DomNested) /\ UsesValues(c)}}

Siblings ==
  {[Program(f) EXCEPT
      !.cfg = [succ |-> SuccSiblings, pre |-> PreSiblings],
      !.loops = <<5, 8, 2>>,
      !.blocks[2] = <<2, 10, 7, 3>>, !.blocks[8] = <<8, 9>>,
      !.parent[8] = 2,
      !.latches[2] = {10}, !.latches[8] = {9}] :
   f \in {c \in [Instrs -> SiblingCandidates] : Sorted(c) /\ InSsa(c, DomSiblings)}}

WhileLoops == Nested \cup Siblings
=============================================================================

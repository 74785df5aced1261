---------------------------- MODULE MCDominators ----------------------------
(***************************************************************************)
(* Instances of Dominators.  AllSmall is every control flow graph over N   *)
(* blocks in which a block ends in a return, a br or a conditional br to   *)
(* two different blocks, nothing branches to the entry or to itself, and   *)
(* the predecessor lists are in list order or in the reverse of it.        *)
(***************************************************************************)
EXTENDS Dominators, SequencesExt

Terminators == {s \in UNION {[1 .. n -> Blocks \ {Entry}] : n \in 0 .. 2} : IsInjective(s)}

SuccMaps == {f \in [Blocks -> Terminators] : \A b \in Blocks : b \notin Members(f[b])}

BlockList == [x \in Blocks |-> x]

Preds(f, b) == SelectSeq(BlockList, LAMBDA x : b \in Members(f[x]))

Forward(f) ==
  [succ |-> f, pre |-> FoldLeft(LAMBDA p, b : Append(p, Preds(f, b)), << >>, BlockList)]
Backward(f) ==
  [succ |-> f, pre |-> FoldLeft(LAMBDA p, b : Append(p, Reverse(Preds(f, b))), << >>, BlockList)]

AllSmall == {Forward(f) : f \in SuccMaps} \cup {Backward(f) : f \in SuccMaps}
=============================================================================

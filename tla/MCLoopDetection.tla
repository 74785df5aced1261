--------------------------- MODULE MCLoopDetection ---------------------------
(***************************************************************************)
(* Every control flow graph over N blocks in which every block is reached, *)
(* has at most two successors and is not its own, and nothing branches to  *)
(* the entry; each block but the entry follows some predecessor in the     *)
(* list, predecessors are in list order, and at least two edges go back in *)
(* the list (a back edge always does).                                     *)
(***************************************************************************)
EXTENDS LoopDetection, SequencesExt

Terminators == {T \in SUBSET (Blocks \ {Entry}) : Cardinality(T) <= 2}

SuccMaps ==
  {f \in [Blocks -> Terminators] :
     /\ \A b \in Blocks : b \notin f[b] /\ (b # Entry => \E x \in 1 .. b - 1 : b \in f[x])
     /\ Cardinality({e \in Blocks \X Blocks : e[1] > e[2] /\ e[2] \in f[e[1]]}) >= 2}

BlockList == [x \in Blocks |-> x]

Preds(f, b) == SelectSeq(BlockList, LAMBDA x : b \in f[x])

Succs(f) == FoldLeft(LAMBDA p, b : Append(p, SetToSortSeq(f[b], <)), << >>, BlockList)
Graph(f) ==
  [succ |-> Succs(f), pre |-> FoldLeft(LAMBDA p, b : Append(p, Preds(f, b)), << >>, BlockList)]

AllReached == {Graph(f) : f \in SuccMaps}
=============================================================================

------------------------------ MODULE MCMem2Reg ------------------------------
(***************************************************************************)
(* Instances of Mem2RegRuns: on three graphs of six blocks, every way to   *)
(* put NInstr loads and stores of two locals into the blocks.              *)
(***************************************************************************)
EXTENDS Mem2RegRuns

(* A graph from its successor lists.                                       *)
Graph(succ) ==
  [succ |-> succ,
   pre |-> [b \in Blocks |-> SelectSeq([x \in Blocks |-> x], LAMBDA x : b \in Members(succ[x]))]]

WhileThenIf == Graph(<< <<2>>, <<3, 4>>, <<2>>, <<5, 6>>, <<6>>, << >> >>)
IfInWhile   == Graph(<< <<2>>, <<3, 6>>, <<4, 5>>, <<5>>, <<2>>, << >> >>)
WhileInWhile == Graph(<< <<2>>, <<3, 6>>, <<4, 5>>, <<3>>, <<2>>, << >> >>)

(* Loads and stores in block order: place[j] is the block of instruction j.*)
Places == {place \in [Instrs -> Blocks] : \A j \in 1 .. NInstr - 1 : place[j] <= place[j + 1]}

(* Where a store's operand comes from: 0 is a constant, k the load k       *)
(* before it in its block.                                                 *)
Sources(place, op) ==
  {from \in [Instrs -> 0 .. NInstr] :
     \A j \in Instrs : from[j] # 0 =>
        from[j] < j /\ op[j] = "store" /\ op[from[j]] = "load" /\ place[from[j]] = place[j]}

Program(g, place, op, v, from) ==
  [cfg |-> g,
   body |-> [b \in Blocks |-> SelectSeq([j \in Instrs |-> j], LAMBDA j : place[j] = b)],
   op |-> op, var |-> v,
   rval |-> [j \in Instrs |-> IF from[j] = 0 THEN Const(j) ELSE Load(from[j])]]

MCPrograms ==
  UNION {{Program(g, place, op, v, from) :
            g \in {WhileThenIf, IfInWhile, WhileInWhile}, from \in Sources(place, op)} :
         place \in Places,
         op \in {op \in [Instrs -> {"load", "store"}] : {"load", "store"} \subseteq Members(op)},
         v \in {v \in [Instrs -> Vars] : v[1] = 1}}
=============================================================================

------------------------------- MODULE Mem2Reg -------------------------------
(***************************************************************************)
(* Mem2Reg (src/src/passes/Mem2Reg.cpp) on one function: phis at the       *)
(* iterated dominance frontiers of the stores, then renaming along the     *)
(* dominator tree with a stack of values for each local variable.          *)
(*                                                                         *)
(* Of a body only the loads and stores of local scalars are kept, and for  *)
(* each load one use of what it gives.  Dominators is taken as what it is  *)
(* shown to give: dominator tree and frontiers by definition.              *)
(***************************************************************************)
EXTENDS Cfg, SequencesExt

CONSTANTS
  NVars,                \* allocas for which is_valid_ptr holds
  NInstr,               \* loads and stores
  Programs              \* the functions: cfg, body, op, var and rval

Vars   == 1 .. NVars
Instrs == 1 .. NInstr

(* Values: a constant, told apart by the store that has it as operand; a   *)
(* load; the phi of a variable in a block.                                 *)
Const(j)  == <<"const", j, 0>>
Load(j)   == <<"load", j, 0>>
Phi(b, v) == <<"phi", b, v>>
undef     == <<"undef", 0, 0>>
Values == {Const(j) : j \in Instrs} \cup {Load(j) : j \in Instrs}
            \cup {Phi(b, v) : b \in Blocks, v \in Vars}

(* Every path to instruction j passes k first.                             *)
Precedes(p, k, j) ==
  \A b, c \in Blocks : \A l \in 1 .. Len(p.body[b]), m \in 1 .. Len(p.body[c]) :
    p.body[b][l] = k /\ p.body[c][m] = j => Dominates(p.cfg, b, c) /\ (b = c => l < m)

(* Every instruction stands in one place, and the operand of a store is a  *)
(* constant or a load that dominates it: there are no phis yet.            *)
IsProgram(p) ==
  /\ p.body \in [Blocks -> Seq(Instrs)]
  /\ \A b, c \in Blocks : \A k \in 1 .. Len(p.body[b]), l \in 1 .. Len(p.body[c]) :
       p.body[b][k] = p.body[c][l] => b = c /\ k = l
  /\ p.op \in [Instrs -> {"load", "store"}]
  /\ p.var \in [Instrs -> Vars]
  /\ p.rval \in [Instrs -> Values]
  /\ \A j \in Instrs : p.rval[j] # Const(j) =>
       \E k \in Instrs : p.rval[j] = Load(k) /\ p.op[k] = "load" /\ Precedes(p, k, j)

CfgsOfPrograms == {p.cfg : p \in Programs}

ASSUME SizesAssumption == NVars \in Nat /\ NInstr \in Nat

ASSUME ProgramsAssumption ==
  /\ \A p \in Programs : IsProgram(p)
  /\ \A g \in CfgsOfPrograms : IsCfg(g) /\ \A b \in Blocks : Reachable(g, b)

(* get_dom_tree_succ_blocks and get_dominance_frontier.                    *)
DomTree  == [g \in CfgsOfPrograms |-> [b \in Blocks |-> {c \in Blocks : IsIdom(g, b, c)}]]
Frontier == [g \in CfgsOfPrograms |-> [b \in Blocks |-> {c \in Blocks : InFrontier(g, b, c)}]]

VARIABLES
  prog,                 \* the function before the pass: never changes
  pc,
  todo,                 \* generate_phi: variables still to do
  var, work_list,       \* the variable being done, the rest of its work list
  phis,                 \* block -> the variables of its phis, in list order
  pairs,                \* operand pairs of a phi
  var_val_stack,
  frames,               \* active calls of rename
  rval,                 \* operand of each store, now
  uses,                 \* what the use of each load refers to, now
  erased                \* instructions erased

phiVars == <<todo, var, work_list, phis>>
irVars == <<pairs, rval, uses, erased>>
vars == <<prog, pc, phiVars, var_val_stack, frames, irVars>>

Frames == [bb : Blocks, at : Nat, children : SUBSET Blocks, wait_delete : SUBSET Instrs]

TypeOK ==
  /\ pc \in {"phi", "rename", "done"}
  /\ todo \in SUBSET Vars /\ work_list \in Seq(Blocks)
  /\ var \in 0 .. NVars /\ (work_list # << >> => var \in Vars)
  /\ phis \in [Blocks -> Seq(Vars)]
  /\ \A b \in Blocks : IsInjective(phis[b])
  /\ pairs \in [Blocks \X Vars -> Seq(Values \X Blocks)]
  /\ var_val_stack \in [Vars -> Seq(Values)]
  /\ frames \in Seq(Frames)
  /\ rval \in [Instrs -> Values] /\ uses \in [Instrs -> Values]
  /\ erased \in SUBSET Instrs

(* live_var_2blocks: where a variable is stored.                           *)
StoredIn(v) ==
  {b \in Blocks : \E j \in Members(prog.body[b]) : prog.op[j] = "store" /\ prog.var[j] = v}

Init ==
  /\ prog \in Programs
  /\ pc = "phi"
  /\ todo = {v \in Vars : StoredIn(v) # {}}
  /\ var = 0 /\ work_list = << >>
  /\ phis = [b \in Blocks |-> << >>]
  /\ pairs = [p \in Blocks \X Vars |-> << >>]
  /\ var_val_stack = [v \in Vars |-> << >>]
  /\ frames = << >>
  /\ rval = prog.rval
  /\ uses = [j \in Instrs |-> Load(j)]
  /\ erased = {}
-----------------------------------------------------------------------------
(* generate_phi: the next variable; its blocks come in pointer order.      *)
NextVar ==
  /\ pc = "phi" /\ work_list = << >>
  /\ \E v \in todo :
       /\ var' = v
       /\ todo' = todo \ {v}
       /\ \E s \in SetToSeqs(StoredIn(v)) : work_list' = s
  /\ UNCHANGED <<prog, pc, phis, var_val_stack, frames, irVars>>

HasPhi(b, v) == v \in Members(phis[b])

(* Mutants: the new phis do not count as definitions; a block goes back on *)
(* the list though it has its phi.                                         *)
MutantPlacePhisOnce ==
  /\ pc = "phi" /\ work_list # << >>
  /\ LET new == {c \in Frontier[prog.cfg][Head(work_list)] : ~ HasPhi(c, var)}
     IN  phis' = [c \in Blocks |-> IF c \in new THEN <<var>> \o phis[c] ELSE phis[c]]
  /\ work_list' = Tail(work_list)
  /\ UNCHANGED <<prog, pc, todo, var, var_val_stack, frames, irVars>>

MutantPlacePhisAgain ==
  /\ pc = "phi" /\ work_list # << >>
  /\ LET all == Frontier[prog.cfg][Head(work_list)]
     IN  /\ phis' = [c \in Blocks |-> IF c \in all /\ ~ HasPhi(c, var) THEN <<var>> \o phis[c]
                                                                     ELSE phis[c]]
         /\ \E s \in SetToSeqs(all) : work_list' = Tail(work_list) \o s
  /\ UNCHANGED <<prog, pc, todo, var, var_val_stack, frames, irVars>>

(* A block of the work list puts a phi into each block of its frontier     *)
(* that has none, before the others, and that block on the list.           *)
PlacePhis ==
  /\ pc = "phi" /\ work_list # << >>
  /\ LET new == {c \in Frontier[prog.cfg][Head(work_list)] : ~ HasPhi(c, var)}
     IN  /\ phis' = [c \in Blocks |-> IF c \in new THEN <<var>> \o phis[c] ELSE phis[c]]
         /\ \E s \in SetToSeqs(new) : work_list' = Tail(work_list) \o s
  /\ UNCHANGED <<prog, pc, todo, var, var_val_stack, frames, irVars>>

Call(b) == [bb |-> b, at |-> 0, children |-> DomTree[prog.cfg][b], wait_delete |-> {}]

StartRename ==
  /\ pc = "phi" /\ work_list = << >> /\ todo = {}
  /\ frames' = <<Call(Entry)>>
  /\ pc' = "rename"
  /\ UNCHANGED <<prog, phiVars, var_val_stack, irVars>>
-----------------------------------------------------------------------------
(* rename(bb): the innermost call.                                         *)
Top == frames[Len(frames)]
bb == Top.bb
Body == prog.body[bb]
Instr == Body[Top.at]

SetTop(f) == [frames EXCEPT ![Len(frames)] = f]

(* On to the next instruction, with the instructions del to be erased.     *)
Advance(del) ==
  SetTop([bb |-> bb, at |-> Top.at + 1, children |-> Top.children,
          wait_delete |-> Top.wait_delete \cup del])

Renaming == pc = "rename" /\ frames # << >>

Push(v, x) == [var_val_stack EXCEPT ![v] = Append(@, x)]
Back(v) == var_val_stack[v][Len(var_val_stack[v])]

(* The phis stand first in a block, one for each variable.                 *)
PushPhis ==
  /\ Renaming /\ Top.at = 0
  /\ var_val_stack' = [v \in Vars |-> IF HasPhi(bb, v) THEN Append(var_val_stack[v], Phi(bb, v))
                                                       ELSE var_val_stack[v]]
  /\ frames' = Advance({})
  /\ UNCHANGED <<prog, pc, phiVars, irVars>>

(* instr.replace_all_use_with(r)                                           *)
Replaced(x, j, r) == IF x = Load(j) THEN r ELSE x

(* A load takes the value on its variable's stack, if there is one.        *)
RenameLoad ==
  /\ Renaming /\ Top.at \in 1 .. Len(Body) /\ prog.op[Instr] = "load"
  /\ LET v == prog.var[Instr]
     IN  IF var_val_stack[v] # << >>
           THEN /\ rval' = [j \in Instrs |-> Replaced(rval[j], Instr, Back(v))]
                /\ uses' = [j \in Instrs |-> Replaced(uses[j], Instr, Back(v))]
                /\ pairs' = [p \in Blocks \X Vars |->
                               [l \in 1 .. Len(pairs[p]) |->
                                  <<Replaced(pairs[p][l][1], Instr, Back(v)), pairs[p][l][2]>>]]
                /\ frames' = Advance({Instr})
           ELSE /\ frames' = Advance({})
                /\ UNCHANGED <<rval, uses, pairs>>
  /\ UNCHANGED <<prog, pc, phiVars, var_val_stack, erased>>

(* A store's operand is the new value of its variable.                     *)
RenameStore ==
  /\ Renaming /\ Top.at \in 1 .. Len(Body) /\ prog.op[Instr] = "store"
  /\ var_val_stack' = Push(prog.var[Instr], rval[Instr])
  /\ frames' = Advance({Instr})
  /\ UNCHANGED <<prog, pc, phiVars, irVars>>

(* The phis of the successors get the values that hold at the block's end. *)
FillPhis ==
  /\ Renaming /\ Top.at = Len(Body) + 1
  /\ pairs' = [p \in Blocks \X Vars |->
                 IF /\ p[1] \in Members(prog.cfg.succ[bb])
                    /\ HasPhi(p[1], p[2])
                    /\ var_val_stack[p[2]] # << >>
                   THEN Append(pairs[p], <<Back(p[2]), bb>>)
                   ELSE pairs[p]]
  /\ frames' = Advance({})
  /\ UNCHANGED <<prog, pc, phiVars, var_val_stack, rval, uses, erased>>

(* The children in the dominator tree, a set of pointers.                  *)
Recurse ==
  /\ Renaming /\ Top.at > Len(Body) + 1
  /\ \E c \in Top.children :
       frames' = Append(SetTop([Top EXCEPT !.children = @ \ {c}]), Call(c))
  /\ UNCHANGED <<prog, pc, phiVars, var_val_stack, irVars>>

(* The stores to v in the block.                                           *)
Stores(v) == {k \in 1 .. Len(Body) : prog.op[Body[k]] = "store" /\ prog.var[Body[k]] = v}

(* Mutant: the phis are not popped.                                        *)
MutantPushed(v) == Cardinality(Stores(v))

(* Definitions of v in the block: each was pushed and is popped.           *)
Pushed(v) == Cardinality(Stores(v)) + (IF HasPhi(bb, v) THEN 1 ELSE 0)

Popped(v) == SubSeq(var_val_stack[v], 1, Len(var_val_stack[v]) - Pushed(v))

(* Pop, erase the loads and stores that were replaced, and return.         *)
Return ==
  /\ Renaming /\ Top.at > Len(Body) + 1 /\ Top.children = {}
  /\ var_val_stack' = [v \in Vars |-> Popped(v)]
  /\ erased' = erased \cup Top.wait_delete
  /\ frames' = SubSeq(frames, 1, Len(frames) - 1)
  /\ pc' = IF Len(frames) = 1 THEN "done" ELSE "rename"
  /\ UNCHANGED <<prog, phiVars, pairs, rval, uses>>

Next ==
  \/ NextVar \/ PlacePhis \/ StartRename \/ PushPhis \/ RenameLoad \/ RenameStore
  \/ FillPhis \/ Recurse \/ Return

Spec == Init /\ [][Next]_vars
-----------------------------------------------------------------------------
(***************************************************************************)
(* What the pass promises.                                                 *)
(***************************************************************************)
(* Nothing is left on a stack by a sibling: when a block is entered, each  *)
(* value on the stacks comes from a block that strictly dominates it, and  *)
(* at the end the stacks are empty.                                        *)
DefinedIn(x) ==
  IF x[1] = "phi" THEN {x[2]}
  ELSE {b \in Blocks : x[2] \in Members(prog.body[b])}

StacksFollowDominators ==
  /\ pc = "rename" /\ Top.at = 0 =>
       \A v \in Vars : \A l \in 1 .. Len(var_val_stack[v]) :
         \A d \in DefinedIn(var_val_stack[v][l]) : StrictlyDominates(prog.cfg, d, bb)
  /\ pc = "done" => \A v \in Vars : var_val_stack[v] = << >>

(* The pass always stops.                                                  *)
Termination == <>(pc = "done")
=============================================================================

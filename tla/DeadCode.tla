------------------------------ MODULE DeadCode ------------------------------
(***************************************************************************)
(* DeadCode (src/src/passes/DeadCode.cpp) on one function: drop the blocks *)
(* nothing branches to, mark what a branch, return, store or impure call   *)
(* needs, sweep the rest, and again until a round changes nothing.         *)
(*                                                                         *)
(* Deleting an instruction gives its users a null operand (~Value).        *)
(***************************************************************************)
EXTENDS Cfg

CONSTANTS
  NInstr,               \* instructions of the function, in list order
  Programs

Instrs == 1 .. NInstr

(* at: the block of an instruction; ops: its operands that are             *)
(* instructions.  A phi's block operands are left out: Mem2Reg fills phis  *)
(* from reachable blocks only, and those are never deleted.  For the same  *)
(* reason, and because a definition dominates its uses, code that can be   *)
(* reached has operands that can be reached.                               *)
Operations == {"branch", "store", "call", "pure_call", "other"}
IsProgram(p) ==
  /\ IsCfg(p.cfg)
  /\ p.at \in [Instrs -> Blocks]
  /\ p.op \in [Instrs -> Operations]
  /\ p.ops \in [Instrs -> Seq(Instrs)]
  /\ LET Runs == {i \in Instrs : Reachable(p.cfg, p.at[i])}
     IN  \A i \in Runs : Members(p.ops[i]) \subseteq Runs

ASSUME NInstrAssumption == NInstr \in Nat
ASSUME ProgramsAssumption == \A p \in Programs : IsProgram(p)

VARIABLES
  prog,                 \* never changes
  pc, changed,
  blocks, pre, succ,    \* the blocks of the function; pre_bbs_ and
                        \* succ_bbs_, of which the pass never asks the order
  instrs, operands,     \* the instructions it has, their operands_
  marked, work_list,
  ins, k                \* mark(ins): the instruction, its next operand

vars == <<prog, pc, changed, blocks, pre, succ, instrs, operands, marked, work_list, ins, k>>
code == <<blocks, pre, succ, instrs, operands>>

TypeOK ==
  /\ pc \in {"clear", "critical", "mark", "operands", "sweep", "again", "done"}
  /\ changed \in BOOLEAN
  /\ blocks \in SUBSET Blocks
  /\ pre \in [Blocks -> SUBSET Blocks] /\ succ \in [Blocks -> SUBSET Blocks]
  /\ instrs \in SUBSET Instrs
  /\ operands \in [Instrs -> Seq(Instrs \cup {nullptr})]
  /\ marked \in SUBSET Instrs
  /\ work_list \in Seq(Instrs)
  /\ ins \in Instrs \cup {nullptr}
  /\ k \in Nat \ {0}

Init ==
  /\ prog \in Programs
  /\ pc = "clear" /\ changed = FALSE
  /\ blocks = Blocks
  /\ pre = [b \in Blocks |-> Members(prog.cfg.pre[b])]
  /\ succ = [b \in Blocks |-> Members(prog.cfg.succ[b])]
  /\ instrs = Instrs /\ operands = prog.ops
  /\ marked = {} /\ work_list = << >>
  /\ ins = nullptr /\ k = 1
-----------------------------------------------------------------------------
(* The operands when the instructions D are deleted.                       *)
Nulled(D) ==
  [i \in Instrs |->
    IF i \in D THEN << >>
    ELSE [l \in DOMAIN operands[i] |->
            IF operands[i][l] \in D THEN nullptr ELSE operands[i][l]]]

(* Mutant: the entry, which nothing branches to, is dropped with the rest. *)
MutantUnusedEntry == {b \in blocks : pre[b] = {}}

Unused == {b \in blocks : pre[b] = {} /\ b # Entry}

(* Mutant: the blocks leave the list but stay predecessors.                *)
MutantClearBlocks ==
  /\ pc = "clear"
  /\ LET D == {i \in instrs : prog.at[i] \in Unused}
     IN  /\ blocks' = blocks \ Unused
         /\ instrs' = instrs \ D
         /\ operands' = Nulled(D)
  /\ changed' = (changed \/ Unused # {})
  /\ pc' = "critical"
  /\ UNCHANGED <<prog, pre, succ, marked, work_list, ins, k>>

(* clear_basic_blocks, with Function::remove and the destructors.          *)
clear_basic_blocks ==
  /\ pc = "clear"
  /\ LET D == {i \in instrs : prog.at[i] \in Unused}
     IN  /\ blocks' = blocks \ Unused
         /\ pre' = [b \in Blocks |-> pre[b] \ Unused]
         /\ succ' = [b \in Blocks |-> IF b \in Unused THEN {} ELSE succ[b]]
         /\ instrs' = instrs \ D
         /\ operands' = Nulled(D)
  /\ changed' = (changed \/ Unused # {})
  /\ pc' = "critical"
  /\ UNCHANGED <<prog, marked, work_list, ins, k>>

is_critical(i) == prog.op[i] \in {"branch", "store", "call"}
Critical == {i \in instrs : is_critical(i)}

(* A set of instructions in the order of the function.                     *)
InOrder(I) ==
  LET Upto[n \in 0 .. NInstr] ==
        IF n = 0 THEN << >> ELSE IF n \in I THEN Append(Upto[n - 1], n) ELSE Upto[n - 1]
  IN  Upto[NInstr]

(* Mutant: what an earlier round marked stays marked.                      *)
MutantMarkCritical ==
  /\ pc = "critical"
  /\ marked' = marked \cup Critical
  /\ work_list' = InOrder(Critical)
  /\ pc' = "mark"
  /\ UNCHANGED <<prog, changed, code, ins, k>>

MarkCritical ==
  /\ pc = "critical"
  /\ marked' = Critical
  /\ work_list' = InOrder(Critical)
  /\ pc' = "mark"
  /\ UNCHANGED <<prog, changed, code, ins, k>>

PopFront ==
  /\ pc = "mark" /\ work_list # << >>
  /\ ins' = Head(work_list) /\ k' = 1
  /\ work_list' = Tail(work_list)
  /\ pc' = "operands"
  /\ UNCHANGED <<prog, changed, code, marked>>

(* Mutant: an operand is marked but not followed.                          *)
Mutant_markOnly ==
  /\ pc = "operands" /\ k <= Len(operands[ins])
  /\ marked' = marked \cup ({operands[ins][k]} \ {nullptr})
  /\ k' = k + 1
  /\ UNCHANGED <<prog, pc, changed, code, work_list, ins>>

(* mark(ins): one operand.                                                 *)
mark ==
  /\ pc = "operands" /\ k <= Len(operands[ins])
  /\ LET def == operands[ins][k]
     IN  IF def # nullptr /\ def \notin marked
           THEN marked' = marked \cup {def} /\ work_list' = Append(work_list, def)
           ELSE UNCHANGED <<marked, work_list>>
  /\ k' = k + 1
  /\ UNCHANGED <<prog, pc, changed, code, ins>>

EndOperands ==
  /\ pc = "operands" /\ k > Len(operands[ins])
  /\ pc' = "mark"
  /\ UNCHANGED <<prog, changed, code, marked, work_list, ins, k>>

EndMark ==
  /\ pc = "mark" /\ work_list = << >>
  /\ pc' = "sweep"
  /\ UNCHANGED <<prog, changed, code, marked, work_list, ins, k>>

sweep ==
  /\ pc = "sweep"
  /\ LET wait_del == instrs \ marked
     IN  /\ instrs' = instrs \ wait_del
         /\ operands' = Nulled(wait_del)
         /\ changed' = (changed \/ wait_del # {})
  /\ pc' = "again"
  /\ UNCHANGED <<prog, blocks, pre, succ, marked, work_list, ins, k>>

(* Mutant: changed is only reset before the first round.                   *)
MutantAgain ==
  /\ pc = "again" /\ changed
  /\ pc' = "clear"
  /\ UNCHANGED <<prog, changed, code, marked, work_list, ins, k>>

(* The do-while of run.                                                    *)
Again ==
  /\ pc = "again" /\ changed
  /\ pc' = "clear" /\ changed' = FALSE
  /\ UNCHANGED <<prog, code, marked, work_list, ins, k>>

Finish ==
  /\ pc = "again" /\ ~ changed
  /\ pc' = "done"
  /\ UNCHANGED <<prog, changed, code, marked, work_list, ins, k>>

Finished == pc = "done" /\ UNCHANGED vars

Next ==
  \/ clear_basic_blocks \/ MarkCritical \/ PopFront \/ mark \/ EndOperands
  \/ EndMark \/ sweep \/ Again \/ Finish \/ Finished

Spec == Init /\ [][Next]_vars

(* The pass is one thread that never blocks.                               *)
FairSpec == Spec /\ WF_vars(Next)
-----------------------------------------------------------------------------
(***************************************************************************)
(* What the pass promises, against the function it was given.              *)
(***************************************************************************)
(* The instructions that any set holds which holds those of I that have an *)
(* effect and the operands of its members.                                 *)
Feeds(S, I) ==
  /\ \A i \in I : prog.op[i] \notin {"pure_call", "other"} => i \in S
  /\ \A i \in S \cap I : Members(prog.ops[i]) \cap I \subseteq S
Needed(I) == {i \in I : \A S \in SUBSET I : Feeds(S, I) => i \in S}

(* A block that can be left backwards for ever or up to the entry.         *)
HasOrigin(b) ==
  \E S \in SUBSET Blocks :
    b \in S /\ \A x \in S : x = Entry \/ \E p \in S : Edge(prog.cfg, p, x)

(* What runs and has an effect, directly or through operands, is never     *)
(* deleted, in whatever round and however the work list is ordered.        *)
NeededKept ==
  Needed({i \in Instrs : Reachable(prog.cfg, prog.at[i])}) \subseteq instrs

(* At the end no instruction is left whose value nothing needs: not those  *)
(* only deleted blocks used, nor phis that only feed each other.           *)
NothingDeadLeft ==
  pc = "done" => instrs = Needed({i \in Instrs : HasOrigin(prog.at[i])})

(* The predecessor and successor lists mirror each other and are those of  *)
(* the function, the deleted blocks left out; at the end the blocks left   *)
(* are those on a path from the entry, or from a loop nothing enters.      *)
GraphConsistent ==
  /\ TypeOK
  /\ \A x \in blocks :
       /\ succ[x] = Members(prog.cfg.succ[x])
       /\ pre[x] = Members(prog.cfg.pre[x]) \cap blocks
  /\ pc = "done" => blocks = {b \in Blocks : HasOrigin(b)}

(* Code that can run keeps its operands: a deletion only nulls those of    *)
(* instructions nothing can reach.                                         *)
OperandsKept ==
  \A i \in instrs : Reachable(prog.cfg, prog.at[i]) => operands[i] = prog.ops[i]

(* The rounds end.                                                         *)
Termination == <>(pc = "done")
=============================================================================

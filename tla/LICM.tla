-------------------------------- MODULE LICM --------------------------------
(***************************************************************************)
(* LoopInvariantCodeMotion (src/src/passes/LICM.cpp) on one function:      *)
(* for each loop, inner loops first, find the invariant instructions and   *)
(* move them to a new preheader, rewiring phis, branches and the           *)
(* predecessor and successor lists.                                        *)
(*                                                                         *)
(* The graph is kept three times, as in the code: the operands of the      *)
(* branch, succ_bbs_ and pre_bbs_.  Instructions are numbers; what counts  *)
(* of one is its operation, its operands and the block that lists it.      *)
(***************************************************************************)
EXTENDS Cfg, SequencesExt

CONSTANTS
  NInstr,               \* number of instructions other than br and ret
  Programs              \* the functions, with the loops LoopDetection found

Instrs == 1 .. NInstr
Preheader(h) == N + h   \* the block BasicBlock::create gives loop h
AllBlocks == 1 .. 2 * N

(* The operands that are no instructions: a constant, a global scalar.     *)
CONSTANTS const, global

Values == Instrs \cup {const, global}
Operations == {"binary", "load", "store", "phi", "impure_call"}

(* The members of s that are in S, in their order.                         *)
Kept(s, S) ==
  LET upto[l \in 0 .. Len(s)] ==
        IF l = 0 THEN << >>
        ELSE IF s[l] \in S THEN Append(upto[l - 1], s[l]) ELSE upto[l - 1]
  IN  upto[Len(s)]

(* x stands before y in s.                                                 *)
Before(s, x, y) == \E a, b \in 1 .. Len(s) : a < b /\ s[a] = x /\ s[b] = y

Sources(pairs) == [l \in 1 .. Len(pairs) |-> pairs[l][2]]

(* A phi has at most one pair for each predecessor of its block.           *)
PhisOf(where, preds, pairs, p) ==
  \A b \in DOMAIN where : \A j \in Members(where[b]) : p.op[j] = "phi" =>
    /\ IsInjective(Sources(pairs[j]))
    /\ Members(Sources(pairs[j])) \subseteq Members(preds[b])

(* A definition dominates its uses; a phi uses a value where the branch    *)
(* comes from.                                                             *)
IsSsa(p) ==
  \A b, c \in Blocks : \A v \in Members(p.instrs[b]), j \in Members(p.instrs[c]) :
    IF p.op[j] = "phi"
      THEN \A l \in 1 .. Len(p.phis[j]) : p.phis[j][l][1] = v => Dominates(p.cfg, b, p.phis[j][l][2])
      ELSE v \in Members(p.args[j]) =>
             IF b = c THEN Before(p.instrs[b], v, j) ELSE Dominates(p.cfg, b, c)

(* What the pass is given: each instruction is in one place.               *)
IsCode(p) ==
  /\ IsCfg(p.cfg)
  /\ \A b \in Blocks : IsInjective(p.cfg.succ[b]) /\ IsInjective(p.cfg.pre[b])
  /\ p.op \in [Instrs -> Operations] /\ p.args \in [Instrs -> Seq(Values)]
  /\ \A j \in Instrs :
       /\ p.op[j] = "load" => Len(p.args[j]) = 1
       /\ p.op[j] = "store" => Len(p.args[j]) = 2
  /\ p.phis \in [Instrs -> Seq(Values \X Blocks)]
  /\ p.instrs \in [Blocks -> Seq(Instrs)]
  /\ \A j \in Instrs : \E b \in Blocks : j \in Members(p.instrs[b])
  /\ \A b \in Blocks : IsInjective(p.instrs[b])
  /\ \A b, c \in Blocks : b # c => Members(p.instrs[b]) \cap Members(p.instrs[c]) = {}
  /\ PhisOf(p.instrs, p.cfg.pre, p.phis, p)
  /\ IsSsa(p)

(* h is l or a loop around l.                                              *)
Around(p, h, l) ==
  \A S \in SUBSET Members(p.loops) :
    l \in S /\ (\A x \in S : p.parent[x] # nullptr => p.parent[x] \in S) => h \in S

(* The blocks of a loop and its sub-loops.                                 *)
Inside(p, h) == UNION {Members(p.blocks[l]) : l \in {m \in Members(p.loops) : Around(p, h, m)}}

(* LoopDetection lists a loop after its sub-loops, and a block in the      *)
(* innermost loop around it; loops are natural, so control reaches all of  *)
(* a loop, and that through its header.  They are those CminusfBuilder     *)
(* makes of while: one block enters the test, and those that branch back   *)
(* to it are in no sub-loop.                                               *)
HasLoops(p) ==
  /\ p.loops \in Seq(Blocks) /\ IsInjective(p.loops)
  /\ p.blocks \in [Blocks -> Seq(Blocks)] /\ p.latches \in [Blocks -> SUBSET Blocks]
  /\ p.parent \in [Blocks -> BlockOrNull]
  /\ \A i \in 1 .. Len(p.loops) :
       p.parent[p.loops[i]] # nullptr => \E l \in i + 1 .. Len(p.loops) : p.loops[l] = p.parent[p.loops[i]]
  /\ \A h \in Members(p.loops) :
       /\ h \in Members(p.blocks[h])
       /\ p.latches[h] = Members(p.cfg.pre[h]) \cap Members(p.blocks[h])
       /\ \E q \in Blocks \ Inside(p, h) : Members(p.cfg.pre[h]) \ p.latches[h] = {q}
       /\ Entry \notin Inside(p, h)
       /\ \A b \in Inside(p, h) \ {h} : Members(p.cfg.pre[b]) \subseteq Inside(p, h)
  /\ \A S \in SUBSET Blocks : Entry \in S /\ Closed(p.cfg, S) =>
       \A h \in Members(p.loops) : Inside(p, h) \subseteq S
  /\ \A h, l \in Members(p.loops) : h # l => Members(p.blocks[h]) \cap Members(p.blocks[l]) = {}

ASSUME NInstrAssumption == NInstr \in Nat
ASSUME ProgramsAssumption == \A p \in Programs : IsCode(p) /\ HasLoops(p)
ASSUME OperandsAssumption == const \notin Instrs /\ global \notin Instrs

VARIABLES
  prog,                 \* never changes: cfg, loops, parent, latches, op, args
  addr,                 \* never changes: the instructions in pointer order
  pc, pos,              \* position in loops_
  br, succ, pre,        \* branch targets, succ_bbs_, pre_bbs_ of every block
  terminated,           \* the blocks that end in a br or ret
  instrs,               \* the other instructions of a block, in order
  phis,                 \* operand pairs of a phi
  blocks,               \* Loop::blocks_ of the loop with this header
  preheader,            \* Loop::preheader_
  loop_instructions, updated_global, loop_invariant, changed,
  k                     \* position in loop_instructions, then in loop_invariant

progVars == <<prog, addr>>
graphVars == <<br, succ, pre, terminated, instrs, phis, blocks, preheader>>
scanVars == <<loop_instructions, updated_global, loop_invariant, changed>>
vars == <<progVars, pc, pos, k, graphVars, scanVars>>

TypeOK ==
  /\ pc \in {"collect", "examine", "phis", "rewire", "move", "done"}
  /\ pos \in 1 .. Len(prog.loops) + 1
  /\ br \in [AllBlocks -> Seq(AllBlocks)]
  /\ succ \in [AllBlocks -> Seq(AllBlocks)]
  /\ pre \in [AllBlocks -> Seq(AllBlocks)]
  /\ terminated \in SUBSET AllBlocks
  /\ instrs \in [AllBlocks -> Seq(Instrs)]
  /\ phis \in [Instrs -> Seq(Values \X AllBlocks)]
  /\ blocks \in [Blocks -> Seq(AllBlocks)]
  /\ preheader \in [Blocks -> AllBlocks \cup {nullptr}]
  /\ loop_instructions \in SUBSET Instrs
  /\ updated_global \in SUBSET Values
  /\ loop_invariant \in Seq(Instrs)
  /\ changed \in BOOLEAN
  /\ k \in 1 .. NInstr + 1

Padded(f) == [b \in AllBlocks |-> IF b \in Blocks THEN f[b] ELSE << >>]

Init ==
  /\ prog \in Programs
  /\ addr \in {s \in [Instrs -> Instrs] : IsInjective(s)}
  /\ pc = "collect" /\ pos = 1 /\ k = 1
  /\ br = Padded(prog.cfg.succ)
  /\ succ = Padded(prog.cfg.succ)
  /\ pre = Padded(prog.cfg.pre)
  /\ terminated = Blocks
  /\ instrs = Padded(prog.instrs)
  /\ phis = prog.phis
  /\ blocks = prog.blocks
  /\ preheader = [h \in Blocks |-> nullptr]
  /\ loop_instructions = {} /\ updated_global = {} /\ loop_invariant = << >>
  /\ changed = FALSE

loop == prog.loops[pos]
-----------------------------------------------------------------------------
(* Mutant: the stored value is recorded, not the pointer.                  *)
MutantCollectLoopInfo ==
  /\ pc = "collect" /\ pos <= Len(prog.loops)
  /\ loop_instructions' = UNION {Members(instrs[b]) : b \in Members(blocks[loop])}
  /\ updated_global' = {prog.args[j][1] : j \in {l \in loop_instructions' : prog.op[l] = "store"}}
  /\ loop_invariant' = << >>
  /\ changed' = FALSE
  /\ k' = 1
  /\ pc' = "examine"
  /\ UNCHANGED <<progVars, pos, graphVars>>

(* traverse_loop and collect_loop_info.  loops_ lists sub-loops first, so  *)
(* the recursion of traverse_loop finds them done.  Only the blocks the    *)
(* loop lists itself are looked at, not those of its sub-loops.            *)
CollectLoopInfo ==
  /\ pc = "collect" /\ pos <= Len(prog.loops)
  /\ loop_instructions' = UNION {Members(instrs[b]) : b \in Members(blocks[loop])}
  /\ updated_global' = {prog.args[j][2] : j \in {l \in loop_instructions' : prog.op[l] = "store"}}
  /\ loop_invariant' = << >>
  /\ changed' = FALSE
  /\ k' = 1
  /\ pc' = "examine"
  /\ UNCHANGED <<progVars, pos, graphVars>>

(* An operand from outside the loop's own instructions, or hoisted.        *)
Fixed(v) == v \notin loop_instructions \/ v \in Members(loop_invariant)

IsInvariant(j) ==
  /\ prog.op[j] \notin {"store", "phi", "impure_call"}
  /\ prog.op[j] = "load" => prog.args[j][1] \notin updated_global
  /\ \/ prog.op[j] = "load" /\ prog.args[j][1] = global
     \/ \A v \in Members(prog.args[j]) : Fixed(v)

(* Mutant: what is found later is moved first.                             *)
MutantExamineOrder ==
  /\ pc = "examine" /\ k <= NInstr
  /\ LET j == addr[k]
     IN  IF j \in loop_instructions \ Members(loop_invariant) /\ IsInvariant(j)
           THEN loop_invariant' = <<j>> \o loop_invariant /\ changed' = TRUE
           ELSE UNCHANGED loop_invariant /\ UNCHANGED changed
  /\ k' = k + 1
  /\ UNCHANGED <<progVars, pc, pos, graphVars, loop_instructions, updated_global>>

(* Mutant: changed is set whether or not an instruction was found.         *)
MutantExamineChanged ==
  /\ pc = "examine" /\ k <= NInstr
  /\ LET j == addr[k]
     IN  IF j \in loop_instructions \ Members(loop_invariant) /\ IsInvariant(j)
           THEN loop_invariant' = Append(loop_invariant, j) /\ changed' = TRUE
           ELSE UNCHANGED loop_invariant /\ changed' = (j \in loop_instructions)
  /\ k' = k + 1
  /\ UNCHANGED <<progVars, pc, pos, graphVars, loop_instructions, updated_global>>

(* One instruction of the set, in pointer order.                           *)
Examine ==
  /\ pc = "examine" /\ k <= NInstr
  /\ LET j == addr[k]
     IN  IF j \in loop_instructions \ Members(loop_invariant) /\ IsInvariant(j)
           THEN loop_invariant' = Append(loop_invariant, j) /\ changed' = TRUE
           ELSE UNCHANGED <<loop_invariant, changed>>
  /\ k' = k + 1
  /\ UNCHANGED <<progVars, pc, pos, graphVars, loop_instructions, updated_global>>

ExamineAgain ==
  /\ pc = "examine" /\ k > NInstr /\ changed
  /\ changed' = FALSE
  /\ k' = 1
  /\ UNCHANGED <<progVars, pc, pos, graphVars, loop_instructions, updated_global, loop_invariant>>

(* The loop gets a preheader, listed in the function but still empty; with *)
(* nothing to move that is all.                                            *)
CreatePreheader ==
  /\ pc = "examine" /\ k > NInstr /\ ~ changed
  /\ preheader' = [preheader EXCEPT ![loop] = Preheader(loop)]
  /\ IF loop_invariant = << >>
       THEN pc' = "collect" /\ pos' = pos + 1
       ELSE pc' = "phis" /\ UNCHANGED pos
  /\ k' = 1
  /\ UNCHANGED <<progVars, br, succ, pre, terminated, instrs, phis, blocks, scanVars>>

(* The pairs of the header's phis that come from outside the loop's own    *)
(* blocks now come from the preheader.                                     *)
UpdatePhis ==
  /\ pc = "phis"
  /\ LET Own == Values \X Members(blocks[loop])
         Entering == (Values \X AllBlocks) \ Own
         FromPreheader(s) == [l \in 1 .. Len(s) |-> <<s[l][1], preheader[loop]>>]
     IN  phis' = [j \in Instrs |->
                    IF j \in Members(instrs[loop]) /\ prog.op[j] = "phi"
                      THEN Kept(phis[j], Own) \o FromPreheader(Kept(phis[j], Entering))
                      ELSE phis[j]]
  /\ pc' = "rewire"
  /\ UNCHANGED <<progVars, pos, k, br, succ, pre, terminated, instrs, blocks, preheader, scanVars>>

(* Mutant: the header stays a successor of its old predecessors.           *)
MutantRewirePreds ==
  /\ pc = "rewire"
  /\ LET ph == preheader[loop]
         entering == Kept(pre[loop], AllBlocks \ prog.latches[loop])
     IN  /\ succ' = [b \in AllBlocks |->
                       CASE b \in Members(entering) -> Append(succ[b], ph)
                         [] b = ph -> <<loop>>
                         [] OTHER  -> succ[b]]
         /\ br' = [b \in AllBlocks |->
                     IF b \in Members(entering)
                       THEN [l \in 1 .. Len(br[b]) |-> IF br[b][l] = loop THEN ph ELSE br[b][l]]
                       ELSE br[b]]
         /\ pre' = [pre EXCEPT ![ph] = entering, ![loop] = Kept(@, prog.latches[loop])]
  /\ pc' = "move"
  /\ UNCHANGED <<progVars, pos, k, terminated, instrs, phis, blocks, preheader, scanVars>>

(* Every predecessor of the header that is no latch now branches to the    *)
(* preheader, and the preheader goes on to the header.                     *)
RewirePreds ==
  /\ pc = "rewire"
  /\ LET ph == preheader[loop]
         entering == Kept(pre[loop], AllBlocks \ prog.latches[loop])
     IN  /\ succ' = [b \in AllBlocks |->
                       CASE b \in Members(entering) -> Append(Kept(succ[b], AllBlocks \ {loop}), ph)
                         [] b = ph -> <<loop>>
                         [] OTHER  -> succ[b]]
         /\ br' = [b \in AllBlocks |->
                     IF b \in Members(entering)
                       THEN [l \in 1 .. Len(br[b]) |-> IF br[b][l] = loop THEN ph ELSE br[b][l]]
                       ELSE br[b]]
         /\ pre' = [pre EXCEPT ![ph] = entering, ![loop] = Kept(@, prog.latches[loop])]
  /\ pc' = "move"
  /\ UNCHANGED <<progVars, pos, k, terminated, instrs, phis, blocks, preheader, scanVars>>

(* One invariant instruction, in the order they were found.                *)
MoveInstruction ==
  /\ pc = "move" /\ k <= Len(loop_invariant)
  /\ LET j == loop_invariant[k]
     IN  instrs' = [b \in AllBlocks |->
                      IF b = preheader[loop] THEN Append(instrs[b], j) ELSE Kept(instrs[b], Instrs \ {j})]
  /\ k' = k + 1
  /\ UNCHANGED <<progVars, pc, pos, br, succ, pre, terminated, phis, blocks, preheader, scanVars>>

(* The preheader's br: BranchInst enters the edge in both lists, the       *)
(* successor a second time.  The preheader joins the parent loop.          *)
ClosePreheader ==
  /\ pc = "move" /\ k > Len(loop_invariant)
  /\ LET ph == preheader[loop]
         parent == prog.parent[loop]
     IN  /\ br' = [br EXCEPT ![ph] = <<loop>>]
         /\ succ' = [succ EXCEPT ![ph] = Append(@, loop)]
         /\ pre' = [pre EXCEPT ![loop] = Append(@, ph)]
         /\ terminated' = terminated \cup {ph}
         /\ blocks' = IF parent = nullptr THEN blocks
                      ELSE [blocks EXCEPT ![parent] = Append(@, ph)]
  /\ pos' = pos + 1
  /\ pc' = "collect"
  /\ UNCHANGED <<progVars, k, instrs, phis, preheader, scanVars>>

Finish ==
  /\ pc = "collect" /\ pos > Len(prog.loops)
  /\ pc' = "done"
  /\ UNCHANGED <<progVars, pos, k, graphVars, scanVars>>

Finished == pc = "done" /\ UNCHANGED vars

Next ==
  \/ CollectLoopInfo \/ Examine \/ ExamineAgain \/ CreatePreheader \/ UpdatePhis
  \/ RewirePreds \/ MoveInstruction \/ ClosePreheader \/ Finish \/ Finished

Spec == Init /\ [][Next]_vars

(* The pass is one thread that never blocks.                               *)
FairSpec == Spec /\ WF_vars(Next)
-----------------------------------------------------------------------------
(***************************************************************************)
(* What the pass promises.                                                 *)
(***************************************************************************)
Idle == pc \in {"collect", "done"}

(* The blocks the branches g lead to from the entry without d.             *)
ReachAvoiding(g, d) ==
  LET Within[n \in 0 .. 2 * N] ==
        IF n = 0 THEN {Entry} \ {d}
        ELSE LET R == Within[n - 1] IN R \cup ((UNION {Members(g[b]) : b \in R}) \ {d})
  IN  Within[2 * N]

Home(where, j) == CHOOSE b \in AllBlocks : j \in Members(where[b])

(* Operand v of j stands before j on every path (for a phi: before the     *)
(* branch of the block the pair names).                                    *)
Available(g, where, pairs, j, v) ==
  LET Def == Home(where, v)
      Use == Home(where, j)
      AtEnd(b) == b = Def \/ b \notin ReachAvoiding(g, Def)
  IN  IF prog.op[j] = "phi"
        THEN \A l \in 1 .. Len(pairs[j]) : pairs[j][l][1] = v => AtEnd(pairs[j][l][2])
        ELSE IF Def = Use
          THEN Before(where[Use], v, j)
          ELSE AtEnd(Use)

Operands(j) ==
  Instrs \cap (IF prog.op[j] = "phi" THEN {phis[j][l][1] : l \in 1 .. Len(phis[j])}
                                    ELSE Members(prog.args[j]))

(* In the function the pass was given.                                     *)
Encloses(h, l) == Around(prog, h, l)
Region(h) == Inside(prog, h)
OldHome(j) == Home(Padded(prog.instrs), j)

(* j was moved out of loop h.                                              *)
MovedOut(j, h) ==
  /\ OldHome(j) \in Region(h)
  /\ Home(instrs, j) = Preheader(h)
     \/ \E l \in Members(prog.loops) \ {h} : Encloses(l, h) /\ Home(instrs, j) = Preheader(l)

(* j uses v, which loop l computes, behind l but within a loop around l.   *)
LeavesLoop(v, j) ==
  \E h, l \in Members(prog.loops) :
    /\ OldHome(v) \in Members(prog.blocks[l]) /\ Encloses(h, l)
    /\ OldHome(j) \in Region(h) \ Region(l)

(* Every use still comes after its definition, but where a loop uses what  *)
(* a loop inside it computed: nothing else breaks SSA form.                *)
OnlyNestedUsesBreak ==
  pc = "done" =>
    \A j \in Instrs : \A v \in Operands(j) :
      Available(br, instrs, phis, j, v) \/ LeavesLoop(v, j)

(* Between two loops the three records of an edge agree, an edge is listed *)
(* once as incoming, the preheaders without a branch are cut off, and a    *)
(* phi has no two pairs for a predecessor of its block, none for another   *)
(* block, and as many as it had.                                           *)
GraphConsistent ==
  /\ TypeOK
  /\ Idle =>
    /\ \A b \in AllBlocks :
         /\ Members(succ[b]) = Members(br[b])
         /\ IsInjective(pre[b])
         /\ Members(pre[b]) = {p \in AllBlocks : b \in Members(succ[p])}
         /\ b \notin terminated => pre[b] = << >> /\ succ[b] = << >>
    /\ PhisOf(instrs, pre, phis, prog)
    /\ \A j \in Instrs : Len(phis[j]) = Len(prog.phis[j])

(* A load never leaves a loop whose own blocks store through its pointer.  *)
LoadsStayWithStores ==
  pc = "done" =>
    \A h \in Members(prog.loops), j, l \in Instrs :
      /\ prog.op[j] = "load" /\ prog.op[l] = "store"
      /\ prog.args[l][2] = prog.args[j][1]
      /\ OldHome(l) \in Members(prog.blocks[h])
      => ~ MovedOut(j, h)

(* The pass always stops.                                                  *)
Termination == <>(pc = "done")

(* LICM.cpp:47-48, 96: the operands of what is moved are invariant in the  *)
(* loop and its sub-loops: each is still computed before it is used.       *)
MovedOperandsComputed ==
  pc = "done" =>
    \A j \in Instrs : \A v \in Operands(j) : Available(br, instrs, phis, j, v)

(* LICM.cpp:47-50, 91: a load is moved only out of a loop in which nothing *)
(* writes what it reads, neither a store nor an impure call.               *)
MovedLoadsUnwritten ==
  pc = "done" =>
    \A h \in Members(prog.loops), j, l \in Instrs :
      /\ prog.op[j] = "load" /\ prog.args[j][1] = global
      /\ OldHome(l) \in Region(h)
      /\ \/ prog.op[l] = "impure_call"
         \/ prog.op[l] = "store" /\ prog.args[l][2] = global
      => ~ MovedOut(j, h)

(* What run_on_loop's comments promise of all it moves: it is invariant.   *)
MovedIsInvariant == MovedOperandsComputed /\ MovedLoadsUnwritten
=============================================================================

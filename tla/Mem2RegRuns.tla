----------------------------- MODULE Mem2RegRuns -----------------------------
(***************************************************************************)
(* What Mem2Reg is for: when the pass is done the function before it and   *)
(* the function after it are run side by side along every path.  The old   *)
(* one keeps its locals in memory; the new one has phis, which all take    *)
(* their values together on the way into a block, as LLVM defines them.    *)
(* The code generator instead copies one phi after the other into their    *)
(* stack slots (CodeGen::copy_stmt): both are followed.                    *)
(***************************************************************************)
EXTENDS Mem2Reg

VARIABLES
  at,                   \* block and instruction both runs are at
  mem,                  \* old function: what each variable holds
  orig,                 \* old function: what each load gave
  env,                  \* new function: what each phi holds, as LLVM runs it
  slots                 \* new function: what each phi's stack slot holds

runVars == <<at, mem, orig, env, slots>>
allVars == <<vars, runVars>>

Held == {Const(j) : j \in Instrs} \cup {undef}
Phis == Blocks \X Vars

(* The pass and the two runs keep their types.                             *)
RunTypeOK ==
  /\ TypeOK
  /\ at \in Blocks \X (Nat \ {0})
  /\ mem \in [Vars -> Held] /\ orig \in [Instrs -> Held]
  /\ env \in [Phis -> Held] /\ slots \in [Phis -> Held]

RunInit ==
  /\ Init
  /\ at = <<Entry, 1>>
  /\ mem = [v \in Vars |-> undef] /\ orig = [j \in Instrs |-> undef]
  /\ env = [p \in Phis |-> undef] /\ slots = [p \in Phis |-> undef]

(* A value in the old function, and in the new one: an uninitialised local *)
(* is undef, and so is a load that the pass has left without its stores.   *)
Before(x) == IF x[1] = "load" THEN orig[x[2]] ELSE x
After(x, phi) ==
  IF x[1] = "phi" THEN phi[<<x[2], x[3]>>] ELSE IF x[1] = "const" THEN x ELSE undef

NextInstr == prog.body[at[1]][at[2]]
Inside == pc = "done" /\ at[2] <= Len(prog.body[at[1]])

RunLoad ==
  /\ Inside /\ prog.op[NextInstr] = "load"
  /\ orig' = [orig EXCEPT ![NextInstr] = mem[prog.var[NextInstr]]]
  /\ at' = <<at[1], at[2] + 1>>
  /\ UNCHANGED <<vars, mem, env, slots>>

RunStore ==
  /\ Inside /\ prog.op[NextInstr] = "store"
  /\ mem' = [mem EXCEPT ![prog.var[NextInstr]] = Before(prog.rval[NextInstr])]
  /\ at' = <<at[1], at[2] + 1>>
  /\ UNCHANGED <<vars, orig, env, slots>>

(* The operand a phi has for predecessor p, undef if it has none.          *)
Incoming(b, v, p) ==
  LET found == {l \in 1 .. Len(pairs[<<b, v>>]) : pairs[<<b, v>>][l][2] = p}
  IN  IF found = {} THEN undef ELSE pairs[<<b, v>>][CHOOSE l \in found : TRUE][1]

(* The values of the phis of c on the edge from p.                         *)
PhisTakeValues(p, c) ==
  [q \in Phis |-> IF q[1] = c /\ HasPhi(c, q[2]) THEN After(Incoming(c, q[2], p), env) ELSE env[q]]

(* copy_stmt: before p branches, the phis of each of its successors are    *)
(* copied in list order; nothing is done for undef.                        *)
CopyPhi(s, p, c, v) ==
  IF Incoming(c, v, p) = undef THEN s ELSE [s EXCEPT ![<<c, v>>] = After(Incoming(c, v, p), s)]

CopyPhis(s, p, c) ==
  LET Copied[n \in 0 .. Len(phis[c])] ==
        IF n = 0 THEN s ELSE CopyPhi(Copied[n - 1], p, c, phis[c][n])
  IN  Copied[Len(phis[c])]

(* Mutant: only the phis of the first successor are copied.                *)
Mutant_copy_stmt(p) ==
  IF prog.cfg.succ[p] = << >> THEN slots ELSE CopyPhis(slots, p, Head(prog.cfg.succ[p]))

copy_stmt(p) ==
  LET Copied[n \in 0 .. Len(prog.cfg.succ[p])] ==
        IF n = 0 THEN slots ELSE CopyPhis(Copied[n - 1], p, prog.cfg.succ[p][n])
  IN  Copied[Len(prog.cfg.succ[p])]

RunBranch ==
  /\ pc = "done" /\ at[2] > Len(prog.body[at[1]])
  /\ \E c \in Members(prog.cfg.succ[at[1]]) :
       /\ env' = PhisTakeValues(at[1], c)
       /\ at' = <<c, 1>>
  /\ slots' = copy_stmt(at[1])
  /\ UNCHANGED <<vars, mem, orig>>

Returned == pc = "done" /\ at[2] > Len(prog.body[at[1]]) /\ prog.cfg.succ[at[1]] = << >>

RunNext ==
  \/ Next /\ UNCHANGED runVars
  \/ RunLoad \/ RunStore \/ RunBranch
  \/ Returned /\ UNCHANGED allVars

RunSpec == RunInit /\ [][RunNext]_allVars

(* The pass is one thread that never blocks; the runs may stop anywhere.   *)
FairRunSpec == RunSpec /\ WF_allVars(Next /\ UNCHANGED runVars)
-----------------------------------------------------------------------------
(* What uses a load gets, in the new function, the value that the load     *)
(* would have read from memory, unless the local is uninitialised.         *)
LoadsSeeMemory ==
  /\ RunTypeOK
  /\ Inside /\ prog.op[NextInstr] = "load" /\ mem[prog.var[NextInstr]] # undef
    => After(uses[NextInstr], env) = mem[prog.var[NextInstr]]

(* In the machine code a phi for an initialised local holds, on entry to   *)
(* its block, what memory holds: "for phi, just convert to a series of     *)
(* copy-stmts".  FALSE of the code when one phi feeds another.             *)
SlotsHoldMemory ==
  pc = "done" /\ at[2] = 1 =>
    \A v \in Members(phis[at[1]]) : mem[v] # undef => slots[<<at[1], v>>] = mem[v]

(* It holds where no phi has another phi of its block as an operand: the   *)
(* copies for a successor that is not taken do no harm.                    *)
PhiFeedsAnother ==
  \E b \in Blocks : \E v, w \in Members(phis[b]) :
    v # w /\ \E l \in 1 .. Len(pairs[<<b, v>>]) : pairs[<<b, v>>][l][1] = Phi(b, w)

SlotsHoldUnlessFed == PhiFeedsAnother \/ SlotsHoldMemory
=============================================================================

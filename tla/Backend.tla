------------------------------- MODULE Backend -------------------------------
(***************************************************************************)
(* A function is compiled to assembly, and the assembly executed on one    *)
(* choice of arguments: CodeGen and LoongArch together.  What they do is   *)
(* to be what IRMachine says of the function; the refinement mapping reads *)
(* the IR's values off the frame, and its memory off the machine's.        *)
(***************************************************************************)
EXTENDS LoongArch, Objects

CONSTANTS
  Functions,             \* the functions to be compiled
  IntInputs, FloatInputs \* what their parameters are run on

(***************************************************************************)
(* What is compiled.  The constructors of the IR see to the operands an    *)
(* operation has and to their types; an operand is a constant, a global or *)
(* a value of the function; constants are words, an array has less bytes   *)
(* than a word can count; there are blocks, all with code, and branches go *)
(* to blocks.                                                              *)
(***************************************************************************)
IsSeq(s)  == s \in Seq({s[k] : k \in DOMAIN s})
InWord(n) == n \in -(2 ^ (WordBits - 1)) .. 2 ^ (WordBits - 1) - 1
Scalars   == DOMAIN ScalarSize
Allocatable(ty) ==
  \/ ty.t \in Scalars
  \/ ty.t = "array" /\ ty.of.t \in Scalars /\ ty.n \in Nat /\ InWord(get_size(ty))
IsOperand(v, f) ==
  IF "c" \in DOMAIN v THEN v.ty.t \in Scalars /\ InWord(v.c)
  ELSE IF "g" \in DOMAIN v THEN v.ty.t = "ptr"
  ELSE \/ \E k \in DOMAIN f.params : v = Arg(k, f.params[k])
       \/ \E p \in Code(f) : ~ is_void(InsAt(f, p)) /\ v = Inst(p, InsAt(f, p).ty)
OperandsNeeded(ins) ==
  CASE ins.op \in IntBinary \cup FloatBinary \cup IntCompare \cup FloatCompare \cup {"store"} -> 2
    [] ins.op \in {"load", "getelementptr", "zext", "sitofp", "fptosi", "call"} -> 1
    [] OTHER -> 0
FormedInstruction(ins, f) ==
  /\ WellFormed(ins, f.ret)
  /\ IsSeq(ins.args) /\ Len(ins.args) >= OperandsNeeded(ins)
  /\ \A k \in DOMAIN ins.args : IsOperand(ins.args[k], f) \/ (ins.op = "call" /\ k = 1)
  /\ ~ is_void(ins) => ins.ty.t \in Scalars
  /\ ins.op = "alloca" => Allocatable(Elem(ins.ty))
  /\ ins.op = "getelementptr" => Allocatable(Elem(ins.args[1].ty))
  /\ ins.op = "br" => \A k \in 1 .. IF ins.args = << >> THEN 1 ELSE 2 : ins.to[k] \in DOMAIN f.blocks
Formed(f) ==
  /\ IsSeq(f.params) /\ \A k \in DOMAIN f.params : f.params[k].t \in Scalars
  /\ IsSeq(f.blocks) /\ f.blocks # << >>
  /\ \A b \in DOMAIN f.blocks :
       /\ IsSeq(f.blocks[b].code) /\ f.blocks[b].code # << >>
       /\ \A k \in DOMAIN f.blocks[b].code : FormedInstruction(f.blocks[b].code[k], f)

ASSUME FunctionsFormed == \A f \in Functions : Formed(f)

(* allocate() keeps an offset in an int: the frame is no larger than that. *)
ASSUME FramesFit == \A f \in Functions : Footprint(Values(f)) <= 2 ^ (WordBits - 1)

(* An immediate holds -16, where $fp is saved; and what a power of two is, *)
(* which the provers do not know.                                          *)
ASSUME WidthsFit ==
  /\ LO >= 5
  /\ 2 ^ 0 = 1 /\ \A n \in 0 .. DoubleBits : 2 ^ (n + 1) = 2 * 2 ^ n

VARIABLES
  actuals,               \* the arguments, as values of the IR
  ret_at                 \* history: the ret instruction that was reached

vars == <<codegen, loongarch, actuals, ret_at>>

(* The caller: its registers, and an array for each pointer it passes.     *)
EntrySp == 1024
EntryFp == 1040
EntryRa == 5
Heap(k) == 1200 + 64 * k
Raw(val) == IF "n" \in DOMAIN val THEN val.n ELSE Heap(val.obj.a)

Possible(k, ty) == CASE ty.t = "ptr" -> {Pointer(Arg(k, ty), 0)}
                    [] ty = Int32   -> {Number(n) : n \in IntInputs}
                    [] ty = Float   -> {Number(n) : n \in FloatInputs}
Actuals(f) ==
  LET any == UNION {Possible(k, f.params[k]) : k \in DOMAIN f.params}
  IN {vals \in [DOMAIN f.params -> any] : \A k \in DOMAIN vals : vals[k] \in Possible(k, f.params[k])}

(* The objects of the IR in the memory of the machine.                     *)
Base(obj) == CASE "a" \in DOMAIN obj -> Heap(obj.a)
               [] "g" \in DOMAIN obj -> Symbols[obj]
               [] "i" \in DOMAIN obj -> EntrySp + Offset(obj) - get_size(Elem(obj.ty))
Contents(obj) == [at \in {Base(obj) + c[2] : c \in CellsOf(obj)} |-> [size |-> Step(obj), val |-> 0]]

Init ==
  /\ \E f \in Functions : GenerateInit(f)
  /\ actuals \in Actuals(func)
  /\ reg = [x \in General \cup Floating |->
              LET mine == {k \in DOMAIN actuals :
                    x = IF func.params[k] = Float THEN fa(Nth(func.params, k)) ELSE a(Nth(func.params, k))}
              IN CASE x = "zero" -> 0
                   [] x = "sp" -> EntrySp
                   [] x = "fp" -> EntryFp
                   [] x = "ra" -> EntryRa
                   [] mine # {} -> Raw(actuals[CHOOSE k \in mine : TRUE])
                   [] OTHER -> Garbage]
  /\ memory = FoldSet(LAMBDA obj, mem : Contents(obj) @@ mem, << >>, Globals(func) \cup ArrayArgs(func))
  /\ pc = 1 /\ called = << >> /\ running = "code" /\ ret_at = <<1, 1>>

Compile == Generate /\ UNCHANGED <<loongarch, actuals, ret_at>>

Execute ==
  /\ Generated /\ StepMachine
  /\ ret_at' = IF Line.op = "b" /\ Line.to = func_exit_label_name THEN Line.of ELSE ret_at
  /\ UNCHANGED <<codegen, actuals>>

Over     == running \in {"done", "exited"}
Finished == Over /\ UNCHANGED vars

Next == Compile \/ Execute \/ Finished
Spec == Init /\ [][Next]_vars /\ WF_vars(Execute)

-----------------------------------------------------------------------------
(***************************************************************************)
(* The mapping.  A value of the IR is what its slot holds, a cell of an    *)
(* object what its address holds; the instruction being executed is the    *)
(* one the line at pc was generated for, and an instruction is over when   *)
(* the last of its lines is.                                               *)
(***************************************************************************)
Interpret(ty, raw) ==
  IF ty.t # "ptr" THEN Number(raw)
  ELSE LET within == {obj \in Objects(func) : Base(obj) <= raw /\ raw < Base(obj) + Extent(obj)}
       IN IF within = {} THEN Undefined
          ELSE LET obj == CHOOSE o \in within : TRUE IN Pointer(obj, raw - Base(obj))
ValueAt(addr, ty) ==
  IF addr \notin DOMAIN memory THEN Undefined
  ELSE IF memory[addr].size # get_size(ty) THEN Undefined ELSE Interpret(ty, memory[addr].val)

CellType(obj) == IF Elem(obj.ty).t = "array" THEN Elem(obj.ty).of ELSE Elem(obj.ty)
Computing == Generated /\ Line.of[1] \in DOMAIN func.blocks /\ Line.of[2] > 0

Position == CASE ~ Generated \/ Line.of[2] = 0 -> <<1, 1>>
              [] Computing -> Line.of
              [] OTHER     -> ret_at
Env == [p \in Code(func) |->
          IF is_void(InsAt(func, p)) \/ ~ Generated THEN Undefined
          ELSE LET v == Inst(p, InsAt(func, p).ty) IN ValueAt(EntrySp + Offset(v), v.ty)]
Mem == [c \in UNION {CellsOf(o) : o \in Objects(func)} |->
          IF "i" \in DOMAIN c[1] /\ ~ Generated THEN Undefined
          ELSE ValueAt(Base(c[1]) + c[2], CellType(c[1]))]
Called == [k \in DOMAIN called |->
             LET types == (CHOOSE i \in DOMAIN output : output[i].op = "bl" /\ output[i].to.f = called[k].name)
             IN [name |-> called[k].name, reply |-> Number(called[k].reply),
                 args |-> [i \in DOMAIN called[k].args |->
                             Interpret(output[types].to.ty.params[i], called[k].args[i])]]]
CallMade == \E i \in DOMAIN output : i < pc /\ output[i].of = Line.of /\ output[i].op = "bl"
Status == CASE Over -> running
            [] running = "callee" \/ (Computing /\ CallMade) -> "calling"
            [] OTHER -> "running"
Returned ==
  IF running # "done" \/ func.ret = Void THEN Undefined
  ELSE Interpret(func.ret, reg[IF func.ret = Float THEN "fa0" ELSE "a0"])

Meaning == INSTANCE IRMachine WITH
  fun <- func, args <- actuals, at <- Position, env <- Env, mem <- Mem,
  calls <- Called, status <- Status, returned <- Returned

(* The assembly computes what the IR says, instruction by instruction:     *)
(* every value, every cell of memory, every call and the result; what goes *)
(* on in registers and frame between two instructions does not show.       *)
RefinesIR == Meaning!IRSpec

(***************************************************************************)
(* The assembler can encode every line: immediates have the width of their *)
(* field, and every target is the name of one label.                       *)
(***************************************************************************)
Fits(line) ==
  CASE line.op \in {"lu12i.w", "lu32i.d"} -> line.imm = Signed(line.imm, HI)
    [] line.op \in {"ori", "xori"}        -> line.imm \in 0 .. 2 ^ LO - 1
    [] OTHER                              -> IS_IMM_12(line.imm)
Named(l) == {i \in DOMAIN output : output[i].op = "label" /\ output[i].to = l}
Encodable ==
  /\ \A i \in DOMAIN output : Fits(output[i])
  /\ Generated => \A i \in DOMAIN output :
       output[i].op \in {"label", "b", "bne", "bcnez"} => Cardinality(Named(output[i].to)) = 1

(***************************************************************************)
(* The frame: while instructions are executed $fp is where $sp was on      *)
(* entry and $sp is below all slots, aligned; on return $sp, $fp and $ra   *)
(* are the caller's again, and nothing of the caller's stack was touched.  *)
(***************************************************************************)
FrameKept ==
  /\ Computing => reg["fp"] = EntrySp /\ reg["sp"] = EntrySp - frame_size
  /\ reg["sp"] % 16 = 0
  /\ running = "done" => reg["sp"] = EntrySp /\ reg["fp"] = EntryFp /\ reg["ra"] = EntryRa
  /\ \A addr \in DOMAIN memory : addr < EntrySp \/ addr >= Heap(1)

(* Every function that is run returns, or leaves on a bad index.           *)
Termination == Generated ~> Over
=============================================================================

------------------------------- MODULE CodeGen -------------------------------
(***************************************************************************)
(* CodeGen (src/src/codegen/CodeGen.cpp) on one function without phis: the *)
(* frame is laid out, then the prologue, each instruction and the epilogue *)
(* are turned into LoongArch assembly.  Every result lives in its slot;    *)
(* registers carry a value from its slot through one instruction.          *)
(***************************************************************************)
EXTENDS IR, Words, StackFrame

VARIABLES
  func,                  \* context.func
  next,                  \* the instruction to be translated: its block, its place
  output,                \* the assembly so far
  fcmp_cnt               \* context.fcmp_cnt

codegen == <<frame, func, next, output, fcmp_cnt>>

(***************************************************************************)
(* Assembly: an operation, its registers, an immediate, a target.  Labels  *)
(* are lines of their own.  Every line names the instruction it is for.    *)
(***************************************************************************)
Nowhere == [none |-> 0]
Asm(op, regs, imm)   == [op |-> op, regs |-> regs, imm |-> imm, to |-> Nowhere, of |-> << >>]
To(op, regs, target) == [Asm(op, regs, 0) EXCEPT !.to = target]
Label(l)             == To("label", << >>, l)
label_name(block)     == [block |-> block]
func_exit_label_name  == [exit |-> 0]
fcmp_label_name(block, cnt) == [block |-> block, fcmp |-> cnt]

a(i)  == <<"a0", "a1", "a2", "a3", "a4", "a5", "a6", "a7">>[i + 1]
fa(i) == <<"fa0", "fa1", "fa2", "fa3", "fa4", "fa5", "fa6", "fa7">>[i + 1]

IMM_12_MAX == 2 ^ (LO - 1) - 1
IMM_12_MIN == -(2 ^ (LO - 1))
IS_IMM_12(x) == x <= IMM_12_MAX /\ x >= IMM_12_MIN

Concat(codes) ==
  LET upto[k \in 0 .. Len(codes)] == IF k = 0 THEN << >> ELSE upto[k - 1] \o codes[k]
  IN upto[Len(codes)]

(* The values that get a slot: the arguments and what is not void.         *)
Slot(v, space) == [val |-> v, size |-> get_size(v.ty), space |-> space]
Results(block, b) ==
  Concat([k \in DOMAIN block.code |->
            LET ins == block.code[k] IN
            IF is_void(ins) THEN << >>
            ELSE <<Slot(Inst(<<b, k>>, ins.ty), IF ins.op = "alloca" THEN get_size(Elem(ins.ty)) ELSE 0)>>])
Values(f) == [k \in DOMAIN f.params |-> Slot(Arg(k, f.params[k]), 0)]
             \o Concat([b \in DOMAIN f.blocks |-> Results(f.blocks[b], b)])

Offset(v) == offset_map[CHOOSE i \in DOMAIN order : order[i].val = v]

(***************************************************************************)
(* Constants and slots to and from registers.                              *)
(***************************************************************************)
load_large_int32(val, reg) ==
  <<Asm("lu12i.w", <<reg>>, val \div 2 ^ LO), Asm("ori", <<reg, reg>>, val % 2 ^ LO)>>

load_large_int64(val, reg) ==
  LET high == Word(val \div 2 ^ WordBits)
  IN load_large_int32(Word(val), reg)
     \o <<Asm("lu32i.d", <<reg>>, Signed(high, HI)), Asm("lu52i.d", <<reg, reg>>, high \div 2 ^ HI)>>

LOAD  == [i1 |-> "ld.b", i32 |-> "ld.w", ptr |-> "ld.d", float |-> "fld.s"]
STORE == [i1 |-> "st.b", i32 |-> "st.w", ptr |-> "st.d", float |-> "fst.s"]

(* At an offset from $fp, through addr when the offset is not immediate.   *)
AtSlot(op, v, reg, addr) ==
  IF IS_IMM_12(Offset(v)) THEN <<Asm(op[v.ty.t], <<reg, "fp">>, Offset(v))>>
  ELSE load_large_int64(Offset(v), addr)
       \o <<Asm("add.d", <<addr, "fp", addr>>, 0), Asm(op[v.ty.t], <<reg, addr>>, 0)>>

load_from_stack_to_greg(v, reg) == AtSlot(LOAD, v, reg, reg)
store_from_greg(v, reg)         == AtSlot(STORE, v, reg, "t8")
store_from_freg(v, reg)         == AtSlot(STORE, v, reg, "t8")

load_to_greg(v, reg) ==
  CASE "c" \in DOMAIN v -> IF IS_IMM_12(v.c) THEN <<Asm("addi.w", <<reg, "zero">>, v.c)>>
                                             ELSE load_large_int32(v.c, reg)
    [] "g" \in DOMAIN v -> <<To("la.local", <<reg>>, v)>>
    [] OTHER            -> load_from_stack_to_greg(v, reg)

load_float_imm(val, reg) ==
  load_large_int32(val, "t8") \o <<Asm("movgr2fr.w", <<reg, "t8">>, 0)>>

load_to_freg(v, reg) ==
  IF "c" \in DOMAIN v THEN load_float_imm(v.c, reg) ELSE AtSlot(LOAD, v, reg, "t8")

(* Arguments: the k-th of its kind, float or not, has the k-th register.   *)
Nth(types, k) == Len(SelectSeq(SubSeq(types, 1, k - 1), LAMBDA ty : (ty = Float) = (types[k] = Float)))

(***************************************************************************)
(* run(): allocate(), gen_prologue(), then block after block, instruction  *)
(* after instruction, and gen_epilogue().                                  *)
(***************************************************************************)
GenerateInit(f) ==
  /\ func = f /\ Begin(Values(f))
  /\ next = <<1, 0>> /\ output = << >> /\ fcmp_cnt = 0

Allocate == allocate /\ UNCHANGED <<func, next, output, fcmp_cnt>>

Instr == func.blocks[next[1]].code[next[2]]
Op(k) == Instr.args[k]
Result == Inst(next, Instr.ty)

Lines(code) == output' = output \o [i \in DOMAIN code |-> [code[i] EXCEPT !.of = next]]

(* The frame is opened: $fp is where $sp was.                              *)
Save == <<Asm("st.d", <<"ra", "sp">>, -8), Asm("st.d", <<"fp", "sp">>, -16)>>

(* Mutant: $fp is taken when $sp has moved already.                        *)
MutantEnter ==
  IF IS_IMM_12(-frame_size)
  THEN Save \o <<Asm("addi.d", <<"sp", "sp">>, -frame_size), Asm("addi.d", <<"fp", "sp">>, 0)>>
  ELSE load_large_int64(frame_size, "t0") \o Save
       \o <<Asm("sub.d", <<"sp", "sp", "t0">>, 0), Asm("add.d", <<"fp", "sp", "t0">>, 0)>>

Enter ==
  IF IS_IMM_12(-frame_size)
  THEN Save \o <<Asm("addi.d", <<"fp", "sp">>, 0), Asm("addi.d", <<"sp", "sp">>, -frame_size)>>
  ELSE load_large_int64(frame_size, "t0") \o Save
       \o <<Asm("sub.d", <<"sp", "sp", "t0">>, 0), Asm("add.d", <<"fp", "sp", "t0">>, 0)>>

gen_prologue ==
  /\ frame_size # 0 /\ next = <<1, 0>>
  /\ LET types == func.params
         params == [k \in DOMAIN types |->
                      IF types[k] = Float THEN store_from_freg(Arg(k, types[k]), fa(Nth(types, k)))
                                          ELSE store_from_greg(Arg(k, types[k]), a(Nth(types, k)))]
     IN Lines(Enter \o Concat(params))
  /\ next' = <<1, 1>>
  /\ UNCHANGED <<frame, func, fcmp_cnt>>

Translating(ops) == next[2] > 0 /\ next[1] \in DOMAIN func.blocks /\ Instr.op \in ops

(* The block's label comes before its first instruction.                   *)
Emit(code) ==
  /\ Lines((IF next[2] = 1 THEN <<Label(label_name(next[1]))>> ELSE << >>) \o code)
  /\ next' = IF next[2] < Len(func.blocks[next[1]].code) THEN <<next[1], next[2] + 1>>
                                                         ELSE <<next[1] + 1, 1>>
  /\ UNCHANGED <<frame, func>>

gen_ret ==
  /\ Translating({"ret"})
  /\ Emit((CASE func.ret = Void  -> <<Asm("addi.w", <<"a0", "zero">>, 0)>>
             [] func.ret = Float -> load_to_freg(Op(1), "fa0")
             [] OTHER            -> load_to_greg(Op(1), "a0"))
          \o <<To("b", << >>, func_exit_label_name)>>)
  /\ UNCHANGED fcmp_cnt

(* Mutant: the branch not taken goes where the other goes.                 *)
MutantBr ==
  /\ Translating({"br"})
  /\ Emit(IF Instr.args = << >> THEN <<To("b", << >>, label_name(Instr.to[1]))>>
          ELSE load_to_greg(Op(1), "t0")
               \o <<Asm("bstrpick.d", <<"t0", "t0">>, 0),
                    To("bne", <<"t0", "zero">>, label_name(Instr.to[1])),
                    To("b", << >>, label_name(Instr.to[1]))>>)
  /\ UNCHANGED fcmp_cnt

gen_br ==
  /\ Translating({"br"})
  /\ Emit(IF Instr.args = << >> THEN <<To("b", << >>, label_name(Instr.to[1]))>>
          ELSE load_to_greg(Op(1), "t0")
               \o <<Asm("bstrpick.d", <<"t0", "t0">>, 0),
                    To("bne", <<"t0", "zero">>, label_name(Instr.to[1])),
                    To("b", << >>, label_name(Instr.to[2]))>>)
  /\ UNCHANGED fcmp_cnt

gen_binary ==
  /\ Translating(IntBinary)
  /\ Emit(load_to_greg(Op(1), "t0") \o load_to_greg(Op(2), "t1")
          \o <<Asm([add |-> "add.w", sub |-> "sub.w", mul |-> "mul.w", sdiv |-> "div.w"][Instr.op],
                   <<"t2", "t0", "t1">>, 0)>>
          \o store_from_greg(Result, "t2"))
  /\ UNCHANGED fcmp_cnt

gen_float_binary ==
  /\ Translating(FloatBinary)
  /\ Emit(load_to_freg(Op(1), "ft0") \o load_to_freg(Op(2), "ft1")
          \o <<Asm([fadd |-> "fadd.s", fsub |-> "fsub.s", fmul |-> "fmul.s", fdiv |-> "fdiv.s"][Instr.op],
                   <<"ft2", "ft0", "ft1">>, 0)>>
          \o store_from_freg(Result, "ft2"))
  /\ UNCHANGED fcmp_cnt

(* The space lies right below the slot.                                    *)
(* Mutant: it is taken to begin at the slot.                               *)
MutantSpace(v) == Offset(v)
Space(v) == Offset(v) - get_size(Elem(v.ty))

gen_alloca ==
  /\ Translating({"alloca"})
  /\ Emit((IF IS_IMM_12(Space(Result)) THEN <<Asm("addi.d", <<"t0", "fp">>, Space(Result))>>
           ELSE load_large_int32(Space(Result), "t0") \o <<Asm("add.d", <<"t0", "fp", "t0">>, 0)>>)
          \o store_from_greg(Result, "t0"))
  /\ UNCHANGED fcmp_cnt

gen_load ==
  /\ Translating({"load"})
  /\ Emit(load_to_greg(Op(1), "t0")
          \o (IF Instr.ty = Float
              THEN <<Asm("fld.s", <<"ft0", "t0">>, 0)>> \o store_from_freg(Result, "ft0")
              ELSE <<Asm(LOAD[Instr.ty.t], <<"t0", "t0">>, 0)>> \o store_from_greg(Result, "t0")))
  /\ UNCHANGED fcmp_cnt

gen_store ==
  /\ Translating({"store"})
  /\ Emit(load_to_greg(Op(2), "t0")
          \o (IF Op(1).ty = Float THEN load_to_freg(Op(1), "ft0") \o <<Asm("fst.s", <<"ft0", "t0">>, 0)>>
              ELSE load_to_greg(Op(1), "t1") \o <<Asm(STORE[Op(1).ty.t], <<"t1", "t0">>, 0)>>))
  /\ UNCHANGED fcmp_cnt

(* Only "less than" is there: the others swap, negate or go through xor.   *)
Slt(l, r) == Asm("slt", <<"t2", l, r>>, 0)
Not       == Asm("xori", <<"t2", "t2">>, 1)
Differ    == Asm("xor", <<"t2", "t0", "t1">>, 0)
gen_icmp ==
  /\ Translating(IntCompare)
  /\ Emit(load_to_greg(Op(1), "t0") \o load_to_greg(Op(2), "t1")
          \o (CASE Instr.op = "ge" -> <<Slt("t0", "t1"), Not>>
                [] Instr.op = "gt" -> <<Slt("t1", "t0")>>
                [] Instr.op = "le" -> <<Slt("t1", "t0"), Not>>
                [] Instr.op = "lt" -> <<Slt("t0", "t1")>>
                [] Instr.op = "eq" -> <<Differ, Asm("sltui", <<"t2", "t2">>, 1)>>
                [] Instr.op = "ne" -> <<Differ, Asm("sltu", <<"t2", "zero", "t2">>, 0)>>)
          \o store_from_greg(Result, "t2"))
  /\ UNCHANGED fcmp_cnt

(* The flag becomes a number over a branch around "addi.w $t0, $zero, 0".  *)
gen_fcmp ==
  /\ Translating(FloatCompare)
  /\ LET fcmp(c, l, r) == <<Asm(c, <<"fcc0", l, r>>, 0)>>
         skip == fcmp_label_name(next[1], fcmp_cnt)
     IN Emit(load_to_freg(Op(1), "ft0") \o load_to_freg(Op(2), "ft1")
             \o (CASE Instr.op = "fge" -> fcmp("fcmp.sle.s", "ft1", "ft0")
                   [] Instr.op = "fgt" -> fcmp("fcmp.slt.s", "ft1", "ft0")
                   [] Instr.op = "fle" -> fcmp("fcmp.sle.s", "ft0", "ft1")
                   [] Instr.op = "flt" -> fcmp("fcmp.slt.s", "ft0", "ft1")
                   [] Instr.op = "feq" -> fcmp("fcmp.seq.s", "ft0", "ft1")
                   [] Instr.op = "fne" -> fcmp("fcmp.sne.s", "ft0", "ft1"))
             \o <<Asm("addi.w", <<"t0", "zero">>, 1), To("bcnez", <<"fcc0">>, skip),
                  Asm("addi.w", <<"t0", "zero">>, 0), Label(skip)>>
             \o store_from_greg(Result, "t0"))
  /\ fcmp_cnt' = fcmp_cnt + 1

gen_zext ==
  /\ Translating({"zext"})
  /\ Emit(load_to_greg(Op(1), "t0") \o <<Asm("bstrpick.w", <<"t0", "t0">>, 0)>>
          \o store_from_greg(Result, "t0"))
  /\ UNCHANGED fcmp_cnt

gen_call ==
  /\ Translating({"call"})
  /\ LET types == Op(1).ty.params
         args == [k \in DOMAIN types |->
                    IF types[k] = Float THEN load_to_freg(Op(k + 1), fa(Nth(types, k)))
                                        ELSE load_to_greg(Op(k + 1), a(Nth(types, k)))]
     IN Emit(Concat(args) \o <<To("bl", << >>, Op(1))>>
             \o (CASE Instr.ty = Void  -> << >>
                   [] Instr.ty = Float -> store_from_freg(Result, "fa0")
                   [] OTHER            -> store_from_greg(Result, "a0")))
  /\ UNCHANGED fcmp_cnt

(* $t0 += index * size, once for each index; behind the first an array's   *)
(* size becomes that of its elements.                                      *)
gen_gep ==
  /\ Translating({"getelementptr"})
  /\ LET whole == Elem(Op(1).ty)
         Type(k) == IF k > 2 /\ whole.t = "array" THEN whole.of ELSE whole
         size(k) == get_size(Type(k))
         far(k)  == load_to_greg(Op(k), "t1")
                    \o (IF IS_IMM_12(size(k)) THEN <<Asm("addi.d", <<"t2", "zero">>, size(k))>>
                        ELSE load_large_int64(size(k), "t2"))
                    \o <<Asm("mul.d", <<"t1", "t1", "t2">>, 0), Asm("add.d", <<"t0", "t0", "t1">>, 0)>>
     IN Emit(load_to_greg(Op(1), "t0")
             \o Concat([k \in 1 .. Len(Instr.args) - 1 |-> far(k + 1)])
             \o store_from_greg(Result, "t0"))
  /\ UNCHANGED fcmp_cnt

gen_sitofp ==
  /\ Translating({"sitofp"})
  /\ Emit(load_to_greg(Op(1), "t0")
          \o <<Asm("movgr2fr.w", <<"ft0", "t0">>, 0), Asm("ffint.s.w", <<"ft0", "ft0">>, 0)>>
          \o store_from_freg(Result, "ft0"))
  /\ UNCHANGED fcmp_cnt

gen_fptosi ==
  /\ Translating({"fptosi"})
  /\ Emit(load_to_freg(Op(1), "ft0")
          \o <<Asm("ftintrz.w.s", <<"ft0", "ft0">>, 0), Asm("movfr2gr.s", <<"t0", "ft0">>, 0)>>
          \o store_from_greg(Result, "t0"))
  /\ UNCHANGED fcmp_cnt

(* Mutant: whether the size fits is asked as in the prologue.              *)
MutantClose ==
  IF IS_IMM_12(-frame_size) THEN <<Asm("addi.d", <<"sp", "sp">>, frame_size)>>
  ELSE load_large_int64(frame_size, "t0") \o <<Asm("add.d", <<"sp", "sp", "t0">>, 0)>>

Close ==
  IF IS_IMM_12(frame_size) THEN <<Asm("addi.d", <<"sp", "sp">>, frame_size)>>
  ELSE load_large_int64(frame_size, "t0") \o <<Asm("add.d", <<"sp", "sp", "t0">>, 0)>>

gen_epilogue ==
  /\ next[1] = Len(func.blocks) + 1
  /\ Lines(<<Label(func_exit_label_name)>> \o Close
           \o <<Asm("ld.d", <<"ra", "sp">>, -8), Asm("ld.d", <<"fp", "sp">>, -16),
                Asm("jr", <<"ra">>, 0)>>)
  /\ next' = <<next[1] + 1, 1>>
  /\ UNCHANGED <<frame, func, fcmp_cnt>>

Generate == Allocate \/ gen_prologue \/ gen_ret \/ gen_br \/ gen_binary \/ gen_float_binary
            \/ gen_alloca \/ gen_load \/ gen_store \/ gen_icmp \/ gen_fcmp \/ gen_zext
            \/ gen_call \/ gen_gep \/ gen_sitofp \/ gen_fptosi \/ gen_epilogue

Generated == next[1] = Len(func.blocks) + 2
=============================================================================

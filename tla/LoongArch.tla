------------------------------ MODULE LoongArch ------------------------------
(***************************************************************************)
(* The machine the assembly runs on, as far as CodeGen uses it.  General   *)
(* registers hold double words, floating-point ones words.  Memory holds   *)
(* what was stored at an address, with its size: a store wipes out all it  *)
(* overlaps, and a load that does not match a store reads garbage.         *)
(* A function that is called may change every register the convention does *)
(* not make it save, and the memory below $sp.                             *)
(***************************************************************************)
EXTENDS CodeGen, FiniteSetsExt, TLC

CONSTANTS
  Replies,               \* what a called function may return
  Garbage,               \* what is read where nothing was stored
  GlobalVariables        \* of the module, in list order

VARIABLES
  pc, reg, memory,
  called,                \* [name, reply, args] of the functions called
  running                \* "code", "callee", "done" or "exited"

loongarch == <<pc, reg, memory, called, running>>

General == {"zero", "ra", "sp", "fp", "t0", "t1", "t2", "t8"} \cup {a(i) : i \in 0 .. 7}
Floating == {"fcc0", "ft0", "ft1", "ft2"} \cup {fa(i) : i \in 0 .. 7}
Saved   == {"zero", "sp", "fp"}

(* The .bss section run() writes: one .space of its size for each global.  *)
BSS == 2048
Symbols ==
  LET upto[k \in 0 .. Len(GlobalVariables)] ==
        IF k = 0 THEN BSS ELSE upto[k - 1] + get_size(Elem(GlobalVariables[k].ty))
  IN [g \in {GlobalVariables[k] : k \in DOMAIN GlobalVariables} |->
        upto[(CHOOSE k \in DOMAIN GlobalVariables : GlobalVariables[k] = g) - 1]]

Line == output[pc]
Reads(k) == reg[Line.regs[k]]
Executing(ops) == running = "code" /\ Line.op \in ops
Target(l) == CHOOSE i \in DOMAIN output : output[i].op = "label" /\ output[i].to = l

(* Bit by bit, on double words.                                            *)
Bit(n, i)    == (n \div 2 ^ i) % 2
Bitwise2(l, r, on(_, _)) ==
  Signed(MapThenSumSet(LAMBDA i : IF on(Bit(l, i), Bit(r, i)) THEN 2 ^ i ELSE 0,
                       0 .. DoubleBits - 1), DoubleBits)
Unsigned(n)  == n % 2 ^ DoubleBits

ALU == {"addi.w", "addi.d", "add.w", "sub.w", "mul.w", "div.w", "add.d", "sub.d", "mul.d",
        "lu12i.w", "ori", "lu32i.d", "lu52i.d", "bstrpick.d", "bstrpick.w", "slt", "sltu",
        "sltui", "xor", "xori", "movgr2fr.w", "movfr2gr.s", "ffint.s.w", "ftintrz.w.s",
        "fadd.s", "fsub.s", "fmul.s", "fdiv.s", "fcmp.sle.s", "fcmp.slt.s", "fcmp.seq.s",
        "fcmp.sne.s", "la.local"}

Computed ==
  LET op  == Line.op
      imm == Line.imm
      l   == Reads(2)
      r   == Reads(3)
  IN CASE op = "addi.w"  -> Word(l + imm)
       [] op = "addi.d"  -> Double(l + imm)
       [] op = "add.w"   -> Apply("add", Word(l), Word(r))
       [] op = "sub.w"   -> Apply("sub", Word(l), Word(r))
       [] op = "mul.w"   -> Apply("mul", Word(l), Word(r))
       [] op = "div.w"   -> Apply("sdiv", Word(l), Word(r))
       [] op = "add.d"   -> Double(l + r)
       [] op = "sub.d"   -> Double(l - r)
       [] op = "mul.d"   -> Double(l * r)
       [] op = "lu12i.w" -> Word(imm * 2 ^ LO)
       [] op = "ori"     -> Bitwise2(l, imm, LAMBDA p, q : p + q > 0)
       [] op = "lu32i.d" -> Double(imm * 2 ^ WordBits + (Reads(1) % 2 ^ WordBits))
       [] op = "lu52i.d" -> Double(imm * 2 ^ (WordBits + HI) + (l % 2 ^ (WordBits + HI)))
       [] op \in {"bstrpick.d", "bstrpick.w"} -> l % 2 ^ (imm + 1)
       [] op = "slt"     -> Bool(l < r)
       [] op = "sltu"    -> Bool(Unsigned(l) < Unsigned(r))
       [] op = "sltui"   -> Bool(Unsigned(l) < imm)
       [] op = "xor"     -> Bitwise2(l, r, LAMBDA p, q : p # q)
       [] op = "xori"    -> Bitwise2(l, imm, LAMBDA p, q : p # q)
       [] op = "movgr2fr.w"  -> Word(l)
       [] op = "movfr2gr.s"  -> l
       [] op = "ffint.s.w"   -> SiToFp(l)
       [] op = "ftintrz.w.s" -> FpToSi(l)
       [] op = "fadd.s"  -> Apply("fadd", l, r)
       [] op = "fsub.s"  -> Apply("fsub", l, r)
       [] op = "fmul.s"  -> Apply("fmul", l, r)
       [] op = "fdiv.s"  -> Apply("fdiv", l, r)
       [] op = "fcmp.sle.s" -> Bool(l <= r)
       [] op = "fcmp.slt.s" -> Bool(l < r)
       [] op = "fcmp.seq.s" -> Bool(l = r)
       [] op = "fcmp.sne.s" -> Bool(l # r)
       [] op = "la.local"   -> Symbols[Line.to]

Calculation ==
  /\ Executing(ALU)
  /\ reg' = [reg EXCEPT ![Line.regs[1]] = Computed]
  /\ pc' = pc + 1
  /\ UNCHANGED <<memory, called, running>>

Size == ("ld.b" :> 1) @@ ("ld.w" :> 4) @@ ("fld.s" :> 4) @@ ("ld.d" :> 8)
        @@ ("st.b" :> 1) @@ ("st.w" :> 4) @@ ("fst.s" :> 4) @@ ("st.d" :> 8)
Written(mem, at, size, val) ==
  (at :> [size |-> size, val |-> val])
  @@ [b \in {c \in DOMAIN mem : c + mem[c].size <= at \/ at + size <= c} |-> mem[b]]
Read(mem, at, size) ==
  IF at \in DOMAIN mem THEN IF mem[at].size = size THEN mem[at].val ELSE Garbage ELSE Garbage

Load ==
  /\ Executing({"ld.b", "ld.w", "ld.d", "fld.s"})
  /\ reg' = [reg EXCEPT ![Line.regs[1]] = Read(memory, Reads(2) + Line.imm, Size[Line.op])]
  /\ pc' = pc + 1
  /\ UNCHANGED <<memory, called, running>>

StoreTo ==
  /\ Executing({"st.b", "st.w", "st.d", "fst.s"})
  /\ memory' = Written(memory, Reads(2) + Line.imm, Size[Line.op],
                       IF Line.op \in {"st.b", "st.w"} THEN Word(Reads(1)) ELSE Reads(1))
  /\ pc' = pc + 1
  /\ UNCHANGED <<reg, called, running>>

Jumps ==
  /\ Executing({"label", "b", "bne", "bcnez"})
  /\ pc' = IF \/ Line.op = "b"
              \/ Line.op = "bne" /\ Reads(1) # Reads(2)
              \/ Line.op = "bcnez" /\ Reads(1) # 0
           THEN Target(Line.to) ELSE pc + 1
  /\ UNCHANGED <<reg, memory, called, running>>

(* bl: the callee finds its arguments in the registers of its signature.   *)
BranchLink ==
  /\ Executing({"bl"})
  /\ LET types == Line.to.ty.params
         args == [k \in DOMAIN types |->
                    reg[IF types[k] = Float THEN fa(Nth(types, k)) ELSE a(Nth(types, k))]]
     IN \E r \in Replies : called' = Append(called, [name |-> Line.to.f, reply |-> r, args |-> args])
  /\ running' = IF Line.to.f = "neg_idx_except" THEN "exited" ELSE "callee"
  /\ UNCHANGED <<pc, reg, memory>>

CalleeReturns ==
  /\ running = "callee"
  /\ reg' = [x \in DOMAIN reg |->
               IF x \in Saved THEN reg[x]
               ELSE IF x = (IF Line.to.ty.ret = Float THEN "fa0" ELSE "a0")
                    THEN called[Len(called)].reply ELSE Garbage]
  /\ memory' = [b \in {c \in DOMAIN memory : c >= reg["sp"]} |-> memory[b]]
  /\ running' = "code" /\ pc' = pc + 1
  /\ UNCHANGED called

JumpBack ==
  /\ Executing({"jr"})
  /\ running' = "done"
  /\ UNCHANGED <<pc, reg, memory, called>>

StepMachine == Calculation \/ Load \/ StoreTo \/ Jumps \/ BranchLink \/ CalleeReturns \/ JumpBack
=============================================================================

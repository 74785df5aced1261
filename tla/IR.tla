--------------------------------- MODULE IR ---------------------------------
(***************************************************************************)
(* The intermediate representation (src/include/lightir): types, values,   *)
(* instructions, and what the constructors of the instructions assert and  *)
(* append.  Values are the constants, the globals and functions of the     *)
(* module, the arguments of a function, and its instructions, named by     *)
(* their block and their place in it.                                      *)
(***************************************************************************)
EXTENDS Integers, Sequences

(* Types are interned by Module: equal types are the same object.          *)
Void  == [t |-> "void"]
Int1  == [t |-> "i1"]
Int32 == [t |-> "i32"]
Float == [t |-> "float"]
Ptr(ty)           == [t |-> "ptr", to |-> ty]
Array(ty, n)      == [t |-> "array", of |-> ty, n |-> n]
Fun(ret, params)  == [t |-> "fun", ret |-> ret, params |-> params]

IsInteger(ty) == ty.t \in {"i1", "i32"}
(* get_pointer_element_type; Void stands for its failed assertion.         *)
Elem(ty)      == IF ty.t = "ptr" THEN ty.to ELSE Void

(* Element types of arrays are scalar: the language has no array of arrays.*)
ScalarSize == [i1 |-> 1, i32 |-> 4, float |-> 4, ptr |-> 8]
get_size(ty) == IF ty.t = "array" THEN ScalarSize[ty.of.t] * ty.n ELSE ScalarSize[ty.t]

Const(n, ty)  == [c |-> n, ty |-> ty]
Global(x, ty) == [g |-> x, ty |-> Ptr(ty)]
Func(f, ret, params) == [f |-> f, ty |-> Fun(ret, params)]
Arg(k, ty)    == [a |-> k, ty |-> ty]
Inst(at, ty)  == [i |-> at, ty |-> ty]

IntBinary   == {"add", "sub", "mul", "sdiv"}
FloatBinary == {"fadd", "fsub", "fmul", "fdiv"}
IntCompare  == {"ge", "gt", "le", "lt", "eq", "ne"}
FloatCompare == {"fge", "fgt", "fle", "flt", "feq", "fne"}

is_void(ins) == ins.op \in {"ret", "br", "store"} \/ (ins.op = "call" /\ ins.ty = Void)

EmptyBlock == [code |-> << >>, pre |-> << >>, succ |-> << >>]

is_terminated(block) ==
  /\ block.code # << >>
  /\ block.code[Len(block.code)].op \in {"ret", "br"}

(* GetElementPtrInst::get_element_type: an array only loses a level to the *)
(* second index.                                                           *)
GepElement(ptr, indices) ==
  IF Elem(ptr.ty).t = "array" /\ indices > 1 THEN Elem(ptr.ty).of ELSE Elem(ptr.ty)

(* What the constructors assert, ret being the function's return type.     *)
WellFormed(ins, ret) ==
  LET ty(k) == ins.args[k].ty IN
  /\ ins.op \in IntBinary \cup IntCompare => ty(1) = Int32 /\ ty(2) = Int32
  /\ ins.op \in FloatBinary \cup FloatCompare => ty(1) = Float /\ ty(2) = Float
  /\ ins.op = "call" =>
       /\ ty(1).t = "fun"
       /\ [k \in 1 .. Len(ins.args) - 1 |-> ty(k + 1)] = ty(1).params
  /\ ins.op = "br" /\ ins.args # << >> => ty(1) = Int1
  /\ ins.op = "ret" => IF ins.args = << >> THEN ret = Void ELSE ret = ty(1)
  /\ ins.op = "getelementptr" =>
       /\ ty(1).t = "ptr" /\ Elem(ty(1)).t # "ptr"
       /\ \A k \in 2 .. Len(ins.args) : IsInteger(ty(k))
  /\ ins.op = "store" => ty(2) = Ptr(ty(1))
  /\ ins.op = "load"  => ty(1).t = "ptr" /\ ins.ty = Elem(ty(1)) /\ ins.ty.t # "array"
  /\ ins.op = "alloca" => ins.ty.t = "ptr" /\ Elem(ins.ty) # Void
  /\ ins.op = "zext"   => ty(1) = Int1 /\ ins.ty = Int32
  /\ ins.op = "fptosi" => ty(1) = Float /\ IsInteger(ins.ty)
  /\ ins.op = "sitofp" => IsInteger(ty(1)) /\ ins.ty = Float

(***************************************************************************)
(* The state of an IRBuilder: the function being built, the insertion      *)
(* block, the value created last, and whether every assertion held.        *)
(***************************************************************************)
Builder(fun) == [fun |-> fun, at |-> 1, val |-> Const(0, Int32), ok |-> TRUE]

Function(name, ret, params) ==
  [name |-> name, ret |-> ret, params |-> params, blocks |-> <<EmptyBlock>>]

Block(b) == b.fun.blocks[b.at]

NewBlock(b) == [b EXCEPT !.fun.blocks = Append(@, EmptyBlock)]
NewBlocks(b) == Len(b.fun.blocks)              \* the block made last
Give(b, val) == [b EXCEPT !.val = val]         \* nothing to create
set_insert_point(b, block) == [b EXCEPT !.at = block]

(* Instruction::Instruction and add_instruction: at the end of the block,  *)
(* which must not have its terminator yet.                                 *)
Create(b, op, ty, args) ==
  LET ins == [op |-> op, ty |-> ty, args |-> args, to |-> << >>] IN
  [b EXCEPT !.fun.blocks[b.at].code = Append(@, ins),
            !.val = Inst(<<b.at, Len(Block(b).code) + 1>>, ty),
            !.ok  = @ /\ ~ is_terminated(Block(b)) /\ WellFormed(ins, b.fun.ret)]

(* BranchInst::BranchInst: the edge goes into both adjacency lists.        *)
Branch(b, cond, targets) ==
  LET ins == [op |-> "br", ty |-> Void, args |-> cond, to |-> targets] IN
  [b EXCEPT !.fun.blocks =
       [k \in 1 .. Len(@) |->
          [@[k] EXCEPT
             !.code = IF k = b.at THEN Append(@, ins) ELSE @,
             !.succ = IF k = b.at THEN @ \o targets ELSE @,
             !.pre  = IF \E j \in 1 .. Len(targets) : targets[j] = k
                      THEN Append(@, b.at) ELSE @]],
            !.ok = @ /\ ~ is_terminated(Block(b)) /\ WellFormed(ins, b.fun.ret)]

create_br(b, target)            == Branch(b, << >>, <<target>>)
create_cond_br(b, cond, t, f)   == Branch(b, <<cond>>, <<t, f>>)
create_void_ret(b)              == Create(b, "ret", Void, << >>)
create_ret(b, val)              == Create(b, "ret", Void, <<val>>)
create_call(b, func, args)      == Create(b, "call", func.ty.ret, <<func>> \o args)
create_alloca(b, ty)            == Create(b, "alloca", Ptr(ty), << >>)
create_load(b, ptr)             == Create(b, "load", Elem(ptr.ty), <<ptr>>)
create_store(b, val, ptr)       == Create(b, "store", Void, <<val, ptr>>)
create_gep(b, ptr, idxs)        ==
  Create(b, "getelementptr", Ptr(GepElement(ptr, Len(idxs))), <<ptr>> \o idxs)
create_binary(b, op, l, r)      ==
  Create(b, op, IF op \in IntBinary THEN Int32 ELSE Float, <<l, r>>)
create_cmp(b, op, l, r)         == Create(b, op, Int1, <<l, r>>)
create_zext(b, val)             == Create(b, "zext", Int32, <<val>>)
create_sitofp(b, val)           == Create(b, "sitofp", Float, <<val>>)
create_fptosi(b, val)           == Create(b, "fptosi", Int32, <<val>>)
=============================================================================

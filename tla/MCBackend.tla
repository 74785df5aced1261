------------------------------ MODULE MCBackend ------------------------------
(***************************************************************************)
(* Functions written down block by block.  With six bits for an immediate  *)
(* the slots go past its range from the fifth value on; n more allocas at  *)
(* the start move the rest of the frame to either side of a boundary.      *)
(***************************************************************************)
EXTENDS Backend

g == Global("g", Int32)
h == Global("h", Array(Float, 2))
MCGlobalVariables == <<g, h>>

I(n) == Const(n, Int32)
F(n) == Const(n, Float)
Ins(op, ty, args) == [op |-> op, ty |-> ty, args |-> args, to |-> << >>]
Br(cond, targets) == [op |-> "br", ty |-> Void, args |-> cond, to |-> targets]
Ret(val)          == Ins("ret", Void, <<val>>)
RetVoid           == Ins("ret", Void, << >>)

Output      == Func("output", Void, <<Int32>>)
OutputFloat == Func("outputFloat", Void, <<Float>>)
Input       == Func("input", Int32, << >>)
Exception   == Func("neg_idx_except", Void, << >>)
Mixed == Func("mixed", Float, <<Float, Int32, Ptr(Int32), Float, Int32, Float>>)

(* A function of these blocks, with n allocas before its first.            *)
Shift(val, n) == IF "i" \in DOMAIN val THEN IF val.i[1] = 1 THEN [val EXCEPT !.i[2] = @ + n] ELSE val
                 ELSE val
Fn(name, ret, params, n, blocks) ==
  LET moved(ins) == [ins EXCEPT !.args = [k \in DOMAIN @ |-> Shift(@[k], n)]]
      code(b) == (IF b = 1 THEN [k \in 1 .. n |-> Ins("alloca", Ptr(Array(Int32, n)), << >>)] ELSE << >>)
                 \o [k \in DOMAIN blocks[b] |-> moved(blocks[b][k])]
  IN [Function(name, ret, params) EXCEPT
        !.blocks = [b \in DOMAIN blocks |-> [EmptyBlock EXCEPT !.code = code(b)]]]

(* Each operation on the same operands, widened if it compares, and its    *)
(* result given to a function.                                             *)
Each(ops, l, r, compare) ==
  LET ty == IF compare THEN Int1 ELSE l.ty
      per == IF compare THEN 3 ELSE 2
      result(k) == IF compare THEN Inst(<<1, per * k + 2>>, Int32) ELSE Inst(<<1, per * k + 1>>, ty)
      to == IF compare \/ ty = Int32 THEN Output ELSE OutputFloat
  IN [j \in 1 .. per * Len(ops) |->
        LET k == (j - 1) \div per
        IN CASE (j - 1) % per = 0   -> Ins(ops[k + 1], ty, <<l, r>>)
             [] (j - 1) % per = per - 1 -> Ins("call", Void, <<to, result(k)>>)
             [] OTHER -> Ins("zext", Int32, <<Inst(<<1, j - 1>>, Int1)>>)]

X == Arg(1, Int32)
Y == Arg(2, Int32)
U == Arg(1, Float)
V == Arg(2, Float)

(* Nothing at all; one sum; the frame of each is next to a boundary.       *)
Empty  == Fn("empty", Void, << >>, 0, <<<<RetVoid>>>>)
Sum(n) == Fn("sum", Int32, <<Int32>>, n,
                   <<<<Ins("add", Int32, <<X, I(100)>>), Ret(Inst(<<1, 1>>, Int32))>>>>)

IntOps(n) == Fn("ints", Int32, <<Int32, Int32>>, n,
  <<Each(<<"sub", "mul", "sdiv">>, X, Y, FALSE) \o <<Br(<< >>, <<2>>)>>,
    <<Ret(I(-200))>>>>)
IntTests(n) == Fn("tests", Int32, <<Int32, Int32>>, n,
  <<Each(<<"ge", "gt", "le", "lt", "eq", "ne">>, X, Y, TRUE) \o <<Ret(I(7))>>>>)
FloatOps(n) == Fn("floats", Float, <<Float, Float>>, n,
  <<Each(<<"fadd", "fsub", "fmul", "fdiv">>, U, V, FALSE) \o <<Br(<< >>, <<2>>)>>,
    <<Ins("fptosi", Int32, <<U>>), Ins("sitofp", Float, <<Inst(<<2, 1>>, Int32)>>),
      Ins("fadd", Float, <<Inst(<<2, 2>>, Float), F(77)>>), Ret(Inst(<<2, 3>>, Float))>>>>)
FloatTests(n) == Fn("ftests", Float, <<Float, Float>>, n,
  <<Each(<<"fge", "fgt", "fle", "flt", "feq", "fne">>, U, V, TRUE) \o <<Ret(V)>>>>)

(* Globals, a local array, the caller's array; an index that may be bad.   *)
Memory(n) ==
  LET arr == Inst(<<1, 1>>, Ptr(Array(Int32, 2)))
      ptr == Inst(<<1, 2>>, Ptr(Ptr(Int32)))
      at(k, ty) == Inst(<<3, k>>, ty)
  IN Fn("memory", Void, <<Int32, Ptr(Int32)>>, n,
  <<<<Ins("alloca", arr.ty, << >>),
      Ins("alloca", ptr.ty, << >>),
      Ins("store", Void, <<Arg(2, Ptr(Int32)), ptr>>),
      Ins("lt", Int1, <<X, I(0)>>),
      Br(<<Inst(<<1, 4>>, Int1)>>, <<2, 3>>)>>,
    <<Ins("call", Void, <<Exception>>),
      RetVoid>>,
    <<Ins("getelementptr", Ptr(Int32), <<arr, I(0), X>>),
      Ins("store", Void, <<I(9), at(1, Ptr(Int32))>>),
      Ins("getelementptr", Ptr(Int32), <<arr, I(0), I(0)>>),
      Ins("load", Ptr(Int32), <<ptr>>),
      Ins("getelementptr", Ptr(Int32), <<at(4, Ptr(Int32)), X>>),
      Ins("load", Int32, <<at(5, Ptr(Int32))>>),
      Ins("add", Int32, <<at(6, Int32), X>>),
      Ins("store", Void, <<at(7, Int32), at(5, Ptr(Int32))>>),
      Ins("store", Void, <<at(7, Int32), g>>),
      Ins("getelementptr", Ptr(Float), <<h, I(0), I(1)>>),
      Ins("store", Void, <<F(3), at(10, Ptr(Float))>>),
      Ins("call", Float, <<Mixed, F(5), X, at(3, Ptr(Int32)), F(6), at(7, Int32), F(7)>>),
      Ins("store", Void, <<at(12, Float), at(10, Ptr(Float))>>),
      Ins("load", Float, <<at(10, Ptr(Float))>>),
      Ins("load", Int32, <<g>>),
      RetVoid>>>>)

(* i = input(); while (i < x) i = i + 1; if (x == i) return x; return 200; *)
Loop(n) ==
  LET slot == Inst(<<1, 1>>, Ptr(Int32))
      i    == Inst(<<2, 1>>, Int32)
  IN Fn("loop", Int32, <<Int32>>, n,
  <<<<Ins("alloca", slot.ty, << >>),
      Ins("call", Int32, <<Input>>),
      Ins("store", Void, <<Inst(<<1, 2>>, Int32), slot>>),
      Br(<< >>, <<2>>)>>,
    <<Ins("load", Int32, <<slot>>),
      Ins("lt", Int1, <<i, X>>),
      Br(<<Inst(<<2, 2>>, Int1)>>, <<3, 4>>)>>,
    <<Ins("add", Int32, <<i, I(1)>>),
      Ins("store", Void, <<Inst(<<3, 1>>, Int32), slot>>),
      Br(<< >>, <<2>>)>>,
    <<Ins("eq", Int1, <<X, i>>),
      Br(<<Inst(<<4, 1>>, Int1)>>, <<5, 6>>)>>,
    <<Ret(X)>>,
    <<Ret(I(200))>>>>)

(* As many arguments as there are registers, the first four passed on.     *)
Alternate(n) == [k \in 1 .. n |-> IF k % 2 = 0 THEN Int32 ELSE Float]
Through ==
  LET types == Alternate(16)
      args  == [k \in 1 .. 16 |-> IF k <= 4 THEN Arg(k, types[k]) ELSE Const(10 * k, types[k])]
  IN Fn("through", Int32, Alternate(4), 0,
  <<<<Ins("call", Int32, <<Func("many", Int32, types)>> \o args), Ret(Inst(<<1, 1>>, Int32))>>>>)

(* An element too large for an immediate: the last of a local array of     *)
(* nine, past which the first index, as always of a local array, is 0.     *)
Large ==
  LET arr  == Inst(<<1, 1>>, Ptr(Array(Int32, 9)))
      last == <<arr, I(0), I(8)>>
  IN Fn("large", Int32, <<Int32>>, 0,
  <<<<Ins("alloca", arr.ty, << >>),
      Ins("getelementptr", Ptr(Int32), last),
      Ins("store", Void, <<X, Inst(<<1, 2>>, Ptr(Int32))>>),
      Ins("getelementptr", Ptr(Int32), last),
      Ins("load", Int32, <<Inst(<<1, 4>>, Ptr(Int32))>>),
      Ret(Inst(<<1, 5>>, Int32))>>>>)

MCFunctions ==
  {Empty, Through, Large, Sum(1), Loop(2)}
  \cup UNION {{Sum(n), IntOps(n), IntTests(n), FloatOps(n), FloatTests(n), Memory(n)} : n \in {0, 2}}
MCIntInputs   == {-3, 1}
MCFloatInputs == {-3, 4}
MCReplies     == {-2}
=============================================================================

------------------------------ MODULE IRMachine ------------------------------
(***************************************************************************)
(* What a function of the IR means: it is executed instruction by          *)
(* instruction over an unbounded set of named values and a memory of       *)
(* objects.  The calls it makes are recorded; what they return is open.    *)
(* There are no phis here: their meaning is in Mem2RegRuns.                *)
(***************************************************************************)
EXTENDS Objects, Words

CONSTANT Replies          \* what a called function may return

VARIABLES
  fun, args,              \* the function and its arguments; never change
  at,                     \* the next instruction: its block, its place
  env,                    \* the values of the instructions
  mem,                    \* the cells: object and offset
  calls,                  \* [name, args, reply] of the calls made
  status,                 \* "running", "calling", "done" or "exited"
  returned                \* once done

machine == <<fun, args, at, env, mem, calls, status, returned>>

Unset(f) == [p \in Code(f) |-> Undefined]
Fresh(f) == [c \in UNION {CellsOf(o) : o \in Objects(f)} |->
               IF "i" \in DOMAIN c[1] THEN Undefined ELSE Number(0)]

Start(f, actuals) ==
  /\ fun = f /\ args = actuals
  /\ at = <<1, 1>>
  /\ env = Unset(f) /\ mem = Fresh(f)
  /\ calls = << >>
  /\ status = "running"
  /\ returned = Undefined

Ins == InsAt(fun, at)
Val(v) == CASE "c" \in DOMAIN v -> Number(v.c)
            [] "a" \in DOMAIN v -> args[v.a]
            [] "g" \in DOMAIN v -> Pointer(v, 0)
            [] "i" \in DOMAIN v -> env[v.i]
Operand(k) == Val(Ins.args[k])
Num(k)     == Operand(k).n

Running(ops) == status = "running" /\ Ins.op \in ops
Advance      == at' = <<at[1], at[2] + 1>>
Define(val)  == env' = [env EXCEPT ![at] = val] /\ Advance

Compute ==
  /\ Running(IntBinary \cup FloatBinary \cup IntCompare \cup FloatCompare
             \cup {"zext", "sitofp", "fptosi"})
  /\ Define(Number(CASE Ins.op = "zext"   -> Num(1)
                     [] Ins.op = "sitofp" -> SiToFp(Num(1))
                     [] Ins.op = "fptosi" -> FpToSi(Num(1))
                     [] OTHER             -> Apply(Ins.op, Num(1), Num(2))))
  /\ UNCHANGED <<fun, args, mem, calls, status, returned>>

(* An alloca is the same object each time it is executed.                  *)
Allocate ==
  /\ Running({"alloca"})
  /\ Define(Pointer(Inst(at, Ins.ty), 0))
  /\ UNCHANGED <<fun, args, mem, calls, status, returned>>

(* The first index steps over whole objects, the second over elements.     *)
GetElementPtr ==
  /\ Running({"getelementptr"})
  /\ LET ty == Elem(Ins.args[1].ty)
         far == Num(2) * get_size(ty)
                + (IF Len(Ins.args) = 3 THEN Num(3) * get_size(ty.of) ELSE 0)
     IN Define([Operand(1) EXCEPT !.off = @ + far])
  /\ UNCHANGED <<fun, args, mem, calls, status, returned>>

Cell(k) == <<Operand(k).obj, Operand(k).off>>

LoadCell ==
  /\ Running({"load"})
  /\ Define(mem[Cell(1)])
  /\ UNCHANGED <<fun, args, mem, calls, status, returned>>

StoreCell ==
  /\ Running({"store"})
  /\ mem' = [mem EXCEPT ![Cell(2)] = Operand(1)]
  /\ Advance
  /\ UNCHANGED <<fun, args, env, calls, status, returned>>

Jump ==
  /\ Running({"br"})
  /\ at' = <<IF Ins.args = << >> \/ Num(1) = 1 THEN Ins.to[1] ELSE Ins.to[2], 1>>
  /\ UNCHANGED <<fun, args, env, mem, calls, status, returned>>

(* neg_idx_except never returns.                                           *)
CallFunction ==
  /\ Running({"call"})
  /\ \E r \in Replies :
       calls' = Append(calls, [name  |-> Ins.args[1].f, reply |-> Number(r),
                               args  |-> [k \in 1 .. Len(Ins.args) - 1 |-> Operand(k + 1)]])
  /\ status' = IF Ins.args[1].f = "neg_idx_except" THEN "exited" ELSE "calling"
  /\ UNCHANGED <<fun, args, at, env, mem, returned>>

Resume ==
  /\ status = "calling"
  /\ IF is_void(Ins) THEN Advance /\ UNCHANGED env ELSE Define(calls[Len(calls)].reply)
  /\ status' = "running"
  /\ UNCHANGED <<fun, args, mem, calls, returned>>

Leave ==
  /\ Running({"ret"})
  /\ status' = "done"
  /\ returned' = IF Ins.args = << >> THEN Undefined ELSE Operand(1)
  /\ UNCHANGED <<fun, args, at, env, mem, calls>>

StepIR == Compute \/ Allocate \/ GetElementPtr \/ LoadCell \/ StoreCell \/ Jump
          \/ CallFunction \/ Resume \/ Leave

IRSpec == Start(fun, args) /\ [][StepIR]_machine
=============================================================================

------------------------------- MODULE Objects -------------------------------
(***************************************************************************)
(* The values a function of the IR computes with when it is executed, and  *)
(* the objects in memory it can reach.                                     *)
(***************************************************************************)
EXTENDS IR

(* Values: a number, a pointer into an object, or undefined.               *)
Number(n)         == [n |-> n]
Pointer(obj, off) == [obj |-> obj, off |-> off]
Undefined         == [undefined |-> TRUE]

Code(f) == UNION {{<<b, k>> : k \in 1 .. Len(f.blocks[b].code)} : b \in 1 .. Len(f.blocks)}
InsAt(f, pos) == f.blocks[pos[1]].code[pos[2]]

(* The objects a function can reach, each named by the value that points   *)
(* to it: its allocas, the globals it uses, the arrays it is passed.       *)
Allocas(f) == {Inst(p, InsAt(f, p).ty) : p \in {q \in Code(f) : InsAt(f, q).op = "alloca"}}
Globals(f) == UNION {{v \in {InsAt(f, p).args[k] : k \in 1 .. Len(InsAt(f, p).args)} :
                        "g" \in DOMAIN v} : p \in Code(f)}
ArrayArgs(f) == {Arg(k, f.params[k]) : k \in {j \in 1 .. Len(f.params) : f.params[j].t = "ptr"}}

(* A caller's array is taken to have two elements.                         *)
Extent(obj) == IF "a" \in DOMAIN obj THEN 2 * get_size(Elem(obj.ty)) ELSE get_size(Elem(obj.ty))
Step(obj)   == IF Elem(obj.ty).t = "array" THEN get_size(Elem(obj.ty).of) ELSE get_size(Elem(obj.ty))
CellsOf(obj) == {<<obj, off>> : off \in {o \in 0 .. Extent(obj) - 1 : o % Step(obj) = 0}}
Objects(f) == Allocas(f) \cup Globals(f) \cup ArrayArgs(f)
=============================================================================

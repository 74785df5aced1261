------------------------------- MODULE FrontEnd -------------------------------
(***************************************************************************)
(* The front end as main() runs it: parse, AST, CminusfBuilder; and then   *)
(* one of the functions it built, executed.  The program given in Init is  *)
(* the source; what is built and executed comes from its parse tree.       *)
(***************************************************************************)
EXTENDS CminusfBuilder, IRMachine, FiniteSets

CONSTANTS
  Programs,              \* the source programs, as the parser understands them
  IntInputs, FloatInputs \* what the parameters of a function are run on

VARIABLE source

Syntax  == INSTANCE Ast
Meaning == INSTANCE Cminusf

(* The arrays a caller passes are its own; the numbers are any inputs.     *)
Actual(k, ty) == CASE ty.t = "ptr" -> {Pointer(Arg(k, ty), 0)}
                   [] ty = Int32   -> {Number(n) : n \in IntInputs}
                   [] ty = Float   -> {Number(n) : n \in FloatInputs}
Actuals(f) ==
  LET any == UNION {Actual(k, f.params[k]) : k \in DOMAIN f.params}
  IN {a \in [DOMAIN f.params -> any] : \A k \in DOMAIN a : a[k] \in Actual(k, f.params[k])}

frontend == <<vars, machine, source>>

Init ==
  /\ source \in Programs
  /\ Build(Syntax!Transform(Syntax!Derive(source)))
  /\ Start(Function("none", Void, << >>), << >>)

(* main(): the AST is built from the tree, and the tree deleted.           *)
BuildModule == Next /\ UNCHANGED <<machine, source>>

(* The module is complete: some function of it is called.                  *)
Run ==
  /\ work = << >> /\ fun.name = "none"
  /\ \E i \in 1 .. Len(functions) :
     \E actuals \in Actuals(functions[i]) :
       /\ fun' = functions[i] /\ args' = actuals
       /\ env' = Unset(functions[i]) /\ mem' = Fresh(functions[i])
  /\ UNCHANGED <<vars, source, at, calls, status, returned>>

Execute == fun.name # "none" /\ StepIR /\ UNCHANGED <<vars, source>>

Finished == status \in {"done", "exited"} /\ UNCHANGED frontend

FrontEndNext == BuildModule \/ Run \/ Execute \/ Finished

Spec == Init /\ [][FrontEndNext]_frontend /\ WF_frontend(Execute)

-----------------------------------------------------------------------------
(* The AST has every part of the program, in its order: no list reversed,  *)
(* no operator or operand lost on the way through the parse tree.          *)
AstKeepsSource == program = source

(* The assertions of the constructors and of the blocks hold: operands of  *)
(* the right types, and nothing added to a block after its terminator,     *)
(* wherever a return, a branch or a bad index ended it.                    *)
AssertsHold == builder.ok

(***************************************************************************)
(* A function that is finished can be executed: every block ends in its    *)
(* only terminator, and the adjacency lists are the branches.              *)
(***************************************************************************)
Occurs(x, seq) == Cardinality({i \in DOMAIN seq : seq[i] = x})
BlocksOK(f) ==
  LET bs == f.blocks IN
  \A b \in DOMAIN bs :
    /\ \A k \in DOMAIN bs[b].code :
         bs[b].code[k].op \in {"ret", "br"} <=> k = Len(bs[b].code)
    /\ is_terminated(bs[b])
    /\ bs[b].succ = bs[b].code[Len(bs[b].code)].to
    /\ \A c \in DOMAIN bs : Occurs(c, bs[b].succ) = Occurs(b, bs[c].pre)
FunctionsComplete ==
  /\ \A i \in DOMAIN functions : BlocksOK(functions[i])
  /\ work = << >> => Len(functions) = Cardinality(
       Meaning!Declarations(source, "fun-declaration"))

(***************************************************************************)
(* The context between the visits: a flag is up only while the node it was *)
(* raised for is the next to be visited, so that no other visit takes it;  *)
(* every scope belongs to a function or compound statement in progress.    *)
(***************************************************************************)
InProgress(do) == Cardinality({i \in DOMAIN work : work[i].do = do})
ContextOK ==
  /\ require_lvalue => Visiting("var") /\ work[2].do = "store" /\ work[2].n.var = Node
  /\ pre_enter_scope => Visiting("compound-stmt") /\ work[2].do = "end function"
  /\ Len(scope) = 1 + InProgress("end function")
                    + Cardinality({i \in DOMAIN work : work[i].do = "next statement" /\ work[i].saved})
  /\ work = << >> => DOMAIN scope[1] = DOMAIN Library
       \cup {source.declarations[i].id : i \in DOMAIN source.declarations}

(***************************************************************************)
(* A function that returned or left on a bad index did what the source     *)
(* says: the same calls with the same arguments in the same order, the     *)
(* same result, the same contents of the globals and the caller's arrays.  *)
(***************************************************************************)
LibraryTypes ==
  [input          |-> [type |-> "int",  params |-> << >>],
   output         |-> [type |-> "void", params |-> <<[type |-> "int"]>>],
   outputFloat    |-> [type |-> "void", params |-> <<[type |-> "float"]>>],
   neg_idx_except |-> [type |-> "void", params |-> << >>]]
Declared == CHOOSE d \in Meaning!Declarations(source, "fun-declaration") : d.id = fun.name
Run1 == Meaning!MeaningOf(source, LibraryTypes, Declared,
          [k \in DOMAIN args |-> IF "n" \in DOMAIN args[k] THEN args[k].n ELSE 0],
          [k \in DOMAIN calls |-> calls[k].reply.n])

SameValue(v, w) ==
  CASE "n" \in DOMAIN v       -> "n" \in DOMAIN w /\ w.n = v.n
    [] "obj" \in DOMAIN v     -> "pointer" \in DOMAIN w /\ v.off = 0 /\
         CASE "g" \in DOMAIN v.obj -> w.pointer = Meaning!GlobalObj(v.obj.g)
           [] "a" \in DOMAIN v.obj -> w.pointer = Meaning!ParamObj(v.obj.a)
           [] OTHER                -> "local" \in DOMAIN w.pointer
    [] OTHER -> FALSE
SourceCell(c) ==
  <<IF "g" \in DOMAIN c[1] THEN Meaning!GlobalObj(c[1].g) ELSE Meaning!ParamObj(c[1].a), c[2] \div 4>>

RunsAsWritten ==
  status \in {"done", "exited"} =>
    LET s == Run1 IN
    /\ (s.out = "exit") = (status = "exited")
    /\ Len(s.calls) = Len(calls)
    /\ \A k \in DOMAIN calls :
         /\ calls[k].name = s.calls[k].name
         /\ Len(calls[k].args) = Len(s.calls[k].args)
         /\ \A i \in DOMAIN calls[k].args : SameValue(calls[k].args[i], s.calls[k].args[i])
    /\ status = "done" =>
         IF fun.ret = Void THEN returned = Undefined ELSE returned = Number(s.val.n)
    /\ \A c \in DOMAIN mem : "i" \notin DOMAIN c[1] => mem[c] = Number(s.mem[SourceCell(c)])

(* A function that is executed comes to an end: every loop tests its       *)
(* condition again, and every arm goes on behind its if.                   *)
RunTerminates == fun.name # "none" ~> status \in {"done", "exited"}
=============================================================================

-------------------------------- MODULE Purity --------------------------------
(***************************************************************************)
(* Which functions are pure: what FuncInfo (src/src/passes/FuncInfo.cpp)   *)
(* is asked, and what its answer is_pure has to be.  The definition is     *)
(* from the call graph and not from any algorithm; FuncInfo finds it.      *)
(***************************************************************************)
EXTENDS Naturals, Sequences

CONSTANTS
  NFuncs,               \* functions of the module, in list order
  Modules               \* what the pass may be given

Funcs == 1 .. NFuncs

(* Where get_first_addr ends, geps stripped: an alloca, a global, an       *)
(* argument, or a pointer that was loaded.                                 *)
Addresses == {"alloca", "global", "argument", "loaded"}

(* outside: a declaration, or main.  array: a parameter that is neither    *)
(* int nor float.  access: the memory instructions of the body.            *)
(* users: the functions of the call instructions in a function's use list. *)
IsModule(m) ==
  /\ m.outside \in SUBSET Funcs /\ m.array \in SUBSET Funcs
  /\ m.access \in [Funcs -> SUBSET ({"load", "store"} \X Addresses)]
  /\ m.users \in [Funcs -> Seq(Funcs)]

ASSUME NFuncsAssumption == NFuncs \in Nat
ASSUME ModulesAssumption == \A m \in Modules : IsModule(m)

VARIABLES
  module,               \* never changes
  stage,                \* where the analysis is
  is_pure

is_side_effect_inst(i) == i[2] # "alloca"

TriviallyPure(f) ==
  /\ f \notin module.outside
  /\ f \notin module.array
  /\ \A i \in module.access[f] : ~ is_side_effect_inst(i)

Calls(f, g) == \E l \in 1 .. Len(module.users[g]) : module.users[g][l] = f

(* S holds f and whatever a function of S calls.                           *)
HoldsCallees(S, f) == f \in S /\ \A g \in S, h \in Funcs : Calls(g, h) => h \in S

(* Nothing f may run, directly or through calls, is impure by itself.      *)
Pure(f) == \E S \in SUBSET Funcs : HoldsCallees(S, f) /\ \A g \in S : TriviallyPure(g)

(* is_pure is exact: a call DeadCode drops or LICM moves touches no memory *)
(* but the callee's own, along any chain of calls, cycles included; and no *)
(* function is called impure without such a chain.                         *)
PurityExact == stage = "done" => \A f \in Funcs : is_pure[f] <=> Pure(f)

(* On the way no function is wrongly called impure.                        *)
ImpureForAReason == stage # "mark" => \A f \in Funcs : Pure(f) => is_pure[f]
=============================================================================

----------------------------- MODULE MCFuncInfo -----------------------------
(***************************************************************************)
(* Every call graph over NFuncs functions, each callee with at most two    *)
(* call instructions, and every mix of kinds of functions.                 *)
(***************************************************************************)
EXTENDS FuncInfo

Access == [local  |-> {<<"load", "alloca">>, <<"store", "alloca">>},
           reads  |-> {<<"load", "global">>},
           array  |-> {<<"store", "alloca">>},
           outside |-> {<<"store", "alloca">>}]

UserLists ==
  {<< >>} \cup {<<f>> : f \in Funcs} \cup {u \in Funcs \X Funcs : u[1] <= u[2]}

AllModules ==
  {[outside |-> {f \in Funcs : kind[f] = "outside"},
    array   |-> {f \in Funcs : kind[f] = "array"},
    access  |-> [f \in Funcs |-> Access[kind[f]]],
    users   |-> users] :
     kind \in [Funcs -> DOMAIN Access], users \in [Funcs -> UserLists]}
=============================================================================

------------------------------- MODULE FuncInfo -------------------------------
(***************************************************************************)
(* FuncInfo (src/src/passes/FuncInfo.cpp): which functions are pure, so    *)
(* that DeadCode may drop a call and LICM may move it.  Each function is   *)
(* first looked at alone; then impurity spreads from callee to caller,     *)
(* breadth first along the callee's use list.                              *)
(***************************************************************************)
EXTENDS Purity

VARIABLES
  pos,                  \* trivial_mark: next function of the list
  worklist,
  now, k                \* process: the function, the next use of it

nullptr == 0

vars == <<module, stage, pos, is_pure, worklist, now, k>>

TypeOK ==
  /\ stage \in {"mark", "process", "use", "done"}
  /\ pos \in 1 .. NFuncs + 1
  /\ is_pure \in [Funcs -> BOOLEAN]
  /\ worklist \in Seq(Funcs)
  /\ now \in Funcs \cup {nullptr}
  /\ k \in Nat \ {0}

(* A map gives false for a function that is not in it yet.                 *)
Init ==
  /\ module \in Modules
  /\ stage = "mark" /\ pos = 1
  /\ is_pure = [f \in Funcs |-> FALSE]
  /\ worklist = << >>
  /\ now = nullptr /\ k = 1

trivial_mark ==
  /\ stage = "mark" /\ pos <= NFuncs
  /\ is_pure' = [is_pure EXCEPT ![pos] = TriviallyPure(pos)]
  /\ worklist' = IF TriviallyPure(pos) THEN worklist ELSE Append(worklist, pos)
  /\ pos' = pos + 1
  /\ UNCHANGED <<module, stage, now, k>>

StartProcess ==
  /\ stage = "mark" /\ pos > NFuncs
  /\ stage' = "process"
  /\ UNCHANGED <<module, pos, is_pure, worklist, now, k>>

PopFront ==
  /\ stage = "process" /\ worklist # << >>
  /\ now' = Head(worklist) /\ k' = 1
  /\ worklist' = Tail(worklist)
  /\ stage' = "use"
  /\ UNCHANGED <<module, pos, is_pure>>

Users == module.users[now]

(* Mutants: a caller that becomes impure is not queued; the use's number   *)
(* for the caller.                                                         *)
MutantProcessOnce ==
  /\ stage = "use" /\ k <= Len(Users)
  /\ is_pure' = [is_pure EXCEPT ![Users[k]] = FALSE]
  /\ k' = k + 1
  /\ UNCHANGED <<module, stage, pos, worklist, now>>

MutantProcessIndex ==
  /\ stage = "use" /\ k <= Len(Users)
  /\ is_pure' = [is_pure EXCEPT ![k] = FALSE]
  /\ k' = k + 1
  /\ UNCHANGED <<module, stage, pos, worklist, now>>

(* process: the caller of one use, if it is still called pure.             *)
process ==
  /\ stage = "use" /\ k <= Len(Users)
  /\ LET func == Users[k]
     IN  IF is_pure[func]
           THEN /\ is_pure' = [is_pure EXCEPT ![func] = FALSE]
                /\ worklist' = Append(worklist, func)
           ELSE UNCHANGED <<is_pure, worklist>>
  /\ k' = k + 1
  /\ UNCHANGED <<module, stage, pos, now>>

EndProcess ==
  /\ stage = "use" /\ k > Len(Users)
  /\ stage' = "process"
  /\ UNCHANGED <<module, pos, is_pure, worklist, now, k>>

Finish ==
  /\ stage = "process" /\ worklist = << >>
  /\ stage' = "done"
  /\ UNCHANGED <<module, pos, is_pure, worklist, now, k>>

Finished == stage = "done" /\ UNCHANGED vars

Next ==
  \/ trivial_mark \/ StartProcess \/ PopFront \/ process \/ EndProcess
  \/ Finish \/ Finished

Spec == Init /\ [][Next]_vars
=============================================================================

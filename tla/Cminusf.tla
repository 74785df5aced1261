------------------------------- MODULE Cminusf -------------------------------
(***************************************************************************)
(* What a function of the source language means: a reference definition by *)
(* recursion on the AST, written without the IR, without scopes as a stack *)
(* and without blocks.  Names are resolved by the environment that is      *)
(* passed inwards; the functions called are opaque, their replies given.   *)
(* The right side of an assignment comes before the index on its left.     *)
(***************************************************************************)
EXTENDS Words, Sequences, TLC

nullptr == [k |-> "nullptr"]

(* Objects: globals, the arrays of the parameters, and all other locals.   *)
GlobalObj(x) == [global |-> x]
ParamObj(k)  == [param |-> k]
LocalObj(k)  == [local |-> k]
Cells(obj, num) == {<<obj, i>> : i \in 0 .. (IF num = 0 THEN 0 ELSE num - 1)}

Value(type, n) == [type |-> type, n |-> n]
As(type, v) == CASE type = v.type -> v
                 [] type = "float" -> Value(type, SiToFp(v.n))
                 [] type = "int"   -> Value(type, FpToSi(v.n))

FloatOpOf == [add |-> "fadd", sub |-> "fsub", mul |-> "fmul", sdiv |-> "fdiv"]
Arithmetic == [OP_PLUS |-> "add", OP_MINUS |-> "sub", OP_MUL |-> "mul", OP_DIV |-> "sdiv"]
Relation == [OP_LT |-> "lt", OP_LE |-> "le", OP_GE |-> "ge", OP_GT |-> "gt",
             OP_EQ |-> "eq", OP_NEQ |-> "ne"]
Combine(op, v, w) ==
  LET type == IF v.type = w.type THEN v.type ELSE "float"
      l == As(type, v).n
      r == As(type, w).n
  IN IF op \in DOMAIN Relation THEN Value("int", Apply(Relation[op], l, r))
     ELSE Value(type, Apply(IF type = "int" THEN Arithmetic[op] ELSE FloatOpOf[Arithmetic[op]], l, r))

(***************************************************************************)
(* A run: env, mem, the calls made so far, the value computed last, and    *)
(* out: "go", "return" or "exit".                                          *)
(***************************************************************************)
Then(s, F(_)) == IF s.out = "go" THEN F(s) ELSE s
Gives(s, v)   == [s EXCEPT !.val = v]

(* The declared types of the functions that can be called, and the replies.*)
Calling(s, name, args) ==
  LET k == Len(s.calls) + 1
      n == IF k \in DOMAIN s.replies THEN s.replies[k] ELSE 0
  IN [s EXCEPT !.calls = Append(@, [name |-> name, args |-> args]),
               !.val = Value(s.funs[name].type, n)]

(* Where a variable or element lies; an index below zero ends the program. *)
RECURSIVE Eval(_, _)
Place(var, s) ==
  LET x == s.env[var.id] IN
  IF var.expression = nullptr THEN Gives(s, [type |-> x.type, cell |-> <<x.obj, 0>>])
  ELSE Then(Eval(var.expression, s),
            LAMBDA t : LET i == As("int", t.val).n IN
                       IF i < 0 THEN [Calling(t, "neg_idx_except", << >>) EXCEPT !.out = "exit"]
                       ELSE Gives(t, [type |-> x.type, cell |-> <<x.obj, i>>]))

IsBinary(e) == \/ e.k = "simple-expression" /\ e.additive_expression_r # nullptr
               \/ e.k = "additive-expression" /\ e.additive_expression # nullptr
               \/ e.k = "term" /\ e.term # nullptr
Left(e)  == CASE e.k = "simple-expression"   -> e.additive_expression_l
              [] e.k = "additive-expression" -> e.additive_expression
              [] e.k = "term"                -> e.term
Right(e) == CASE e.k = "simple-expression"   -> e.additive_expression_r
              [] e.k = "additive-expression" -> e.term
              [] e.k = "term"                -> e.factor
Only(e)  == IF e.k = "simple-expression" THEN Left(e) ELSE Right(e)

Eval(e, s) ==
  CASE e.k = "num" -> Gives(s, Value(e.type, e.val))
    [] e.k = "var" ->
         IF e.expression = nullptr /\ s.env[e.id].array THEN Gives(s, [pointer |-> s.env[e.id].obj])
         ELSE Then(Place(e, s), LAMBDA t : Gives(t, Value(t.val.type, t.mem[t.val.cell])))
    [] e.k = "assign-expression" ->
         Then(Eval(e.expression, s), LAMBDA t :
           Then(Place(e.var, t), LAMBDA u :
             LET v == As(u.val.type, t.val)
             IN Gives([u EXCEPT !.mem[u.val.cell] = v.n], v)))
    [] e.k = "call" ->
         LET params == s.funs[e.id].params
             arg(k, v) == IF "pointer" \in DOMAIN v THEN v ELSE As(params[k].type, v)
             evaluated[k \in 0 .. Len(e.args)] ==
               IF k = 0 THEN [s |-> s, args |-> << >>]
               ELSE LET before == evaluated[k - 1]
                        t == Then(before.s, LAMBDA u : Eval(e.args[k], u))
                    IN [s |-> t, args |-> IF t.out = "go" THEN Append(before.args, arg(k, t.val))
                                                          ELSE before.args]
             all == evaluated[Len(e.args)]
         IN Then(all.s, LAMBDA t : Calling(t, e.id, all.args))
    [] IsBinary(e) -> Then(Eval(Left(e), s), LAMBDA t :
                        Then(Eval(Right(e), t), LAMBDA u : Gives(u, Combine(e.op, t.val, u.val))))
    [] OTHER -> Eval(Only(e), s)

(* A fresh object for each execution of a declaration.                     *)
Declare(s, d) ==
  LET obj == LocalObj(s.fresh) IN
  [s EXCEPT !.fresh = @ + 1,
            !.env = (d.id :> [type |-> d.type, obj |-> obj, array |-> d.num # 0]) @@ @,
            !.mem = [c \in Cells(obj, d.num) |-> 0] @@ @]

RECURSIVE Exec(_, _)
Exec(st, s) ==
  CASE st.k = "compound-stmt" ->
         LET declared[i \in 0 .. Len(st.local_declarations)] ==
               IF i = 0 THEN s ELSE Declare(declared[i - 1], st.local_declarations[i])
             done[i \in 0 .. Len(st.statement_list)] ==
               IF i = 0 THEN declared[Len(st.local_declarations)]
               ELSE Then(done[i - 1], LAMBDA t : Exec(st.statement_list[i], t))
         IN [done[Len(st.statement_list)] EXCEPT !.env = s.env]
    [] st.k = "expression-stmt" -> IF st.expression = nullptr THEN s ELSE Eval(st.expression, s)
    [] st.k = "selection-stmt" ->
         Then(Eval(st.expression, s), LAMBDA t :
           CASE t.val.n # 0                 -> Exec(st.if_statement, t)
             [] st.else_statement # nullptr -> Exec(st.else_statement, t)
             [] OTHER                       -> t)
    [] st.k = "iteration-stmt" ->
         Then(Eval(st.expression, s), LAMBDA t :
           IF t.val.n = 0 THEN t ELSE Then(Exec(st.statement, t), LAMBDA u : Exec(st, u)))
    [] st.k = "return-stmt" ->
         IF st.expression = nullptr THEN [s EXCEPT !.out = "return"]
         ELSE Then(Eval(st.expression, s),
                   LAMBDA t : [Gives(t, As(t.type, t.val)) EXCEPT !.out = "return"])

(* A function run on its arguments.  Running off the end returns zero.     *)
Declarations(program, k) ==
  {program.declarations[i] : i \in {j \in DOMAIN program.declarations : program.declarations[j].k = k}}

MeaningOf(program, library, f, actuals, replies) ==
  LET ps == f.params
      scalars == {i \in DOMAIN ps : ~ ps[i].isarray}
      vars == Declarations(program, "var-declaration")
      param(x) == CHOOSE i \in DOMAIN ps : ps[i].id = x
      obj(i)  == IF ps[i].isarray THEN ParamObj(i) ELSE LocalObj(i)
      globals == [x \in {d.id : d \in vars} |->
                    LET d == CHOOSE v \in vars : v.id = x
                    IN [type |-> d.type, obj |-> GlobalObj(x), array |-> d.num # 0]]
      funs == library @@ [x \in {d.id : d \in Declarations(program, "fun-declaration")} |->
                CHOOSE d \in Declarations(program, "fun-declaration") : d.id = x]
      s == [env |-> [x \in {ps[i].id : i \in DOMAIN ps} |->
                       [type |-> ps[param(x)].type, obj |-> obj(param(x)),
                        array |-> ps[param(x)].isarray]] @@ globals,
            mem |-> [c \in UNION {Cells(GlobalObj(d.id), d.num) : d \in vars}
                           \cup UNION {Cells(ParamObj(i), 2) : i \in DOMAIN ps \ scalars}
                           \cup {<<LocalObj(i), 0>> : i \in scalars} |->
                       IF c[1] \in {LocalObj(i) : i \in scalars} THEN actuals[c[1].local] ELSE 0],
            calls |-> << >>, replies |-> replies, funs |-> funs,
            fresh |-> Len(ps) + 1, type |-> f.type, val |-> Value("int", 0), out |-> "go"]
      t == Exec(f.compound_stmt, s)
  IN IF t.out = "go" THEN Gives(t, Value(f.type, 0)) ELSE t
=============================================================================

----------------------------- MODULE MCFrontEnd -----------------------------
(***************************************************************************)
(* Small programs.  Each has the globals g and h, a function f with one    *)
(* parameter of each kind, and in f's body two statements out of the lists *)
(* below; g0 is there to be called with every kind of argument.            *)
(***************************************************************************)
EXTENDS FrontEnd

N(n)   == [k |-> "num", type |-> "int", val |-> n]
Flo(n)   == [k |-> "num", type |-> "float", val |-> n]
Term(f)  == [k |-> "term", term |-> nullptr, op |-> "OP_MUL", factor |-> f]
Add(t)   == [k |-> "additive-expression", additive_expression |-> nullptr, op |-> "OP_PLUS", term |-> t]
Simple(a) == [k |-> "simple-expression", additive_expression_l |-> a, op |-> "OP_LE",
              additive_expression_r |-> nullptr]
E(f) == Simple(Add(Term(f)))                          \* a factor as an expression
V(x)    == [k |-> "var", id |-> x, expression |-> nullptr]
At(x, e) == [k |-> "var", id |-> x, expression |-> e]
F(x, es) == [k |-> "call", id |-> x, args |-> es]
Times(l, op, r) == Add([k |-> "term", term |-> Term(l), op |-> op, factor |-> r])
Plus(l, op, r)  == [k |-> "additive-expression", additive_expression |-> Add(Term(l)), op |-> op,
                    term |-> Term(r)]
Rel(l, op, r)   == [k |-> "simple-expression", additive_expression_l |-> Add(Term(l)), op |-> op,
                    additive_expression_r |-> Add(Term(r))]
Set(v, e) == [k |-> "assign-expression", var |-> v, expression |-> e]

Do(e)        == [k |-> "expression-stmt", expression |-> e]
Skip         == Do(nullptr)
Ret(e)       == [k |-> "return-stmt", expression |-> e]
IfElse(e, s, t) == [k |-> "selection-stmt", expression |-> e, if_statement |-> s, else_statement |-> t]
Loop(e, s)   == [k |-> "iteration-stmt", expression |-> e, statement |-> s]
Block_(ds, ss) == [k |-> "compound-stmt", local_declarations |-> ds, statement_list |-> ss]
Decl(type, x, n) == [k |-> "var-declaration", type |-> type, id |-> x, num |-> n]
Param(type, x, isarray) == [type |-> type, id |-> x, isarray |-> isarray]
Def(type, x, ps, body) == [k |-> "fun-declaration", type |-> type, id |-> x, params |-> ps,
                           compound_stmt |-> body]

(* x : int and y : float are parameters, a : float[] too; g : int and      *)
(* h : float[2] are globals.                                               *)
First == {
  \* g = y = x;
  Do(Set(V("g"), Set(V("y"), E(V("x"))))),
  \* if (x < y) return x; else return y / 2.0;
  IfElse(Rel(V("x"), "OP_LT", V("y")), Ret(E(V("x"))), Ret(Simple(Times(V("y"), "OP_DIV", Flo(4))))),
  \* { int g; g = x; while (g) { g = g - 1; if (y) return g; } a[1] = g; }
  Block_(<<Decl("int", "g", 0)>>,
    <<Do(Set(V("g"), E(V("x")))),
      Loop(Rel(V("g"), "OP_GT", N(0)),
        Block_(<< >>, <<Do(Set(V("g"), Simple(Plus(V("g"), "OP_MINUS", N(1))))),
                        IfElse(E(V("y")), Ret(E(V("g"))), nullptr)>>)),
      Do(Set(At("a", E(N(1))), E(V("g"))))>>),
  \* h[a[h[0]] + x] = h[1] = y;      (an index inside the index of what is assigned to)
  Do(Set(At("h", Simple(Plus(At("a", E(At("h", E(N(0))))), "OP_PLUS", V("x")))),
         Set(At("h", E(N(1))), E(V("y"))))) }

Second == {
  Skip,
  \* g0(y, x, a); g0(g, h[0], h);
  Block_(<< >>, <<Do(E(F("g0", <<E(V("y")), E(V("x")), E(V("a"))>>))),
                  Do(E(F("g0", <<E(V("g")), E(At("h", E(N(0)))), E(V("h"))>>)))>>),
  \* { { return; } g = 1; } is cut off after the return; so is what follows.
  Block_(<< >>, <<Block_(<< >>, <<Ret(E(V("y")))>>), Do(Set(V("g"), E(N(1))))>>),
  \* if (g >= input()) { g = x * y; } else if (y != 0) ; outputFloat((x == y) + a[0]);
  Block_(<< >>,
    <<IfElse(Rel(V("g"), "OP_GE", F("input", << >>)),
        Block_(<< >>, <<Do(Set(V("g"), Simple(Times(V("x"), "OP_MUL", V("y")))))>>),
        IfElse(Rel(V("y"), "OP_NEQ", N(0)), Skip, nullptr)),
      Do(E(F("outputFloat", <<Simple(Plus(Rel(V("x"), "OP_EQ", V("y")), "OP_PLUS", At("a", E(N(0)))))>>)))>>),
  \* { float l[2]; l[y] = g0(input(), input(), l); g = l[x]; }
  Block_(<<Decl("float", "l", 2)>>,
    <<Do(Set(At("l", E(N(0))), E(V("y")))), Do(Set(At("l", E(N(1))), E(V("x")))),
      Do(Set(At("l", E(V("y"))), E(F("g0", <<E(F("input", << >>)), E(F("input", << >>)), E(V("l"))>>)))),
      Do(Set(V("g"), E(At("l", E(V("x"))))))>>) }

(* The bodies of a void function.                                          *)
NoResult == {
  \* if (g0(x, y, a)) return; output(y);
  <<IfElse(E(F("g0", <<E(V("x")), E(V("y")), E(V("a"))>>)), Ret(nullptr), nullptr),
    Do(E(F("output", <<E(V("y"))>>)))>>,
  \* while (x < y) if (a[g]) return; else x = x + 1;
  <<Loop(Rel(V("x"), "OP_LT", V("y")),
      IfElse(E(At("a", E(V("g")))), Ret(nullptr),
             Do(Set(V("x"), Simple(Plus(V("x"), "OP_PLUS", N(1)))))))>> }

Params == <<Param("int", "x", FALSE), Param("float", "y", FALSE), Param("float", "a", TRUE)>>
Program(type, body) ==
  [k |-> "program", declarations |->
     <<Decl("int", "g", 0),
       Def("float", "g0", Params, Block_(<< >>, << >>)),
       Decl("float", "h", 2),
       Def(type, "f", Params, Block_(<< >>, body)),
       Def("void", "main", << >>, Block_(<< >>, << >>))>>]

MCPrograms == {Program("int", <<s, t>>) : s \in First, t \in Second}
              \cup {Program("float", <<s, t>>) : s \in First, t \in Second}
              \cup {Program("void", body) : body \in NoResult}
MCIntInputs   == {-1, 0, 1}
MCFloatInputs == {-3, 0, 1, 3}
MCReplies == {0, 3}
=============================================================================

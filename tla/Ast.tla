--------------------------------- MODULE Ast ---------------------------------
(***************************************************************************)
(* From the parse tree to the AST.  Derive gives the tree the parser       *)
(* builds for a program (the actions of syntax_analyzer.y, whose lists are *)
(* all left-recursive); Transform is AST::transform_node_iter, which reads *)
(* that tree by the names and the numbers of children.                     *)
(***************************************************************************)
EXTENDS Integers, Sequences, SequencesExt

nullptr == [k |-> "nullptr"]
Token(text) == [name |-> text, children |-> << >>]
Numeral(n)  == [value |-> n, children |-> << >>]      \* stoi, stof

(* node() of syntax_analyzer.y gives a node without children an epsilon.   *)
node(name, children) ==
  [name |-> name, children |-> IF children = << >> THEN <<Token("epsilon")>> ELSE children]

OpName == [OP_LT |-> "<", OP_LE |-> "<=", OP_GE |-> ">=", OP_GT |-> ">",
           OP_EQ |-> "==", OP_NEQ |-> "!=", OP_PLUS |-> "+", OP_MINUS |-> "-",
           OP_MUL |-> "*", OP_DIV |-> "/"]
OpNamed(text) == CHOOSE op \in DOMAIN OpName : OpName[op] = text

-----------------------------------------------------------------------------
(***************************************************************************)
(* The parse tree of a program.                                            *)
(***************************************************************************)
type_specifier(type) == node("type-specifier", <<Token(type)>>)

(* list -> list item, from an empty list; or list -> list , item from one. *)
EmptyOrMore(name, items) ==
  FoldLeft(LAMBDA list, item : node(name, <<list, item>>), node(name, << >>), items)
OneOrMore(name, between, items) ==
  FoldLeft(LAMBDA list, item : node(name, <<list>> \o between \o <<item>>),
           node(name, <<items[1]>>), Tail(items))

param_node(p) ==
  node("param", <<type_specifier(p.type), Token(p.id)>>
                \o (IF p.isarray THEN <<Token("["), Token("]")>> ELSE << >>))

IsStatement(n)  == n.k \in {"expression-stmt", "compound-stmt", "selection-stmt",
                            "iteration-stmt", "return-stmt"}
(* What a factor only holds in parentheses.                                *)
IsExpression(n) == n.k \in {"assign-expression", "simple-expression"}

RECURSIVE Derive(_)
Statement(n)  == node("statement", <<Derive(n)>>)
Expression(n) == IF n.k = "assign-expression" THEN Derive(n) ELSE node("expression", <<Derive(n)>>)
Factor(n) ==
  node("factor", CASE IsExpression(n) -> <<Token("("), Expression(n), Token(")")>>
                   [] n.k = "num" /\ n.type = "int"   -> <<node("integer", <<Numeral(n.val)>>)>>
                   [] n.k = "num" /\ n.type = "float" -> <<node("float", <<Numeral(n.val)>>)>>
                   [] OTHER -> <<Derive(n)>>)
Binary(name, opname, op, left, right) ==
  node(name, <<left, node(opname, <<Token(OpName[op])>>), right>>)
All(derive(_), nodes) == [i \in 1 .. Len(nodes) |-> derive(nodes[i])]

Derive(n) ==
  CASE n.k = "program" ->
         node("program", <<OneOrMore("declaration-list", << >>,
           All(LAMBDA d : node("declaration", <<Derive(d)>>), n.declarations))>>)
    [] n.k = "var-declaration" ->
         node(n.k, <<type_specifier(n.type), Token(n.id)>>
                   \o (IF n.num = 0 THEN << >> ELSE <<Token("["), Numeral(n.num), Token("]")>>)
                   \o <<Token(";")>>)
    [] n.k = "fun-declaration" ->
         node(n.k, <<type_specifier(n.type), Token(n.id), Token("("),
                     node("params", <<IF n.params = << >> THEN Token("void")
                       ELSE OneOrMore("param-list", <<Token(",")>>, All(param_node, n.params))>>),
                     Token(")"), Derive(n.compound_stmt)>>)
    [] n.k = "compound-stmt" ->
         node(n.k, <<Token("{"),
                     EmptyOrMore("local-declarations", All(Derive, n.local_declarations)),
                     EmptyOrMore("statement-list", All(Statement, n.statement_list)),
                     Token("}")>>)
    [] n.k = "expression-stmt" ->
         node(n.k, (IF n.expression = nullptr THEN << >> ELSE <<Expression(n.expression)>>)
                   \o <<Token(";")>>)
    [] n.k = "selection-stmt" ->
         node(n.k, <<Token("if"), Token("("), Expression(n.expression), Token(")"),
                     Statement(n.if_statement)>>
                   \o (IF n.else_statement = nullptr THEN << >>
                       ELSE <<Token("else"), Statement(n.else_statement)>>))
    [] n.k = "iteration-stmt" ->
         node(n.k, <<Token("while"), Token("("), Expression(n.expression), Token(")"),
                     Statement(n.statement)>>)
    [] n.k = "return-stmt" ->
         node(n.k, <<Token("return")>>
                   \o (IF n.expression = nullptr THEN << >> ELSE <<Expression(n.expression)>>)
                   \o <<Token(";")>>)
    [] n.k = "assign-expression" ->
         node("expression", <<Derive(n.var), Token("="), Expression(n.expression)>>)
    [] n.k = "simple-expression" ->
         IF n.additive_expression_r = nullptr THEN node(n.k, <<Derive(n.additive_expression_l)>>)
         ELSE Binary(n.k, "relop", n.op, Derive(n.additive_expression_l), Derive(n.additive_expression_r))
    [] n.k = "additive-expression" ->
         IF n.additive_expression = nullptr THEN node(n.k, <<Derive(n.term)>>)
         ELSE Binary(n.k, "addop", n.op, Derive(n.additive_expression), Derive(n.term))
    [] n.k = "term" ->
         IF n.term = nullptr THEN node(n.k, <<Factor(n.factor)>>)
         ELSE Binary(n.k, "mulop", n.op, Derive(n.term), Factor(n.factor))
    [] n.k = "var" ->
         node(n.k, <<Token(n.id)>>
                   \o (IF n.expression = nullptr THEN << >>
                       ELSE <<Token("["), Expression(n.expression), Token("]")>>))
    [] n.k = "call" ->
         node(n.k, <<Token(n.id), Token("("),
                     node("args", IF n.args = << >> THEN << >>
                                  ELSE <<OneOrMore("arg-list", <<Token(",")>>, All(Expression, n.args))>>),
                     Token(")")>>)

-----------------------------------------------------------------------------
(***************************************************************************)
(* AST::transform_node_iter.                                               *)
(***************************************************************************)
(* The items of a left-recursive list, pushed from the last to the first   *)
(* and popped again; at its bottom an item, an epsilon or void.            *)
RECURSIVE Flatten(_, _)
(* Mutant: a queue where the code has its stack.                           *)
MutantFlatten(list, width) ==
  IF Len(list.children) = width
  THEN <<list.children[width]>> \o Flatten(list.children[1], width)
  ELSE SelectSeq(list.children, LAMBDA c : c.name # "epsilon")

Flatten(list, width) ==
  IF Len(list.children) = width
  THEN Append(Flatten(list.children[1], width), list.children[width])
  ELSE SelectSeq(list.children, LAMBDA c : c.name # "epsilon")

RECURSIVE Transform(_)
Name(n, i) == n.children[i].name
Arity(n)   == Len(n.children)
Sub(n, i)  == Transform(n.children[i])
Optional(n, present, i) == IF present THEN Sub(n, i) ELSE nullptr
Each(items) == [i \in DOMAIN items |-> Transform(items[i])]

(* The name of the token below a type-specifier or an operator.            *)
Text(n, i) == n.children[i].children[1].name
NotVoid(type) == IF type = "int" THEN "int" ELSE "float"

TransformDeclaration(n) ==
  CASE n.name = "program" ->
         [k |-> n.name, declarations |-> Each(Flatten(n.children[1], 2))]
    [] n.name = "declaration" -> Sub(n, 1)
    [] n.name = "var-declaration" ->
         [k |-> n.name, type |-> NotVoid(Text(n, 1)), id |-> Name(n, 2),
          num |-> IF Arity(n) = 6 THEN n.children[4].value ELSE 0]
    [] n.name = "fun-declaration" ->
         [k |-> n.name, type |-> Text(n, 1), id |-> Name(n, 2),
          params |-> Each(Flatten(n.children[4].children[1], 3)), compound_stmt |-> Sub(n, 6)]
    [] n.name = "param" ->
         [type |-> NotVoid(Text(n, 1)), id |-> Name(n, 2), isarray |-> Arity(n) > 2]

TransformStatement(n) ==
  CASE n.name = "compound-stmt" ->
         [k |-> n.name, local_declarations |-> Each(Flatten(n.children[2], 2)),
          statement_list |-> Each(Flatten(n.children[3], 2))]
    [] n.name = "statement" -> Sub(n, 1)
    [] n.name = "expression-stmt" -> [k |-> n.name, expression |-> Optional(n, Arity(n) = 2, 1)]
    [] n.name = "selection-stmt" ->
         [k |-> n.name, expression |-> Sub(n, 3), if_statement |-> Sub(n, 5),
          else_statement |-> Optional(n, Arity(n) = 7, 7)]
    [] n.name = "iteration-stmt" ->
         [k |-> n.name, expression |-> Sub(n, 3), statement |-> Sub(n, 5)]
    [] n.name = "return-stmt" -> [k |-> n.name, expression |-> Optional(n, Arity(n) = 3, 2)]

(* An operator alone stays unset; unset stands for any value here.         *)
Operator(n, unset) == IF Arity(n) = 3 THEN OpNamed(Text(n, 2)) ELSE unset

TransformExpression(n) ==
  CASE n.name = "expression" ->
         IF Arity(n) = 1 THEN Sub(n, 1)
         ELSE [k |-> "assign-expression", var |-> Sub(n, 1), expression |-> Sub(n, 3)]
    [] n.name = "var" ->
         [k |-> n.name, id |-> Name(n, 1), expression |-> Optional(n, Arity(n) = 4, 3)]
    [] n.name = "simple-expression" ->
         [k |-> n.name, additive_expression_l |-> Sub(n, 1), op |-> Operator(n, "OP_LE"),
          additive_expression_r |-> Optional(n, Arity(n) = 3, 3)]
    [] n.name = "additive-expression" ->
         [k |-> n.name, additive_expression |-> Optional(n, Arity(n) = 3, 1),
          op |-> Operator(n, "OP_PLUS"), term |-> Sub(n, Arity(n))]
    [] n.name = "term" ->
         [k |-> n.name, term |-> Optional(n, Arity(n) = 3, 1),
          op |-> Operator(n, "OP_MUL"), factor |-> Sub(n, Arity(n))]
    [] n.name = "factor"  -> IF Arity(n) = 3 THEN Sub(n, 2) ELSE Sub(n, 1)
    [] n.name = "integer" -> [k |-> "num", type |-> "int", val |-> n.children[1].value]
    [] n.name = "float"   -> [k |-> "num", type |-> "float", val |-> n.children[1].value]
    [] n.name = "call" ->
         [k |-> n.name, id |-> Name(n, 1),
          args |-> IF Text(n, 3) = "arg-list" THEN Each(Flatten(n.children[3].children[1], 3))
                                              ELSE << >>]

Transform(n) ==
  CASE n.name \in {"program", "declaration", "var-declaration", "fun-declaration", "param"} ->
         TransformDeclaration(n)
    [] n.name \in {"compound-stmt", "statement", "expression-stmt", "selection-stmt",
                   "iteration-stmt", "return-stmt"} -> TransformStatement(n)
    [] OTHER -> TransformExpression(n)
=============================================================================

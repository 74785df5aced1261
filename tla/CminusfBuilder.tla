--------------------------- MODULE CminusfBuilder ---------------------------
(***************************************************************************)
(* CminusfBuilder (src/src/cminusfc/cminusf_builder.cpp): one visit method *)
(* per class of AST node.  The calls of accept() in progress are a stack   *)
(* of frames: "visit" enters a node; every other frame is the rest of a    *)
(* visit method after one of its calls, with the locals it still needs.    *)
(* A node is a record whose field k names its class; a missing child is    *)
(* nullptr.                                                                *)
(***************************************************************************)
EXTENDS IR

VARIABLES
  program,               \* the AST; never changes once it is parsed
  work,                  \* the calls in progress, innermost first
  result,                \* what the last visit returned
  scope,                 \* Scope::inner, the global scope first
  builder,               \* the IRBuilder and the function it is building
  require_lvalue, pre_enter_scope,        \* context
  functions, globals     \* of the module, in list order

vars == <<program, work, result, scope, builder, require_lvalue,
          pre_enter_scope, functions, globals>>
context == <<require_lvalue, pre_enter_scope>>
module  == <<functions, globals>>

nullptr == [k |-> "nullptr"]
CONST_INT(n) == Const(n, Int32)
CONST_FP(n)  == Const(n, Float)

Visit(n)          == [do |-> "visit", n |-> n, saved |-> << >>]
Frame(do, n, saved) == [do |-> do, n |-> n, saved |-> saved]

Node  == Head(work).n
Saved == Head(work).saved
Visiting(k)  == work # << >> /\ Head(work).do = "visit" /\ Node.k = k
Resuming(do) == work # << >> /\ Head(work).do = do

Call(frames)    == work' = frames \o Tail(work)
Return(val)     == Call(<< >>) /\ result' = val
Visits(nodes)   == [i \in 1 .. Len(nodes) |-> Visit(nodes[i])]

TypeOf == [int |-> Int32, float |-> Float, void |-> Void]

(***************************************************************************)
(* Scope.  push() does nothing when the innermost scope has the name.      *)
(***************************************************************************)
Bind(names, x, val) ==
  IF x \in DOMAIN names THEN names
  ELSE [y \in DOMAIN names \cup {x} |-> IF y = x THEN val ELSE names[y]]
push(x, val) == scope' = [scope EXCEPT ![Len(scope)] = Bind(@, x, val)]
(* Mutant: searched from the outside in.                                   *)
MutantInnermost(x) == CHOOSE i \in 1 .. Len(scope) :
                  /\ x \in DOMAIN scope[i]
                  /\ \A j \in 1 .. i - 1 : x \notin DOMAIN scope[j]
Innermost(x) == CHOOSE i \in 1 .. Len(scope) :
                  /\ x \in DOMAIN scope[i]
                  /\ \A j \in i + 1 .. Len(scope) : x \notin DOMAIN scope[j]
find(x)      == scope[Innermost(x)][x]
enter(names) == scope' = Append(scope, names)
exit         == scope' = SubSeq(scope, 1, Len(scope) - 1)
in_global    == Len(scope) = 1

Library ==
  [input          |-> Func("input", Int32, << >>),
   output         |-> Func("output", Void, <<Int32>>),
   outputFloat    |-> Func("outputFloat", Void, <<Float>>),
   neg_idx_except |-> Func("neg_idx_except", Void, << >>)]

(* ast.run_visitor(builder), on a new builder.                             *)
Build(ast) ==
  /\ program = ast
  /\ work = <<Visit(ast)>>
  /\ result = nullptr
  /\ scope = <<Library>>
  /\ builder = Builder(Function("none", Void, << >>))
  /\ require_lvalue = FALSE /\ pre_enter_scope = FALSE
  /\ functions = << >> /\ globals = << >>

(***************************************************************************)
(* Declarations                                                            *)
(***************************************************************************)
VisitProgram ==
  /\ Visiting("program")
  /\ Call(Visits(Node.declarations))
  /\ UNCHANGED <<program, result, scope, builder, context, module>>

VisitVarDeclaration ==
  /\ Visiting("var-declaration")
  /\ LET ty    == TypeOf[Node.type]
         whole == IF Node.num = 0 THEN ty ELSE Array(ty, Node.num)
         b     == create_alloca(builder, whole)
     IN IF in_global
        THEN /\ globals' = Append(globals, Global(Node.id, whole))
             /\ push(Node.id, Global(Node.id, whole))
             /\ UNCHANGED builder
        ELSE /\ builder' = b
             /\ push(Node.id, b.val)
             /\ UNCHANGED globals
  /\ Return(nullptr)
  /\ UNCHANGED <<program, context, functions>>

(* The parameters are bound in the scope the body will use; each gets an   *)
(* alloca in the entry block and is stored there.                          *)
VisitFunDeclaration ==
  /\ Visiting("fun-declaration")
  /\ LET ps    == Node.params
         ty    == [i \in 1 .. Len(ps) |->
                     IF ps[i].isarray THEN Ptr(TypeOf[ps[i].type]) ELSE TypeOf[ps[i].type]]
         func  == Func(Node.id, TypeOf[Node.type], ty)
         start == Builder(Function(Node.id, TypeOf[Node.type], ty))
         built[i \in 0 .. Len(ps)] ==
           IF i = 0 THEN [b |-> start, names |-> [x \in {} |-> nullptr]]
           ELSE LET alloc == create_alloca(built[i - 1].b, ty[i])
                IN [b |-> create_store(alloc, Arg(i, ty[i]), alloc.val),
                    names |-> Bind(built[i - 1].names, ps[i].id, alloc.val)]
     IN /\ builder' = [built[Len(ps)].b EXCEPT !.ok = @ /\ builder.ok]
        /\ scope' = <<Bind(scope[1], Node.id, func), built[Len(ps)].names>>
  /\ pre_enter_scope' = TRUE
  /\ Call(<<Visit(Node.compound_stmt), Frame("end function", Node, << >>)>>)
  /\ UNCHANGED <<program, result, require_lvalue, module>>

(* The default result that ends a function or leaves it on a bad index.    *)
DefaultReturn(b) ==
  CASE b.fun.ret = Void  -> create_void_ret(b)
    [] b.fun.ret = Float -> create_ret(b, CONST_FP(0))
    [] OTHER             -> create_ret(b, CONST_INT(0))

(* Mutant: a function is taken to end with a return of its own.            *)
MutantEndFunction ==
  /\ Resuming("end function")
  /\ functions' = Append(functions, builder.fun)
  /\ exit
  /\ Return(nullptr)
  /\ UNCHANGED <<program, builder, context, globals>>

EndFunction ==
  /\ Resuming("end function")
  /\ builder' = IF is_terminated(Block(builder)) THEN builder ELSE DefaultReturn(builder)
  /\ functions' = Append(functions, builder'.fun)
  /\ exit
  /\ Return(nullptr)
  /\ UNCHANGED <<program, context, globals>>

(***************************************************************************)
(* Statements                                                              *)
(***************************************************************************)
(* A function's body shares the scope of its parameters.                   *)
VisitCompoundStmt ==
  /\ Visiting("compound-stmt")
  /\ pre_enter_scope' = FALSE
  /\ IF pre_enter_scope THEN UNCHANGED scope ELSE enter([x \in {} |-> nullptr])
  /\ LET own  == ~ pre_enter_scope
         rest == Node.statement_list
     IN Call(Visits(Node.local_declarations)
             \o (IF rest = << >> THEN << >> ELSE <<Visit(rest[1])>>)
             \o <<Frame("next statement", IF rest = << >> THEN rest ELSE Tail(rest), own)>>)
  /\ UNCHANGED <<program, result, builder, require_lvalue, module>>

(* Nothing after a statement that ended the block is translated.           *)
NextStatement ==
  /\ Resuming("next statement")
  /\ Node # << >> /\ ~ is_terminated(Block(builder))
  /\ Call(<<Visit(Head(Node)), Frame("next statement", Tail(Node), Saved)>>)
  /\ UNCHANGED <<program, result, scope, builder, context, module>>

EndCompound ==
  /\ Resuming("next statement")
  /\ Node = << >> \/ is_terminated(Block(builder))
  /\ IF Saved THEN exit ELSE UNCHANGED scope
  /\ Return(nullptr)
  /\ UNCHANGED <<program, builder, context, module>>

VisitExpressionStmt ==
  /\ Visiting("expression-stmt")
  /\ IF Node.expression = nullptr
     THEN Return(nullptr)
     ELSE Call(<<Visit(Node.expression)>>) /\ UNCHANGED result
  /\ UNCHANGED <<program, scope, builder, context, module>>

(* The condition: compare with zero, in the type of the value.             *)
NotZero(b, val) ==
  IF IsInteger(val.ty) THEN create_cmp(b, "ne", val, CONST_INT(0))
                       ELSE create_cmp(b, "fne", val, CONST_FP(0))

(* Mutant: the branch is created whether or not a return came before it.   *)
MutantBranchAlways(b, target) == create_br(b, target)

(* A block that already ended keeps its own ending.                        *)
BranchUnlessTerminated(b, target) ==
  IF is_terminated(Block(b)) THEN b ELSE create_br(b, target)

VisitSelectionStmt ==
  /\ Visiting("selection-stmt")
  /\ Call(<<Visit(Node.expression), Frame("if", Node, << >>)>>)
  /\ UNCHANGED <<program, result, scope, builder, context, module>>

If ==
  /\ Resuming("if")
  /\ LET new   == NewBlock(NewBlock(builder))
         trueBB == NewBlocks(new) - 1
         contBB == NewBlocks(new)
         cmp   == NotZero(new, result)
         more  == NewBlock(cmp)
         falseBB == NewBlocks(more)
     IN IF Node.else_statement = nullptr
        THEN /\ builder' = set_insert_point(create_cond_br(cmp, cmp.val, trueBB, contBB), trueBB)
             /\ Call(<<Visit(Node.if_statement), Frame("end if", Node, <<contBB>>)>>)
        ELSE /\ builder' = set_insert_point(create_cond_br(more, more.val, trueBB, falseBB), trueBB)
             /\ Call(<<Visit(Node.if_statement), Frame("else", Node, <<contBB, falseBB>>)>>)
  /\ UNCHANGED <<program, result, scope, context, module>>

Else ==
  /\ Resuming("else")
  /\ builder' = set_insert_point(BranchUnlessTerminated(builder, Saved[1]), Saved[2])
  /\ Call(<<Visit(Node.else_statement), Frame("end if", Node, <<Saved[1]>>)>>)
  /\ UNCHANGED <<program, result, scope, context, module>>

EndIf ==
  /\ Resuming("end if")
  /\ builder' = set_insert_point(BranchUnlessTerminated(builder, Saved[1]), Saved[1])
  /\ Return(nullptr)
  /\ UNCHANGED <<program, scope, context, module>>

VisitIterationStmt ==
  /\ Visiting("iteration-stmt")
  /\ LET new == NewBlock(builder)
         exprBB == NewBlocks(new)
     IN /\ builder' = set_insert_point(BranchUnlessTerminated(new, exprBB), exprBB)
        /\ Call(<<Visit(Node.expression), Frame("while", Node, <<exprBB>>)>>)
  /\ UNCHANGED <<program, result, scope, context, module>>

While ==
  /\ Resuming("while")
  /\ LET new == NewBlock(NewBlock(builder))
         trueBB == NewBlocks(new) - 1
         contBB == NewBlocks(new)
         cmp == NotZero(new, result)
     IN /\ builder' = set_insert_point(create_cond_br(cmp, cmp.val, trueBB, contBB), trueBB)
        /\ Call(<<Visit(Node.statement), Frame("end while", Node, <<Saved[1], contBB>>)>>)
  /\ UNCHANGED <<program, result, scope, context, module>>

(* Mutant: the body goes round without testing the condition again.        *)
MutantEndWhile ==
  /\ Resuming("end while")
  /\ builder' = set_insert_point(BranchUnlessTerminated(builder, Saved[2] - 1), Saved[2])
  /\ Return(nullptr)
  /\ UNCHANGED <<program, scope, context, module>>

EndWhile ==
  /\ Resuming("end while")
  /\ builder' = set_insert_point(BranchUnlessTerminated(builder, Saved[1]), Saved[2])
  /\ Return(nullptr)
  /\ UNCHANGED <<program, scope, context, module>>

VisitReturnStmt ==
  /\ Visiting("return-stmt")
  /\ IF Node.expression = nullptr
     THEN builder' = create_void_ret(builder) /\ Return(nullptr)
     ELSE /\ Call(<<Visit(Node.expression), Frame("return", Node, << >>)>>)
          /\ UNCHANGED <<result, builder>>
  /\ UNCHANGED <<program, scope, context, module>>

ReturnValue ==
  /\ Resuming("return")
  /\ LET ret == builder.fun.ret
         b   == CASE ret = result.ty -> Give(builder, result)
                  [] ret = Int32     -> create_fptosi(builder, result)
                  [] OTHER           -> create_sitofp(builder, result)
     IN builder' = create_ret(b, b.val)
  /\ Return(nullptr)
  /\ UNCHANGED <<program, scope, context, module>>

(***************************************************************************)
(* Expressions                                                             *)
(***************************************************************************)
VisitNum ==
  /\ Visiting("num")
  /\ Return(Const(Node.val, TypeOf[Node.type]))
  /\ UNCHANGED <<program, scope, builder, context, module>>

(* Mutant: the flag is left for the visit of the index to take.            *)
MutantVisitVar ==
  /\ Visiting("var")
  /\ LET var  == find(Node.id)
         b    == IF Elem(var.ty).t = "array"
                 THEN create_gep(builder, var, <<CONST_INT(0), CONST_INT(0)>>)
                 ELSE create_load(builder, var)
     IN CASE Node.expression # nullptr ->
               /\ Call(<<Visit(Node.expression), Frame("index", require_lvalue, var)>>)
               /\ UNCHANGED <<result, builder, require_lvalue>>
          [] require_lvalue -> Return(var) /\ require_lvalue' = FALSE /\ UNCHANGED builder
          [] OTHER          -> Return(b.val) /\ builder' = b /\ UNCHANGED require_lvalue
  /\ UNCHANGED <<program, scope, pre_enter_scope, module>>

(* The flag is taken before the index is visited: it is not for the index. *)
VisitVar ==
  /\ Visiting("var")
  /\ require_lvalue' = FALSE
  /\ LET var  == find(Node.id)
         b    == IF Elem(var.ty).t = "array"
                 THEN create_gep(builder, var, <<CONST_INT(0), CONST_INT(0)>>)
                 ELSE create_load(builder, var)
     IN CASE Node.expression # nullptr ->
               /\ Call(<<Visit(Node.expression), Frame("index", require_lvalue, var)>>)
               /\ UNCHANGED <<result, builder>>
          [] require_lvalue -> Return(var) /\ UNCHANGED builder
          [] OTHER          -> Return(b.val) /\ builder' = b
  /\ UNCHANGED <<program, scope, pre_enter_scope, module>>

(* A negative index ends the function through neg_idx_except.              *)
CheckIndex(b, index, exceptBB, contBB) ==
  LET cmp    == create_cmp(b, "lt", index, CONST_INT(0))
      branch == create_cond_br(cmp, cmp.val, exceptBB, contBB)
      throw  == create_call(set_insert_point(branch, exceptBB), find("neg_idx_except"), << >>)
  IN set_insert_point(DefaultReturn(throw), contBB)

Address(b, var, index) ==
  CASE Elem(var.ty).t = "array" -> create_gep(b, var, <<CONST_INT(0), index>>)
    [] Elem(var.ty).t = "ptr"   -> LET load == create_load(b, var)
                                   IN create_gep(load, load.val, <<index>>)
    [] OTHER                    -> create_gep(b, var, <<index>>)

Index ==
  /\ Resuming("index")
  /\ LET new   == NewBlock(NewBlock(builder))
         index == IF result.ty = Float THEN create_fptosi(new, result) ELSE Give(new, result)
         inside == CheckIndex(index, index.val, NewBlocks(new) - 1, NewBlocks(new))
         ptr   == Address(inside, Saved, index.val)
         b     == IF Node THEN ptr ELSE create_load(ptr, ptr.val)
     IN builder' = b /\ Return(b.val)
  /\ require_lvalue' = IF Node THEN FALSE ELSE require_lvalue
  /\ UNCHANGED <<program, scope, pre_enter_scope, module>>

VisitAssignExpression ==
  /\ Visiting("assign-expression")
  /\ Call(<<Visit(Node.expression), Frame("assign", Node, << >>)>>)
  /\ UNCHANGED <<program, result, scope, builder, context, module>>

AssignTo ==
  /\ Resuming("assign")
  /\ require_lvalue' = TRUE
  /\ Call(<<Visit(Node.var), Frame("store", Node, result)>>)
  /\ UNCHANGED <<program, result, scope, builder, pre_enter_scope, module>>

(* To the other arithmetic type.                                           *)
Convert(b, val) ==
  IF val.ty = Int32 THEN create_sitofp(b, val) ELSE create_fptosi(b, val)

Store ==
  /\ Resuming("store")
  /\ LET b == IF Elem(result.ty) = Saved.ty THEN Give(builder, Saved)
                                            ELSE Convert(builder, Saved)
     IN builder' = create_store(b, b.val, result) /\ Return(b.val)
  /\ UNCHANGED <<program, scope, context, module>>

(* The layers of a binary expression: one operand alone passes through.    *)
Operands(left, right, alone) ==
  /\ IF left = nullptr \/ right = nullptr
     THEN Call(<<Visit(alone)>>)
     ELSE Call(<<Visit(left), Frame("right operand", Node, right)>>)
  /\ UNCHANGED <<program, result, scope, builder, context, module>>

VisitSimpleExpression ==
  /\ Visiting("simple-expression")
  /\ Operands(Node.additive_expression_l, Node.additive_expression_r, Node.additive_expression_l)

VisitAdditiveExpression ==
  /\ Visiting("additive-expression")
  /\ Operands(Node.additive_expression, Node.term, Node.term)

VisitTerm ==
  /\ Visiting("term")
  /\ Operands(Node.term, Node.factor, Node.factor)

RightOperand ==
  /\ Resuming("right operand")
  /\ Call(<<Visit(Saved), Frame(Node.k, Node, result)>>)
  /\ UNCHANGED <<program, result, scope, builder, context, module>>

(* An int beside a float becomes a float.                                  *)
promote(b, l, r) ==
  IF l.ty = r.ty THEN [b |-> b, l |-> l, r |-> r, is_int |-> IsInteger(l.ty)]
  ELSE LET cast == create_sitofp(b, IF IsInteger(l.ty) THEN l ELSE r)
       IN [b |-> cast, is_int |-> FALSE,
           l |-> IF IsInteger(l.ty) THEN cast.val ELSE l,
           r |-> IF IsInteger(l.ty) THEN r ELSE cast.val]

IntOp   == [OP_LT |-> "lt", OP_LE |-> "le", OP_GE |-> "ge", OP_GT |-> "gt",
            OP_EQ |-> "eq", OP_NEQ |-> "ne", OP_PLUS |-> "add", OP_MINUS |-> "sub",
            OP_MUL |-> "mul", OP_DIV |-> "sdiv"]
FloatOp == [OP_LT |-> "flt", OP_LE |-> "fle", OP_GE |-> "fge", OP_GT |-> "fgt",
            OP_EQ |-> "feq", OP_NEQ |-> "fne", OP_PLUS |-> "fadd", OP_MINUS |-> "fsub",
            OP_MUL |-> "fmul", OP_DIV |-> "fdiv"]

Compare ==
  /\ Resuming("simple-expression")
  /\ LET p   == promote(builder, Saved, result)
         cmp == create_cmp(p.b, IF p.is_int THEN IntOp[Node.op] ELSE FloatOp[Node.op], p.l, p.r)
         b   == create_zext(cmp, cmp.val)
     IN builder' = b /\ Return(b.val)
  /\ UNCHANGED <<program, scope, context, module>>

Calculate ==
  /\ Resuming("additive-expression") \/ Resuming("term")
  /\ LET p == promote(builder, Saved, result)
         b == create_binary(p.b, IF p.is_int THEN IntOp[Node.op] ELSE FloatOp[Node.op], p.l, p.r)
     IN builder' = b /\ Return(b.val)
  /\ UNCHANGED <<program, scope, context, module>>

(* The arguments one by one, each converted before the next is visited.    *)
CallOrNextArg(b, args) ==
  LET i == Len(args) + 1
      done == create_call(b, find(Node.id), args)
  IN IF i > Len(Node.args)
     THEN builder' = done /\ Return(done.val)
     ELSE /\ builder' = b /\ UNCHANGED result
          /\ Call(<<Visit(Node.args[i]), Frame("argument", Node, args)>>)

VisitCall ==
  /\ Visiting("call")
  /\ CallOrNextArg(builder, << >>)
  /\ UNCHANGED <<program, scope, context, module>>

Argument ==
  /\ Resuming("argument")
  /\ LET param == find(Node.id).ty.params[Len(Saved) + 1]
         b == IF result.ty.t = "ptr" \/ result.ty = param THEN Give(builder, result)
                                                         ELSE Convert(builder, result)
     IN CallOrNextArg(b, Append(Saved, b.val))
  /\ UNCHANGED <<program, scope, context, module>>

Next ==
  \/ VisitProgram \/ VisitVarDeclaration \/ VisitFunDeclaration \/ EndFunction
  \/ VisitCompoundStmt \/ NextStatement \/ EndCompound \/ VisitExpressionStmt
  \/ VisitSelectionStmt \/ If \/ Else \/ EndIf
  \/ VisitIterationStmt \/ While \/ EndWhile \/ VisitReturnStmt \/ ReturnValue
  \/ VisitNum \/ VisitVar \/ Index \/ VisitAssignExpression \/ AssignTo \/ Store
  \/ VisitSimpleExpression \/ VisitAdditiveExpression \/ VisitTerm
  \/ RightOperand \/ Compare \/ Calculate \/ VisitCall \/ Argument
=============================================================================

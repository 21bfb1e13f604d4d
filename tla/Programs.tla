------------------------------ MODULE Programs ------------------------------
(***************************************************************************)
(* Small compilation units for the runs, built as parser.y builds them.    *)
(***************************************************************************)
EXTENDS Ast, SequencesExt

Num(i)    == [kind |-> "Number", int |-> i]
Truth(b)  == [kind |-> "Bool", bool |-> b]
Str       == [kind |-> "String", text |-> "t"]
Nil       == [kind |-> "Nil"]
Func(f, params) == [kind |-> "FuncCall", func |-> f, params |-> params]
Id(x)     == [kind |-> "Designator", ident |-> x, items |-> <<>>]
Not(f)    == [kind |-> "Negation", inner |-> f]
Paren(e)  == [kind |-> "Paren", inner |-> e]

TermOf(f, ops)        == [kind |-> "Term", start |-> f, ops |-> ops]
SimpleOf(sign, t, ops) ==
  [kind |-> "SimpleExpr", unary |-> sign, start |-> t, ops |-> ops]
ExprOf(s, ops)        == [kind |-> "Expr", start |-> s, ops |-> ops]

AsTerm(f)   == TermOf(f, <<>>)
AsSimple(f) == SimpleOf("None", AsTerm(f), <<>>)
AsExpr(f)   == ExprOf(AsSimple(f), <<>>)

ItemAt(es) == [kind |-> "ArrayAccess", exprs |-> es]
ItemOf(x)  == [kind |-> "Designator", ident |-> x, items |-> <<ItemAt(<<AsExpr(Num(1))>>)>>]

\* f op g, at the level of precedence the operator has.
Product(f, op, g)  ==
  ExprOf(SimpleOf("None", TermOf(f, <<[op |-> op, rhs |-> g]>>), <<>>), <<>>)
Sum2(f, op, g) ==
  ExprOf(SimpleOf("None", AsTerm(f), <<[op |-> op, rhs |-> AsTerm(g)]>>), <<>>)
Relation2(f, op, g) == ExprOf(AsSimple(f), <<[op |-> op, rhs |-> AsSimple(g)]>>)

\* f op g op2 h, of one level.
Product3(f, op, g, op2, h) ==
  ExprOf(SimpleOf("None",
    TermOf(f, <<[op |-> op, rhs |-> g], [op |-> op2, rhs |-> h]>>), <<>>), <<>>)
Sum3(f, op, g, op2, h) ==
  ExprOf(SimpleOf("None", AsTerm(f),
    <<[op |-> op, rhs |-> AsTerm(g)], [op |-> op2, rhs |-> AsTerm(h)]>>), <<>>)

Signed(sign, f) == ExprOf(SimpleOf(sign, AsTerm(f), <<>>), <<>>)

AssignTo(d, e)   == [kind |-> "Assignment", target |-> d, expr |-> e]
Call(p, params)  == [kind |-> "ProcCall", proc |-> p, params |-> params]
WriteInt(e)      == Call("write_int", <<e>>)
Compound(stmts)  == [kind |-> "StmtSeq", stmts |-> stmts]
Nothing          == [kind |-> "Empty"]
IfThen(e, s)     == [kind |-> "If", cond |-> e, then |-> s, else |-> <<>>]
IfElse(e, s, t)  == [kind |-> "If", cond |-> e, then |-> s, else |-> <<t>>]
WhileDo(e, s)    == [kind |-> "While", cond |-> e, body |-> s]
RepeatUntil(s, e) == [kind |-> "Repeat", body |-> s, cond |-> e]
CaseOf(e, cases) == [kind |-> "Case", expr |-> e, cases |-> cases]
ForTo(x, e, f, s) == ForStmt(x, e, "To", f, s)
NewOf(x)         == [kind |-> "Memory", op |-> "New", ident |-> x]

Named(t)         == [kind |-> "Named", name |-> t]
VarsOf(names, type) == [kind |-> "VarDecl", idents |-> names, type |-> type]
Vars(names, t)   == VarsOf(names, Named(t))

ConstOf(sign, f) == [kind |-> "ConstExpr", unary |-> sign, factor |-> f]
ConstNum(i)      == [kind |-> "ConstNumber", int |-> i]
Constant(x, c)   == [kind |-> "ConstDef", ident |-> x, expr |-> c]
Synonym(x, t)    == [kind |-> "TypeDef", ident |-> x, type |-> t]

BlockOf(consts, types, vs, subprogs, body) ==
  [kind |-> "Block",
   decls |-> [kind |-> "Declarations", consts |-> consts, types |-> types,
              vars |-> vs, subprogs |-> subprogs],
   body |-> Compound(body)]

ProcOf(p, params, block) ==
  [kind |-> "ProcDecl", heading |-> [name |-> p, params |-> params], block |-> block]

Module(block) == [kind |-> "ProgramModule", name |-> "p", block |-> block]

Program(vs, body) == Module(BlockOf(<<>>, <<>>, vs, <<>>, body))

AConstant   == Constant("k", ConstOf("None", ConstNum(1)))
AProcedure  == ProcOf("pr", <<>>, BlockOf(<<>>, <<>>, <<>>, <<>>, <<Nothing>>))

\* The nodes that are fields of a node, or elements of one.
Children(n) ==
  CASE n.kind \in {"Paren", "Negation"} -> <<n.inner>>
    [] n.kind \in ChainKinds   -> <<n.start>> \o [k \in DOMAIN n.ops |-> n.ops[k].rhs]
    [] n.kind \in {"ProcCall", "FuncCall"} -> n.params
    [] n.kind = "Designator"   -> n.items
    [] n.kind = "ArrayAccess"  -> n.exprs
    [] n.kind = "Assignment"   -> <<n.target, n.expr>>
    [] n.kind = "StmtSeq"      -> n.stmts
    [] n.kind = "If"           -> <<n.cond, n.then>> \o n.else
    [] n.kind \in {"While", "Repeat"} -> <<n.cond, n.body>>
    [] n.kind = "For"          -> <<n.start, n.finish, n.body>>
    [] n.kind = "Case"         -> <<n.expr>> \o [k \in DOMAIN n.cases |-> n.cases[k].stmt]
                                    \o FlattenSeq([k \in DOMAIN n.cases |-> n.cases[k].labels])
    [] n.kind = "ConstExpr"    -> <<n.factor>>
    [] n.kind = "ConstDef"     -> <<n.expr>>
    [] n.kind \in {"TypeDef", "VarDecl"} -> <<n.type>>
    [] n.kind = "Array"        -> <<n.item>> \o [k \in DOMAIN n.ranges |-> n.ranges[k].start]
                                    \o [k \in DOMAIN n.ranges |-> n.ranges[k].finish]
    [] n.kind = "Set"          -> <<n.range.start, n.range.finish>>
    [] n.kind = "Record"       -> [k \in DOMAIN n.fields |-> n.fields[k].type]
    [] n.kind \in {"ProcDecl", "ProgramModule"} -> <<n.block>>
    [] n.kind = "FuncDecl"     -> <<n.proc>>
    [] n.kind = "Block"        -> <<n.decls, n.body>>
    [] n.kind = "Declarations" -> n.consts \o n.types \o n.vars \o n.subprogs
    [] OTHER -> <<>>

\* The k-th child of a node, or a node without children.
Child(n, k) == IF k \in DOMAIN Children(n) THEN Children(n)[k] ELSE Nothing

MaxChildren == 8

\* All nodes of some trees, level by level, and the empty statement.  (A UNION
\* of the children would be the same, and a hundred times slower in TLC.)
RECURSIVE NodesOfUnits(_)
NodesOfUnits(ns) ==
  IF ns = {Nothing} THEN ns ELSE ns \cup NodesOfUnits({Child(n, k) : n \in ns, k \in 1..MaxChildren})

ASSUME ChildrenAreFew ==
  \A n \in Node : Len(Children(n)) <= MaxChildren

Names == {"Integer", "Char", "String", "i", "j", "c", "d", "s", "q", "t",
          "write_int", "write_str", "other", "f", "k", "p", "pr"}

-----------------------------------------------------------------------------
(* Declarations: names that clash or hide a type, unknown and unsupported  *)
(* types, sections that are refused.                                       *)

NameLists == {<<"i">>, <<"i", "j">>, <<"j", "i", "j">>, <<"Integer">>, <<"j", "Char">>}

ArrayType1 == [kind |-> "Array", item |-> Named("Integer"),
               ranges |-> <<[start |-> ConstNum(1), finish |-> ConstNum(2)]>>]

DeclTypes == {Named(t) : t \in {"Integer", "Char", "String", "q", "i"}} \cup {ArrayType1}

Decls == {VarsOf(names, type) : names \in NameLists, type \in DeclTypes}

DeclBody == <<AssignTo(Id("i"), AsExpr(Id("j")))>>

DeclUnits ==
  {Program(vs, DeclBody) : vs \in {<<>>} \cup {<<d>> : d \in Decls} \cup (Decls \X Decls)}
  \cup {Module(BlockOf(consts, <<>>, <<Vars(<<"i", "j">>, "Integer")>>, subprogs, DeclBody)) :
          consts \in {<<>>, <<AConstant>>}, subprogs \in {<<>>, <<AProcedure>>}}

-----------------------------------------------------------------------------
(* Statements: every kind, in sequences and blocks.                        *)

AllVars == <<Vars(<<"i", "j">>, "Integer"), Vars(<<"c">>, "Char"), Vars(<<"s">>, "String")>>

SomeStmts ==
  { AssignTo(Id("i"), AsExpr(Num(2))),
    AssignTo(Id("j"), Sum2(Id("i"), "Plus", Num(1))),
    AssignTo(ItemOf("i"), AsExpr(Num(1))),
    AssignTo(Id("q"), AsExpr(Num(1))),
    AssignTo(Id("Char"), AsExpr(Id("q"))),
    AssignTo(Id("c"), AsExpr(Num(5))),
    WriteInt(AsExpr(Id("i"))),
    WriteInt(AsExpr(Truth(TRUE))),
    Call("write_int", <<>>),
    Call("write_str", <<AsExpr(Str)>>),
    Call("write_str", <<AsExpr(Id("s")), AsExpr(Id("s"))>>),
    Call("other", <<>>),
    Compound(<<Nothing, WriteInt(AsExpr(Id("j")))>>),
    IfThen(AsExpr(Id("q")), WriteInt(AsExpr(Id("q")))),
    ForTo("q", AsExpr(Num(1)), AsExpr(Nil), Call("other", <<>>)) }

StmtUnits ==
  {Program(AllVars, body) :
     body \in {<<s, s2>> : s, s2 \in SomeStmts}
              \cup {<<s, AssignTo(Id("i"), AsExpr(Id("j"))), s2>> : s, s2 \in SomeStmts}}

-----------------------------------------------------------------------------
(* Expressions: every factor, every operator on every pair of types, and   *)
(* chains, where an error may come before or after another.                *)

Operand2 == {Num(3), Truth(TRUE), Id("i"), Id("c"), Id("s"), Id("q"),
             Not(Id("i")), Paren(Relation2(Id("i"), "Less", Id("j")))}

Operand3 == {Num(2), Id("i"), Id("q"), Truth(FALSE)}

OtherFactors == {Str, Nil, Func("f", <<AsExpr(Id("q"))>>), ItemOf("i"), ItemOf("q"),
                 Id("Integer"), Not(Truth(FALSE)), Not(Id("s")), Not(Not(Id("c"))),
                 Paren(AsExpr(Str))}

SomeExprs ==
  {AsExpr(f) : f \in Operand2 \cup OtherFactors}
  \cup {Signed(sign, Id("i")) : sign \in {"Plus", "Minus"}}
  \cup {Product(f, op, g) : f, g \in Operand2, op \in {"Multiply", "And", "RealDiv"}}
  \cup {Sum2(f, op, g) : f, g \in Operand2, op \in {"Plus", "Or"}}
  \cup {Relation2(f, op, g) : f, g \in Operand2, op \in {"Less", "In"}}
  \cup {Product(f, op, g) : f, g \in Operand3, op \in {"IntDiv", "Modulo"}}
  \cup {Sum2(f, "Minus", g) : f, g \in Operand3}
  \cup {Relation2(f, op, g) : f, g \in Operand3,
          op \in {"Equal", "NotEqual", "Greater", "LessEqual", "GreaterEqual"}}
  \cup {Product3(f, op, g, op2, h) : f, g, h \in Operand3,
          op \in {"Multiply", "And"}, op2 \in {"IntDiv", "RealDiv", "And"}}
  \cup {Sum3(f, op, g, "Or", h) : f, g, h \in Operand3, op \in {"Minus", "Or"}}

ExprUnits == {Program(AllVars, <<AssignTo(Id("i"), e)>>) : e \in SomeExprs}

-----------------------------------------------------------------------------
(* Integer programs, to be run.                                            *)

IntOperands == {Num(0), Num(3), Id("i"), Id("j")}

IntExprs ==
  {AsExpr(f) : f \in {Num(5), Not(Id("i")), Paren(Sum2(Id("j"), "Plus", Num(4)))}}
  \cup {Product(f, op, g) : f, g \in IntOperands, op \in {"Multiply", "IntDiv", "Modulo"}}
  \cup {Sum2(f, op, g) : f, g \in IntOperands, op \in {"Plus", "Minus"}}
  \cup {Product3(Id("i"), "IntDiv", Id("j"), "Multiply", Num(2)),
        Sum3(Id("j"), "Minus", Id("i"), "Minus", Num(6)),
        Product(Paren(Sum2(Num(0), "Minus", Num(7))), "IntDiv", Id("j")),
        Product(Num(4), "IntDiv", Paren(Sum2(Num(0), "Minus", Num(1))))}

Starts == { <<>>, <<AssignTo(Id("i"), AsExpr(Num(5)))>>,
            <<AssignTo(Id("i"), AsExpr(Num(0))), AssignTo(Id("c"), AsExpr(Id("d")))>> }

Printed3 == {AsExpr(Num(5)), Product(Id("j"), "Multiply", Id("j")), Sum2(Id("i"), "Minus", Id("j"))}

IntUnits ==
  {Program(<<Vars(<<"j", "i">>, "Integer"), Vars(<<"c", "d">>, "Char")>>,
           start \o <<AssignTo(Id("j"), e),
                      Compound(<<WriteInt(e2), Nothing>>), WriteInt(AsExpr(Id("j")))>>) :
     start \in Starts, e \in IntExprs, e2 \in Printed3}
=============================================================================

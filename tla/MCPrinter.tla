----------------------------- MODULE MCPrinter -----------------------------
(***************************************************************************)
(* The dump of small units, and a reader of dumps.                         *)
(***************************************************************************)
EXTENDS Printer, Programs

-----------------------------------------------------------------------------
(* The units: every statement, nested; every factor and operator; every    *)
(* declaration.                                                            *)

Designators ==
  {Id("i"), ItemOf("i"),
   [kind |-> "Designator", ident |-> "j",
    items |-> <<[kind |-> "FieldAccess", field |-> "f"],
                ItemAt(<<AsExpr(Num(1)), Sum2(Id("i"), "Plus", Num(2))>>),
                [kind |-> "PointerAccess"]>>]}

PrintedFactors ==
  Designators \cup {Num(3), Truth(FALSE), Str, Nil, Not(Not(Id("i"))),
    Paren(Sum2(Num(1), "Minus", Id("j"))), Func("f", <<>>),
    Func("f", <<AsExpr(Id("i")), Relation2(Id("i"), "In", Id("j"))>>)}

PrintedExprs ==
  {AsExpr(f) : f \in PrintedFactors}
  \cup {Product(f, op, Num(2)) : f \in PrintedFactors, op \in {"Multiply", "And"}}
  \cup {Product3(Id("i"), op, f, "IntDiv", Num(2)) : f \in PrintedFactors, op \in {"Modulo"}}
  \cup {Sum3(f, "Plus", Num(2), op, f) : f \in PrintedFactors, op \in {"Minus", "Or"}}
  \cup {Relation2(f, "Less", Paren(AsExpr(f))) : f \in PrintedFactors}
  \cup {Signed(sign, f) : sign \in UnaryOp, f \in PrintedFactors}
  \cup {ExprOf(SimpleOf("Minus", AsTerm(Num(1)), <<[op |-> "Plus", rhs |-> AsTerm(f)]>>),
               <<[op |-> "Equal", rhs |-> SimpleOf("Plus", AsTerm(f), <<>>)]>>) : f \in {Num(1), Id("i")}}

I == AsExpr(Id("i"))

Leaves == {Nothing, NewOf("i"), AssignTo(Id("i"), I), WriteInt(I), Call("other", <<>>),
           CaseOf(I, <<[labels |-> <<ConstOf("None", ConstNum(1))>>, stmt |-> Nothing]>>),
           RepeatUntil(Compound(<<WriteInt(I)>>), I)}

Nested(inner) ==
  {Compound(<<s, t>>) : s \in inner, t \in inner}
  \cup {IfThen(I, s) : s \in inner} \cup {IfElse(I, s, t) : s, t \in inner}
  \cup {WhileDo(I, s) : s \in inner} \cup {ForTo("i", I, I, s) : s \in inner}

Shallow == Nested(Leaves)

Deep == Nested({IfElse(I, Nothing, WriteInt(I)), ForTo("i", I, I, Nothing), WriteInt(I),
                WhileDo(I, IfThen(I, Compound(<<Nothing>>)))})

ConstFactors == {[kind |-> "ConstIdent", ident |-> "k"], ConstNum(0),
                 [kind |-> "ConstBool", bool |-> TRUE], [kind |-> "ConstNil"]}

SomeConsts == {<<Constant("k", ConstOf(sign, f)), AConstant>> : sign \in Sign, f \in ConstFactors}

SomeTypes ==
  {Named("Char"), ArrayType1, [kind |-> "Pointer", ref |-> "t"],
   [kind |-> "Set", range |-> [start |-> ConstNum(0), finish |-> ConstNum(3)]],
   [kind |-> "Record", fields |-> <<[idents |-> <<"f", "k">>, type |-> Named("t")]>>]}

PrinterUnits ==
  {Program(<<>>, <<AssignTo(Id("i"), e), AssignTo(d, I)>>) : e \in PrintedExprs, d \in {Id("i"), ItemOf("j")}}
  \cup {Program(<<>>, <<s>>) : s \in Leaves \cup Shallow \cup Deep}
  \cup {Module(BlockOf(cs, <<Synonym("t", t)>>, <<VarsOf(<<"i", "j">>, t), Vars(<<"c">>, "t")>>,
                       <<AProcedure>>, <<WriteInt(I)>>)) : cs \in SomeConsts, t \in SomeTypes}

PrinterTree  == NodesOfUnits(PrinterUnits)
PrinterNodes == PrinterTree
PrinterPrograms == PrinterUnits

-----------------------------------------------------------------------------
(* A reader: the lines that stand one deeper under a line are its children.*)

RECURSIVE Forest(_, _)
Forest(ls, d) ==
  LET heads == SetToSortSeq({k \in DOMAIN ls : ls[k].indent = d}, <)
      last(i) == IF i = Len(heads) THEN Len(ls) ELSE heads[i + 1] - 1
  IN [i \in DOMAIN heads |->
        [words |-> ls[heads[i]].words, kids |-> Forest(SubSeq(ls, heads[i] + 1, last(i)), d + 1)]]

\* The node a line and its children describe.
RECURSIVE Read(_)
Read(t) ==
  LET w == t.words[1]
      kids == [k \in DOMAIN t.kids |-> Read(t.kids[k])]
      arg == t.words[2]
      sign == IF Len(t.words) = 1 THEN "None"
              ELSE IF arg = "unary_op=plus" THEN "Plus" ELSE "Minus"
      ops == [k \in 1..(Len(kids) - 1) \div 2 |->
                [op |-> t.kids[2 * k].words[1], rhs |-> kids[2 * k + 1]]]
  IN CASE w = "Factor number" -> [kind |-> "Number", int |-> arg]
       [] w = "Factor Bool"   -> [kind |-> "Bool", bool |-> arg = "true"]
       [] w = "Factor string" -> [kind |-> "String", text |-> arg]
       [] w = "Factor Nil"    -> Nil
       [] w = "Factor Not"    -> Not(kids[1])
       [] w = "FuncCall"      -> Func(arg, kids)
       [] w = "ProcCall"      -> Call(arg, kids)
       [] w = "Designator"    -> [kind |-> w, ident |-> arg, items |-> kids]
       [] w = "ArrayAccess"   -> ItemAt(kids)
       [] w = "Term"          -> TermOf(kids[1], ops)
       [] w = "SimpleExpr"    -> SimpleOf(sign, kids[1], ops)
       [] w = "Expr"          -> ExprOf(kids[1], <<[op |-> arg, rhs |-> kids[2]]>>)
       [] w = "Assignment"    -> AssignTo(kids[1], kids[2])
       [] w = "For"           -> [kind |-> w, ident |-> arg, parts |-> kids]
       [] w = "Declarations"  -> [kind |-> w, parts |-> kids]
       [] w \in {"StmtSeq", "If", "While", "Block"} -> [kind |-> w, parts |-> kids]
       [] w \in {"TypeDef", "VarDecl"} -> [kind |-> w, names |-> Tail(t.words)]
       [] w = "ProgramModule" -> [kind |-> w, name |-> arg, parts |-> kids]
       [] w = "ConstDef"      -> [kind |-> w, name |-> arg, parts |-> kids]
       [] w = "ConstExpr"     -> [kind |-> w, factor |-> Tail(t.words)]
       [] OTHER               -> [kind |-> w]

\* A node as the reader can know it: without parentheses and levels of
\* expression that hold one thing, and without what has an empty visit.
RECURSIVE Known(_)
Known(n) ==
  LET Visible(parts) ==
        LET shown == SelectSeq(parts, LAMBDA m : m.kind \notin SilentKinds)
        IN [k \in DOMAIN shown |-> Known(shown[k])]
      ops == [k \in DOMAIN n.ops |-> [op |-> n.ops[k].op, rhs |-> Known(n.ops[k].rhs)]]
      Of1(parts) == [kind |-> n.kind, parts |-> Visible(parts)]
  IN CASE n.kind = "Number"   -> [n EXCEPT !.int = ToString(n.int)]
       [] n.kind = "Paren"    -> Known(n.inner)
       [] n.kind = "Negation" -> Not(Known(n.inner))
       [] n.kind = "FuncCall" -> Func(n.func, Visible(n.params))
       [] n.kind = "ProcCall" -> Call(n.proc, Visible(n.params))
       [] n.kind = "Designator"  -> [n EXCEPT !.items = Visible(n.items)]
       [] n.kind = "ArrayAccess" -> ItemAt(Visible(n.exprs))
       [] n.kind \in ChainKinds  ->
            IF n.ops = <<>> /\ (n.kind = "SimpleExpr" => n.unary = "None")
            THEN Known(n.start)
            ELSE [n EXCEPT !.start = Known(n.start), !.ops = ops]
       [] n.kind = "Assignment" -> AssignTo(Known(n.target), Known(n.expr))
       [] n.kind = "For" -> [kind |-> "For", ident |-> n.ident,
                             parts |-> Visible(<<n.start, n.finish, n.body>>)]
       [] n.kind = "StmtSeq" -> Of1(n.stmts)
       [] n.kind = "If"      -> Of1(<<n.cond, n.then>> \o n.else)
       [] n.kind = "While"   -> Of1(<<n.cond, n.body>>)
       [] n.kind = "Block"   -> Of1(<<n.decls, n.body>>)
       [] n.kind = "Declarations"  -> Of1(n.consts \o n.types \o n.vars \o n.subprogs)
       [] n.kind = "VarDecl" -> [kind |-> n.kind, names |-> n.idents]
       [] n.kind = "TypeDef" -> [kind |-> n.kind, names |-> <<n.ident>>]
       [] n.kind = "ProgramModule" -> [kind |-> n.kind, name |-> n.name, parts |-> Visible(<<n.block>>)]
       [] n.kind = "ConstDef"  -> [kind |-> n.kind, name |-> n.ident, parts |-> <<Known(n.expr)>>]
       [] n.kind = "ConstExpr" ->
            [kind |-> n.kind, factor |-> SignWords(n.unary) \o Heading(n.factor)]
       [] OTHER -> n

\* The dump determines the program, up to what the printer leaves out by its
\* empty visits and by forwarding: who reads the lines by their indentation
\* finds every operand under its operator, in order, and every statement under
\* the one it belongs to.
DumpCanBeRead ==
  phase = "printed" =>
    Len(Forest(stream_, 0)) = 1 /\ Read(Forest(stream_, 0)[1]) = Known(unit)
=============================================================================

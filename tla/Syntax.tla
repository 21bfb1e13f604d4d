------------------------------- MODULE Syntax -------------------------------
(***************************************************************************)
(* The concrete syntax, from the tree down: the sentences that mean a      *)
(* tree.  Parser has to find the way back.                                 *)
(*                                                                         *)
(* A token is a tuple of its kind and, for some kinds, its value; a        *)
(* sentence is a sequence of tokens.  Sentences(c, v) are the sentences    *)
(* that mean the value v of the category c: a node, or a list or a part of *)
(* one that is no node.  The parameter is any solution of the equation     *)
(* Sentences(c, v) = SentencesOf(c, v), which says it for v from the parts *)
(* of v; TLC takes the smallest.                                           *)
(***************************************************************************)
EXTENDS Ast

CONSTANTS
  Sentences(_, _),
  EndsOpen(_),     \* whether an else behind a statement would be taken into it
  ParameterLists   \* the parameters of a program, which the tree does not keep

(***************************************************************************)
(* Tokens.                                                                 *)
(***************************************************************************)
\* The values of CharSubrange and CharacterConst are never used: their actions throw.
HasValue == {"identifier", "string", "number"}

\* The kinds of tokens; "invalid" is what the scanner throws a syntax_error at.
Kinds ==
  HasValue
  \cup {":=", "-", "+", "*", "/", "div", "mod", "=", "<>", "<", ">", "<=", ">=", "in", "not", "or",
        "and", "(", ")", "[", "]", "..", ".", ",", ":", ";", "^"}
  \cup {"array", "begin", "case", "const", "do", "downto", "end", "file", "for", "function", "if",
        "nil", "of", "packed", "procedure", "program", "record", "repeat", "set", "then", "else",
        "to", "type", "until", "var", "while", "with", "False", "True", "New", "Dispose"}
  \cup {"CharSubrange", "CharacterConst", "EOF", "invalid"}

Token ==
  ({"identifier"} \X Ident) \cup ({"string"} \X STRING) \cup ({"number"} \X (0..MaxLiteral))
  \cup {<<kind>> : kind \in Kinds \ (HasValue \cup {"EOF"})}

-----------------------------------------------------------------------------
A ** B == {s \o t : s \in A, t \in B}

Word(kind) == {<< <<kind>> >>}

Valued(kind, v) == {<< <<kind, v>> >>}

Name(x) == Valued("identifier", x)

Tree(n) == Sentences("node", n)

-----------------------------------------------------------------------------
(* Lists.                                                                  *)

Separated(list, first, separator, v) ==
  IF Len(v) = 1 THEN first ELSE first ** Word(separator) ** Sentences(list, Tail(v))

Terminated(list, v) ==
  IF Len(v) = 1 THEN Tree(v[1]) ** Word(";") ELSE Tree(v[1]) ** Word(";") ** Sentences(list, Tail(v))

Optionally(list, v) == IF v = <<>> THEN {<<>>} ELSE Sentences(list, v)

\* A section of a block, left out if it is empty.
Section(word, list, v) == IF v = <<>> THEN {<<>>} ELSE Word(word) ** Sentences(list, v)

Spelling(op) ==
  CASE op = "Plus" -> "+" [] op = "Minus" -> "-" [] op = "Or" -> "or"
    [] op = "Multiply" -> "*" [] op = "RealDiv" -> "/" [] op = "IntDiv" -> "div"
    [] op = "Modulo" -> "mod" [] op = "And" -> "and"
    [] op = "Equal" -> "=" [] op = "NotEqual" -> "<>" [] op = "Less" -> "<" [] op = "Greater" -> ">"
    [] op = "LessEqual" -> "<=" [] op = "GreaterEqual" -> ">=" [] op = "In" -> "in"

SignOf(sign) == IF sign = "None" THEN {<<>>} ELSE Word(Spelling(sign))

ListSentences(c, v) ==
  CASE c \in {"ConstantDefList", "TypeDefList", "VariableDeclList", "SubprogDeclList"} -> Terminated(c, v)
    [] c = "IdentList" -> Separated(c, Name(v[1]), ",", v)
    [] c \in {"CaseLabelList", "ExpList"} -> Separated(c, Tree(v[1]), ",", v)
    [] c = "StatementList" -> Separated(c, Tree(v[1]), ";", v)
    [] c = "SubrangeList" -> Separated(c, Sentences("Subrange", v[1]), ",", v)
    [] c = "FieldListSequence" -> Separated(c, Sentences("FieldList", v[1]), ";", v)
    [] c = "CaseList" -> Separated(c, Sentences("Case", v[1]), ";", v)
    [] c = "OneFormalParamList" -> Separated(c, Sentences("OneFormalParam", v[1]), ";", v)
    [] c = "DesignatorStuff" -> Tree(v[1]) ** Optionally(c, Tail(v))
    [] c = "Operations" -> Word(Spelling(v[1].op)) ** Tree(v[1].rhs) ** Optionally(c, Tail(v))

PartSentences(c, v) ==
  CASE c = "Subrange" -> Tree(v.start) ** Word("..") ** Tree(v.finish)
    [] c = "FieldList" -> Sentences("IdentList", v.idents) ** Word(":") ** Tree(v.type)
    [] c = "Case" -> Sentences("CaseLabelList", v.labels) ** Word(":") ** Tree(v.stmt)
    [] c = "OneFormalParam" ->
         Word("var") ** Sentences("IdentList", v.idents) ** Word(":") ** Name(v.type)

-----------------------------------------------------------------------------
(* Nodes.                                                                  *)

ActualParameters(v) == Word("(") ** Optionally("ExpList", v) ** Word(")")

FactorSentences(n) ==
  CASE n.kind = "Number"     -> Valued("number", n.int)
    [] n.kind = "String"     -> Valued("string", n.text)
    [] n.kind = "Bool"       -> Word(IF n.bool THEN "True" ELSE "False")
    [] n.kind = "Nil"        -> Word("nil")
    [] n.kind = "Designator" -> Name(n.ident) ** Optionally("DesignatorStuff", n.items)
    [] n.kind = "Paren"      -> Word("(") ** Tree(n.inner) ** Word(")")
    [] n.kind = "Negation"   -> Word("not") ** Tree(n.inner)
    [] n.kind = "FuncCall"   -> Name(n.func) ** ActualParameters(n.params)

ChainSentences(n) ==
  (IF n.kind = "SimpleExpr" THEN SignOf(n.unary) ELSE {<<>>}) ** Tree(n.start) ** Optionally("Operations", n.ops)

DesignatorItemSentences(n) ==
  CASE n.kind = "FieldAccess"   -> Word(".") ** Name(n.field)
    [] n.kind = "ArrayAccess"   -> Word("[") ** Sentences("ExpList", n.exprs) ** Word("]")
    [] n.kind = "PointerAccess" -> Word("^")

ConstSentences(n) ==
  CASE n.kind = "ConstIdent"  -> Name(n.ident)
    [] n.kind = "ConstNumber" -> Valued("number", n.int)
    [] n.kind = "ConstBool"   -> Word(IF n.bool THEN "True" ELSE "False")
    [] n.kind = "ConstNil"    -> Word("nil")
    [] n.kind = "ConstExpr"   -> SignOf(n.unary) ** Tree(n.factor)

TypeSentences(n) ==
  CASE n.kind = "Named"   -> Name(n.name)
    [] n.kind = "Array"   -> Word("array") ** Word("[") ** Sentences("SubrangeList", n.ranges)
                             ** Word("]") ** Word("of") ** Tree(n.item)
    [] n.kind = "Pointer" -> Word("^") ** Name(n.ref)
    [] n.kind = "Record"  -> Word("record") ** Sentences("FieldListSequence", n.fields) ** Word("end")
    [] n.kind = "Set"     -> Word("set") ** Word("of") ** Sentences("Subrange", n.range)

IfThenSentences(n) == Word("if") ** Tree(n.cond) ** Word("then") ** Tree(n.then)

StmtSentences(n) ==
  CASE n.kind = "Assignment" -> Tree(n.target) ** Word(":=") ** Tree(n.expr)
    [] n.kind = "ProcCall"   -> Name(n.proc) ** (ActualParameters(n.params)
                                                 \cup {none \in {<<>>} : n.params = <<>>})
    [] n.kind = "StmtSeq"    -> Word("begin") ** Sentences("StatementList", n.stmts) ** Word("end")
    [] n.kind = "If"         -> IF n.else = <<>> THEN IfThenSentences(n)
                                ELSE IF EndsOpen(n.then) THEN {}
                                ELSE IfThenSentences(n) ** Word("else") ** Tree(n.else[1])
    [] n.kind = "Case"       -> Word("case") ** Tree(n.expr) ** Word("of")
                                ** Sentences("CaseList", n.cases) ** Word("end")
    [] n.kind = "While"      -> Word("while") ** Tree(n.cond) ** Word("do") ** Tree(n.body)
    [] n.kind = "Repeat"     -> Word("repeat") ** Tree(n.body) ** Word("until") ** Tree(n.cond)
    [] n.kind = "For"        -> Word("for") ** Name(n.ident) ** Word(":=") ** Tree(n.start)
                                ** (Word("to") \cup Word("downto")) ** Tree(n.finish)
                                ** Word("do") ** Tree(n.body)
    [] n.kind = "Memory"     -> Word(n.op) ** Word("(") ** Name(n.ident) ** Word(")")
    [] n.kind = "Empty"      -> {<<>>}

EndsOpenOf(s) ==
  CASE s.kind = "If" -> s.else = <<>> \/ EndsOpen(s.else[1])
    [] s.kind \in {"While", "For"} -> EndsOpen(s.body)
    [] OTHER -> FALSE

FormalParameters(v) ==
  IF v = <<>> THEN {<<>>} ELSE Word("(") ** Sentences("OneFormalParamList", v) ** Word(")")

Heading(word, heading) == Word(word) ** Name(heading.name) ** FormalParameters(heading.params)

ProgramParameters ==
  {<<>>} \cup UNION {Word("(") ** Sentences("IdentList", idents) ** Word(")") : idents \in ParameterLists}

DeclSentences(n) ==
  CASE n.kind = "ConstDef" -> Name(n.ident) ** Word("=") ** Tree(n.expr)
    [] n.kind = "TypeDef"  -> Name(n.ident) ** Word("=") ** Tree(n.type)
    [] n.kind = "VarDecl"  -> Sentences("IdentList", n.idents) ** Word(":") ** Tree(n.type)
    [] n.kind = "ProcDecl" -> Heading("procedure", n.heading) ** Word(";") ** Tree(n.block)
    [] n.kind = "FuncDecl" -> Heading("function", n.proc.heading) ** Word(":") ** Name(n.ret)
                              ** Word(";") ** Tree(n.proc.block)
    [] n.kind = "Declarations" ->
         Section("const", "ConstantDefList", n.consts) ** Section("type", "TypeDefList", n.types)
         ** Section("var", "VariableDeclList", n.vars) ** Optionally("SubprogDeclList", n.subprogs)
    [] n.kind = "Block" -> Tree(n.decls) ** Tree(n.body)
    [] n.kind = "ProgramModule" ->
         Word("program") ** Name(n.name) ** ProgramParameters ** Word(";") ** Tree(n.block) ** Word(".")

NodeSentences(n) ==
  CASE n.kind \in FactorKinds -> FactorSentences(n)
    [] n.kind \in ChainKinds  -> ChainSentences(n)
    [] n.kind \in DesignatorItemKinds -> DesignatorItemSentences(n)
    [] n.kind \in ConstKinds  -> ConstSentences(n)
    [] n.kind \in TypeKinds   -> TypeSentences(n)
    [] n.kind \in StmtKinds   -> StmtSentences(n)
    [] n.kind \in DeclKinds   -> DeclSentences(n)

PartCategories == {"Subrange", "FieldList", "Case", "OneFormalParam"}

ListCategories ==
  {"ConstantDefList", "TypeDefList", "VariableDeclList", "SubprogDeclList", "IdentList",
   "CaseLabelList", "ExpList", "StatementList", "SubrangeList", "FieldListSequence", "CaseList",
   "OneFormalParamList", "DesignatorStuff", "Operations"}

SentencesOf(c, v) ==
  CASE c = "node" -> NodeSentences(v)
    [] c \in PartCategories -> PartSentences(c, v)
    [] c \in ListCategories -> ListSentences(c, v)

-----------------------------------------------------------------------------
(***************************************************************************)
(* What the theorems about the parser ask of the parameters: Sentences has *)
(* all that its equation asks for, and no statement ends open without one  *)
(* of the reasons that EndsOpenOf names.                                   *)
(***************************************************************************)
CaseLabels == [labels : Seq(ConstExpr), stmt : Stmt]

Operation == [op : MultOp, rhs : Factor] \cup [op : AddOp, rhs : Term] \cup [op : RelOp, rhs : SimpleExpr]

\* The values of a category.
ValuesOf(c) ==
  CASE c = "node"              -> Node
    [] c = "Subrange"          -> Subrange
    [] c = "FieldList"         -> FieldList
    [] c = "Case"              -> CaseLabels
    [] c = "OneFormalParam"    -> FormalParam
    [] c = "ConstantDefList"   -> Seq(ConstDef) \ {<<>>}
    [] c = "TypeDefList"       -> Seq(TypeDef) \ {<<>>}
    [] c = "VariableDeclList"  -> Seq(VarDecl) \ {<<>>}
    [] c = "SubprogDeclList"   -> Seq(SubprogDecl) \ {<<>>}
    [] c = "IdentList"         -> Seq(Ident) \ {<<>>}
    [] c = "CaseLabelList"     -> Seq(ConstExpr) \ {<<>>}
    [] c = "ExpList"           -> Seq(Expr) \ {<<>>}
    [] c = "StatementList"     -> Seq(Stmt) \ {<<>>}
    [] c = "SubrangeList"      -> Seq(Subrange) \ {<<>>}
    [] c = "FieldListSequence" -> Seq(FieldList) \ {<<>>}
    [] c = "CaseList"          -> Seq(CaseLabels) \ {<<>>}
    [] c = "OneFormalParamList" -> Seq(FormalParam) \ {<<>>}
    [] c = "DesignatorStuff"   -> Seq(DesignatorItem) \ {<<>>}
    [] c = "Operations"        -> Seq(Operation) \ {<<>>}

SyntaxIsClosed ==
  /\ \A c \in {"node"} \cup PartCategories \cup ListCategories : \A v \in ValuesOf(c) :
       SentencesOf(c, v) \subseteq Sentences(c, v) /\ Sentences(c, v) \subseteq Seq(Token)
  /\ \A s \in Stmt : EndsOpen(s) => EndsOpenOf(s)
  /\ Seq(Ident) \ {<<>>} \subseteq ParameterLists
=============================================================================

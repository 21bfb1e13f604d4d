------------------------------- MODULE Parser -------------------------------
(***************************************************************************)
(* parsing/parser.y: the grammar, and what its actions build.              *)
(*                                                                         *)
(* bison, which turns the grammar into an LR automaton, is external: here  *)
(* the same grammar drives a stack of the symbols that are still to come.  *)
(* Alternatives that begin alike are factored, so that one token decides   *)
(* between the rest; the actions come in the order of bison's reductions,  *)
(* and no token is taken that cannot follow.                               *)
(*                                                                         *)
(* A symbol is a kind of token, a name of a rule, or an action ("=...", or *)
(* the enumerator to be pushed).                                           *)
(***************************************************************************)
EXTENDS Syntax, SequencesExt, FiniteSets

CONSTANTS
  Texts   \* what the scanner returns: sequences of tokens, without the last one

ASSUME TextsAreTokens == Texts \subseteq Seq(Token)

-----------------------------------------------------------------------------
(***************************************************************************)
(* The grammar: pairs of a rule and an alternative.  A list is an item,    *)
(* and then either another list, into which the item is put at the front,  *)
(* or nothing.                                                             *)
(***************************************************************************)
OneOf(rule, alternatives) == {rule} \X alternatives

Optional(rule, alternative) == OneOf(rule, {alternative, <<"=empty">>})

SeparatedRule(list, rest, item, separator) ==
  OneOf(list, {<<item, rest>>}) \cup OneOf(rest, {<<separator, list, "=insert">>, <<"=vector">>})

TerminatedRule(list, rest, item) ==
  OneOf(list, {<<item, ";", rest>>}) \cup OneOf(rest, {<<list, "=insert">>, <<"=vector;">>})

RepeatedRule(list, rest, item) ==
  OneOf(list, {<<item, rest>>}) \cup OneOf(rest, {<<list, "=prepend">>, <<"=vector">>})

DeclarationRules ==
  OneOf("CompilationUnit", {<<"ProgramModule", "EOF", "=set_ast">>})
  \cup OneOf("ProgramModule", {<<"program", "identifier", "ProgramParametersOpt", ";",
                                 "Block", ".", "=ProgramModule">>})
  \cup Optional("ProgramParametersOpt", <<"(", "IdentList", ")", "=parameters">>)
  \cup SeparatedRule("IdentList", "IdentListRest", "identifier", ",")
  \cup OneOf("Block", {<<"Declarations", "StatementSequence", "=Block">>})
  \cup OneOf("Declarations", {<<"ConstantDefBlockOpt", "TypeDefBlockOpt", "VariableDeclBlockOpt",
                                "SubprogDeclListOpt", "=Declarations">>})
  \cup Optional("ConstantDefBlockOpt", <<"const", "ConstantDefList", "=last">>)
  \cup Optional("TypeDefBlockOpt", <<"type", "TypeDefList", "=last">>)
  \cup Optional("VariableDeclBlockOpt", <<"var", "VariableDeclList", "=last">>)
  \cup Optional("SubprogDeclListOpt", <<"SubprogDeclList", "=first">>)
  \cup TerminatedRule("ConstantDefList", "ConstantDefRest", "ConstantDef")
  \cup TerminatedRule("TypeDefList", "TypeDefRest", "TypeDef")
  \cup TerminatedRule("VariableDeclList", "VariableDeclRest", "VariableDecl")
  \cup OneOf("ConstantDef", {<<"identifier", "=", "ConstExpression", "=ConstDef">>})
  \cup OneOf("TypeDef", {<<"identifier", "=", "Type", "=TypeDef">>})
  \cup OneOf("VariableDecl", {<<"IdentList", ":", "Type", "=VarDecl">>})
  \cup RepeatedRule("SubprogDeclList", "SubprogDeclRest", "SubprogDecl")
  \cup OneOf("SubprogDecl", {<<"ProcedureDecl", ";", "=SubprogDecl">>, <<"FunctionDecl", ";", "=SubprogDecl">>})
  \cup OneOf("ProcedureDecl", {<<"ProcedureHeading", ";", "Block", "=ProcDecl">>})
  \cup OneOf("FunctionDecl", {<<"FunctionHeading", ":", "identifier", ";", "Block", "=FuncDecl">>})
  \cup OneOf("ProcedureHeading", {<<"procedure", "identifier", "FormalParametersOpt", "=ProcHeading">>})
  \cup OneOf("FunctionHeading", {<<"function", "identifier", "FormalParametersOpt", "=ProcHeading">>})
  \cup Optional("FormalParametersOpt", <<"(", "OneFormalParamList", ")", "=inner">>)
  \cup SeparatedRule("OneFormalParamList", "OneFormalParamRest", "OneFormalParam", ";")
  \cup OneOf("OneFormalParam", {<<"var", "IdentList", ":", "identifier", "=FormalParam">>})

ConstantAndTypeRules ==
  OneOf("ConstExpression", {<<"SignOpt", "ConstFactor", "=ConstExpr">>, <<"CharacterConst", "=throw">>})
  \cup OneOf("SignOpt", {<<"+", "Plus">>, <<"-", "Minus">>, <<"None">>})
  \cup OneOf("ConstFactor", {<<"identifier", "=ConstIdent">>, <<"number", "=ConstNumber">>,
                             <<"True", "=ConstTrue">>, <<"False", "=ConstFalse">>, <<"nil", "=ConstNil">>})
  \cup OneOf("Type", {<<"identifier", "=NamedType">>,
                      <<"array", "[", "SubrangeList", "]", "of", "Type", "=ArrayType">>,
                      <<"^", "identifier", "=PointerType">>,
                      <<"record", "FieldListSequence", "end", "=RecordType">>,
                      <<"set", "of", "Subrange", "=SetType">>})
  \cup SeparatedRule("SubrangeList", "SubrangeRest", "Subrange", ",")
  \cup OneOf("Subrange", {<<"ConstFactor", "..", "ConstFactor", "=Subrange">>, <<"CharSubrange", "=throw">>})
  \cup SeparatedRule("FieldListSequence", "FieldListRest", "FieldList", ";")
  \cup OneOf("FieldList", {<<"IdentList", ":", "Type", "=FieldList">>})

StatementRules ==
  OneOf("StatementSequence", {<<"begin", "StatementList", "end", "=StmtSeq">>})
  \cup SeparatedRule("StatementList", "StatementRest", "Statement", ";")
  \cup OneOf("Statement",
         {<<"identifier", "AssignmentOrCall">>,
          <<"if", "Expression", "then", "Statement", "ElseOpt">>,
          <<"case", "Expression", "of", "CaseList", "end", "=CaseStmt">>,
          <<"while", "Expression", "do", "Statement", "=WhileStmt">>,
          <<"repeat", "StatementSequence", "until", "Expression", "=RepeatStmt">>,
          <<"for", "identifier", ":=", "Expression", "WhichWay", "Expression", "do", "Statement", "=ForStmt">>,
          <<"New", "(", "identifier", ")", "=New">>,
          <<"Dispose", "(", "identifier", ")", "=Dispose">>,
          <<"StatementSequence", "=first">>,
          <<"=EmptyStmt">>})
  \cup OneOf("AssignmentOrCall",
         {<<"DesignatorStuffOpt", "=Designator", ":=", "Expression", "=Assignment">>,
          <<"ActualParametersOpt", "=ProcCall">>})
  \cup Optional("ActualParametersOpt", <<"ActualParameters", "=first">>)
  \cup OneOf("ElseOpt", {<<"else", "Statement", "=IfElse">>, <<"=IfThen">>})
  \cup SeparatedRule("CaseList", "CaseRest", "Case", ";")
  \cup OneOf("Case", {<<"CaseLabelList", ":", "Statement", "=Case">>})
  \cup SeparatedRule("CaseLabelList", "CaseLabelRest", "ConstExpression", ",")
  \cup OneOf("WhichWay", {<<"to", "To">>, <<"downto", "DownTo">>})

ExpressionRules ==
  Optional("DesignatorStuffOpt", <<"DesignatorStuff", "=first">>)
  \cup RepeatedRule("DesignatorStuff", "DesignatorRest", "DesignatorItem")
  \cup OneOf("DesignatorItem", {<<".", "identifier", "=FieldAccess">>,
                                <<"[", "ExpList", "]", "=ArrayAccess">>, <<"^", "=PointerAccess">>})
  \cup OneOf("ActualParameters", {<<"(", "ExpListOpt", ")", "=inner">>})
  \cup Optional("ExpListOpt", <<"ExpList", "=first">>)
  \cup SeparatedRule("ExpList", "ExpListRest", "Expression", ",")
  \cup OneOf("Expression", {<<"SimpleExpression", "RelationOpt">>})
  \cup OneOf("RelationOpt", {<<"Relation", "SimpleExpression", "=Relation">>, <<"=Expr">>})
  \cup OneOf("SimpleExpression", {<<"SignOpt", "TermList", "=SimpleExpr">>})
  \cup OneOf("TermList", {<<"Term", "TermListRest">>})
  \cup OneOf("TermListRest", {<<"AddOperator", "TermList", "=inserts">>, <<"=vectors">>})
  \cup OneOf("Term", {<<"FactorList", "=Term">>})
  \cup OneOf("FactorList", {<<"Factor", "FactorListRest">>})
  \cup OneOf("FactorListRest", {<<"MultOperator", "FactorList", "=inserts">>, <<"=vectors">>})
  \cup OneOf("Factor",
         {<<"number", "=Number">>, <<"string", "=String">>, <<"True", "=True">>, <<"False", "=False">>,
          <<"nil", "=Nil">>, <<"identifier", "DesignatorOrCall">>,
          <<"(", "Expression", ")", "=Paren">>, <<"not", "Factor", "=Negation">>,
          <<"[", "ElementListOpt", "]", "=throw">>})
  \cup OneOf("DesignatorOrCall", {<<"ActualParameters", "=FuncCall">>,
                                  <<"DesignatorStuffOpt", "=Designator", "=first">>})
  \cup Optional("ElementListOpt", <<"ElementList", "=first">>)
  \cup SeparatedRule("ElementList", "ElementListRest", "Element", ",")
  \cup OneOf("Element", {<<"ConstExpression", "ElementRest">>})
  \cup OneOf("ElementRest", {<<"..", "ConstExpression", "=pair">>, <<"=first">>})
  \cup OneOf("MultOperator", {<<"*", "Multiply">>, <<"/", "RealDiv">>, <<"div", "IntDiv">>,
                              <<"mod", "Modulo">>, <<"and", "And">>})
  \cup OneOf("AddOperator", {<<"+", "Plus">>, <<"-", "Minus">>, <<"or", "Or">>})
  \cup OneOf("Relation", {<<"=", "Equal">>, <<"<>", "NotEqual">>, <<"<", "Less">>, <<">", "Greater">>,
                          <<"<=", "LessEqual">>, <<">=", "GreaterEqual">>, <<"in", "In">>})

Productions == DeclarationRules \cup ConstantAndTypeRules \cup StatementRules \cup ExpressionRules

Rules == {p[1] : p \in Productions}

\* A slip: the tree is given in the middle of the rule, in front of EOF.  The
\* action there is a symbol that is empty.
GrammarTreeFirst ==
  [rule \in Rules |->
     IF rule = "CompilationUnit" THEN {<<"ProgramModule", "=empty", "=set_ast", "EOF">>}
     ELSE {p[2] : p \in {q \in Productions : q[1] = rule}}]

Grammar == [rule \in Rules |-> {p[2] : p \in {q \in Productions : q[1] = rule}}]

Actions == (UNION {ToSet(p[2]) : p \in Productions}) \ (Rules \cup Kinds)

-----------------------------------------------------------------------------
(***************************************************************************)
(* The actions.  An action takes the values of all symbols of bison's      *)
(* alternative, $1 to $n, and leaves the value of its rule, $$.            *)
(***************************************************************************)
Enumerators == AddOp \cup MultOp \cup RelOp \cup {"To", "DownTo"}

Arity(action) ==
  CASE action \in {"None", "=empty", "=EmptyStmt"} -> 0
    [] action \in Enumerators \cup
         {"=first", "=vector", "=vectors", "=ConstIdent", "=ConstNumber", "=ConstTrue", "=ConstFalse",
          "=ConstNil", "=NamedType", "=PointerAccess", "=Number", "=String", "=True", "=False", "=Nil",
          "=Expr", "=Term"} -> 1
    [] action \in {"=last", "=vector;", "=prepend", "=SubprogDecl", "=Block", "=ConstExpr",
                   "=PointerType", "=FieldAccess", "=Designator", "=ProcCall", "=FuncCall",
                   "=Negation", "=SimpleExpr", "=set_ast"} -> 2
    [] action \in {"=inner", "=insert", "=inserts", "=parameters", "=ConstDef", "=TypeDef", "=VarDecl",
                   "=ProcHeading", "=ProcDecl", "=Subrange", "=FieldList", "=RecordType", "=SetType",
                   "=StmtSeq", "=Assignment", "=Case", "=ArrayAccess", "=Paren", "=Relation", "=pair"} -> 3
    [] action \in {"=Declarations", "=FormalParam", "=IfThen", "=WhileStmt", "=RepeatStmt", "=New",
                   "=Dispose"} -> 4
    [] action \in {"=FuncDecl", "=CaseStmt"} -> 5
    [] action \in {"=ProgramModule", "=ArrayType", "=IfElse"} -> 6
    [] action = "=ForStmt" -> 8

\* A slip: the first operand is not erased from the list.
OpsUnerased(list) == [k \in DOMAIN list.ops |-> [op |-> list.ops[k], rhs |-> list.items[k]]]

\* The operands and operators of a TermList or FactorList, as the operators
\* with their right operands.
Ops(list) == [k \in DOMAIN list.ops |-> [op |-> list.ops[k], rhs |-> list.items[k + 1]]]

BuiltDecl(action, a) ==
  CASE action = "=ProgramModule" -> [kind |-> "ProgramModule", name |-> a[2], block |-> a[5]]
    [] action = "=Block"        -> [kind |-> "Block", decls |-> a[1], body |-> a[2]]
    [] action = "=Declarations" -> [kind |-> "Declarations", consts |-> a[1], types |-> a[2],
                                    vars |-> a[3], subprogs |-> a[4]]
    [] action = "=ConstDef"     -> [kind |-> "ConstDef", ident |-> a[1], expr |-> a[3]]
    [] action = "=TypeDef"      -> [kind |-> "TypeDef", ident |-> a[1], type |-> a[3]]
    [] action = "=VarDecl"      -> [kind |-> "VarDecl", idents |-> a[1], type |-> a[3]]
    [] action = "=ProcHeading"  -> [name |-> a[2], params |-> a[3]]
    [] action = "=ProcDecl"     -> [kind |-> "ProcDecl", heading |-> a[1], block |-> a[3]]
    [] action = "=FuncDecl"     -> [kind |-> "FuncDecl", ret |-> a[3],
                                    proc |-> [kind |-> "ProcDecl", heading |-> a[1], block |-> a[5]]]
    [] action = "=FormalParam"  -> [idents |-> a[2], type |-> a[4]]

BuiltType(action, a) ==
  CASE action = "=ConstExpr"   -> [kind |-> "ConstExpr", unary |-> a[1], factor |-> a[2]]
    [] action = "=ConstIdent"  -> [kind |-> "ConstIdent", ident |-> a[1]]
    [] action = "=ConstNumber" -> [kind |-> "ConstNumber", int |-> a[1]]
    [] action = "=ConstTrue"   -> [kind |-> "ConstBool", bool |-> TRUE]
    [] action = "=ConstFalse"  -> [kind |-> "ConstBool", bool |-> FALSE]
    [] action = "=ConstNil"    -> [kind |-> "ConstNil"]
    [] action = "=NamedType"   -> [kind |-> "Named", name |-> a[1]]
    [] action = "=ArrayType"   -> [kind |-> "Array", ranges |-> a[3], item |-> a[6]]
    [] action = "=PointerType" -> [kind |-> "Pointer", ref |-> a[2]]
    [] action = "=RecordType"  -> [kind |-> "Record", fields |-> a[2]]
    [] action = "=SetType"     -> [kind |-> "Set", range |-> a[3]]
    [] action = "=Subrange"    -> [start |-> a[1], finish |-> a[3]]
    [] action = "=FieldList"   -> [idents |-> a[1], type |-> a[3]]

BuiltStmt(action, a) ==
  CASE action = "=StmtSeq"    -> [kind |-> "StmtSeq", stmts |-> a[2]]
    [] action = "=EmptyStmt"  -> [kind |-> "Empty"]
    [] action = "=Assignment" -> [kind |-> "Assignment", target |-> a[1], expr |-> a[3]]
    [] action = "=ProcCall"   -> [kind |-> "ProcCall", proc |-> a[1], params |-> a[2]]
    [] action = "=IfThen"     -> [kind |-> "If", cond |-> a[2], then |-> a[4], else |-> <<>>]
    [] action = "=IfElse"     -> [kind |-> "If", cond |-> a[2], then |-> a[4], else |-> <<a[6]>>]
    [] action = "=CaseStmt"   -> [kind |-> "Case", expr |-> a[2], cases |-> a[4]]
    [] action = "=Case"       -> [labels |-> a[1], stmt |-> a[3]]
    [] action = "=WhileStmt"  -> [kind |-> "While", cond |-> a[2], body |-> a[4]]
    [] action = "=RepeatStmt" -> [kind |-> "Repeat", body |-> a[2], cond |-> a[4]]
    [] action = "=ForStmt"    -> ForStmt(a[2], a[4], a[5], a[6], a[8])
    [] action = "=New"        -> [kind |-> "Memory", op |-> "New", ident |-> a[3]]
    [] action = "=Dispose"    -> [kind |-> "Memory", op |-> "Dispose", ident |-> a[3]]

BuiltExpr(action, a) ==
  CASE action = "=Designator"    -> [kind |-> "Designator", ident |-> a[1], items |-> a[2]]
    [] action = "=FieldAccess"   -> [kind |-> "FieldAccess", field |-> a[2]]
    [] action = "=ArrayAccess"   -> [kind |-> "ArrayAccess", exprs |-> a[2]]
    [] action = "=PointerAccess" -> [kind |-> "PointerAccess"]
    [] action = "=Expr"          -> [kind |-> "Expr", start |-> a[1], ops |-> <<>>]
    [] action = "=Relation"      -> [kind |-> "Expr", start |-> a[1],
                                     ops |-> <<[op |-> a[2], rhs |-> a[3]]>>]
    [] action = "=SimpleExpr"    -> [kind |-> "SimpleExpr", unary |-> a[1],
                                     start |-> a[2].items[1], ops |-> Ops(a[2])]
    [] action = "=Term"          -> [kind |-> "Term", start |-> a[1].items[1], ops |-> Ops(a[1])]
    [] action = "=Number"        -> [kind |-> "Number", int |-> a[1]]
    [] action = "=String"        -> [kind |-> "String", text |-> a[1]]
    [] action = "=True"          -> [kind |-> "Bool", bool |-> TRUE]
    [] action = "=False"         -> [kind |-> "Bool", bool |-> FALSE]
    [] action = "=Nil"           -> [kind |-> "Nil"]
    [] action = "=Paren"         -> [kind |-> "Paren", inner |-> a[2]]
    [] action = "=Negation"      -> [kind |-> "Negation", inner |-> a[2]]
    [] action = "=FuncCall"      -> [kind |-> "FuncCall", func |-> a[1], params |-> a[2]]

BuiltList(action, a) ==
  CASE action \in {"=empty", "=parameters"}  -> <<>>
    [] action \in {"=vector", "=vector;"}    -> <<a[1]>>
    [] action = "=insert"  -> <<a[1]>> \o a[3]
    [] action = "=prepend" -> <<a[1]>> \o a[2]
    [] action = "=vectors" -> [items |-> <<a[1]>>, ops |-> <<>>]
    [] action = "=inserts" -> [items |-> <<a[1]>> \o a[3].items, ops |-> <<a[2]>> \o a[3].ops]
    [] action = "=pair"    -> <<a[1], a[3]>>

\* What an action makes of the values a.
Built(action, a) ==
  CASE action \in Enumerators \cup {"None"}     -> action
    [] action \in {"=first", "=SubprogDecl"}    -> a[1]
    [] action \in {"=last", "=inner"}           -> a[2]
    [] action \in {"=empty", "=parameters", "=vector", "=vector;", "=insert", "=prepend", "=vectors",
                   "=inserts", "=pair"}         -> BuiltList(action, a)
    [] action \in {"=ProgramModule", "=Block", "=Declarations", "=ConstDef", "=TypeDef", "=VarDecl",
                   "=ProcHeading", "=ProcDecl", "=FuncDecl", "=FormalParam"} -> BuiltDecl(action, a)
    [] action \in {"=ConstExpr", "=ConstIdent", "=ConstNumber", "=ConstTrue", "=ConstFalse",
                   "=ConstNil", "=NamedType", "=ArrayType", "=PointerType", "=RecordType", "=SetType",
                   "=Subrange", "=FieldList"}   -> BuiltType(action, a)
    [] action \in {"=StmtSeq", "=EmptyStmt", "=Assignment", "=ProcCall", "=IfThen", "=IfElse",
                   "=CaseStmt", "=Case", "=WhileStmt", "=RepeatStmt", "=ForStmt", "=New",
                   "=Dispose"}                  -> BuiltStmt(action, a)
    [] OTHER                                    -> BuiltExpr(action, a)

-----------------------------------------------------------------------------
(***************************************************************************)
(* Which alternative a token predicts: the one that can begin with it, or  *)
(* else the one that can be empty, as bison reduces by default.            *)
(***************************************************************************)
NullableRule[rule \in Rules] ==
  \E alt \in Grammar[rule] :
    \A k \in DOMAIN alt : IF alt[k] \in Rules THEN NullableRule[alt[k]] ELSE alt[k] \notin Kinds

Nullable(symbol) == IF symbol \in Rules THEN NullableRule[symbol] ELSE symbol \notin Kinds

\* The symbols of an alternative that only symbols that can be empty precede.
Leading(alt) == {alt[k] : k \in {k \in DOMAIN alt : \A j \in 1..k - 1 : Nullable(alt[j])}}

\* The kinds of token that a rule can begin with.
FirstRule[rule \in Rules] ==
  UNION {UNION {IF symbol \in Rules THEN FirstRule[symbol] ELSE {symbol} \cap Kinds :
                  symbol \in Leading(alt)} : alt \in Grammar[rule]}

First(alt) ==
  UNION {IF symbol \in Rules THEN FirstRule[symbol] ELSE {symbol} \cap Kinds : symbol \in Leading(alt)}

FirstOf == [rule \in Rules |-> [alt \in Grammar[rule] |-> First(alt)]]

Begins(rule, kind) == {alt \in Grammar[rule] : kind \in FirstOf[rule][alt]}

Default(rule) ==
  {alt \in Grammar[rule] : Cardinality(Grammar[rule]) = 1 \/ \A k \in DOMAIN alt : Nullable(alt[k])}

\* A slip: an if statement is reduced although an else could be shifted.
PredictedReduceFirst(rule, kind) ==
  IF rule = "ElseOpt" \/ Begins(rule, kind) = {} THEN Default(rule) ELSE Begins(rule, kind)

Predicted(rule, kind) ==
  IF Begins(rule, kind) = {} THEN Default(rule) ELSE Begins(rule, kind)

ASSUME OneTokenDecides ==
  \A rule \in Rules :
    /\ \A alt1, alt2 \in Grammar[rule] :
         alt1 # alt2 => FirstOf[rule][alt1] \cap FirstOf[rule][alt2] = {}
    /\ Cardinality(Default(rule)) <= 1

-----------------------------------------------------------------------------
VARIABLES
  text,    \* the tokens
  pos,     \* the first that has not been shifted
  stack,   \* the symbols that are still to come
  values,  \* the values of the symbols that have been recognised, <<>> for none
  ast,     \* driver.ast, a sequence of at most one
  phase    \* "parsing", "accepted", "error", "thrown"

vars == <<text, pos, stack, values, ast, phase>>

lookahead == IF pos <= Len(text) THEN text[pos] ELSE <<"EOF">>

Init ==
  /\ text \in Texts
  /\ pos = 1
  /\ stack = <<"CompilationUnit">>
  /\ values = <<>>
  /\ ast = <<>>
  /\ phase = "parsing"

Expand ==
  /\ phase = "parsing" /\ Head(stack) \in Rules
  /\ \E alt \in Predicted(Head(stack), lookahead[1]) : stack' = alt \o Tail(stack)
  /\ UNCHANGED <<text, pos, values, ast, phase>>

Shift ==
  /\ phase = "parsing" /\ Head(stack) = lookahead[1]
  /\ pos' = pos + 1
  /\ values' = Append(values, IF lookahead[1] \in HasValue THEN lookahead[2] ELSE <<>>)
  /\ stack' = Tail(stack)
  /\ UNCHANGED <<text, ast, phase>>

\* The values that an action takes, and those it leaves.
Taken(action) == SubSeq(values, Len(values) - Arity(action) + 1, Len(values))
Kept(action)  == SubSeq(values, 1, Len(values) - Arity(action))

Reduce ==
  /\ phase = "parsing" /\ Head(stack) \in Actions \ {"=throw", "=set_ast"}
  /\ values' = Append(Kept(Head(stack)), Built(Head(stack), Taken(Head(stack))))
  /\ stack' = Tail(stack)
  /\ UNCHANGED <<text, pos, ast, phase>>

set_ast ==
  /\ phase = "parsing" /\ Head(stack) = "=set_ast"
  /\ ast' = <<Taken("=set_ast")[1]>>
  /\ values' = Kept("=set_ast")
  /\ phase' = "accepted"
  /\ stack' = Tail(stack)
  /\ UNCHANGED <<text, pos>>

Throw ==
  /\ phase = "parsing" /\ Head(stack) = "=throw"
  /\ phase' = "thrown"
  /\ UNCHANGED <<text, pos, stack, values, ast>>

Unexpected ==
  IF Head(stack) \in Rules THEN Predicted(Head(stack), lookahead[1]) = {}
  ELSE Head(stack) \in Kinds \ {lookahead[1]}

\* A slip: the error is reported and the parser tries again.
SyntaxErrorRetried == phase = "parsing" /\ Unexpected /\ UNCHANGED vars

\* No rule of the grammar recovers from an error.
SyntaxError ==
  /\ phase = "parsing" /\ Unexpected
  /\ phase' = "error"
  /\ UNCHANGED <<text, pos, stack, values, ast>>

Next == Expand \/ Shift \/ Reduce \/ set_ast \/ Throw \/ SyntaxError

Spec == Init /\ [][Next]_vars

\* The parser is one call that nothing interrupts.
FairSpec == Spec /\ WF_vars(Next)

-----------------------------------------------------------------------------
(* Properties.                                                             *)

\* A tree is given to the driver once everything is read, and nothing is left.
TypeOK ==
  /\ text \in Texts /\ pos \in 1..Len(text) + 2
  /\ phase \in {"parsing", "accepted", "error", "thrown"}
  /\ stack \in Seq(Kinds \cup Rules \cup Actions)
  /\ IF phase = "accepted" THEN stack = <<>> /\ values = <<>> /\ Len(ast) = 1 /\ pos = Len(text) + 2
     ELSE ast = <<>>

\* What is accepted is a sentence of the tree that is built: the operators and
\* operands are in order, at their level of precedence and under their signs,
\* lists are complete and in order, and an else belongs to the nearest if.
ParsedAsWritten == \A k \in DOMAIN ast : text \in Tree(ast[k])

\* Every call of the parser returns or throws.
ParserEnds == <>(phase # "parsing")
=============================================================================

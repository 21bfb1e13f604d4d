---------------------------- MODULE SyntaxProofs ----------------------------
(***************************************************************************)
(* What the actions of the parser build, for every text: from values of    *)
(* the sorts an action takes, a value of the sort it leaves; and if the    *)
(* sentences are closed under the constructors, then the tokens that were  *)
(* read for those, in their order, are a sentence of this one.             *)
(***************************************************************************)
EXTENDS Parser, TLAPS, SequenceTheorems

-----------------------------------------------------------------------------
(***************************************************************************)
(* The sorts of the values on the stack are symbols of the grammar: bison  *)
(* keeps, for every value, the symbol it belongs to.  A symbol of the      *)
(* stack of symbols turns one sequence of sorts into another.              *)
(***************************************************************************)
A & sort == Append(A, sort)

\* The rules that are recognised on their own, and leave a value of their sort.
PlainRules ==
  {"CompilationUnit", "ProgramModule", "ProgramParametersOpt", "IdentList", "Block", "Declarations",
   "ConstantDefBlockOpt", "TypeDefBlockOpt", "VariableDeclBlockOpt", "SubprogDeclListOpt",
   "ConstantDefList", "TypeDefList", "VariableDeclList", "ConstantDef", "TypeDef", "VariableDecl",
   "SubprogDeclList", "SubprogDecl", "ProcedureDecl", "FunctionDecl", "ProcedureHeading",
   "FunctionHeading", "FormalParametersOpt", "OneFormalParamList", "OneFormalParam",
   "ConstExpression", "SignOpt", "ConstFactor", "Type", "SubrangeList", "Subrange",
   "FieldListSequence", "FieldList", "StatementSequence", "StatementList", "Statement",
   "ActualParametersOpt", "CaseList", "Case", "CaseLabelList", "WhichWay", "DesignatorStuffOpt",
   "DesignatorStuff", "DesignatorItem", "ActualParameters", "ExpListOpt", "ExpList", "Expression",
   "SimpleExpression", "TermList", "Term", "FactorList", "Factor", "ElementListOpt", "ElementList",
   "Element", "MultOperator", "AddOperator", "Relation"}

(***************************************************************************)
(* A signature is a rule or an action, with the sorts that it takes and    *)
(* the sort that it leaves.  The other rules continue what was begun: they *)
(* take the sorts of the symbols before.                                   *)
(***************************************************************************)
RestRules ==
  {"IdentListRest", "ConstantDefRest", "TypeDefRest", "VariableDeclRest", "SubprogDeclRest",
   "OneFormalParamRest", "SubrangeRest", "FieldListRest", "StatementRest", "AssignmentOrCall",
   "ElseOpt", "CaseRest", "CaseLabelRest", "DesignatorRest", "ExpListRest", "RelationOpt",
   "TermListRest", "FactorListRest", "DesignatorOrCall", "ElementListRest", "ElementRest"}

RestSignatures ==
  {<<"IdentListRest", <<"identifier">>, "IdentList">>,
   <<"ConstantDefRest", <<"ConstantDef", ";">>, "ConstantDefList">>,
   <<"TypeDefRest", <<"TypeDef", ";">>, "TypeDefList">>,
   <<"VariableDeclRest", <<"VariableDecl", ";">>, "VariableDeclList">>,
   <<"SubprogDeclRest", <<"SubprogDecl">>, "SubprogDeclList">>,
   <<"OneFormalParamRest", <<"OneFormalParam">>, "OneFormalParamList">>,
   <<"SubrangeRest", <<"Subrange">>, "SubrangeList">>,
   <<"FieldListRest", <<"FieldList">>, "FieldListSequence">>,
   <<"StatementRest", <<"Statement">>, "StatementList">>,
   <<"AssignmentOrCall", <<"identifier">>, "Statement">>,
   <<"ElseOpt", <<"if", "Expression", "then", "Statement">>, "Statement">>,
   <<"CaseRest", <<"Case">>, "CaseList">>,
   <<"CaseLabelRest", <<"ConstExpression">>, "CaseLabelList">>,
   <<"DesignatorRest", <<"DesignatorItem">>, "DesignatorStuff">>,
   <<"ExpListRest", <<"Expression">>, "ExpList">>,
   <<"RelationOpt", <<"SimpleExpression">>, "Expression">>,
   <<"TermListRest", <<"Term">>, "TermList">>, <<"FactorListRest", <<"Factor">>, "FactorList">>,
   <<"DesignatorOrCall", <<"identifier">>, "Factor">>,
   <<"ElementListRest", <<"Element">>, "ElementList">>,
   <<"ElementRest", <<"ConstExpression">>, "Element">>}

DeclarationSignatures ==
  {<<"=set_ast", <<"ProgramModule", "EOF">>, "CompilationUnit">>,
   <<"=ProgramModule", <<"program", "identifier", "ProgramParametersOpt", ";", "Block", ".">>, "ProgramModule">>,
   <<"=parameters", <<"(", "IdentList", ")">>, "ProgramParametersOpt">>,
   <<"=empty", <<>>, "ProgramParametersOpt">>,
   <<"=insert", <<"identifier", ",", "IdentList">>, "IdentList">>,
   <<"=vector", <<"identifier">>, "IdentList">>,
   <<"=Block", <<"Declarations", "StatementSequence">>, "Block">>,
   <<"=Declarations", <<"ConstantDefBlockOpt", "TypeDefBlockOpt", "VariableDeclBlockOpt", "SubprogDeclListOpt">>, "Declarations">>,
   <<"=last", <<"const", "ConstantDefList">>, "ConstantDefBlockOpt">>,
   <<"=empty", <<>>, "ConstantDefBlockOpt">>,
   <<"=last", <<"type", "TypeDefList">>, "TypeDefBlockOpt">>, <<"=empty", <<>>, "TypeDefBlockOpt">>,
   <<"=last", <<"var", "VariableDeclList">>, "VariableDeclBlockOpt">>,
   <<"=empty", <<>>, "VariableDeclBlockOpt">>,
   <<"=first", <<"SubprogDeclList">>, "SubprogDeclListOpt">>,
   <<"=empty", <<>>, "SubprogDeclListOpt">>,
   <<"=insert", <<"ConstantDef", ";", "ConstantDefList">>, "ConstantDefList">>,
   <<"=vector;", <<"ConstantDef", ";">>, "ConstantDefList">>,
   <<"=insert", <<"TypeDef", ";", "TypeDefList">>, "TypeDefList">>,
   <<"=vector;", <<"TypeDef", ";">>, "TypeDefList">>,
   <<"=insert", <<"VariableDecl", ";", "VariableDeclList">>, "VariableDeclList">>,
   <<"=vector;", <<"VariableDecl", ";">>, "VariableDeclList">>,
   <<"=ConstDef", <<"identifier", "=", "ConstExpression">>, "ConstantDef">>,
   <<"=TypeDef", <<"identifier", "=", "Type">>, "TypeDef">>,
   <<"=VarDecl", <<"IdentList", ":", "Type">>, "VariableDecl">>,
   <<"=prepend", <<"SubprogDecl", "SubprogDeclList">>, "SubprogDeclList">>,
   <<"=vector", <<"SubprogDecl">>, "SubprogDeclList">>,
   <<"=SubprogDecl", <<"ProcedureDecl", ";">>, "SubprogDecl">>,
   <<"=SubprogDecl", <<"FunctionDecl", ";">>, "SubprogDecl">>,
   <<"=ProcDecl", <<"ProcedureHeading", ";", "Block">>, "ProcedureDecl">>,
   <<"=FuncDecl", <<"FunctionHeading", ":", "identifier", ";", "Block">>, "FunctionDecl">>,
   <<"=ProcHeading", <<"procedure", "identifier", "FormalParametersOpt">>, "ProcedureHeading">>,
   <<"=ProcHeading", <<"function", "identifier", "FormalParametersOpt">>, "FunctionHeading">>,
   <<"=inner", <<"(", "OneFormalParamList", ")">>, "FormalParametersOpt">>,
   <<"=empty", <<>>, "FormalParametersOpt">>,
   <<"=insert", <<"OneFormalParam", ";", "OneFormalParamList">>, "OneFormalParamList">>,
   <<"=vector", <<"OneFormalParam">>, "OneFormalParamList">>,
   <<"=FormalParam", <<"var", "IdentList", ":", "identifier">>, "OneFormalParam">>}

ConstantAndTypeSignatures ==
  {<<"=ConstExpr", <<"SignOpt", "ConstFactor">>, "ConstExpression">>,
   <<"Plus", <<"+">>, "SignOpt">>, <<"Minus", <<"-">>, "SignOpt">>, <<"None", <<>>, "SignOpt">>,
   <<"=ConstIdent", <<"identifier">>, "ConstFactor">>,
   <<"=ConstNumber", <<"number">>, "ConstFactor">>, <<"=ConstTrue", <<"True">>, "ConstFactor">>,
   <<"=ConstFalse", <<"False">>, "ConstFactor">>, <<"=ConstNil", <<"nil">>, "ConstFactor">>,
   <<"=NamedType", <<"identifier">>, "Type">>,
   <<"=ArrayType", <<"array", "[", "SubrangeList", "]", "of", "Type">>, "Type">>,
   <<"=PointerType", <<"^", "identifier">>, "Type">>,
   <<"=RecordType", <<"record", "FieldListSequence", "end">>, "Type">>,
   <<"=SetType", <<"set", "of", "Subrange">>, "Type">>,
   <<"=insert", <<"Subrange", ",", "SubrangeList">>, "SubrangeList">>,
   <<"=vector", <<"Subrange">>, "SubrangeList">>,
   <<"=Subrange", <<"ConstFactor", "..", "ConstFactor">>, "Subrange">>,
   <<"=insert", <<"FieldList", ";", "FieldListSequence">>, "FieldListSequence">>,
   <<"=vector", <<"FieldList">>, "FieldListSequence">>,
   <<"=FieldList", <<"IdentList", ":", "Type">>, "FieldList">>}

StatementSignatures ==
  {<<"=StmtSeq", <<"begin", "StatementList", "end">>, "StatementSequence">>,
   <<"=insert", <<"Statement", ";", "StatementList">>, "StatementList">>,
   <<"=vector", <<"Statement">>, "StatementList">>,
   <<"=CaseStmt", <<"case", "Expression", "of", "CaseList", "end">>, "Statement">>,
   <<"=WhileStmt", <<"while", "Expression", "do", "Statement">>, "Statement">>,
   <<"=RepeatStmt", <<"repeat", "StatementSequence", "until", "Expression">>, "Statement">>,
   <<"=ForStmt", <<"for", "identifier", ":=", "Expression", "WhichWay", "Expression", "do", "Statement">>, "Statement">>,
   <<"=New", <<"New", "(", "identifier", ")">>, "Statement">>,
   <<"=Dispose", <<"Dispose", "(", "identifier", ")">>, "Statement">>,
   <<"=first", <<"StatementSequence">>, "Statement">>, <<"=EmptyStmt", <<>>, "Statement">>,
   <<"=Designator", <<"identifier", "DesignatorStuffOpt">>, "Designator">>,
   <<"=Assignment", <<"Designator", ":=", "Expression">>, "Statement">>,
   <<"=ProcCall", <<"identifier", "ActualParametersOpt">>, "Statement">>,
   <<"=first", <<"ActualParameters">>, "ActualParametersOpt">>,
   <<"=empty", <<>>, "ActualParametersOpt">>,
   <<"=IfElse", <<"if", "Expression", "then", "Statement", "else", "Statement">>, "Statement">>,
   <<"=IfThen", <<"if", "Expression", "then", "Statement">>, "Statement">>,
   <<"=insert", <<"Case", ";", "CaseList">>, "CaseList">>, <<"=vector", <<"Case">>, "CaseList">>,
   <<"=Case", <<"CaseLabelList", ":", "Statement">>, "Case">>,
   <<"=insert", <<"ConstExpression", ",", "CaseLabelList">>, "CaseLabelList">>,
   <<"=vector", <<"ConstExpression">>, "CaseLabelList">>, <<"To", <<"to">>, "WhichWay">>,
   <<"DownTo", <<"downto">>, "WhichWay">>}

ExpressionSignatures ==
  {<<"=first", <<"DesignatorStuff">>, "DesignatorStuffOpt">>,
   <<"=empty", <<>>, "DesignatorStuffOpt">>,
   <<"=prepend", <<"DesignatorItem", "DesignatorStuff">>, "DesignatorStuff">>,
   <<"=vector", <<"DesignatorItem">>, "DesignatorStuff">>,
   <<"=FieldAccess", <<".", "identifier">>, "DesignatorItem">>,
   <<"=ArrayAccess", <<"[", "ExpList", "]">>, "DesignatorItem">>,
   <<"=PointerAccess", <<"^">>, "DesignatorItem">>,
   <<"=inner", <<"(", "ExpListOpt", ")">>, "ActualParameters">>,
   <<"=first", <<"ExpList">>, "ExpListOpt">>, <<"=empty", <<>>, "ExpListOpt">>,
   <<"=insert", <<"Expression", ",", "ExpList">>, "ExpList">>,
   <<"=vector", <<"Expression">>, "ExpList">>,
   <<"=Relation", <<"SimpleExpression", "Relation", "SimpleExpression">>, "Expression">>,
   <<"=Expr", <<"SimpleExpression">>, "Expression">>,
   <<"=SimpleExpr", <<"SignOpt", "TermList">>, "SimpleExpression">>,
   <<"=inserts", <<"Term", "AddOperator", "TermList">>, "TermList">>,
   <<"=vectors", <<"Term">>, "TermList">>, <<"=Term", <<"FactorList">>, "Term">>,
   <<"=inserts", <<"Factor", "MultOperator", "FactorList">>, "FactorList">>,
   <<"=vectors", <<"Factor">>, "FactorList">>, <<"=Number", <<"number">>, "Factor">>,
   <<"=String", <<"string">>, "Factor">>, <<"=True", <<"True">>, "Factor">>,
   <<"=False", <<"False">>, "Factor">>, <<"=Nil", <<"nil">>, "Factor">>,
   <<"=Paren", <<"(", "Expression", ")">>, "Factor">>,
   <<"=Negation", <<"not", "Factor">>, "Factor">>,
   <<"=FuncCall", <<"identifier", "ActualParameters">>, "Factor">>,
   <<"=first", <<"Designator">>, "Factor">>, <<"=first", <<"ElementList">>, "ElementListOpt">>,
   <<"=empty", <<>>, "ElementListOpt">>,
   <<"=insert", <<"Element", ",", "ElementList">>, "ElementList">>,
   <<"=vector", <<"Element">>, "ElementList">>,
   <<"=pair", <<"ConstExpression", "..", "ConstExpression">>, "Element">>,
   <<"=first", <<"ConstExpression">>, "Element">>, <<"Multiply", <<"*">>, "MultOperator">>,
   <<"RealDiv", <<"/">>, "MultOperator">>, <<"IntDiv", <<"div">>, "MultOperator">>,
   <<"Modulo", <<"mod">>, "MultOperator">>, <<"And", <<"and">>, "MultOperator">>,
   <<"Plus", <<"+">>, "AddOperator">>, <<"Minus", <<"-">>, "AddOperator">>,
   <<"Or", <<"or">>, "AddOperator">>, <<"Equal", <<"=">>, "Relation">>,
   <<"NotEqual", <<"<>">>, "Relation">>, <<"Less", <<"<">>, "Relation">>,
   <<"Greater", <<">">>, "Relation">>, <<"LessEqual", <<"<=">>, "Relation">>,
   <<"GreaterEqual", <<">=">>, "Relation">>, <<"In", <<"in">>, "Relation">>}

ActionSignatures ==
  DeclarationSignatures \cup ConstantAndTypeSignatures
  \cup StatementSignatures \cup ExpressionSignatures

ActionNames ==
  {"=set_ast", "=ProgramModule", "=parameters", "=empty", "=insert", "=vector", "=Block",
   "=Declarations", "=last", "=first", "=vector;", "=ConstDef", "=TypeDef", "=VarDecl", "=prepend",
   "=SubprogDecl", "=ProcDecl", "=FuncDecl", "=ProcHeading", "=inner", "=FormalParam", "=ConstExpr",
   "Plus", "Minus", "None", "=ConstIdent", "=ConstNumber", "=ConstTrue", "=ConstFalse", "=ConstNil",
   "=NamedType", "=ArrayType", "=PointerType", "=RecordType", "=SetType", "=Subrange", "=FieldList",
   "=StmtSeq", "=CaseStmt", "=WhileStmt", "=RepeatStmt", "=ForStmt", "=New", "=Dispose",
   "=EmptyStmt", "=Designator", "=Assignment", "=ProcCall", "=IfElse", "=IfThen", "=Case", "To",
   "DownTo", "=FieldAccess", "=ArrayAccess", "=PointerAccess", "=Relation", "=Expr", "=SimpleExpr",
   "=inserts", "=vectors", "=Term", "=Number", "=String", "=True", "=False", "=Nil", "=Paren",
   "=Negation", "=FuncCall", "=pair", "Multiply", "RealDiv", "IntDiv", "Modulo", "And", "Or",
   "Equal", "NotEqual", "Less", "Greater", "LessEqual", "GreaterEqual", "In", "=throw"}

\* The symbols that leave a value of their own sort.
Plain == Kinds \cup PlainRules

Names == Plain \cup RestRules \cup ActionNames \cup {"Designator"}

-----------------------------------------------------------------------------
(* Sequences, and symbols that leave themselves.                           *)

\* A sequence of one element.
LEMMA Sequence1 ==
  ASSUME NEW S, NEW x1 \in S
  PROVE  <<x1>> \in Seq(S) /\ Len(<<x1>>) = 1
PROOF
  <1>1. <<x1>> \in [1..1 -> S]
    OBVIOUS
  <1> QED  BY <1>1, SeqDef

\* A sequence of two elements.
LEMMA Sequence2 ==
  ASSUME NEW S, NEW x1 \in S, NEW x2 \in S
  PROVE  <<x1, x2>> \in Seq(S) /\ Len(<<x1, x2>>) = 2
PROOF
  <1>1. <<x1, x2>> \in [1..2 -> S]
    OBVIOUS
  <1> QED  BY <1>1, SeqDef

\* A sequence of three elements.
LEMMA Sequence3 ==
  ASSUME NEW S, NEW x1 \in S, NEW x2 \in S, NEW x3 \in S
  PROVE  <<x1, x2, x3>> \in Seq(S) /\ Len(<<x1, x2, x3>>) = 3
PROOF
  <1>1. <<x1, x2, x3>> \in [1..3 -> S]
    OBVIOUS
  <1> QED  BY <1>1, SeqDef

\* A sequence of four elements.
LEMMA Sequence4 ==
  ASSUME NEW S, NEW x1 \in S, NEW x2 \in S, NEW x3 \in S, NEW x4 \in S
  PROVE  <<x1, x2, x3, x4>> \in Seq(S) /\ Len(<<x1, x2, x3, x4>>) = 4
PROOF
  <1>1. <<x1, x2, x3, x4>> \in [1..4 -> S]
    OBVIOUS
  <1> QED  BY <1>1, SeqDef

\* A sequence of five elements.
LEMMA Sequence5 ==
  ASSUME NEW S, NEW x1 \in S, NEW x2 \in S, NEW x3 \in S, NEW x4 \in S, NEW x5 \in S
  PROVE  /\ <<x1, x2, x3, x4, x5>> \in Seq(S)
         /\ Len(<<x1, x2, x3, x4, x5>>) = 5
PROOF
  <1>1. <<x1, x2, x3, x4, x5>> \in [1..5 -> S]
    OBVIOUS
  <1> QED  BY <1>1, SeqDef

\* A sequence of six elements.
LEMMA Sequence6 ==
  ASSUME NEW S, NEW x1 \in S, NEW x2 \in S, NEW x3 \in S, NEW x4 \in S, NEW x5 \in S, NEW x6 \in S
  PROVE  /\ <<x1, x2, x3, x4, x5, x6>> \in Seq(S)
         /\ Len(<<x1, x2, x3, x4, x5, x6>>) = 6
PROOF
  <1>1. <<x1, x2, x3, x4, x5, x6>> \in [1..6 -> S]
    OBVIOUS
  <1> QED  BY <1>1, SeqDef

\* A sequence of eight elements.
LEMMA Sequence8 ==
  ASSUME NEW S, NEW x1 \in S, NEW x2 \in S, NEW x3 \in S, NEW x4 \in S, NEW x5 \in S, NEW x6 \in S, NEW x7 \in S, NEW x8 \in S
  PROVE  /\ <<x1, x2, x3, x4, x5, x6, x7, x8>> \in Seq(S)
         /\ Len(<<x1, x2, x3, x4, x5, x6, x7, x8>>) = 8
PROOF
  <1>1. <<x1, x2, x3, x4, x5, x6, x7, x8>> \in [1..8 -> S]
    OBVIOUS
  <1> QED  BY <1>1, SeqDef

\* The kinds of tokens leave themselves.
LEMMA KindsArePlain ==
  /\ "identifier" \in Plain /\ "string" \in Plain /\ "number" \in Plain /\ ":=" \in Plain
  /\ "-" \in Plain /\ "+" \in Plain /\ "*" \in Plain /\ "/" \in Plain
  /\ "div" \in Plain /\ "mod" \in Plain /\ "=" \in Plain /\ "<>" \in Plain
  /\ "<" \in Plain /\ ">" \in Plain /\ "<=" \in Plain /\ ">=" \in Plain
  /\ "in" \in Plain /\ "not" \in Plain /\ "or" \in Plain /\ "and" \in Plain
  /\ "(" \in Plain /\ ")" \in Plain /\ "[" \in Plain /\ "]" \in Plain
  /\ ".." \in Plain /\ "." \in Plain /\ "," \in Plain /\ ":" \in Plain
  /\ ";" \in Plain /\ "^" \in Plain /\ "array" \in Plain /\ "begin" \in Plain
  /\ "case" \in Plain /\ "const" \in Plain /\ "do" \in Plain /\ "downto" \in Plain
  /\ "end" \in Plain /\ "for" \in Plain /\ "function" \in Plain /\ "if" \in Plain
  /\ "nil" \in Plain /\ "of" \in Plain /\ "procedure" \in Plain /\ "program" \in Plain
  /\ "record" \in Plain /\ "repeat" \in Plain /\ "set" \in Plain /\ "then" \in Plain
  /\ "else" \in Plain /\ "to" \in Plain /\ "type" \in Plain /\ "until" \in Plain
  /\ "var" \in Plain /\ "while" \in Plain /\ "False" \in Plain /\ "True" \in Plain
  /\ "New" \in Plain /\ "Dispose" \in Plain /\ "CharSubrange" \in Plain /\ "CharacterConst" \in Plain
  /\ "EOF" \in Plain
PROOF
  <1>1. /\ "identifier" \in Plain /\ "string" \in Plain /\ "number" \in Plain /\ ":=" \in Plain
        /\ "-" \in Plain /\ "+" \in Plain /\ "*" \in Plain /\ "/" \in Plain
        /\ "div" \in Plain /\ "mod" \in Plain /\ "=" \in Plain /\ "<>" \in Plain
    BY DEF Plain, Kinds, HasValue
  <1>2. /\ "<" \in Plain /\ ">" \in Plain /\ "<=" \in Plain /\ ">=" \in Plain
        /\ "in" \in Plain /\ "not" \in Plain /\ "or" \in Plain /\ "and" \in Plain
        /\ "(" \in Plain /\ ")" \in Plain /\ "[" \in Plain /\ "]" \in Plain
    BY DEF Plain, Kinds, HasValue
  <1>3. /\ ".." \in Plain /\ "." \in Plain /\ "," \in Plain /\ ":" \in Plain
        /\ ";" \in Plain /\ "^" \in Plain /\ "array" \in Plain /\ "begin" \in Plain
        /\ "case" \in Plain /\ "const" \in Plain /\ "do" \in Plain /\ "downto" \in Plain
    BY DEF Plain, Kinds, HasValue
  <1>4. /\ "end" \in Plain /\ "for" \in Plain /\ "function" \in Plain /\ "if" \in Plain
        /\ "nil" \in Plain /\ "of" \in Plain /\ "procedure" \in Plain /\ "program" \in Plain
        /\ "record" \in Plain /\ "repeat" \in Plain /\ "set" \in Plain /\ "then" \in Plain
    BY DEF Plain, Kinds, HasValue
  <1>5. /\ "else" \in Plain /\ "to" \in Plain /\ "type" \in Plain /\ "until" \in Plain
        /\ "var" \in Plain /\ "while" \in Plain /\ "False" \in Plain /\ "True" \in Plain
        /\ "New" \in Plain /\ "Dispose" \in Plain /\ "CharSubrange" \in Plain /\ "CharacterConst" \in Plain
    BY DEF Plain, Kinds, HasValue
  <1>6. /\ "EOF" \in Plain
    BY DEF Plain, Kinds, HasValue
  <1> QED  BY <1>1, <1>2, <1>3, <1>4, <1>5, <1>6

\* So do these rules.
LEMMA RulesArePlain ==
  /\ "ProgramModule" \in Plain /\ "ProgramParametersOpt" \in Plain /\ "IdentList" \in Plain /\ "Block" \in Plain
  /\ "Declarations" \in Plain /\ "ConstantDefBlockOpt" \in Plain /\ "TypeDefBlockOpt" \in Plain /\ "VariableDeclBlockOpt" \in Plain
  /\ "SubprogDeclListOpt" \in Plain /\ "ConstantDefList" \in Plain /\ "TypeDefList" \in Plain /\ "VariableDeclList" \in Plain
  /\ "ConstantDef" \in Plain /\ "TypeDef" \in Plain /\ "VariableDecl" \in Plain /\ "SubprogDeclList" \in Plain
  /\ "SubprogDecl" \in Plain /\ "ProcedureDecl" \in Plain /\ "FunctionDecl" \in Plain /\ "ProcedureHeading" \in Plain
  /\ "FunctionHeading" \in Plain /\ "FormalParametersOpt" \in Plain /\ "OneFormalParamList" \in Plain /\ "OneFormalParam" \in Plain
  /\ "ConstExpression" \in Plain /\ "SignOpt" \in Plain /\ "ConstFactor" \in Plain /\ "Type" \in Plain
  /\ "SubrangeList" \in Plain /\ "Subrange" \in Plain /\ "FieldListSequence" \in Plain /\ "FieldList" \in Plain
  /\ "StatementSequence" \in Plain /\ "StatementList" \in Plain /\ "Statement" \in Plain /\ "ActualParametersOpt" \in Plain
  /\ "CaseList" \in Plain /\ "Case" \in Plain /\ "CaseLabelList" \in Plain /\ "WhichWay" \in Plain
  /\ "DesignatorStuffOpt" \in Plain /\ "DesignatorStuff" \in Plain /\ "DesignatorItem" \in Plain /\ "ActualParameters" \in Plain
  /\ "ExpListOpt" \in Plain /\ "ExpList" \in Plain /\ "Expression" \in Plain /\ "SimpleExpression" \in Plain
  /\ "TermList" \in Plain /\ "Term" \in Plain /\ "FactorList" \in Plain /\ "Factor" \in Plain
  /\ "ElementListOpt" \in Plain /\ "ElementList" \in Plain /\ "Element" \in Plain /\ "MultOperator" \in Plain
  /\ "AddOperator" \in Plain /\ "Relation" \in Plain /\ "CompilationUnit" \in Plain
PROOF
  <1>1. /\ "ProgramModule" \in Plain /\ "ProgramParametersOpt" \in Plain /\ "IdentList" \in Plain /\ "Block" \in Plain
        /\ "Declarations" \in Plain /\ "ConstantDefBlockOpt" \in Plain /\ "TypeDefBlockOpt" \in Plain /\ "VariableDeclBlockOpt" \in Plain
        /\ "SubprogDeclListOpt" \in Plain /\ "ConstantDefList" \in Plain /\ "TypeDefList" \in Plain /\ "VariableDeclList" \in Plain
    BY DEF Plain, PlainRules
  <1>2. /\ "ConstantDef" \in Plain /\ "TypeDef" \in Plain /\ "VariableDecl" \in Plain /\ "SubprogDeclList" \in Plain
        /\ "SubprogDecl" \in Plain /\ "ProcedureDecl" \in Plain /\ "FunctionDecl" \in Plain /\ "ProcedureHeading" \in Plain
        /\ "FunctionHeading" \in Plain /\ "FormalParametersOpt" \in Plain /\ "OneFormalParamList" \in Plain /\ "OneFormalParam" \in Plain
    BY DEF Plain, PlainRules
  <1>3. /\ "ConstExpression" \in Plain /\ "SignOpt" \in Plain /\ "ConstFactor" \in Plain /\ "Type" \in Plain
        /\ "SubrangeList" \in Plain /\ "Subrange" \in Plain /\ "FieldListSequence" \in Plain /\ "FieldList" \in Plain
        /\ "StatementSequence" \in Plain /\ "StatementList" \in Plain /\ "Statement" \in Plain /\ "ActualParametersOpt" \in Plain
    BY DEF Plain, PlainRules
  <1>4. /\ "CaseList" \in Plain /\ "Case" \in Plain /\ "CaseLabelList" \in Plain /\ "WhichWay" \in Plain
        /\ "DesignatorStuffOpt" \in Plain /\ "DesignatorStuff" \in Plain /\ "DesignatorItem" \in Plain /\ "ActualParameters" \in Plain
        /\ "ExpListOpt" \in Plain /\ "ExpList" \in Plain /\ "Expression" \in Plain /\ "SimpleExpression" \in Plain
    BY DEF Plain, PlainRules
  <1>5. /\ "TermList" \in Plain /\ "Term" \in Plain /\ "FactorList" \in Plain /\ "Factor" \in Plain
        /\ "ElementListOpt" \in Plain /\ "ElementList" \in Plain /\ "Element" \in Plain /\ "MultOperator" \in Plain
        /\ "AddOperator" \in Plain /\ "Relation" \in Plain /\ "CompilationUnit" \in Plain
    BY DEF Plain, PlainRules
  <1> QED  BY <1>1, <1>2, <1>3, <1>4, <1>5

-----------------------------------------------------------------------------
(***************************************************************************)
(* What the values are, and where they were read: if every record that has *)
(* the shape of a node is a node, then a value is one of its sort; if the  *)
(* sentences are closed under the constructors as well, then the tokens    *)
(* from i to j - 1 mean it.                                                *)
(***************************************************************************)
AllTrees == \A n : IsNode(n) => n \in Node

NodeSorts ==
  {"ProgramModule", "Block", "Declarations", "ConstantDef", "TypeDef", "VariableDecl", "ProcedureDecl",
   "FunctionDecl", "ConstExpression", "ConstFactor", "Type", "StatementSequence", "Statement",
   "DesignatorItem", "Expression", "SimpleExpression", "Term", "Factor", "Designator"}

NodeValues(sort) ==
  CASE sort = "ProgramModule"     -> Of({"ProgramModule"})
    [] sort = "Block"             -> Block
    [] sort = "Declarations"      -> DeclarationsNode
    [] sort = "ConstantDef"       -> ConstDef
    [] sort = "TypeDef"           -> TypeDef
    [] sort = "VariableDecl"      -> VarDecl
    [] sort = "ProcedureDecl"     -> ProcDecl
    [] sort = "FunctionDecl"      -> Of({"FuncDecl"})
    [] sort = "ConstExpression"   -> ConstExpr
    [] sort = "ConstFactor"       -> ConstFactor
    [] sort = "Type"              -> Type
    [] sort = "StatementSequence" -> StmtSeq
    [] sort = "Statement"         -> Stmt
    [] sort = "DesignatorItem"    -> DesignatorItem
    [] sort = "Expression"        -> Expr
    [] sort = "SimpleExpression"  -> SimpleExpr
    [] sort = "Term"              -> Term
    [] sort = "Factor"            -> Factor
    [] sort = "Designator"        -> Designator

\* The categories that are sorts.
CategorySorts == PartCategories \cup (ListCategories \ {"Operations"})

OtherSorts ==
  {"SubprogDecl", "ConstantDefBlockOpt", "TypeDefBlockOpt", "VariableDeclBlockOpt", "SubprogDeclListOpt",
   "FormalParametersOpt", "ProcedureHeading", "FunctionHeading", "ProgramParametersOpt", "SignOpt",
   "ActualParameters", "ActualParametersOpt", "DesignatorStuffOpt", "ExpListOpt", "WhichWay",
   "TermList", "FactorList", "AddOperator", "MultOperator", "Relation"}

\* Operands and operators in turn.
Operands(op, operand) ==
  {list \in [items : Seq(operand), ops : Seq(op)] : Len(list.items) = Len(list.ops) + 1}

OtherValues(sort) ==
  CASE sort = "SubprogDecl"          -> SubprogDecl
    [] sort = "ConstantDefBlockOpt"  -> Seq(ConstDef)
    [] sort = "TypeDefBlockOpt"      -> Seq(TypeDef)
    [] sort = "VariableDeclBlockOpt" -> Seq(VarDecl)
    [] sort = "SubprogDeclListOpt"   -> Seq(SubprogDecl)
    [] sort = "FormalParametersOpt"  -> Seq(FormalParam)
    [] sort = "ProcedureHeading"     -> ProcHeading
    [] sort = "FunctionHeading"      -> ProcHeading
    [] sort = "ProgramParametersOpt" -> {<<>>}
    [] sort = "SignOpt"              -> Sign
    [] sort = "ActualParameters"     -> Seq(Expr)
    [] sort = "ActualParametersOpt"  -> Seq(Expr)
    [] sort = "DesignatorStuffOpt"   -> Seq(DesignatorItem)
    [] sort = "ExpListOpt"           -> Seq(Expr)
    [] sort = "WhichWay"             -> {"To", "DownTo"}
    [] sort = "TermList"             -> Operands(AddOp, Term)
    [] sort = "FactorList"           -> Operands(MultOp, Factor)
    [] sort = "AddOperator"          -> AddOp
    [] sort = "MultOperator"         -> MultOp
    [] sort = "Relation"             -> RelOp

TokenValues(kind) ==
  CASE kind = "identifier" -> Ident
    [] kind = "string"     -> STRING
    [] kind = "number"     -> 0..MaxLiteral
    [] OTHER               -> {<<>>}

Values(sort) ==
  CASE sort \in NodeSorts     -> NodeValues(sort)
    [] sort \in CategorySorts -> ValuesOf(sort)
    [] sort \in OtherSorts    -> OtherValues(sort)
    [] sort \in Kinds         -> TokenValues(sort)

OtherSpelt(sort, v) ==
  CASE sort = "SubprogDecl"          -> Tree(v) ** Word(";")
    [] sort = "ConstantDefBlockOpt"  -> Section("const", "ConstantDefList", v)
    [] sort = "TypeDefBlockOpt"      -> Section("type", "TypeDefList", v)
    [] sort = "VariableDeclBlockOpt" -> Section("var", "VariableDeclList", v)
    [] sort = "SubprogDeclListOpt"   -> Optionally("SubprogDeclList", v)
    [] sort = "FormalParametersOpt"  -> FormalParameters(v)
    [] sort = "ProcedureHeading"     -> Heading("procedure", v)
    [] sort = "FunctionHeading"      -> Heading("function", v)
    [] sort = "ProgramParametersOpt" -> ProgramParameters
    [] sort = "SignOpt"              -> SignOf(v)
    [] sort = "ActualParameters"     -> ActualParameters(v)
    [] sort = "ActualParametersOpt"  -> ActualParameters(v) \cup {none \in {<<>>} : v = <<>>}
    [] sort = "DesignatorStuffOpt"   -> Optionally("DesignatorStuff", v)
    [] sort = "ExpListOpt"           -> Optionally("ExpList", v)
    [] sort = "WhichWay"             -> Word("to") \cup Word("downto")
    [] sort \in {"TermList", "FactorList"} -> Tree(v.items[1]) ** Optionally("Operations", Ops(v))
    [] sort \in {"AddOperator", "MultOperator", "Relation"} -> Word(Spelling(v))

\* The sentences that mean a value of a sort.
Spelt(sort, v) ==
  CASE sort \in NodeSorts     -> Tree(v)
    [] sort \in CategorySorts -> Sentences(sort, v)
    [] sort \in OtherSorts    -> OtherSpelt(sort, v)
    [] sort \in HasValue      -> Valued(sort, v)
    [] sort \in Kinds \ HasValue -> Word(sort)

\* The sorts of which something is promised: sets are thrown away.
Meant == NodeSorts \cup CategorySorts \cup OtherSorts \cup Kinds

\* The tokens from i to j - 1.
Spans(t, S, i, j) == SubSeq(t, i, j - 1) \in S

Phrase(t, sort, v, i, j) ==
  /\ i \in Nat /\ j \in Nat /\ 1 <= i /\ i <= j /\ j <= Len(t) + 1
  /\ sort \in Meant =>
       /\ AllTrees => v \in Values(sort)
       /\ AllTrees /\ SyntaxIsClosed =>
            /\ Spans(t, Spelt(sort, v), i, j)
            /\ sort = "Statement" /\ EndsOpen(v) => t[j] # <<"else">>

\* An action makes a phrase of phrases.
Makes(x, takes, gives) ==
  \A t, a, e :
    /\ \E S : t \in Seq(S)
    /\ \E S : a \in Seq(S)
    /\ Len(a) = Len(takes) /\ e \in [0..Len(takes) -> 1..Len(t) + 1]
    /\ \A k \in 1..Len(takes) : Phrase(t, takes[k], a[k], e[k - 1], e[k])
    /\ x = "=IfThen" => t[e[Len(takes)]] # <<"else">>
    => Phrase(t, gives, Built(x, a), e[0], e[Len(takes)])

-----------------------------------------------------------------------------
(* Sentences that are joined.                                              *)

\* What is read and what is read then.
LEMMA SpansJoin ==
  ASSUME NEW T, NEW t \in Seq(T), NEW S1, NEW S2, NEW i \in Nat, NEW j \in Nat, NEW k \in Nat,
         1 <= i, i <= j, j <= k, k <= Len(t) + 1, Spans(t, S1, i, j), Spans(t, S2, j, k)
  PROVE  Spans(t, S1 ** S2, i, k)
PROOF
  <1>2. Len(t) \in Nat /\ \A m \in 1..Len(t) : t[m] \in T
    BY ElementOfSeq
  <1> DEFINE r == SubSeq(t, i, j - 1)
             s == SubSeq(t, j, k - 1)
             u == SubSeq(t, i, k - 1)
  <1>3. /\ r \in Seq(T) /\ Len(r) = j - i
        /\ \A m \in 1..j - i : r[m] = t[i + m - 1]
    <2>1. \A m \in i..j - 1 : t[m] \in T
      BY <1>2
    <2>2. /\ r \in Seq(T) /\ Len(r) = IF i <= j - 1 THEN j - 1 - i + 1 ELSE 0
          /\ \A m \in 1..j - 1 - i + 1 : r[m] = t[i + m - 1]
      BY <2>1, SubSeqProperties
    <2>3. j - 1 - i + 1 = j - i /\ (~(i <= j - 1) => j - i = 0)
      OBVIOUS
    <2> HIDE DEF r
    <2> QED  BY <2>2, <2>3
  <1>4. /\ s \in Seq(T) /\ Len(s) = k - j
        /\ \A m \in 1..k - j : s[m] = t[j + m - 1]
    <2>1. \A m \in j..k - 1 : t[m] \in T
      BY <1>2
    <2>2. /\ s \in Seq(T) /\ Len(s) = IF j <= k - 1 THEN k - 1 - j + 1 ELSE 0
          /\ \A m \in 1..k - 1 - j + 1 : s[m] = t[j + m - 1]
      BY <2>1, SubSeqProperties
    <2>3. k - 1 - j + 1 = k - j /\ (~(j <= k - 1) => k - j = 0)
      OBVIOUS
    <2> HIDE DEF s
    <2> QED  BY <2>2, <2>3
  <1>5. /\ u \in Seq(T) /\ Len(u) = k - i
        /\ \A m \in 1..k - i : u[m] = t[i + m - 1]
    <2>1. \A m \in i..k - 1 : t[m] \in T
      BY <1>2
    <2>2. /\ u \in Seq(T) /\ Len(u) = IF i <= k - 1 THEN k - 1 - i + 1 ELSE 0
          /\ \A m \in 1..k - 1 - i + 1 : u[m] = t[i + m - 1]
      BY <2>1, SubSeqProperties
    <2>3. k - 1 - i + 1 = k - i /\ (~(i <= k - 1) => k - i = 0)
      OBVIOUS
    <2> HIDE DEF u
    <2> QED  BY <2>2, <2>3
  <1> HIDE DEF r, s, u
  <1>6. /\ r \o s \in Seq(T) /\ Len(r \o s) = k - i
        /\ \A m \in 1..k - i : (r \o s)[m] = IF m <= j - i THEN r[m] ELSE s[m - (j - i)]
    <2>1. /\ r \o s \in Seq(T) /\ Len(r \o s) = Len(r) + Len(s)
          /\ \A m \in 1..Len(r) + Len(s) : (r \o s)[m] = IF m <= Len(r) THEN r[m] ELSE s[m - Len(r)]
      BY <1>3, <1>4, ConcatProperties
    <2>2. Len(r) + Len(s) = k - i
      BY <1>3, <1>4
    <2> QED  BY <2>1, <2>2, <1>3
  <1>7. ASSUME NEW m \in 1..k - i
        PROVE  (r \o s)[m] = u[m]
    <2>1. u[m] = t[i + m - 1]
      BY <1>5
    <2>2. CASE m <= j - i
      <3>1. (r \o s)[m] = r[m] /\ m \in 1..j - i
        BY <1>6, <2>2
      <3> QED  BY <3>1, <2>1, <1>3
    <2>3. CASE ~(m <= j - i)
      <3> DEFINE q == m - (j - i)
      <3>1. (r \o s)[m] = s[q]
        BY <1>6, <2>3
      <3>2. q \in 1..k - j /\ j + q - 1 = i + m - 1
        BY <2>3
      <3> HIDE DEF q
      <3> QED  BY <3>1, <3>2, <2>1, <1>4
    <2> QED  BY <2>2, <2>3
  <1>8. r \o s = u
    BY <1>5, <1>6, <1>7, SeqEqual
  <1>9. r \in S1 /\ s \in S2
    BY DEF Spans, r, s
  <1>10. u \in S1 ** S2
    BY <1>8, <1>9, SMTT(30) DEF **
  <1> QED  BY <1>10 DEF Spans, u

\* Nothing is read.
LEMMA SpansNothing ==
  ASSUME NEW t, NEW i \in Nat
  PROVE  Spans(t, {<<>>}, i, i)
PROOF
  <1>1. i - 1 \in Int /\ i - 1 < i /\ i \in Int
    OBVIOUS
  <1> QED  BY <1>1, SubSeqEmpty DEF Spans

\* More is meant.
LEMMA SpansMore ==
  ASSUME NEW t, NEW S1, NEW S2, NEW i, NEW j, Spans(t, S1, i, j), S1 \subseteq S2
  PROVE  Spans(t, S2, i, j)
PROOF
  BY DEF Spans

\* What is joined.
LEMMA JoinHas ==
  ASSUME NEW S1, NEW S2, NEW r \in S1, NEW s \in S2
  PROVE  r \o s \in S1 ** S2
PROOF
  BY DEF **

\* Of what it is joined.
LEMMA JoinOf ==
  ASSUME NEW S1, NEW S2, NEW w \in S1 ** S2
  PROVE  \E r \in S1, s \in S2 : w = r \o s
PROOF
  BY DEF **

\* What is joined to the left of something.
LEMMA JoinToTheRight ==
  ASSUME NEW S1, NEW S2, NEW S3, NEW w \in S1 ** S2 ** S3
  PROVE  \E r \in S1, s \in S2, u \in S3 : w = (r \o s) \o u
PROOF
  <1>1. PICK v \in S1 ** S2, u \in S3 : w = v \o u
    BY JoinOf
  <1>2. PICK r \in S1, s \in S2 : v = r \o s
    BY JoinOf
  <1> QED  BY <1>1, <1>2

\* And to the right of it.
LEMMA JoinToTheLeft ==
  ASSUME NEW S1, NEW S2, NEW S3, NEW w \in S1 ** (S2 ** S3)
  PROVE  \E r \in S1, s \in S2, u \in S3 : w = r \o (s \o u)
PROOF
  <1>1. PICK r \in S1, v \in S2 ** S3 : w = r \o v
    BY JoinOf
  <1>2. PICK s \in S2, u \in S3 : v = s \o u
    BY JoinOf
  <1> QED  BY <1>1, <1>2

\* The order of joining does not matter.
LEMMA JoinsAssociate ==
  ASSUME NEW T, NEW S1, NEW S2, NEW S3, S1 \subseteq Seq(T), S2 \subseteq Seq(T), S3 \subseteq Seq(T)
  PROVE  S1 ** S2 ** S3 = S1 ** (S2 ** S3)
PROOF
  <1>1. ASSUME NEW r \in S1, NEW s \in S2, NEW u \in S3
        PROVE  (r \o s) \o u = r \o (s \o u)
    BY ConcatAssociative
  <1>2. ASSUME NEW w \in S1 ** S2 ** S3
        PROVE  w \in S1 ** (S2 ** S3)
    <2>1. PICK r \in S1, s \in S2, u \in S3 : w = (r \o s) \o u
      BY JoinToTheRight
    <2>2. w = r \o (s \o u)
      BY <2>1, <1>1
    <2>3. s \o u \in S2 ** S3
      BY JoinHas
    <2> QED  BY <2>2, <2>3, JoinHas
  <1>3. ASSUME NEW w \in S1 ** (S2 ** S3)
        PROVE  w \in S1 ** S2 ** S3
    <2>1. PICK r \in S1, s \in S2, u \in S3 : w = r \o (s \o u)
      BY JoinToTheLeft, SMTT(30)
    <2>2. w = (r \o s) \o u
      BY <2>1, <1>1
    <2>3. r \o s \in S1 ** S2
      BY JoinHas
    <2> QED  BY <2>2, <2>3, JoinHas
  <1> QED  BY <1>2, <1>3

\* Nothing is joined.
LEMMA JoinsNothing ==
  ASSUME NEW T, NEW S, S \subseteq Seq(T)
  PROVE  S ** {<<>>} = S /\ {<<>>} ** S = S
PROOF
  <1>1. \A s \in S : s \o <<>> = s /\ <<>> \o s = s
    BY ConcatEmptySeq
  <1>2. <<>> \in {<<>>} /\ \A s \in {<<>>} : s = <<>>
    OBVIOUS
  <1>3. \A w \in S ** {<<>>} : w \in S
    BY <1>1, <1>2, JoinOf
  <1>4. \A w \in {<<>>} ** S : w \in S
    BY <1>1, <1>2, JoinOf
  <1>5. \A w \in S : w \in S ** {<<>>}
    <2> TAKE w \in S
    <2>1. w \o <<>> \in S ** {<<>>}
      BY <1>2, JoinHas
    <2> QED  BY <2>1, <1>1
  <1>6. \A w \in S : w \in {<<>>} ** S
    <2> TAKE w \in S
    <2>1. <<>> \o w \in {<<>>} ** S
      BY <1>2, JoinHas
    <2> QED  BY <2>1, <1>1
  <1> QED  BY <1>3, <1>4, <1>5, <1>6

\* Joining keeps sequences.
LEMMA JoinsAreSequences ==
  ASSUME NEW T, NEW S1, NEW S2, S1 \subseteq Seq(T), S2 \subseteq Seq(T)
  PROVE  S1 ** S2 \subseteq Seq(T)
PROOF
  <1>1. \A r \in S1, s \in S2 : r \o s \in Seq(T)
    BY ConcatProperties
  <1>2. ASSUME NEW w \in S1 ** S2
        PROVE  w \in Seq(T)
    <2>1. PICK r \in S1, s \in S2 : w = r \o s
      BY JoinOf
    <2> QED  BY <2>1, <1>1
  <1> QED  BY <1>2

\* Joining is monotonic.
LEMMA JoinsMore ==
  ASSUME NEW S1, NEW S2, NEW T1, NEW T2, S1 \subseteq T1, S2 \subseteq T2
  PROVE  S1 ** S2 \subseteq T1 ** T2
PROOF
  BY DEF **

-----------------------------------------------------------------------------
(* The values of the sorts and the sentences that mean them.               *)
Sorts == NodeSorts \cup CategorySorts \cup OtherSorts

Words == Kinds \ HasValue

\* No sort is a kind of token.
LEMMA SortsAreNoKinds ==
  ASSUME NEW sort \in Sorts
  PROVE  sort \notin Kinds
PROOF
  <1>1. CASE sort \in NodeSorts
    BY <1>1 DEF NodeSorts, Kinds, HasValue
  <1>2. CASE sort \in CategorySorts
    BY <1>2 DEF CategorySorts, PartCategories, ListCategories, Kinds, HasValue
  <1>3. CASE sort \in OtherSorts
    BY <1>3 DEF OtherSorts, Kinds, HasValue
  <1> QED  BY <1>1, <1>2, <1>3 DEF Sorts

\* Sorts of different kinds differ.
LEMMA SortsDiffer ==
  /\ \A sort \in NodeSorts : sort \notin CategorySorts /\ sort \notin OtherSorts
  /\ \A sort \in CategorySorts : sort \notin OtherSorts
PROOF
  <1>1. ASSUME NEW sort \in NodeSorts
        PROVE  sort \notin CategorySorts
    BY DEF CategorySorts, PartCategories, ListCategories, NodeSorts
  <1>2. ASSUME NEW sort \in NodeSorts
        PROVE  sort \notin OtherSorts
    BY DEF OtherSorts, NodeSorts
  <1>3. ASSUME NEW sort \in CategorySorts
        PROVE  sort \notin OtherSorts
    BY DEF CategorySorts, PartCategories, ListCategories, OtherSorts
  <1> QED  BY <1>1, <1>2, <1>3

\* A sort of nodes.
LEMMA NodeSortsAre ==
  ASSUME NEW sort \in NodeSorts
  PROVE  /\ sort \in Meant /\ Values(sort) = NodeValues(sort)
         /\ \A v : Spelt(sort, v) = Tree(v)
PROOF
  <1>0. sort \notin CategorySorts /\ sort \notin OtherSorts /\ sort \notin Kinds /\ sort \notin HasValue
    BY SortsDiffer, SortsAreNoKinds DEF Sorts, Kinds
  <1>1. sort \in Meant
    BY DEF Meant
  <1>2. Values(sort) = NodeValues(sort)
    BY <1>0 DEF Values
  <1>3. ASSUME NEW v
        PROVE  Spelt(sort, v) = Tree(v)
    BY <1>0 DEF Spelt
  <1> QED  BY <1>1, <1>2, <1>3

\* A category.
LEMMA CategorySortsAre ==
  ASSUME NEW sort \in CategorySorts
  PROVE  /\ sort \in Meant /\ Values(sort) = ValuesOf(sort)
         /\ \A v : Spelt(sort, v) = Sentences(sort, v)
         /\ sort \in PartCategories \cup ListCategories
PROOF
  <1>1. sort \notin NodeSorts /\ sort \notin OtherSorts /\ sort \notin Kinds /\ sort \notin HasValue
    BY SortsDiffer, SortsAreNoKinds DEF Sorts, Kinds
  <1>2. sort \in Meant
    BY DEF Meant
  <1>3. Values(sort) = ValuesOf(sort)
    BY <1>1 DEF Values
  <1>4. ASSUME NEW v
        PROVE  Spelt(sort, v) = Sentences(sort, v)
    BY <1>1 DEF Spelt
  <1>5. sort \in PartCategories \cup ListCategories
    BY DEF CategorySorts
  <1> QED  BY <1>2, <1>3, <1>4, <1>5

\* Another sort.
LEMMA OtherSortsAre ==
  ASSUME NEW sort \in OtherSorts
  PROVE  /\ sort \in Meant /\ Values(sort) = OtherValues(sort)
         /\ \A v : Spelt(sort, v) = OtherSpelt(sort, v)
PROOF
  <1>1. sort \notin NodeSorts /\ sort \notin CategorySorts
    BY SortsDiffer
  <1>2. sort \notin Kinds /\ sort \notin HasValue
    BY SortsAreNoKinds DEF Sorts, Kinds
  <1>3. sort \in Meant
    BY DEF Meant
  <1>4. Values(sort) = OtherValues(sort)
    BY <1>1, <1>2 DEF Values
  <1>5. ASSUME NEW v
        PROVE  Spelt(sort, v) = OtherSpelt(sort, v)
    BY <1>1, <1>2 DEF Spelt
  <1> QED  BY <1>3, <1>4, <1>5

\* A token without a value.
LEMMA WordsAre ==
  ASSUME NEW kind \in Words
  PROVE  /\ kind \in Meant /\ Values(kind) = {<<>>}
         /\ \A v : Spelt(kind, v) = Word(kind)
PROOF
  <1>1. kind \in Kinds /\ kind \notin HasValue
    BY DEF Words
  <1>2. kind \notin NodeSorts /\ kind \notin CategorySorts /\ kind \notin OtherSorts
    BY <1>1, SortsAreNoKinds DEF Sorts
  <1>3. kind # "identifier" /\ kind # "string" /\ kind # "number"
    BY <1>1 DEF HasValue
  <1>4. TokenValues(kind) = {<<>>}
    BY <1>3 DEF TokenValues
  <1> QED  BY <1>1, <1>2, <1>4 DEF Meant, Values, Spelt

\* A token with a value.
LEMMA ValuedAre ==
  ASSUME NEW kind \in HasValue
  PROVE  /\ kind \in Meant /\ Values(kind) = TokenValues(kind)
         /\ \A v : Spelt(kind, v) = Valued(kind, v)
PROOF
  <1>1. kind \in Kinds
    BY DEF Kinds
  <1>2. kind \notin NodeSorts /\ kind \notin CategorySorts /\ kind \notin OtherSorts
    BY <1>1, SortsAreNoKinds DEF Sorts
  <1> QED  BY <1>1, <1>2 DEF Meant, Values, Spelt

\* What tells one token.
LEMMA SpansToken ==
  ASSUME NEW t, NEW p \in 1..Len(t), \E S : t \in Seq(S)
  PROVE  Spans(t, {<<t[p]>>}, p, p + 1)
PROOF
  <1>1. PICK S : t \in Seq(S)
    OBVIOUS
  <1>2. \A m \in p..p : t[m] \in S
    BY <1>1, ElementOfSeq
  <1>3. /\ SubSeq(t, p, p) \in Seq(S) /\ Len(SubSeq(t, p, p)) = p - p + 1
        /\ \A m \in 1..p - p + 1 : SubSeq(t, p, p)[m] = t[p + m - 1]
    BY <1>2, SubSeqProperties
  <1>4. p - p + 1 = 1 /\ p + 1 - 1 = p
    OBVIOUS
  <1>5. SubSeq(t, p, p)[1] = t[p] /\ Len(SubSeq(t, p, p)) = 1
    BY <1>3, <1>4
  <1>6. SubSeq(t, p, p) = <<t[p]>>
    <2> DEFINE r == SubSeq(t, p, p)
               x == t[p]
    <2>1. r \in Seq(S) /\ Len(r) = 1 /\ r[1] = x
      BY <1>3, <1>5
    <2> HIDE DEF r, x
    <2>2. r = <<x>>
      BY <2>1
    <2> QED  BY <2>2 DEF r, x
  <1> QED  BY <1>4, <1>6 DEF Spans

\* A token that is shifted is a phrase.
LEMMA TokenPhrase ==
  ASSUME NEW t, NEW p \in 1..Len(t), \E S : t \in Seq(S), t[p] \in Token \/ t[p] = <<"EOF">>,
         NEW v, v = IF t[p][1] \in HasValue THEN t[p][2] ELSE <<>>
  PROVE  t[p][1] \in Kinds /\ Phrase(t, t[p][1], v, p, p + 1)
PROOF
  <1> DEFINE kind == t[p][1]
  <1>1. CASE kind \in HasValue /\ v \in TokenValues(kind) /\ t[p] = <<kind, v>>
    <2>1. kind \in Meant /\ v \in Values(kind) /\ Spelt(kind, v) = {<<t[p]>>}
      BY <1>1, ValuedAre DEF Valued
    <2>2. kind # "Statement"
      BY <1>1 DEF HasValue
    <2> HIDE DEF kind
    <2>3. Phrase(t, kind, v, p, p + 1)
      BY <2>1, <2>2, SpansToken DEF Phrase
    <2> QED  BY <2>3, <1>1 DEF Kinds, kind
  <1>2. CASE kind \in Words /\ v = <<>> /\ t[p] = <<kind>>
    <2>1. kind \in Meant /\ v \in Values(kind) /\ Spelt(kind, v) = {<<t[p]>>}
      BY <1>2, WordsAre DEF Word
    <2>2. kind # "Statement"
      BY <1>2 DEF Words, Kinds, HasValue
    <2> HIDE DEF kind
    <2>3. Phrase(t, kind, v, p, p + 1)
      BY <2>1, <2>2, SpansToken DEF Phrase
    <2> QED  BY <2>3, <1>2 DEF Words, kind
  <1>3. CASE t[p] \in {"identifier"} \X Ident
    <2>1. kind = "identifier" /\ t[p] = <<"identifier", t[p][2]>> /\ t[p][2] \in Ident
      BY <1>3
    <2>2. kind \in HasValue /\ TokenValues(kind) = Ident
      BY <2>1 DEF HasValue, TokenValues
    <2> QED  BY <2>1, <2>2, <1>1
  <1>4. CASE t[p] \in {"string"} \X STRING
    <2>1. kind = "string" /\ t[p] = <<"string", t[p][2]>> /\ t[p][2] \in STRING
      BY <1>4
    <2>2. kind \in HasValue /\ TokenValues(kind) = STRING
      BY <2>1 DEF HasValue, TokenValues
    <2> QED  BY <2>1, <2>2, <1>1
  <1>5. CASE t[p] \in {"number"} \X (0..MaxLiteral)
    <2>1. kind = "number" /\ t[p] = <<"number", t[p][2]>> /\ t[p][2] \in 0..MaxLiteral
      BY <1>5
    <2>2. kind \in HasValue /\ TokenValues(kind) = 0..MaxLiteral
      BY <2>1 DEF HasValue, TokenValues
    <2> QED  BY <2>1, <2>2, <1>1
  <1>6. CASE t[p] \in {<<k>> : k \in Kinds \ (HasValue \cup {"EOF"})} \/ t[p] = <<"EOF">>
    <2>1. "EOF" \in Words
      BY DEF Words, Kinds, HasValue
    <2>2. PICK k \in Words : t[p] = <<k>>
      BY <1>6, <2>1 DEF Words
    <2>3. kind = k /\ kind \notin HasValue
      BY <2>2 DEF Words
    <2> QED  BY <2>2, <2>3, <1>2
  <1> QED  BY <1>3, <1>4, <1>5, <1>6 DEF Token

-----------------------------------------------------------------------------
(***************************************************************************)
(* An action yields a value of its sort, that the sentences S mean; if it  *)
(* is a statement that an else behind it would be taken into, then open.   *)
(***************************************************************************)
Yields(gives, v, S, open) ==
  /\ v \in Values(gives)
  /\ SyntaxIsClosed => /\ S \subseteq Spelt(gives, v)
                       /\ gives = "Statement" /\ EndsOpen(v) => open

NoElse(t, j) == t[j] # <<"else">>

\* A statement that an else behind it would be taken into.
Open(sort, v) == sort = "Statement" /\ EndsOpen(v)

\* Before an else there is none.
Before(next, sort, v, S) == IF next = "else" /\ Open(sort, v) THEN {} ELSE S

\* What is known of a phrase.
LEMMA PhraseIs ==
  ASSUME NEW t, NEW sort, NEW v, NEW i, NEW j, Phrase(t, sort, v, i, j)
  PROVE  /\ i \in Nat /\ j \in Nat /\ 1 <= i /\ i <= j /\ j <= Len(t) + 1
         /\ sort \in Meant /\ AllTrees => v \in Values(sort)
         /\ sort \in Meant /\ AllTrees /\ SyntaxIsClosed =>
              Spans(t, Spelt(sort, v), i, j) /\ (Open(sort, v) => NoElse(t, j))
PROOF
  BY DEF Phrase, Open, NoElse

\* What is yielded is a phrase.
LEMMA YieldsPhrase ==
  ASSUME NEW t, NEW sort, NEW v, NEW i \in Nat, NEW j \in Nat, NEW S, NEW open \in BOOLEAN,
         1 <= i, i <= j, j <= Len(t) + 1,
         AllTrees => Yields(sort, v, S, open),
         AllTrees /\ SyntaxIsClosed => Spans(t, S, i, j) /\ (open => NoElse(t, j))
  PROVE  Phrase(t, sort, v, i, j)
PROOF
  <1>1. ASSUME AllTrees
        PROVE  v \in Values(sort)
    BY <1>1 DEF Yields
  <1>2. ASSUME AllTrees, SyntaxIsClosed
        PROVE  Spans(t, Spelt(sort, v), i, j) /\ (sort = "Statement" /\ EndsOpen(v) => NoElse(t, j))
    <2>1. S \subseteq Spelt(sort, v)
      BY <1>2, Zenon DEF Yields
    <2>2. sort = "Statement" /\ EndsOpen(v) => open
      BY <1>2, Zenon DEF Yields
    <2>3. Spans(t, Spelt(sort, v), i, j)
      BY <2>1, <1>2, SpansMore
    <2> QED  BY <2>2, <2>3, <1>2, Zenon
  <1> QED  BY <1>1, <1>2 DEF Phrase, NoElse

\* One element.
LEMMA OneElement ==
  ASSUME NEW x, NEW r \in {<<x>>}
  PROVE  Len(r) = 1 /\ r[1] = x
PROOF
  OBVIOUS

\* An else is one token.
LEMMA ElseIsRead ==
  ASSUME NEW T, NEW t \in Seq(T), NEW v, NEW i, NEW j, AllTrees, SyntaxIsClosed, Phrase(t, "else", v, i, j)
  PROVE  ~NoElse(t, i)
PROOF
  <1>1. "else" \in Words
    BY DEF Words, Kinds, HasValue
  <1>2. Spans(t, Word("else"), i, j) /\ i \in Nat /\ j \in Nat /\ 1 <= i /\ i <= j /\ j <= Len(t) + 1
    BY <1>1, WordsAre, PhraseIs
  <1> DEFINE r == SubSeq(t, i, j - 1)
             x == <<"else">>
  <1>3. r \in {<<x>>}
    BY <1>2 DEF Spans, Word
  <1> HIDE DEF x
  <1>4. Len(r) = 1 /\ r[1] = x
    BY <1>3, OneElement
  <1>5. \A m \in i..j - 1 : t[m] \in T
    BY <1>2, ElementOfSeq
  <1>6. /\ Len(r) = IF i <= j - 1 THEN j - 1 - i + 1 ELSE 0
        /\ \A m \in 1..j - 1 - i + 1 : r[m] = t[i + m - 1]
    BY <1>2, <1>5, SubSeqProperties
  <1> HIDE DEF r
  <1>7. 1 \in 1..j - 1 - i + 1 /\ i + 1 - 1 = i
    <2>1. ASSUME ~(i <= j - 1)
          PROVE  FALSE
      <3>1. Len(r) = 0
        BY <1>6, <2>1
      <3>2. Len(r) = 1
        BY <1>4
      <3> QED  BY <3>1, <3>2
    <2>3. i <= j - 1
      BY <2>1
    <2> QED  BY <2>3, <1>2
  <1>8. t[i] = x
    BY <1>6, <1>7, <1>4
  <1> QED  BY <1>8 DEF NoElse, x

\* An action of no symbols.
LEMMA Makes0 ==
  ASSUME NEW x, NEW g \in Meant,
         AllTrees => Yields(g, Built(x, <<>>), {<<>>}, x = "=IfThen")
  PROVE  Makes(x, <<>>, g)
PROOF
  <1> SUFFICES ASSUME NEW t, NEW a, NEW e, \E T : t \in Seq(T), \E S : a \in Seq(S),
                      Len(a) = Len(<<>>),
                      e \in [0..Len(<<>>) -> 1..Len(t) + 1],
                      \A k \in 1..Len(<<>>) : Phrase(t, <<>>[k], a[k], e[k - 1], e[k]),
                      x = "=IfThen" => NoElse(t, e[Len(<<>>)])
               PROVE  Phrase(t, g, Built(x, a), e[0], e[Len(<<>>)])
    BY DEF Makes, NoElse
  <1> DEFINE i0 == e[0]
  <1>1. a = <<>> /\ Len(t) \in Nat
    OBVIOUS
  <1>2. Len(<<>>) = 0
    OBVIOUS
  <1>q. x = "=IfThen" => NoElse(t, i0)
    BY <1>2
  <1>3. i0 \in Nat /\ 1 <= i0 /\ i0 <= Len(t) + 1
    BY <1>1
  <1> SUFFICES Phrase(t, g, Built(x, a), i0, i0)
    BY <1>2
  <1> HIDE DEF i0
  <1>5. i0 <= i0
    BY <1>3
  <1> DEFINE S == {<<>>}
             open == x = "=IfThen"
  <1>6. AllTrees => Yields(g, Built(x, a), S, open)
    BY <1>1
  <1>7. ASSUME AllTrees, SyntaxIsClosed
        PROVE  Spans(t, S, i0, i0) /\ (open => NoElse(t, i0))
    BY <1>3, <1>q, SpansNothing
  <1>8. open \in BOOLEAN
    BY DEF Open
  <1> HIDE DEF S, open
  <1> QED  BY <1>3, <1>6, <1>7, <1>8, <1>5, YieldsPhrase

\* An action of one symbol.
LEMMA Makes1 ==
  ASSUME NEW x, NEW s1 \in Meant, NEW g \in Meant,
         AllTrees => \A v1 \in Values(s1) :
           Yields(g, Built(x, <<v1>>),
                  Spelt(s1, v1),
                  x = "=IfThen" \/ Open(s1, v1))
  PROVE  Makes(x, <<s1>>, g)
PROOF
  <1> SUFFICES ASSUME NEW t, NEW a, NEW e, \E T : t \in Seq(T), \E S : a \in Seq(S),
                      Len(a) = Len(<<s1>>),
                      e \in [0..Len(<<s1>>) -> 1..Len(t) + 1],
                      \A k \in 1..Len(<<s1>>) : Phrase(t, <<s1>>[k], a[k], e[k - 1], e[k]),
                      x = "=IfThen" => NoElse(t, e[Len(<<s1>>)])
               PROVE  Phrase(t, g, Built(x, a), e[0], e[Len(<<s1>>)])
    BY DEF Makes, NoElse
  <1> DEFINE i0 == e[0]
             i1 == e[1]
             a1 == a[1]
  <1>1. a = <<a1>> /\ Len(t) \in Nat
    OBVIOUS
  <1>2. Len(<<s1>>) = 1
    OBVIOUS
  <1>p1. Phrase(t, s1, a1, i0, i1)
    <2>1. 1 \in 1..Len(<<s1>>) /\ <<s1>>[1] = s1
      OBVIOUS
    <2>2. Phrase(t, <<s1>>[1], a[1], e[1 - 1], e[1])
      BY <2>1
    <2> QED  BY <2>1, <2>2
  <1>q. x = "=IfThen" => NoElse(t, i1)
    BY <1>2
  <1> SUFFICES Phrase(t, g, Built(x, a), i0, i1)
    BY <1>2
  <1> HIDE DEF i0, i1, a1
  <1>3. /\ i0 \in Nat /\ i1 \in Nat
        /\ 1 <= i0 /\ i0 <= i1 /\ i1 <= Len(t) + 1
    BY <1>p1, PhraseIs
  <1>4. ASSUME AllTrees
        PROVE  a1 \in Values(s1)
    BY <1>4, <1>p1, PhraseIs
  <1>5. i0 <= i1
    BY <1>3
  <1> DEFINE S == Spelt(s1, a1)
             open == x = "=IfThen" \/ Open(s1, a1)
  <1>6. AllTrees => Yields(g, Built(x, a), S, open)
    BY <1>1, <1>4
  <1>7. ASSUME AllTrees, SyntaxIsClosed
        PROVE  Spans(t, S, i0, i1) /\ (open => NoElse(t, i1))
    <2> PICK T : t \in Seq(T)
      OBVIOUS
    <2>q1. Spans(t, Spelt(s1, a1), i0, i1) /\ (Open(s1, a1) => NoElse(t, i1))
      BY <1>7, <1>p1, PhraseIs
    <2> QED  BY <2>q1, <2>q1, <1>q
  <1>8. open \in BOOLEAN
    BY DEF Open
  <1> HIDE DEF S, open
  <1> QED  BY <1>3, <1>6, <1>7, <1>8, <1>5, YieldsPhrase

\* An action of 2 symbols.
LEMMA Makes2 ==
  ASSUME NEW x, NEW s1 \in Meant, NEW s2 \in Meant, NEW g \in Meant,
         AllTrees => \A v1 \in Values(s1), v2 \in Values(s2) :
           Yields(g, Built(x, <<v1, v2>>),
                  Spelt(s1, v1) ** Spelt(s2, v2),
                  x = "=IfThen" \/ Open(s2, v2))
  PROVE  Makes(x, <<s1, s2>>, g)
PROOF
  <1> SUFFICES ASSUME NEW t, NEW a, NEW e, \E T : t \in Seq(T), \E S : a \in Seq(S),
                      Len(a) = Len(<<s1, s2>>),
                      e \in [0..Len(<<s1, s2>>) -> 1..Len(t) + 1],
                      \A k \in 1..Len(<<s1, s2>>) : Phrase(t, <<s1, s2>>[k], a[k], e[k - 1], e[k]),
                      x = "=IfThen" => NoElse(t, e[Len(<<s1, s2>>)])
               PROVE  Phrase(t, g, Built(x, a), e[0], e[Len(<<s1, s2>>)])
    BY DEF Makes, NoElse
  <1> DEFINE i0 == e[0]
             i1 == e[1]
             i2 == e[2]
             a1 == a[1]
             a2 == a[2]
  <1>1. a = <<a1, a2>> /\ Len(t) \in Nat
    OBVIOUS
  <1>2. Len(<<s1, s2>>) = 2
    OBVIOUS
  <1>p1. Phrase(t, s1, a1, i0, i1)
    <2>1. 1 \in 1..Len(<<s1, s2>>) /\ <<s1, s2>>[1] = s1
      OBVIOUS
    <2>2. Phrase(t, <<s1, s2>>[1], a[1], e[1 - 1], e[1])
      BY <2>1
    <2> QED  BY <2>1, <2>2
  <1>p2. Phrase(t, s2, a2, i1, i2)
    <2>1. 2 \in 1..Len(<<s1, s2>>) /\ <<s1, s2>>[2] = s2
      OBVIOUS
    <2>2. Phrase(t, <<s1, s2>>[2], a[2], e[2 - 1], e[2])
      BY <2>1
    <2> QED  BY <2>1, <2>2
  <1>q. x = "=IfThen" => NoElse(t, i2)
    BY <1>2
  <1> SUFFICES Phrase(t, g, Built(x, a), i0, i2)
    BY <1>2
  <1> HIDE DEF i0, i1, i2, a1, a2
  <1>3. /\ i0 \in Nat /\ i1 \in Nat /\ i2 \in Nat
        /\ 1 <= i0 /\ i0 <= i1 /\ i1 <= i2 /\ i2 <= Len(t) + 1
    BY <1>p1, <1>p2, PhraseIs
  <1>4. ASSUME AllTrees
        PROVE  a1 \in Values(s1) /\ a2 \in Values(s2)
    BY <1>4, <1>p1, <1>p2, PhraseIs
  <1>5. i0 <= i1 /\ i0 <= i2 /\ i1 <= Len(t) + 1
    BY <1>3
  <1> DEFINE S == Spelt(s1, a1) ** Spelt(s2, a2)
             open == x = "=IfThen" \/ Open(s2, a2)
  <1>6. AllTrees => Yields(g, Built(x, a), S, open)
    BY <1>1, <1>4
  <1>7. ASSUME AllTrees, SyntaxIsClosed
        PROVE  Spans(t, S, i0, i2) /\ (open => NoElse(t, i2))
    <2> PICK T : t \in Seq(T)
      OBVIOUS
    <2>q1. Spans(t, Spelt(s1, a1), i0, i1) /\ (Open(s1, a1) => NoElse(t, i1))
      BY <1>7, <1>p1, PhraseIs
    <2>q2. Spans(t, Spelt(s2, a2), i1, i2) /\ (Open(s2, a2) => NoElse(t, i2))
      BY <1>7, <1>p2, PhraseIs
    <2>j2. Spans(t, Spelt(s1, a1) ** Spelt(s2, a2), i0, i2)
      BY <2>q1, <2>q2, <1>3, <1>5, SpansJoin
    <2> QED  BY <2>j2, <2>q2, <1>q
  <1>8. open \in BOOLEAN
    BY DEF Open
  <1> HIDE DEF S, open
  <1> QED  BY <1>3, <1>6, <1>7, <1>8, <1>5, YieldsPhrase

\* An action of 3 symbols.
LEMMA Makes3 ==
  ASSUME NEW x, NEW s1 \in Meant, NEW s2 \in Meant, NEW s3 \in Meant, NEW g \in Meant,
         AllTrees => \A v1 \in Values(s1), v2 \in Values(s2), v3 \in Values(s3) :
           Yields(g, Built(x, <<v1, v2, v3>>),
                  Spelt(s1, v1) ** Spelt(s2, v2) ** Spelt(s3, v3),
                  x = "=IfThen" \/ Open(s3, v3))
  PROVE  Makes(x, <<s1, s2, s3>>, g)
PROOF
  <1> SUFFICES ASSUME NEW t, NEW a, NEW e, \E T : t \in Seq(T), \E S : a \in Seq(S),
                      Len(a) = Len(<<s1, s2, s3>>),
                      e \in [0..Len(<<s1, s2, s3>>) -> 1..Len(t) + 1],
                      \A k \in 1..Len(<<s1, s2, s3>>) : Phrase(t, <<s1, s2, s3>>[k], a[k], e[k - 1], e[k]),
                      x = "=IfThen" => NoElse(t, e[Len(<<s1, s2, s3>>)])
               PROVE  Phrase(t, g, Built(x, a), e[0], e[Len(<<s1, s2, s3>>)])
    BY DEF Makes, NoElse
  <1> DEFINE i0 == e[0]
             i1 == e[1]
             i2 == e[2]
             i3 == e[3]
             a1 == a[1]
             a2 == a[2]
             a3 == a[3]
  <1>1. a = <<a1, a2, a3>> /\ Len(t) \in Nat
    OBVIOUS
  <1>2. Len(<<s1, s2, s3>>) = 3
    OBVIOUS
  <1>p1. Phrase(t, s1, a1, i0, i1)
    <2>1. 1 \in 1..Len(<<s1, s2, s3>>) /\ <<s1, s2, s3>>[1] = s1
      OBVIOUS
    <2>2. Phrase(t, <<s1, s2, s3>>[1], a[1], e[1 - 1], e[1])
      BY <2>1
    <2> QED  BY <2>1, <2>2
  <1>p2. Phrase(t, s2, a2, i1, i2)
    <2>1. 2 \in 1..Len(<<s1, s2, s3>>) /\ <<s1, s2, s3>>[2] = s2
      OBVIOUS
    <2>2. Phrase(t, <<s1, s2, s3>>[2], a[2], e[2 - 1], e[2])
      BY <2>1
    <2> QED  BY <2>1, <2>2
  <1>p3. Phrase(t, s3, a3, i2, i3)
    <2>1. 3 \in 1..Len(<<s1, s2, s3>>) /\ <<s1, s2, s3>>[3] = s3
      OBVIOUS
    <2>2. Phrase(t, <<s1, s2, s3>>[3], a[3], e[3 - 1], e[3])
      BY <2>1
    <2> QED  BY <2>1, <2>2
  <1>q. x = "=IfThen" => NoElse(t, i3)
    BY <1>2
  <1> SUFFICES Phrase(t, g, Built(x, a), i0, i3)
    BY <1>2
  <1> HIDE DEF i0, i1, i2, i3, a1, a2, a3
  <1>3. /\ i0 \in Nat /\ i1 \in Nat /\ i2 \in Nat /\ i3 \in Nat
        /\ 1 <= i0 /\ i0 <= i1 /\ i1 <= i2 /\ i2 <= i3 /\ i3 <= Len(t) + 1
    BY <1>p1, <1>p2, <1>p3, PhraseIs
  <1>4. ASSUME AllTrees
        PROVE  a1 \in Values(s1) /\ a2 \in Values(s2) /\ a3 \in Values(s3)
    BY <1>4, <1>p1, <1>p2, <1>p3, PhraseIs
  <1>5. i0 <= i1 /\ i0 <= i2 /\ i0 <= i3 /\ i1 <= Len(t) + 1 /\ i2 <= Len(t) + 1
    BY <1>3
  <1> DEFINE S == Spelt(s1, a1) ** Spelt(s2, a2) ** Spelt(s3, a3)
             open == x = "=IfThen" \/ Open(s3, a3)
  <1>6. AllTrees => Yields(g, Built(x, a), S, open)
    BY <1>1, <1>4
  <1>7. ASSUME AllTrees, SyntaxIsClosed
        PROVE  Spans(t, S, i0, i3) /\ (open => NoElse(t, i3))
    <2> PICK T : t \in Seq(T)
      OBVIOUS
    <2>q1. Spans(t, Spelt(s1, a1), i0, i1) /\ (Open(s1, a1) => NoElse(t, i1))
      BY <1>7, <1>p1, PhraseIs
    <2>q2. Spans(t, Spelt(s2, a2), i1, i2) /\ (Open(s2, a2) => NoElse(t, i2))
      BY <1>7, <1>p2, PhraseIs
    <2>q3. Spans(t, Spelt(s3, a3), i2, i3) /\ (Open(s3, a3) => NoElse(t, i3))
      BY <1>7, <1>p3, PhraseIs
    <2>j2. Spans(t, Spelt(s1, a1) ** Spelt(s2, a2), i0, i2)
      BY <2>q1, <2>q2, <1>3, <1>5, SpansJoin
    <2>j3. Spans(t, Spelt(s1, a1) ** Spelt(s2, a2) ** Spelt(s3, a3), i0, i3)
      BY <2>j2, <2>q3, <1>3, <1>5, SpansJoin
    <2> QED  BY <2>j3, <2>q3, <1>q
  <1>8. open \in BOOLEAN
    BY DEF Open
  <1> HIDE DEF S, open
  <1> QED  BY <1>3, <1>6, <1>7, <1>8, <1>5, YieldsPhrase

\* An action of 4 symbols.
LEMMA Makes4 ==
  ASSUME NEW x, NEW s1 \in Meant, NEW s2 \in Meant, NEW s3 \in Meant, NEW s4 \in Meant,
         NEW g \in Meant,
         AllTrees => \A v1 \in Values(s1), v2 \in Values(s2), v3 \in Values(s3), v4 \in Values(s4) :
           Yields(g, Built(x, <<v1, v2, v3, v4>>),
                  Spelt(s1, v1) ** Spelt(s2, v2) ** Spelt(s3, v3) ** Spelt(s4, v4),
                  x = "=IfThen" \/ Open(s4, v4))
  PROVE  Makes(x, <<s1, s2, s3, s4>>, g)
PROOF
  <1> SUFFICES ASSUME NEW t, NEW a, NEW e, \E T : t \in Seq(T), \E S : a \in Seq(S),
                      Len(a) = Len(<<s1, s2, s3, s4>>),
                      e \in [0..Len(<<s1, s2, s3, s4>>) -> 1..Len(t) + 1],
                      \A k \in 1..Len(<<s1, s2, s3, s4>>) : Phrase(t, <<s1, s2, s3, s4>>[k], a[k], e[k - 1], e[k]),
                      x = "=IfThen" => NoElse(t, e[Len(<<s1, s2, s3, s4>>)])
               PROVE  Phrase(t, g, Built(x, a), e[0], e[Len(<<s1, s2, s3, s4>>)])
    BY DEF Makes, NoElse
  <1> DEFINE i0 == e[0]
             i1 == e[1]
             i2 == e[2]
             i3 == e[3]
             i4 == e[4]
             a1 == a[1]
             a2 == a[2]
             a3 == a[3]
             a4 == a[4]
  <1>1. a = <<a1, a2, a3, a4>> /\ Len(t) \in Nat
    OBVIOUS
  <1>2. Len(<<s1, s2, s3, s4>>) = 4
    OBVIOUS
  <1>p1. Phrase(t, s1, a1, i0, i1)
    <2>1. 1 \in 1..Len(<<s1, s2, s3, s4>>) /\ <<s1, s2, s3, s4>>[1] = s1
      OBVIOUS
    <2>2. Phrase(t, <<s1, s2, s3, s4>>[1], a[1], e[1 - 1], e[1])
      BY <2>1
    <2> QED  BY <2>1, <2>2
  <1>p2. Phrase(t, s2, a2, i1, i2)
    <2>1. 2 \in 1..Len(<<s1, s2, s3, s4>>) /\ <<s1, s2, s3, s4>>[2] = s2
      OBVIOUS
    <2>2. Phrase(t, <<s1, s2, s3, s4>>[2], a[2], e[2 - 1], e[2])
      BY <2>1
    <2> QED  BY <2>1, <2>2
  <1>p3. Phrase(t, s3, a3, i2, i3)
    <2>1. 3 \in 1..Len(<<s1, s2, s3, s4>>) /\ <<s1, s2, s3, s4>>[3] = s3
      OBVIOUS
    <2>2. Phrase(t, <<s1, s2, s3, s4>>[3], a[3], e[3 - 1], e[3])
      BY <2>1
    <2> QED  BY <2>1, <2>2
  <1>p4. Phrase(t, s4, a4, i3, i4)
    <2>1. 4 \in 1..Len(<<s1, s2, s3, s4>>) /\ <<s1, s2, s3, s4>>[4] = s4
      OBVIOUS
    <2>2. Phrase(t, <<s1, s2, s3, s4>>[4], a[4], e[4 - 1], e[4])
      BY <2>1
    <2> QED  BY <2>1, <2>2
  <1>q. x = "=IfThen" => NoElse(t, i4)
    BY <1>2
  <1> SUFFICES Phrase(t, g, Built(x, a), i0, i4)
    BY <1>2
  <1> HIDE DEF i0, i1, i2, i3, i4, a1, a2, a3, a4
  <1>3. /\ i0 \in Nat /\ i1 \in Nat /\ i2 \in Nat /\ i3 \in Nat /\ i4 \in Nat
        /\ 1 <= i0 /\ i0 <= i1 /\ i1 <= i2 /\ i2 <= i3 /\ i3 <= i4 /\ i4 <= Len(t) + 1
    BY <1>p1, <1>p2, <1>p3, <1>p4, PhraseIs
  <1>4. ASSUME AllTrees
        PROVE  a1 \in Values(s1) /\ a2 \in Values(s2) /\ a3 \in Values(s3) /\ a4 \in Values(s4)
    BY <1>4, <1>p1, <1>p2, <1>p3, <1>p4, PhraseIs
  <1>5. i0 <= i1 /\ i0 <= i2 /\ i0 <= i3 /\ i0 <= i4 /\ i1 <= Len(t) + 1 /\ i2 <= Len(t) + 1 /\
        i3 <= Len(t) + 1
    BY <1>3
  <1> DEFINE S == Spelt(s1, a1) ** Spelt(s2, a2) ** Spelt(s3, a3) ** Spelt(s4, a4)
             open == x = "=IfThen" \/ Open(s4, a4)
  <1>6. AllTrees => Yields(g, Built(x, a), S, open)
    BY <1>1, <1>4
  <1>7. ASSUME AllTrees, SyntaxIsClosed
        PROVE  Spans(t, S, i0, i4) /\ (open => NoElse(t, i4))
    <2> PICK T : t \in Seq(T)
      OBVIOUS
    <2>q1. Spans(t, Spelt(s1, a1), i0, i1) /\ (Open(s1, a1) => NoElse(t, i1))
      BY <1>7, <1>p1, PhraseIs
    <2>q2. Spans(t, Spelt(s2, a2), i1, i2) /\ (Open(s2, a2) => NoElse(t, i2))
      BY <1>7, <1>p2, PhraseIs
    <2>q3. Spans(t, Spelt(s3, a3), i2, i3) /\ (Open(s3, a3) => NoElse(t, i3))
      BY <1>7, <1>p3, PhraseIs
    <2>q4. Spans(t, Spelt(s4, a4), i3, i4) /\ (Open(s4, a4) => NoElse(t, i4))
      BY <1>7, <1>p4, PhraseIs
    <2>j2. Spans(t, Spelt(s1, a1) ** Spelt(s2, a2), i0, i2)
      BY <2>q1, <2>q2, <1>3, <1>5, SpansJoin
    <2>j3. Spans(t, Spelt(s1, a1) ** Spelt(s2, a2) ** Spelt(s3, a3), i0, i3)
      BY <2>j2, <2>q3, <1>3, <1>5, SpansJoin
    <2>j4. Spans(t, Spelt(s1, a1) ** Spelt(s2, a2) ** Spelt(s3, a3) ** Spelt(s4, a4), i0, i4)
      BY <2>j3, <2>q4, <1>3, <1>5, SpansJoin
    <2> QED  BY <2>j4, <2>q4, <1>q
  <1>8. open \in BOOLEAN
    BY DEF Open
  <1> HIDE DEF S, open
  <1> QED  BY <1>3, <1>6, <1>7, <1>8, <1>5, YieldsPhrase

\* An action of 5 symbols.
LEMMA Makes5 ==
  ASSUME NEW x, NEW s1 \in Meant, NEW s2 \in Meant, NEW s3 \in Meant, NEW s4 \in Meant,
         NEW s5 \in Meant, NEW g \in Meant,
         AllTrees => \A v1 \in Values(s1), v2 \in Values(s2), v3 \in Values(s3), v4 \in Values(s4),
                        v5 \in Values(s5) :
           Yields(g, Built(x, <<v1, v2, v3, v4, v5>>),
                  Spelt(s1, v1) ** Spelt(s2, v2) ** Spelt(s3, v3) ** Spelt(s4, v4) ** Spelt(s5, v5),
                  x = "=IfThen" \/ Open(s5, v5))
  PROVE  Makes(x, <<s1, s2, s3, s4, s5>>, g)
PROOF
  <1> SUFFICES ASSUME NEW t, NEW a, NEW e, \E T : t \in Seq(T), \E S : a \in Seq(S),
                      Len(a) = Len(<<s1, s2, s3, s4, s5>>),
                      e \in [0..Len(<<s1, s2, s3, s4, s5>>) -> 1..Len(t) + 1],
                      \A k \in 1..Len(<<s1, s2, s3, s4, s5>>) : Phrase(t, <<s1, s2, s3, s4, s5>>[k], a[k], e[k - 1], e[k]),
                      x = "=IfThen" => NoElse(t, e[Len(<<s1, s2, s3, s4, s5>>)])
               PROVE  Phrase(t, g, Built(x, a), e[0], e[Len(<<s1, s2, s3, s4, s5>>)])
    BY DEF Makes, NoElse
  <1> DEFINE i0 == e[0]
             i1 == e[1]
             i2 == e[2]
             i3 == e[3]
             i4 == e[4]
             i5 == e[5]
             a1 == a[1]
             a2 == a[2]
             a3 == a[3]
             a4 == a[4]
             a5 == a[5]
  <1>1. a = <<a1, a2, a3, a4, a5>> /\ Len(t) \in Nat
    OBVIOUS
  <1>2. Len(<<s1, s2, s3, s4, s5>>) = 5
    OBVIOUS
  <1>p1. Phrase(t, s1, a1, i0, i1)
    <2>1. 1 \in 1..Len(<<s1, s2, s3, s4, s5>>) /\ <<s1, s2, s3, s4, s5>>[1] = s1
      OBVIOUS
    <2>2. Phrase(t, <<s1, s2, s3, s4, s5>>[1], a[1], e[1 - 1], e[1])
      BY <2>1
    <2> QED  BY <2>1, <2>2
  <1>p2. Phrase(t, s2, a2, i1, i2)
    <2>1. 2 \in 1..Len(<<s1, s2, s3, s4, s5>>) /\ <<s1, s2, s3, s4, s5>>[2] = s2
      OBVIOUS
    <2>2. Phrase(t, <<s1, s2, s3, s4, s5>>[2], a[2], e[2 - 1], e[2])
      BY <2>1
    <2> QED  BY <2>1, <2>2
  <1>p3. Phrase(t, s3, a3, i2, i3)
    <2>1. 3 \in 1..Len(<<s1, s2, s3, s4, s5>>) /\ <<s1, s2, s3, s4, s5>>[3] = s3
      OBVIOUS
    <2>2. Phrase(t, <<s1, s2, s3, s4, s5>>[3], a[3], e[3 - 1], e[3])
      BY <2>1
    <2> QED  BY <2>1, <2>2
  <1>p4. Phrase(t, s4, a4, i3, i4)
    <2>1. 4 \in 1..Len(<<s1, s2, s3, s4, s5>>) /\ <<s1, s2, s3, s4, s5>>[4] = s4
      OBVIOUS
    <2>2. Phrase(t, <<s1, s2, s3, s4, s5>>[4], a[4], e[4 - 1], e[4])
      BY <2>1
    <2> QED  BY <2>1, <2>2
  <1>p5. Phrase(t, s5, a5, i4, i5)
    <2>1. 5 \in 1..Len(<<s1, s2, s3, s4, s5>>) /\ <<s1, s2, s3, s4, s5>>[5] = s5
      OBVIOUS
    <2>2. Phrase(t, <<s1, s2, s3, s4, s5>>[5], a[5], e[5 - 1], e[5])
      BY <2>1
    <2> QED  BY <2>1, <2>2
  <1>q. x = "=IfThen" => NoElse(t, i5)
    BY <1>2
  <1> SUFFICES Phrase(t, g, Built(x, a), i0, i5)
    BY <1>2
  <1> HIDE DEF i0, i1, i2, i3, i4, i5, a1, a2, a3, a4, a5
  <1>3. /\ i0 \in Nat /\ i1 \in Nat /\ i2 \in Nat /\ i3 \in Nat /\ i4 \in Nat /\ i5 \in Nat
        /\ 1 <= i0 /\ i0 <= i1 /\ i1 <= i2 /\ i2 <= i3 /\ i3 <= i4 /\ i4 <= i5 /\ i5 <= Len(t) + 1
    BY <1>p1, <1>p2, <1>p3, <1>p4, <1>p5, PhraseIs
  <1>4. ASSUME AllTrees
        PROVE  a1 \in Values(s1) /\ a2 \in Values(s2) /\ a3 \in Values(s3) /\ a4 \in Values(s4) /\
               a5 \in Values(s5)
    BY <1>4, <1>p1, <1>p2, <1>p3, <1>p4, <1>p5, PhraseIs
  <1>5. i0 <= i1 /\ i0 <= i2 /\ i0 <= i3 /\ i0 <= i4 /\ i0 <= i5 /\ i1 <= Len(t) + 1 /\
        i2 <= Len(t) + 1 /\ i3 <= Len(t) + 1 /\ i4 <= Len(t) + 1
    BY <1>3
  <1> DEFINE S == Spelt(s1, a1) ** Spelt(s2, a2) ** Spelt(s3, a3) ** Spelt(s4, a4) ** Spelt(s5, a5)
             open == x = "=IfThen" \/ Open(s5, a5)
  <1>6. AllTrees => Yields(g, Built(x, a), S, open)
    BY <1>1, <1>4
  <1>7. ASSUME AllTrees, SyntaxIsClosed
        PROVE  Spans(t, S, i0, i5) /\ (open => NoElse(t, i5))
    <2> PICK T : t \in Seq(T)
      OBVIOUS
    <2>q1. Spans(t, Spelt(s1, a1), i0, i1) /\ (Open(s1, a1) => NoElse(t, i1))
      BY <1>7, <1>p1, PhraseIs
    <2>q2. Spans(t, Spelt(s2, a2), i1, i2) /\ (Open(s2, a2) => NoElse(t, i2))
      BY <1>7, <1>p2, PhraseIs
    <2>q3. Spans(t, Spelt(s3, a3), i2, i3) /\ (Open(s3, a3) => NoElse(t, i3))
      BY <1>7, <1>p3, PhraseIs
    <2>q4. Spans(t, Spelt(s4, a4), i3, i4) /\ (Open(s4, a4) => NoElse(t, i4))
      BY <1>7, <1>p4, PhraseIs
    <2>q5. Spans(t, Spelt(s5, a5), i4, i5) /\ (Open(s5, a5) => NoElse(t, i5))
      BY <1>7, <1>p5, PhraseIs
    <2>j2. Spans(t, Spelt(s1, a1) ** Spelt(s2, a2), i0, i2)
      BY <2>q1, <2>q2, <1>3, <1>5, SpansJoin
    <2>j3. Spans(t, Spelt(s1, a1) ** Spelt(s2, a2) ** Spelt(s3, a3), i0, i3)
      BY <2>j2, <2>q3, <1>3, <1>5, SpansJoin
    <2>j4. Spans(t, Spelt(s1, a1) ** Spelt(s2, a2) ** Spelt(s3, a3) ** Spelt(s4, a4), i0, i4)
      BY <2>j3, <2>q4, <1>3, <1>5, SpansJoin
    <2>j5. Spans(t, Spelt(s1, a1) ** Spelt(s2, a2) ** Spelt(s3, a3) ** Spelt(s4, a4) **
                    Spelt(s5, a5), i0, i5)
      BY <2>j4, <2>q5, <1>3, <1>5, SpansJoin
    <2> QED  BY <2>j5, <2>q5, <1>q
  <1>8. open \in BOOLEAN
    BY DEF Open
  <1> HIDE DEF S, open
  <1> QED  BY <1>3, <1>6, <1>7, <1>8, <1>5, YieldsPhrase

\* An action of 6 symbols.
LEMMA Makes6 ==
  ASSUME NEW x, NEW s1 \in Meant, NEW s2 \in Meant, NEW s3 \in Meant, NEW s4 \in Meant,
         NEW s5 \in Meant, NEW s6 \in Meant, NEW g \in Meant,
         AllTrees => \A v1 \in Values(s1), v2 \in Values(s2), v3 \in Values(s3), v4 \in Values(s4),
                        v5 \in Values(s5), v6 \in Values(s6) :
           Yields(g, Built(x, <<v1, v2, v3, v4, v5, v6>>),
                  Before(s5, s4, v4, Spelt(s1, v1) ** Spelt(s2, v2) ** Spelt(s3, v3) **
                                     Spelt(s4, v4) ** Spelt(s5, v5) ** Spelt(s6, v6)),
                  x = "=IfThen" \/ Open(s6, v6))
  PROVE  Makes(x, <<s1, s2, s3, s4, s5, s6>>, g)
PROOF
  <1> SUFFICES ASSUME NEW t, NEW a, NEW e, \E T : t \in Seq(T), \E S : a \in Seq(S),
                      Len(a) = Len(<<s1, s2, s3, s4, s5, s6>>),
                      e \in [0..Len(<<s1, s2, s3, s4, s5, s6>>) -> 1..Len(t) + 1],
                      \A k \in 1..Len(<<s1, s2, s3, s4, s5, s6>>) : Phrase(t, <<s1, s2, s3, s4, s5, s6>>[k], a[k], e[k - 1], e[k]),
                      x = "=IfThen" => NoElse(t, e[Len(<<s1, s2, s3, s4, s5, s6>>)])
               PROVE  Phrase(t, g, Built(x, a), e[0], e[Len(<<s1, s2, s3, s4, s5, s6>>)])
    BY DEF Makes, NoElse
  <1> DEFINE i0 == e[0]
             i1 == e[1]
             i2 == e[2]
             i3 == e[3]
             i4 == e[4]
             i5 == e[5]
             i6 == e[6]
             a1 == a[1]
             a2 == a[2]
             a3 == a[3]
             a4 == a[4]
             a5 == a[5]
             a6 == a[6]
  <1>1. a = <<a1, a2, a3, a4, a5, a6>> /\ Len(t) \in Nat
    OBVIOUS
  <1>2. Len(<<s1, s2, s3, s4, s5, s6>>) = 6
    OBVIOUS
  <1>p1. Phrase(t, s1, a1, i0, i1)
    <2>1. 1 \in 1..Len(<<s1, s2, s3, s4, s5, s6>>) /\ <<s1, s2, s3, s4, s5, s6>>[1] = s1
      OBVIOUS
    <2>2. Phrase(t, <<s1, s2, s3, s4, s5, s6>>[1], a[1], e[1 - 1], e[1])
      BY <2>1
    <2> QED  BY <2>1, <2>2
  <1>p2. Phrase(t, s2, a2, i1, i2)
    <2>1. 2 \in 1..Len(<<s1, s2, s3, s4, s5, s6>>) /\ <<s1, s2, s3, s4, s5, s6>>[2] = s2
      OBVIOUS
    <2>2. Phrase(t, <<s1, s2, s3, s4, s5, s6>>[2], a[2], e[2 - 1], e[2])
      BY <2>1
    <2> QED  BY <2>1, <2>2
  <1>p3. Phrase(t, s3, a3, i2, i3)
    <2>1. 3 \in 1..Len(<<s1, s2, s3, s4, s5, s6>>) /\ <<s1, s2, s3, s4, s5, s6>>[3] = s3
      OBVIOUS
    <2>2. Phrase(t, <<s1, s2, s3, s4, s5, s6>>[3], a[3], e[3 - 1], e[3])
      BY <2>1
    <2> QED  BY <2>1, <2>2
  <1>p4. Phrase(t, s4, a4, i3, i4)
    <2>1. 4 \in 1..Len(<<s1, s2, s3, s4, s5, s6>>) /\ <<s1, s2, s3, s4, s5, s6>>[4] = s4
      OBVIOUS
    <2>2. Phrase(t, <<s1, s2, s3, s4, s5, s6>>[4], a[4], e[4 - 1], e[4])
      BY <2>1
    <2> QED  BY <2>1, <2>2
  <1>p5. Phrase(t, s5, a5, i4, i5)
    <2>1. 5 \in 1..Len(<<s1, s2, s3, s4, s5, s6>>) /\ <<s1, s2, s3, s4, s5, s6>>[5] = s5
      OBVIOUS
    <2>2. Phrase(t, <<s1, s2, s3, s4, s5, s6>>[5], a[5], e[5 - 1], e[5])
      BY <2>1
    <2> QED  BY <2>1, <2>2
  <1>p6. Phrase(t, s6, a6, i5, i6)
    <2>1. 6 \in 1..Len(<<s1, s2, s3, s4, s5, s6>>) /\ <<s1, s2, s3, s4, s5, s6>>[6] = s6
      OBVIOUS
    <2>2. Phrase(t, <<s1, s2, s3, s4, s5, s6>>[6], a[6], e[6 - 1], e[6])
      BY <2>1
    <2> QED  BY <2>1, <2>2
  <1>q. x = "=IfThen" => NoElse(t, i6)
    BY <1>2
  <1> SUFFICES Phrase(t, g, Built(x, a), i0, i6)
    BY <1>2
  <1> HIDE DEF i0, i1, i2, i3, i4, i5, i6, a1, a2, a3, a4, a5, a6
  <1>3. /\ i0 \in Nat /\ i1 \in Nat /\ i2 \in Nat /\ i3 \in Nat /\ i4 \in Nat /\ i5 \in Nat /\
           i6 \in Nat
        /\ 1 <= i0 /\ i0 <= i1 /\ i1 <= i2 /\ i2 <= i3 /\ i3 <= i4 /\ i4 <= i5 /\ i5 <= i6 /\
           i6 <= Len(t) + 1
    BY <1>p1, <1>p2, <1>p3, <1>p4, <1>p5, <1>p6, PhraseIs
  <1>4. ASSUME AllTrees
        PROVE  a1 \in Values(s1) /\ a2 \in Values(s2) /\ a3 \in Values(s3) /\ a4 \in Values(s4) /\
               a5 \in Values(s5) /\ a6 \in Values(s6)
    BY <1>4, <1>p1, <1>p2, <1>p3, <1>p4, <1>p5, <1>p6, PhraseIs
  <1>5. i0 <= i1 /\ i0 <= i2 /\ i0 <= i3 /\ i0 <= i4 /\ i0 <= i5 /\ i0 <= i6 /\ i1 <= Len(t) + 1 /\
        i2 <= Len(t) + 1 /\ i3 <= Len(t) + 1 /\ i4 <= Len(t) + 1 /\ i5 <= Len(t) + 1
    BY <1>3
  <1> DEFINE S == Before(s5, s4, a4, Spelt(s1, a1) ** Spelt(s2, a2) ** Spelt(s3, a3) **
                                     Spelt(s4, a4) ** Spelt(s5, a5) ** Spelt(s6, a6))
             open == x = "=IfThen" \/ Open(s6, a6)
  <1>6. AllTrees => Yields(g, Built(x, a), S, open)
    BY <1>1, <1>4
  <1>7. ASSUME AllTrees, SyntaxIsClosed
        PROVE  Spans(t, S, i0, i6) /\ (open => NoElse(t, i6))
    <2> PICK T : t \in Seq(T)
      OBVIOUS
    <2>q1. Spans(t, Spelt(s1, a1), i0, i1) /\ (Open(s1, a1) => NoElse(t, i1))
      BY <1>7, <1>p1, PhraseIs
    <2>q2. Spans(t, Spelt(s2, a2), i1, i2) /\ (Open(s2, a2) => NoElse(t, i2))
      BY <1>7, <1>p2, PhraseIs
    <2>q3. Spans(t, Spelt(s3, a3), i2, i3) /\ (Open(s3, a3) => NoElse(t, i3))
      BY <1>7, <1>p3, PhraseIs
    <2>q4. Spans(t, Spelt(s4, a4), i3, i4) /\ (Open(s4, a4) => NoElse(t, i4))
      BY <1>7, <1>p4, PhraseIs
    <2>q5. Spans(t, Spelt(s5, a5), i4, i5) /\ (Open(s5, a5) => NoElse(t, i5))
      BY <1>7, <1>p5, PhraseIs
    <2>q6. Spans(t, Spelt(s6, a6), i5, i6) /\ (Open(s6, a6) => NoElse(t, i6))
      BY <1>7, <1>p6, PhraseIs
    <2>j2. Spans(t, Spelt(s1, a1) ** Spelt(s2, a2), i0, i2)
      BY <2>q1, <2>q2, <1>3, <1>5, SpansJoin
    <2>j3. Spans(t, Spelt(s1, a1) ** Spelt(s2, a2) ** Spelt(s3, a3), i0, i3)
      BY <2>j2, <2>q3, <1>3, <1>5, SpansJoin
    <2>j4. Spans(t, Spelt(s1, a1) ** Spelt(s2, a2) ** Spelt(s3, a3) ** Spelt(s4, a4), i0, i4)
      BY <2>j3, <2>q4, <1>3, <1>5, SpansJoin
    <2>j5. Spans(t, Spelt(s1, a1) ** Spelt(s2, a2) ** Spelt(s3, a3) ** Spelt(s4, a4) **
                    Spelt(s5, a5), i0, i5)
      BY <2>j4, <2>q5, <1>3, <1>5, SpansJoin
    <2>j6. Spans(t, Spelt(s1, a1) ** Spelt(s2, a2) ** Spelt(s3, a3) ** Spelt(s4, a4) **
                    Spelt(s5, a5) ** Spelt(s6, a6), i0, i6)
      BY <2>j5, <2>q6, <1>3, <1>5, SpansJoin
    <2>1. ~(s5 = "else" /\ Open(s4, a4))
      <3>1. SUFFICES ASSUME s5 = "else", Open(s4, a4)
                     PROVE  FALSE
        OBVIOUS
      <3>2. NoElse(t, i4)
        BY <3>1, <2>q4
      <3>3. ~NoElse(t, i4)
        BY <3>1, <1>7, <1>p5, ElseIsRead
      <3> QED  BY <3>2, <3>3
    <2>2. Spans(t, S, i0, i6)
      BY <2>1, <2>j6 DEF Before
    <2> QED  BY <2>2, <2>q6, <1>q
  <1>8. open \in BOOLEAN
    BY DEF Open
  <1> HIDE DEF S, open
  <1> QED  BY <1>3, <1>6, <1>7, <1>8, <1>5, YieldsPhrase

\* An action of eight symbols yields such a value.
Yields8(x, s1, s2, s3, s4, s5, s6, s7, s8, g) ==
  \A v1 \in Values(s1), v2 \in Values(s2), v3 \in Values(s3), v4 \in Values(s4), v5 \in Values(s5),
     v6 \in Values(s6), v7 \in Values(s7), v8 \in Values(s8) :
    Yields(g, Built(x, <<v1, v2, v3, v4, v5, v6, v7, v8>>),
           Spelt(s1, v1) ** Spelt(s2, v2) ** Spelt(s3, v3) ** Spelt(s4, v4) ** Spelt(s5, v5) **
           Spelt(s6, v6) ** Spelt(s7, v7) ** Spelt(s8, v8),
           x = "=IfThen" \/ Open(s8, v8))

\* An action of 8 symbols.
LEMMA Makes8 ==
  ASSUME NEW x, NEW s1 \in Meant, NEW s2 \in Meant, NEW s3 \in Meant, NEW s4 \in Meant,
         NEW s5 \in Meant, NEW s6 \in Meant, NEW s7 \in Meant, NEW s8 \in Meant, NEW g \in Meant,
         AllTrees => Yields8(x, s1, s2, s3, s4, s5, s6, s7, s8, g)
  PROVE  Makes(x, <<s1, s2, s3, s4, s5, s6, s7, s8>>, g)
PROOF
  <1> SUFFICES ASSUME NEW t, NEW a, NEW e, \E T : t \in Seq(T), \E S : a \in Seq(S),
                      Len(a) = Len(<<s1, s2, s3, s4, s5, s6, s7, s8>>),
                      e \in [0..Len(<<s1, s2, s3, s4, s5, s6, s7, s8>>) -> 1..Len(t) + 1],
                      \A k \in 1..Len(<<s1, s2, s3, s4, s5, s6, s7, s8>>) : Phrase(t, <<s1, s2, s3, s4, s5, s6, s7, s8>>[k], a[k], e[k - 1], e[k]),
                      x = "=IfThen" => NoElse(t, e[Len(<<s1, s2, s3, s4, s5, s6, s7, s8>>)])
               PROVE  Phrase(t, g, Built(x, a), e[0], e[Len(<<s1, s2, s3, s4, s5, s6, s7, s8>>)])
    BY DEF Makes, NoElse
  <1> DEFINE i0 == e[0]
             i1 == e[1]
             i2 == e[2]
             i3 == e[3]
             i4 == e[4]
             i5 == e[5]
             i6 == e[6]
             i7 == e[7]
             i8 == e[8]
             a1 == a[1]
             a2 == a[2]
             a3 == a[3]
             a4 == a[4]
             a5 == a[5]
             a6 == a[6]
             a7 == a[7]
             a8 == a[8]
  <1>1. a = <<a1, a2, a3, a4, a5, a6, a7, a8>> /\ Len(t) \in Nat
    OBVIOUS
  <1>2. Len(<<s1, s2, s3, s4, s5, s6, s7, s8>>) = 8
    OBVIOUS
  <1>p1. Phrase(t, s1, a1, i0, i1)
    <2>1. 1 \in 1..Len(<<s1, s2, s3, s4, s5, s6, s7, s8>>) /\ <<s1, s2, s3, s4, s5, s6, s7, s8>>[1] = s1
      OBVIOUS
    <2>2. Phrase(t, <<s1, s2, s3, s4, s5, s6, s7, s8>>[1], a[1], e[1 - 1], e[1])
      BY <2>1
    <2> QED  BY <2>1, <2>2
  <1>p2. Phrase(t, s2, a2, i1, i2)
    <2>1. 2 \in 1..Len(<<s1, s2, s3, s4, s5, s6, s7, s8>>) /\ <<s1, s2, s3, s4, s5, s6, s7, s8>>[2] = s2
      OBVIOUS
    <2>2. Phrase(t, <<s1, s2, s3, s4, s5, s6, s7, s8>>[2], a[2], e[2 - 1], e[2])
      BY <2>1
    <2> QED  BY <2>1, <2>2
  <1>p3. Phrase(t, s3, a3, i2, i3)
    <2>1. 3 \in 1..Len(<<s1, s2, s3, s4, s5, s6, s7, s8>>) /\ <<s1, s2, s3, s4, s5, s6, s7, s8>>[3] = s3
      OBVIOUS
    <2>2. Phrase(t, <<s1, s2, s3, s4, s5, s6, s7, s8>>[3], a[3], e[3 - 1], e[3])
      BY <2>1
    <2> QED  BY <2>1, <2>2
  <1>p4. Phrase(t, s4, a4, i3, i4)
    <2>1. 4 \in 1..Len(<<s1, s2, s3, s4, s5, s6, s7, s8>>) /\ <<s1, s2, s3, s4, s5, s6, s7, s8>>[4] = s4
      OBVIOUS
    <2>2. Phrase(t, <<s1, s2, s3, s4, s5, s6, s7, s8>>[4], a[4], e[4 - 1], e[4])
      BY <2>1
    <2> QED  BY <2>1, <2>2
  <1>p5. Phrase(t, s5, a5, i4, i5)
    <2>1. 5 \in 1..Len(<<s1, s2, s3, s4, s5, s6, s7, s8>>) /\ <<s1, s2, s3, s4, s5, s6, s7, s8>>[5] = s5
      OBVIOUS
    <2>2. Phrase(t, <<s1, s2, s3, s4, s5, s6, s7, s8>>[5], a[5], e[5 - 1], e[5])
      BY <2>1
    <2> QED  BY <2>1, <2>2
  <1>p6. Phrase(t, s6, a6, i5, i6)
    <2>1. 6 \in 1..Len(<<s1, s2, s3, s4, s5, s6, s7, s8>>) /\ <<s1, s2, s3, s4, s5, s6, s7, s8>>[6] = s6
      OBVIOUS
    <2>2. Phrase(t, <<s1, s2, s3, s4, s5, s6, s7, s8>>[6], a[6], e[6 - 1], e[6])
      BY <2>1
    <2> QED  BY <2>1, <2>2
  <1>p7. Phrase(t, s7, a7, i6, i7)
    <2>1. 7 \in 1..Len(<<s1, s2, s3, s4, s5, s6, s7, s8>>) /\ <<s1, s2, s3, s4, s5, s6, s7, s8>>[7] = s7
      OBVIOUS
    <2>2. Phrase(t, <<s1, s2, s3, s4, s5, s6, s7, s8>>[7], a[7], e[7 - 1], e[7])
      BY <2>1
    <2> QED  BY <2>1, <2>2
  <1>p8. Phrase(t, s8, a8, i7, i8)
    <2>1. 8 \in 1..Len(<<s1, s2, s3, s4, s5, s6, s7, s8>>) /\ <<s1, s2, s3, s4, s5, s6, s7, s8>>[8] = s8
      OBVIOUS
    <2>2. Phrase(t, <<s1, s2, s3, s4, s5, s6, s7, s8>>[8], a[8], e[8 - 1], e[8])
      BY <2>1
    <2> QED  BY <2>1, <2>2
  <1>q. x = "=IfThen" => NoElse(t, i8)
    BY <1>2
  <1> SUFFICES Phrase(t, g, Built(x, a), i0, i8)
    BY <1>2
  <1> HIDE DEF i0, i1, i2, i3, i4, i5, i6, i7, i8, a1, a2, a3, a4, a5, a6, a7, a8
  <1>3. /\ i0 \in Nat /\ i1 \in Nat /\ i2 \in Nat /\ i3 \in Nat /\ i4 \in Nat /\ i5 \in Nat /\
           i6 \in Nat /\ i7 \in Nat /\ i8 \in Nat
        /\ 1 <= i0 /\ i0 <= i1 /\ i1 <= i2 /\ i2 <= i3 /\ i3 <= i4 /\ i4 <= i5 /\ i5 <= i6 /\
           i6 <= i7 /\ i7 <= i8 /\ i8 <= Len(t) + 1
    BY <1>p1, <1>p2, <1>p3, <1>p4, <1>p5, <1>p6, <1>p7, <1>p8, PhraseIs
  <1>4. ASSUME AllTrees
        PROVE  a1 \in Values(s1) /\ a2 \in Values(s2) /\ a3 \in Values(s3) /\ a4 \in Values(s4) /\
               a5 \in Values(s5) /\ a6 \in Values(s6) /\ a7 \in Values(s7) /\ a8 \in Values(s8)
    BY <1>4, <1>p1, <1>p2, <1>p3, <1>p4, <1>p5, <1>p6, <1>p7, <1>p8, PhraseIs
  <1>5. i0 <= i1 /\ i0 <= i2 /\ i0 <= i3 /\ i0 <= i4 /\ i0 <= i5 /\ i0 <= i6 /\ i0 <= i7 /\
        i0 <= i8 /\ i1 <= Len(t) + 1 /\ i2 <= Len(t) + 1 /\ i3 <= Len(t) + 1 /\ i4 <= Len(t) + 1 /\
        i5 <= Len(t) + 1 /\ i6 <= Len(t) + 1 /\ i7 <= Len(t) + 1
    BY <1>3, SMTT(60)
  <1> DEFINE S == Spelt(s1, a1) ** Spelt(s2, a2) ** Spelt(s3, a3) ** Spelt(s4, a4) **
                  Spelt(s5, a5) ** Spelt(s6, a6) ** Spelt(s7, a7) ** Spelt(s8, a8)
             open == x = "=IfThen" \/ Open(s8, a8)
  <1>6. AllTrees => Yields(g, Built(x, a), S, open)
    BY <1>1, <1>4 DEF Yields8
  <1>7. ASSUME AllTrees, SyntaxIsClosed
        PROVE  Spans(t, S, i0, i8) /\ (open => NoElse(t, i8))
    <2> PICK T : t \in Seq(T)
      OBVIOUS
    <2>q1. Spans(t, Spelt(s1, a1), i0, i1) /\ (Open(s1, a1) => NoElse(t, i1))
      BY <1>7, <1>p1, PhraseIs
    <2>q2. Spans(t, Spelt(s2, a2), i1, i2) /\ (Open(s2, a2) => NoElse(t, i2))
      BY <1>7, <1>p2, PhraseIs
    <2>q3. Spans(t, Spelt(s3, a3), i2, i3) /\ (Open(s3, a3) => NoElse(t, i3))
      BY <1>7, <1>p3, PhraseIs
    <2>q4. Spans(t, Spelt(s4, a4), i3, i4) /\ (Open(s4, a4) => NoElse(t, i4))
      BY <1>7, <1>p4, PhraseIs
    <2>q5. Spans(t, Spelt(s5, a5), i4, i5) /\ (Open(s5, a5) => NoElse(t, i5))
      BY <1>7, <1>p5, PhraseIs
    <2>q6. Spans(t, Spelt(s6, a6), i5, i6) /\ (Open(s6, a6) => NoElse(t, i6))
      BY <1>7, <1>p6, PhraseIs
    <2>q7. Spans(t, Spelt(s7, a7), i6, i7) /\ (Open(s7, a7) => NoElse(t, i7))
      BY <1>7, <1>p7, PhraseIs
    <2>q8. Spans(t, Spelt(s8, a8), i7, i8) /\ (Open(s8, a8) => NoElse(t, i8))
      BY <1>7, <1>p8, PhraseIs
    <2>j2. Spans(t, Spelt(s1, a1) ** Spelt(s2, a2), i0, i2)
      BY <2>q1, <2>q2, <1>3, <1>5, SpansJoin
    <2>j3. Spans(t, Spelt(s1, a1) ** Spelt(s2, a2) ** Spelt(s3, a3), i0, i3)
      BY <2>j2, <2>q3, <1>3, <1>5, SpansJoin
    <2>j4. Spans(t, Spelt(s1, a1) ** Spelt(s2, a2) ** Spelt(s3, a3) ** Spelt(s4, a4), i0, i4)
      BY <2>j3, <2>q4, <1>3, <1>5, SpansJoin
    <2>j5. Spans(t, Spelt(s1, a1) ** Spelt(s2, a2) ** Spelt(s3, a3) ** Spelt(s4, a4) **
                    Spelt(s5, a5), i0, i5)
      BY <2>j4, <2>q5, <1>3, <1>5, SpansJoin
    <2>j6. Spans(t, Spelt(s1, a1) ** Spelt(s2, a2) ** Spelt(s3, a3) ** Spelt(s4, a4) **
                    Spelt(s5, a5) ** Spelt(s6, a6), i0, i6)
      BY <2>j5, <2>q6, <1>3, <1>5, SpansJoin
    <2>j7. Spans(t, Spelt(s1, a1) ** Spelt(s2, a2) ** Spelt(s3, a3) ** Spelt(s4, a4) **
                    Spelt(s5, a5) ** Spelt(s6, a6) ** Spelt(s7, a7), i0, i7)
      BY <2>j6, <2>q7, <1>3, <1>5, SpansJoin
    <2>j8. Spans(t, Spelt(s1, a1) ** Spelt(s2, a2) ** Spelt(s3, a3) ** Spelt(s4, a4) **
                    Spelt(s5, a5) ** Spelt(s6, a6) ** Spelt(s7, a7) ** Spelt(s8, a8), i0, i8)
      BY <2>j7, <2>q8, <1>3, <1>5, SpansJoin
    <2> QED  BY <2>j8, <2>q8, <1>q
  <1>8. open \in BOOLEAN
    BY DEF Open
  <1> HIDE DEF S, open
  <1> QED  BY <1>3, <1>6, <1>7, <1>8, <1>5, YieldsPhrase

\* Of the other sorts nothing is promised.
LEMMA MakesNothing ==
  ASSUME NEW x, NEW takes, NEW n \in 0..3, Len(takes) = n, NEW g, g \notin Meant
  PROVE  Makes(x, takes, g)
PROOF
  <1> SUFFICES ASSUME NEW t, NEW a, NEW e, \E S : t \in Seq(S), e \in [0..Len(takes) -> 1..Len(t) + 1],
                      \A k \in 1..Len(takes) : Phrase(t, takes[k], a[k], e[k - 1], e[k])
               PROVE  Phrase(t, g, Built(x, a), e[0], e[Len(takes)])
    BY DEF Makes
  <1>1. ASSUME NEW k \in 1..n
        PROVE  e[k - 1] <= e[k]
    BY PhraseIs
  <1>2. Len(t) \in Nat /\ \A k \in 0..n : e[k] \in Nat /\ 1 <= e[k] /\ e[k] <= Len(t) + 1
    OBVIOUS
  <1>3. e[0] <= e[n]
    <2>1. CASE n = 0
      BY <2>1, <1>2
    <2>2. CASE n = 1
      <3>1. e[1 - 1] <= e[1]
        BY <2>2, <1>1
      <3> QED  BY <3>1, <2>2
    <2>3. CASE n = 2
      <3>1. e[1 - 1] <= e[1] /\ e[2 - 1] <= e[2]
        BY <2>3, <1>1
      <3> QED  BY <3>1, <2>3, <1>2
    <2>4. CASE n = 3
      <3>1. e[1 - 1] <= e[1] /\ e[2 - 1] <= e[2] /\ e[3 - 1] <= e[3]
        BY <2>4, <1>1
      <3> QED  BY <3>1, <2>4, <1>2
    <2> QED  BY <2>1, <2>2, <2>3, <2>4
  <1>4. 0 \in 0..n /\ n \in 0..n
    OBVIOUS
  <1> QED  BY <1>2, <1>3, <1>4 DEF Phrase

-----------------------------------------------------------------------------
(* Every sort.                                                             *)

\* The sort ProgramModule.
LEMMA ProgramModuleSort ==
  /\ "ProgramModule" \in Meant /\ Values("ProgramModule") = Of({"ProgramModule"})
  /\ \A v : Spelt("ProgramModule", v) = Tree(v)
PROOF
  <1>1. "ProgramModule" \in NodeSorts
    BY DEF NodeSorts
  <1>2. NodeValues("ProgramModule") = Of({"ProgramModule"})
    BY DEF NodeValues
  <1> QED  BY <1>1, <1>2, NodeSortsAre

\* The sort Block.
LEMMA BlockSort ==
  /\ "Block" \in Meant /\ Values("Block") = Block
  /\ \A v : Spelt("Block", v) = Tree(v)
PROOF
  <1>1. "Block" \in NodeSorts
    BY DEF NodeSorts
  <1>2. NodeValues("Block") = Block
    BY DEF NodeValues
  <1> QED  BY <1>1, <1>2, NodeSortsAre

\* The sort Declarations.
LEMMA DeclarationsSort ==
  /\ "Declarations" \in Meant /\ Values("Declarations") = DeclarationsNode
  /\ \A v : Spelt("Declarations", v) = Tree(v)
PROOF
  <1>1. "Declarations" \in NodeSorts
    BY DEF NodeSorts
  <1>2. NodeValues("Declarations") = DeclarationsNode
    BY DEF NodeValues
  <1> QED  BY <1>1, <1>2, NodeSortsAre

\* The sort ConstantDef.
LEMMA ConstantDefSort ==
  /\ "ConstantDef" \in Meant /\ Values("ConstantDef") = ConstDef
  /\ \A v : Spelt("ConstantDef", v) = Tree(v)
PROOF
  <1>1. "ConstantDef" \in NodeSorts
    BY DEF NodeSorts
  <1>2. NodeValues("ConstantDef") = ConstDef
    BY DEF NodeValues
  <1> QED  BY <1>1, <1>2, NodeSortsAre

\* The sort TypeDef.
LEMMA TypeDefSort ==
  /\ "TypeDef" \in Meant /\ Values("TypeDef") = TypeDef
  /\ \A v : Spelt("TypeDef", v) = Tree(v)
PROOF
  <1>1. "TypeDef" \in NodeSorts
    BY DEF NodeSorts
  <1>2. NodeValues("TypeDef") = TypeDef
    BY DEF NodeValues
  <1> QED  BY <1>1, <1>2, NodeSortsAre

\* The sort VariableDecl.
LEMMA VariableDeclSort ==
  /\ "VariableDecl" \in Meant /\ Values("VariableDecl") = VarDecl
  /\ \A v : Spelt("VariableDecl", v) = Tree(v)
PROOF
  <1>1. "VariableDecl" \in NodeSorts
    BY DEF NodeSorts
  <1>2. NodeValues("VariableDecl") = VarDecl
    BY DEF NodeValues
  <1> QED  BY <1>1, <1>2, NodeSortsAre

\* The sort ProcedureDecl.
LEMMA ProcedureDeclSort ==
  /\ "ProcedureDecl" \in Meant /\ Values("ProcedureDecl") = ProcDecl
  /\ \A v : Spelt("ProcedureDecl", v) = Tree(v)
PROOF
  <1>1. "ProcedureDecl" \in NodeSorts
    BY DEF NodeSorts
  <1>2. NodeValues("ProcedureDecl") = ProcDecl
    BY DEF NodeValues
  <1> QED  BY <1>1, <1>2, NodeSortsAre

\* The sort FunctionDecl.
LEMMA FunctionDeclSort ==
  /\ "FunctionDecl" \in Meant /\ Values("FunctionDecl") = Of({"FuncDecl"})
  /\ \A v : Spelt("FunctionDecl", v) = Tree(v)
PROOF
  <1>1. "FunctionDecl" \in NodeSorts
    BY DEF NodeSorts
  <1>2. NodeValues("FunctionDecl") = Of({"FuncDecl"})
    BY DEF NodeValues
  <1> QED  BY <1>1, <1>2, NodeSortsAre

\* The sort ConstExpression.
LEMMA ConstExpressionSort ==
  /\ "ConstExpression" \in Meant /\ Values("ConstExpression") = ConstExpr
  /\ \A v : Spelt("ConstExpression", v) = Tree(v)
PROOF
  <1>1. "ConstExpression" \in NodeSorts
    BY DEF NodeSorts
  <1>2. NodeValues("ConstExpression") = ConstExpr
    BY DEF NodeValues
  <1> QED  BY <1>1, <1>2, NodeSortsAre

\* The sort ConstFactor.
LEMMA ConstFactorSort ==
  /\ "ConstFactor" \in Meant /\ Values("ConstFactor") = ConstFactor
  /\ \A v : Spelt("ConstFactor", v) = Tree(v)
PROOF
  <1>1. "ConstFactor" \in NodeSorts
    BY DEF NodeSorts
  <1>2. NodeValues("ConstFactor") = ConstFactor
    BY DEF NodeValues
  <1> QED  BY <1>1, <1>2, NodeSortsAre

\* The sort Type.
LEMMA TypeSort ==
  /\ "Type" \in Meant /\ Values("Type") = Type
  /\ \A v : Spelt("Type", v) = Tree(v)
PROOF
  <1>1. "Type" \in NodeSorts
    BY DEF NodeSorts
  <1>2. NodeValues("Type") = Type
    BY DEF NodeValues
  <1> QED  BY <1>1, <1>2, NodeSortsAre

\* The sort StatementSequence.
LEMMA StatementSequenceSort ==
  /\ "StatementSequence" \in Meant /\ Values("StatementSequence") = StmtSeq
  /\ \A v : Spelt("StatementSequence", v) = Tree(v)
PROOF
  <1>1. "StatementSequence" \in NodeSorts
    BY DEF NodeSorts
  <1>2. NodeValues("StatementSequence") = StmtSeq
    BY DEF NodeValues
  <1> QED  BY <1>1, <1>2, NodeSortsAre

\* The sort Statement.
LEMMA StatementSort ==
  /\ "Statement" \in Meant /\ Values("Statement") = Stmt
  /\ \A v : Spelt("Statement", v) = Tree(v)
PROOF
  <1>1. "Statement" \in NodeSorts
    BY DEF NodeSorts
  <1>2. NodeValues("Statement") = Stmt
    BY DEF NodeValues
  <1> QED  BY <1>1, <1>2, NodeSortsAre

\* The sort DesignatorItem.
LEMMA DesignatorItemSort ==
  /\ "DesignatorItem" \in Meant /\ Values("DesignatorItem") = DesignatorItem
  /\ \A v : Spelt("DesignatorItem", v) = Tree(v)
PROOF
  <1>1. "DesignatorItem" \in NodeSorts
    BY DEF NodeSorts
  <1>2. NodeValues("DesignatorItem") = DesignatorItem
    BY DEF NodeValues
  <1> QED  BY <1>1, <1>2, NodeSortsAre

\* The sort Expression.
LEMMA ExpressionSort ==
  /\ "Expression" \in Meant /\ Values("Expression") = Expr
  /\ \A v : Spelt("Expression", v) = Tree(v)
PROOF
  <1>1. "Expression" \in NodeSorts
    BY DEF NodeSorts
  <1>2. NodeValues("Expression") = Expr
    BY DEF NodeValues
  <1> QED  BY <1>1, <1>2, NodeSortsAre

\* The sort SimpleExpression.
LEMMA SimpleExpressionSort ==
  /\ "SimpleExpression" \in Meant /\ Values("SimpleExpression") = SimpleExpr
  /\ \A v : Spelt("SimpleExpression", v) = Tree(v)
PROOF
  <1>1. "SimpleExpression" \in NodeSorts
    BY DEF NodeSorts
  <1>2. NodeValues("SimpleExpression") = SimpleExpr
    BY DEF NodeValues
  <1> QED  BY <1>1, <1>2, NodeSortsAre

\* The sort Term.
LEMMA TermSort ==
  /\ "Term" \in Meant /\ Values("Term") = Term
  /\ \A v : Spelt("Term", v) = Tree(v)
PROOF
  <1>1. "Term" \in NodeSorts
    BY DEF NodeSorts
  <1>2. NodeValues("Term") = Term
    BY DEF NodeValues
  <1> QED  BY <1>1, <1>2, NodeSortsAre

\* The sort Factor.
LEMMA FactorSort ==
  /\ "Factor" \in Meant /\ Values("Factor") = Factor
  /\ \A v : Spelt("Factor", v) = Tree(v)
PROOF
  <1>1. "Factor" \in NodeSorts
    BY DEF NodeSorts
  <1>2. NodeValues("Factor") = Factor
    BY DEF NodeValues
  <1> QED  BY <1>1, <1>2, NodeSortsAre

\* The sort Designator.
LEMMA DesignatorSort ==
  /\ "Designator" \in Meant /\ Values("Designator") = Designator
  /\ \A v : Spelt("Designator", v) = Tree(v)
PROOF
  <1>1. "Designator" \in NodeSorts
    BY DEF NodeSorts
  <1>2. NodeValues("Designator") = Designator
    BY DEF NodeValues
  <1> QED  BY <1>1, <1>2, NodeSortsAre

\* The sort Subrange.
LEMMA SubrangeSort ==
  /\ "Subrange" \in Meant /\ Values("Subrange") = Subrange
  /\ \A v : Spelt("Subrange", v) = Sentences("Subrange", v)
PROOF
  <1>1. "Subrange" \in CategorySorts
    BY DEF CategorySorts, PartCategories, ListCategories
  <1>2. ValuesOf("Subrange") = Subrange
    BY DEF ValuesOf
  <1> QED  BY <1>1, <1>2, CategorySortsAre

\* The sort FieldList.
LEMMA FieldListSort ==
  /\ "FieldList" \in Meant /\ Values("FieldList") = FieldList
  /\ \A v : Spelt("FieldList", v) = Sentences("FieldList", v)
PROOF
  <1>1. "FieldList" \in CategorySorts
    BY DEF CategorySorts, PartCategories, ListCategories
  <1>2. ValuesOf("FieldList") = FieldList
    BY DEF ValuesOf
  <1> QED  BY <1>1, <1>2, CategorySortsAre

\* The sort Case.
LEMMA CaseSort ==
  /\ "Case" \in Meant /\ Values("Case") = CaseLabels
  /\ \A v : Spelt("Case", v) = Sentences("Case", v)
PROOF
  <1>1. "Case" \in CategorySorts
    BY DEF CategorySorts, PartCategories, ListCategories
  <1>2. ValuesOf("Case") = CaseLabels
    BY DEF ValuesOf
  <1> QED  BY <1>1, <1>2, CategorySortsAre

\* The sort OneFormalParam.
LEMMA OneFormalParamSort ==
  /\ "OneFormalParam" \in Meant /\ Values("OneFormalParam") = FormalParam
  /\ \A v : Spelt("OneFormalParam", v) = Sentences("OneFormalParam", v)
PROOF
  <1>1. "OneFormalParam" \in CategorySorts
    BY DEF CategorySorts, PartCategories, ListCategories
  <1>2. ValuesOf("OneFormalParam") = FormalParam
    BY DEF ValuesOf
  <1> QED  BY <1>1, <1>2, CategorySortsAre

\* The sort ConstantDefList.
LEMMA ConstantDefListSort ==
  /\ "ConstantDefList" \in Meant /\ Values("ConstantDefList") = Seq(ConstDef) \ {<<>>}
  /\ \A v : Spelt("ConstantDefList", v) = Sentences("ConstantDefList", v)
PROOF
  <1>1. "ConstantDefList" \in CategorySorts
    BY DEF CategorySorts, PartCategories, ListCategories
  <1>2. ValuesOf("ConstantDefList") = Seq(ConstDef) \ {<<>>}
    BY DEF ValuesOf
  <1> QED  BY <1>1, <1>2, CategorySortsAre

\* The sort TypeDefList.
LEMMA TypeDefListSort ==
  /\ "TypeDefList" \in Meant /\ Values("TypeDefList") = Seq(TypeDef) \ {<<>>}
  /\ \A v : Spelt("TypeDefList", v) = Sentences("TypeDefList", v)
PROOF
  <1>1. "TypeDefList" \in CategorySorts
    BY DEF CategorySorts, PartCategories, ListCategories
  <1>2. ValuesOf("TypeDefList") = Seq(TypeDef) \ {<<>>}
    BY DEF ValuesOf
  <1> QED  BY <1>1, <1>2, CategorySortsAre

\* The sort VariableDeclList.
LEMMA VariableDeclListSort ==
  /\ "VariableDeclList" \in Meant /\ Values("VariableDeclList") = Seq(VarDecl) \ {<<>>}
  /\ \A v : Spelt("VariableDeclList", v) = Sentences("VariableDeclList", v)
PROOF
  <1>1. "VariableDeclList" \in CategorySorts
    BY DEF CategorySorts, PartCategories, ListCategories
  <1>2. ValuesOf("VariableDeclList") = Seq(VarDecl) \ {<<>>}
    BY DEF ValuesOf
  <1> QED  BY <1>1, <1>2, CategorySortsAre

\* The sort SubprogDeclList.
LEMMA SubprogDeclListSort ==
  /\ "SubprogDeclList" \in Meant /\ Values("SubprogDeclList") = Seq(SubprogDecl) \ {<<>>}
  /\ \A v : Spelt("SubprogDeclList", v) = Sentences("SubprogDeclList", v)
PROOF
  <1>1. "SubprogDeclList" \in CategorySorts
    BY DEF CategorySorts, PartCategories, ListCategories
  <1>2. ValuesOf("SubprogDeclList") = Seq(SubprogDecl) \ {<<>>}
    BY DEF ValuesOf
  <1> QED  BY <1>1, <1>2, CategorySortsAre

\* The sort IdentList.
LEMMA IdentListSort ==
  /\ "IdentList" \in Meant /\ Values("IdentList") = Seq(Ident) \ {<<>>}
  /\ \A v : Spelt("IdentList", v) = Sentences("IdentList", v)
PROOF
  <1>1. "IdentList" \in CategorySorts
    BY DEF CategorySorts, PartCategories, ListCategories
  <1>2. ValuesOf("IdentList") = Seq(Ident) \ {<<>>}
    BY DEF ValuesOf
  <1> QED  BY <1>1, <1>2, CategorySortsAre

\* The sort CaseLabelList.
LEMMA CaseLabelListSort ==
  /\ "CaseLabelList" \in Meant /\ Values("CaseLabelList") = Seq(ConstExpr) \ {<<>>}
  /\ \A v : Spelt("CaseLabelList", v) = Sentences("CaseLabelList", v)
PROOF
  <1>1. "CaseLabelList" \in CategorySorts
    BY DEF CategorySorts, PartCategories, ListCategories
  <1>2. ValuesOf("CaseLabelList") = Seq(ConstExpr) \ {<<>>}
    BY DEF ValuesOf
  <1> QED  BY <1>1, <1>2, CategorySortsAre

\* The sort ExpList.
LEMMA ExpListSort ==
  /\ "ExpList" \in Meant /\ Values("ExpList") = Seq(Expr) \ {<<>>}
  /\ \A v : Spelt("ExpList", v) = Sentences("ExpList", v)
PROOF
  <1>1. "ExpList" \in CategorySorts
    BY DEF CategorySorts, PartCategories, ListCategories
  <1>2. ValuesOf("ExpList") = Seq(Expr) \ {<<>>}
    BY DEF ValuesOf
  <1> QED  BY <1>1, <1>2, CategorySortsAre

\* The sort StatementList.
LEMMA StatementListSort ==
  /\ "StatementList" \in Meant /\ Values("StatementList") = Seq(Stmt) \ {<<>>}
  /\ \A v : Spelt("StatementList", v) = Sentences("StatementList", v)
PROOF
  <1>1. "StatementList" \in CategorySorts
    BY DEF CategorySorts, PartCategories, ListCategories
  <1>2. ValuesOf("StatementList") = Seq(Stmt) \ {<<>>}
    BY DEF ValuesOf
  <1> QED  BY <1>1, <1>2, CategorySortsAre

\* The sort SubrangeList.
LEMMA SubrangeListSort ==
  /\ "SubrangeList" \in Meant /\ Values("SubrangeList") = Seq(Subrange) \ {<<>>}
  /\ \A v : Spelt("SubrangeList", v) = Sentences("SubrangeList", v)
PROOF
  <1>1. "SubrangeList" \in CategorySorts
    BY DEF CategorySorts, PartCategories, ListCategories
  <1>2. ValuesOf("SubrangeList") = Seq(Subrange) \ {<<>>}
    BY DEF ValuesOf
  <1> QED  BY <1>1, <1>2, CategorySortsAre

\* The sort FieldListSequence.
LEMMA FieldListSequenceSort ==
  /\ "FieldListSequence" \in Meant /\ Values("FieldListSequence") = Seq(FieldList) \ {<<>>}
  /\ \A v : Spelt("FieldListSequence", v) = Sentences("FieldListSequence", v)
PROOF
  <1>1. "FieldListSequence" \in CategorySorts
    BY DEF CategorySorts, PartCategories, ListCategories
  <1>2. ValuesOf("FieldListSequence") = Seq(FieldList) \ {<<>>}
    BY DEF ValuesOf
  <1> QED  BY <1>1, <1>2, CategorySortsAre

\* The sort CaseList.
LEMMA CaseListSort ==
  /\ "CaseList" \in Meant /\ Values("CaseList") = Seq(CaseLabels) \ {<<>>}
  /\ \A v : Spelt("CaseList", v) = Sentences("CaseList", v)
PROOF
  <1>1. "CaseList" \in CategorySorts
    BY DEF CategorySorts, PartCategories, ListCategories
  <1>2. ValuesOf("CaseList") = Seq(CaseLabels) \ {<<>>}
    BY DEF ValuesOf
  <1> QED  BY <1>1, <1>2, CategorySortsAre

\* The sort OneFormalParamList.
LEMMA OneFormalParamListSort ==
  /\ "OneFormalParamList" \in Meant /\ Values("OneFormalParamList") = Seq(FormalParam) \ {<<>>}
  /\ \A v : Spelt("OneFormalParamList", v) = Sentences("OneFormalParamList", v)
PROOF
  <1>1. "OneFormalParamList" \in CategorySorts
    BY DEF CategorySorts, PartCategories, ListCategories
  <1>2. ValuesOf("OneFormalParamList") = Seq(FormalParam) \ {<<>>}
    BY DEF ValuesOf
  <1> QED  BY <1>1, <1>2, CategorySortsAre

\* The sort DesignatorStuff.
LEMMA DesignatorStuffSort ==
  /\ "DesignatorStuff" \in Meant /\ Values("DesignatorStuff") = Seq(DesignatorItem) \ {<<>>}
  /\ \A v : Spelt("DesignatorStuff", v) = Sentences("DesignatorStuff", v)
PROOF
  <1>1. "DesignatorStuff" \in CategorySorts
    BY DEF CategorySorts, PartCategories, ListCategories
  <1>2. ValuesOf("DesignatorStuff") = Seq(DesignatorItem) \ {<<>>}
    BY DEF ValuesOf
  <1> QED  BY <1>1, <1>2, CategorySortsAre

\* The sort SubprogDecl.
LEMMA SubprogDeclSort ==
  /\ "SubprogDecl" \in Meant /\ Values("SubprogDecl") = SubprogDecl
  /\ \A v : Spelt("SubprogDecl", v) = Tree(v) ** Word(";")
PROOF
  <1>1. "SubprogDecl" \in OtherSorts
    BY DEF OtherSorts
  <1>2. OtherValues("SubprogDecl") = SubprogDecl
    BY DEF OtherValues
  <1>3. ASSUME NEW v
        PROVE  OtherSpelt("SubprogDecl", v) = Tree(v) ** Word(";")
    BY DEF OtherSpelt
  <1> QED  BY <1>1, <1>2, <1>3, OtherSortsAre

\* The sort ConstantDefBlockOpt.
LEMMA ConstantDefBlockOptSort ==
  /\ "ConstantDefBlockOpt" \in Meant /\ Values("ConstantDefBlockOpt") = Seq(ConstDef)
  /\ \A v : Spelt("ConstantDefBlockOpt", v) = Section("const", "ConstantDefList", v)
PROOF
  <1>1. "ConstantDefBlockOpt" \in OtherSorts
    BY DEF OtherSorts
  <1>2. OtherValues("ConstantDefBlockOpt") = Seq(ConstDef)
    BY DEF OtherValues
  <1>3. ASSUME NEW v
        PROVE  OtherSpelt("ConstantDefBlockOpt", v) = Section("const", "ConstantDefList", v)
    BY DEF OtherSpelt
  <1> QED  BY <1>1, <1>2, <1>3, OtherSortsAre

\* The sort TypeDefBlockOpt.
LEMMA TypeDefBlockOptSort ==
  /\ "TypeDefBlockOpt" \in Meant /\ Values("TypeDefBlockOpt") = Seq(TypeDef)
  /\ \A v : Spelt("TypeDefBlockOpt", v) = Section("type", "TypeDefList", v)
PROOF
  <1>1. "TypeDefBlockOpt" \in OtherSorts
    BY DEF OtherSorts
  <1>2. OtherValues("TypeDefBlockOpt") = Seq(TypeDef)
    BY DEF OtherValues
  <1>3. ASSUME NEW v
        PROVE  OtherSpelt("TypeDefBlockOpt", v) = Section("type", "TypeDefList", v)
    BY DEF OtherSpelt
  <1> QED  BY <1>1, <1>2, <1>3, OtherSortsAre

\* The sort VariableDeclBlockOpt.
LEMMA VariableDeclBlockOptSort ==
  /\ "VariableDeclBlockOpt" \in Meant /\ Values("VariableDeclBlockOpt") = Seq(VarDecl)
  /\ \A v : Spelt("VariableDeclBlockOpt", v) = Section("var", "VariableDeclList", v)
PROOF
  <1>1. "VariableDeclBlockOpt" \in OtherSorts
    BY DEF OtherSorts
  <1>2. OtherValues("VariableDeclBlockOpt") = Seq(VarDecl)
    BY DEF OtherValues
  <1>3. ASSUME NEW v
        PROVE  OtherSpelt("VariableDeclBlockOpt", v) = Section("var", "VariableDeclList", v)
    BY DEF OtherSpelt
  <1> QED  BY <1>1, <1>2, <1>3, OtherSortsAre

\* The sort SubprogDeclListOpt.
LEMMA SubprogDeclListOptSort ==
  /\ "SubprogDeclListOpt" \in Meant /\ Values("SubprogDeclListOpt") = Seq(SubprogDecl)
  /\ \A v : Spelt("SubprogDeclListOpt", v) = Optionally("SubprogDeclList", v)
PROOF
  <1>1. "SubprogDeclListOpt" \in OtherSorts
    BY DEF OtherSorts
  <1>2. OtherValues("SubprogDeclListOpt") = Seq(SubprogDecl)
    BY DEF OtherValues
  <1>3. ASSUME NEW v
        PROVE  OtherSpelt("SubprogDeclListOpt", v) = Optionally("SubprogDeclList", v)
    BY DEF OtherSpelt
  <1> QED  BY <1>1, <1>2, <1>3, OtherSortsAre

\* The sort FormalParametersOpt.
LEMMA FormalParametersOptSort ==
  /\ "FormalParametersOpt" \in Meant /\ Values("FormalParametersOpt") = Seq(FormalParam)
  /\ \A v : Spelt("FormalParametersOpt", v) = FormalParameters(v)
PROOF
  <1>1. "FormalParametersOpt" \in OtherSorts
    BY DEF OtherSorts
  <1>2. OtherValues("FormalParametersOpt") = Seq(FormalParam)
    BY DEF OtherValues
  <1>3. ASSUME NEW v
        PROVE  OtherSpelt("FormalParametersOpt", v) = FormalParameters(v)
    BY DEF OtherSpelt
  <1> QED  BY <1>1, <1>2, <1>3, OtherSortsAre

\* The sort ProcedureHeading.
LEMMA ProcedureHeadingSort ==
  /\ "ProcedureHeading" \in Meant /\ Values("ProcedureHeading") = ProcHeading
  /\ \A v : Spelt("ProcedureHeading", v) = Heading("procedure", v)
PROOF
  <1>1. "ProcedureHeading" \in OtherSorts
    BY DEF OtherSorts
  <1>2. OtherValues("ProcedureHeading") = ProcHeading
    BY DEF OtherValues
  <1>3. ASSUME NEW v
        PROVE  OtherSpelt("ProcedureHeading", v) = Heading("procedure", v)
    BY DEF OtherSpelt
  <1> QED  BY <1>1, <1>2, <1>3, OtherSortsAre

\* The sort FunctionHeading.
LEMMA FunctionHeadingSort ==
  /\ "FunctionHeading" \in Meant /\ Values("FunctionHeading") = ProcHeading
  /\ \A v : Spelt("FunctionHeading", v) = Heading("function", v)
PROOF
  <1>1. "FunctionHeading" \in OtherSorts
    BY DEF OtherSorts
  <1>2. OtherValues("FunctionHeading") = ProcHeading
    BY DEF OtherValues
  <1>3. ASSUME NEW v
        PROVE  OtherSpelt("FunctionHeading", v) = Heading("function", v)
    BY DEF OtherSpelt
  <1> QED  BY <1>1, <1>2, <1>3, OtherSortsAre

\* The sort ProgramParametersOpt.
LEMMA ProgramParametersOptSort ==
  /\ "ProgramParametersOpt" \in Meant /\ Values("ProgramParametersOpt") = {<<>>}
  /\ \A v : Spelt("ProgramParametersOpt", v) = ProgramParameters
PROOF
  <1>1. "ProgramParametersOpt" \in OtherSorts
    BY DEF OtherSorts
  <1>2. OtherValues("ProgramParametersOpt") = {<<>>}
    BY DEF OtherValues
  <1>3. ASSUME NEW v
        PROVE  OtherSpelt("ProgramParametersOpt", v) = ProgramParameters
    BY DEF OtherSpelt
  <1> QED  BY <1>1, <1>2, <1>3, OtherSortsAre

\* The sort SignOpt.
LEMMA SignOptSort ==
  /\ "SignOpt" \in Meant /\ Values("SignOpt") = Sign
  /\ \A v : Spelt("SignOpt", v) = SignOf(v)
PROOF
  <1>1. "SignOpt" \in OtherSorts
    BY DEF OtherSorts
  <1>2. OtherValues("SignOpt") = Sign
    BY DEF OtherValues
  <1>3. ASSUME NEW v
        PROVE  OtherSpelt("SignOpt", v) = SignOf(v)
    BY DEF OtherSpelt
  <1> QED  BY <1>1, <1>2, <1>3, OtherSortsAre

\* The sort ActualParameters.
LEMMA ActualParametersSort ==
  /\ "ActualParameters" \in Meant /\ Values("ActualParameters") = Seq(Expr)
  /\ \A v : Spelt("ActualParameters", v) = ActualParameters(v)
PROOF
  <1>1. "ActualParameters" \in OtherSorts
    BY DEF OtherSorts
  <1>2. OtherValues("ActualParameters") = Seq(Expr)
    BY DEF OtherValues
  <1>3. ASSUME NEW v
        PROVE  OtherSpelt("ActualParameters", v) = ActualParameters(v)
    BY DEF OtherSpelt
  <1> QED  BY <1>1, <1>2, <1>3, OtherSortsAre

\* The sort ActualParametersOpt.
LEMMA ActualParametersOptSort ==
  /\ "ActualParametersOpt" \in Meant /\ Values("ActualParametersOpt") = Seq(Expr)
  /\ \A v : Spelt("ActualParametersOpt", v) = ActualParameters(v) \cup {none \in {<<>>} : v = <<>>}
PROOF
  <1>1. "ActualParametersOpt" \in OtherSorts
    BY DEF OtherSorts
  <1>2. OtherValues("ActualParametersOpt") = Seq(Expr)
    BY DEF OtherValues
  <1>3. ASSUME NEW v
        PROVE  OtherSpelt("ActualParametersOpt", v) = ActualParameters(v) \cup {none \in {<<>>} : v = <<>>}
    BY DEF OtherSpelt
  <1> QED  BY <1>1, <1>2, <1>3, OtherSortsAre

\* The sort DesignatorStuffOpt.
LEMMA DesignatorStuffOptSort ==
  /\ "DesignatorStuffOpt" \in Meant /\ Values("DesignatorStuffOpt") = Seq(DesignatorItem)
  /\ \A v : Spelt("DesignatorStuffOpt", v) = Optionally("DesignatorStuff", v)
PROOF
  <1>1. "DesignatorStuffOpt" \in OtherSorts
    BY DEF OtherSorts
  <1>2. OtherValues("DesignatorStuffOpt") = Seq(DesignatorItem)
    BY DEF OtherValues
  <1>3. ASSUME NEW v
        PROVE  OtherSpelt("DesignatorStuffOpt", v) = Optionally("DesignatorStuff", v)
    BY DEF OtherSpelt
  <1> QED  BY <1>1, <1>2, <1>3, OtherSortsAre

\* The sort ExpListOpt.
LEMMA ExpListOptSort ==
  /\ "ExpListOpt" \in Meant /\ Values("ExpListOpt") = Seq(Expr)
  /\ \A v : Spelt("ExpListOpt", v) = Optionally("ExpList", v)
PROOF
  <1>1. "ExpListOpt" \in OtherSorts
    BY DEF OtherSorts
  <1>2. OtherValues("ExpListOpt") = Seq(Expr)
    BY DEF OtherValues
  <1>3. ASSUME NEW v
        PROVE  OtherSpelt("ExpListOpt", v) = Optionally("ExpList", v)
    BY DEF OtherSpelt
  <1> QED  BY <1>1, <1>2, <1>3, OtherSortsAre

\* The sort WhichWay.
LEMMA WhichWaySort ==
  /\ "WhichWay" \in Meant /\ Values("WhichWay") = {"To", "DownTo"}
  /\ \A v : Spelt("WhichWay", v) = Word("to") \cup Word("downto")
PROOF
  <1>1. "WhichWay" \in OtherSorts
    BY DEF OtherSorts
  <1>2. OtherValues("WhichWay") = {"To", "DownTo"}
    BY DEF OtherValues
  <1>3. ASSUME NEW v
        PROVE  OtherSpelt("WhichWay", v) = Word("to") \cup Word("downto")
    BY DEF OtherSpelt
  <1> QED  BY <1>1, <1>2, <1>3, OtherSortsAre

\* The sort TermList.
LEMMA TermListSort ==
  /\ "TermList" \in Meant /\ Values("TermList") = Operands(AddOp, Term)
  /\ \A v : Spelt("TermList", v) = Tree(v.items[1]) ** Optionally("Operations", Ops(v))
PROOF
  <1>1. "TermList" \in OtherSorts
    BY DEF OtherSorts
  <1>2. OtherValues("TermList") = Operands(AddOp, Term)
    BY DEF OtherValues
  <1>3. ASSUME NEW v
        PROVE  OtherSpelt("TermList", v) = Tree(v.items[1]) ** Optionally("Operations", Ops(v))
    BY DEF OtherSpelt
  <1> QED  BY <1>1, <1>2, <1>3, OtherSortsAre

\* The sort FactorList.
LEMMA FactorListSort ==
  /\ "FactorList" \in Meant /\ Values("FactorList") = Operands(MultOp, Factor)
  /\ \A v : Spelt("FactorList", v) = Tree(v.items[1]) ** Optionally("Operations", Ops(v))
PROOF
  <1>1. "FactorList" \in OtherSorts
    BY DEF OtherSorts
  <1>2. OtherValues("FactorList") = Operands(MultOp, Factor)
    BY DEF OtherValues
  <1>3. ASSUME NEW v
        PROVE  OtherSpelt("FactorList", v) = Tree(v.items[1]) ** Optionally("Operations", Ops(v))
    BY DEF OtherSpelt
  <1> QED  BY <1>1, <1>2, <1>3, OtherSortsAre

\* The sort AddOperator.
LEMMA AddOperatorSort ==
  /\ "AddOperator" \in Meant /\ Values("AddOperator") = AddOp
  /\ \A v : Spelt("AddOperator", v) = Word(Spelling(v))
PROOF
  <1>1. "AddOperator" \in OtherSorts
    BY DEF OtherSorts
  <1>2. OtherValues("AddOperator") = AddOp
    BY DEF OtherValues
  <1>3. ASSUME NEW v
        PROVE  OtherSpelt("AddOperator", v) = Word(Spelling(v))
    BY DEF OtherSpelt
  <1> QED  BY <1>1, <1>2, <1>3, OtherSortsAre

\* The sort MultOperator.
LEMMA MultOperatorSort ==
  /\ "MultOperator" \in Meant /\ Values("MultOperator") = MultOp
  /\ \A v : Spelt("MultOperator", v) = Word(Spelling(v))
PROOF
  <1>1. "MultOperator" \in OtherSorts
    BY DEF OtherSorts
  <1>2. OtherValues("MultOperator") = MultOp
    BY DEF OtherValues
  <1>3. ASSUME NEW v
        PROVE  OtherSpelt("MultOperator", v) = Word(Spelling(v))
    BY DEF OtherSpelt
  <1> QED  BY <1>1, <1>2, <1>3, OtherSortsAre

\* The sort Relation.
LEMMA RelationSort ==
  /\ "Relation" \in Meant /\ Values("Relation") = RelOp
  /\ \A v : Spelt("Relation", v) = Word(Spelling(v))
PROOF
  <1>1. "Relation" \in OtherSorts
    BY DEF OtherSorts
  <1>2. OtherValues("Relation") = RelOp
    BY DEF OtherValues
  <1>3. ASSUME NEW v
        PROVE  OtherSpelt("Relation", v) = Word(Spelling(v))
    BY DEF OtherSpelt
  <1> QED  BY <1>1, <1>2, <1>3, OtherSortsAre

\* The sort identifier.
LEMMA IdentifierSort ==
  /\ "identifier" \in Meant /\ Values("identifier") = Ident
  /\ \A v : Spelt("identifier", v) = Name(v)
PROOF
  <1>1. "identifier" \in HasValue
    BY DEF HasValue
  <1>2. TokenValues("identifier") = Ident
    BY DEF TokenValues
  <1> QED  BY <1>1, <1>2, ValuedAre DEF Name

\* The sort string.
LEMMA StringSort ==
  /\ "string" \in Meant /\ Values("string") = STRING
  /\ \A v : Spelt("string", v) = Valued("string", v)
PROOF
  <1>1. "string" \in HasValue
    BY DEF HasValue
  <1>2. TokenValues("string") = STRING
    BY DEF TokenValues
  <1> QED  BY <1>1, <1>2, ValuedAre

\* The sort number.
LEMMA NumberSort ==
  /\ "number" \in Meant /\ Values("number") = 0..MaxLiteral
  /\ \A v : Spelt("number", v) = Valued("number", v)
PROOF
  <1>1. "number" \in HasValue
    BY DEF HasValue
  <1>2. TokenValues("number") = 0..MaxLiteral
    BY DEF TokenValues
  <1> QED  BY <1>1, <1>2, ValuedAre

\* The tokens that are words.
LEMMA KindsAreWords ==
  /\ "(" \in Words /\ ")" \in Words /\ "*" \in Words /\ "+" \in Words
  /\ "," \in Words /\ "-" \in Words /\ "." \in Words /\ ".." \in Words
  /\ "/" \in Words /\ ":" \in Words /\ ":=" \in Words /\ ";" \in Words
  /\ "<" \in Words /\ "<=" \in Words /\ "<>" \in Words /\ "=" \in Words
  /\ ">" \in Words /\ ">=" \in Words /\ "Dispose" \in Words /\ "EOF" \in Words
  /\ "False" \in Words /\ "New" \in Words /\ "True" \in Words /\ "[" \in Words
  /\ "]" \in Words /\ "^" \in Words /\ "and" \in Words /\ "array" \in Words
  /\ "begin" \in Words /\ "case" \in Words /\ "const" \in Words /\ "div" \in Words
  /\ "do" \in Words /\ "downto" \in Words /\ "else" \in Words /\ "end" \in Words
  /\ "for" \in Words /\ "function" \in Words /\ "if" \in Words /\ "in" \in Words
  /\ "mod" \in Words /\ "nil" \in Words /\ "not" \in Words /\ "of" \in Words
  /\ "or" \in Words /\ "procedure" \in Words /\ "program" \in Words /\ "record" \in Words
  /\ "repeat" \in Words /\ "set" \in Words /\ "then" \in Words /\ "to" \in Words
  /\ "type" \in Words /\ "until" \in Words /\ "var" \in Words /\ "while" \in Words
PROOF
  <1>1. /\ "(" \in Words /\ ")" \in Words /\ "*" \in Words /\ "+" \in Words
        /\ "," \in Words /\ "-" \in Words /\ "." \in Words /\ ".." \in Words
        /\ "/" \in Words /\ ":" \in Words /\ ":=" \in Words /\ ";" \in Words
    BY DEF Words, Kinds, HasValue
  <1>2. /\ "<" \in Words /\ "<=" \in Words /\ "<>" \in Words /\ "=" \in Words
        /\ ">" \in Words /\ ">=" \in Words /\ "Dispose" \in Words /\ "EOF" \in Words
        /\ "False" \in Words /\ "New" \in Words /\ "True" \in Words /\ "[" \in Words
    BY DEF Words, Kinds, HasValue
  <1>3. /\ "]" \in Words /\ "^" \in Words /\ "and" \in Words /\ "array" \in Words
        /\ "begin" \in Words /\ "case" \in Words /\ "const" \in Words /\ "div" \in Words
        /\ "do" \in Words /\ "downto" \in Words /\ "else" \in Words /\ "end" \in Words
    BY DEF Words, Kinds, HasValue
  <1>4. /\ "for" \in Words /\ "function" \in Words /\ "if" \in Words /\ "in" \in Words
        /\ "mod" \in Words /\ "nil" \in Words /\ "not" \in Words /\ "of" \in Words
        /\ "or" \in Words /\ "procedure" \in Words /\ "program" \in Words /\ "record" \in Words
    BY DEF Words, Kinds, HasValue
  <1>5. /\ "repeat" \in Words /\ "set" \in Words /\ "then" \in Words /\ "to" \in Words
        /\ "type" \in Words /\ "until" \in Words /\ "var" \in Words /\ "while" \in Words
    BY DEF Words, Kinds, HasValue
  <1> QED  BY <1>1, <1>2, <1>3, <1>4, <1>5

-----------------------------------------------------------------------------
(* Nodes and lists that are built.                                         *)

\* What has the shape of a node is one.
LEMMA MadeNode ==
  ASSUME AllTrees, NEW n, IsNode(n)
  PROVE  n \in Node /\ (SyntaxIsClosed => NodeSentences(n) \subseteq Tree(n))
PROOF
  <1>1. n \in Node
    BY DEF AllTrees
  <1>2. ASSUME SyntaxIsClosed
        PROVE  NodeSentences(n) \subseteq Tree(n)
    <2>1. n \in ValuesOf("node")
      BY <1>1 DEF ValuesOf
    <2>2. SentencesOf("node", n) \subseteq Sentences("node", n)
      BY <1>2, <2>1 DEF SyntaxIsClosed
    <2>3. SentencesOf("node", n) = NodeSentences(n)
      BY DEF SentencesOf, PartCategories, ListCategories
    <2> QED  BY <2>2, <2>3 DEF Tree
  <1> QED  BY <1>1, <1>2

\* A factor.
LEMMA MadeFactor ==
  ASSUME AllTrees, NEW n, n.kind \in FactorKinds, IsFactor(n)
  PROVE  n \in Node /\ (SyntaxIsClosed => FactorSentences(n) \subseteq Tree(n))
PROOF
  <1>1. IsNode(n)
    BY DEF IsNode
  <1>2. n.kind \notin ChainKinds /\ n.kind \notin DesignatorItemKinds /\ n.kind \notin ConstKinds /\ n.kind \notin TypeKinds /\ n.kind \notin StmtKinds /\ n.kind \notin DeclKinds
    BY DEF FactorKinds, ChainKinds, DesignatorItemKinds, ConstKinds, TypeKinds, StmtKinds, DeclKinds,
       IgnoredKinds
  <1>3. NodeSentences(n) = FactorSentences(n)
    BY <1>2 DEF NodeSentences
  <1> QED  BY <1>1, <1>3, MadeNode

\* An expression, at one of the levels.
LEMMA MadeChain ==
  ASSUME AllTrees, NEW n, n.kind \in ChainKinds, IsChain(n)
  PROVE  n \in Node /\ (SyntaxIsClosed => ChainSentences(n) \subseteq Tree(n))
PROOF
  <1>1. IsNode(n)
    BY DEF IsNode
  <1>2. n.kind \notin FactorKinds /\ n.kind \notin DesignatorItemKinds /\ n.kind \notin ConstKinds /\ n.kind \notin TypeKinds /\ n.kind \notin StmtKinds /\ n.kind \notin DeclKinds
    BY DEF FactorKinds, ChainKinds, DesignatorItemKinds, ConstKinds, TypeKinds, StmtKinds, DeclKinds,
       IgnoredKinds
  <1>3. NodeSentences(n) = ChainSentences(n)
    BY <1>2 DEF NodeSentences
  <1> QED  BY <1>1, <1>3, MadeNode

\* A part of a designator.
LEMMA MadeDesignatorItem ==
  ASSUME AllTrees, NEW n, n.kind \in DesignatorItemKinds, IsDesignatorItem(n)
  PROVE  n \in Node /\ (SyntaxIsClosed => DesignatorItemSentences(n) \subseteq Tree(n))
PROOF
  <1>1. IsNode(n)
    BY DEF IsNode
  <1>2. n.kind \notin FactorKinds /\ n.kind \notin ChainKinds /\ n.kind \notin ConstKinds /\ n.kind \notin TypeKinds /\ n.kind \notin StmtKinds /\ n.kind \notin DeclKinds
    BY DEF FactorKinds, ChainKinds, DesignatorItemKinds, ConstKinds, TypeKinds, StmtKinds, DeclKinds,
       IgnoredKinds
  <1>3. NodeSentences(n) = DesignatorItemSentences(n)
    BY <1>2 DEF NodeSentences
  <1> QED  BY <1>1, <1>3, MadeNode

\* A constant expression or factor.
LEMMA MadeConst ==
  ASSUME AllTrees, NEW n, n.kind \in ConstKinds, IsConstNode(n)
  PROVE  n \in Node /\ (SyntaxIsClosed => ConstSentences(n) \subseteq Tree(n))
PROOF
  <1>1. IsNode(n)
    BY DEF IsNode
  <1>2. n.kind \notin FactorKinds /\ n.kind \notin ChainKinds /\ n.kind \notin DesignatorItemKinds /\ n.kind \notin TypeKinds /\ n.kind \notin StmtKinds /\ n.kind \notin DeclKinds
    BY DEF FactorKinds, ChainKinds, DesignatorItemKinds, ConstKinds, TypeKinds, StmtKinds, DeclKinds,
       IgnoredKinds
  <1>3. NodeSentences(n) = ConstSentences(n)
    BY <1>2 DEF NodeSentences
  <1> QED  BY <1>1, <1>3, MadeNode

\* A type.
LEMMA MadeType ==
  ASSUME AllTrees, NEW n, n.kind \in TypeKinds, IsType(n)
  PROVE  n \in Node /\ (SyntaxIsClosed => TypeSentences(n) \subseteq Tree(n))
PROOF
  <1>1. IsNode(n)
    BY DEF IsNode
  <1>2. n.kind \notin FactorKinds /\ n.kind \notin ChainKinds /\ n.kind \notin DesignatorItemKinds /\ n.kind \notin ConstKinds /\ n.kind \notin StmtKinds /\ n.kind \notin DeclKinds
    BY DEF FactorKinds, ChainKinds, DesignatorItemKinds, ConstKinds, TypeKinds, StmtKinds, DeclKinds,
       IgnoredKinds
  <1>3. NodeSentences(n) = TypeSentences(n)
    BY <1>2 DEF NodeSentences
  <1> QED  BY <1>1, <1>3, MadeNode

\* A statement.
LEMMA MadeStmt ==
  ASSUME AllTrees, NEW n, n.kind \in StmtKinds, IsStmt(n)
  PROVE  n \in Node /\ (SyntaxIsClosed => StmtSentences(n) \subseteq Tree(n))
PROOF
  <1>1. IsNode(n)
    BY DEF IsNode
  <1>2. n.kind \notin FactorKinds /\ n.kind \notin ChainKinds /\ n.kind \notin DesignatorItemKinds /\ n.kind \notin ConstKinds /\ n.kind \notin TypeKinds /\ n.kind \notin DeclKinds
    BY DEF FactorKinds, ChainKinds, DesignatorItemKinds, ConstKinds, TypeKinds, StmtKinds, DeclKinds,
       IgnoredKinds
  <1>3. NodeSentences(n) = StmtSentences(n)
    BY <1>2 DEF NodeSentences
  <1> QED  BY <1>1, <1>3, MadeNode

\* A declaration.
LEMMA MadeDecl ==
  ASSUME AllTrees, NEW n, n.kind \in DeclKinds, IsDecl(n)
  PROVE  n \in Node /\ (SyntaxIsClosed => DeclSentences(n) \subseteq Tree(n))
PROOF
  <1>1. IsNode(n)
    BY DEF IsNode
  <1>2. n.kind \notin FactorKinds /\ n.kind \notin ChainKinds /\ n.kind \notin DesignatorItemKinds /\ n.kind \notin ConstKinds /\ n.kind \notin TypeKinds /\ n.kind \notin StmtKinds
    BY DEF FactorKinds, ChainKinds, DesignatorItemKinds, ConstKinds, TypeKinds, StmtKinds, DeclKinds,
       IgnoredKinds
  <1>3. NodeSentences(n) = DeclSentences(n)
    BY <1>2 DEF NodeSentences
  <1> QED  BY <1>1, <1>3, MadeNode

\* Whether an else behind a statement is taken into it.
LEMMA OpenIs ==
  ASSUME SyntaxIsClosed, NEW n \in Stmt, EndsOpen(n)
  PROVE  EndsOpenOf(n)
PROOF
  BY DEF SyntaxIsClosed

\* A list or a part of a node that is no node.
LEMMA MadeCategory ==
  ASSUME SyntaxIsClosed, NEW c \in PartCategories \cup ListCategories, NEW v \in ValuesOf(c)
  PROVE  /\ c \in PartCategories => PartSentences(c, v) \subseteq Sentences(c, v)
         /\ c \in ListCategories => ListSentences(c, v) \subseteq Sentences(c, v)
         /\ Sentences(c, v) \subseteq Seq(Token)
PROOF
  <1>1. SentencesOf(c, v) \subseteq Sentences(c, v) /\ Sentences(c, v) \subseteq Seq(Token)
    BY DEF SyntaxIsClosed
  <1>2. c # "node" /\ ~(c \in PartCategories /\ c \in ListCategories)
    BY DEF PartCategories, ListCategories
  <1>3. c \in PartCategories => SentencesOf(c, v) = PartSentences(c, v)
    BY <1>2 DEF SentencesOf
  <1>4. c \in ListCategories => SentencesOf(c, v) = ListSentences(c, v)
    BY <1>2 DEF SentencesOf
  <1> QED  BY <1>1, <1>3, <1>4

\* The sentences of a node are sequences of tokens.
LEMMA TreesAreSequences ==
  ASSUME SyntaxIsClosed, NEW n \in Node
  PROVE  Tree(n) \subseteq Seq(Token)
PROOF
  <1>1. n \in ValuesOf("node")
    BY DEF ValuesOf
  <1> QED  BY <1>1 DEF SyntaxIsClosed, Tree

\* A list of one.
LEMMA ListOfOne ==
  ASSUME NEW S, NEW v \in S
  PROVE  /\ <<v>> \in Seq(S) \ {<<>>} /\ Len(<<v>>) = 1
         /\ <<v>>[1] = v /\ Tail(<<v>>) = <<>>
PROOF
  <1>1. <<v>> \in Seq(S) /\ Len(<<v>>) = 1 /\ <<v>>[1] = v
    BY Sequence1
  <1>2. Tail(<<v>>) = <<>>
    OBVIOUS
  <1> QED  BY <1>1, <1>2

\* An item is put at the front of a list.
LEMMA ListInserted ==
  ASSUME NEW S, NEW v \in S, NEW list \in Seq(S) \ {<<>>}
  PROVE  /\ <<v>> \o list \in Seq(S) \ {<<>>} /\ Len(<<v>> \o list) # 1
         /\ (<<v>> \o list)[1] = v /\ Tail(<<v>> \o list) = list
PROOF
  <1> DEFINE s == <<v>>
             r == s \o list
  <1>1. s \in Seq(S) /\ Len(s) = 1 /\ s[1] = v
    BY Sequence1
  <1> HIDE DEF s
  <1>2. Len(list) \in Nat \ {0}
    BY EmptySeq
  <1>3. /\ r \in Seq(S) /\ Len(r) = 1 + Len(list)
        /\ \A k \in 1..1 + Len(list) : r[k] = IF k <= 1 THEN s[k] ELSE list[k - 1]
    <2>1. list \in Seq(S)
      OBVIOUS
    <2>2. /\ r \in Seq(S) /\ Len(r) = Len(s) + Len(list)
          /\ \A k \in 1..Len(s) + Len(list) : r[k] = IF k <= Len(s) THEN s[k] ELSE list[k - Len(s)]
      BY <1>1, <2>1, ConcatProperties
    <2> HIDE DEF r
    <2> QED  BY <1>1, <2>2
  <1> HIDE DEF r
  <1>4. r # <<>> /\ Len(r) # 1
    BY <1>2, <1>3
  <1>5. r[1] = v
    BY <1>1, <1>2, <1>3
  <1>6. /\ Tail(r) \in Seq(S) /\ Len(Tail(r)) = Len(r) - 1
        /\ \A k \in 1..Len(Tail(r)) : Tail(r)[k] = r[k + 1]
    BY <1>3, <1>4, HeadTailProperties
  <1>7. Tail(r) = list
    <2>1. Len(Tail(r)) = Len(list)
      BY <1>2, <1>3, <1>6
    <2>2. ASSUME NEW k \in 1..Len(Tail(r))
          PROVE  Tail(r)[k] = list[k]
      <3>1. Tail(r)[k] = r[k + 1] /\ k + 1 \in 1..1 + Len(list) /\ ~(k + 1 <= 1) /\ k + 1 - 1 = k
        BY <1>2, <2>1, <1>6
      <3> QED  BY <3>1, <1>3
    <2> QED  BY <2>1, <2>2, <1>6, SeqEqual
  <1> QED  BY <1>3, <1>4, <1>5, <1>7 DEF s, r

-----------------------------------------------------------------------------
(* The actions that make nodes.                                            *)

\* The action ProgramModule.
LEMMA MakesProgramModule ==
  Makes("=ProgramModule", <<"program", "identifier", "ProgramParametersOpt", ";", "Block", ".">>, "ProgramModule")
PROOF
  <1>1. "." \in Words /\ ";" \in Words /\ "program" \in Words
    BY KindsAreWords
  <1>2. "." \in Meant /\ ";" \in Meant /\ "Block" \in Meant /\ "ProgramModule" \in Meant /\
        "ProgramParametersOpt" \in Meant /\ "identifier" \in Meant /\ "program" \in Meant
    BY <1>1, WordsAre, BlockSort, ProgramModuleSort, ProgramParametersOptSort, IdentifierSort
  <1>3. ASSUME AllTrees, NEW v1 \in Values("program"), NEW v2 \in Values("identifier"),
               NEW v3 \in Values("ProgramParametersOpt"), NEW v4 \in Values(";"),
               NEW v5 \in Values("Block"), NEW v6 \in Values(".")
        PROVE  Yields("ProgramModule", Built("=ProgramModule", <<v1, v2, v3, v4, v5, v6>>),
                      Before("Block", ";", v4, Spelt("program", v1) ** Spelt("identifier", v2) **
                                               Spelt("ProgramParametersOpt", v3) **
                                               Spelt(";", v4) ** Spelt("Block", v5) **
                                               Spelt(".", v6)),
                      "=ProgramModule" = "=IfThen" \/ Open(".", v6))
    <2> DEFINE n == [kind |-> "ProgramModule", name |-> v2, block |-> v5]
    <2>1. v2 \in Ident /\ v5 \in Block
      BY IdentifierSort, ProgramParametersOptSort, BlockSort
    <2>2. Spelt("program", v1) ** Spelt("identifier", v2) ** Spelt("ProgramParametersOpt", v3) **
          Spelt(";", v4) ** Spelt("Block", v5) ** Spelt(".", v6)
          = Word("program") ** Name(v2) ** ProgramParameters ** Word(";") ** Tree(v5) ** Word(".")
      BY <1>1, WordsAre, IdentifierSort, ProgramParametersOptSort, BlockSort
    <2>3. Built("=ProgramModule", <<v1, v2, v3, v4, v5, v6>>) = n
      BY DEF Built, BuiltDecl, Enumerators, AddOp, MultOp, RelOp
    <2>4. n.kind = "ProgramModule" /\ IsDecl(n)
      BY <2>1 DEF IsDecl, ProgramModule
    <2>5. n.kind \in DeclKinds
      BY <2>4 DEF DeclKinds
    <2>6. DeclSentences(n) = Word("program") ** Name(v2) ** ProgramParameters ** Word(";") **
                             Tree(v5) ** Word(".")
      BY DEF DeclSentences
    <2> HIDE DEF n
    <2>7. n \in Node /\ (SyntaxIsClosed => DeclSentences(n) \subseteq Tree(n))
      BY <1>3, <2>4, <2>5, MadeDecl
    <2>8. n \in Of({"ProgramModule"})
      BY <2>4, <2>7 DEF Of
    <2>9. n \in Values("ProgramModule") /\ Spelt("ProgramModule", n) = Tree(n)
      BY <2>8, ProgramModuleSort
    <2> QED  BY <2>2, <2>3, <2>6, <2>7, <2>9 DEF Yields, Before
  <1> QED  BY <1>2, <1>3, Makes6

\* The action Block.
LEMMA MakesBlock ==
  Makes("=Block", <<"Declarations", "StatementSequence">>, "Block")
PROOF
  <1>2. "Block" \in Meant /\ "Declarations" \in Meant /\ "StatementSequence" \in Meant
    BY BlockSort, DeclarationsSort, StatementSequenceSort
  <1>3. ASSUME AllTrees, NEW v1 \in Values("Declarations"), NEW v2 \in Values("StatementSequence")
        PROVE  Yields("Block", Built("=Block", <<v1, v2>>),
                      Spelt("Declarations", v1) ** Spelt("StatementSequence", v2),
                      "=Block" = "=IfThen" \/ Open("StatementSequence", v2))
    <2> DEFINE n == [kind |-> "Block", decls |-> v1, body |-> v2]
    <2>1. v1 \in DeclarationsNode /\ v2 \in StmtSeq
      BY DeclarationsSort, StatementSequenceSort
    <2>2. Spelt("Declarations", v1) ** Spelt("StatementSequence", v2)
          = Tree(v1) ** Tree(v2)
      BY DeclarationsSort, StatementSequenceSort
    <2>3. Built("=Block", <<v1, v2>>) = n
      BY DEF Built, BuiltDecl, Enumerators, AddOp, MultOp, RelOp
    <2>4. n.kind = "Block" /\ IsDecl(n)
      BY <2>1 DEF IsDecl
    <2>5. n.kind \in DeclKinds
      BY <2>4 DEF DeclKinds
    <2>6. DeclSentences(n) = Tree(v1) ** Tree(v2)
      BY DEF DeclSentences
    <2> HIDE DEF n
    <2>7. n \in Node /\ (SyntaxIsClosed => DeclSentences(n) \subseteq Tree(n))
      BY <1>3, <2>4, <2>5, MadeDecl
    <2>8. n \in Block
      BY <2>4, <2>7 DEF Of, Block
    <2>9. n \in Values("Block") /\ Spelt("Block", n) = Tree(n)
      BY <2>8, BlockSort
    <2> QED  BY <2>2, <2>3, <2>6, <2>7, <2>9 DEF Yields
  <1> QED  BY <1>2, <1>3, Makes2

\* The action Declarations.
LEMMA MakesDeclarations ==
  Makes("=Declarations", <<"ConstantDefBlockOpt", "TypeDefBlockOpt", "VariableDeclBlockOpt", "SubprogDeclListOpt">>, "Declarations")
PROOF
  <1>2. "ConstantDefBlockOpt" \in Meant /\ "Declarations" \in Meant /\
        "SubprogDeclListOpt" \in Meant /\ "TypeDefBlockOpt" \in Meant /\
        "VariableDeclBlockOpt" \in Meant
    BY ConstantDefBlockOptSort, DeclarationsSort, SubprogDeclListOptSort, TypeDefBlockOptSort,
       VariableDeclBlockOptSort
  <1>3. ASSUME AllTrees, NEW v1 \in Values("ConstantDefBlockOpt"),
               NEW v2 \in Values("TypeDefBlockOpt"), NEW v3 \in Values("VariableDeclBlockOpt"),
               NEW v4 \in Values("SubprogDeclListOpt")
        PROVE  Yields("Declarations", Built("=Declarations", <<v1, v2, v3, v4>>),
                      Spelt("ConstantDefBlockOpt", v1) ** Spelt("TypeDefBlockOpt", v2) **
                      Spelt("VariableDeclBlockOpt", v3) ** Spelt("SubprogDeclListOpt", v4),
                      "=Declarations" = "=IfThen" \/ Open("SubprogDeclListOpt", v4))
    <2> DEFINE n == [kind |-> "Declarations", consts |-> v1, types |-> v2, vars |-> v3, subprogs |-> v4]
    <2>1. v1 \in Seq(ConstDef) /\ v2 \in Seq(TypeDef) /\ v3 \in Seq(VarDecl) /\
          v4 \in Seq(SubprogDecl)
      BY ConstantDefBlockOptSort, TypeDefBlockOptSort, VariableDeclBlockOptSort, SubprogDeclListOptSort
    <2>2. Spelt("ConstantDefBlockOpt", v1) ** Spelt("TypeDefBlockOpt", v2) **
          Spelt("VariableDeclBlockOpt", v3) ** Spelt("SubprogDeclListOpt", v4)
          = Section("const", "ConstantDefList", v1) ** Section("type", "TypeDefList", v2) **
            Section("var", "VariableDeclList", v3) ** Optionally("SubprogDeclList", v4)
      BY ConstantDefBlockOptSort, TypeDefBlockOptSort, VariableDeclBlockOptSort, SubprogDeclListOptSort
    <2>3. Built("=Declarations", <<v1, v2, v3, v4>>) = n
      BY DEF Built, BuiltDecl, Enumerators, AddOp, MultOp, RelOp
    <2>4. n.kind = "Declarations" /\ IsDecl(n)
      BY <2>1 DEF IsDecl
    <2>5. n.kind \in DeclKinds
      BY <2>4 DEF DeclKinds
    <2>6. DeclSentences(n) = Section("const", "ConstantDefList", v1) **
                             Section("type", "TypeDefList", v2) **
                             Section("var", "VariableDeclList", v3) **
                             Optionally("SubprogDeclList", v4)
      BY DEF DeclSentences
    <2> HIDE DEF n
    <2>7. n \in Node /\ (SyntaxIsClosed => DeclSentences(n) \subseteq Tree(n))
      BY <1>3, <2>4, <2>5, MadeDecl
    <2>8. n \in DeclarationsNode
      BY <2>4, <2>7 DEF Of, DeclarationsNode
    <2>9. n \in Values("Declarations") /\ Spelt("Declarations", n) = Tree(n)
      BY <2>8, DeclarationsSort
    <2> QED  BY <2>2, <2>3, <2>6, <2>7, <2>9 DEF Yields
  <1> QED  BY <1>2, <1>3, Makes4

\* The action ConstDef.
LEMMA MakesConstDef ==
  Makes("=ConstDef", <<"identifier", "=", "ConstExpression">>, "ConstantDef")
PROOF
  <1>1. "=" \in Words
    BY KindsAreWords
  <1>2. "=" \in Meant /\ "ConstExpression" \in Meant /\ "ConstantDef" \in Meant /\
        "identifier" \in Meant
    BY <1>1, WordsAre, ConstExpressionSort, ConstantDefSort, IdentifierSort
  <1>3. ASSUME AllTrees, NEW v1 \in Values("identifier"), NEW v2 \in Values("="),
               NEW v3 \in Values("ConstExpression")
        PROVE  Yields("ConstantDef", Built("=ConstDef", <<v1, v2, v3>>),
                      Spelt("identifier", v1) ** Spelt("=", v2) ** Spelt("ConstExpression", v3),
                      "=ConstDef" = "=IfThen" \/ Open("ConstExpression", v3))
    <2> DEFINE n == [kind |-> "ConstDef", ident |-> v1, expr |-> v3]
    <2>1. v1 \in Ident /\ v3 \in ConstExpr
      BY IdentifierSort, ConstExpressionSort
    <2>2. Spelt("identifier", v1) ** Spelt("=", v2) ** Spelt("ConstExpression", v3)
          = Name(v1) ** Word("=") ** Tree(v3)
      BY <1>1, IdentifierSort, WordsAre, ConstExpressionSort
    <2>3. Built("=ConstDef", <<v1, v2, v3>>) = n
      BY DEF Built, BuiltDecl, Enumerators, AddOp, MultOp, RelOp
    <2>4. n.kind = "ConstDef" /\ IsDecl(n)
      BY <2>1 DEF IsDecl
    <2>5. n.kind \in DeclKinds
      BY <2>4 DEF DeclKinds
    <2>6. DeclSentences(n) = Name(v1) ** Word("=") ** Tree(v3)
      BY DEF DeclSentences
    <2> HIDE DEF n
    <2>7. n \in Node /\ (SyntaxIsClosed => DeclSentences(n) \subseteq Tree(n))
      BY <1>3, <2>4, <2>5, MadeDecl
    <2>8. n \in ConstDef
      BY <2>4, <2>7 DEF Of, ConstDef
    <2>9. n \in Values("ConstantDef") /\ Spelt("ConstantDef", n) = Tree(n)
      BY <2>8, ConstantDefSort
    <2> QED  BY <2>2, <2>3, <2>6, <2>7, <2>9 DEF Yields
  <1> QED  BY <1>2, <1>3, Makes3

\* The action TypeDef.
LEMMA MakesTypeDef ==
  Makes("=TypeDef", <<"identifier", "=", "Type">>, "TypeDef")
PROOF
  <1>1. "=" \in Words
    BY KindsAreWords
  <1>2. "=" \in Meant /\ "Type" \in Meant /\ "TypeDef" \in Meant /\ "identifier" \in Meant
    BY <1>1, WordsAre, TypeSort, TypeDefSort, IdentifierSort
  <1>3. ASSUME AllTrees, NEW v1 \in Values("identifier"), NEW v2 \in Values("="),
               NEW v3 \in Values("Type")
        PROVE  Yields("TypeDef", Built("=TypeDef", <<v1, v2, v3>>),
                      Spelt("identifier", v1) ** Spelt("=", v2) ** Spelt("Type", v3),
                      "=TypeDef" = "=IfThen" \/ Open("Type", v3))
    <2> DEFINE n == [kind |-> "TypeDef", ident |-> v1, type |-> v3]
    <2>1. v1 \in Ident /\ v3 \in Type
      BY IdentifierSort, TypeSort
    <2>2. Spelt("identifier", v1) ** Spelt("=", v2) ** Spelt("Type", v3)
          = Name(v1) ** Word("=") ** Tree(v3)
      BY <1>1, IdentifierSort, WordsAre, TypeSort
    <2>3. Built("=TypeDef", <<v1, v2, v3>>) = n
      BY DEF Built, BuiltDecl, Enumerators, AddOp, MultOp, RelOp
    <2>4. n.kind = "TypeDef" /\ IsDecl(n)
      BY <2>1 DEF IsDecl
    <2>5. n.kind \in DeclKinds
      BY <2>4 DEF DeclKinds
    <2>6. DeclSentences(n) = Name(v1) ** Word("=") ** Tree(v3)
      BY DEF DeclSentences
    <2> HIDE DEF n
    <2>7. n \in Node /\ (SyntaxIsClosed => DeclSentences(n) \subseteq Tree(n))
      BY <1>3, <2>4, <2>5, MadeDecl
    <2>8. n \in TypeDef
      BY <2>4, <2>7 DEF Of, TypeDef
    <2>9. n \in Values("TypeDef") /\ Spelt("TypeDef", n) = Tree(n)
      BY <2>8, TypeDefSort
    <2> QED  BY <2>2, <2>3, <2>6, <2>7, <2>9 DEF Yields
  <1> QED  BY <1>2, <1>3, Makes3

\* The action VarDecl.
LEMMA MakesVarDecl ==
  Makes("=VarDecl", <<"IdentList", ":", "Type">>, "VariableDecl")
PROOF
  <1>1. ":" \in Words
    BY KindsAreWords
  <1>2. ":" \in Meant /\ "IdentList" \in Meant /\ "Type" \in Meant /\ "VariableDecl" \in Meant
    BY <1>1, WordsAre, IdentListSort, TypeSort, VariableDeclSort
  <1>3. ASSUME AllTrees, NEW v1 \in Values("IdentList"), NEW v2 \in Values(":"),
               NEW v3 \in Values("Type")
        PROVE  Yields("VariableDecl", Built("=VarDecl", <<v1, v2, v3>>),
                      Spelt("IdentList", v1) ** Spelt(":", v2) ** Spelt("Type", v3),
                      "=VarDecl" = "=IfThen" \/ Open("Type", v3))
    <2> DEFINE n == [kind |-> "VarDecl", idents |-> v1, type |-> v3]
    <2>1. v1 \in Seq(Ident) \ {<<>>} /\ v3 \in Type
      BY IdentListSort, TypeSort
    <2>2. Spelt("IdentList", v1) ** Spelt(":", v2) ** Spelt("Type", v3)
          = Sentences("IdentList", v1) ** Word(":") ** Tree(v3)
      BY <1>1, IdentListSort, WordsAre, TypeSort
    <2>3. Built("=VarDecl", <<v1, v2, v3>>) = n
      BY DEF Built, BuiltDecl, Enumerators, AddOp, MultOp, RelOp
    <2>4. n.kind = "VarDecl" /\ IsDecl(n)
      BY <2>1 DEF IsDecl
    <2>5. n.kind \in DeclKinds
      BY <2>4 DEF DeclKinds
    <2>6. DeclSentences(n) = Sentences("IdentList", v1) ** Word(":") ** Tree(v3)
      BY DEF DeclSentences
    <2> HIDE DEF n
    <2>7. n \in Node /\ (SyntaxIsClosed => DeclSentences(n) \subseteq Tree(n))
      BY <1>3, <2>4, <2>5, MadeDecl
    <2>8. n \in VarDecl
      BY <2>4, <2>7 DEF Of, VarDecl
    <2>9. n \in Values("VariableDecl") /\ Spelt("VariableDecl", n) = Tree(n)
      BY <2>8, VariableDeclSort
    <2> QED  BY <2>2, <2>3, <2>6, <2>7, <2>9 DEF Yields
  <1> QED  BY <1>2, <1>3, Makes3

\* The action ProcDecl.
LEMMA MakesProcDecl ==
  Makes("=ProcDecl", <<"ProcedureHeading", ";", "Block">>, "ProcedureDecl")
PROOF
  <1>1. ";" \in Words
    BY KindsAreWords
  <1>2. ";" \in Meant /\ "Block" \in Meant /\ "ProcedureDecl" \in Meant /\
        "ProcedureHeading" \in Meant
    BY <1>1, WordsAre, BlockSort, ProcedureDeclSort, ProcedureHeadingSort
  <1>3. ASSUME AllTrees, NEW v1 \in Values("ProcedureHeading"), NEW v2 \in Values(";"),
               NEW v3 \in Values("Block")
        PROVE  Yields("ProcedureDecl", Built("=ProcDecl", <<v1, v2, v3>>),
                      Spelt("ProcedureHeading", v1) ** Spelt(";", v2) ** Spelt("Block", v3),
                      "=ProcDecl" = "=IfThen" \/ Open("Block", v3))
    <2> DEFINE n == [kind |-> "ProcDecl", heading |-> v1, block |-> v3]
    <2>1. v1 \in ProcHeading /\ v3 \in Block
      BY ProcedureHeadingSort, BlockSort
    <2>2. Spelt("ProcedureHeading", v1) ** Spelt(";", v2) ** Spelt("Block", v3)
          = Heading("procedure", v1) ** Word(";") ** Tree(v3)
      BY <1>1, ProcedureHeadingSort, WordsAre, BlockSort
    <2>3. Built("=ProcDecl", <<v1, v2, v3>>) = n
      BY DEF Built, BuiltDecl, Enumerators, AddOp, MultOp, RelOp
    <2>4. n.kind = "ProcDecl" /\ IsDecl(n)
      BY <2>1 DEF IsDecl
    <2>5. n.kind \in DeclKinds
      BY <2>4 DEF DeclKinds
    <2>6. DeclSentences(n) = Heading("procedure", v1) ** Word(";") ** Tree(v3)
      BY DEF DeclSentences
    <2> HIDE DEF n
    <2>7. n \in Node /\ (SyntaxIsClosed => DeclSentences(n) \subseteq Tree(n))
      BY <1>3, <2>4, <2>5, MadeDecl
    <2>8. n \in ProcDecl
      BY <2>4, <2>7 DEF Of, ProcDecl
    <2>9. n \in Values("ProcedureDecl") /\ Spelt("ProcedureDecl", n) = Tree(n)
      BY <2>8, ProcedureDeclSort
    <2> QED  BY <2>2, <2>3, <2>6, <2>7, <2>9 DEF Yields
  <1> QED  BY <1>2, <1>3, Makes3

\* The action ConstExpr.
LEMMA MakesConstExpr ==
  Makes("=ConstExpr", <<"SignOpt", "ConstFactor">>, "ConstExpression")
PROOF
  <1>2. "ConstExpression" \in Meant /\ "ConstFactor" \in Meant /\ "SignOpt" \in Meant
    BY ConstExpressionSort, ConstFactorSort, SignOptSort
  <1>3. ASSUME AllTrees, NEW v1 \in Values("SignOpt"), NEW v2 \in Values("ConstFactor")
        PROVE  Yields("ConstExpression", Built("=ConstExpr", <<v1, v2>>),
                      Spelt("SignOpt", v1) ** Spelt("ConstFactor", v2),
                      "=ConstExpr" = "=IfThen" \/ Open("ConstFactor", v2))
    <2> DEFINE n == [kind |-> "ConstExpr", unary |-> v1, factor |-> v2]
    <2>1. v1 \in Sign /\ v2 \in ConstFactor
      BY SignOptSort, ConstFactorSort
    <2>2. Spelt("SignOpt", v1) ** Spelt("ConstFactor", v2)
          = SignOf(v1) ** Tree(v2)
      BY SignOptSort, ConstFactorSort
    <2>3. Built("=ConstExpr", <<v1, v2>>) = n
      BY DEF Built, BuiltType, Enumerators, AddOp, MultOp, RelOp
    <2>4. n.kind = "ConstExpr" /\ IsConstNode(n)
      BY <2>1 DEF IsConstNode
    <2>5. n.kind \in ConstKinds
      BY <2>4 DEF ConstKinds
    <2>6. ConstSentences(n) = SignOf(v1) ** Tree(v2)
      BY DEF ConstSentences
    <2> HIDE DEF n
    <2>7. n \in Node /\ (SyntaxIsClosed => ConstSentences(n) \subseteq Tree(n))
      BY <1>3, <2>4, <2>5, MadeConst
    <2>8. n \in ConstExpr
      BY <2>4, <2>7 DEF Of, ConstExpr
    <2>9. n \in Values("ConstExpression") /\ Spelt("ConstExpression", n) = Tree(n)
      BY <2>8, ConstExpressionSort
    <2> QED  BY <2>2, <2>3, <2>6, <2>7, <2>9 DEF Yields
  <1> QED  BY <1>2, <1>3, Makes2

\* The action ConstIdent.
LEMMA MakesConstIdent ==
  Makes("=ConstIdent", <<"identifier">>, "ConstFactor")
PROOF
  <1>2. "ConstFactor" \in Meant /\ "identifier" \in Meant
    BY ConstFactorSort, IdentifierSort
  <1>3. ASSUME AllTrees, NEW v1 \in Values("identifier")
        PROVE  Yields("ConstFactor", Built("=ConstIdent", <<v1>>),
                      Spelt("identifier", v1),
                      "=ConstIdent" = "=IfThen" \/ Open("identifier", v1))
    <2> DEFINE n == [kind |-> "ConstIdent", ident |-> v1]
    <2>1. v1 \in Ident
      BY IdentifierSort
    <2>2. Spelt("identifier", v1)
          = Name(v1)
      BY IdentifierSort
    <2>3. Built("=ConstIdent", <<v1>>) = n
      BY DEF Built, BuiltType, Enumerators, AddOp, MultOp, RelOp
    <2>4. n.kind = "ConstIdent" /\ IsConstNode(n)
      BY <2>1 DEF IsConstNode
    <2>5. n.kind \in ConstKinds
      BY <2>4 DEF ConstKinds
    <2>6. ConstSentences(n) = Name(v1)
      BY DEF ConstSentences
    <2> HIDE DEF n
    <2>7. n \in Node /\ (SyntaxIsClosed => ConstSentences(n) \subseteq Tree(n))
      BY <1>3, <2>4, <2>5, MadeConst
    <2>8. n \in ConstFactor
      BY <2>4, <2>7 DEF Of, ConstFactor, ConstKinds
    <2>9. n \in Values("ConstFactor") /\ Spelt("ConstFactor", n) = Tree(n)
      BY <2>8, ConstFactorSort
    <2> QED  BY <2>2, <2>3, <2>6, <2>7, <2>9 DEF Yields
  <1> QED  BY <1>2, <1>3, Makes1

\* The action ConstNumber.
LEMMA MakesConstNumber ==
  Makes("=ConstNumber", <<"number">>, "ConstFactor")
PROOF
  <1>2. "ConstFactor" \in Meant /\ "number" \in Meant
    BY ConstFactorSort, NumberSort
  <1>3. ASSUME AllTrees, NEW v1 \in Values("number")
        PROVE  Yields("ConstFactor", Built("=ConstNumber", <<v1>>),
                      Spelt("number", v1),
                      "=ConstNumber" = "=IfThen" \/ Open("number", v1))
    <2> DEFINE n == [kind |-> "ConstNumber", int |-> v1]
    <2>1. v1 \in 0..MaxLiteral
      BY NumberSort
    <2>2. Spelt("number", v1)
          = Valued("number", v1)
      BY NumberSort
    <2>3. Built("=ConstNumber", <<v1>>) = n
      BY DEF Built, BuiltType, Enumerators, AddOp, MultOp, RelOp
    <2>4. n.kind = "ConstNumber" /\ IsConstNode(n)
      BY <2>1 DEF IsConstNode
    <2>5. n.kind \in ConstKinds
      BY <2>4 DEF ConstKinds
    <2>6. ConstSentences(n) = Valued("number", v1)
      BY DEF ConstSentences
    <2> HIDE DEF n
    <2>7. n \in Node /\ (SyntaxIsClosed => ConstSentences(n) \subseteq Tree(n))
      BY <1>3, <2>4, <2>5, MadeConst
    <2>8. n \in ConstFactor
      BY <2>4, <2>7 DEF Of, ConstFactor, ConstKinds
    <2>9. n \in Values("ConstFactor") /\ Spelt("ConstFactor", n) = Tree(n)
      BY <2>8, ConstFactorSort
    <2> QED  BY <2>2, <2>3, <2>6, <2>7, <2>9 DEF Yields
  <1> QED  BY <1>2, <1>3, Makes1

\* The action ConstTrue.
LEMMA MakesConstTrue ==
  Makes("=ConstTrue", <<"True">>, "ConstFactor")
PROOF
  <1>1. "True" \in Words
    BY KindsAreWords
  <1>2. "ConstFactor" \in Meant /\ "True" \in Meant
    BY <1>1, ConstFactorSort, WordsAre
  <1>3. ASSUME AllTrees, NEW v1 \in Values("True")
        PROVE  Yields("ConstFactor", Built("=ConstTrue", <<v1>>),
                      Spelt("True", v1),
                      "=ConstTrue" = "=IfThen" \/ Open("True", v1))
    <2> DEFINE n == [kind |-> "ConstBool", bool |-> TRUE]
    <2>2. Spelt("True", v1)
          = Word("True")
      BY <1>1, WordsAre
    <2>3. Built("=ConstTrue", <<v1>>) = n
      BY DEF Built, BuiltType, Enumerators, AddOp, MultOp, RelOp
    <2>4. n.kind = "ConstBool" /\ IsConstNode(n)
      BY DEF IsConstNode
    <2>5. n.kind \in ConstKinds
      BY <2>4 DEF ConstKinds
    <2>6. ConstSentences(n) = Word("True")
      BY DEF ConstSentences
    <2> HIDE DEF n
    <2>7. n \in Node /\ (SyntaxIsClosed => ConstSentences(n) \subseteq Tree(n))
      BY <1>3, <2>4, <2>5, MadeConst
    <2>8. n \in ConstFactor
      BY <2>4, <2>7 DEF Of, ConstFactor, ConstKinds
    <2>9. n \in Values("ConstFactor") /\ Spelt("ConstFactor", n) = Tree(n)
      BY <2>8, ConstFactorSort
    <2> QED  BY <2>2, <2>3, <2>6, <2>7, <2>9 DEF Yields
  <1> QED  BY <1>2, <1>3, Makes1

\* The action ConstFalse.
LEMMA MakesConstFalse ==
  Makes("=ConstFalse", <<"False">>, "ConstFactor")
PROOF
  <1>1. "False" \in Words
    BY KindsAreWords
  <1>2. "ConstFactor" \in Meant /\ "False" \in Meant
    BY <1>1, ConstFactorSort, WordsAre
  <1>3. ASSUME AllTrees, NEW v1 \in Values("False")
        PROVE  Yields("ConstFactor", Built("=ConstFalse", <<v1>>),
                      Spelt("False", v1),
                      "=ConstFalse" = "=IfThen" \/ Open("False", v1))
    <2> DEFINE n == [kind |-> "ConstBool", bool |-> FALSE]
    <2>2. Spelt("False", v1)
          = Word("False")
      BY <1>1, WordsAre
    <2>3. Built("=ConstFalse", <<v1>>) = n
      BY DEF Built, BuiltType, Enumerators, AddOp, MultOp, RelOp
    <2>4. n.kind = "ConstBool" /\ IsConstNode(n)
      BY DEF IsConstNode
    <2>5. n.kind \in ConstKinds
      BY <2>4 DEF ConstKinds
    <2>6. ConstSentences(n) = Word("False")
      BY DEF ConstSentences
    <2> HIDE DEF n
    <2>7. n \in Node /\ (SyntaxIsClosed => ConstSentences(n) \subseteq Tree(n))
      BY <1>3, <2>4, <2>5, MadeConst
    <2>8. n \in ConstFactor
      BY <2>4, <2>7 DEF Of, ConstFactor, ConstKinds
    <2>9. n \in Values("ConstFactor") /\ Spelt("ConstFactor", n) = Tree(n)
      BY <2>8, ConstFactorSort
    <2> QED  BY <2>2, <2>3, <2>6, <2>7, <2>9 DEF Yields
  <1> QED  BY <1>2, <1>3, Makes1

\* The action ConstNil.
LEMMA MakesConstNil ==
  Makes("=ConstNil", <<"nil">>, "ConstFactor")
PROOF
  <1>1. "nil" \in Words
    BY KindsAreWords
  <1>2. "ConstFactor" \in Meant /\ "nil" \in Meant
    BY <1>1, ConstFactorSort, WordsAre
  <1>3. ASSUME AllTrees, NEW v1 \in Values("nil")
        PROVE  Yields("ConstFactor", Built("=ConstNil", <<v1>>),
                      Spelt("nil", v1),
                      "=ConstNil" = "=IfThen" \/ Open("nil", v1))
    <2> DEFINE n == [kind |-> "ConstNil"]
    <2>2. Spelt("nil", v1)
          = Word("nil")
      BY <1>1, WordsAre
    <2>3. Built("=ConstNil", <<v1>>) = n
      BY DEF Built, BuiltType, Enumerators, AddOp, MultOp, RelOp
    <2>4. n.kind = "ConstNil" /\ IsConstNode(n)
      BY DEF IsConstNode
    <2>5. n.kind \in ConstKinds
      BY <2>4 DEF ConstKinds
    <2>6. ConstSentences(n) = Word("nil")
      BY DEF ConstSentences
    <2> HIDE DEF n
    <2>7. n \in Node /\ (SyntaxIsClosed => ConstSentences(n) \subseteq Tree(n))
      BY <1>3, <2>4, <2>5, MadeConst
    <2>8. n \in ConstFactor
      BY <2>4, <2>7 DEF Of, ConstFactor, ConstKinds
    <2>9. n \in Values("ConstFactor") /\ Spelt("ConstFactor", n) = Tree(n)
      BY <2>8, ConstFactorSort
    <2> QED  BY <2>2, <2>3, <2>6, <2>7, <2>9 DEF Yields
  <1> QED  BY <1>2, <1>3, Makes1

\* The action NamedType.
LEMMA MakesNamedType ==
  Makes("=NamedType", <<"identifier">>, "Type")
PROOF
  <1>2. "Type" \in Meant /\ "identifier" \in Meant
    BY TypeSort, IdentifierSort
  <1>3. ASSUME AllTrees, NEW v1 \in Values("identifier")
        PROVE  Yields("Type", Built("=NamedType", <<v1>>),
                      Spelt("identifier", v1),
                      "=NamedType" = "=IfThen" \/ Open("identifier", v1))
    <2> DEFINE n == [kind |-> "Named", name |-> v1]
    <2>1. v1 \in Ident
      BY IdentifierSort
    <2>2. Spelt("identifier", v1)
          = Name(v1)
      BY IdentifierSort
    <2>3. Built("=NamedType", <<v1>>) = n
      BY DEF Built, BuiltType, Enumerators, AddOp, MultOp, RelOp
    <2>4. n.kind = "Named" /\ IsType(n)
      BY <2>1 DEF IsType
    <2>5. n.kind \in TypeKinds
      BY <2>4 DEF TypeKinds
    <2>6. TypeSentences(n) = Name(v1)
      BY DEF TypeSentences
    <2> HIDE DEF n
    <2>7. n \in Node /\ (SyntaxIsClosed => TypeSentences(n) \subseteq Tree(n))
      BY <1>3, <2>4, <2>5, MadeType
    <2>8. n \in Type
      BY <2>4, <2>7 DEF Of, Type, TypeKinds
    <2>9. n \in Values("Type") /\ Spelt("Type", n) = Tree(n)
      BY <2>8, TypeSort
    <2> QED  BY <2>2, <2>3, <2>6, <2>7, <2>9 DEF Yields
  <1> QED  BY <1>2, <1>3, Makes1

\* The action ArrayType.
LEMMA MakesArrayType ==
  Makes("=ArrayType", <<"array", "[", "SubrangeList", "]", "of", "Type">>, "Type")
PROOF
  <1>1. "[" \in Words /\ "]" \in Words /\ "array" \in Words /\ "of" \in Words
    BY KindsAreWords
  <1>2. "SubrangeList" \in Meant /\ "Type" \in Meant /\ "[" \in Meant /\ "]" \in Meant /\
        "array" \in Meant /\ "of" \in Meant
    BY <1>1, SubrangeListSort, TypeSort, WordsAre
  <1>3. ASSUME AllTrees, NEW v1 \in Values("array"), NEW v2 \in Values("["),
               NEW v3 \in Values("SubrangeList"), NEW v4 \in Values("]"), NEW v5 \in Values("of"),
               NEW v6 \in Values("Type")
        PROVE  Yields("Type", Built("=ArrayType", <<v1, v2, v3, v4, v5, v6>>),
                      Before("of", "]", v4, Spelt("array", v1) ** Spelt("[", v2) **
                                            Spelt("SubrangeList", v3) ** Spelt("]", v4) **
                                            Spelt("of", v5) ** Spelt("Type", v6)),
                      "=ArrayType" = "=IfThen" \/ Open("Type", v6))
    <2> DEFINE n == [kind |-> "Array", ranges |-> v3, item |-> v6]
    <2>1. v3 \in Seq(Subrange) \ {<<>>} /\ v6 \in Type
      BY SubrangeListSort, TypeSort
    <2>2. Spelt("array", v1) ** Spelt("[", v2) ** Spelt("SubrangeList", v3) ** Spelt("]", v4) **
          Spelt("of", v5) ** Spelt("Type", v6)
          = Word("array") ** Word("[") ** Sentences("SubrangeList", v3) ** Word("]") **
            Word("of") ** Tree(v6)
      BY <1>1, WordsAre, SubrangeListSort, TypeSort
    <2>3. Built("=ArrayType", <<v1, v2, v3, v4, v5, v6>>) = n
      BY DEF Built, BuiltType, Enumerators, AddOp, MultOp, RelOp
    <2>4. n.kind = "Array" /\ IsType(n)
      BY <2>1 DEF IsType
    <2>5. n.kind \in TypeKinds
      BY <2>4 DEF TypeKinds
    <2>6. TypeSentences(n) = Word("array") ** Word("[") ** Sentences("SubrangeList", v3) **
                             Word("]") ** Word("of") ** Tree(v6)
      BY DEF TypeSentences
    <2> HIDE DEF n
    <2>7. n \in Node /\ (SyntaxIsClosed => TypeSentences(n) \subseteq Tree(n))
      BY <1>3, <2>4, <2>5, MadeType
    <2>8. n \in Type
      BY <2>4, <2>7 DEF Of, Type, TypeKinds
    <2>9. n \in Values("Type") /\ Spelt("Type", n) = Tree(n)
      BY <2>8, TypeSort
    <2> QED  BY <2>2, <2>3, <2>6, <2>7, <2>9 DEF Yields, Before
  <1> QED  BY <1>2, <1>3, Makes6

\* The action PointerType.
LEMMA MakesPointerType ==
  Makes("=PointerType", <<"^", "identifier">>, "Type")
PROOF
  <1>1. "^" \in Words
    BY KindsAreWords
  <1>2. "Type" \in Meant /\ "^" \in Meant /\ "identifier" \in Meant
    BY <1>1, TypeSort, WordsAre, IdentifierSort
  <1>3. ASSUME AllTrees, NEW v1 \in Values("^"), NEW v2 \in Values("identifier")
        PROVE  Yields("Type", Built("=PointerType", <<v1, v2>>),
                      Spelt("^", v1) ** Spelt("identifier", v2),
                      "=PointerType" = "=IfThen" \/ Open("identifier", v2))
    <2> DEFINE n == [kind |-> "Pointer", ref |-> v2]
    <2>1. v2 \in Ident
      BY IdentifierSort
    <2>2. Spelt("^", v1) ** Spelt("identifier", v2)
          = Word("^") ** Name(v2)
      BY <1>1, WordsAre, IdentifierSort
    <2>3. Built("=PointerType", <<v1, v2>>) = n
      BY DEF Built, BuiltType, Enumerators, AddOp, MultOp, RelOp
    <2>4. n.kind = "Pointer" /\ IsType(n)
      BY <2>1 DEF IsType
    <2>5. n.kind \in TypeKinds
      BY <2>4 DEF TypeKinds
    <2>6. TypeSentences(n) = Word("^") ** Name(v2)
      BY DEF TypeSentences
    <2> HIDE DEF n
    <2>7. n \in Node /\ (SyntaxIsClosed => TypeSentences(n) \subseteq Tree(n))
      BY <1>3, <2>4, <2>5, MadeType
    <2>8. n \in Type
      BY <2>4, <2>7 DEF Of, Type, TypeKinds
    <2>9. n \in Values("Type") /\ Spelt("Type", n) = Tree(n)
      BY <2>8, TypeSort
    <2> QED  BY <2>2, <2>3, <2>6, <2>7, <2>9 DEF Yields
  <1> QED  BY <1>2, <1>3, Makes2

\* The action RecordType.
LEMMA MakesRecordType ==
  Makes("=RecordType", <<"record", "FieldListSequence", "end">>, "Type")
PROOF
  <1>1. "end" \in Words /\ "record" \in Words
    BY KindsAreWords
  <1>2. "FieldListSequence" \in Meant /\ "Type" \in Meant /\ "end" \in Meant /\ "record" \in Meant
    BY <1>1, FieldListSequenceSort, TypeSort, WordsAre
  <1>3. ASSUME AllTrees, NEW v1 \in Values("record"), NEW v2 \in Values("FieldListSequence"),
               NEW v3 \in Values("end")
        PROVE  Yields("Type", Built("=RecordType", <<v1, v2, v3>>),
                      Spelt("record", v1) ** Spelt("FieldListSequence", v2) ** Spelt("end", v3),
                      "=RecordType" = "=IfThen" \/ Open("end", v3))
    <2> DEFINE n == [kind |-> "Record", fields |-> v2]
    <2>1. v2 \in Seq(FieldList) \ {<<>>}
      BY FieldListSequenceSort
    <2>2. Spelt("record", v1) ** Spelt("FieldListSequence", v2) ** Spelt("end", v3)
          = Word("record") ** Sentences("FieldListSequence", v2) ** Word("end")
      BY <1>1, WordsAre, FieldListSequenceSort
    <2>3. Built("=RecordType", <<v1, v2, v3>>) = n
      BY DEF Built, BuiltType, Enumerators, AddOp, MultOp, RelOp
    <2>4. n.kind = "Record" /\ IsType(n)
      BY <2>1 DEF IsType
    <2>5. n.kind \in TypeKinds
      BY <2>4 DEF TypeKinds
    <2>6. TypeSentences(n) = Word("record") ** Sentences("FieldListSequence", v2) ** Word("end")
      BY DEF TypeSentences
    <2> HIDE DEF n
    <2>7. n \in Node /\ (SyntaxIsClosed => TypeSentences(n) \subseteq Tree(n))
      BY <1>3, <2>4, <2>5, MadeType
    <2>8. n \in Type
      BY <2>4, <2>7 DEF Of, Type, TypeKinds
    <2>9. n \in Values("Type") /\ Spelt("Type", n) = Tree(n)
      BY <2>8, TypeSort
    <2> QED  BY <2>2, <2>3, <2>6, <2>7, <2>9 DEF Yields
  <1> QED  BY <1>2, <1>3, Makes3

\* The action SetType.
LEMMA MakesSetType ==
  Makes("=SetType", <<"set", "of", "Subrange">>, "Type")
PROOF
  <1>1. "of" \in Words /\ "set" \in Words
    BY KindsAreWords
  <1>2. "Subrange" \in Meant /\ "Type" \in Meant /\ "of" \in Meant /\ "set" \in Meant
    BY <1>1, SubrangeSort, TypeSort, WordsAre
  <1>3. ASSUME AllTrees, NEW v1 \in Values("set"), NEW v2 \in Values("of"),
               NEW v3 \in Values("Subrange")
        PROVE  Yields("Type", Built("=SetType", <<v1, v2, v3>>),
                      Spelt("set", v1) ** Spelt("of", v2) ** Spelt("Subrange", v3),
                      "=SetType" = "=IfThen" \/ Open("Subrange", v3))
    <2> DEFINE n == [kind |-> "Set", range |-> v3]
    <2>1. v3 \in Subrange
      BY SubrangeSort
    <2>2. Spelt("set", v1) ** Spelt("of", v2) ** Spelt("Subrange", v3)
          = Word("set") ** Word("of") ** Sentences("Subrange", v3)
      BY <1>1, WordsAre, SubrangeSort
    <2>3. Built("=SetType", <<v1, v2, v3>>) = n
      BY DEF Built, BuiltType, Enumerators, AddOp, MultOp, RelOp
    <2>4. n.kind = "Set" /\ IsType(n)
      BY <2>1 DEF IsType
    <2>5. n.kind \in TypeKinds
      BY <2>4 DEF TypeKinds
    <2>6. TypeSentences(n) = Word("set") ** Word("of") ** Sentences("Subrange", v3)
      BY DEF TypeSentences
    <2> HIDE DEF n
    <2>7. n \in Node /\ (SyntaxIsClosed => TypeSentences(n) \subseteq Tree(n))
      BY <1>3, <2>4, <2>5, MadeType
    <2>8. n \in Type
      BY <2>4, <2>7 DEF Of, Type, TypeKinds
    <2>9. n \in Values("Type") /\ Spelt("Type", n) = Tree(n)
      BY <2>8, TypeSort
    <2> QED  BY <2>2, <2>3, <2>6, <2>7, <2>9 DEF Yields
  <1> QED  BY <1>2, <1>3, Makes3

\* The action StmtSeq.
LEMMA MakesStmtSeq ==
  Makes("=StmtSeq", <<"begin", "StatementList", "end">>, "StatementSequence")
PROOF
  <1>1. "begin" \in Words /\ "end" \in Words
    BY KindsAreWords
  <1>2. "StatementList" \in Meant /\ "StatementSequence" \in Meant /\ "begin" \in Meant /\
        "end" \in Meant
    BY <1>1, StatementListSort, StatementSequenceSort, WordsAre
  <1>3. ASSUME AllTrees, NEW v1 \in Values("begin"), NEW v2 \in Values("StatementList"),
               NEW v3 \in Values("end")
        PROVE  Yields("StatementSequence", Built("=StmtSeq", <<v1, v2, v3>>),
                      Spelt("begin", v1) ** Spelt("StatementList", v2) ** Spelt("end", v3),
                      "=StmtSeq" = "=IfThen" \/ Open("end", v3))
    <2> DEFINE n == [kind |-> "StmtSeq", stmts |-> v2]
    <2>1. v2 \in Seq(Stmt) \ {<<>>}
      BY StatementListSort
    <2>2. Spelt("begin", v1) ** Spelt("StatementList", v2) ** Spelt("end", v3)
          = Word("begin") ** Sentences("StatementList", v2) ** Word("end")
      BY <1>1, WordsAre, StatementListSort
    <2>3. Built("=StmtSeq", <<v1, v2, v3>>) = n
      BY DEF Built, BuiltStmt, Enumerators, AddOp, MultOp, RelOp
    <2>4. n.kind = "StmtSeq" /\ IsStmt(n)
      BY <2>1 DEF IsStmt
    <2>5. n.kind \in StmtKinds
      BY <2>4 DEF StmtKinds, IgnoredKinds
    <2>6. StmtSentences(n) = Word("begin") ** Sentences("StatementList", v2) ** Word("end")
      BY DEF StmtSentences
    <2> HIDE DEF n
    <2>7. n \in Node /\ (SyntaxIsClosed => StmtSentences(n) \subseteq Tree(n))
      BY <1>3, <2>4, <2>5, MadeStmt
    <2>8. n \in StmtSeq
      BY <2>4, <2>7 DEF Of, StmtSeq
    <2>9. n \in Values("StatementSequence") /\ Spelt("StatementSequence", n) = Tree(n)
      BY <2>8, StatementSequenceSort
    <2> QED  BY <2>2, <2>3, <2>6, <2>7, <2>9 DEF Yields
  <1> QED  BY <1>2, <1>3, Makes3

\* The action CaseStmt.
LEMMA MakesCaseStmt ==
  Makes("=CaseStmt", <<"case", "Expression", "of", "CaseList", "end">>, "Statement")
PROOF
  <1>1. "case" \in Words /\ "end" \in Words /\ "of" \in Words
    BY KindsAreWords
  <1>2. "CaseList" \in Meant /\ "Expression" \in Meant /\ "Statement" \in Meant /\
        "case" \in Meant /\ "end" \in Meant /\ "of" \in Meant
    BY <1>1, CaseListSort, ExpressionSort, StatementSort, WordsAre
  <1>3. ASSUME AllTrees, NEW v1 \in Values("case"), NEW v2 \in Values("Expression"),
               NEW v3 \in Values("of"), NEW v4 \in Values("CaseList"), NEW v5 \in Values("end")
        PROVE  Yields("Statement", Built("=CaseStmt", <<v1, v2, v3, v4, v5>>),
                      Spelt("case", v1) ** Spelt("Expression", v2) ** Spelt("of", v3) **
                      Spelt("CaseList", v4) ** Spelt("end", v5),
                      "=CaseStmt" = "=IfThen" \/ Open("end", v5))
    <2> DEFINE n == [kind |-> "Case", expr |-> v2, cases |-> v4]
    <2>1. v2 \in Expr /\ v4 \in Seq(CaseLabels) \ {<<>>}
      BY ExpressionSort, CaseListSort
    <2>2. Spelt("case", v1) ** Spelt("Expression", v2) ** Spelt("of", v3) **
          Spelt("CaseList", v4) ** Spelt("end", v5)
          = Word("case") ** Tree(v2) ** Word("of") ** Sentences("CaseList", v4) ** Word("end")
      BY <1>1, WordsAre, ExpressionSort, CaseListSort
    <2>3. Built("=CaseStmt", <<v1, v2, v3, v4, v5>>) = n
      BY DEF Built, BuiltStmt, Enumerators, AddOp, MultOp, RelOp
    <2>4. n.kind = "Case" /\ IsStmt(n)
      BY <2>1 DEF IsStmt, CaseLabels
    <2>5. n.kind \in StmtKinds
      BY <2>4 DEF StmtKinds, IgnoredKinds
    <2>6. StmtSentences(n) = Word("case") ** Tree(v2) ** Word("of") ** Sentences("CaseList", v4) **
                             Word("end")
      BY DEF StmtSentences
    <2> HIDE DEF n
    <2>7. n \in Node /\ (SyntaxIsClosed => StmtSentences(n) \subseteq Tree(n))
      BY <1>3, <2>4, <2>5, MadeStmt
    <2>8. n \in Stmt
      BY <2>4, <2>7 DEF Of, Stmt, StmtKinds, IgnoredKinds
    <2>9. n \in Values("Statement") /\ Spelt("Statement", n) = Tree(n)
      BY <2>8, StatementSort
    <2>10. SyntaxIsClosed /\ EndsOpen(n) => "=CaseStmt" = "=IfThen" \/ Open("end", v5)
      BY <2>8, <2>4, OpenIs DEF EndsOpenOf
    <2> QED  BY <2>2, <2>3, <2>6, <2>7, <2>9, <2>10 DEF Yields
  <1> QED  BY <1>2, <1>3, Makes5

\* The action WhileStmt.
LEMMA MakesWhileStmt ==
  Makes("=WhileStmt", <<"while", "Expression", "do", "Statement">>, "Statement")
PROOF
  <1>1. "do" \in Words /\ "while" \in Words
    BY KindsAreWords
  <1>2. "Expression" \in Meant /\ "Statement" \in Meant /\ "do" \in Meant /\ "while" \in Meant
    BY <1>1, ExpressionSort, StatementSort, WordsAre
  <1>3. ASSUME AllTrees, NEW v1 \in Values("while"), NEW v2 \in Values("Expression"),
               NEW v3 \in Values("do"), NEW v4 \in Values("Statement")
        PROVE  Yields("Statement", Built("=WhileStmt", <<v1, v2, v3, v4>>),
                      Spelt("while", v1) ** Spelt("Expression", v2) ** Spelt("do", v3) **
                      Spelt("Statement", v4),
                      "=WhileStmt" = "=IfThen" \/ Open("Statement", v4))
    <2> DEFINE n == [kind |-> "While", cond |-> v2, body |-> v4]
    <2>1. v2 \in Expr /\ v4 \in Stmt
      BY ExpressionSort, StatementSort
    <2>2. Spelt("while", v1) ** Spelt("Expression", v2) ** Spelt("do", v3) ** Spelt("Statement", v4)
          = Word("while") ** Tree(v2) ** Word("do") ** Tree(v4)
      BY <1>1, WordsAre, ExpressionSort, StatementSort
    <2>3. Built("=WhileStmt", <<v1, v2, v3, v4>>) = n
      BY DEF Built, BuiltStmt, Enumerators, AddOp, MultOp, RelOp
    <2>4. n.kind = "While" /\ IsStmt(n)
      BY <2>1 DEF IsStmt
    <2>5. n.kind \in StmtKinds
      BY <2>4 DEF StmtKinds, IgnoredKinds
    <2>6. StmtSentences(n) = Word("while") ** Tree(v2) ** Word("do") ** Tree(v4)
      BY DEF StmtSentences
    <2> HIDE DEF n
    <2>7. n \in Node /\ (SyntaxIsClosed => StmtSentences(n) \subseteq Tree(n))
      BY <1>3, <2>4, <2>5, MadeStmt
    <2>8. n \in Stmt
      BY <2>4, <2>7 DEF Of, Stmt, StmtKinds, IgnoredKinds
    <2>9. n \in Values("Statement") /\ Spelt("Statement", n) = Tree(n)
      BY <2>8, StatementSort
    <2>10. SyntaxIsClosed /\ EndsOpen(n) => "=WhileStmt" = "=IfThen" \/ Open("Statement", v4)
      BY <2>8, <2>4, OpenIs DEF EndsOpenOf, n, Open
    <2> QED  BY <2>2, <2>3, <2>6, <2>7, <2>9, <2>10 DEF Yields
  <1> QED  BY <1>2, <1>3, Makes4

\* The action RepeatStmt.
LEMMA MakesRepeatStmt ==
  Makes("=RepeatStmt", <<"repeat", "StatementSequence", "until", "Expression">>, "Statement")
PROOF
  <1>1. "repeat" \in Words /\ "until" \in Words
    BY KindsAreWords
  <1>2. "Expression" \in Meant /\ "Statement" \in Meant /\ "StatementSequence" \in Meant /\
        "repeat" \in Meant /\ "until" \in Meant
    BY <1>1, ExpressionSort, StatementSort, StatementSequenceSort, WordsAre
  <1>3. ASSUME AllTrees, NEW v1 \in Values("repeat"), NEW v2 \in Values("StatementSequence"),
               NEW v3 \in Values("until"), NEW v4 \in Values("Expression")
        PROVE  Yields("Statement", Built("=RepeatStmt", <<v1, v2, v3, v4>>),
                      Spelt("repeat", v1) ** Spelt("StatementSequence", v2) ** Spelt("until", v3) **
                      Spelt("Expression", v4),
                      "=RepeatStmt" = "=IfThen" \/ Open("Expression", v4))
    <2> DEFINE n == [kind |-> "Repeat", body |-> v2, cond |-> v4]
    <2>1. v2 \in StmtSeq /\ v4 \in Expr
      BY StatementSequenceSort, ExpressionSort
    <2>2. Spelt("repeat", v1) ** Spelt("StatementSequence", v2) ** Spelt("until", v3) **
          Spelt("Expression", v4)
          = Word("repeat") ** Tree(v2) ** Word("until") ** Tree(v4)
      BY <1>1, WordsAre, StatementSequenceSort, ExpressionSort
    <2>3. Built("=RepeatStmt", <<v1, v2, v3, v4>>) = n
      BY DEF Built, BuiltStmt, Enumerators, AddOp, MultOp, RelOp
    <2>4. n.kind = "Repeat" /\ IsStmt(n)
      BY <2>1 DEF IsStmt
    <2>5. n.kind \in StmtKinds
      BY <2>4 DEF StmtKinds, IgnoredKinds
    <2>6. StmtSentences(n) = Word("repeat") ** Tree(v2) ** Word("until") ** Tree(v4)
      BY DEF StmtSentences
    <2> HIDE DEF n
    <2>7. n \in Node /\ (SyntaxIsClosed => StmtSentences(n) \subseteq Tree(n))
      BY <1>3, <2>4, <2>5, MadeStmt
    <2>8. n \in Stmt
      BY <2>4, <2>7 DEF Of, Stmt, StmtKinds, IgnoredKinds
    <2>9. n \in Values("Statement") /\ Spelt("Statement", n) = Tree(n)
      BY <2>8, StatementSort
    <2>10. SyntaxIsClosed /\ EndsOpen(n) => "=RepeatStmt" = "=IfThen" \/ Open("Expression", v4)
      BY <2>8, <2>4, OpenIs DEF EndsOpenOf
    <2> QED  BY <2>2, <2>3, <2>6, <2>7, <2>9, <2>10 DEF Yields
  <1> QED  BY <1>2, <1>3, Makes4

\* The action ForStmt.
LEMMA MakesForStmt ==
  Makes("=ForStmt", <<"for", "identifier", ":=", "Expression", "WhichWay", "Expression", "do", "Statement">>, "Statement")
PROOF
  <1>1. ":=" \in Words /\ "do" \in Words /\ "for" \in Words
    BY KindsAreWords
  <1>2. ":=" \in Meant /\ "Expression" \in Meant /\ "Statement" \in Meant /\ "WhichWay" \in Meant /\
        "do" \in Meant /\ "for" \in Meant /\ "identifier" \in Meant
    BY <1>1, WordsAre, ExpressionSort, StatementSort, WhichWaySort, IdentifierSort
  <1>3. ASSUME AllTrees, NEW v1 \in Values("for"), NEW v2 \in Values("identifier"),
               NEW v3 \in Values(":="), NEW v4 \in Values("Expression"),
               NEW v5 \in Values("WhichWay"), NEW v6 \in Values("Expression"),
               NEW v7 \in Values("do"), NEW v8 \in Values("Statement")
        PROVE  Yields("Statement", Built("=ForStmt", <<v1, v2, v3, v4, v5, v6, v7, v8>>),
                      Spelt("for", v1) ** Spelt("identifier", v2) ** Spelt(":=", v3) **
                      Spelt("Expression", v4) ** Spelt("WhichWay", v5) ** Spelt("Expression", v6) **
                      Spelt("do", v7) ** Spelt("Statement", v8),
                      "=ForStmt" = "=IfThen" \/ Open("Statement", v8))
    <2> DEFINE n == [kind |-> "For", ident |-> v2, start |-> v4, finish |-> v6, body |-> v8]
    <2>1. v2 \in Ident /\ v4 \in Expr /\ v5 \in {"To", "DownTo"} /\ v6 \in Expr /\ v8 \in Stmt
      BY IdentifierSort, ExpressionSort, WhichWaySort, StatementSort
    <2>2. Spelt("for", v1) ** Spelt("identifier", v2) ** Spelt(":=", v3) **
          Spelt("Expression", v4) ** Spelt("WhichWay", v5) ** Spelt("Expression", v6) **
          Spelt("do", v7) ** Spelt("Statement", v8)
          = Word("for") ** Name(v2) ** Word(":=") ** Tree(v4) ** (Word("to") \cup Word("downto")) **
            Tree(v6) ** Word("do") ** Tree(v8)
      BY <1>1, WordsAre, IdentifierSort, ExpressionSort, WhichWaySort, StatementSort
    <2>3. Built("=ForStmt", <<v1, v2, v3, v4, v5, v6, v7, v8>>) = n
      BY DEF Built, BuiltStmt, Enumerators, AddOp, MultOp, RelOp, ForStmt
    <2>4. n.kind = "For" /\ IsStmt(n)
      BY <2>1 DEF IsStmt
    <2>5. n.kind \in StmtKinds
      BY <2>4 DEF StmtKinds, IgnoredKinds
    <2>6. StmtSentences(n) = Word("for") ** Name(v2) ** Word(":=") ** Tree(v4) **
                             (Word("to") \cup Word("downto")) ** Tree(v6) ** Word("do") ** Tree(v8)
      BY DEF StmtSentences
    <2> HIDE DEF n
    <2>7. n \in Node /\ (SyntaxIsClosed => StmtSentences(n) \subseteq Tree(n))
      BY <1>3, <2>4, <2>5, MadeStmt
    <2>8. n \in Stmt
      BY <2>4, <2>7 DEF Of, Stmt, StmtKinds, IgnoredKinds
    <2>9. n \in Values("Statement") /\ Spelt("Statement", n) = Tree(n)
      BY <2>8, StatementSort
    <2>10. SyntaxIsClosed /\ EndsOpen(n) => "=ForStmt" = "=IfThen" \/ Open("Statement", v8)
      BY <2>8, <2>4, OpenIs DEF EndsOpenOf, n, Open
    <2> QED  BY <2>2, <2>3, <2>6, <2>7, <2>9, <2>10 DEF Yields
  <1> QED  BY <1>2, <1>3, Makes8 DEF Yields8

\* The action New.
LEMMA MakesNew ==
  Makes("=New", <<"New", "(", "identifier", ")">>, "Statement")
PROOF
  <1>1. "(" \in Words /\ ")" \in Words /\ "New" \in Words
    BY KindsAreWords
  <1>2. "(" \in Meant /\ ")" \in Meant /\ "New" \in Meant /\ "Statement" \in Meant /\
        "identifier" \in Meant
    BY <1>1, WordsAre, StatementSort, IdentifierSort
  <1>3. ASSUME AllTrees, NEW v1 \in Values("New"), NEW v2 \in Values("("),
               NEW v3 \in Values("identifier"), NEW v4 \in Values(")")
        PROVE  Yields("Statement", Built("=New", <<v1, v2, v3, v4>>),
                      Spelt("New", v1) ** Spelt("(", v2) ** Spelt("identifier", v3) **
                      Spelt(")", v4),
                      "=New" = "=IfThen" \/ Open(")", v4))
    <2> DEFINE n == [kind |-> "Memory", op |-> "New", ident |-> v3]
    <2>1. v3 \in Ident
      BY IdentifierSort
    <2>2. Spelt("New", v1) ** Spelt("(", v2) ** Spelt("identifier", v3) ** Spelt(")", v4)
          = Word("New") ** Word("(") ** Name(v3) ** Word(")")
      BY <1>1, WordsAre, IdentifierSort
    <2>3. Built("=New", <<v1, v2, v3, v4>>) = n
      BY DEF Built, BuiltStmt, Enumerators, AddOp, MultOp, RelOp
    <2>4. n.kind = "Memory" /\ IsStmt(n)
      BY <2>1 DEF IsStmt
    <2>5. n.kind \in StmtKinds
      BY <2>4 DEF StmtKinds, IgnoredKinds
    <2>6. StmtSentences(n) = Word("New") ** Word("(") ** Name(v3) ** Word(")")
      BY DEF StmtSentences
    <2> HIDE DEF n
    <2>7. n \in Node /\ (SyntaxIsClosed => StmtSentences(n) \subseteq Tree(n))
      BY <1>3, <2>4, <2>5, MadeStmt
    <2>8. n \in Stmt
      BY <2>4, <2>7 DEF Of, Stmt, StmtKinds, IgnoredKinds
    <2>9. n \in Values("Statement") /\ Spelt("Statement", n) = Tree(n)
      BY <2>8, StatementSort
    <2>10. SyntaxIsClosed /\ EndsOpen(n) => "=New" = "=IfThen" \/ Open(")", v4)
      BY <2>8, <2>4, OpenIs DEF EndsOpenOf
    <2> QED  BY <2>2, <2>3, <2>6, <2>7, <2>9, <2>10 DEF Yields
  <1> QED  BY <1>2, <1>3, Makes4

\* The action Dispose.
LEMMA MakesDispose ==
  Makes("=Dispose", <<"Dispose", "(", "identifier", ")">>, "Statement")
PROOF
  <1>1. "(" \in Words /\ ")" \in Words /\ "Dispose" \in Words
    BY KindsAreWords
  <1>2. "(" \in Meant /\ ")" \in Meant /\ "Dispose" \in Meant /\ "Statement" \in Meant /\
        "identifier" \in Meant
    BY <1>1, WordsAre, StatementSort, IdentifierSort
  <1>3. ASSUME AllTrees, NEW v1 \in Values("Dispose"), NEW v2 \in Values("("),
               NEW v3 \in Values("identifier"), NEW v4 \in Values(")")
        PROVE  Yields("Statement", Built("=Dispose", <<v1, v2, v3, v4>>),
                      Spelt("Dispose", v1) ** Spelt("(", v2) ** Spelt("identifier", v3) **
                      Spelt(")", v4),
                      "=Dispose" = "=IfThen" \/ Open(")", v4))
    <2> DEFINE n == [kind |-> "Memory", op |-> "Dispose", ident |-> v3]
    <2>1. v3 \in Ident
      BY IdentifierSort
    <2>2. Spelt("Dispose", v1) ** Spelt("(", v2) ** Spelt("identifier", v3) ** Spelt(")", v4)
          = Word("Dispose") ** Word("(") ** Name(v3) ** Word(")")
      BY <1>1, WordsAre, IdentifierSort
    <2>3. Built("=Dispose", <<v1, v2, v3, v4>>) = n
      BY DEF Built, BuiltStmt, Enumerators, AddOp, MultOp, RelOp
    <2>4. n.kind = "Memory" /\ IsStmt(n)
      BY <2>1 DEF IsStmt
    <2>5. n.kind \in StmtKinds
      BY <2>4 DEF StmtKinds, IgnoredKinds
    <2>6. StmtSentences(n) = Word("Dispose") ** Word("(") ** Name(v3) ** Word(")")
      BY DEF StmtSentences
    <2> HIDE DEF n
    <2>7. n \in Node /\ (SyntaxIsClosed => StmtSentences(n) \subseteq Tree(n))
      BY <1>3, <2>4, <2>5, MadeStmt
    <2>8. n \in Stmt
      BY <2>4, <2>7 DEF Of, Stmt, StmtKinds, IgnoredKinds
    <2>9. n \in Values("Statement") /\ Spelt("Statement", n) = Tree(n)
      BY <2>8, StatementSort
    <2>10. SyntaxIsClosed /\ EndsOpen(n) => "=Dispose" = "=IfThen" \/ Open(")", v4)
      BY <2>8, <2>4, OpenIs DEF EndsOpenOf
    <2> QED  BY <2>2, <2>3, <2>6, <2>7, <2>9, <2>10 DEF Yields
  <1> QED  BY <1>2, <1>3, Makes4

\* The action EmptyStmt.
LEMMA MakesEmptyStmt ==
  Makes("=EmptyStmt", <<>>, "Statement")
PROOF
  <1>2. "Statement" \in Meant
    BY StatementSort
  <1>3. ASSUME AllTrees
        PROVE  Yields("Statement", Built("=EmptyStmt", <<>>),
                      {<<>>},
                      "=EmptyStmt" = "=IfThen")
    <2> DEFINE n == [kind |-> "Empty"]
    <2>3. Built("=EmptyStmt", <<>>) = n
      BY DEF Built, BuiltStmt, Enumerators, AddOp, MultOp, RelOp
    <2>4. n.kind = "Empty" /\ IsStmt(n)
      BY DEF IsStmt
    <2>5. n.kind \in StmtKinds
      BY <2>4 DEF StmtKinds, IgnoredKinds
    <2>6. StmtSentences(n) = {<<>>}
      BY DEF StmtSentences
    <2> HIDE DEF n
    <2>7. n \in Node /\ (SyntaxIsClosed => StmtSentences(n) \subseteq Tree(n))
      BY <1>3, <2>4, <2>5, MadeStmt
    <2>8. n \in Stmt
      BY <2>4, <2>7 DEF Of, Stmt, StmtKinds, IgnoredKinds
    <2>9. n \in Values("Statement") /\ Spelt("Statement", n) = Tree(n)
      BY <2>8, StatementSort
    <2>10. SyntaxIsClosed /\ EndsOpen(n) => "=EmptyStmt" = "=IfThen"
      BY <2>8, <2>4, OpenIs DEF EndsOpenOf
    <2> QED  BY <2>3, <2>6, <2>7, <2>9, <2>10 DEF Yields
  <1> QED  BY <1>2, <1>3, Makes0

\* The action Designator.
LEMMA MakesDesignator ==
  Makes("=Designator", <<"identifier", "DesignatorStuffOpt">>, "Designator")
PROOF
  <1>2. "Designator" \in Meant /\ "DesignatorStuffOpt" \in Meant /\ "identifier" \in Meant
    BY DesignatorSort, DesignatorStuffOptSort, IdentifierSort
  <1>3. ASSUME AllTrees, NEW v1 \in Values("identifier"), NEW v2 \in Values("DesignatorStuffOpt")
        PROVE  Yields("Designator", Built("=Designator", <<v1, v2>>),
                      Spelt("identifier", v1) ** Spelt("DesignatorStuffOpt", v2),
                      "=Designator" = "=IfThen" \/ Open("DesignatorStuffOpt", v2))
    <2> DEFINE n == [kind |-> "Designator", ident |-> v1, items |-> v2]
    <2>1. v1 \in Ident /\ v2 \in Seq(DesignatorItem)
      BY IdentifierSort, DesignatorStuffOptSort
    <2>2. Spelt("identifier", v1) ** Spelt("DesignatorStuffOpt", v2)
          = Name(v1) ** Optionally("DesignatorStuff", v2)
      BY IdentifierSort, DesignatorStuffOptSort
    <2>3. Built("=Designator", <<v1, v2>>) = n
      BY DEF Built, BuiltExpr, Enumerators, AddOp, MultOp, RelOp
    <2>4. n.kind = "Designator" /\ IsFactor(n)
      BY <2>1 DEF IsFactor
    <2>5. n.kind \in FactorKinds
      BY <2>4 DEF FactorKinds
    <2>6. FactorSentences(n) = Name(v1) ** Optionally("DesignatorStuff", v2)
      BY DEF FactorSentences
    <2> HIDE DEF n
    <2>7. n \in Node /\ (SyntaxIsClosed => FactorSentences(n) \subseteq Tree(n))
      BY <1>3, <2>4, <2>5, MadeFactor
    <2>8. n \in Designator
      BY <2>4, <2>7 DEF Of, Designator
    <2>9. n \in Values("Designator") /\ Spelt("Designator", n) = Tree(n)
      BY <2>8, DesignatorSort
    <2> QED  BY <2>2, <2>3, <2>6, <2>7, <2>9 DEF Yields
  <1> QED  BY <1>2, <1>3, Makes2

\* The action Assignment.
LEMMA MakesAssignment ==
  Makes("=Assignment", <<"Designator", ":=", "Expression">>, "Statement")
PROOF
  <1>1. ":=" \in Words
    BY KindsAreWords
  <1>2. ":=" \in Meant /\ "Designator" \in Meant /\ "Expression" \in Meant /\ "Statement" \in Meant
    BY <1>1, WordsAre, DesignatorSort, ExpressionSort, StatementSort
  <1>3. ASSUME AllTrees, NEW v1 \in Values("Designator"), NEW v2 \in Values(":="),
               NEW v3 \in Values("Expression")
        PROVE  Yields("Statement", Built("=Assignment", <<v1, v2, v3>>),
                      Spelt("Designator", v1) ** Spelt(":=", v2) ** Spelt("Expression", v3),
                      "=Assignment" = "=IfThen" \/ Open("Expression", v3))
    <2> DEFINE n == [kind |-> "Assignment", target |-> v1, expr |-> v3]
    <2>1. v1 \in Designator /\ v3 \in Expr
      BY DesignatorSort, ExpressionSort
    <2>2. Spelt("Designator", v1) ** Spelt(":=", v2) ** Spelt("Expression", v3)
          = Tree(v1) ** Word(":=") ** Tree(v3)
      BY <1>1, DesignatorSort, WordsAre, ExpressionSort
    <2>3. Built("=Assignment", <<v1, v2, v3>>) = n
      BY DEF Built, BuiltStmt, Enumerators, AddOp, MultOp, RelOp
    <2>4. n.kind = "Assignment" /\ IsStmt(n)
      BY <2>1 DEF IsStmt
    <2>5. n.kind \in StmtKinds
      BY <2>4 DEF StmtKinds, IgnoredKinds
    <2>6. StmtSentences(n) = Tree(v1) ** Word(":=") ** Tree(v3)
      BY DEF StmtSentences
    <2> HIDE DEF n
    <2>7. n \in Node /\ (SyntaxIsClosed => StmtSentences(n) \subseteq Tree(n))
      BY <1>3, <2>4, <2>5, MadeStmt
    <2>8. n \in Stmt
      BY <2>4, <2>7 DEF Of, Stmt, StmtKinds, IgnoredKinds
    <2>9. n \in Values("Statement") /\ Spelt("Statement", n) = Tree(n)
      BY <2>8, StatementSort
    <2>10. SyntaxIsClosed /\ EndsOpen(n) => "=Assignment" = "=IfThen" \/ Open("Expression", v3)
      BY <2>8, <2>4, OpenIs DEF EndsOpenOf
    <2> QED  BY <2>2, <2>3, <2>6, <2>7, <2>9, <2>10 DEF Yields
  <1> QED  BY <1>2, <1>3, Makes3

\* The action ProcCall.
LEMMA MakesProcCall ==
  Makes("=ProcCall", <<"identifier", "ActualParametersOpt">>, "Statement")
PROOF
  <1>2. "ActualParametersOpt" \in Meant /\ "Statement" \in Meant /\ "identifier" \in Meant
    BY ActualParametersOptSort, StatementSort, IdentifierSort
  <1>3. ASSUME AllTrees, NEW v1 \in Values("identifier"), NEW v2 \in Values("ActualParametersOpt")
        PROVE  Yields("Statement", Built("=ProcCall", <<v1, v2>>),
                      Spelt("identifier", v1) ** Spelt("ActualParametersOpt", v2),
                      "=ProcCall" = "=IfThen" \/ Open("ActualParametersOpt", v2))
    <2> DEFINE n == [kind |-> "ProcCall", proc |-> v1, params |-> v2]
    <2>1. v1 \in Ident /\ v2 \in Seq(Expr)
      BY IdentifierSort, ActualParametersOptSort
    <2>2. Spelt("identifier", v1) ** Spelt("ActualParametersOpt", v2)
          = Name(v1) ** (ActualParameters(v2) \cup {none \in {<<>>} : v2 = <<>>})
      BY IdentifierSort, ActualParametersOptSort
    <2>3. Built("=ProcCall", <<v1, v2>>) = n
      BY DEF Built, BuiltStmt, Enumerators, AddOp, MultOp, RelOp
    <2>4. n.kind = "ProcCall" /\ IsStmt(n)
      BY <2>1 DEF IsStmt
    <2>5. n.kind \in StmtKinds
      BY <2>4 DEF StmtKinds, IgnoredKinds
    <2>6. StmtSentences(n) = Name(v1) ** (ActualParameters(v2) \cup {none \in {<<>>} : v2 = <<>>})
      BY DEF StmtSentences
    <2> HIDE DEF n
    <2>7. n \in Node /\ (SyntaxIsClosed => StmtSentences(n) \subseteq Tree(n))
      BY <1>3, <2>4, <2>5, MadeStmt
    <2>8. n \in Stmt
      BY <2>4, <2>7 DEF Of, Stmt, StmtKinds, IgnoredKinds
    <2>9. n \in Values("Statement") /\ Spelt("Statement", n) = Tree(n)
      BY <2>8, StatementSort
    <2>10. SyntaxIsClosed /\ EndsOpen(n) => "=ProcCall" = "=IfThen" \/ Open("ActualParametersOpt", v2)
      BY <2>8, <2>4, OpenIs DEF EndsOpenOf
    <2> QED  BY <2>2, <2>3, <2>6, <2>7, <2>9, <2>10 DEF Yields
  <1> QED  BY <1>2, <1>3, Makes2

\* The action IfThen.
LEMMA MakesIfThen ==
  Makes("=IfThen", <<"if", "Expression", "then", "Statement">>, "Statement")
PROOF
  <1>1. "if" \in Words /\ "then" \in Words
    BY KindsAreWords
  <1>2. "Expression" \in Meant /\ "Statement" \in Meant /\ "if" \in Meant /\ "then" \in Meant
    BY <1>1, ExpressionSort, StatementSort, WordsAre
  <1>3. ASSUME AllTrees, NEW v1 \in Values("if"), NEW v2 \in Values("Expression"),
               NEW v3 \in Values("then"), NEW v4 \in Values("Statement")
        PROVE  Yields("Statement", Built("=IfThen", <<v1, v2, v3, v4>>),
                      Spelt("if", v1) ** Spelt("Expression", v2) ** Spelt("then", v3) **
                      Spelt("Statement", v4),
                      "=IfThen" = "=IfThen" \/ Open("Statement", v4))
    <2> DEFINE n == [kind |-> "If", cond |-> v2, then |-> v4, else |-> <<>>]
    <2>1. v2 \in Expr /\ v4 \in Stmt
      BY ExpressionSort, StatementSort
    <2>2. Spelt("if", v1) ** Spelt("Expression", v2) ** Spelt("then", v3) ** Spelt("Statement", v4)
          = Word("if") ** Tree(v2) ** Word("then") ** Tree(v4)
      BY <1>1, WordsAre, ExpressionSort, StatementSort
    <2>3. Built("=IfThen", <<v1, v2, v3, v4>>) = n
      BY DEF Built, BuiltStmt, Enumerators, AddOp, MultOp, RelOp
    <2>4. n.kind = "If" /\ IsStmt(n)
      BY <2>1 DEF IsStmt
    <2>5. n.kind \in StmtKinds
      BY <2>4 DEF StmtKinds, IgnoredKinds
    <2>6. StmtSentences(n) = Word("if") ** Tree(v2) ** Word("then") ** Tree(v4)
      BY DEF StmtSentences, IfThenSentences
    <2> HIDE DEF n
    <2>7. n \in Node /\ (SyntaxIsClosed => StmtSentences(n) \subseteq Tree(n))
      BY <1>3, <2>4, <2>5, MadeStmt
    <2>8. n \in Stmt
      BY <2>4, <2>7 DEF Of, Stmt, StmtKinds, IgnoredKinds
    <2>9. n \in Values("Statement") /\ Spelt("Statement", n) = Tree(n)
      BY <2>8, StatementSort
    <2>10. SyntaxIsClosed /\ EndsOpen(n) => "=IfThen" = "=IfThen" \/ Open("Statement", v4)
      OBVIOUS
    <2> QED  BY <2>2, <2>3, <2>6, <2>7, <2>9, <2>10 DEF Yields
  <1> QED  BY <1>2, <1>3, Makes4

\* The action FieldAccess.
LEMMA MakesFieldAccess ==
  Makes("=FieldAccess", <<".", "identifier">>, "DesignatorItem")
PROOF
  <1>1. "." \in Words
    BY KindsAreWords
  <1>2. "." \in Meant /\ "DesignatorItem" \in Meant /\ "identifier" \in Meant
    BY <1>1, WordsAre, DesignatorItemSort, IdentifierSort
  <1>3. ASSUME AllTrees, NEW v1 \in Values("."), NEW v2 \in Values("identifier")
        PROVE  Yields("DesignatorItem", Built("=FieldAccess", <<v1, v2>>),
                      Spelt(".", v1) ** Spelt("identifier", v2),
                      "=FieldAccess" = "=IfThen" \/ Open("identifier", v2))
    <2> DEFINE n == [kind |-> "FieldAccess", field |-> v2]
    <2>1. v2 \in Ident
      BY IdentifierSort
    <2>2. Spelt(".", v1) ** Spelt("identifier", v2)
          = Word(".") ** Name(v2)
      BY <1>1, WordsAre, IdentifierSort
    <2>3. Built("=FieldAccess", <<v1, v2>>) = n
      BY DEF Built, BuiltExpr, Enumerators, AddOp, MultOp, RelOp
    <2>4. n.kind = "FieldAccess" /\ IsDesignatorItem(n)
      BY <2>1 DEF IsDesignatorItem
    <2>5. n.kind \in DesignatorItemKinds
      BY <2>4 DEF DesignatorItemKinds
    <2>6. DesignatorItemSentences(n) = Word(".") ** Name(v2)
      BY DEF DesignatorItemSentences
    <2> HIDE DEF n
    <2>7. n \in Node /\ (SyntaxIsClosed => DesignatorItemSentences(n) \subseteq Tree(n))
      BY <1>3, <2>4, <2>5, MadeDesignatorItem
    <2>8. n \in DesignatorItem
      BY <2>4, <2>7 DEF Of, DesignatorItem, DesignatorItemKinds
    <2>9. n \in Values("DesignatorItem") /\ Spelt("DesignatorItem", n) = Tree(n)
      BY <2>8, DesignatorItemSort
    <2> QED  BY <2>2, <2>3, <2>6, <2>7, <2>9 DEF Yields
  <1> QED  BY <1>2, <1>3, Makes2

\* The action ArrayAccess.
LEMMA MakesArrayAccess ==
  Makes("=ArrayAccess", <<"[", "ExpList", "]">>, "DesignatorItem")
PROOF
  <1>1. "[" \in Words /\ "]" \in Words
    BY KindsAreWords
  <1>2. "DesignatorItem" \in Meant /\ "ExpList" \in Meant /\ "[" \in Meant /\ "]" \in Meant
    BY <1>1, DesignatorItemSort, ExpListSort, WordsAre
  <1>3. ASSUME AllTrees, NEW v1 \in Values("["), NEW v2 \in Values("ExpList"),
               NEW v3 \in Values("]")
        PROVE  Yields("DesignatorItem", Built("=ArrayAccess", <<v1, v2, v3>>),
                      Spelt("[", v1) ** Spelt("ExpList", v2) ** Spelt("]", v3),
                      "=ArrayAccess" = "=IfThen" \/ Open("]", v3))
    <2> DEFINE n == [kind |-> "ArrayAccess", exprs |-> v2]
    <2>1. v2 \in Seq(Expr) \ {<<>>}
      BY ExpListSort
    <2>2. Spelt("[", v1) ** Spelt("ExpList", v2) ** Spelt("]", v3)
          = Word("[") ** Sentences("ExpList", v2) ** Word("]")
      BY <1>1, WordsAre, ExpListSort
    <2>3. Built("=ArrayAccess", <<v1, v2, v3>>) = n
      BY DEF Built, BuiltExpr, Enumerators, AddOp, MultOp, RelOp
    <2>4. n.kind = "ArrayAccess" /\ IsDesignatorItem(n)
      BY <2>1 DEF IsDesignatorItem
    <2>5. n.kind \in DesignatorItemKinds
      BY <2>4 DEF DesignatorItemKinds
    <2>6. DesignatorItemSentences(n) = Word("[") ** Sentences("ExpList", v2) ** Word("]")
      BY DEF DesignatorItemSentences
    <2> HIDE DEF n
    <2>7. n \in Node /\ (SyntaxIsClosed => DesignatorItemSentences(n) \subseteq Tree(n))
      BY <1>3, <2>4, <2>5, MadeDesignatorItem
    <2>8. n \in DesignatorItem
      BY <2>4, <2>7 DEF Of, DesignatorItem, DesignatorItemKinds
    <2>9. n \in Values("DesignatorItem") /\ Spelt("DesignatorItem", n) = Tree(n)
      BY <2>8, DesignatorItemSort
    <2> QED  BY <2>2, <2>3, <2>6, <2>7, <2>9 DEF Yields
  <1> QED  BY <1>2, <1>3, Makes3

\* The action PointerAccess.
LEMMA MakesPointerAccess ==
  Makes("=PointerAccess", <<"^">>, "DesignatorItem")
PROOF
  <1>1. "^" \in Words
    BY KindsAreWords
  <1>2. "DesignatorItem" \in Meant /\ "^" \in Meant
    BY <1>1, DesignatorItemSort, WordsAre
  <1>3. ASSUME AllTrees, NEW v1 \in Values("^")
        PROVE  Yields("DesignatorItem", Built("=PointerAccess", <<v1>>),
                      Spelt("^", v1),
                      "=PointerAccess" = "=IfThen" \/ Open("^", v1))
    <2> DEFINE n == [kind |-> "PointerAccess"]
    <2>2. Spelt("^", v1)
          = Word("^")
      BY <1>1, WordsAre
    <2>3. Built("=PointerAccess", <<v1>>) = n
      BY DEF Built, BuiltExpr, Enumerators, AddOp, MultOp, RelOp
    <2>4. n.kind = "PointerAccess" /\ IsDesignatorItem(n)
      BY DEF IsDesignatorItem
    <2>5. n.kind \in DesignatorItemKinds
      BY <2>4 DEF DesignatorItemKinds
    <2>6. DesignatorItemSentences(n) = Word("^")
      BY DEF DesignatorItemSentences
    <2> HIDE DEF n
    <2>7. n \in Node /\ (SyntaxIsClosed => DesignatorItemSentences(n) \subseteq Tree(n))
      BY <1>3, <2>4, <2>5, MadeDesignatorItem
    <2>8. n \in DesignatorItem
      BY <2>4, <2>7 DEF Of, DesignatorItem, DesignatorItemKinds
    <2>9. n \in Values("DesignatorItem") /\ Spelt("DesignatorItem", n) = Tree(n)
      BY <2>8, DesignatorItemSort
    <2> QED  BY <2>2, <2>3, <2>6, <2>7, <2>9 DEF Yields
  <1> QED  BY <1>2, <1>3, Makes1

\* The action Number.
LEMMA MakesNumber ==
  Makes("=Number", <<"number">>, "Factor")
PROOF
  <1>2. "Factor" \in Meant /\ "number" \in Meant
    BY FactorSort, NumberSort
  <1>3. ASSUME AllTrees, NEW v1 \in Values("number")
        PROVE  Yields("Factor", Built("=Number", <<v1>>),
                      Spelt("number", v1),
                      "=Number" = "=IfThen" \/ Open("number", v1))
    <2> DEFINE n == [kind |-> "Number", int |-> v1]
    <2>1. v1 \in 0..MaxLiteral
      BY NumberSort
    <2>2. Spelt("number", v1)
          = Valued("number", v1)
      BY NumberSort
    <2>3. Built("=Number", <<v1>>) = n
      BY DEF Built, BuiltExpr, Enumerators, AddOp, MultOp, RelOp
    <2>4. n.kind = "Number" /\ IsFactor(n)
      BY <2>1 DEF IsFactor
    <2>5. n.kind \in FactorKinds
      BY <2>4 DEF FactorKinds
    <2>6. FactorSentences(n) = Valued("number", v1)
      BY DEF FactorSentences
    <2> HIDE DEF n
    <2>7. n \in Node /\ (SyntaxIsClosed => FactorSentences(n) \subseteq Tree(n))
      BY <1>3, <2>4, <2>5, MadeFactor
    <2>8. n \in Factor
      BY <2>4, <2>7 DEF Of, Factor, FactorKinds
    <2>9. n \in Values("Factor") /\ Spelt("Factor", n) = Tree(n)
      BY <2>8, FactorSort
    <2> QED  BY <2>2, <2>3, <2>6, <2>7, <2>9 DEF Yields
  <1> QED  BY <1>2, <1>3, Makes1

\* The action String.
LEMMA MakesString ==
  Makes("=String", <<"string">>, "Factor")
PROOF
  <1>2. "Factor" \in Meant /\ "string" \in Meant
    BY FactorSort, StringSort
  <1>3. ASSUME AllTrees, NEW v1 \in Values("string")
        PROVE  Yields("Factor", Built("=String", <<v1>>),
                      Spelt("string", v1),
                      "=String" = "=IfThen" \/ Open("string", v1))
    <2> DEFINE n == [kind |-> "String", text |-> v1]
    <2>1. v1 \in STRING
      BY StringSort
    <2>2. Spelt("string", v1)
          = Valued("string", v1)
      BY StringSort
    <2>3. Built("=String", <<v1>>) = n
      BY DEF Built, BuiltExpr, Enumerators, AddOp, MultOp, RelOp
    <2>4. n.kind = "String" /\ IsFactor(n)
      BY <2>1 DEF IsFactor
    <2>5. n.kind \in FactorKinds
      BY <2>4 DEF FactorKinds
    <2>6. FactorSentences(n) = Valued("string", v1)
      BY DEF FactorSentences
    <2> HIDE DEF n
    <2>7. n \in Node /\ (SyntaxIsClosed => FactorSentences(n) \subseteq Tree(n))
      BY <1>3, <2>4, <2>5, MadeFactor
    <2>8. n \in Factor
      BY <2>4, <2>7 DEF Of, Factor, FactorKinds
    <2>9. n \in Values("Factor") /\ Spelt("Factor", n) = Tree(n)
      BY <2>8, FactorSort
    <2> QED  BY <2>2, <2>3, <2>6, <2>7, <2>9 DEF Yields
  <1> QED  BY <1>2, <1>3, Makes1

\* The action True.
LEMMA MakesTrue ==
  Makes("=True", <<"True">>, "Factor")
PROOF
  <1>1. "True" \in Words
    BY KindsAreWords
  <1>2. "Factor" \in Meant /\ "True" \in Meant
    BY <1>1, FactorSort, WordsAre
  <1>3. ASSUME AllTrees, NEW v1 \in Values("True")
        PROVE  Yields("Factor", Built("=True", <<v1>>),
                      Spelt("True", v1),
                      "=True" = "=IfThen" \/ Open("True", v1))
    <2> DEFINE n == [kind |-> "Bool", bool |-> TRUE]
    <2>2. Spelt("True", v1)
          = Word("True")
      BY <1>1, WordsAre
    <2>3. Built("=True", <<v1>>) = n
      BY DEF Built, BuiltExpr, Enumerators, AddOp, MultOp, RelOp
    <2>4. n.kind = "Bool" /\ IsFactor(n)
      BY DEF IsFactor
    <2>5. n.kind \in FactorKinds
      BY <2>4 DEF FactorKinds
    <2>6. FactorSentences(n) = Word("True")
      BY DEF FactorSentences
    <2> HIDE DEF n
    <2>7. n \in Node /\ (SyntaxIsClosed => FactorSentences(n) \subseteq Tree(n))
      BY <1>3, <2>4, <2>5, MadeFactor
    <2>8. n \in Factor
      BY <2>4, <2>7 DEF Of, Factor, FactorKinds
    <2>9. n \in Values("Factor") /\ Spelt("Factor", n) = Tree(n)
      BY <2>8, FactorSort
    <2> QED  BY <2>2, <2>3, <2>6, <2>7, <2>9 DEF Yields
  <1> QED  BY <1>2, <1>3, Makes1

\* The action False.
LEMMA MakesFalse ==
  Makes("=False", <<"False">>, "Factor")
PROOF
  <1>1. "False" \in Words
    BY KindsAreWords
  <1>2. "Factor" \in Meant /\ "False" \in Meant
    BY <1>1, FactorSort, WordsAre
  <1>3. ASSUME AllTrees, NEW v1 \in Values("False")
        PROVE  Yields("Factor", Built("=False", <<v1>>),
                      Spelt("False", v1),
                      "=False" = "=IfThen" \/ Open("False", v1))
    <2> DEFINE n == [kind |-> "Bool", bool |-> FALSE]
    <2>2. Spelt("False", v1)
          = Word("False")
      BY <1>1, WordsAre
    <2>3. Built("=False", <<v1>>) = n
      BY DEF Built, BuiltExpr, Enumerators, AddOp, MultOp, RelOp
    <2>4. n.kind = "Bool" /\ IsFactor(n)
      BY DEF IsFactor
    <2>5. n.kind \in FactorKinds
      BY <2>4 DEF FactorKinds
    <2>6. FactorSentences(n) = Word("False")
      BY DEF FactorSentences
    <2> HIDE DEF n
    <2>7. n \in Node /\ (SyntaxIsClosed => FactorSentences(n) \subseteq Tree(n))
      BY <1>3, <2>4, <2>5, MadeFactor
    <2>8. n \in Factor
      BY <2>4, <2>7 DEF Of, Factor, FactorKinds
    <2>9. n \in Values("Factor") /\ Spelt("Factor", n) = Tree(n)
      BY <2>8, FactorSort
    <2> QED  BY <2>2, <2>3, <2>6, <2>7, <2>9 DEF Yields
  <1> QED  BY <1>2, <1>3, Makes1

\* The action Nil.
LEMMA MakesNil ==
  Makes("=Nil", <<"nil">>, "Factor")
PROOF
  <1>1. "nil" \in Words
    BY KindsAreWords
  <1>2. "Factor" \in Meant /\ "nil" \in Meant
    BY <1>1, FactorSort, WordsAre
  <1>3. ASSUME AllTrees, NEW v1 \in Values("nil")
        PROVE  Yields("Factor", Built("=Nil", <<v1>>),
                      Spelt("nil", v1),
                      "=Nil" = "=IfThen" \/ Open("nil", v1))
    <2> DEFINE n == [kind |-> "Nil"]
    <2>2. Spelt("nil", v1)
          = Word("nil")
      BY <1>1, WordsAre
    <2>3. Built("=Nil", <<v1>>) = n
      BY DEF Built, BuiltExpr, Enumerators, AddOp, MultOp, RelOp
    <2>4. n.kind = "Nil" /\ IsFactor(n)
      BY DEF IsFactor
    <2>5. n.kind \in FactorKinds
      BY <2>4 DEF FactorKinds
    <2>6. FactorSentences(n) = Word("nil")
      BY DEF FactorSentences
    <2> HIDE DEF n
    <2>7. n \in Node /\ (SyntaxIsClosed => FactorSentences(n) \subseteq Tree(n))
      BY <1>3, <2>4, <2>5, MadeFactor
    <2>8. n \in Factor
      BY <2>4, <2>7 DEF Of, Factor, FactorKinds
    <2>9. n \in Values("Factor") /\ Spelt("Factor", n) = Tree(n)
      BY <2>8, FactorSort
    <2> QED  BY <2>2, <2>3, <2>6, <2>7, <2>9 DEF Yields
  <1> QED  BY <1>2, <1>3, Makes1

\* The action Paren.
LEMMA MakesParen ==
  Makes("=Paren", <<"(", "Expression", ")">>, "Factor")
PROOF
  <1>1. "(" \in Words /\ ")" \in Words
    BY KindsAreWords
  <1>2. "(" \in Meant /\ ")" \in Meant /\ "Expression" \in Meant /\ "Factor" \in Meant
    BY <1>1, WordsAre, ExpressionSort, FactorSort
  <1>3. ASSUME AllTrees, NEW v1 \in Values("("), NEW v2 \in Values("Expression"),
               NEW v3 \in Values(")")
        PROVE  Yields("Factor", Built("=Paren", <<v1, v2, v3>>),
                      Spelt("(", v1) ** Spelt("Expression", v2) ** Spelt(")", v3),
                      "=Paren" = "=IfThen" \/ Open(")", v3))
    <2> DEFINE n == [kind |-> "Paren", inner |-> v2]
    <2>1. v2 \in Expr
      BY ExpressionSort
    <2>2. Spelt("(", v1) ** Spelt("Expression", v2) ** Spelt(")", v3)
          = Word("(") ** Tree(v2) ** Word(")")
      BY <1>1, WordsAre, ExpressionSort
    <2>3. Built("=Paren", <<v1, v2, v3>>) = n
      BY DEF Built, BuiltExpr, Enumerators, AddOp, MultOp, RelOp
    <2>4. n.kind = "Paren" /\ IsFactor(n)
      BY <2>1 DEF IsFactor
    <2>5. n.kind \in FactorKinds
      BY <2>4 DEF FactorKinds
    <2>6. FactorSentences(n) = Word("(") ** Tree(v2) ** Word(")")
      BY DEF FactorSentences
    <2> HIDE DEF n
    <2>7. n \in Node /\ (SyntaxIsClosed => FactorSentences(n) \subseteq Tree(n))
      BY <1>3, <2>4, <2>5, MadeFactor
    <2>8. n \in Factor
      BY <2>4, <2>7 DEF Of, Factor, FactorKinds
    <2>9. n \in Values("Factor") /\ Spelt("Factor", n) = Tree(n)
      BY <2>8, FactorSort
    <2> QED  BY <2>2, <2>3, <2>6, <2>7, <2>9 DEF Yields
  <1> QED  BY <1>2, <1>3, Makes3

\* The action Negation.
LEMMA MakesNegation ==
  Makes("=Negation", <<"not", "Factor">>, "Factor")
PROOF
  <1>1. "not" \in Words
    BY KindsAreWords
  <1>2. "Factor" \in Meant /\ "not" \in Meant
    BY <1>1, FactorSort, WordsAre
  <1>3. ASSUME AllTrees, NEW v1 \in Values("not"), NEW v2 \in Values("Factor")
        PROVE  Yields("Factor", Built("=Negation", <<v1, v2>>),
                      Spelt("not", v1) ** Spelt("Factor", v2),
                      "=Negation" = "=IfThen" \/ Open("Factor", v2))
    <2> DEFINE n == [kind |-> "Negation", inner |-> v2]
    <2>1. v2 \in Factor
      BY FactorSort
    <2>2. Spelt("not", v1) ** Spelt("Factor", v2)
          = Word("not") ** Tree(v2)
      BY <1>1, WordsAre, FactorSort
    <2>3. Built("=Negation", <<v1, v2>>) = n
      BY DEF Built, BuiltExpr, Enumerators, AddOp, MultOp, RelOp
    <2>4. n.kind = "Negation" /\ IsFactor(n)
      BY <2>1 DEF IsFactor
    <2>5. n.kind \in FactorKinds
      BY <2>4 DEF FactorKinds
    <2>6. FactorSentences(n) = Word("not") ** Tree(v2)
      BY DEF FactorSentences
    <2> HIDE DEF n
    <2>7. n \in Node /\ (SyntaxIsClosed => FactorSentences(n) \subseteq Tree(n))
      BY <1>3, <2>4, <2>5, MadeFactor
    <2>8. n \in Factor
      BY <2>4, <2>7 DEF Of, Factor, FactorKinds
    <2>9. n \in Values("Factor") /\ Spelt("Factor", n) = Tree(n)
      BY <2>8, FactorSort
    <2> QED  BY <2>2, <2>3, <2>6, <2>7, <2>9 DEF Yields
  <1> QED  BY <1>2, <1>3, Makes2

\* The action FuncCall.
LEMMA MakesFuncCall ==
  Makes("=FuncCall", <<"identifier", "ActualParameters">>, "Factor")
PROOF
  <1>2. "ActualParameters" \in Meant /\ "Factor" \in Meant /\ "identifier" \in Meant
    BY ActualParametersSort, FactorSort, IdentifierSort
  <1>3. ASSUME AllTrees, NEW v1 \in Values("identifier"), NEW v2 \in Values("ActualParameters")
        PROVE  Yields("Factor", Built("=FuncCall", <<v1, v2>>),
                      Spelt("identifier", v1) ** Spelt("ActualParameters", v2),
                      "=FuncCall" = "=IfThen" \/ Open("ActualParameters", v2))
    <2> DEFINE n == [kind |-> "FuncCall", func |-> v1, params |-> v2]
    <2>1. v1 \in Ident /\ v2 \in Seq(Expr)
      BY IdentifierSort, ActualParametersSort
    <2>2. Spelt("identifier", v1) ** Spelt("ActualParameters", v2)
          = Name(v1) ** ActualParameters(v2)
      BY IdentifierSort, ActualParametersSort
    <2>3. Built("=FuncCall", <<v1, v2>>) = n
      BY DEF Built, BuiltExpr, Enumerators, AddOp, MultOp, RelOp
    <2>4. n.kind = "FuncCall" /\ IsFactor(n)
      BY <2>1 DEF IsFactor, FuncCall
    <2>5. n.kind \in FactorKinds
      BY <2>4 DEF FactorKinds
    <2>6. FactorSentences(n) = Name(v1) ** ActualParameters(v2)
      BY DEF FactorSentences
    <2> HIDE DEF n
    <2>7. n \in Node /\ (SyntaxIsClosed => FactorSentences(n) \subseteq Tree(n))
      BY <1>3, <2>4, <2>5, MadeFactor
    <2>8. n \in Factor
      BY <2>4, <2>7 DEF Of, Factor, FactorKinds
    <2>9. n \in Values("Factor") /\ Spelt("Factor", n) = Tree(n)
      BY <2>8, FactorSort
    <2> QED  BY <2>2, <2>3, <2>6, <2>7, <2>9 DEF Yields
  <1> QED  BY <1>2, <1>3, Makes2

-----------------------------------------------------------------------------
(* The actions that make lists.                                            *)

\* A list with separators.
LEMMA MakesSeparated ==
  ASSUME NEW list \in CategorySorts, list \in ListCategories, NEW item \in Meant, NEW separator \in Words,
         NEW S, Values(item) = S, ValuesOf(list) = Seq(S) \ {<<>>},
         \A v : ListSentences(list, v) = Separated(list, Spelt(item, v[1]), separator, v)
  PROVE  Makes("=insert", <<item, separator, list>>, list) /\ Makes("=vector", <<item>>, list)
PROOF
  <1>1. /\ list \in Meant /\ Values(list) = Seq(S) \ {<<>>}
        /\ \A v : Spelt(list, v) = Sentences(list, v)
    BY CategorySortsAre
  <1>2. /\ separator \in Meant /\ Values(separator) = {<<>>}
        /\ \A v : Spelt(separator, v) = Word(separator)
    BY WordsAre
  <1>3. list # "Statement"
    BY DEF ListCategories
  <1>4. ASSUME SyntaxIsClosed, NEW v \in Seq(S) \ {<<>>}
        PROVE  Separated(list, Spelt(item, v[1]), separator, v) \subseteq Spelt(list, v)
    <2>1. v \in ValuesOf(list) /\ list \in PartCategories \cup ListCategories
      OBVIOUS
    <2>2. ListSentences(list, v) \subseteq Sentences(list, v)
      BY <1>4, <2>1, MadeCategory
    <2> QED  BY <1>1, <2>2
  <1>5. ASSUME AllTrees, NEW v1 \in Values(item), NEW v2 \in Values(separator), NEW v3 \in Values(list)
        PROVE  Yields(list, Built("=insert", <<v1, v2, v3>>),
                      Spelt(item, v1) ** Spelt(separator, v2) ** Spelt(list, v3),
                      "=insert" = "=IfThen" \/ Open(list, v3))
    <2> DEFINE r == <<v1>> \o v3
    <2>1. Built("=insert", <<v1, v2, v3>>) = r
      BY DEF Built, BuiltList, Enumerators, AddOp, MultOp, RelOp
    <2>2. v1 \in S /\ v3 \in Seq(S) \ {<<>>}
      BY <1>1
    <2>3. r \in Seq(S) \ {<<>>} /\ Len(r) # 1 /\ r[1] = v1 /\ Tail(r) = v3
      BY <2>2, ListInserted
    <2> HIDE DEF r
    <2>4. Separated(list, Spelt(item, r[1]), separator, r)
          = Spelt(item, v1) ** Word(separator) ** Sentences(list, v3)
      BY <2>3 DEF Separated
    <2>5. SyntaxIsClosed =>
            Spelt(item, v1) ** Spelt(separator, v2) ** Spelt(list, v3) \subseteq Spelt(list, r)
      BY <1>1, <1>2, <1>4, <2>3, <2>4
    <2> QED  BY <1>1, <1>3, <2>1, <2>3, <2>5 DEF Yields
  <1>6. ASSUME AllTrees, NEW v1 \in Values(item)
        PROVE  Yields(list, Built("=vector", <<v1>>), Spelt(item, v1),
                      "=vector" = "=IfThen" \/ Open(item, v1))
    <2> DEFINE r == <<v1>>
    <2>1. Built("=vector", <<v1>>) = r
      BY DEF Built, BuiltList, Enumerators, AddOp, MultOp, RelOp
    <2>2. r \in Seq(S) \ {<<>>} /\ Len(r) = 1 /\ r[1] = v1
      BY ListOfOne
    <2> HIDE DEF r
    <2>3. Separated(list, Spelt(item, r[1]), separator, r) = Spelt(item, v1)
      BY <2>2 DEF Separated
    <2>4. SyntaxIsClosed => Spelt(item, v1) \subseteq Spelt(list, r)
      BY <1>4, <2>2, <2>3
    <2> QED  BY <1>1, <1>3, <2>1, <2>2, <2>4 DEF Yields
  <1>7. Makes("=insert", <<item, separator, list>>, list)
    BY <1>1, <1>2, <1>5, Makes3
  <1>8. Makes("=vector", <<item>>, list)
    BY <1>1, <1>6, Makes1
  <1> QED  BY <1>7, <1>8

\* A list of nodes, each with a semicolon.
LEMMA MakesTerminated ==
  ASSUME NEW list \in CategorySorts, list \in ListCategories, NEW item \in NodeSorts,
         NEW S, Values(item) = S, ValuesOf(list) = Seq(S) \ {<<>>},
         \A v : ListSentences(list, v) = Terminated(list, v)
  PROVE  Makes("=insert", <<item, ";", list>>, list) /\ Makes("=vector;", <<item, ";">>, list)
PROOF
  <1>1. /\ list \in Meant /\ Values(list) = Seq(S) \ {<<>>}
        /\ \A v : Spelt(list, v) = Sentences(list, v)
    BY CategorySortsAre
  <1>2. /\ ";" \in Meant /\ Values(";") = {<<>>}
        /\ \A v : Spelt(";", v) = Word(";")
    BY KindsAreWords, WordsAre
  <1>3. list # "Statement"
    BY DEF ListCategories
  <1>4. ASSUME SyntaxIsClosed, NEW v \in Seq(S) \ {<<>>}
        PROVE  Terminated(list, v) \subseteq Spelt(list, v)
    <2>1. v \in ValuesOf(list) /\ list \in PartCategories \cup ListCategories
      OBVIOUS
    <2>2. ListSentences(list, v) \subseteq Sentences(list, v)
      BY <1>4, <2>1, MadeCategory
    <2> QED  BY <1>1, <2>2
  <1>5. item \in Meant /\ \A v : Spelt(item, v) = Tree(v)
    BY NodeSortsAre
  <1>6. ASSUME AllTrees, NEW v1 \in Values(item), NEW v2 \in Values(";"), NEW v3 \in Values(list)
        PROVE  Yields(list, Built("=insert", <<v1, v2, v3>>),
                      Spelt(item, v1) ** Spelt(";", v2) ** Spelt(list, v3),
                      "=insert" = "=IfThen" \/ Open(list, v3))
    <2> DEFINE r == <<v1>> \o v3
    <2>1. Built("=insert", <<v1, v2, v3>>) = r
      BY DEF Built, BuiltList, Enumerators, AddOp, MultOp, RelOp
    <2>2. v1 \in S /\ v3 \in Seq(S) \ {<<>>}
      BY <1>1
    <2>3. r \in Seq(S) \ {<<>>} /\ Len(r) # 1 /\ r[1] = v1 /\ Tail(r) = v3
      BY <2>2, ListInserted, ZenonT(60)
    <2> HIDE DEF r
    <2>4. Terminated(list, r) = Tree(v1) ** Word(";") ** Sentences(list, v3)
      BY <2>3 DEF Terminated
    <2>5. SyntaxIsClosed =>
            Spelt(item, v1) ** Spelt(";", v2) ** Spelt(list, v3) \subseteq Spelt(list, r)
      BY <1>1, <1>2, <1>4, <1>5, <2>3, <2>4
    <2> QED  BY <1>1, <1>3, <2>1, <2>3, <2>5 DEF Yields
  <1>7. ASSUME AllTrees, NEW v1 \in Values(item), NEW v2 \in Values(";")
        PROVE  Yields(list, Built("=vector;", <<v1, v2>>), Spelt(item, v1) ** Spelt(";", v2),
                      "=vector;" = "=IfThen" \/ Open(";", v2))
    <2> DEFINE r == <<v1>>
    <2>1. Built("=vector;", <<v1, v2>>) = r
      BY DEF Built, BuiltList, Enumerators, AddOp, MultOp, RelOp
    <2>2. r \in Seq(S) \ {<<>>} /\ Len(r) = 1 /\ r[1] = v1
      BY ListOfOne
    <2> HIDE DEF r
    <2>3. Terminated(list, r) = Tree(v1) ** Word(";")
      BY <2>2 DEF Terminated
    <2>4. SyntaxIsClosed => Spelt(item, v1) ** Spelt(";", v2) \subseteq Spelt(list, r)
      BY <1>2, <1>4, <1>5, <2>2, <2>3
    <2> QED  BY <1>1, <1>3, <2>1, <2>2, <2>4 DEF Yields
  <1>8. Makes("=insert", <<item, ";", list>>, list)
    BY <1>1, <1>2, <1>5, <1>6, Makes3
  <1>9. Makes("=vector;", <<item, ";">>, list)
    BY <1>1, <1>2, <1>5, <1>7, Makes2
  <1> QED  BY <1>8, <1>9

\* The list of subprograms.
LEMMA MakesSubprograms ==
  /\ Makes("=prepend", <<"SubprogDecl", "SubprogDeclList">>, "SubprogDeclList")
  /\ Makes("=vector", <<"SubprogDecl">>, "SubprogDeclList")
PROOF
  <1> DEFINE list == "SubprogDeclList"
             item == "SubprogDecl"
  <1>1. /\ list \in Meant /\ Values(list) = Seq(SubprogDecl) \ {<<>>}
        /\ \A v : Spelt(list, v) = Sentences(list, v)
    BY SubprogDeclListSort
  <1>2. /\ item \in Meant /\ Values(item) = SubprogDecl
        /\ \A v : Spelt(item, v) = Tree(v) ** Word(";")
    BY SubprogDeclSort
  <1>3. ASSUME SyntaxIsClosed, NEW v \in Seq(SubprogDecl) \ {<<>>}
        PROVE  Terminated(list, v) \subseteq Spelt(list, v)
    <2>1. v \in ValuesOf(list) /\ list \in PartCategories \cup ListCategories /\ list \in ListCategories
      BY DEF ValuesOf, ListCategories
    <2>2. ListSentences(list, v) \subseteq Sentences(list, v)
      BY <1>3, <2>1, MadeCategory
    <2>3. ListSentences(list, v) = Terminated(list, v)
      BY DEF ListSentences
    <2> QED  BY <1>1, <2>2, <2>3
  <1>4. list # "Statement"
    OBVIOUS
  <1> HIDE DEF list, item
  <1>5. ASSUME AllTrees, NEW v1 \in Values(item), NEW v2 \in Values(list)
        PROVE  Yields(list, Built("=prepend", <<v1, v2>>), Spelt(item, v1) ** Spelt(list, v2),
                      "=prepend" = "=IfThen" \/ Open(list, v2))
    <2> DEFINE r == <<v1>> \o v2
    <2>1. Built("=prepend", <<v1, v2>>) = r
      BY DEF Built, BuiltList, Enumerators, AddOp, MultOp, RelOp
    <2>2. v1 \in SubprogDecl /\ v2 \in Seq(SubprogDecl) \ {<<>>}
      BY <1>1, <1>2
    <2>3. r \in Seq(SubprogDecl) \ {<<>>} /\ Len(r) # 1 /\ r[1] = v1 /\ Tail(r) = v2
      BY <2>2, ListInserted
    <2> HIDE DEF r
    <2>4. Terminated(list, r) = Tree(v1) ** Word(";") ** Sentences(list, v2)
      BY <2>3 DEF Terminated
    <2>5. SyntaxIsClosed => Spelt(item, v1) ** Spelt(list, v2) \subseteq Spelt(list, r)
      BY <1>1, <1>2, <1>3, <2>3, <2>4
    <2> QED  BY <1>1, <1>4, <2>1, <2>3, <2>5 DEF Yields
  <1>6. ASSUME AllTrees, NEW v1 \in Values(item)
        PROVE  Yields(list, Built("=vector", <<v1>>), Spelt(item, v1),
                      "=vector" = "=IfThen" \/ Open(item, v1))
    <2> DEFINE r == <<v1>>
    <2>1. Built("=vector", <<v1>>) = r
      BY DEF Built, BuiltList, Enumerators, AddOp, MultOp, RelOp
    <2>2. v1 \in SubprogDecl
      BY <1>2
    <2>3. r \in Seq(SubprogDecl) \ {<<>>} /\ Len(r) = 1 /\ r[1] = v1
      BY <2>2, ListOfOne
    <2> HIDE DEF r
    <2>4. Terminated(list, r) = Tree(v1) ** Word(";")
      BY <2>3 DEF Terminated
    <2>5. SyntaxIsClosed => Spelt(item, v1) \subseteq Spelt(list, r)
      BY <1>2, <1>3, <2>3, <2>4
    <2> QED  BY <1>1, <1>4, <2>1, <2>3, <2>5 DEF Yields
  <1>7. Makes("=prepend", <<item, list>>, list)
    BY <1>1, <1>2, <1>5, Makes2
  <1>8. Makes("=vector", <<item>>, list)
    BY <1>1, <1>2, <1>6, Makes1
  <1> QED  BY <1>7, <1>8 DEF item, list

\* The parts of a designator.
LEMMA MakesDesignatorStuff ==
  /\ Makes("=prepend", <<"DesignatorItem", "DesignatorStuff">>, "DesignatorStuff")
  /\ Makes("=vector", <<"DesignatorItem">>, "DesignatorStuff")
PROOF
  <1> DEFINE list == "DesignatorStuff"
             item == "DesignatorItem"
  <1>1. /\ list \in Meant /\ Values(list) = Seq(DesignatorItem) \ {<<>>}
        /\ \A v : Spelt(list, v) = Sentences(list, v)
    BY DesignatorStuffSort
  <1>2. /\ item \in Meant /\ Values(item) = DesignatorItem
        /\ \A v : Spelt(item, v) = Tree(v)
    BY DesignatorItemSort
  <1>3. ASSUME SyntaxIsClosed, NEW v \in Seq(DesignatorItem) \ {<<>>}
        PROVE  Tree(v[1]) ** Optionally(list, Tail(v)) \subseteq Spelt(list, v)
    <2>1. v \in ValuesOf(list) /\ list \in PartCategories \cup ListCategories /\ list \in ListCategories
      BY DEF ValuesOf, ListCategories
    <2>2. ListSentences(list, v) \subseteq Sentences(list, v)
      BY <1>3, <2>1, MadeCategory
    <2>3. ListSentences(list, v) = Tree(v[1]) ** Optionally(list, Tail(v))
      BY DEF ListSentences
    <2> QED  BY <1>1, <2>2, <2>3
  <1>4. list # "Statement"
    OBVIOUS
  <1> HIDE DEF list, item
  <1>5. ASSUME AllTrees, NEW v1 \in Values(item), NEW v2 \in Values(list)
        PROVE  Yields(list, Built("=prepend", <<v1, v2>>), Spelt(item, v1) ** Spelt(list, v2),
                      "=prepend" = "=IfThen" \/ Open(list, v2))
    <2> DEFINE r == <<v1>> \o v2
    <2>1. Built("=prepend", <<v1, v2>>) = r
      BY DEF Built, BuiltList, Enumerators, AddOp, MultOp, RelOp
    <2>2. v1 \in DesignatorItem /\ v2 \in Seq(DesignatorItem) \ {<<>>}
      BY <1>1, <1>2
    <2>3. r \in Seq(DesignatorItem) \ {<<>>} /\ r[1] = v1 /\ Tail(r) = v2
      BY <2>2, ListInserted
    <2> HIDE DEF r
    <2>4. Optionally(list, Tail(r)) = Sentences(list, v2)
      BY <2>2, <2>3 DEF Optionally
    <2>5. SyntaxIsClosed => Spelt(item, v1) ** Spelt(list, v2) \subseteq Spelt(list, r)
      BY <1>1, <1>2, <1>3, <2>3, <2>4
    <2> QED  BY <1>1, <1>4, <2>1, <2>3, <2>5 DEF Yields
  <1>6. ASSUME AllTrees, NEW v1 \in Values(item)
        PROVE  Yields(list, Built("=vector", <<v1>>), Spelt(item, v1),
                      "=vector" = "=IfThen" \/ Open(item, v1))
    <2> DEFINE r == <<v1>>
    <2>1. Built("=vector", <<v1>>) = r
      BY DEF Built, BuiltList, Enumerators, AddOp, MultOp, RelOp
    <2>2. v1 \in DesignatorItem
      BY <1>2
    <2>3. r \in Seq(DesignatorItem) \ {<<>>} /\ r[1] = v1 /\ Tail(r) = <<>>
      BY <2>2, ListOfOne
    <2> HIDE DEF r
    <2>4. Optionally(list, Tail(r)) = {<<>>}
      BY <2>3 DEF Optionally
    <2>5. SyntaxIsClosed => Tree(v1) ** {<<>>} = Tree(v1)
      BY <2>2, TreesAreSequences, JoinsNothing DEF DesignatorItem, Of
    <2>6. SyntaxIsClosed => Spelt(item, v1) \subseteq Spelt(list, r)
      BY <1>2, <1>3, <2>3, <2>4, <2>5
    <2> QED  BY <1>1, <1>4, <2>1, <2>3, <2>6 DEF Yields
  <1>7. Makes("=prepend", <<item, list>>, list)
    BY <1>1, <1>2, <1>5, Makes2
  <1>8. Makes("=vector", <<item>>, list)
    BY <1>1, <1>2, <1>6, Makes1
  <1> QED  BY <1>7, <1>8 DEF item, list

\* The list IdentList.
LEMMA MakesIdentList ==
  Makes("=insert", <<"identifier", ",", "IdentList">>, "IdentList") /\ Makes("=vector", <<"identifier">>, "IdentList")
PROOF
  <1> DEFINE list == "IdentList"
  <1>1. list \in CategorySorts /\ list \in ListCategories
    BY DEF CategorySorts, ListCategories
  <1>2. "," \in Words
    BY KindsAreWords
  <1>3. ValuesOf(list) = Seq(Values("identifier")) \ {<<>>}
    BY IdentifierSort DEF ValuesOf
  <1>4. ASSUME NEW v
        PROVE  ListSentences(list, v) = Separated(list, Spelt("identifier", v[1]), ",", v)
    BY IdentifierSort DEF ListSentences
  <1>5. "identifier" \in Meant
    BY IdentifierSort
  <1> QED  BY <1>1, <1>2, <1>3, <1>4, <1>5, MakesSeparated

\* The list OneFormalParamList.
LEMMA MakesOneFormalParamList ==
  Makes("=insert", <<"OneFormalParam", ";", "OneFormalParamList">>, "OneFormalParamList") /\ Makes("=vector", <<"OneFormalParam">>, "OneFormalParamList")
PROOF
  <1> DEFINE list == "OneFormalParamList"
  <1>1. list \in CategorySorts /\ list \in ListCategories
    BY DEF CategorySorts, ListCategories
  <1>2. ";" \in Words
    BY KindsAreWords
  <1>3. ValuesOf(list) = Seq(Values("OneFormalParam")) \ {<<>>}
    BY OneFormalParamSort DEF ValuesOf
  <1>4. ASSUME NEW v
        PROVE  ListSentences(list, v) = Separated(list, Spelt("OneFormalParam", v[1]), ";", v)
    BY OneFormalParamSort DEF ListSentences
  <1>5. "OneFormalParam" \in Meant
    BY OneFormalParamSort
  <1> QED  BY <1>1, <1>2, <1>3, <1>4, <1>5, MakesSeparated

\* The list SubrangeList.
LEMMA MakesSubrangeList ==
  Makes("=insert", <<"Subrange", ",", "SubrangeList">>, "SubrangeList") /\ Makes("=vector", <<"Subrange">>, "SubrangeList")
PROOF
  <1> DEFINE list == "SubrangeList"
  <1>1. list \in CategorySorts /\ list \in ListCategories
    BY DEF CategorySorts, ListCategories
  <1>2. "," \in Words
    BY KindsAreWords
  <1>3. ValuesOf(list) = Seq(Values("Subrange")) \ {<<>>}
    BY SubrangeSort DEF ValuesOf
  <1>4. ASSUME NEW v
        PROVE  ListSentences(list, v) = Separated(list, Spelt("Subrange", v[1]), ",", v)
    BY SubrangeSort DEF ListSentences
  <1>5. "Subrange" \in Meant
    BY SubrangeSort
  <1> QED  BY <1>1, <1>2, <1>3, <1>4, <1>5, MakesSeparated

\* The list FieldListSequence.
LEMMA MakesFieldListSequence ==
  Makes("=insert", <<"FieldList", ";", "FieldListSequence">>, "FieldListSequence") /\ Makes("=vector", <<"FieldList">>, "FieldListSequence")
PROOF
  <1> DEFINE list == "FieldListSequence"
  <1>1. list \in CategorySorts /\ list \in ListCategories
    BY DEF CategorySorts, ListCategories
  <1>2. ";" \in Words
    BY KindsAreWords
  <1>3. ValuesOf(list) = Seq(Values("FieldList")) \ {<<>>}
    BY FieldListSort DEF ValuesOf
  <1>4. ASSUME NEW v
        PROVE  ListSentences(list, v) = Separated(list, Spelt("FieldList", v[1]), ";", v)
    BY FieldListSort DEF ListSentences
  <1>5. "FieldList" \in Meant
    BY FieldListSort
  <1> QED  BY <1>1, <1>2, <1>3, <1>4, <1>5, MakesSeparated

\* The list StatementList.
LEMMA MakesStatementList ==
  Makes("=insert", <<"Statement", ";", "StatementList">>, "StatementList") /\ Makes("=vector", <<"Statement">>, "StatementList")
PROOF
  <1> DEFINE list == "StatementList"
  <1>1. list \in CategorySorts /\ list \in ListCategories
    BY DEF CategorySorts, ListCategories
  <1>2. ";" \in Words
    BY KindsAreWords
  <1>3. ValuesOf(list) = Seq(Values("Statement")) \ {<<>>}
    BY StatementSort DEF ValuesOf
  <1>4. ASSUME NEW v
        PROVE  ListSentences(list, v) = Separated(list, Spelt("Statement", v[1]), ";", v)
    BY StatementSort DEF ListSentences
  <1>5. "Statement" \in Meant
    BY StatementSort
  <1> QED  BY <1>1, <1>2, <1>3, <1>4, <1>5, MakesSeparated

\* The list CaseList.
LEMMA MakesCaseList ==
  Makes("=insert", <<"Case", ";", "CaseList">>, "CaseList") /\ Makes("=vector", <<"Case">>, "CaseList")
PROOF
  <1> DEFINE list == "CaseList"
  <1>1. list \in CategorySorts /\ list \in ListCategories
    BY DEF CategorySorts, ListCategories
  <1>2. ";" \in Words
    BY KindsAreWords
  <1>3. ValuesOf(list) = Seq(Values("Case")) \ {<<>>}
    BY CaseSort DEF ValuesOf
  <1>4. ASSUME NEW v
        PROVE  ListSentences(list, v) = Separated(list, Spelt("Case", v[1]), ";", v)
    BY CaseSort DEF ListSentences
  <1>5. "Case" \in Meant
    BY CaseSort
  <1> QED  BY <1>1, <1>2, <1>3, <1>4, <1>5, MakesSeparated

\* The list CaseLabelList.
LEMMA MakesCaseLabelList ==
  Makes("=insert", <<"ConstExpression", ",", "CaseLabelList">>, "CaseLabelList") /\ Makes("=vector", <<"ConstExpression">>, "CaseLabelList")
PROOF
  <1> DEFINE list == "CaseLabelList"
  <1>1. list \in CategorySorts /\ list \in ListCategories
    BY DEF CategorySorts, ListCategories
  <1>2. "," \in Words
    BY KindsAreWords
  <1>3. ValuesOf(list) = Seq(Values("ConstExpression")) \ {<<>>}
    BY ConstExpressionSort DEF ValuesOf
  <1>4. ASSUME NEW v
        PROVE  ListSentences(list, v) = Separated(list, Spelt("ConstExpression", v[1]), ",", v)
    BY ConstExpressionSort DEF ListSentences
  <1>5. "ConstExpression" \in Meant
    BY ConstExpressionSort
  <1> QED  BY <1>1, <1>2, <1>3, <1>4, <1>5, MakesSeparated

\* The list ExpList.
LEMMA MakesExpList ==
  Makes("=insert", <<"Expression", ",", "ExpList">>, "ExpList") /\ Makes("=vector", <<"Expression">>, "ExpList")
PROOF
  <1> DEFINE list == "ExpList"
  <1>1. list \in CategorySorts /\ list \in ListCategories
    BY DEF CategorySorts, ListCategories
  <1>2. "," \in Words
    BY KindsAreWords
  <1>3. ValuesOf(list) = Seq(Values("Expression")) \ {<<>>}
    BY ExpressionSort DEF ValuesOf
  <1>4. ASSUME NEW v
        PROVE  ListSentences(list, v) = Separated(list, Spelt("Expression", v[1]), ",", v)
    BY ExpressionSort DEF ListSentences
  <1>5. "Expression" \in Meant
    BY ExpressionSort
  <1> QED  BY <1>1, <1>2, <1>3, <1>4, <1>5, MakesSeparated

\* The list ConstantDefList.
LEMMA MakesConstantDefList ==
  Makes("=insert", <<"ConstantDef", ";", "ConstantDefList">>, "ConstantDefList") /\ Makes("=vector;", <<"ConstantDef", ";">>, "ConstantDefList")
PROOF
  <1> DEFINE list == "ConstantDefList"
  <1>1. list \in CategorySorts /\ list \in ListCategories
    BY DEF CategorySorts, ListCategories
  <1>2. "ConstantDef" \in NodeSorts
    BY DEF NodeSorts
  <1>3. ValuesOf(list) = Seq(Values("ConstantDef")) \ {<<>>}
    BY ConstantDefSort DEF ValuesOf
  <1>4. ASSUME NEW v
        PROVE  ListSentences(list, v) = Terminated(list, v)
    BY DEF ListSentences
  <1> QED  BY <1>1, <1>2, <1>3, <1>4, MakesTerminated

\* The list TypeDefList.
LEMMA MakesTypeDefList ==
  Makes("=insert", <<"TypeDef", ";", "TypeDefList">>, "TypeDefList") /\ Makes("=vector;", <<"TypeDef", ";">>, "TypeDefList")
PROOF
  <1> DEFINE list == "TypeDefList"
  <1>1. list \in CategorySorts /\ list \in ListCategories
    BY DEF CategorySorts, ListCategories
  <1>2. "TypeDef" \in NodeSorts
    BY DEF NodeSorts
  <1>3. ValuesOf(list) = Seq(Values("TypeDef")) \ {<<>>}
    BY TypeDefSort DEF ValuesOf
  <1>4. ASSUME NEW v
        PROVE  ListSentences(list, v) = Terminated(list, v)
    BY DEF ListSentences
  <1> QED  BY <1>1, <1>2, <1>3, <1>4, MakesTerminated

\* The list VariableDeclList.
LEMMA MakesVariableDeclList ==
  Makes("=insert", <<"VariableDecl", ";", "VariableDeclList">>, "VariableDeclList") /\ Makes("=vector;", <<"VariableDecl", ";">>, "VariableDeclList")
PROOF
  <1> DEFINE list == "VariableDeclList"
  <1>1. list \in CategorySorts /\ list \in ListCategories
    BY DEF CategorySorts, ListCategories
  <1>2. "VariableDecl" \in NodeSorts
    BY DEF NodeSorts
  <1>3. ValuesOf(list) = Seq(Values("VariableDecl")) \ {<<>>}
    BY VariableDeclSort DEF ValuesOf
  <1>4. ASSUME NEW v
        PROVE  ListSentences(list, v) = Terminated(list, v)
    BY DEF ListSentences
  <1> QED  BY <1>1, <1>2, <1>3, <1>4, MakesTerminated

-----------------------------------------------------------------------------
(* The actions that pass something on, and the parts of nodes.             *)

\* Nothing where ProgramParametersOpt may be.
LEMMA MakesNoProgramParameters ==
  Makes("=empty", <<>>, "ProgramParametersOpt")
PROOF
  <1>2. "ProgramParametersOpt" \in Meant
    BY ProgramParametersOptSort
  <1>3. ASSUME AllTrees
        PROVE  Yields("ProgramParametersOpt", Built("=empty", <<>>),
                      {<<>>},
                      "=empty" = "=IfThen")
    <2> DEFINE r == <<>>
    <2>3. Built("=empty", <<>>) = r
      BY DEF Built, BuiltList, Enumerators, AddOp, MultOp, RelOp
    <2>4. r \in Values("ProgramParametersOpt")
      BY ProgramParametersOptSort, EmptySeq
    <2>5. ASSUME SyntaxIsClosed
          PROVE  {<<>>} \subseteq Spelt("ProgramParametersOpt", r)
      BY <2>5, ProgramParametersOptSort DEF ProgramParameters
    <2> QED  BY <2>3, <2>4, <2>5 DEF Yields
  <1> QED  BY <1>2, <1>3, Makes0

\* Nothing where ConstantDefBlockOpt may be.
LEMMA MakesNoConstantDefBlock ==
  Makes("=empty", <<>>, "ConstantDefBlockOpt")
PROOF
  <1>2. "ConstantDefBlockOpt" \in Meant
    BY ConstantDefBlockOptSort
  <1>3. ASSUME AllTrees
        PROVE  Yields("ConstantDefBlockOpt", Built("=empty", <<>>),
                      {<<>>},
                      "=empty" = "=IfThen")
    <2> DEFINE r == <<>>
    <2>3. Built("=empty", <<>>) = r
      BY DEF Built, BuiltList, Enumerators, AddOp, MultOp, RelOp
    <2>4. r \in Values("ConstantDefBlockOpt")
      BY ConstantDefBlockOptSort, EmptySeq
    <2>5. ASSUME SyntaxIsClosed
          PROVE  {<<>>} \subseteq Spelt("ConstantDefBlockOpt", r)
      BY <2>5, ConstantDefBlockOptSort DEF Section
    <2> QED  BY <2>3, <2>4, <2>5 DEF Yields
  <1> QED  BY <1>2, <1>3, Makes0

\* Nothing where TypeDefBlockOpt may be.
LEMMA MakesNoTypeDefBlock ==
  Makes("=empty", <<>>, "TypeDefBlockOpt")
PROOF
  <1>2. "TypeDefBlockOpt" \in Meant
    BY TypeDefBlockOptSort
  <1>3. ASSUME AllTrees
        PROVE  Yields("TypeDefBlockOpt", Built("=empty", <<>>),
                      {<<>>},
                      "=empty" = "=IfThen")
    <2> DEFINE r == <<>>
    <2>3. Built("=empty", <<>>) = r
      BY DEF Built, BuiltList, Enumerators, AddOp, MultOp, RelOp
    <2>4. r \in Values("TypeDefBlockOpt")
      BY TypeDefBlockOptSort, EmptySeq
    <2>5. ASSUME SyntaxIsClosed
          PROVE  {<<>>} \subseteq Spelt("TypeDefBlockOpt", r)
      BY <2>5, TypeDefBlockOptSort DEF Section
    <2> QED  BY <2>3, <2>4, <2>5 DEF Yields
  <1> QED  BY <1>2, <1>3, Makes0

\* Nothing where VariableDeclBlockOpt may be.
LEMMA MakesNoVariableDeclBlock ==
  Makes("=empty", <<>>, "VariableDeclBlockOpt")
PROOF
  <1>2. "VariableDeclBlockOpt" \in Meant
    BY VariableDeclBlockOptSort
  <1>3. ASSUME AllTrees
        PROVE  Yields("VariableDeclBlockOpt", Built("=empty", <<>>),
                      {<<>>},
                      "=empty" = "=IfThen")
    <2> DEFINE r == <<>>
    <2>3. Built("=empty", <<>>) = r
      BY DEF Built, BuiltList, Enumerators, AddOp, MultOp, RelOp
    <2>4. r \in Values("VariableDeclBlockOpt")
      BY VariableDeclBlockOptSort, EmptySeq
    <2>5. ASSUME SyntaxIsClosed
          PROVE  {<<>>} \subseteq Spelt("VariableDeclBlockOpt", r)
      BY <2>5, VariableDeclBlockOptSort DEF Section
    <2> QED  BY <2>3, <2>4, <2>5 DEF Yields
  <1> QED  BY <1>2, <1>3, Makes0

\* Nothing where SubprogDeclListOpt may be.
LEMMA MakesNoSubprogDeclList ==
  Makes("=empty", <<>>, "SubprogDeclListOpt")
PROOF
  <1>2. "SubprogDeclListOpt" \in Meant
    BY SubprogDeclListOptSort
  <1>3. ASSUME AllTrees
        PROVE  Yields("SubprogDeclListOpt", Built("=empty", <<>>),
                      {<<>>},
                      "=empty" = "=IfThen")
    <2> DEFINE r == <<>>
    <2>3. Built("=empty", <<>>) = r
      BY DEF Built, BuiltList, Enumerators, AddOp, MultOp, RelOp
    <2>4. r \in Values("SubprogDeclListOpt")
      BY SubprogDeclListOptSort, EmptySeq
    <2>5. ASSUME SyntaxIsClosed
          PROVE  {<<>>} \subseteq Spelt("SubprogDeclListOpt", r)
      BY <2>5, SubprogDeclListOptSort DEF Optionally
    <2> QED  BY <2>3, <2>4, <2>5 DEF Yields
  <1> QED  BY <1>2, <1>3, Makes0

\* Nothing where FormalParametersOpt may be.
LEMMA MakesNoFormalParameters ==
  Makes("=empty", <<>>, "FormalParametersOpt")
PROOF
  <1>2. "FormalParametersOpt" \in Meant
    BY FormalParametersOptSort
  <1>3. ASSUME AllTrees
        PROVE  Yields("FormalParametersOpt", Built("=empty", <<>>),
                      {<<>>},
                      "=empty" = "=IfThen")
    <2> DEFINE r == <<>>
    <2>3. Built("=empty", <<>>) = r
      BY DEF Built, BuiltList, Enumerators, AddOp, MultOp, RelOp
    <2>4. r \in Values("FormalParametersOpt")
      BY FormalParametersOptSort, EmptySeq
    <2>5. ASSUME SyntaxIsClosed
          PROVE  {<<>>} \subseteq Spelt("FormalParametersOpt", r)
      BY <2>5, FormalParametersOptSort DEF FormalParameters
    <2> QED  BY <2>3, <2>4, <2>5 DEF Yields
  <1> QED  BY <1>2, <1>3, Makes0

\* Nothing where ActualParametersOpt may be.
LEMMA MakesNoActualParameters ==
  Makes("=empty", <<>>, "ActualParametersOpt")
PROOF
  <1>2. "ActualParametersOpt" \in Meant
    BY ActualParametersOptSort
  <1>3. ASSUME AllTrees
        PROVE  Yields("ActualParametersOpt", Built("=empty", <<>>),
                      {<<>>},
                      "=empty" = "=IfThen")
    <2> DEFINE r == <<>>
    <2>3. Built("=empty", <<>>) = r
      BY DEF Built, BuiltList, Enumerators, AddOp, MultOp, RelOp
    <2>4. r \in Values("ActualParametersOpt")
      BY ActualParametersOptSort, EmptySeq
    <2>5. ASSUME SyntaxIsClosed
          PROVE  {<<>>} \subseteq Spelt("ActualParametersOpt", r)
      BY <2>5, ActualParametersOptSort
    <2> QED  BY <2>3, <2>4, <2>5 DEF Yields
  <1> QED  BY <1>2, <1>3, Makes0

\* Nothing where DesignatorStuffOpt may be.
LEMMA MakesNoDesignatorStuff ==
  Makes("=empty", <<>>, "DesignatorStuffOpt")
PROOF
  <1>2. "DesignatorStuffOpt" \in Meant
    BY DesignatorStuffOptSort
  <1>3. ASSUME AllTrees
        PROVE  Yields("DesignatorStuffOpt", Built("=empty", <<>>),
                      {<<>>},
                      "=empty" = "=IfThen")
    <2> DEFINE r == <<>>
    <2>3. Built("=empty", <<>>) = r
      BY DEF Built, BuiltList, Enumerators, AddOp, MultOp, RelOp
    <2>4. r \in Values("DesignatorStuffOpt")
      BY DesignatorStuffOptSort, EmptySeq
    <2>5. ASSUME SyntaxIsClosed
          PROVE  {<<>>} \subseteq Spelt("DesignatorStuffOpt", r)
      BY <2>5, DesignatorStuffOptSort DEF Optionally
    <2> QED  BY <2>3, <2>4, <2>5 DEF Yields
  <1> QED  BY <1>2, <1>3, Makes0

\* Nothing where ExpListOpt may be.
LEMMA MakesNoExpList ==
  Makes("=empty", <<>>, "ExpListOpt")
PROOF
  <1>2. "ExpListOpt" \in Meant
    BY ExpListOptSort
  <1>3. ASSUME AllTrees
        PROVE  Yields("ExpListOpt", Built("=empty", <<>>),
                      {<<>>},
                      "=empty" = "=IfThen")
    <2> DEFINE r == <<>>
    <2>3. Built("=empty", <<>>) = r
      BY DEF Built, BuiltList, Enumerators, AddOp, MultOp, RelOp
    <2>4. r \in Values("ExpListOpt")
      BY ExpListOptSort, EmptySeq
    <2>5. ASSUME SyntaxIsClosed
          PROVE  {<<>>} \subseteq Spelt("ExpListOpt", r)
      BY <2>5, ExpListOptSort DEF Optionally
    <2> QED  BY <2>3, <2>4, <2>5 DEF Yields
  <1> QED  BY <1>2, <1>3, Makes0

\* The parameters of a program are dropped.
LEMMA MakesParameters ==
  Makes("=parameters", <<"(", "IdentList", ")">>, "ProgramParametersOpt")
PROOF
  <1>1. "(" \in Words /\ ")" \in Words
    BY KindsAreWords
  <1>2. "(" \in Meant /\ ")" \in Meant /\ "IdentList" \in Meant /\ "ProgramParametersOpt" \in Meant
    BY <1>1, WordsAre, IdentListSort, ProgramParametersOptSort
  <1>3. ASSUME AllTrees, NEW v1 \in Values("("), NEW v2 \in Values("IdentList"),
               NEW v3 \in Values(")")
        PROVE  Yields("ProgramParametersOpt", Built("=parameters", <<v1, v2, v3>>),
                      Spelt("(", v1) ** Spelt("IdentList", v2) ** Spelt(")", v3),
                      "=parameters" = "=IfThen" \/ Open(")", v3))
    <2> DEFINE r == <<>>
    <2>1. v2 \in Seq(Ident) \ {<<>>}
      BY IdentListSort
    <2>2. Spelt("(", v1) ** Spelt("IdentList", v2) ** Spelt(")", v3)
          = Word("(") ** Sentences("IdentList", v2) ** Word(")")
      BY <1>1, WordsAre, IdentListSort
    <2>3. Built("=parameters", <<v1, v2, v3>>) = r
      BY DEF Built, BuiltList, Enumerators, AddOp, MultOp, RelOp
    <2>4. r \in Values("ProgramParametersOpt")
      BY <2>1, ProgramParametersOptSort
    <2>5. ASSUME SyntaxIsClosed
          PROVE  Word("(") ** Sentences("IdentList", v2) ** Word(")") \subseteq Spelt("ProgramParametersOpt", r)
      BY <2>5, <2>1, ProgramParametersOptSort DEF ProgramParameters, SyntaxIsClosed
    <2> QED  BY <2>2, <2>3, <2>4, <2>5 DEF Yields
  <1> QED  BY <1>2, <1>3, Makes3

\* A section of a block.
LEMMA MakesConstantDefBlock ==
  Makes("=last", <<"const", "ConstantDefList">>, "ConstantDefBlockOpt")
PROOF
  <1>1. "const" \in Words
    BY KindsAreWords
  <1>2. "ConstantDefBlockOpt" \in Meant /\ "ConstantDefList" \in Meant /\ "const" \in Meant
    BY <1>1, ConstantDefBlockOptSort, ConstantDefListSort, WordsAre
  <1>3. ASSUME AllTrees, NEW v1 \in Values("const"), NEW v2 \in Values("ConstantDefList")
        PROVE  Yields("ConstantDefBlockOpt", Built("=last", <<v1, v2>>),
                      Spelt("const", v1) ** Spelt("ConstantDefList", v2),
                      "=last" = "=IfThen" \/ Open("ConstantDefList", v2))
    <2> DEFINE r == v2
    <2>1. v2 \in Seq(ConstDef) \ {<<>>}
      BY ConstantDefListSort
    <2>2. Spelt("const", v1) ** Spelt("ConstantDefList", v2)
          = Word("const") ** Sentences("ConstantDefList", v2)
      BY <1>1, WordsAre, ConstantDefListSort
    <2>3. Built("=last", <<v1, v2>>) = r
      BY DEF Built, Enumerators, AddOp, MultOp, RelOp
    <2>4. r \in Values("ConstantDefBlockOpt")
      BY <2>1, ConstantDefBlockOptSort
    <2>5. ASSUME SyntaxIsClosed
          PROVE  Word("const") ** Sentences("ConstantDefList", v2) \subseteq Spelt("ConstantDefBlockOpt", r)
      BY <2>5, <2>1, ConstantDefBlockOptSort DEF Section
    <2> QED  BY <2>2, <2>3, <2>4, <2>5 DEF Yields
  <1> QED  BY <1>2, <1>3, Makes2

\* A section of a block.
LEMMA MakesTypeDefBlock ==
  Makes("=last", <<"type", "TypeDefList">>, "TypeDefBlockOpt")
PROOF
  <1>1. "type" \in Words
    BY KindsAreWords
  <1>2. "TypeDefBlockOpt" \in Meant /\ "TypeDefList" \in Meant /\ "type" \in Meant
    BY <1>1, TypeDefBlockOptSort, TypeDefListSort, WordsAre
  <1>3. ASSUME AllTrees, NEW v1 \in Values("type"), NEW v2 \in Values("TypeDefList")
        PROVE  Yields("TypeDefBlockOpt", Built("=last", <<v1, v2>>),
                      Spelt("type", v1) ** Spelt("TypeDefList", v2),
                      "=last" = "=IfThen" \/ Open("TypeDefList", v2))
    <2> DEFINE r == v2
    <2>1. v2 \in Seq(TypeDef) \ {<<>>}
      BY TypeDefListSort
    <2>2. Spelt("type", v1) ** Spelt("TypeDefList", v2)
          = Word("type") ** Sentences("TypeDefList", v2)
      BY <1>1, WordsAre, TypeDefListSort
    <2>3. Built("=last", <<v1, v2>>) = r
      BY DEF Built, Enumerators, AddOp, MultOp, RelOp
    <2>4. r \in Values("TypeDefBlockOpt")
      BY <2>1, TypeDefBlockOptSort
    <2>5. ASSUME SyntaxIsClosed
          PROVE  Word("type") ** Sentences("TypeDefList", v2) \subseteq Spelt("TypeDefBlockOpt", r)
      BY <2>5, <2>1, TypeDefBlockOptSort DEF Section
    <2> QED  BY <2>2, <2>3, <2>4, <2>5 DEF Yields
  <1> QED  BY <1>2, <1>3, Makes2

\* A section of a block.
LEMMA MakesVariableDeclBlock ==
  Makes("=last", <<"var", "VariableDeclList">>, "VariableDeclBlockOpt")
PROOF
  <1>1. "var" \in Words
    BY KindsAreWords
  <1>2. "VariableDeclBlockOpt" \in Meant /\ "VariableDeclList" \in Meant /\ "var" \in Meant
    BY <1>1, VariableDeclBlockOptSort, VariableDeclListSort, WordsAre
  <1>3. ASSUME AllTrees, NEW v1 \in Values("var"), NEW v2 \in Values("VariableDeclList")
        PROVE  Yields("VariableDeclBlockOpt", Built("=last", <<v1, v2>>),
                      Spelt("var", v1) ** Spelt("VariableDeclList", v2),
                      "=last" = "=IfThen" \/ Open("VariableDeclList", v2))
    <2> DEFINE r == v2
    <2>1. v2 \in Seq(VarDecl) \ {<<>>}
      BY VariableDeclListSort
    <2>2. Spelt("var", v1) ** Spelt("VariableDeclList", v2)
          = Word("var") ** Sentences("VariableDeclList", v2)
      BY <1>1, WordsAre, VariableDeclListSort
    <2>3. Built("=last", <<v1, v2>>) = r
      BY DEF Built, Enumerators, AddOp, MultOp, RelOp
    <2>4. r \in Values("VariableDeclBlockOpt")
      BY <2>1, VariableDeclBlockOptSort
    <2>5. ASSUME SyntaxIsClosed
          PROVE  Word("var") ** Sentences("VariableDeclList", v2) \subseteq Spelt("VariableDeclBlockOpt", r)
      BY <2>5, <2>1, VariableDeclBlockOptSort DEF Section
    <2> QED  BY <2>2, <2>3, <2>4, <2>5 DEF Yields
  <1> QED  BY <1>2, <1>3, Makes2

\* Formal parameters.
LEMMA MakesFormalParameters ==
  Makes("=inner", <<"(", "OneFormalParamList", ")">>, "FormalParametersOpt")
PROOF
  <1>1. "(" \in Words /\ ")" \in Words
    BY KindsAreWords
  <1>2. "(" \in Meant /\ ")" \in Meant /\ "FormalParametersOpt" \in Meant /\
        "OneFormalParamList" \in Meant
    BY <1>1, WordsAre, FormalParametersOptSort, OneFormalParamListSort
  <1>3. ASSUME AllTrees, NEW v1 \in Values("("), NEW v2 \in Values("OneFormalParamList"),
               NEW v3 \in Values(")")
        PROVE  Yields("FormalParametersOpt", Built("=inner", <<v1, v2, v3>>),
                      Spelt("(", v1) ** Spelt("OneFormalParamList", v2) ** Spelt(")", v3),
                      "=inner" = "=IfThen" \/ Open(")", v3))
    <2> DEFINE r == v2
    <2>1. v2 \in Seq(FormalParam) \ {<<>>}
      BY OneFormalParamListSort
    <2>2. Spelt("(", v1) ** Spelt("OneFormalParamList", v2) ** Spelt(")", v3)
          = Word("(") ** Sentences("OneFormalParamList", v2) ** Word(")")
      BY <1>1, WordsAre, OneFormalParamListSort
    <2>3. Built("=inner", <<v1, v2, v3>>) = r
      BY DEF Built, Enumerators, AddOp, MultOp, RelOp
    <2>4. r \in Values("FormalParametersOpt")
      BY <2>1, FormalParametersOptSort
    <2>5. ASSUME SyntaxIsClosed
          PROVE  Word("(") ** Sentences("OneFormalParamList", v2) ** Word(")") \subseteq Spelt("FormalParametersOpt", r)
      BY <2>5, <2>1, FormalParametersOptSort DEF FormalParameters
    <2> QED  BY <2>2, <2>3, <2>4, <2>5 DEF Yields
  <1> QED  BY <1>2, <1>3, Makes3

\* Actual parameters.
LEMMA MakesActualParameters ==
  Makes("=inner", <<"(", "ExpListOpt", ")">>, "ActualParameters")
PROOF
  <1>1. "(" \in Words /\ ")" \in Words
    BY KindsAreWords
  <1>2. "(" \in Meant /\ ")" \in Meant /\ "ActualParameters" \in Meant /\ "ExpListOpt" \in Meant
    BY <1>1, WordsAre, ActualParametersSort, ExpListOptSort
  <1>3. ASSUME AllTrees, NEW v1 \in Values("("), NEW v2 \in Values("ExpListOpt"),
               NEW v3 \in Values(")")
        PROVE  Yields("ActualParameters", Built("=inner", <<v1, v2, v3>>),
                      Spelt("(", v1) ** Spelt("ExpListOpt", v2) ** Spelt(")", v3),
                      "=inner" = "=IfThen" \/ Open(")", v3))
    <2> DEFINE r == v2
    <2>1. v2 \in Seq(Expr)
      BY ExpListOptSort
    <2>2. Spelt("(", v1) ** Spelt("ExpListOpt", v2) ** Spelt(")", v3)
          = Word("(") ** Optionally("ExpList", v2) ** Word(")")
      BY <1>1, WordsAre, ExpListOptSort
    <2>3. Built("=inner", <<v1, v2, v3>>) = r
      BY DEF Built, Enumerators, AddOp, MultOp, RelOp
    <2>4. r \in Values("ActualParameters")
      BY <2>1, ActualParametersSort
    <2>5. ASSUME SyntaxIsClosed
          PROVE  Word("(") ** Optionally("ExpList", v2) ** Word(")") \subseteq Spelt("ActualParameters", r)
      BY <2>5, <2>1, ActualParametersSort DEF ActualParameters
    <2> QED  BY <2>2, <2>3, <2>4, <2>5 DEF Yields
  <1> QED  BY <1>2, <1>3, Makes3

\* Something where SubprogDeclListOpt may be.
LEMMA MakesSubprogDeclListOpt ==
  Makes("=first", <<"SubprogDeclList">>, "SubprogDeclListOpt")
PROOF
  <1>2. "SubprogDeclList" \in Meant /\ "SubprogDeclListOpt" \in Meant
    BY SubprogDeclListSort, SubprogDeclListOptSort
  <1>3. ASSUME AllTrees, NEW v1 \in Values("SubprogDeclList")
        PROVE  Yields("SubprogDeclListOpt", Built("=first", <<v1>>),
                      Spelt("SubprogDeclList", v1),
                      "=first" = "=IfThen" \/ Open("SubprogDeclList", v1))
    <2> DEFINE r == v1
    <2>1. v1 \in Seq(SubprogDecl) \ {<<>>}
      BY SubprogDeclListSort
    <2>2. Spelt("SubprogDeclList", v1)
          = Sentences("SubprogDeclList", v1)
      BY SubprogDeclListSort
    <2>3. Built("=first", <<v1>>) = r
      BY DEF Built, Enumerators, AddOp, MultOp, RelOp
    <2>4. r \in Values("SubprogDeclListOpt")
      BY <2>1, SubprogDeclListOptSort
    <2>5. ASSUME SyntaxIsClosed
          PROVE  Sentences("SubprogDeclList", v1) \subseteq Spelt("SubprogDeclListOpt", r)
      BY <2>5, <2>1, SubprogDeclListOptSort DEF Optionally
    <2> QED  BY <2>2, <2>3, <2>4, <2>5 DEF Yields
  <1> QED  BY <1>2, <1>3, Makes1

\* Something where DesignatorStuffOpt may be.
LEMMA MakesDesignatorStuffOpt ==
  Makes("=first", <<"DesignatorStuff">>, "DesignatorStuffOpt")
PROOF
  <1>2. "DesignatorStuff" \in Meant /\ "DesignatorStuffOpt" \in Meant
    BY DesignatorStuffSort, DesignatorStuffOptSort
  <1>3. ASSUME AllTrees, NEW v1 \in Values("DesignatorStuff")
        PROVE  Yields("DesignatorStuffOpt", Built("=first", <<v1>>),
                      Spelt("DesignatorStuff", v1),
                      "=first" = "=IfThen" \/ Open("DesignatorStuff", v1))
    <2> DEFINE r == v1
    <2>1. v1 \in Seq(DesignatorItem) \ {<<>>}
      BY DesignatorStuffSort
    <2>2. Spelt("DesignatorStuff", v1)
          = Sentences("DesignatorStuff", v1)
      BY DesignatorStuffSort
    <2>3. Built("=first", <<v1>>) = r
      BY DEF Built, Enumerators, AddOp, MultOp, RelOp
    <2>4. r \in Values("DesignatorStuffOpt")
      BY <2>1, DesignatorStuffOptSort
    <2>5. ASSUME SyntaxIsClosed
          PROVE  Sentences("DesignatorStuff", v1) \subseteq Spelt("DesignatorStuffOpt", r)
      BY <2>5, <2>1, DesignatorStuffOptSort DEF Optionally
    <2> QED  BY <2>2, <2>3, <2>4, <2>5 DEF Yields
  <1> QED  BY <1>2, <1>3, Makes1

\* Something where ExpListOpt may be.
LEMMA MakesExpListOpt ==
  Makes("=first", <<"ExpList">>, "ExpListOpt")
PROOF
  <1>2. "ExpList" \in Meant /\ "ExpListOpt" \in Meant
    BY ExpListSort, ExpListOptSort
  <1>3. ASSUME AllTrees, NEW v1 \in Values("ExpList")
        PROVE  Yields("ExpListOpt", Built("=first", <<v1>>),
                      Spelt("ExpList", v1),
                      "=first" = "=IfThen" \/ Open("ExpList", v1))
    <2> DEFINE r == v1
    <2>1. v1 \in Seq(Expr) \ {<<>>}
      BY ExpListSort
    <2>2. Spelt("ExpList", v1)
          = Sentences("ExpList", v1)
      BY ExpListSort
    <2>3. Built("=first", <<v1>>) = r
      BY DEF Built, Enumerators, AddOp, MultOp, RelOp
    <2>4. r \in Values("ExpListOpt")
      BY <2>1, ExpListOptSort
    <2>5. ASSUME SyntaxIsClosed
          PROVE  Sentences("ExpList", v1) \subseteq Spelt("ExpListOpt", r)
      BY <2>5, <2>1, ExpListOptSort DEF Optionally
    <2> QED  BY <2>2, <2>3, <2>4, <2>5 DEF Yields
  <1> QED  BY <1>2, <1>3, Makes1

\* Something where ActualParametersOpt may be.
LEMMA MakesActualParametersOpt ==
  Makes("=first", <<"ActualParameters">>, "ActualParametersOpt")
PROOF
  <1>2. "ActualParameters" \in Meant /\ "ActualParametersOpt" \in Meant
    BY ActualParametersSort, ActualParametersOptSort
  <1>3. ASSUME AllTrees, NEW v1 \in Values("ActualParameters")
        PROVE  Yields("ActualParametersOpt", Built("=first", <<v1>>),
                      Spelt("ActualParameters", v1),
                      "=first" = "=IfThen" \/ Open("ActualParameters", v1))
    <2> DEFINE r == v1
    <2>1. v1 \in Seq(Expr)
      BY ActualParametersSort
    <2>2. Spelt("ActualParameters", v1)
          = ActualParameters(v1)
      BY ActualParametersSort
    <2>3. Built("=first", <<v1>>) = r
      BY DEF Built, Enumerators, AddOp, MultOp, RelOp
    <2>4. r \in Values("ActualParametersOpt")
      BY <2>1, ActualParametersOptSort
    <2>5. ASSUME SyntaxIsClosed
          PROVE  ActualParameters(v1) \subseteq Spelt("ActualParametersOpt", r)
      BY <2>5, <2>1, ActualParametersOptSort
    <2> QED  BY <2>2, <2>3, <2>4, <2>5 DEF Yields
  <1> QED  BY <1>2, <1>3, Makes1

\* A designator is a factor.
LEMMA MakesDesignatorFactor ==
  Makes("=first", <<"Designator">>, "Factor")
PROOF
  <1>2. "Designator" \in Meant /\ "Factor" \in Meant
    BY DesignatorSort, FactorSort
  <1>3. ASSUME AllTrees, NEW v1 \in Values("Designator")
        PROVE  Yields("Factor", Built("=first", <<v1>>),
                      Spelt("Designator", v1),
                      "=first" = "=IfThen" \/ Open("Designator", v1))
    <2> DEFINE r == v1
    <2>1. v1 \in Designator
      BY DesignatorSort
    <2>2. Spelt("Designator", v1)
          = Tree(v1)
      BY DesignatorSort
    <2>3. Built("=first", <<v1>>) = r
      BY DEF Built, Enumerators, AddOp, MultOp, RelOp
    <2>4. r \in Values("Factor")
      BY <2>1, FactorSort DEF Designator, Factor, Of, FactorKinds
    <2>5. ASSUME SyntaxIsClosed
          PROVE  Tree(v1) \subseteq Spelt("Factor", r)
      BY <2>5, <2>1, FactorSort
    <2> QED  BY <2>2, <2>3, <2>4, <2>5 DEF Yields
  <1> QED  BY <1>2, <1>3, Makes1

\* A sequence is a statement.
LEMMA MakesSequenceStatement ==
  Makes("=first", <<"StatementSequence">>, "Statement")
PROOF
  <1>2. "Statement" \in Meant /\ "StatementSequence" \in Meant
    BY StatementSort, StatementSequenceSort
  <1>3. ASSUME AllTrees, NEW v1 \in Values("StatementSequence")
        PROVE  Yields("Statement", Built("=first", <<v1>>),
                      Spelt("StatementSequence", v1),
                      "=first" = "=IfThen" \/ Open("StatementSequence", v1))
    <2> DEFINE r == v1
    <2>1. v1 \in StmtSeq
      BY StatementSequenceSort
    <2>2. Spelt("StatementSequence", v1)
          = Tree(v1)
      BY StatementSequenceSort
    <2>3. Built("=first", <<v1>>) = r
      BY DEF Built, Enumerators, AddOp, MultOp, RelOp
    <2>4. r \in Values("Statement")
      BY <2>1, StatementSort DEF StmtSeq, Stmt, Of, StmtKinds
    <2>5. ASSUME SyntaxIsClosed
          PROVE  Tree(v1) \subseteq Spelt("Statement", r)
      BY <2>5, <2>1, StatementSort
    <2>6. SyntaxIsClosed /\ EndsOpen(r) => "=first" = "=IfThen" \/ Open("StatementSequence", v1)
      BY <2>1, OpenIs DEF EndsOpenOf, StmtSeq, Stmt, Of, StmtKinds
    <2> QED  BY <2>2, <2>3, <2>4, <2>5, <2>6 DEF Yields
  <1> QED  BY <1>2, <1>3, Makes1

\* A procedure.
LEMMA MakesProcedure ==
  Makes("=SubprogDecl", <<"ProcedureDecl", ";">>, "SubprogDecl")
PROOF
  <1>1. ";" \in Words
    BY KindsAreWords
  <1>2. ";" \in Meant /\ "ProcedureDecl" \in Meant /\ "SubprogDecl" \in Meant
    BY <1>1, WordsAre, ProcedureDeclSort, SubprogDeclSort
  <1>3. ASSUME AllTrees, NEW v1 \in Values("ProcedureDecl"), NEW v2 \in Values(";")
        PROVE  Yields("SubprogDecl", Built("=SubprogDecl", <<v1, v2>>),
                      Spelt("ProcedureDecl", v1) ** Spelt(";", v2),
                      "=SubprogDecl" = "=IfThen" \/ Open(";", v2))
    <2> DEFINE r == v1
    <2>1. v1 \in ProcDecl
      BY ProcedureDeclSort
    <2>2. Spelt("ProcedureDecl", v1) ** Spelt(";", v2)
          = Tree(v1) ** Word(";")
      BY <1>1, ProcedureDeclSort, WordsAre
    <2>3. Built("=SubprogDecl", <<v1, v2>>) = r
      BY DEF Built, Enumerators, AddOp, MultOp, RelOp
    <2>4. r \in Values("SubprogDecl")
      BY <2>1, SubprogDeclSort DEF ProcDecl, SubprogDecl, Of
    <2>5. ASSUME SyntaxIsClosed
          PROVE  Tree(v1) ** Word(";") \subseteq Spelt("SubprogDecl", r)
      BY <2>5, <2>1, SubprogDeclSort
    <2> QED  BY <2>2, <2>3, <2>4, <2>5 DEF Yields
  <1> QED  BY <1>2, <1>3, Makes2

\* A function.
LEMMA MakesFunction ==
  Makes("=SubprogDecl", <<"FunctionDecl", ";">>, "SubprogDecl")
PROOF
  <1>1. ";" \in Words
    BY KindsAreWords
  <1>2. ";" \in Meant /\ "FunctionDecl" \in Meant /\ "SubprogDecl" \in Meant
    BY <1>1, WordsAre, FunctionDeclSort, SubprogDeclSort
  <1>3. ASSUME AllTrees, NEW v1 \in Values("FunctionDecl"), NEW v2 \in Values(";")
        PROVE  Yields("SubprogDecl", Built("=SubprogDecl", <<v1, v2>>),
                      Spelt("FunctionDecl", v1) ** Spelt(";", v2),
                      "=SubprogDecl" = "=IfThen" \/ Open(";", v2))
    <2> DEFINE r == v1
    <2>1. v1 \in Of({"FuncDecl"})
      BY FunctionDeclSort
    <2>2. Spelt("FunctionDecl", v1) ** Spelt(";", v2)
          = Tree(v1) ** Word(";")
      BY <1>1, FunctionDeclSort, WordsAre
    <2>3. Built("=SubprogDecl", <<v1, v2>>) = r
      BY DEF Built, Enumerators, AddOp, MultOp, RelOp
    <2>4. r \in Values("SubprogDecl")
      BY <2>1, SubprogDeclSort DEF SubprogDecl, Of
    <2>5. ASSUME SyntaxIsClosed
          PROVE  Tree(v1) ** Word(";") \subseteq Spelt("SubprogDecl", r)
      BY <2>5, <2>1, SubprogDeclSort
    <2> QED  BY <2>2, <2>3, <2>4, <2>5 DEF Yields
  <1> QED  BY <1>2, <1>3, Makes2

\* The enumerator Plus.
LEMMA MakesPlus ==
  Makes("Plus", <<"+">>, "SignOpt")
PROOF
  <1>1. "+" \in Words
    BY KindsAreWords
  <1>2. "+" \in Meant /\ "SignOpt" \in Meant
    BY <1>1, WordsAre, SignOptSort
  <1>3. ASSUME AllTrees, NEW v1 \in Values("+")
        PROVE  Yields("SignOpt", Built("Plus", <<v1>>),
                      Spelt("+", v1),
                      "Plus" = "=IfThen" \/ Open("+", v1))
    <2> DEFINE r == "Plus"
    <2>2. Spelt("+", v1)
          = Word("+")
      BY <1>1, WordsAre
    <2>3. Built("Plus", <<v1>>) = r
      BY DEF Built, Enumerators, AddOp, MultOp, RelOp
    <2>4. r \in Values("SignOpt")
      BY SignOptSort DEF AddOp, MultOp, RelOp, Sign, UnaryOp
    <2>5. ASSUME SyntaxIsClosed
          PROVE  Word("+") \subseteq Spelt("SignOpt", r)
      BY <2>5, SignOptSort DEF SignOf, Spelling
    <2> QED  BY <2>2, <2>3, <2>4, <2>5 DEF Yields
  <1> QED  BY <1>2, <1>3, Makes1

\* The enumerator Minus.
LEMMA MakesMinus ==
  Makes("Minus", <<"-">>, "SignOpt")
PROOF
  <1>1. "-" \in Words
    BY KindsAreWords
  <1>2. "-" \in Meant /\ "SignOpt" \in Meant
    BY <1>1, WordsAre, SignOptSort
  <1>3. ASSUME AllTrees, NEW v1 \in Values("-")
        PROVE  Yields("SignOpt", Built("Minus", <<v1>>),
                      Spelt("-", v1),
                      "Minus" = "=IfThen" \/ Open("-", v1))
    <2> DEFINE r == "Minus"
    <2>2. Spelt("-", v1)
          = Word("-")
      BY <1>1, WordsAre
    <2>3. Built("Minus", <<v1>>) = r
      BY DEF Built, Enumerators, AddOp, MultOp, RelOp
    <2>4. r \in Values("SignOpt")
      BY SignOptSort DEF AddOp, MultOp, RelOp, Sign, UnaryOp
    <2>5. ASSUME SyntaxIsClosed
          PROVE  Word("-") \subseteq Spelt("SignOpt", r)
      BY <2>5, SignOptSort DEF SignOf, Spelling
    <2> QED  BY <2>2, <2>3, <2>4, <2>5 DEF Yields
  <1> QED  BY <1>2, <1>3, Makes1

\* The enumerator None.
LEMMA MakesNone ==
  Makes("None", <<>>, "SignOpt")
PROOF
  <1>2. "SignOpt" \in Meant
    BY SignOptSort
  <1>3. ASSUME AllTrees
        PROVE  Yields("SignOpt", Built("None", <<>>),
                      {<<>>},
                      "None" = "=IfThen")
    <2> DEFINE r == "None"
    <2>3. Built("None", <<>>) = r
      BY DEF Built, Enumerators, AddOp, MultOp, RelOp
    <2>4. r \in Values("SignOpt")
      BY SignOptSort DEF AddOp, MultOp, RelOp, Sign, UnaryOp
    <2>5. ASSUME SyntaxIsClosed
          PROVE  {<<>>} \subseteq Spelt("SignOpt", r)
      BY <2>5, SignOptSort DEF SignOf, Spelling
    <2> QED  BY <2>3, <2>4, <2>5 DEF Yields
  <1> QED  BY <1>2, <1>3, Makes0

\* The enumerator To.
LEMMA MakesTo ==
  Makes("To", <<"to">>, "WhichWay")
PROOF
  <1>1. "to" \in Words
    BY KindsAreWords
  <1>2. "WhichWay" \in Meant /\ "to" \in Meant
    BY <1>1, WhichWaySort, WordsAre
  <1>3. ASSUME AllTrees, NEW v1 \in Values("to")
        PROVE  Yields("WhichWay", Built("To", <<v1>>),
                      Spelt("to", v1),
                      "To" = "=IfThen" \/ Open("to", v1))
    <2> DEFINE r == "To"
    <2>2. Spelt("to", v1)
          = Word("to")
      BY <1>1, WordsAre
    <2>3. Built("To", <<v1>>) = r
      BY DEF Built, Enumerators, AddOp, MultOp, RelOp
    <2>4. r \in Values("WhichWay")
      BY WhichWaySort DEF AddOp, MultOp, RelOp, Sign, UnaryOp
    <2>5. ASSUME SyntaxIsClosed
          PROVE  Word("to") \subseteq Spelt("WhichWay", r)
      BY <2>5, WhichWaySort
    <2> QED  BY <2>2, <2>3, <2>4, <2>5 DEF Yields
  <1> QED  BY <1>2, <1>3, Makes1

\* The enumerator DownTo.
LEMMA MakesDownTo ==
  Makes("DownTo", <<"downto">>, "WhichWay")
PROOF
  <1>1. "downto" \in Words
    BY KindsAreWords
  <1>2. "WhichWay" \in Meant /\ "downto" \in Meant
    BY <1>1, WhichWaySort, WordsAre
  <1>3. ASSUME AllTrees, NEW v1 \in Values("downto")
        PROVE  Yields("WhichWay", Built("DownTo", <<v1>>),
                      Spelt("downto", v1),
                      "DownTo" = "=IfThen" \/ Open("downto", v1))
    <2> DEFINE r == "DownTo"
    <2>2. Spelt("downto", v1)
          = Word("downto")
      BY <1>1, WordsAre
    <2>3. Built("DownTo", <<v1>>) = r
      BY DEF Built, Enumerators, AddOp, MultOp, RelOp
    <2>4. r \in Values("WhichWay")
      BY WhichWaySort DEF AddOp, MultOp, RelOp, Sign, UnaryOp
    <2>5. ASSUME SyntaxIsClosed
          PROVE  Word("downto") \subseteq Spelt("WhichWay", r)
      BY <2>5, WhichWaySort
    <2> QED  BY <2>2, <2>3, <2>4, <2>5 DEF Yields
  <1> QED  BY <1>2, <1>3, Makes1

\* The enumerator Multiply.
LEMMA MakesMultiply ==
  Makes("Multiply", <<"*">>, "MultOperator")
PROOF
  <1>1. "*" \in Words
    BY KindsAreWords
  <1>2. "*" \in Meant /\ "MultOperator" \in Meant
    BY <1>1, WordsAre, MultOperatorSort
  <1>3. ASSUME AllTrees, NEW v1 \in Values("*")
        PROVE  Yields("MultOperator", Built("Multiply", <<v1>>),
                      Spelt("*", v1),
                      "Multiply" = "=IfThen" \/ Open("*", v1))
    <2> DEFINE r == "Multiply"
    <2>2. Spelt("*", v1)
          = Word("*")
      BY <1>1, WordsAre
    <2>3. Built("Multiply", <<v1>>) = r
      BY DEF Built, Enumerators, AddOp, MultOp, RelOp
    <2>4. r \in Values("MultOperator")
      BY MultOperatorSort DEF AddOp, MultOp, RelOp, Sign, UnaryOp
    <2>5. ASSUME SyntaxIsClosed
          PROVE  Word("*") \subseteq Spelt("MultOperator", r)
      BY <2>5, MultOperatorSort DEF SignOf, Spelling
    <2> QED  BY <2>2, <2>3, <2>4, <2>5 DEF Yields
  <1> QED  BY <1>2, <1>3, Makes1

\* The enumerator RealDiv.
LEMMA MakesRealDiv ==
  Makes("RealDiv", <<"/">>, "MultOperator")
PROOF
  <1>1. "/" \in Words
    BY KindsAreWords
  <1>2. "/" \in Meant /\ "MultOperator" \in Meant
    BY <1>1, WordsAre, MultOperatorSort
  <1>3. ASSUME AllTrees, NEW v1 \in Values("/")
        PROVE  Yields("MultOperator", Built("RealDiv", <<v1>>),
                      Spelt("/", v1),
                      "RealDiv" = "=IfThen" \/ Open("/", v1))
    <2> DEFINE r == "RealDiv"
    <2>2. Spelt("/", v1)
          = Word("/")
      BY <1>1, WordsAre
    <2>3. Built("RealDiv", <<v1>>) = r
      BY DEF Built, Enumerators, AddOp, MultOp, RelOp
    <2>4. r \in Values("MultOperator")
      BY MultOperatorSort DEF AddOp, MultOp, RelOp, Sign, UnaryOp
    <2>5. ASSUME SyntaxIsClosed
          PROVE  Word("/") \subseteq Spelt("MultOperator", r)
      BY <2>5, MultOperatorSort DEF SignOf, Spelling
    <2> QED  BY <2>2, <2>3, <2>4, <2>5 DEF Yields
  <1> QED  BY <1>2, <1>3, Makes1

\* The enumerator IntDiv.
LEMMA MakesIntDiv ==
  Makes("IntDiv", <<"div">>, "MultOperator")
PROOF
  <1>1. "div" \in Words
    BY KindsAreWords
  <1>2. "MultOperator" \in Meant /\ "div" \in Meant
    BY <1>1, MultOperatorSort, WordsAre
  <1>3. ASSUME AllTrees, NEW v1 \in Values("div")
        PROVE  Yields("MultOperator", Built("IntDiv", <<v1>>),
                      Spelt("div", v1),
                      "IntDiv" = "=IfThen" \/ Open("div", v1))
    <2> DEFINE r == "IntDiv"
    <2>2. Spelt("div", v1)
          = Word("div")
      BY <1>1, WordsAre
    <2>3. Built("IntDiv", <<v1>>) = r
      BY DEF Built, Enumerators, AddOp, MultOp, RelOp
    <2>4. r \in Values("MultOperator")
      BY MultOperatorSort DEF AddOp, MultOp, RelOp, Sign, UnaryOp
    <2>5. ASSUME SyntaxIsClosed
          PROVE  Word("div") \subseteq Spelt("MultOperator", r)
      BY <2>5, MultOperatorSort DEF SignOf, Spelling
    <2> QED  BY <2>2, <2>3, <2>4, <2>5 DEF Yields
  <1> QED  BY <1>2, <1>3, Makes1

\* The enumerator Modulo.
LEMMA MakesModulo ==
  Makes("Modulo", <<"mod">>, "MultOperator")
PROOF
  <1>1. "mod" \in Words
    BY KindsAreWords
  <1>2. "MultOperator" \in Meant /\ "mod" \in Meant
    BY <1>1, MultOperatorSort, WordsAre
  <1>3. ASSUME AllTrees, NEW v1 \in Values("mod")
        PROVE  Yields("MultOperator", Built("Modulo", <<v1>>),
                      Spelt("mod", v1),
                      "Modulo" = "=IfThen" \/ Open("mod", v1))
    <2> DEFINE r == "Modulo"
    <2>2. Spelt("mod", v1)
          = Word("mod")
      BY <1>1, WordsAre
    <2>3. Built("Modulo", <<v1>>) = r
      BY DEF Built, Enumerators, AddOp, MultOp, RelOp
    <2>4. r \in Values("MultOperator")
      BY MultOperatorSort DEF AddOp, MultOp, RelOp, Sign, UnaryOp
    <2>5. ASSUME SyntaxIsClosed
          PROVE  Word("mod") \subseteq Spelt("MultOperator", r)
      BY <2>5, MultOperatorSort DEF SignOf, Spelling
    <2> QED  BY <2>2, <2>3, <2>4, <2>5 DEF Yields
  <1> QED  BY <1>2, <1>3, Makes1

\* The enumerator And.
LEMMA MakesAnd ==
  Makes("And", <<"and">>, "MultOperator")
PROOF
  <1>1. "and" \in Words
    BY KindsAreWords
  <1>2. "MultOperator" \in Meant /\ "and" \in Meant
    BY <1>1, MultOperatorSort, WordsAre
  <1>3. ASSUME AllTrees, NEW v1 \in Values("and")
        PROVE  Yields("MultOperator", Built("And", <<v1>>),
                      Spelt("and", v1),
                      "And" = "=IfThen" \/ Open("and", v1))
    <2> DEFINE r == "And"
    <2>2. Spelt("and", v1)
          = Word("and")
      BY <1>1, WordsAre
    <2>3. Built("And", <<v1>>) = r
      BY DEF Built, Enumerators, AddOp, MultOp, RelOp
    <2>4. r \in Values("MultOperator")
      BY MultOperatorSort DEF AddOp, MultOp, RelOp, Sign, UnaryOp
    <2>5. ASSUME SyntaxIsClosed
          PROVE  Word("and") \subseteq Spelt("MultOperator", r)
      BY <2>5, MultOperatorSort DEF SignOf, Spelling
    <2> QED  BY <2>2, <2>3, <2>4, <2>5 DEF Yields
  <1> QED  BY <1>2, <1>3, Makes1

\* The enumerator Plus.
LEMMA MakesBinaryPlus ==
  Makes("Plus", <<"+">>, "AddOperator")
PROOF
  <1>1. "+" \in Words
    BY KindsAreWords
  <1>2. "+" \in Meant /\ "AddOperator" \in Meant
    BY <1>1, WordsAre, AddOperatorSort
  <1>3. ASSUME AllTrees, NEW v1 \in Values("+")
        PROVE  Yields("AddOperator", Built("Plus", <<v1>>),
                      Spelt("+", v1),
                      "Plus" = "=IfThen" \/ Open("+", v1))
    <2> DEFINE r == "Plus"
    <2>2. Spelt("+", v1)
          = Word("+")
      BY <1>1, WordsAre
    <2>3. Built("Plus", <<v1>>) = r
      BY DEF Built, Enumerators, AddOp, MultOp, RelOp
    <2>4. r \in Values("AddOperator")
      BY AddOperatorSort DEF AddOp, MultOp, RelOp, Sign, UnaryOp
    <2>5. ASSUME SyntaxIsClosed
          PROVE  Word("+") \subseteq Spelt("AddOperator", r)
      BY <2>5, AddOperatorSort DEF SignOf, Spelling
    <2> QED  BY <2>2, <2>3, <2>4, <2>5 DEF Yields
  <1> QED  BY <1>2, <1>3, Makes1

\* The enumerator Minus.
LEMMA MakesBinaryMinus ==
  Makes("Minus", <<"-">>, "AddOperator")
PROOF
  <1>1. "-" \in Words
    BY KindsAreWords
  <1>2. "-" \in Meant /\ "AddOperator" \in Meant
    BY <1>1, WordsAre, AddOperatorSort
  <1>3. ASSUME AllTrees, NEW v1 \in Values("-")
        PROVE  Yields("AddOperator", Built("Minus", <<v1>>),
                      Spelt("-", v1),
                      "Minus" = "=IfThen" \/ Open("-", v1))
    <2> DEFINE r == "Minus"
    <2>2. Spelt("-", v1)
          = Word("-")
      BY <1>1, WordsAre
    <2>3. Built("Minus", <<v1>>) = r
      BY DEF Built, Enumerators, AddOp, MultOp, RelOp
    <2>4. r \in Values("AddOperator")
      BY AddOperatorSort DEF AddOp, MultOp, RelOp, Sign, UnaryOp
    <2>5. ASSUME SyntaxIsClosed
          PROVE  Word("-") \subseteq Spelt("AddOperator", r)
      BY <2>5, AddOperatorSort DEF SignOf, Spelling
    <2> QED  BY <2>2, <2>3, <2>4, <2>5 DEF Yields
  <1> QED  BY <1>2, <1>3, Makes1

\* The enumerator Or.
LEMMA MakesOr ==
  Makes("Or", <<"or">>, "AddOperator")
PROOF
  <1>1. "or" \in Words
    BY KindsAreWords
  <1>2. "AddOperator" \in Meant /\ "or" \in Meant
    BY <1>1, AddOperatorSort, WordsAre
  <1>3. ASSUME AllTrees, NEW v1 \in Values("or")
        PROVE  Yields("AddOperator", Built("Or", <<v1>>),
                      Spelt("or", v1),
                      "Or" = "=IfThen" \/ Open("or", v1))
    <2> DEFINE r == "Or"
    <2>2. Spelt("or", v1)
          = Word("or")
      BY <1>1, WordsAre
    <2>3. Built("Or", <<v1>>) = r
      BY DEF Built, Enumerators, AddOp, MultOp, RelOp
    <2>4. r \in Values("AddOperator")
      BY AddOperatorSort DEF AddOp, MultOp, RelOp, Sign, UnaryOp
    <2>5. ASSUME SyntaxIsClosed
          PROVE  Word("or") \subseteq Spelt("AddOperator", r)
      BY <2>5, AddOperatorSort DEF SignOf, Spelling
    <2> QED  BY <2>2, <2>3, <2>4, <2>5 DEF Yields
  <1> QED  BY <1>2, <1>3, Makes1

\* The enumerator Equal.
LEMMA MakesEqual ==
  Makes("Equal", <<"=">>, "Relation")
PROOF
  <1>1. "=" \in Words
    BY KindsAreWords
  <1>2. "=" \in Meant /\ "Relation" \in Meant
    BY <1>1, WordsAre, RelationSort
  <1>3. ASSUME AllTrees, NEW v1 \in Values("=")
        PROVE  Yields("Relation", Built("Equal", <<v1>>),
                      Spelt("=", v1),
                      "Equal" = "=IfThen" \/ Open("=", v1))
    <2> DEFINE r == "Equal"
    <2>2. Spelt("=", v1)
          = Word("=")
      BY <1>1, WordsAre
    <2>3. Built("Equal", <<v1>>) = r
      BY DEF Built, Enumerators, AddOp, MultOp, RelOp
    <2>4. r \in Values("Relation")
      BY RelationSort DEF AddOp, MultOp, RelOp, Sign, UnaryOp
    <2>5. ASSUME SyntaxIsClosed
          PROVE  Word("=") \subseteq Spelt("Relation", r)
      BY <2>5, RelationSort DEF SignOf, Spelling
    <2> QED  BY <2>2, <2>3, <2>4, <2>5 DEF Yields
  <1> QED  BY <1>2, <1>3, Makes1

\* The enumerator NotEqual.
LEMMA MakesNotEqual ==
  Makes("NotEqual", <<"<>">>, "Relation")
PROOF
  <1>1. "<>" \in Words
    BY KindsAreWords
  <1>2. "<>" \in Meant /\ "Relation" \in Meant
    BY <1>1, WordsAre, RelationSort
  <1>3. ASSUME AllTrees, NEW v1 \in Values("<>")
        PROVE  Yields("Relation", Built("NotEqual", <<v1>>),
                      Spelt("<>", v1),
                      "NotEqual" = "=IfThen" \/ Open("<>", v1))
    <2> DEFINE r == "NotEqual"
    <2>2. Spelt("<>", v1)
          = Word("<>")
      BY <1>1, WordsAre
    <2>3. Built("NotEqual", <<v1>>) = r
      BY DEF Built, Enumerators, AddOp, MultOp, RelOp
    <2>4. r \in Values("Relation")
      BY RelationSort DEF AddOp, MultOp, RelOp, Sign, UnaryOp
    <2>5. ASSUME SyntaxIsClosed
          PROVE  Word("<>") \subseteq Spelt("Relation", r)
      BY <2>5, RelationSort DEF SignOf, Spelling
    <2> QED  BY <2>2, <2>3, <2>4, <2>5 DEF Yields
  <1> QED  BY <1>2, <1>3, Makes1

\* The enumerator Less.
LEMMA MakesLess ==
  Makes("Less", <<"<">>, "Relation")
PROOF
  <1>1. "<" \in Words
    BY KindsAreWords
  <1>2. "<" \in Meant /\ "Relation" \in Meant
    BY <1>1, WordsAre, RelationSort
  <1>3. ASSUME AllTrees, NEW v1 \in Values("<")
        PROVE  Yields("Relation", Built("Less", <<v1>>),
                      Spelt("<", v1),
                      "Less" = "=IfThen" \/ Open("<", v1))
    <2> DEFINE r == "Less"
    <2>2. Spelt("<", v1)
          = Word("<")
      BY <1>1, WordsAre
    <2>3. Built("Less", <<v1>>) = r
      BY DEF Built, Enumerators, AddOp, MultOp, RelOp
    <2>4. r \in Values("Relation")
      BY RelationSort DEF AddOp, MultOp, RelOp, Sign, UnaryOp
    <2>5. ASSUME SyntaxIsClosed
          PROVE  Word("<") \subseteq Spelt("Relation", r)
      BY <2>5, RelationSort DEF SignOf, Spelling
    <2> QED  BY <2>2, <2>3, <2>4, <2>5 DEF Yields
  <1> QED  BY <1>2, <1>3, Makes1

\* The enumerator Greater.
LEMMA MakesGreater ==
  Makes("Greater", <<">">>, "Relation")
PROOF
  <1>1. ">" \in Words
    BY KindsAreWords
  <1>2. ">" \in Meant /\ "Relation" \in Meant
    BY <1>1, WordsAre, RelationSort
  <1>3. ASSUME AllTrees, NEW v1 \in Values(">")
        PROVE  Yields("Relation", Built("Greater", <<v1>>),
                      Spelt(">", v1),
                      "Greater" = "=IfThen" \/ Open(">", v1))
    <2> DEFINE r == "Greater"
    <2>2. Spelt(">", v1)
          = Word(">")
      BY <1>1, WordsAre
    <2>3. Built("Greater", <<v1>>) = r
      BY DEF Built, Enumerators, AddOp, MultOp, RelOp
    <2>4. r \in Values("Relation")
      BY RelationSort DEF AddOp, MultOp, RelOp, Sign, UnaryOp
    <2>5. ASSUME SyntaxIsClosed
          PROVE  Word(">") \subseteq Spelt("Relation", r)
      BY <2>5, RelationSort DEF SignOf, Spelling
    <2> QED  BY <2>2, <2>3, <2>4, <2>5 DEF Yields
  <1> QED  BY <1>2, <1>3, Makes1

\* The enumerator LessEqual.
LEMMA MakesLessEqual ==
  Makes("LessEqual", <<"<=">>, "Relation")
PROOF
  <1>1. "<=" \in Words
    BY KindsAreWords
  <1>2. "<=" \in Meant /\ "Relation" \in Meant
    BY <1>1, WordsAre, RelationSort
  <1>3. ASSUME AllTrees, NEW v1 \in Values("<=")
        PROVE  Yields("Relation", Built("LessEqual", <<v1>>),
                      Spelt("<=", v1),
                      "LessEqual" = "=IfThen" \/ Open("<=", v1))
    <2> DEFINE r == "LessEqual"
    <2>2. Spelt("<=", v1)
          = Word("<=")
      BY <1>1, WordsAre
    <2>3. Built("LessEqual", <<v1>>) = r
      BY DEF Built, Enumerators, AddOp, MultOp, RelOp
    <2>4. r \in Values("Relation")
      BY RelationSort DEF AddOp, MultOp, RelOp, Sign, UnaryOp
    <2>5. ASSUME SyntaxIsClosed
          PROVE  Word("<=") \subseteq Spelt("Relation", r)
      BY <2>5, RelationSort DEF SignOf, Spelling
    <2> QED  BY <2>2, <2>3, <2>4, <2>5 DEF Yields
  <1> QED  BY <1>2, <1>3, Makes1

\* The enumerator GreaterEqual.
LEMMA MakesGreaterEqual ==
  Makes("GreaterEqual", <<">=">>, "Relation")
PROOF
  <1>1. ">=" \in Words
    BY KindsAreWords
  <1>2. ">=" \in Meant /\ "Relation" \in Meant
    BY <1>1, WordsAre, RelationSort
  <1>3. ASSUME AllTrees, NEW v1 \in Values(">=")
        PROVE  Yields("Relation", Built("GreaterEqual", <<v1>>),
                      Spelt(">=", v1),
                      "GreaterEqual" = "=IfThen" \/ Open(">=", v1))
    <2> DEFINE r == "GreaterEqual"
    <2>2. Spelt(">=", v1)
          = Word(">=")
      BY <1>1, WordsAre
    <2>3. Built("GreaterEqual", <<v1>>) = r
      BY DEF Built, Enumerators, AddOp, MultOp, RelOp
    <2>4. r \in Values("Relation")
      BY RelationSort DEF AddOp, MultOp, RelOp, Sign, UnaryOp
    <2>5. ASSUME SyntaxIsClosed
          PROVE  Word(">=") \subseteq Spelt("Relation", r)
      BY <2>5, RelationSort DEF SignOf, Spelling
    <2> QED  BY <2>2, <2>3, <2>4, <2>5 DEF Yields
  <1> QED  BY <1>2, <1>3, Makes1

\* The enumerator In.
LEMMA MakesIn ==
  Makes("In", <<"in">>, "Relation")
PROOF
  <1>1. "in" \in Words
    BY KindsAreWords
  <1>2. "Relation" \in Meant /\ "in" \in Meant
    BY <1>1, RelationSort, WordsAre
  <1>3. ASSUME AllTrees, NEW v1 \in Values("in")
        PROVE  Yields("Relation", Built("In", <<v1>>),
                      Spelt("in", v1),
                      "In" = "=IfThen" \/ Open("in", v1))
    <2> DEFINE r == "In"
    <2>2. Spelt("in", v1)
          = Word("in")
      BY <1>1, WordsAre
    <2>3. Built("In", <<v1>>) = r
      BY DEF Built, Enumerators, AddOp, MultOp, RelOp
    <2>4. r \in Values("Relation")
      BY RelationSort DEF AddOp, MultOp, RelOp, Sign, UnaryOp
    <2>5. ASSUME SyntaxIsClosed
          PROVE  Word("in") \subseteq Spelt("Relation", r)
      BY <2>5, RelationSort DEF SignOf, Spelling
    <2> QED  BY <2>2, <2>3, <2>4, <2>5 DEF Yields
  <1> QED  BY <1>2, <1>3, Makes1

\* A heading.
LEMMA MakesProcedureHeading ==
  Makes("=ProcHeading", <<"procedure", "identifier", "FormalParametersOpt">>, "ProcedureHeading")
PROOF
  <1>1. "procedure" \in Words
    BY KindsAreWords
  <1>2. "FormalParametersOpt" \in Meant /\ "ProcedureHeading" \in Meant /\ "identifier" \in Meant /\
        "procedure" \in Meant
    BY <1>1, FormalParametersOptSort, ProcedureHeadingSort, IdentifierSort, WordsAre
  <1>3. ASSUME AllTrees, NEW v1 \in Values("procedure"), NEW v2 \in Values("identifier"),
               NEW v3 \in Values("FormalParametersOpt")
        PROVE  Yields("ProcedureHeading", Built("=ProcHeading", <<v1, v2, v3>>),
                      Spelt("procedure", v1) ** Spelt("identifier", v2) **
                      Spelt("FormalParametersOpt", v3),
                      "=ProcHeading" = "=IfThen" \/ Open("FormalParametersOpt", v3))
    <2> DEFINE r == [name |-> v2, params |-> v3]
    <2>1. v2 \in Ident /\ v3 \in Seq(FormalParam)
      BY IdentifierSort, FormalParametersOptSort
    <2>2. Spelt("procedure", v1) ** Spelt("identifier", v2) ** Spelt("FormalParametersOpt", v3)
          = Word("procedure") ** Name(v2) ** FormalParameters(v3)
      BY <1>1, WordsAre, IdentifierSort, FormalParametersOptSort
    <2>3. Built("=ProcHeading", <<v1, v2, v3>>) = r
      BY DEF Built, BuiltDecl, Enumerators, AddOp, MultOp, RelOp
    <2>4. r \in Values("ProcedureHeading")
      BY <2>1, ProcedureHeadingSort DEF ProcHeading
    <2>5. ASSUME SyntaxIsClosed
          PROVE  Word("procedure") ** Name(v2) ** FormalParameters(v3) \subseteq Spelt("ProcedureHeading", r)
      BY <2>5, <2>1, ProcedureHeadingSort DEF Heading
    <2> QED  BY <2>2, <2>3, <2>4, <2>5 DEF Yields
  <1> QED  BY <1>2, <1>3, Makes3

\* A heading.
LEMMA MakesFunctionHeading ==
  Makes("=ProcHeading", <<"function", "identifier", "FormalParametersOpt">>, "FunctionHeading")
PROOF
  <1>1. "function" \in Words
    BY KindsAreWords
  <1>2. "FormalParametersOpt" \in Meant /\ "FunctionHeading" \in Meant /\ "function" \in Meant /\
        "identifier" \in Meant
    BY <1>1, FormalParametersOptSort, FunctionHeadingSort, WordsAre, IdentifierSort
  <1>3. ASSUME AllTrees, NEW v1 \in Values("function"), NEW v2 \in Values("identifier"),
               NEW v3 \in Values("FormalParametersOpt")
        PROVE  Yields("FunctionHeading", Built("=ProcHeading", <<v1, v2, v3>>),
                      Spelt("function", v1) ** Spelt("identifier", v2) **
                      Spelt("FormalParametersOpt", v3),
                      "=ProcHeading" = "=IfThen" \/ Open("FormalParametersOpt", v3))
    <2> DEFINE r == [name |-> v2, params |-> v3]
    <2>1. v2 \in Ident /\ v3 \in Seq(FormalParam)
      BY IdentifierSort, FormalParametersOptSort
    <2>2. Spelt("function", v1) ** Spelt("identifier", v2) ** Spelt("FormalParametersOpt", v3)
          = Word("function") ** Name(v2) ** FormalParameters(v3)
      BY <1>1, WordsAre, IdentifierSort, FormalParametersOptSort
    <2>3. Built("=ProcHeading", <<v1, v2, v3>>) = r
      BY DEF Built, BuiltDecl, Enumerators, AddOp, MultOp, RelOp
    <2>4. r \in Values("FunctionHeading")
      BY <2>1, FunctionHeadingSort DEF ProcHeading
    <2>5. ASSUME SyntaxIsClosed
          PROVE  Word("function") ** Name(v2) ** FormalParameters(v3) \subseteq Spelt("FunctionHeading", r)
      BY <2>5, <2>1, FunctionHeadingSort DEF Heading
    <2> QED  BY <2>2, <2>3, <2>4, <2>5 DEF Yields
  <1> QED  BY <1>2, <1>3, Makes3

\* A part of a node: OneFormalParam.
LEMMA MakesFormalParam ==
  Makes("=FormalParam", <<"var", "IdentList", ":", "identifier">>, "OneFormalParam")
PROOF
  <1>1. ":" \in Words /\ "var" \in Words
    BY KindsAreWords
  <1>2. ":" \in Meant /\ "IdentList" \in Meant /\ "OneFormalParam" \in Meant /\
        "identifier" \in Meant /\ "var" \in Meant
    BY <1>1, WordsAre, IdentListSort, OneFormalParamSort, IdentifierSort
  <1>3. ASSUME AllTrees, NEW v1 \in Values("var"), NEW v2 \in Values("IdentList"),
               NEW v3 \in Values(":"), NEW v4 \in Values("identifier")
        PROVE  Yields("OneFormalParam", Built("=FormalParam", <<v1, v2, v3, v4>>),
                      Spelt("var", v1) ** Spelt("IdentList", v2) ** Spelt(":", v3) **
                      Spelt("identifier", v4),
                      "=FormalParam" = "=IfThen" \/ Open("identifier", v4))
    <2> DEFINE r == [idents |-> v2, type |-> v4]
    <2>1. v2 \in Seq(Ident) \ {<<>>} /\ v4 \in Ident
      BY IdentListSort, IdentifierSort
    <2>2. Spelt("var", v1) ** Spelt("IdentList", v2) ** Spelt(":", v3) ** Spelt("identifier", v4)
          = Word("var") ** Sentences("IdentList", v2) ** Word(":") ** Name(v4)
      BY <1>1, WordsAre, IdentListSort, IdentifierSort
    <2>3. Built("=FormalParam", <<v1, v2, v3, v4>>) = r
      BY DEF Built, BuiltDecl, Enumerators, AddOp, MultOp, RelOp
    <2>4. r \in Values("OneFormalParam")
      BY <2>1, OneFormalParamSort DEF FormalParam
    <2>5. ASSUME SyntaxIsClosed
          PROVE  Word("var") ** Sentences("IdentList", v2) ** Word(":") ** Name(v4) \subseteq Spelt("OneFormalParam", r)
      <3>1. PartSentences("OneFormalParam", r)
            = Word("var") ** Sentences("IdentList", v2) ** Word(":") ** Name(v4)
        BY DEF PartSentences
      <3>2. "OneFormalParam" \in PartCategories /\ r \in ValuesOf("OneFormalParam")
        BY <2>4, OneFormalParamSort DEF ValuesOf, PartCategories
      <3>3. PartSentences("OneFormalParam", r) \subseteq Sentences("OneFormalParam", r)
        BY <2>5, <3>2, MadeCategory
      <3> QED  BY <3>1, <3>3, OneFormalParamSort
    <2> QED  BY <2>2, <2>3, <2>4, <2>5 DEF Yields
  <1> QED  BY <1>2, <1>3, Makes4

\* A part of a node: Subrange.
LEMMA MakesSubrange ==
  Makes("=Subrange", <<"ConstFactor", "..", "ConstFactor">>, "Subrange")
PROOF
  <1>1. ".." \in Words
    BY KindsAreWords
  <1>2. ".." \in Meant /\ "ConstFactor" \in Meant /\ "Subrange" \in Meant
    BY <1>1, WordsAre, ConstFactorSort, SubrangeSort
  <1>3. ASSUME AllTrees, NEW v1 \in Values("ConstFactor"), NEW v2 \in Values(".."),
               NEW v3 \in Values("ConstFactor")
        PROVE  Yields("Subrange", Built("=Subrange", <<v1, v2, v3>>),
                      Spelt("ConstFactor", v1) ** Spelt("..", v2) ** Spelt("ConstFactor", v3),
                      "=Subrange" = "=IfThen" \/ Open("ConstFactor", v3))
    <2> DEFINE r == [start |-> v1, finish |-> v3]
    <2>1. v1 \in ConstFactor /\ v3 \in ConstFactor
      BY ConstFactorSort
    <2>2. Spelt("ConstFactor", v1) ** Spelt("..", v2) ** Spelt("ConstFactor", v3)
          = Tree(v1) ** Word("..") ** Tree(v3)
      BY <1>1, ConstFactorSort, WordsAre
    <2>3. Built("=Subrange", <<v1, v2, v3>>) = r
      BY DEF Built, BuiltType, Enumerators, AddOp, MultOp, RelOp
    <2>4. r \in Values("Subrange")
      BY <2>1, SubrangeSort DEF Subrange
    <2>5. ASSUME SyntaxIsClosed
          PROVE  Tree(v1) ** Word("..") ** Tree(v3) \subseteq Spelt("Subrange", r)
      <3>1. PartSentences("Subrange", r)
            = Tree(v1) ** Word("..") ** Tree(v3)
        BY DEF PartSentences
      <3>2. "Subrange" \in PartCategories /\ r \in ValuesOf("Subrange")
        BY <2>4, SubrangeSort DEF ValuesOf, PartCategories
      <3>3. PartSentences("Subrange", r) \subseteq Sentences("Subrange", r)
        BY <2>5, <3>2, MadeCategory
      <3> QED  BY <3>1, <3>3, SubrangeSort
    <2> QED  BY <2>2, <2>3, <2>4, <2>5 DEF Yields
  <1> QED  BY <1>2, <1>3, Makes3

\* A part of a node: FieldList.
LEMMA MakesFieldList ==
  Makes("=FieldList", <<"IdentList", ":", "Type">>, "FieldList")
PROOF
  <1>1. ":" \in Words
    BY KindsAreWords
  <1>2. ":" \in Meant /\ "FieldList" \in Meant /\ "IdentList" \in Meant /\ "Type" \in Meant
    BY <1>1, WordsAre, FieldListSort, IdentListSort, TypeSort
  <1>3. ASSUME AllTrees, NEW v1 \in Values("IdentList"), NEW v2 \in Values(":"),
               NEW v3 \in Values("Type")
        PROVE  Yields("FieldList", Built("=FieldList", <<v1, v2, v3>>),
                      Spelt("IdentList", v1) ** Spelt(":", v2) ** Spelt("Type", v3),
                      "=FieldList" = "=IfThen" \/ Open("Type", v3))
    <2> DEFINE r == [idents |-> v1, type |-> v3]
    <2>1. v1 \in Seq(Ident) \ {<<>>} /\ v3 \in Type
      BY IdentListSort, TypeSort
    <2>2. Spelt("IdentList", v1) ** Spelt(":", v2) ** Spelt("Type", v3)
          = Sentences("IdentList", v1) ** Word(":") ** Tree(v3)
      BY <1>1, IdentListSort, WordsAre, TypeSort
    <2>3. Built("=FieldList", <<v1, v2, v3>>) = r
      BY DEF Built, BuiltType, Enumerators, AddOp, MultOp, RelOp
    <2>4. r \in Values("FieldList")
      BY <2>1, FieldListSort DEF FieldList
    <2>5. ASSUME SyntaxIsClosed
          PROVE  Sentences("IdentList", v1) ** Word(":") ** Tree(v3) \subseteq Spelt("FieldList", r)
      <3>1. PartSentences("FieldList", r)
            = Sentences("IdentList", v1) ** Word(":") ** Tree(v3)
        BY DEF PartSentences
      <3>2. "FieldList" \in PartCategories /\ r \in ValuesOf("FieldList")
        BY <2>4, FieldListSort DEF ValuesOf, PartCategories
      <3>3. PartSentences("FieldList", r) \subseteq Sentences("FieldList", r)
        BY <2>5, <3>2, MadeCategory
      <3> QED  BY <3>1, <3>3, FieldListSort
    <2> QED  BY <2>2, <2>3, <2>4, <2>5 DEF Yields
  <1> QED  BY <1>2, <1>3, Makes3

\* A part of a node: Case.
LEMMA MakesCase ==
  Makes("=Case", <<"CaseLabelList", ":", "Statement">>, "Case")
PROOF
  <1>1. ":" \in Words
    BY KindsAreWords
  <1>2. ":" \in Meant /\ "Case" \in Meant /\ "CaseLabelList" \in Meant /\ "Statement" \in Meant
    BY <1>1, WordsAre, CaseSort, CaseLabelListSort, StatementSort
  <1>3. ASSUME AllTrees, NEW v1 \in Values("CaseLabelList"), NEW v2 \in Values(":"),
               NEW v3 \in Values("Statement")
        PROVE  Yields("Case", Built("=Case", <<v1, v2, v3>>),
                      Spelt("CaseLabelList", v1) ** Spelt(":", v2) ** Spelt("Statement", v3),
                      "=Case" = "=IfThen" \/ Open("Statement", v3))
    <2> DEFINE r == [labels |-> v1, stmt |-> v3]
    <2>1. v1 \in Seq(ConstExpr) \ {<<>>} /\ v3 \in Stmt
      BY CaseLabelListSort, StatementSort
    <2>2. Spelt("CaseLabelList", v1) ** Spelt(":", v2) ** Spelt("Statement", v3)
          = Sentences("CaseLabelList", v1) ** Word(":") ** Tree(v3)
      BY <1>1, CaseLabelListSort, WordsAre, StatementSort
    <2>3. Built("=Case", <<v1, v2, v3>>) = r
      BY DEF Built, BuiltStmt, Enumerators, AddOp, MultOp, RelOp
    <2>4. r \in Values("Case")
      BY <2>1, CaseSort DEF CaseLabels
    <2>5. ASSUME SyntaxIsClosed
          PROVE  Sentences("CaseLabelList", v1) ** Word(":") ** Tree(v3) \subseteq Spelt("Case", r)
      <3>1. PartSentences("Case", r)
            = Sentences("CaseLabelList", v1) ** Word(":") ** Tree(v3)
        BY DEF PartSentences
      <3>2. "Case" \in PartCategories /\ r \in ValuesOf("Case")
        BY <2>4, CaseSort DEF ValuesOf, PartCategories
      <3>3. PartSentences("Case", r) \subseteq Sentences("Case", r)
        BY <2>5, <3>2, MadeCategory
      <3> QED  BY <3>1, <3>3, CaseSort
    <2> QED  BY <2>2, <2>3, <2>4, <2>5 DEF Yields
  <1> QED  BY <1>2, <1>3, Makes3

-----------------------------------------------------------------------------
(* The actions that make a node of several.                                *)

\* The action FuncDecl.
LEMMA MakesFuncDecl ==
  Makes("=FuncDecl", <<"FunctionHeading", ":", "identifier", ";", "Block">>, "FunctionDecl")
PROOF
  <1>1. ":" \in Words /\ ";" \in Words
    BY KindsAreWords
  <1>2. ":" \in Meant /\ ";" \in Meant /\ "Block" \in Meant /\ "FunctionDecl" \in Meant /\
        "FunctionHeading" \in Meant /\ "identifier" \in Meant
    BY <1>1, WordsAre, BlockSort, FunctionDeclSort, FunctionHeadingSort, IdentifierSort
  <1>3. ASSUME AllTrees, NEW v1 \in Values("FunctionHeading"), NEW v2 \in Values(":"),
               NEW v3 \in Values("identifier"), NEW v4 \in Values(";"), NEW v5 \in Values("Block")
        PROVE  Yields("FunctionDecl", Built("=FuncDecl", <<v1, v2, v3, v4, v5>>),
                      Spelt("FunctionHeading", v1) ** Spelt(":", v2) ** Spelt("identifier", v3) **
                      Spelt(";", v4) ** Spelt("Block", v5),
                      "=FuncDecl" = "=IfThen" \/ Open("Block", v5))
    <2> DEFINE proc == [kind |-> "ProcDecl", heading |-> v1, block |-> v5]
               n == [kind |-> "FuncDecl", ret |-> v3, proc |-> proc]
    <2>1. v1 \in ProcHeading /\ v3 \in Ident /\ v5 \in Block
      BY FunctionHeadingSort, IdentifierSort, BlockSort
    <2>2. Spelt("FunctionHeading", v1) ** Spelt(":", v2) ** Spelt("identifier", v3) **
          Spelt(";", v4) ** Spelt("Block", v5)
          = Heading("function", v1) ** Word(":") ** Name(v3) ** Word(";") ** Tree(v5)
      BY <1>1, FunctionHeadingSort, WordsAre, IdentifierSort, BlockSort
    <2>3. Built("=FuncDecl", <<v1, v2, v3, v4, v5>>) = n
      BY DEF Built, BuiltDecl, Enumerators, AddOp, MultOp, RelOp
    <2>4. proc.kind = "ProcDecl" /\ proc.kind \in DeclKinds /\ IsDecl(proc)
      BY <2>1 DEF IsDecl, DeclKinds
    <2>5. proc.heading = v1 /\ proc.block = v5
      OBVIOUS
    <2> HIDE DEF proc
    <2>6. proc \in ProcDecl
      BY <1>3, <2>4, MadeDecl DEF ProcDecl, Of
    <2>7. n.kind = "FuncDecl" /\ n.kind \in DeclKinds /\ IsDecl(n)
      BY <2>1, <2>6 DEF IsDecl, DeclKinds
    <2>8. DeclSentences(n) = Heading("function", v1) ** Word(":") ** Name(v3) ** Word(";") **
                             Tree(v5)
      BY <2>5 DEF DeclSentences
    <2> HIDE DEF n
    <2>9. n \in Node /\ (SyntaxIsClosed => DeclSentences(n) \subseteq Tree(n))
      BY <1>3, <2>7, MadeDecl
    <2>10. n \in Values("FunctionDecl") /\ Spelt("FunctionDecl", n) = Tree(n)
      BY <2>7, <2>9, FunctionDeclSort DEF Of
    <2> QED  BY <2>2, <2>3, <2>8, <2>9, <2>10 DEF Yields
  <1> QED  BY <1>2, <1>3, Makes5

\* The action IfElse.
LEMMA MakesIfElse ==
  Makes("=IfElse", <<"if", "Expression", "then", "Statement", "else", "Statement">>, "Statement")
PROOF
  <1>1. "else" \in Words /\ "if" \in Words /\ "then" \in Words
    BY KindsAreWords
  <1>2. "Expression" \in Meant /\ "Statement" \in Meant /\ "else" \in Meant /\ "if" \in Meant /\
        "then" \in Meant
    BY <1>1, ExpressionSort, StatementSort, WordsAre
  <1>3. ASSUME AllTrees, NEW v1 \in Values("if"), NEW v2 \in Values("Expression"),
               NEW v3 \in Values("then"), NEW v4 \in Values("Statement"), NEW v5 \in Values("else"),
               NEW v6 \in Values("Statement")
        PROVE  Yields("Statement", Built("=IfElse", <<v1, v2, v3, v4, v5, v6>>),
                      Before("else", "Statement", v4, Spelt("if", v1) ** Spelt("Expression", v2) **
                                                      Spelt("then", v3) ** Spelt("Statement", v4) **
                                                      Spelt("else", v5) ** Spelt("Statement", v6)),
                      "=IfElse" = "=IfThen" \/ Open("Statement", v6))
    <2> DEFINE branch == <<v6>>
               n == [kind |-> "If", cond |-> v2, then |-> v4, else |-> branch]
    <2>1. v2 \in Expr /\ v4 \in Stmt /\ v6 \in Stmt
      BY ExpressionSort, StatementSort
    <2>2. Spelt("if", v1) ** Spelt("Expression", v2) ** Spelt("then", v3) **
          Spelt("Statement", v4) ** Spelt("else", v5) ** Spelt("Statement", v6)
          = Word("if") ** Tree(v2) ** Word("then") ** Tree(v4) ** Word("else") ** Tree(v6)
      BY <1>1, WordsAre, ExpressionSort, StatementSort
    <2>3. Built("=IfElse", <<v1, v2, v3, v4, v5, v6>>) = n
      BY DEF Built, BuiltStmt, Enumerators, AddOp, MultOp, RelOp
    <2>4. branch \in Seq(Stmt) /\ Len(branch) = 1 /\ branch[1] = v6 /\ branch # <<>>
      BY <2>1, ListOfOne
    <2> HIDE DEF branch
    <2>5. n.kind = "If" /\ n.kind \in StmtKinds /\ IsStmt(n) /\ n.else = branch
      <3>1. n.kind = "If" /\ n.else = branch
        OBVIOUS
      <3>2. n \in [kind : {"If"}, cond : Expr, then : Stmt, else : Seq(Stmt)]
        BY <2>1, <2>4
      <3>3. Len(n.else) <= 1
        BY <3>1, <2>4
      <3>4. n.kind \in StmtKinds
        BY <3>1 DEF StmtKinds, IgnoredKinds
      <3> HIDE DEF n
      <3> QED  BY <3>1, <3>2, <3>3, <3>4 DEF IsStmt
    <2>6. StmtSentences(n) = IF EndsOpen(v4) THEN {} ELSE Word("if") ** Tree(v2) ** Word("then") **
                                                          Tree(v4) ** Word("else") ** Tree(v6)
      BY <2>4 DEF StmtSentences, IfThenSentences
    <2> HIDE DEF n
    <2>7. n \in Node /\ (SyntaxIsClosed => StmtSentences(n) \subseteq Tree(n))
      BY <1>3, <2>5, MadeStmt
    <2>8. n \in Stmt
      BY <2>5, <2>7 DEF Stmt, Of
    <2>9. n \in Values("Statement") /\ Spelt("Statement", n) = Tree(n)
      BY <2>8, StatementSort
    <2>10. SyntaxIsClosed /\ EndsOpen(n) => Open("Statement", v6)
      BY <2>8, <2>5, <2>4, OpenIs DEF EndsOpenOf, Open
    <2> QED  BY <2>2, <2>3, <2>6, <2>7, <2>9, <2>10 DEF Yields, Before, Open
  <1> QED  BY <1>2, <1>3, Makes6

-----------------------------------------------------------------------------
(* Operators and operands.                                                 *)

\* An operator is spelt as a token.
LEMMA SpellingsAreTokens ==
  ASSUME NEW op \in AddOp \cup MultOp \cup RelOp
  PROVE  Word(Spelling(op)) \subseteq Seq(Token)
PROOF
  <1>1. Spelling(op) \in Words \ {"EOF"}
    BY KindsAreWords DEF Spelling, AddOp, MultOp, RelOp
  <1>2. << Spelling(op) >> \in Token
    BY <1>1 DEF Token, Words
  <1> QED  BY <1>2, Sequence1 DEF Word

\* So is a sign.
LEMMA SignsAreTokens ==
  ASSUME NEW sign \in Sign
  PROVE  SignOf(sign) \subseteq Seq(Token)
PROOF
  <1>1. sign # "None" => sign \in AddOp
    BY DEF Sign, UnaryOp, AddOp
  <1> QED  BY <1>1, SpellingsAreTokens, EmptySeq DEF SignOf

\* The operators with their right operands.
LEMMA OpsAre ==
  ASSUME NEW O, NEW R, NEW list \in Operands(O, R)
  PROVE  /\ Ops(list) \in Seq([op : O, rhs : R]) /\ Len(Ops(list)) = Len(list.ops)
         /\ list.items[1] \in R
PROOF
  <1>1. /\ list.items \in Seq(R) /\ list.ops \in Seq(O)
        /\ Len(list.items) = Len(list.ops) + 1 /\ Len(list.ops) \in Nat
    BY DEF Operands
  <1>2. list.items[1] \in R /\ \A k \in 1..Len(list.ops) : list.items[k + 1] \in R /\ list.ops[k] \in O
    BY <1>1, ElementOfSeq
  <1>3. DOMAIN list.ops = 1..Len(list.ops)
    BY <1>1
  <1> DEFINE n == Len(list.ops)
             F(k) == [op |-> list.ops[k], rhs |-> list.items[k + 1]]
             s == [k \in 1..n |-> F(k)]
  <1>4. n \in Nat /\ \A k \in 1..n : F(k) \in [op : O, rhs : R]
    BY <1>1, <1>2
  <1>5. Ops(list) = s
    BY <1>3 DEF Ops
  <1> HIDE DEF F, n
  <1>6. s \in Seq([op : O, rhs : R]) /\ Len(s) = n
    BY <1>4
  <1> HIDE DEF s
  <1> QED  BY <1>2, <1>5, <1>6 DEF n

\* One operand.
LEMMA OneOperand ==
  ASSUME NEW O, NEW R, NEW v \in R
  PROVE  LET r == [items |-> <<v>>, ops |-> <<>>]
         IN  r \in Operands(O, R) /\ r.items[1] = v /\ Ops(r) = <<>>
PROOF
  <1> DEFINE items == <<v>>
             ops == <<>>
             r == [items |-> items, ops |-> ops]
  <1>1. items \in Seq(R) /\ Len(items) = 1 /\ items[1] = v
    BY ListOfOne
  <1>2. ops \in Seq(O) /\ Len(ops) = 0
    BY EmptySeq
  <1> HIDE DEF items, ops
  <1>3. r.items = items /\ r.ops = ops /\ r \in Operands(O, R)
    <2>1. r.items = items /\ r.ops = ops /\ r \in [items : Seq(R), ops : Seq(O)]
      BY <1>1, <1>2
    <2> HIDE DEF r
    <2>2. Len(r.items) = Len(r.ops) + 1
      BY <2>1, <1>1, <1>2
    <2> QED  BY <2>1, <2>2 DEF Operands
  <1> HIDE DEF r
  <1>4. Ops(r) \in Seq([op : O, rhs : R]) /\ Len(Ops(r)) = 0
    BY <1>2, <1>3, OpsAre
  <1>5. Ops(r) = <<>>
    BY <1>4, EmptySeq
  <1>6. r.items[1] = v
    BY <1>1, <1>3
  <1> QED  BY <1>3, <1>5, <1>6 DEF r, items, ops

\* An operand and an operator, put at the front.
InFront(v, op, list) == [items |-> <<v>> \o list.items, ops |-> <<op>> \o list.ops]

FirstOp(op, list) == <<[op |-> op, rhs |-> list.items[1]]>>

\* They are.
LEMMA OperandInserted ==
  ASSUME NEW O, NEW R, NEW v \in R, NEW op \in O, NEW list \in Operands(O, R)
  PROVE  /\ InFront(v, op, list) \in Operands(O, R) /\ InFront(v, op, list).items[1] = v
         /\ Ops(InFront(v, op, list)) = FirstOp(op, list) \o Ops(list)
PROOF
  <1>1. /\ list.items \in Seq(R) /\ list.ops \in Seq(O)
        /\ Len(list.items) = Len(list.ops) + 1 /\ Len(list.ops) \in Nat
    BY DEF Operands
  <1> DEFINE v1 == <<v>>
             op1 == <<op>>
             items == v1 \o list.items
             ops == op1 \o list.ops
             n == Len(list.ops)
             r == [items |-> items, ops |-> ops]
             first == [op |-> op, rhs |-> list.items[1]]
             first1 == <<first>>
             E == [op : O, rhs : R]
             rest == Ops(list)
             s == first1 \o rest
  <1>2. v1 \in Seq(R) /\ Len(v1) = 1 /\ v1[1] = v
    BY ListOfOne
  <1>3. op1 \in Seq(O) /\ Len(op1) = 1 /\ op1[1] = op
    BY ListOfOne
  <1>4. /\ rest \in Seq(E) /\ Len(rest) = n /\ list.items[1] \in R
        /\ \A k \in 1..n : rest[k] = [op |-> list.ops[k], rhs |-> list.items[k + 1]]
    <2> HIDE DEF E, s, r, items, ops
    <2>1. /\ Ops(list) \in Seq([op : O, rhs : R]) /\ Len(Ops(list)) = Len(list.ops)
          /\ list.items[1] \in R
      BY OpsAre
    <2>2. DOMAIN list.ops = 1..Len(list.ops)
      BY <1>1
    <2>3. \A k \in 1..Len(list.ops) : Ops(list)[k] = [op |-> list.ops[k], rhs |-> list.items[k + 1]]
      BY <2>2 DEF Ops
    <2> QED  BY <2>1, <2>3 DEF E
  <1>5. first \in E
    BY <1>4
  <1>6. first1 \in Seq(E) /\ Len(first1) = 1 /\ first1[1] = first
    BY <1>5, ListOfOne
  <1> HIDE DEF v1, op1, first1, rest, E
  <1>7. /\ items \in Seq(R) /\ Len(items) = n + 2
        /\ \A k \in 1..n + 2 : items[k] = IF k <= 1 THEN v1[k] ELSE list.items[k - 1]
    <2>1. /\ items \in Seq(R) /\ Len(items) = Len(v1) + Len(list.items)
          /\ \A k \in 1..Len(v1) + Len(list.items) :
               items[k] = IF k <= Len(v1) THEN v1[k] ELSE list.items[k - Len(v1)]
      BY <1>1, <1>2, ConcatProperties
    <2>2. Len(v1) + Len(list.items) = n + 2
      BY <1>1, <1>2
    <2> HIDE DEF items
    <2> QED  BY <2>1, <2>2, <1>2
  <1>8. /\ ops \in Seq(O) /\ Len(ops) = n + 1
        /\ \A k \in 1..n + 1 : ops[k] = IF k <= 1 THEN op1[k] ELSE list.ops[k - 1]
    <2>1. /\ ops \in Seq(O) /\ Len(ops) = Len(op1) + Len(list.ops)
          /\ \A k \in 1..Len(op1) + Len(list.ops) :
               ops[k] = IF k <= Len(op1) THEN op1[k] ELSE list.ops[k - Len(op1)]
      BY <1>1, <1>3, ConcatProperties
    <2>2. Len(op1) + Len(list.ops) = n + 1
      BY <1>1, <1>3
    <2> HIDE DEF ops
    <2> QED  BY <2>1, <2>2, <1>3
  <1>9. /\ s \in Seq(E) /\ Len(s) = n + 1
        /\ \A k \in 1..n + 1 : s[k] = IF k <= 1 THEN first1[k] ELSE rest[k - 1]
    <2>1. /\ s \in Seq(E) /\ Len(s) = Len(first1) + Len(rest)
          /\ \A k \in 1..Len(first1) + Len(rest) :
               s[k] = IF k <= Len(first1) THEN first1[k] ELSE rest[k - Len(first1)]
      BY <1>4, <1>6, ConcatProperties
    <2>2. Len(first1) + Len(rest) = n + 1
      BY <1>1, <1>4, <1>6
    <2> HIDE DEF s
    <2> QED  BY <2>1, <2>2, <1>6
  <1> HIDE DEF items, ops, s
  <1>10. r.items = items /\ r.ops = ops /\ r \in Operands(O, R)
    BY <1>1, <1>7, <1>8 DEF Operands
  <1> HIDE DEF r
  <1>11. n \in Nat
    BY <1>1
  <1> HIDE DEF n
  <1>12. /\ Ops(r) \in Seq(E) /\ Len(Ops(r)) = n + 1
         /\ \A k \in 1..n + 1 : Ops(r)[k] = [op |-> ops[k], rhs |-> items[k + 1]]
    <2>1. Ops(r) \in Seq([op : O, rhs : R]) /\ Len(Ops(r)) = Len(r.ops)
      BY <1>10, OpsAre
    <2>2. DOMAIN ops = 1..n + 1
      BY <1>8, <1>11
    <2>3. \A k \in 1..n + 1 : Ops(r)[k] = [op |-> ops[k], rhs |-> items[k + 1]]
      BY <2>2, <1>10 DEF Ops
    <2> QED  BY <2>1, <2>3, <1>8, <1>10 DEF E
  <1>13. ASSUME NEW k \in 1..n + 1
         PROVE  Ops(r)[k] = s[k]
    <2>1. CASE k = 1
      <3>1. ops[1] = op
        BY <1>3, <1>8, <1>11
      <3>2. items[2] = list.items[1]
        <4>1. 2 \in 1..n + 2 /\ ~(2 <= 1) /\ 2 - 1 = 1
          BY <1>11
        <4> QED  BY <4>1, <1>7
      <3>3. s[1] = first
        BY <1>6, <1>9, <1>11
      <3> QED  BY <2>1, <3>1, <3>2, <3>3, <1>12
    <2>2. CASE k # 1
      <3> DEFINE j == k - 1
      <3>1. j \in 1..n /\ k \in 1..n + 1 /\ k + 1 \in 1..n + 2 /\ ~(k <= 1) /\ ~(k + 1 <= 1) /\ k + 1 - 1 = j + 1
        BY <2>2, <1>11
      <3>2. ops[k] = list.ops[j] /\ s[k] = rest[j]
        BY <3>1, <1>8, <1>9
      <3>3. items[k + 1] = list.items[j + 1]
        BY <3>1, <1>7
      <3> HIDE DEF j
      <3>4. rest[j] = [op |-> list.ops[j], rhs |-> list.items[j + 1]]
        BY <3>1, <1>4
      <3> QED  BY <3>2, <3>3, <3>4, <1>12
    <2> QED  BY <2>1, <2>2
  <1>14. Ops(r) = s
    BY <1>9, <1>12, <1>13, SeqEqual
  <1>15. r.items[1] = v
    BY <1>2, <1>7, <1>10, <1>11
  <1> QED  BY <1>10, <1>14, <1>15 DEF InFront, FirstOp, r, items, ops, s, v1, op1, first, first1, rest

\* The operators of an operand list, in the sentences of what it is in.
LEMMA OperationsRead ==
  ASSUME SyntaxIsClosed, NEW v \in Seq(Operation)
  PROVE  /\ Optionally("Operations", v) \subseteq Seq(Token)
         /\ v # <<>> => Word(Spelling(v[1].op)) ** Tree(v[1].rhs) ** Optionally("Operations", Tail(v))
                        \subseteq Optionally("Operations", v)
PROOF
  <1>1. v = <<>> => Optionally("Operations", v) \subseteq Seq(Token)
    BY EmptySeq DEF Optionally
  <1>2. ASSUME v # <<>>
        PROVE  /\ Optionally("Operations", v) \subseteq Seq(Token)
               /\ Word(Spelling(v[1].op)) ** Tree(v[1].rhs) ** Optionally("Operations", Tail(v))
                  \subseteq Optionally("Operations", v)
    <2>1. v \in ValuesOf("Operations") /\ "Operations" \in ListCategories
      BY <1>2 DEF ValuesOf, ListCategories
    <2>2. /\ ListSentences("Operations", v) \subseteq Sentences("Operations", v)
          /\ Sentences("Operations", v) \subseteq Seq(Token)
      BY <2>1, MadeCategory
    <2>3. ListSentences("Operations", v)
          = Word(Spelling(v[1].op)) ** Tree(v[1].rhs) ** Optionally("Operations", Tail(v))
      BY DEF ListSentences
    <2>4. Optionally("Operations", v) = Sentences("Operations", v)
      BY <1>2 DEF Optionally
    <2> QED  BY <2>2, <2>3, <2>4
  <1> QED  BY <1>1, <1>2

\* Sequences of operations.
LEMMA OperationsAre ==
  /\ Seq([op : AddOp, rhs : Term]) \subseteq Seq(Operation)
  /\ Seq([op : MultOp, rhs : Factor]) \subseteq Seq(Operation)
  /\ Seq([op : RelOp, rhs : SimpleExpr]) \subseteq Seq(Operation)
PROOF
  <1>1. [op : AddOp, rhs : Term] \subseteq Operation
    BY DEF Operation
  <1>2. [op : MultOp, rhs : Factor] \subseteq Operation
    BY DEF Operation
  <1>3. [op : RelOp, rhs : SimpleExpr] \subseteq Operation
    BY DEF Operation
  <1>4. Seq([op : AddOp, rhs : Term]) \subseteq Seq(Operation)
    BY <1>1, SeqMonotonic
  <1>5. Seq([op : MultOp, rhs : Factor]) \subseteq Seq(Operation)
    BY <1>2, SeqMonotonic
  <1>6. Seq([op : RelOp, rhs : SimpleExpr]) \subseteq Seq(Operation)
    BY <1>3, SeqMonotonic
  <1> QED  BY <1>4, <1>5, <1>6

\* A list of operands.
LEMMA MakesOperands ==
  ASSUME NEW list \in Meant, NEW operator \in Meant, NEW operand \in Meant, NEW O, NEW R,
         list # "Statement", Values(list) = Operands(O, R), Values(operator) = O, Values(operand) = R,
         \A v : Spelt(list, v) = Tree(v.items[1]) ** Optionally("Operations", Ops(v)),
         \A v : Spelt(operator, v) = Word(Spelling(v)), \A v : Spelt(operand, v) = Tree(v),
         O \subseteq AddOp \cup MultOp \cup RelOp, R \subseteq Node, operand # "Statement",
         Seq([op : O, rhs : R]) \subseteq Seq(Operation)
  PROVE  /\ Makes("=inserts", <<operand, operator, list>>, list)
         /\ Makes("=vectors", <<operand>>, list)
PROOF
  <1>1. ASSUME AllTrees, NEW v1 \in Values(operand), NEW v2 \in Values(operator), NEW v3 \in Values(list)
        PROVE  Yields(list, Built("=inserts", <<v1, v2, v3>>),
                      Spelt(operand, v1) ** Spelt(operator, v2) ** Spelt(list, v3),
                      "=inserts" = "=IfThen" \/ Open(list, v3))
    <2> DEFINE r == [items |-> <<v1>> \o v3.items, ops |-> <<v2>> \o v3.ops]
               first == [op |-> v2, rhs |-> v3.items[1]]
    <2>1. Built("=inserts", <<v1, v2, v3>>) = r
      BY DEF Built, BuiltList, Enumerators, AddOp, MultOp, RelOp
    <2>2. r \in Operands(O, R) /\ r.items[1] = v1 /\ Ops(r) = <<first>> \o Ops(v3)
      <3>1. /\ InFront(v1, v2, v3) \in Operands(O, R) /\ InFront(v1, v2, v3).items[1] = v1
            /\ Ops(InFront(v1, v2, v3)) = FirstOp(v2, v3) \o Ops(v3)
        BY OperandInserted
      <3> QED  BY <3>1 DEF InFront, FirstOp
    <2> HIDE DEF r
    <2>3. Ops(v3) \in Seq([op : O, rhs : R]) /\ v3.items[1] \in R
      BY OpsAre
    <2>4. first \in [op : O, rhs : R] /\ first.op = v2 /\ first.rhs = v3.items[1]
      BY <2>3
    <2> HIDE DEF first
    <2>5. ASSUME SyntaxIsClosed
          PROVE  Spelt(operand, v1) ** Spelt(operator, v2) ** Spelt(list, v3) \subseteq Spelt(list, r)
      <3> DEFINE E == [op : O, rhs : R]
                 rest == Ops(v3)
                 all == Ops(r)
                 W1 == Tree(v1)
                 W2 == Word(Spelling(v2))
                 W3 == Tree(v3.items[1])
                 W4 == Optionally("Operations", rest)
                 W == Optionally("Operations", all)
      <3>1. all[1] = first /\ Tail(all) = rest /\ all \in Seq(E) /\ all # <<>>
        <4>1. rest \in Seq(E) /\ first \in E /\ all = <<first>> \o rest
          BY <2>2, <2>3, <2>4
        <4> HIDE DEF rest, all, E
        <4>2. CASE rest = <<>>
          <5>1. <<first>> \in Seq(E) /\ <<first>>[1] = first /\ Tail(<<first>>) = <<>> /\ <<first>> # <<>>
            BY <4>1, ListOfOne
          <5>2. all = <<first>>
            BY <4>1, <4>2, <5>1, ConcatEmptySeq
          <5> QED  BY <4>2, <5>1, <5>2
        <4>3. CASE rest # <<>>
          <5>1. rest \in Seq(E) \ {<<>>}
            BY <4>1, <4>3
          <5> QED  BY <4>1, <5>1, ListInserted
        <4> QED  BY <4>2, <4>3
      <3>2. all \in Seq(Operation) /\ rest \in Seq(Operation)
        BY <3>1, <2>3
      <3>3. /\ W1 \subseteq Seq(Token) /\ W2 \subseteq Seq(Token) /\ W3 \subseteq Seq(Token)
        BY <2>3, <2>5, TreesAreSequences, SpellingsAreTokens
      <3> HIDE DEF rest, all
      <3>4. W4 \subseteq Seq(Token) /\ W2 ** W3 ** W4 \subseteq W
        BY <3>1, <3>2, <2>4, <2>5, OperationsRead
      <3>5. Spelt(operand, v1) = W1 /\ Spelt(operator, v2) = W2 /\ Spelt(list, v3) = W3 ** W4
        BY DEF rest
      <3>6. Spelt(list, r) = W1 ** W
        BY <2>2 DEF all
      <3> HIDE DEF W1, W2, W3, W4, W
      <3>7. W3 ** W4 \subseteq Seq(Token)
        BY <3>3, <3>4, JoinsAreSequences
      <3>8. W1 ** W2 ** (W3 ** W4) = W1 ** (W2 ** (W3 ** W4))
        BY <3>3, <3>7, JoinsAssociate
      <3>9. W2 ** (W3 ** W4) = W2 ** W3 ** W4
        BY <3>3, <3>4, JoinsAssociate
      <3>10. W1 ** (W2 ** W3 ** W4) \subseteq W1 ** W
        BY <3>4, JoinsMore
      <3> QED  BY <3>5, <3>6, <3>8, <3>9, <3>10
    <2> QED  BY <2>1, <2>2, <2>5 DEF Yields
  <1>2. ASSUME AllTrees, NEW v1 \in Values(operand)
        PROVE  Yields(list, Built("=vectors", <<v1>>), Spelt(operand, v1),
                      "=vectors" = "=IfThen" \/ Open(operand, v1))
    <2> DEFINE r == [items |-> <<v1>>, ops |-> <<>>]
    <2>1. Built("=vectors", <<v1>>) = r
      BY DEF Built, BuiltList, Enumerators, AddOp, MultOp, RelOp
    <2>2. r \in Operands(O, R) /\ r.items[1] = v1 /\ Ops(r) = <<>>
      BY OneOperand
    <2> HIDE DEF r
    <2>3. ASSUME SyntaxIsClosed
          PROVE  Spelt(operand, v1) \subseteq Spelt(list, r)
      <3>1. Spelt(list, r) = Tree(v1) ** {<<>>}
        BY <2>2 DEF Optionally
      <3>2. Tree(v1) ** {<<>>} = Tree(v1)
        BY <2>3, TreesAreSequences, JoinsNothing
      <3> QED  BY <3>1, <3>2
    <2> QED  BY <2>1, <2>2, <2>3 DEF Yields
  <1>3. Makes("=inserts", <<operand, operator, list>>, list)
    BY <1>1, Makes3
  <1>4. Makes("=vectors", <<operand>>, list)
    BY <1>2, Makes1
  <1> QED  BY <1>3, <1>4

\* Terms and factors are nodes.
LEMMA OperandsAreNodes ==
  Term \subseteq Node /\ Factor \subseteq Node /\ SimpleExpr \subseteq Node
PROOF
  BY DEF Term, Factor, SimpleExpr, Of

\* The terms of a simple expression.
LEMMA MakesTermList ==
  /\ Makes("=inserts", <<"Term", "AddOperator", "TermList">>, "TermList")
  /\ Makes("=vectors", <<"Term">>, "TermList")
PROOF
  <1> DEFINE list == "TermList"
             operator == "AddOperator"
             operand == "Term"
  <1>1. /\ list \in Meant /\ list # "Statement" /\ Values(list) = Operands(AddOp, Term)
        /\ \A v : Spelt(list, v) = Tree(v.items[1]) ** Optionally("Operations", Ops(v))
    BY TermListSort
  <1>2. /\ operator \in Meant /\ Values(operator) = AddOp
        /\ \A v : Spelt(operator, v) = Word(Spelling(v))
    BY AddOperatorSort
  <1>3. /\ operand \in Meant /\ operand # "Statement" /\ Values(operand) = Term
        /\ \A v : Spelt(operand, v) = Tree(v)
    BY TermSort
  <1> HIDE DEF list, operator, operand
  <1> QED  BY <1>1, <1>2, <1>3, OperandsAreNodes, OperationsAre, MakesOperands DEF list, operator, operand

\* The factors of a term.
LEMMA MakesFactorList ==
  /\ Makes("=inserts", <<"Factor", "MultOperator", "FactorList">>, "FactorList")
  /\ Makes("=vectors", <<"Factor">>, "FactorList")
PROOF
  <1> DEFINE list == "FactorList"
             operator == "MultOperator"
             operand == "Factor"
  <1>1. /\ list \in Meant /\ list # "Statement" /\ Values(list) = Operands(MultOp, Factor)
        /\ \A v : Spelt(list, v) = Tree(v.items[1]) ** Optionally("Operations", Ops(v))
    BY FactorListSort
  <1>2. /\ operator \in Meant /\ Values(operator) = MultOp
        /\ \A v : Spelt(operator, v) = Word(Spelling(v))
    BY MultOperatorSort
  <1>3. /\ operand \in Meant /\ operand # "Statement" /\ Values(operand) = Factor
        /\ \A v : Spelt(operand, v) = Tree(v)
    BY FactorSort
  <1> HIDE DEF list, operator, operand
  <1> QED  BY <1>1, <1>2, <1>3, OperandsAreNodes, OperationsAre, MakesOperands DEF list, operator, operand

\* A term.
LEMMA MakesTerm ==
  Makes("=Term", <<"FactorList">>, "Term")
PROOF
  <1>1. "FactorList" \in Meant /\ "Term" \in Meant
    BY FactorListSort, TermSort
  <1>2. ASSUME AllTrees, NEW v1 \in Values("FactorList")
        PROVE  Yields("Term", Built("=Term", <<v1>>), Spelt("FactorList", v1),
                      "=Term" = "=IfThen" \/ Open("FactorList", v1))
    <2> DEFINE start == v1.items[1]
               ops == Ops(v1)
               n == [kind |-> "Term", start |-> start, ops |-> ops]
    <2>1. v1 \in Operands(MultOp, Factor)
      BY FactorListSort
    <2>2. start \in Factor /\ ops \in Seq([op : MultOp, rhs : Factor])
      BY <2>1, OpsAre
    <2>3. Built("=Term", <<v1>>) = n
      BY DEF Built, BuiltExpr, Enumerators, AddOp, MultOp, RelOp
    <2>4. Spelt("FactorList", v1) = Tree(start) ** Optionally("Operations", ops)
      BY FactorListSort
    <2> HIDE DEF start, ops
    <2>5. n.kind = "Term" /\ n.start = start /\ n.ops = ops /\ n.kind \in ChainKinds /\ IsChain(n)
      BY <2>2 DEF IsChain, ChainKinds
    <2> HIDE DEF n
    <2>6. n \in Node /\ (SyntaxIsClosed => ChainSentences(n) \subseteq Tree(n))
      BY <1>2, <2>5, MadeChain
    <2>7. n \in Values("Term") /\ Spelt("Term", n) = Tree(n)
      BY <2>5, <2>6, TermSort DEF Term, Of
    <2>8. ASSUME SyntaxIsClosed
          PROVE  ChainSentences(n) = Tree(start) ** Optionally("Operations", ops)
      <3>1. ChainSentences(n) = {<<>>} ** Tree(start) ** Optionally("Operations", ops)
        BY <2>5 DEF ChainSentences
      <3>2. {<<>>} ** Tree(start) = Tree(start)
        BY <2>2, <2>8, OperandsAreNodes, TreesAreSequences, JoinsNothing
      <3> QED  BY <3>1, <3>2
    <2> QED  BY <2>3, <2>4, <2>6, <2>7, <2>8 DEF Yields
  <1> QED  BY <1>1, <1>2, Makes1

\* A simple expression.
LEMMA MakesSimpleExpr ==
  Makes("=SimpleExpr", <<"SignOpt", "TermList">>, "SimpleExpression")
PROOF
  <1>1. "SignOpt" \in Meant /\ "TermList" \in Meant /\ "SimpleExpression" \in Meant
    BY SignOptSort, TermListSort, SimpleExpressionSort
  <1>2. ASSUME AllTrees, NEW v1 \in Values("SignOpt"), NEW v2 \in Values("TermList")
        PROVE  Yields("SimpleExpression", Built("=SimpleExpr", <<v1, v2>>),
                      Spelt("SignOpt", v1) ** Spelt("TermList", v2),
                      "=SimpleExpr" = "=IfThen" \/ Open("TermList", v2))
    <2> DEFINE start == v2.items[1]
               ops == Ops(v2)
               n == [kind |-> "SimpleExpr", unary |-> v1, start |-> start, ops |-> ops]
    <2>1. v1 \in Sign /\ v2 \in Operands(AddOp, Term)
      BY SignOptSort, TermListSort
    <2>2. start \in Term /\ ops \in Seq([op : AddOp, rhs : Term])
      BY <2>1, OpsAre
    <2>3. Built("=SimpleExpr", <<v1, v2>>) = n
      BY DEF Built, BuiltExpr, Enumerators, AddOp, MultOp, RelOp
    <2>4. /\ Spelt("SignOpt", v1) = SignOf(v1)
          /\ Spelt("TermList", v2) = Tree(start) ** Optionally("Operations", ops)
      BY SignOptSort, TermListSort
    <2> HIDE DEF start, ops
    <2>5. /\ n.kind = "SimpleExpr" /\ n.unary = v1 /\ n.start = start /\ n.ops = ops
          /\ n.kind \in ChainKinds /\ IsChain(n)
      BY <2>1, <2>2 DEF IsChain, ChainKinds
    <2> HIDE DEF n
    <2>6. n \in Node /\ (SyntaxIsClosed => ChainSentences(n) \subseteq Tree(n))
      BY <1>2, <2>5, MadeChain
    <2>7. n \in Values("SimpleExpression") /\ Spelt("SimpleExpression", n) = Tree(n)
      BY <2>5, <2>6, SimpleExpressionSort DEF SimpleExpr, Of
    <2>8. ASSUME SyntaxIsClosed
          PROVE  ChainSentences(n) = SignOf(v1) ** (Tree(start) ** Optionally("Operations", ops))
      <3>1. ChainSentences(n) = SignOf(v1) ** Tree(start) ** Optionally("Operations", ops)
        BY <2>5 DEF ChainSentences
      <3>2. Tree(start) \subseteq Seq(Token) /\ SignOf(v1) \subseteq Seq(Token)
        BY <2>1, <2>2, <2>8, OperandsAreNodes, TreesAreSequences, SignsAreTokens
      <3>3. Optionally("Operations", ops) \subseteq Seq(Token)
        BY <2>2, <2>8, OperationsAre, OperationsRead
      <3> QED  BY <3>1, <3>2, <3>3, JoinsAssociate
    <2> QED  BY <2>3, <2>4, <2>6, <2>7, <2>8 DEF Yields
  <1> QED  BY <1>1, <1>2, Makes2

\* An expression without a relation.
LEMMA MakesExpr ==
  Makes("=Expr", <<"SimpleExpression">>, "Expression")
PROOF
  <1>1. "SimpleExpression" \in Meant /\ "Expression" \in Meant
    BY SimpleExpressionSort, ExpressionSort
  <1>2. ASSUME AllTrees, NEW v1 \in Values("SimpleExpression")
        PROVE  Yields("Expression", Built("=Expr", <<v1>>), Spelt("SimpleExpression", v1),
                      "=Expr" = "=IfThen" \/ Open("SimpleExpression", v1))
    <2> DEFINE ops == <<>>
               n == [kind |-> "Expr", start |-> v1, ops |-> ops]
    <2>1. v1 \in SimpleExpr /\ Spelt("SimpleExpression", v1) = Tree(v1)
      BY SimpleExpressionSort
    <2>2. ops \in Seq([op : RelOp, rhs : SimpleExpr]) /\ Len(ops) = 0
      BY EmptySeq
    <2>3. Built("=Expr", <<v1>>) = n
      BY DEF Built, BuiltExpr, Enumerators, AddOp, MultOp, RelOp
    <2>4. Optionally("Operations", ops) = {<<>>}
      BY DEF Optionally
    <2> HIDE DEF ops
    <2>5. n.kind = "Expr" /\ n.start = v1 /\ n.ops = ops /\ n.kind \in ChainKinds /\ IsChain(n)
      <3>1. n.kind = "Expr" /\ n.start = v1 /\ n.ops = ops
        OBVIOUS
      <3>2. n \in [kind : {"Expr"}, start : SimpleExpr, ops : Seq([op : RelOp, rhs : SimpleExpr])]
        BY <2>1, <2>2
      <3> HIDE DEF n
      <3>3. Len(n.ops) <= 1 /\ n.kind \in ChainKinds
        BY <3>1, <2>2 DEF ChainKinds
      <3> QED  BY <3>1, <3>2, <3>3 DEF IsChain
    <2> HIDE DEF n
    <2>6. n \in Node /\ (SyntaxIsClosed => ChainSentences(n) \subseteq Tree(n))
      BY <1>2, <2>5, MadeChain
    <2>7. n \in Values("Expression") /\ Spelt("Expression", n) = Tree(n)
      BY <2>5, <2>6, ExpressionSort DEF Expr, Of
    <2>8. ASSUME SyntaxIsClosed
          PROVE  ChainSentences(n) = Tree(v1)
      <3>1. ChainSentences(n) = {<<>>} ** Tree(v1) ** {<<>>}
        BY <2>4, <2>5 DEF ChainSentences
      <3>2. {<<>>} ** Tree(v1) = Tree(v1) /\ Tree(v1) ** {<<>>} = Tree(v1)
        BY <2>1, <2>8, OperandsAreNodes, TreesAreSequences, JoinsNothing
      <3> QED  BY <3>1, <3>2
    <2> QED  BY <2>1, <2>3, <2>6, <2>7, <2>8 DEF Yields
  <1> QED  BY <1>1, <1>2, Makes1

\* An expression with one.
LEMMA MakesRelation ==
  Makes("=Relation", <<"SimpleExpression", "Relation", "SimpleExpression">>, "Expression")
PROOF
  <1>1. "SimpleExpression" \in Meant /\ "Relation" \in Meant /\ "Expression" \in Meant
    BY SimpleExpressionSort, RelationSort, ExpressionSort
  <1>2. ASSUME AllTrees, NEW v1 \in Values("SimpleExpression"), NEW v2 \in Values("Relation"),
               NEW v3 \in Values("SimpleExpression")
        PROVE  Yields("Expression", Built("=Relation", <<v1, v2, v3>>),
                      Spelt("SimpleExpression", v1) ** Spelt("Relation", v2) ** Spelt("SimpleExpression", v3),
                      "=Relation" = "=IfThen" \/ Open("SimpleExpression", v3))
    <2> DEFINE operation == [op |-> v2, rhs |-> v3]
               ops == <<operation>>
               n == [kind |-> "Expr", start |-> v1, ops |-> ops]
               E == [op : RelOp, rhs : SimpleExpr]
    <2>1. /\ v1 \in SimpleExpr /\ v2 \in RelOp /\ v3 \in SimpleExpr
          /\ Spelt("SimpleExpression", v1) = Tree(v1) /\ Spelt("Relation", v2) = Word(Spelling(v2))
          /\ Spelt("SimpleExpression", v3) = Tree(v3)
      BY SimpleExpressionSort, RelationSort
    <2>2. Built("=Relation", <<v1, v2, v3>>) = n
      BY DEF Built, BuiltExpr, Enumerators, AddOp, MultOp, RelOp
    <2>3. operation \in E /\ operation.op = v2 /\ operation.rhs = v3
      BY <2>1
    <2> HIDE DEF operation, E
    <2>4. /\ ops \in Seq(E) /\ Len(ops) = 1 /\ ops[1] = operation /\ ops # <<>>
          /\ Tail(ops) = <<>>
      BY <2>3, ListOfOne
    <2> HIDE DEF ops
    <2>5. n.kind = "Expr" /\ n.start = v1 /\ n.ops = ops /\ n.kind \in ChainKinds /\ IsChain(n)
      <3>1. n.kind = "Expr" /\ n.start = v1 /\ n.ops = ops
        OBVIOUS
      <3>2. n \in [kind : {"Expr"}, start : SimpleExpr, ops : Seq(E)]
        BY <2>1, <2>4
      <3> HIDE DEF n
      <3>3. Len(n.ops) <= 1 /\ n.kind \in ChainKinds
        BY <3>1, <2>4 DEF ChainKinds
      <3> QED  BY <3>1, <3>2, <3>3 DEF IsChain, E
    <2> HIDE DEF n
    <2>6. n \in Node /\ (SyntaxIsClosed => ChainSentences(n) \subseteq Tree(n))
      BY <1>2, <2>5, MadeChain
    <2>7. n \in Values("Expression") /\ Spelt("Expression", n) = Tree(n)
      BY <2>5, <2>6, ExpressionSort DEF Expr, Of
    <2>8. ASSUME SyntaxIsClosed
          PROVE  Tree(v1) ** Word(Spelling(v2)) ** Tree(v3) \subseteq ChainSentences(n)
      <3> DEFINE W1 == Tree(v1)
                 W2 == Word(Spelling(v2))
                 W3 == Tree(v3)
                 W == Optionally("Operations", ops)
      <3>1. ChainSentences(n) = {<<>>} ** W1 ** W
        BY <2>5 DEF ChainSentences
      <3>2. W1 \subseteq Seq(Token) /\ W2 \subseteq Seq(Token) /\ W3 \subseteq Seq(Token)
        BY <2>1, <2>8, OperandsAreNodes, TreesAreSequences, SpellingsAreTokens
      <3>3. ops \in Seq(Operation)
        BY <2>4, OperationsAre DEF E
      <3>4. W2 ** W3 ** {<<>>} \subseteq W
        <4>1. W2 ** W3 ** Optionally("Operations", Tail(ops)) \subseteq W
          BY <2>3, <2>4, <2>8, <3>3, OperationsRead
        <4>2. Optionally("Operations", Tail(ops)) = {<<>>}
          BY <2>4 DEF Optionally
        <4> QED  BY <4>1, <4>2
      <3> HIDE DEF W1, W2, W3, W
      <3>5. W2 ** W3 \subseteq Seq(Token)
        BY <3>2, JoinsAreSequences
      <3>6. W2 ** W3 ** {<<>>} = W2 ** W3 /\ {<<>>} ** W1 = W1
        BY <3>2, <3>5, JoinsNothing
      <3>7. W1 ** W2 ** W3 = W1 ** (W2 ** W3)
        BY <3>2, JoinsAssociate
      <3>8. W1 ** (W2 ** W3) \subseteq W1 ** W
        BY <3>4, <3>6, JoinsMore
      <3> QED  BY <3>1, <3>6, <3>7, <3>8 DEF W1, W2, W3
    <2> QED  BY <2>1, <2>2, <2>6, <2>7, <2>8 DEF Yields
  <1> QED  BY <1>1, <1>2, Makes3

-----------------------------------------------------------------------------
(* All actions.                                                            *)

\* Of these nothing is promised.
LEMMA NothingIsMeant ==
  /\ "CompilationUnit" \notin Meant /\ "ElementListOpt" \notin Meant
  /\ "ElementList" \notin Meant /\ "Element" \notin Meant
PROOF
  <1>1. /\ "CompilationUnit" \notin NodeSorts /\ "ElementListOpt" \notin NodeSorts
        /\ "ElementList" \notin NodeSorts /\ "Element" \notin NodeSorts
    BY DEF NodeSorts
  <1>2. /\ "CompilationUnit" \notin CategorySorts /\ "ElementListOpt" \notin CategorySorts
        /\ "ElementList" \notin CategorySorts /\ "Element" \notin CategorySorts
    BY DEF CategorySorts, PartCategories, ListCategories
  <1>3. /\ "CompilationUnit" \notin OtherSorts /\ "ElementListOpt" \notin OtherSorts
        /\ "ElementList" \notin OtherSorts /\ "Element" \notin OtherSorts
    BY DEF OtherSorts
  <1>4. /\ "CompilationUnit" \notin Kinds /\ "ElementListOpt" \notin Kinds
        /\ "ElementList" \notin Kinds /\ "Element" \notin Kinds
    BY DEF Kinds, HasValue
  <1> QED  BY <1>1, <1>2, <1>3, <1>4 DEF Meant

\* An action makes what its signature says of as many values as it takes.
AsSigned(signature) ==
  /\ Makes(signature[1], signature[2], signature[3])
  /\ Arity(signature[1]) = Len(signature[2]) /\ signature[2] \in Seq(Names)

\* Of none.
LEMMA Signed0 ==
  ASSUME NEW x, NEW gives, Makes(x, <<>>, gives), Arity(x) = 0
  PROVE  AsSigned(<<x, <<>>, gives>>)
PROOF
  <1> DEFINE takes == <<>>
  <1>1. takes \in Seq(Names) /\ Len(takes) = 0
    BY EmptySeq
  <1>2. Makes(x, takes, gives)
    OBVIOUS
  <1> HIDE DEF takes
  <1>3. AsSigned(<<x, takes, gives>>)
    BY <1>1, <1>2 DEF AsSigned
  <1> QED  BY <1>3 DEF takes

\* Of one.
LEMMA Signed1 ==
  ASSUME NEW x, NEW s1 \in Names, NEW gives, Makes(x, <<s1>>, gives), Arity(x) = 1
  PROVE  AsSigned(<<x, <<s1>>, gives>>)
PROOF
  <1> DEFINE takes == <<s1>>
  <1>1. takes \in Seq(Names) /\ Len(takes) = 1
    BY Sequence1
  <1>2. Makes(x, takes, gives)
    OBVIOUS
  <1> HIDE DEF takes
  <1>3. AsSigned(<<x, takes, gives>>)
    BY <1>1, <1>2 DEF AsSigned
  <1> QED  BY <1>3 DEF takes

\* Of 2.
LEMMA Signed2 ==
  ASSUME NEW x, NEW s1 \in Names, NEW s2 \in Names, NEW gives, Makes(x, <<s1, s2>>, gives),
         Arity(x) = 2
  PROVE  AsSigned(<<x, <<s1, s2>>, gives>>)
PROOF
  <1> DEFINE takes == <<s1, s2>>
  <1>1. takes \in Seq(Names) /\ Len(takes) = 2
    BY Sequence2
  <1>2. Makes(x, takes, gives)
    OBVIOUS
  <1> HIDE DEF takes
  <1>3. AsSigned(<<x, takes, gives>>)
    BY <1>1, <1>2 DEF AsSigned
  <1> QED  BY <1>3 DEF takes

\* Of 3.
LEMMA Signed3 ==
  ASSUME NEW x, NEW s1 \in Names, NEW s2 \in Names, NEW s3 \in Names, NEW gives,
         Makes(x, <<s1, s2, s3>>, gives), Arity(x) = 3
  PROVE  AsSigned(<<x, <<s1, s2, s3>>, gives>>)
PROOF
  <1> DEFINE takes == <<s1, s2, s3>>
  <1>1. takes \in Seq(Names) /\ Len(takes) = 3
    BY Sequence3
  <1>2. Makes(x, takes, gives)
    OBVIOUS
  <1> HIDE DEF takes
  <1>3. AsSigned(<<x, takes, gives>>)
    BY <1>1, <1>2 DEF AsSigned
  <1> QED  BY <1>3 DEF takes

\* Of 4.
LEMMA Signed4 ==
  ASSUME NEW x, NEW s1 \in Names, NEW s2 \in Names, NEW s3 \in Names, NEW s4 \in Names, NEW gives,
         Makes(x, <<s1, s2, s3, s4>>, gives), Arity(x) = 4
  PROVE  AsSigned(<<x, <<s1, s2, s3, s4>>, gives>>)
PROOF
  <1> DEFINE takes == <<s1, s2, s3, s4>>
  <1>1. takes \in Seq(Names) /\ Len(takes) = 4
    BY Sequence4
  <1>2. Makes(x, takes, gives)
    OBVIOUS
  <1> HIDE DEF takes
  <1>3. AsSigned(<<x, takes, gives>>)
    BY <1>1, <1>2 DEF AsSigned
  <1> QED  BY <1>3 DEF takes

\* Of 5.
LEMMA Signed5 ==
  ASSUME NEW x, NEW s1 \in Names, NEW s2 \in Names, NEW s3 \in Names, NEW s4 \in Names,
         NEW s5 \in Names, NEW gives, Makes(x, <<s1, s2, s3, s4, s5>>, gives), Arity(x) = 5
  PROVE  AsSigned(<<x, <<s1, s2, s3, s4, s5>>, gives>>)
PROOF
  <1> DEFINE takes == <<s1, s2, s3, s4, s5>>
  <1>1. takes \in Seq(Names) /\ Len(takes) = 5
    BY Sequence5
  <1>2. Makes(x, takes, gives)
    OBVIOUS
  <1> HIDE DEF takes
  <1>3. AsSigned(<<x, takes, gives>>)
    BY <1>1, <1>2 DEF AsSigned
  <1> QED  BY <1>3 DEF takes

\* Of 6.
LEMMA Signed6 ==
  ASSUME NEW x, NEW s1 \in Names, NEW s2 \in Names, NEW s3 \in Names, NEW s4 \in Names,
         NEW s5 \in Names, NEW s6 \in Names, NEW gives, Makes(x, <<s1, s2, s3, s4, s5, s6>>, gives),
         Arity(x) = 6
  PROVE  AsSigned(<<x, <<s1, s2, s3, s4, s5, s6>>, gives>>)
PROOF
  <1> DEFINE takes == <<s1, s2, s3, s4, s5, s6>>
  <1>1. takes \in Seq(Names) /\ Len(takes) = 6
    BY Sequence6
  <1>2. Makes(x, takes, gives)
    OBVIOUS
  <1> HIDE DEF takes
  <1>3. AsSigned(<<x, takes, gives>>)
    BY <1>1, <1>2 DEF AsSigned
  <1> QED  BY <1>3 DEF takes

\* Of 8.
LEMMA Signed8 ==
  ASSUME NEW x, NEW s1 \in Names, NEW s2 \in Names, NEW s3 \in Names, NEW s4 \in Names,
         NEW s5 \in Names, NEW s6 \in Names, NEW s7 \in Names, NEW s8 \in Names, NEW gives,
         Makes(x, <<s1, s2, s3, s4, s5, s6, s7, s8>>, gives), Arity(x) = 8
  PROVE  AsSigned(<<x, <<s1, s2, s3, s4, s5, s6, s7, s8>>, gives>>)
PROOF
  <1> DEFINE takes == <<s1, s2, s3, s4, s5, s6, s7, s8>>
  <1>1. takes \in Seq(Names) /\ Len(takes) = 8
    BY Sequence8
  <1>2. Makes(x, takes, gives)
    OBVIOUS
  <1> HIDE DEF takes
  <1>3. AsSigned(<<x, takes, gives>>)
    BY <1>1, <1>2 DEF AsSigned
  <1> QED  BY <1>3 DEF takes

\* Declarations.
LEMMA DeclarationSigned ==
  \A signature \in DeclarationSignatures : AsSigned(signature)
PROOF
  <1>a1. Arity("=set_ast") = 2 /\ Arity("=ProgramModule") = 6 /\ Arity("=parameters") = 3 /\
          Arity("=empty") = 0 /\ Arity("=insert") = 3 /\ Arity("=vector") = 1 /\
          Arity("=Block") = 2 /\ Arity("=Declarations") = 4 /\ Arity("=last") = 2 /\
          Arity("=first") = 1 /\ Arity("=vector;") = 2 /\ Arity("=ConstDef") = 3
    BY DEF Arity, Enumerators, AddOp, MultOp, RelOp
  <1>a2. Arity("=TypeDef") = 3 /\ Arity("=VarDecl") = 3 /\ Arity("=prepend") = 2 /\
          Arity("=SubprogDecl") = 2 /\ Arity("=ProcDecl") = 3 /\ Arity("=FuncDecl") = 5 /\
          Arity("=ProcHeading") = 3 /\ Arity("=inner") = 3 /\ Arity("=FormalParam") = 4
    BY DEF Arity, Enumerators, AddOp, MultOp, RelOp
  <1>n1. "(" \in Names /\ ")" \in Names /\ "," \in Names /\ "." \in Names /\ ":" \in Names /\
          ";" \in Names /\ "=" \in Names /\ "Block" \in Names /\ "ConstExpression" \in Names /\
          "ConstantDef" \in Names /\ "ConstantDefBlockOpt" \in Names /\
          "ConstantDefList" \in Names /\ "Declarations" \in Names /\ "EOF" \in Names /\
          "FormalParametersOpt" \in Names /\ "FunctionDecl" \in Names
    BY KindsArePlain, RulesArePlain DEF Names
  <1>n2. "FunctionHeading" \in Names /\ "IdentList" \in Names /\ "OneFormalParam" \in Names /\
          "OneFormalParamList" \in Names /\ "ProcedureDecl" \in Names /\
          "ProcedureHeading" \in Names /\ "ProgramModule" \in Names /\
          "ProgramParametersOpt" \in Names /\ "StatementSequence" \in Names /\
          "SubprogDecl" \in Names /\ "SubprogDeclList" \in Names /\
          "SubprogDeclListOpt" \in Names /\ "Type" \in Names /\ "TypeDef" \in Names /\
          "TypeDefBlockOpt" \in Names /\ "TypeDefList" \in Names
    BY KindsArePlain, RulesArePlain DEF Names
  <1>n3. "VariableDecl" \in Names /\ "VariableDeclBlockOpt" \in Names /\
          "VariableDeclList" \in Names /\ "const" \in Names /\ "function" \in Names /\
          "identifier" \in Names /\ "procedure" \in Names /\ "program" \in Names /\
          "type" \in Names /\ "var" \in Names
    BY KindsArePlain, RulesArePlain DEF Names
  <1>m1. Makes("=set_ast", <<"ProgramModule", "EOF">>, "CompilationUnit")
    <2>1. Len(<<"ProgramModule", "EOF">>) = 2 /\ 2 \in 0..3
      OBVIOUS
    <2> QED  BY <2>1, NothingIsMeant, MakesNothing
  <1>s1. AsSigned(<<"=set_ast", <<"ProgramModule", "EOF">>, "CompilationUnit">>)
    BY <1>a1, <1>n1, <1>n2, <1>m1, Signed2, Zenon
  <1>s2. AsSigned(<<"=ProgramModule", <<"program", "identifier", "ProgramParametersOpt", ";", "Block", ".">>,
                                      "ProgramModule">>)
    BY <1>a1, <1>n1, <1>n2, <1>n3, MakesProgramModule, Signed6, Zenon
  <1>s3. AsSigned(<<"=parameters", <<"(", "IdentList", ")">>, "ProgramParametersOpt">>)
    BY <1>a1, <1>n1, <1>n2, MakesParameters, Signed3, Zenon
  <1>s4. AsSigned(<<"=empty", <<>>, "ProgramParametersOpt">>)
    BY <1>a1, MakesNoProgramParameters, Signed0, Zenon
  <1>s5. AsSigned(<<"=insert", <<"identifier", ",", "IdentList">>, "IdentList">>)
    BY <1>a1, <1>n1, <1>n2, <1>n3, MakesIdentList, Signed3, Zenon
  <1>s6. AsSigned(<<"=vector", <<"identifier">>, "IdentList">>)
    BY <1>a1, <1>n3, MakesIdentList, Signed1, Zenon
  <1>s7. AsSigned(<<"=Block", <<"Declarations", "StatementSequence">>, "Block">>)
    BY <1>a1, <1>n1, <1>n2, MakesBlock, Signed2, Zenon
  <1>s8. AsSigned(<<"=Declarations", <<"ConstantDefBlockOpt", "TypeDefBlockOpt", "VariableDeclBlockOpt", "SubprogDeclListOpt">>,
                                     "Declarations">>)
    BY <1>a1, <1>n1, <1>n2, <1>n3, MakesDeclarations, Signed4, Zenon
  <1>s9. AsSigned(<<"=last", <<"const", "ConstantDefList">>, "ConstantDefBlockOpt">>)
    BY <1>a1, <1>n1, <1>n3, MakesConstantDefBlock, Signed2, Zenon
  <1>s10. AsSigned(<<"=empty", <<>>, "ConstantDefBlockOpt">>)
    BY <1>a1, MakesNoConstantDefBlock, Signed0, Zenon
  <1>s11. AsSigned(<<"=last", <<"type", "TypeDefList">>, "TypeDefBlockOpt">>)
    BY <1>a1, <1>n2, <1>n3, MakesTypeDefBlock, Signed2, Zenon
  <1>s12. AsSigned(<<"=empty", <<>>, "TypeDefBlockOpt">>)
    BY <1>a1, MakesNoTypeDefBlock, Signed0, Zenon
  <1>s13. AsSigned(<<"=last", <<"var", "VariableDeclList">>, "VariableDeclBlockOpt">>)
    BY <1>a1, <1>n3, MakesVariableDeclBlock, Signed2, Zenon
  <1>s14. AsSigned(<<"=empty", <<>>, "VariableDeclBlockOpt">>)
    BY <1>a1, MakesNoVariableDeclBlock, Signed0, Zenon
  <1>s15. AsSigned(<<"=first", <<"SubprogDeclList">>, "SubprogDeclListOpt">>)
    BY <1>a1, <1>n2, MakesSubprogDeclListOpt, Signed1, Zenon
  <1>s16. AsSigned(<<"=empty", <<>>, "SubprogDeclListOpt">>)
    BY <1>a1, MakesNoSubprogDeclList, Signed0, Zenon
  <1>s17. AsSigned(<<"=insert", <<"ConstantDef", ";", "ConstantDefList">>, "ConstantDefList">>)
    BY <1>a1, <1>n1, MakesConstantDefList, Signed3, Zenon
  <1>s18. AsSigned(<<"=vector;", <<"ConstantDef", ";">>, "ConstantDefList">>)
    BY <1>a1, <1>n1, MakesConstantDefList, Signed2, Zenon
  <1>s19. AsSigned(<<"=insert", <<"TypeDef", ";", "TypeDefList">>, "TypeDefList">>)
    BY <1>a1, <1>n1, <1>n2, MakesTypeDefList, Signed3, Zenon
  <1>s20. AsSigned(<<"=vector;", <<"TypeDef", ";">>, "TypeDefList">>)
    BY <1>a1, <1>n1, <1>n2, MakesTypeDefList, Signed2, Zenon
  <1>s21. AsSigned(<<"=insert", <<"VariableDecl", ";", "VariableDeclList">>, "VariableDeclList">>)
    BY <1>a1, <1>n1, <1>n3, MakesVariableDeclList, Signed3, Zenon
  <1>s22. AsSigned(<<"=vector;", <<"VariableDecl", ";">>, "VariableDeclList">>)
    BY <1>a1, <1>n1, <1>n3, MakesVariableDeclList, Signed2, Zenon
  <1>s23. AsSigned(<<"=ConstDef", <<"identifier", "=", "ConstExpression">>, "ConstantDef">>)
    BY <1>a1, <1>n1, <1>n3, MakesConstDef, Signed3, Zenon
  <1>s24. AsSigned(<<"=TypeDef", <<"identifier", "=", "Type">>, "TypeDef">>)
    BY <1>a2, <1>n1, <1>n2, <1>n3, MakesTypeDef, Signed3, Zenon
  <1>s25. AsSigned(<<"=VarDecl", <<"IdentList", ":", "Type">>, "VariableDecl">>)
    BY <1>a2, <1>n1, <1>n2, MakesVarDecl, Signed3, Zenon
  <1>s26. AsSigned(<<"=prepend", <<"SubprogDecl", "SubprogDeclList">>, "SubprogDeclList">>)
    BY <1>a2, <1>n2, MakesSubprograms, Signed2, Zenon
  <1>s27. AsSigned(<<"=vector", <<"SubprogDecl">>, "SubprogDeclList">>)
    BY <1>a1, <1>n2, MakesSubprograms, Signed1, Zenon
  <1>s28. AsSigned(<<"=SubprogDecl", <<"ProcedureDecl", ";">>, "SubprogDecl">>)
    BY <1>a2, <1>n1, <1>n2, MakesProcedure, Signed2, Zenon
  <1>s29. AsSigned(<<"=SubprogDecl", <<"FunctionDecl", ";">>, "SubprogDecl">>)
    BY <1>a2, <1>n1, MakesFunction, Signed2, Zenon
  <1>s30. AsSigned(<<"=ProcDecl", <<"ProcedureHeading", ";", "Block">>, "ProcedureDecl">>)
    BY <1>a2, <1>n1, <1>n2, MakesProcDecl, Signed3, Zenon
  <1>s31. AsSigned(<<"=FuncDecl", <<"FunctionHeading", ":", "identifier", ";", "Block">>,
                                  "FunctionDecl">>)
    BY <1>a2, <1>n1, <1>n2, <1>n3, MakesFuncDecl, Signed5, Zenon
  <1>s32. AsSigned(<<"=ProcHeading", <<"procedure", "identifier", "FormalParametersOpt">>,
                                     "ProcedureHeading">>)
    BY <1>a2, <1>n1, <1>n3, MakesProcedureHeading, Signed3, Zenon
  <1>s33. AsSigned(<<"=ProcHeading", <<"function", "identifier", "FormalParametersOpt">>,
                                     "FunctionHeading">>)
    BY <1>a2, <1>n1, <1>n3, MakesFunctionHeading, Signed3, Zenon
  <1>s34. AsSigned(<<"=inner", <<"(", "OneFormalParamList", ")">>, "FormalParametersOpt">>)
    BY <1>a2, <1>n1, <1>n2, MakesFormalParameters, Signed3, Zenon
  <1>s35. AsSigned(<<"=empty", <<>>, "FormalParametersOpt">>)
    BY <1>a1, MakesNoFormalParameters, Signed0, Zenon
  <1>s36. AsSigned(<<"=insert", <<"OneFormalParam", ";", "OneFormalParamList">>,
                                "OneFormalParamList">>)
    BY <1>a1, <1>n1, <1>n2, MakesOneFormalParamList, Signed3, Zenon
  <1>s37. AsSigned(<<"=vector", <<"OneFormalParam">>, "OneFormalParamList">>)
    BY <1>a1, <1>n2, MakesOneFormalParamList, Signed1, Zenon
  <1>s38. AsSigned(<<"=FormalParam", <<"var", "IdentList", ":", "identifier">>, "OneFormalParam">>)
    BY <1>a2, <1>n1, <1>n2, <1>n3, MakesFormalParam, Signed4, Zenon
  <1> QED  BY <1>s1, <1>s2, <1>s3, <1>s4, <1>s5, <1>s6, <1>s7, <1>s8, <1>s9, <1>s10, <1>s11, <1>s12,
              <1>s13, <1>s14, <1>s15, <1>s16, <1>s17, <1>s18, <1>s19, <1>s20, <1>s21, <1>s22,
              <1>s23, <1>s24, <1>s25, <1>s26, <1>s27, <1>s28, <1>s29, <1>s30, <1>s31, <1>s32,
              <1>s33, <1>s34, <1>s35, <1>s36, <1>s37, <1>s38, ZenonT(60) DEF DeclarationSignatures

\* Constants and types.
LEMMA ConstantAndTypeSigned ==
  \A signature \in ConstantAndTypeSignatures : AsSigned(signature)
PROOF
  <1>a1. Arity("=ConstExpr") = 2 /\ Arity("Plus") = 1 /\ Arity("Minus") = 1 /\
          Arity("None") = 0 /\ Arity("=ConstIdent") = 1 /\ Arity("=ConstNumber") = 1 /\
          Arity("=ConstTrue") = 1 /\ Arity("=ConstFalse") = 1 /\ Arity("=ConstNil") = 1 /\
          Arity("=NamedType") = 1 /\ Arity("=ArrayType") = 6 /\ Arity("=PointerType") = 2
    BY DEF Arity, Enumerators, AddOp, MultOp, RelOp
  <1>a2. Arity("=RecordType") = 3 /\ Arity("=SetType") = 3 /\ Arity("=insert") = 3 /\
          Arity("=vector") = 1 /\ Arity("=Subrange") = 3 /\ Arity("=FieldList") = 3
    BY DEF Arity, Enumerators, AddOp, MultOp, RelOp
  <1>n1. "+" \in Names /\ "," \in Names /\ "-" \in Names /\ ".." \in Names /\ ":" \in Names /\
          ";" \in Names /\ "ConstFactor" \in Names /\ "False" \in Names /\
          "FieldList" \in Names /\ "FieldListSequence" \in Names /\ "IdentList" \in Names /\
          "SignOpt" \in Names /\ "Subrange" \in Names /\ "SubrangeList" \in Names /\
          "True" \in Names /\ "Type" \in Names
    BY KindsArePlain, RulesArePlain DEF Names
  <1>n2. "[" \in Names /\ "]" \in Names /\ "^" \in Names /\ "array" \in Names /\
          "end" \in Names /\ "identifier" \in Names /\ "nil" \in Names /\ "number" \in Names /\
          "of" \in Names /\ "record" \in Names /\ "set" \in Names
    BY KindsArePlain, RulesArePlain DEF Names
  <1>s1. AsSigned(<<"=ConstExpr", <<"SignOpt", "ConstFactor">>, "ConstExpression">>)
    BY <1>a1, <1>n1, MakesConstExpr, Signed2, Zenon
  <1>s2. AsSigned(<<"Plus", <<"+">>, "SignOpt">>)
    BY <1>a1, <1>n1, MakesPlus, Signed1, Zenon
  <1>s3. AsSigned(<<"Minus", <<"-">>, "SignOpt">>)
    BY <1>a1, <1>n1, MakesMinus, Signed1, Zenon
  <1>s4. AsSigned(<<"None", <<>>, "SignOpt">>)
    BY <1>a1, MakesNone, Signed0, Zenon
  <1>s5. AsSigned(<<"=ConstIdent", <<"identifier">>, "ConstFactor">>)
    BY <1>a1, <1>n2, MakesConstIdent, Signed1, Zenon
  <1>s6. AsSigned(<<"=ConstNumber", <<"number">>, "ConstFactor">>)
    BY <1>a1, <1>n2, MakesConstNumber, Signed1, Zenon
  <1>s7. AsSigned(<<"=ConstTrue", <<"True">>, "ConstFactor">>)
    BY <1>a1, <1>n1, MakesConstTrue, Signed1, Zenon
  <1>s8. AsSigned(<<"=ConstFalse", <<"False">>, "ConstFactor">>)
    BY <1>a1, <1>n1, MakesConstFalse, Signed1, Zenon
  <1>s9. AsSigned(<<"=ConstNil", <<"nil">>, "ConstFactor">>)
    BY <1>a1, <1>n2, MakesConstNil, Signed1, Zenon
  <1>s10. AsSigned(<<"=NamedType", <<"identifier">>, "Type">>)
    BY <1>a1, <1>n2, MakesNamedType, Signed1, Zenon
  <1>s11. AsSigned(<<"=ArrayType", <<"array", "[", "SubrangeList", "]", "of", "Type">>, "Type">>)
    BY <1>a1, <1>n1, <1>n2, MakesArrayType, Signed6, Zenon
  <1>s12. AsSigned(<<"=PointerType", <<"^", "identifier">>, "Type">>)
    BY <1>a1, <1>n2, MakesPointerType, Signed2, Zenon
  <1>s13. AsSigned(<<"=RecordType", <<"record", "FieldListSequence", "end">>, "Type">>)
    BY <1>a2, <1>n1, <1>n2, MakesRecordType, Signed3, Zenon
  <1>s14. AsSigned(<<"=SetType", <<"set", "of", "Subrange">>, "Type">>)
    BY <1>a2, <1>n1, <1>n2, MakesSetType, Signed3, Zenon
  <1>s15. AsSigned(<<"=insert", <<"Subrange", ",", "SubrangeList">>, "SubrangeList">>)
    BY <1>a2, <1>n1, MakesSubrangeList, Signed3, Zenon
  <1>s16. AsSigned(<<"=vector", <<"Subrange">>, "SubrangeList">>)
    BY <1>a2, <1>n1, MakesSubrangeList, Signed1, Zenon
  <1>s17. AsSigned(<<"=Subrange", <<"ConstFactor", "..", "ConstFactor">>, "Subrange">>)
    BY <1>a2, <1>n1, MakesSubrange, Signed3, Zenon
  <1>s18. AsSigned(<<"=insert", <<"FieldList", ";", "FieldListSequence">>, "FieldListSequence">>)
    BY <1>a2, <1>n1, MakesFieldListSequence, Signed3, Zenon
  <1>s19. AsSigned(<<"=vector", <<"FieldList">>, "FieldListSequence">>)
    BY <1>a2, <1>n1, MakesFieldListSequence, Signed1, Zenon
  <1>s20. AsSigned(<<"=FieldList", <<"IdentList", ":", "Type">>, "FieldList">>)
    BY <1>a2, <1>n1, MakesFieldList, Signed3, Zenon
  <1> QED  BY <1>s1, <1>s2, <1>s3, <1>s4, <1>s5, <1>s6, <1>s7, <1>s8, <1>s9, <1>s10, <1>s11, <1>s12,
              <1>s13, <1>s14, <1>s15, <1>s16, <1>s17, <1>s18, <1>s19, <1>s20, ZenonT(60) DEF ConstantAndTypeSignatures

\* Statements.
LEMMA StatementSigned ==
  \A signature \in StatementSignatures : AsSigned(signature)
PROOF
  <1>a1. Arity("=StmtSeq") = 3 /\ Arity("=insert") = 3 /\ Arity("=vector") = 1 /\
          Arity("=CaseStmt") = 5 /\ Arity("=WhileStmt") = 4 /\ Arity("=RepeatStmt") = 4 /\
          Arity("=ForStmt") = 8 /\ Arity("=New") = 4 /\ Arity("=Dispose") = 4 /\
          Arity("=first") = 1 /\ Arity("=EmptyStmt") = 0 /\ Arity("=Designator") = 2
    BY DEF Arity, Enumerators, AddOp, MultOp, RelOp
  <1>a2. Arity("=Assignment") = 3 /\ Arity("=ProcCall") = 2 /\ Arity("=empty") = 0 /\
          Arity("=IfElse") = 6 /\ Arity("=IfThen") = 4 /\ Arity("=Case") = 3 /\ Arity("To") = 1 /\
          Arity("DownTo") = 1
    BY DEF Arity, Enumerators, AddOp, MultOp, RelOp
  <1>n1. "(" \in Names /\ ")" \in Names /\ "," \in Names /\ ":" \in Names /\ ":=" \in Names /\
          ";" \in Names /\ "ActualParameters" \in Names /\ "ActualParametersOpt" \in Names /\
          "Case" \in Names /\ "CaseLabelList" \in Names /\ "CaseList" \in Names /\
          "ConstExpression" \in Names /\ "Designator" \in Names /\
          "DesignatorStuffOpt" \in Names /\ "Dispose" \in Names /\ "Expression" \in Names
    BY KindsArePlain, RulesArePlain DEF Names
  <1>n2. "New" \in Names /\ "Statement" \in Names /\ "StatementList" \in Names /\
          "StatementSequence" \in Names /\ "WhichWay" \in Names /\ "begin" \in Names /\
          "case" \in Names /\ "do" \in Names /\ "downto" \in Names /\ "else" \in Names /\
          "end" \in Names /\ "for" \in Names /\ "identifier" \in Names /\ "if" \in Names /\
          "of" \in Names /\ "repeat" \in Names
    BY KindsArePlain, RulesArePlain DEF Names
  <1>n3. "then" \in Names /\ "to" \in Names /\ "until" \in Names /\ "while" \in Names
    BY KindsArePlain, RulesArePlain DEF Names
  <1>s1. AsSigned(<<"=StmtSeq", <<"begin", "StatementList", "end">>, "StatementSequence">>)
    BY <1>a1, <1>n2, MakesStmtSeq, Signed3, Zenon
  <1>s2. AsSigned(<<"=insert", <<"Statement", ";", "StatementList">>, "StatementList">>)
    BY <1>a1, <1>n1, <1>n2, MakesStatementList, Signed3, Zenon
  <1>s3. AsSigned(<<"=vector", <<"Statement">>, "StatementList">>)
    BY <1>a1, <1>n2, MakesStatementList, Signed1, Zenon
  <1>s4. AsSigned(<<"=CaseStmt", <<"case", "Expression", "of", "CaseList", "end">>, "Statement">>)
    BY <1>a1, <1>n1, <1>n2, MakesCaseStmt, Signed5, Zenon
  <1>s5. AsSigned(<<"=WhileStmt", <<"while", "Expression", "do", "Statement">>, "Statement">>)
    BY <1>a1, <1>n1, <1>n2, <1>n3, MakesWhileStmt, Signed4, Zenon
  <1>s6. AsSigned(<<"=RepeatStmt", <<"repeat", "StatementSequence", "until", "Expression">>,
                                   "Statement">>)
    BY <1>a1, <1>n1, <1>n2, <1>n3, MakesRepeatStmt, Signed4, Zenon
  <1>s7. AsSigned(<<"=ForStmt", <<"for", "identifier", ":=", "Expression", "WhichWay", "Expression", "do", "Statement">>,
                                "Statement">>)
    BY <1>a1, <1>n1, <1>n2, MakesForStmt, Signed8, Zenon
  <1>s8. AsSigned(<<"=New", <<"New", "(", "identifier", ")">>, "Statement">>)
    BY <1>a1, <1>n1, <1>n2, MakesNew, Signed4, Zenon
  <1>s9. AsSigned(<<"=Dispose", <<"Dispose", "(", "identifier", ")">>, "Statement">>)
    BY <1>a1, <1>n1, <1>n2, MakesDispose, Signed4, Zenon
  <1>s10. AsSigned(<<"=first", <<"StatementSequence">>, "Statement">>)
    BY <1>a1, <1>n2, MakesSequenceStatement, Signed1, Zenon
  <1>s11. AsSigned(<<"=EmptyStmt", <<>>, "Statement">>)
    BY <1>a1, MakesEmptyStmt, Signed0, Zenon
  <1>s12. AsSigned(<<"=Designator", <<"identifier", "DesignatorStuffOpt">>, "Designator">>)
    BY <1>a1, <1>n1, <1>n2, MakesDesignator, Signed2, Zenon
  <1>s13. AsSigned(<<"=Assignment", <<"Designator", ":=", "Expression">>, "Statement">>)
    BY <1>a2, <1>n1, MakesAssignment, Signed3, Zenon
  <1>s14. AsSigned(<<"=ProcCall", <<"identifier", "ActualParametersOpt">>, "Statement">>)
    BY <1>a2, <1>n1, <1>n2, MakesProcCall, Signed2, Zenon
  <1>s15. AsSigned(<<"=first", <<"ActualParameters">>, "ActualParametersOpt">>)
    BY <1>a1, <1>n1, MakesActualParametersOpt, Signed1, Zenon
  <1>s16. AsSigned(<<"=empty", <<>>, "ActualParametersOpt">>)
    BY <1>a2, MakesNoActualParameters, Signed0, Zenon
  <1>s17. AsSigned(<<"=IfElse", <<"if", "Expression", "then", "Statement", "else", "Statement">>,
                                "Statement">>)
    BY <1>a2, <1>n1, <1>n2, <1>n3, MakesIfElse, Signed6, Zenon
  <1>s18. AsSigned(<<"=IfThen", <<"if", "Expression", "then", "Statement">>, "Statement">>)
    BY <1>a2, <1>n1, <1>n2, <1>n3, MakesIfThen, Signed4, Zenon
  <1>s19. AsSigned(<<"=insert", <<"Case", ";", "CaseList">>, "CaseList">>)
    BY <1>a1, <1>n1, MakesCaseList, Signed3, Zenon
  <1>s20. AsSigned(<<"=vector", <<"Case">>, "CaseList">>)
    BY <1>a1, <1>n1, MakesCaseList, Signed1, Zenon
  <1>s21. AsSigned(<<"=Case", <<"CaseLabelList", ":", "Statement">>, "Case">>)
    BY <1>a2, <1>n1, <1>n2, MakesCase, Signed3, Zenon
  <1>s22. AsSigned(<<"=insert", <<"ConstExpression", ",", "CaseLabelList">>, "CaseLabelList">>)
    BY <1>a1, <1>n1, MakesCaseLabelList, Signed3, Zenon
  <1>s23. AsSigned(<<"=vector", <<"ConstExpression">>, "CaseLabelList">>)
    BY <1>a1, <1>n1, MakesCaseLabelList, Signed1, Zenon
  <1>s24. AsSigned(<<"To", <<"to">>, "WhichWay">>)
    BY <1>a2, <1>n3, MakesTo, Signed1, Zenon
  <1>s25. AsSigned(<<"DownTo", <<"downto">>, "WhichWay">>)
    BY <1>a2, <1>n2, MakesDownTo, Signed1, Zenon
  <1> QED  BY <1>s1, <1>s2, <1>s3, <1>s4, <1>s5, <1>s6, <1>s7, <1>s8, <1>s9, <1>s10, <1>s11, <1>s12,
              <1>s13, <1>s14, <1>s15, <1>s16, <1>s17, <1>s18, <1>s19, <1>s20, <1>s21, <1>s22,
              <1>s23, <1>s24, <1>s25, ZenonT(60) DEF StatementSignatures

\* Expressions.
LEMMA ExpressionSigned ==
  \A signature \in ExpressionSignatures : AsSigned(signature)
PROOF
  <1>a1. Arity("=first") = 1 /\ Arity("=empty") = 0 /\ Arity("=prepend") = 2 /\
          Arity("=vector") = 1 /\ Arity("=FieldAccess") = 2 /\ Arity("=ArrayAccess") = 3 /\
          Arity("=PointerAccess") = 1 /\ Arity("=inner") = 3 /\ Arity("=insert") = 3 /\
          Arity("=Relation") = 3 /\ Arity("=Expr") = 1 /\ Arity("=SimpleExpr") = 2
    BY DEF Arity, Enumerators, AddOp, MultOp, RelOp
  <1>a2. Arity("=inserts") = 3 /\ Arity("=vectors") = 1 /\ Arity("=Term") = 1 /\
          Arity("=Number") = 1 /\ Arity("=String") = 1 /\ Arity("=True") = 1 /\
          Arity("=False") = 1 /\ Arity("=Nil") = 1 /\ Arity("=Paren") = 3 /\
          Arity("=Negation") = 2 /\ Arity("=FuncCall") = 2 /\ Arity("=pair") = 3
    BY DEF Arity, Enumerators, AddOp, MultOp, RelOp
  <1>a3. Arity("Multiply") = 1 /\ Arity("RealDiv") = 1 /\ Arity("IntDiv") = 1 /\
          Arity("Modulo") = 1 /\ Arity("And") = 1 /\ Arity("Plus") = 1 /\ Arity("Minus") = 1 /\
          Arity("Or") = 1 /\ Arity("Equal") = 1 /\ Arity("NotEqual") = 1 /\ Arity("Less") = 1 /\
          Arity("Greater") = 1
    BY DEF Arity, Enumerators, AddOp, MultOp, RelOp
  <1>a4. Arity("LessEqual") = 1 /\ Arity("GreaterEqual") = 1 /\ Arity("In") = 1
    BY DEF Arity, Enumerators, AddOp, MultOp, RelOp
  <1>n1. "(" \in Names /\ ")" \in Names /\ "*" \in Names /\ "+" \in Names /\ "," \in Names /\
          "-" \in Names /\ "." \in Names /\ ".." \in Names /\ "/" \in Names /\ "<" \in Names /\
          "<=" \in Names /\ "<>" \in Names /\ "=" \in Names /\ ">" \in Names /\ ">=" \in Names /\
          "ActualParameters" \in Names
    BY KindsArePlain, RulesArePlain DEF Names
  <1>n2. "AddOperator" \in Names /\ "ConstExpression" \in Names /\ "Designator" \in Names /\
          "DesignatorItem" \in Names /\ "DesignatorStuff" \in Names /\ "Element" \in Names /\
          "ElementList" \in Names /\ "ExpList" \in Names /\ "ExpListOpt" \in Names /\
          "Expression" \in Names /\ "Factor" \in Names /\ "FactorList" \in Names /\
          "False" \in Names /\ "MultOperator" \in Names /\ "Relation" \in Names /\
          "SignOpt" \in Names
    BY KindsArePlain, RulesArePlain DEF Names
  <1>n3. "SimpleExpression" \in Names /\ "Term" \in Names /\ "TermList" \in Names /\
          "True" \in Names /\ "[" \in Names /\ "]" \in Names /\ "^" \in Names /\
          "and" \in Names /\ "div" \in Names /\ "identifier" \in Names /\ "in" \in Names /\
          "mod" \in Names /\ "nil" \in Names /\ "not" \in Names /\ "number" \in Names /\
          "or" \in Names
    BY KindsArePlain, RulesArePlain DEF Names
  <1>n4. "string" \in Names
    BY KindsArePlain, RulesArePlain DEF Names
  <1>s1. AsSigned(<<"=first", <<"DesignatorStuff">>, "DesignatorStuffOpt">>)
    BY <1>a1, <1>n2, MakesDesignatorStuffOpt, Signed1, Zenon
  <1>s2. AsSigned(<<"=empty", <<>>, "DesignatorStuffOpt">>)
    BY <1>a1, MakesNoDesignatorStuff, Signed0, Zenon
  <1>s3. AsSigned(<<"=prepend", <<"DesignatorItem", "DesignatorStuff">>, "DesignatorStuff">>)
    BY <1>a1, <1>n2, MakesDesignatorStuff, Signed2, Zenon
  <1>s4. AsSigned(<<"=vector", <<"DesignatorItem">>, "DesignatorStuff">>)
    BY <1>a1, <1>n2, MakesDesignatorStuff, Signed1, Zenon
  <1>s5. AsSigned(<<"=FieldAccess", <<".", "identifier">>, "DesignatorItem">>)
    BY <1>a1, <1>n1, <1>n3, MakesFieldAccess, Signed2, Zenon
  <1>s6. AsSigned(<<"=ArrayAccess", <<"[", "ExpList", "]">>, "DesignatorItem">>)
    BY <1>a1, <1>n2, <1>n3, MakesArrayAccess, Signed3, Zenon
  <1>s7. AsSigned(<<"=PointerAccess", <<"^">>, "DesignatorItem">>)
    BY <1>a1, <1>n3, MakesPointerAccess, Signed1, Zenon
  <1>s8. AsSigned(<<"=inner", <<"(", "ExpListOpt", ")">>, "ActualParameters">>)
    BY <1>a1, <1>n1, <1>n2, MakesActualParameters, Signed3, Zenon
  <1>s9. AsSigned(<<"=first", <<"ExpList">>, "ExpListOpt">>)
    BY <1>a1, <1>n2, MakesExpListOpt, Signed1, Zenon
  <1>s10. AsSigned(<<"=empty", <<>>, "ExpListOpt">>)
    BY <1>a1, MakesNoExpList, Signed0, Zenon
  <1>s11. AsSigned(<<"=insert", <<"Expression", ",", "ExpList">>, "ExpList">>)
    BY <1>a1, <1>n1, <1>n2, MakesExpList, Signed3, Zenon
  <1>s12. AsSigned(<<"=vector", <<"Expression">>, "ExpList">>)
    BY <1>a1, <1>n2, MakesExpList, Signed1, Zenon
  <1>s13. AsSigned(<<"=Relation", <<"SimpleExpression", "Relation", "SimpleExpression">>,
                                  "Expression">>)
    BY <1>a1, <1>n2, <1>n3, MakesRelation, Signed3, Zenon
  <1>s14. AsSigned(<<"=Expr", <<"SimpleExpression">>, "Expression">>)
    BY <1>a1, <1>n3, MakesExpr, Signed1, Zenon
  <1>s15. AsSigned(<<"=SimpleExpr", <<"SignOpt", "TermList">>, "SimpleExpression">>)
    BY <1>a1, <1>n2, <1>n3, MakesSimpleExpr, Signed2, Zenon
  <1>s16. AsSigned(<<"=inserts", <<"Term", "AddOperator", "TermList">>, "TermList">>)
    BY <1>a2, <1>n2, <1>n3, MakesTermList, Signed3, Zenon
  <1>s17. AsSigned(<<"=vectors", <<"Term">>, "TermList">>)
    BY <1>a2, <1>n3, MakesTermList, Signed1, Zenon
  <1>s18. AsSigned(<<"=Term", <<"FactorList">>, "Term">>)
    BY <1>a2, <1>n2, MakesTerm, Signed1, Zenon
  <1>s19. AsSigned(<<"=inserts", <<"Factor", "MultOperator", "FactorList">>, "FactorList">>)
    BY <1>a2, <1>n2, MakesFactorList, Signed3, Zenon
  <1>s20. AsSigned(<<"=vectors", <<"Factor">>, "FactorList">>)
    BY <1>a2, <1>n2, MakesFactorList, Signed1, Zenon
  <1>s21. AsSigned(<<"=Number", <<"number">>, "Factor">>)
    BY <1>a2, <1>n3, MakesNumber, Signed1, Zenon
  <1>s22. AsSigned(<<"=String", <<"string">>, "Factor">>)
    BY <1>a2, <1>n4, MakesString, Signed1, Zenon
  <1>s23. AsSigned(<<"=True", <<"True">>, "Factor">>)
    BY <1>a2, <1>n3, MakesTrue, Signed1, Zenon
  <1>s24. AsSigned(<<"=False", <<"False">>, "Factor">>)
    BY <1>a2, <1>n2, MakesFalse, Signed1, Zenon
  <1>s25. AsSigned(<<"=Nil", <<"nil">>, "Factor">>)
    BY <1>a2, <1>n3, MakesNil, Signed1, Zenon
  <1>s26. AsSigned(<<"=Paren", <<"(", "Expression", ")">>, "Factor">>)
    BY <1>a2, <1>n1, <1>n2, MakesParen, Signed3, Zenon
  <1>s27. AsSigned(<<"=Negation", <<"not", "Factor">>, "Factor">>)
    BY <1>a2, <1>n2, <1>n3, MakesNegation, Signed2, Zenon
  <1>s28. AsSigned(<<"=FuncCall", <<"identifier", "ActualParameters">>, "Factor">>)
    BY <1>a2, <1>n1, <1>n3, MakesFuncCall, Signed2, Zenon
  <1>s29. AsSigned(<<"=first", <<"Designator">>, "Factor">>)
    BY <1>a1, <1>n2, MakesDesignatorFactor, Signed1, Zenon
  <1>m30. Makes("=first", <<"ElementList">>, "ElementListOpt")
    <2>1. Len(<<"ElementList">>) = 1 /\ 1 \in 0..3
      OBVIOUS
    <2> QED  BY <2>1, NothingIsMeant, MakesNothing
  <1>s30. AsSigned(<<"=first", <<"ElementList">>, "ElementListOpt">>)
    BY <1>a1, <1>n2, <1>m30, Signed1, Zenon
  <1>m31. Makes("=empty", <<>>, "ElementListOpt")
    <2>1. Len(<<>>) = 0 /\ 0 \in 0..3
      OBVIOUS
    <2> QED  BY <2>1, NothingIsMeant, MakesNothing
  <1>s31. AsSigned(<<"=empty", <<>>, "ElementListOpt">>)
    BY <1>a1, <1>m31, Signed0, Zenon
  <1>m32. Makes("=insert", <<"Element", ",", "ElementList">>, "ElementList")
    <2>1. Len(<<"Element", ",", "ElementList">>) = 3 /\ 3 \in 0..3
      OBVIOUS
    <2> QED  BY <2>1, NothingIsMeant, MakesNothing
  <1>s32. AsSigned(<<"=insert", <<"Element", ",", "ElementList">>, "ElementList">>)
    BY <1>a1, <1>n1, <1>n2, <1>m32, Signed3, Zenon
  <1>m33. Makes("=vector", <<"Element">>, "ElementList")
    <2>1. Len(<<"Element">>) = 1 /\ 1 \in 0..3
      OBVIOUS
    <2> QED  BY <2>1, NothingIsMeant, MakesNothing
  <1>s33. AsSigned(<<"=vector", <<"Element">>, "ElementList">>)
    BY <1>a1, <1>n2, <1>m33, Signed1, Zenon
  <1>m34. Makes("=pair", <<"ConstExpression", "..", "ConstExpression">>, "Element")
    <2>1. Len(<<"ConstExpression", "..", "ConstExpression">>) = 3 /\ 3 \in 0..3
      OBVIOUS
    <2> QED  BY <2>1, NothingIsMeant, MakesNothing
  <1>s34. AsSigned(<<"=pair", <<"ConstExpression", "..", "ConstExpression">>, "Element">>)
    BY <1>a2, <1>n1, <1>n2, <1>m34, Signed3, Zenon
  <1>m35. Makes("=first", <<"ConstExpression">>, "Element")
    <2>1. Len(<<"ConstExpression">>) = 1 /\ 1 \in 0..3
      OBVIOUS
    <2> QED  BY <2>1, NothingIsMeant, MakesNothing
  <1>s35. AsSigned(<<"=first", <<"ConstExpression">>, "Element">>)
    BY <1>a1, <1>n2, <1>m35, Signed1, Zenon
  <1>s36. AsSigned(<<"Multiply", <<"*">>, "MultOperator">>)
    BY <1>a3, <1>n1, MakesMultiply, Signed1, Zenon
  <1>s37. AsSigned(<<"RealDiv", <<"/">>, "MultOperator">>)
    BY <1>a3, <1>n1, MakesRealDiv, Signed1, Zenon
  <1>s38. AsSigned(<<"IntDiv", <<"div">>, "MultOperator">>)
    BY <1>a3, <1>n3, MakesIntDiv, Signed1, Zenon
  <1>s39. AsSigned(<<"Modulo", <<"mod">>, "MultOperator">>)
    BY <1>a3, <1>n3, MakesModulo, Signed1, Zenon
  <1>s40. AsSigned(<<"And", <<"and">>, "MultOperator">>)
    BY <1>a3, <1>n3, MakesAnd, Signed1, Zenon
  <1>s41. AsSigned(<<"Plus", <<"+">>, "AddOperator">>)
    BY <1>a3, <1>n1, MakesBinaryPlus, Signed1, Zenon
  <1>s42. AsSigned(<<"Minus", <<"-">>, "AddOperator">>)
    BY <1>a3, <1>n1, MakesBinaryMinus, Signed1, Zenon
  <1>s43. AsSigned(<<"Or", <<"or">>, "AddOperator">>)
    BY <1>a3, <1>n3, MakesOr, Signed1, Zenon
  <1>s44. AsSigned(<<"Equal", <<"=">>, "Relation">>)
    BY <1>a3, <1>n1, MakesEqual, Signed1, Zenon
  <1>s45. AsSigned(<<"NotEqual", <<"<>">>, "Relation">>)
    BY <1>a3, <1>n1, MakesNotEqual, Signed1, Zenon
  <1>s46. AsSigned(<<"Less", <<"<">>, "Relation">>)
    BY <1>a3, <1>n1, MakesLess, Signed1, Zenon
  <1>s47. AsSigned(<<"Greater", <<">">>, "Relation">>)
    BY <1>a3, <1>n1, MakesGreater, Signed1, Zenon
  <1>s48. AsSigned(<<"LessEqual", <<"<=">>, "Relation">>)
    BY <1>a4, <1>n1, MakesLessEqual, Signed1, Zenon
  <1>s49. AsSigned(<<"GreaterEqual", <<">=">>, "Relation">>)
    BY <1>a4, <1>n1, MakesGreaterEqual, Signed1, Zenon
  <1>s50. AsSigned(<<"In", <<"in">>, "Relation">>)
    BY <1>a4, <1>n3, MakesIn, Signed1, Zenon
  <1> QED  BY <1>s1, <1>s2, <1>s3, <1>s4, <1>s5, <1>s6, <1>s7, <1>s8, <1>s9, <1>s10, <1>s11, <1>s12,
              <1>s13, <1>s14, <1>s15, <1>s16, <1>s17, <1>s18, <1>s19, <1>s20, <1>s21, <1>s22,
              <1>s23, <1>s24, <1>s25, <1>s26, <1>s27, <1>s28, <1>s29, <1>s30, <1>s31, <1>s32,
              <1>s33, <1>s34, <1>s35, <1>s36, <1>s37, <1>s38, <1>s39, <1>s40, <1>s41, <1>s42,
              <1>s43, <1>s44, <1>s45, <1>s46, <1>s47, <1>s48, <1>s49, <1>s50, ZenonT(60) DEF ExpressionSignatures

\* What every action makes.
LEMMA SignatureMakes ==
  ASSUME NEW x, NEW takes, NEW gives, <<x, takes, gives>> \in ActionSignatures
  PROVE  Makes(x, takes, gives) /\ Arity(x) = Len(takes) /\ takes \in Seq(Names)
PROOF
  <1> DEFINE signature == <<x, takes, gives>>
  <1>1. signature[1] = x /\ signature[2] = takes /\ signature[3] = gives
    OBVIOUS
  <1>2. signature \in ActionSignatures
    OBVIOUS
  <1> HIDE DEF signature
  <1>3. AsSigned(signature)
    BY <1>2, DeclarationSigned, ConstantAndTypeSigned, StatementSigned, ExpressionSigned
       DEF ActionSignatures
  <1> QED  BY <1>1, <1>3 DEF AsSigned
=============================================================================

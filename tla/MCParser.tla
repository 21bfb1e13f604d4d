------------------------------ MODULE MCParser ------------------------------
(***************************************************************************)
(* The parser on sentences of small programs, and on such sentences with a *)
(* token lost, exchanged or added.                                         *)
(***************************************************************************)
EXTENDS Parser, Programs

-----------------------------------------------------------------------------
(***************************************************************************)
(* The constants of the concrete syntax: SentencesOf refers to Sentences,  *)
(* so that these are recursive.  TLC's coverage statistics follow such a   *)
(* definition without end, unless a LET hides its body.                    *)
(***************************************************************************)
SentencesHere(c, v) == LET sentences == SentencesOf(c, v) IN sentences

EndsOpenHere(s) == LET open == EndsOpenOf(s) IN open

ParameterListsHere == {<<"i">>, <<"i", "j">>}

-----------------------------------------------------------------------------
(* The programs.  Array, set and pointer types, character constants and    *)
(* "^" are not among them: the scanner has no rule for their tokens.       *)

I == AsExpr(Id("i"))

Designators ==
  {[kind |-> "Designator", ident |-> "j",
    items |-> <<[kind |-> "FieldAccess", field |-> "f"],
                ItemAt(<<AsExpr(Num(1)), Sum2(Id("i"), "Plus", Num(2))>>)>>]}

ParsedExprs ==
  {ExprOf(SimpleOf("Minus", TermOf(Id("i"), <<[op |-> "Multiply", rhs |-> Num(2)], [op |-> "IntDiv", rhs |-> Id("j")]>>),
                   <<[op |-> "Plus", rhs |-> AsTerm(Num(3))],
                     [op |-> "Or", rhs |-> TermOf(Truth(TRUE), <<[op |-> "And", rhs |-> Not(Id("c"))]>>)]>>),
          <<[op |-> "LessEqual", rhs |-> SimpleOf("Plus", AsTerm(Id("i")), <<>>)]>>),
   AsExpr(Func("f", <<I, Relation2(Nil, "In", Func("f", <<>>))>>)),
   Product(Paren(Sum2(Num(1), "Minus", Paren(Signed("Minus", Str)))), "Modulo", Not(Not(Truth(FALSE))))}

Small == WriteInt(I)

ParsedStmts ==
  {IfThen(I, IfElse(I, Small, Nothing)),
   IfElse(I, IfElse(I, Nothing, Small), IfThen(I, Nothing)),
   IfElse(I, Compound(<<IfThen(I, Small)>>), Small),
   IfElse(I, WhileDo(I, IfElse(I, Nothing, Nothing)), Call("other", <<>>)),
   IfThen(I, WhileDo(I, IfElse(I, Small, Small))),
   CaseOf(I, <<[labels |-> <<ConstOf("None", ConstNum(1)), ConstOf("Minus", [kind |-> "ConstIdent", ident |-> "k"])>>,
                stmt |-> IfThen(I, Nothing)],
               [labels |-> <<ConstOf("None", [kind |-> "ConstNil"])>>, stmt |-> Small]>>),
   RepeatUntil(Compound(<<Nothing, NewOf("i")>>), I),
   ForTo("i", I, Sum2(Id("i"), "Plus", Num(1)), IfThen(I, ForTo("j", I, I, Nothing)))}

AFunction ==
  [kind |-> "FuncDecl", ret |-> "Integer",
   proc |-> ProcOf("f", <<[idents |-> <<"i", "j">>, type |-> "Integer"], [idents |-> <<"c">>, type |-> "Char"]>>,
                   BlockOf(<<>>, <<>>, <<Vars(<<"d">>, "Char")>>, <<>>, <<Nothing>>))]

SomeBlock ==
  BlockOf(<<AConstant, Constant("c", ConstOf("Plus", [kind |-> "ConstBool", bool |-> TRUE]))>>,
          <<Synonym("t", [kind |-> "Record", fields |-> <<[idents |-> <<"f", "k">>, type |-> Named("t")],
                                                          [idents |-> <<"q">>, type |-> Named("Char")]>>])>>,
          <<Vars(<<"i", "j">>, "t"), Vars(<<"s">>, "String")>>,
          <<AProcedure, AFunction>>, <<Nothing>>)

ParserUnits ==
  {Program(<<>>, <<AssignTo(d, e)>>) : d \in Designators, e \in ParsedExprs}
  \cup {Program(<<>>, <<s, Small>>) : s \in ParsedStmts}
  \cup {Module(SomeBlock)}

ParserTree  == NodesOfUnits(ParserUnits)
ParserNodes == ParserTree
ParserPrograms == ParserUnits

-----------------------------------------------------------------------------
(* The texts.                                                              *)

SentencesOfUnits == UNION {Tree(u) : u \in ParserUnits}

\* One sentence of every unit.
Samples == {CHOOSE s \in Tree(u) : s[3] = <<";">> : u \in ParserUnits}

Added == {<<"else">>, <<"end">>, <<";">>, <<"-">>, <<"(">>, <<"invalid">>, <<"identifier", "i">>}

Lost(s)      == {RemoveAt(s, k) : k \in DOMAIN s}
Exchanged(s) == {[s EXCEPT ![k] = s[k + 1], ![k + 1] = s[k]] : k \in 1..Len(s) - 1}
Inserted(s)  == {InsertAt(s, k, t) : k \in DOMAIN s, t \in Added}
Replaced(s)  == {ReplaceAt(s, k, t) : k \in DOMAIN s, t \in Added}

Assigning(tokens) ==
  <<<<"program">>, <<"identifier", "p">>, <<";">>, <<"begin">>, <<"identifier", "i">>, <<":=">>>>
  \o tokens \o <<<<"end">>, <<".">>>>

\* Expressions with a set.
SetTexts ==
  {Assigning(<<<<"[">>, <<"]">>>>),
   Assigning(<<<<"number", 1>>, <<"in">>, <<"[">>, <<"-">>, <<"number", 1>>, <<",">>, <<"True">>, <<"]">>>>),
   Assigning(<<<<"[">>, <<"number", 1>>, <<",">>, <<"]">>>>)}

AllTexts ==
  SentencesOfUnits \cup SetTexts
  \cup UNION {Lost(s) \cup Exchanged(s) \cup Inserted(s) \cup Replaced(s) : s \in Samples}

MCTexts == AllTexts

-----------------------------------------------------------------------------
\* An error is reported, or something thrown, only at a token that no program
\* has after the same beginning; so no sentence of a program is refused.
ErrorsAreJust ==
  phase \in {"error", "thrown"} =>
    LET refused == SubSeq(Append(text, <<"EOF">>), 1, Min({pos, Len(text) + 1}))
    IN \A s \in SentencesOfUnits : ~IsPrefix(refused, Append(s, <<"EOF">>))
=============================================================================

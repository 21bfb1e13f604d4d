------------------------------ MODULE Scanner ------------------------------
(***************************************************************************)
(* parsing/scanner.l: a text is cut into lexemes, each of which moves the  *)
(* location and, unless it is white space, becomes a token.                *)
(*                                                                         *)
(* flex itself is external: of the patterns that match it takes the one    *)
(* that matches most, and the first of those.  Characters are strings of   *)
(* length one; Keyword holds the keywords that the letters in use spell.   *)
(***************************************************************************)
EXTENDS Integers, SequencesExt, FiniteSetsExt

CONSTANTS
  Texts,      \* the texts
  Letter,     \* the letters in them
  Keyword,    \* keywords, as sequences of letters
  IntMax,     \* INT_MAX
  LongMaxes   \* the values LONG_MAX can have: that of int, or a larger one

ASSUME IntFitsLong ==
  IntMax \in Nat /\ \A long_max \in LongMaxes : long_max \in Nat /\ IntMax <= long_max

Newline == "\n"

ASSUME WordsOfLetters ==
  /\ Texts \subseteq Seq(STRING)
  /\ Keyword \subseteq Seq(Letter) \ {<<>>} /\ Newline \notin Letter

Digits == <<"0", "1", "2", "3", "4", "5", "6", "7", "8", "9">>

DigitValue(c) == CHOOSE d \in 0..9 : Digits[d + 1] = c

Digit == ToSet(Digits)

Blank == {" ", "\t", "\r"}

Quote == {"\"", "'"}

Operator ==
  { <<c>> : c \in {"-", "+", "*", "/", "(", ")", "=", "<", ">", "[", "]", ".", ",", ":", ";"} }
  \cup { <<":", "=">>, <<"<", ">">>, <<"<", "=">>, <<">", "=">> }

All(w, chars) == ToSet(w) \subseteq chars

-----------------------------------------------------------------------------
(***************************************************************************)
(* The patterns, in the order of their rules, for a word w that is not     *)
(* empty.                                                                  *)
(***************************************************************************)
\* A slip: the rule of identifiers comes before those of the keywords.
RulesIdFirst == <<"blank", "newline", "operator", "id", "keyword", "int", "string", "any">>

Rules == <<"blank", "newline", "operator", "keyword", "int", "string", "id", "any">>

Pattern(rule, w) ==
  CASE rule = "blank"    -> All(w, Blank)
    [] rule = "newline"  -> All(w, {Newline})
    [] rule = "operator" -> w \in Operator
    [] rule = "keyword"  -> w \in Keyword
    [] rule = "int"      -> All(w, Digit)
    [] rule = "string"   -> /\ Len(w) > 1 /\ Head(w) \in Quote /\ Last(w) = Head(w)
                            /\ Head(w) \notin ToSet(SubSeq(w, 2, Len(w) - 1))
    [] rule = "id"       -> Head(w) \in Letter /\ All(w, Letter \cup Digit \cup {"_"})
    [] rule = "any"      -> Len(w) = 1 /\ w # <<Newline>>

VARIABLES
  text,
  long_max,
  pos,       \* the first character that has not been read
  location,  \* driver.location: where what is being read begins and ends
  tokens,    \* the tokens returned
  state      \* "scanning", "EOF", or "error" when a syntax_error was thrown

scannerVars == <<text, long_max, pos, location, tokens, state>>

Word(n) == SubSeq(text, pos, pos + n - 1)

\* The lengths at which some pattern matches.
Matching == {n \in 1..Len(text) - pos + 1 : \E k \in DOMAIN Rules : Pattern(Rules[k], Word(n))}

yyleng == Max(Matching)

yytext == Word(yyleng)

Rule == Rules[Min({k \in DOMAIN Rules : Pattern(Rules[k], yytext)})]

-----------------------------------------------------------------------------
(* Bison's positions and locations (location.hh).                          *)

Start == [line |-> 1, column |-> 1]

columns(loc, n) == [loc EXCEPT !["end"] = [line |-> @.line, column |-> @.column + n]]

\* A slip: the columns of a line are counted from zero.
linesFromZero(loc, n) == [loc EXCEPT !["end"] = [line |-> @.line + n, column |-> 0]]

lines(loc, n) == [loc EXCEPT !["end"] = [line |-> @.line + n, column |-> 1]]

step(loc) == [loc EXCEPT !["begin"] = loc["end"]]

\* YY_USER_ACTION, before the action of every rule.
UpdateLocation == columns(location, yyleng)

Scanning(rule) == state = "scanning" /\ pos <= Len(text) /\ Rule = rule

Read == pos' = pos + yyleng /\ UNCHANGED <<text, long_max>>

Init ==
  /\ text \in Texts
  /\ long_max \in LongMaxes
  /\ pos = 1
  /\ location = [p \in {"begin", "end"} |-> Start]
  /\ tokens = <<>>
  /\ state = "scanning"

ScanBlank ==
  /\ Scanning("blank")
  /\ location' = UpdateLocation
  /\ Read
  /\ UNCHANGED <<tokens, state>>

\* A slip: the columns are added to the new line.
ScanNewlineFirst ==
  /\ Scanning("newline")
  /\ location' = step(columns(lines(location, yyleng), yyleng))
  /\ Read
  /\ UNCHANGED <<tokens, state>>

ScanNewline ==
  /\ Scanning("newline")
  /\ location' = step(lines(UpdateLocation, yyleng))
  /\ Read
  /\ UNCHANGED <<tokens, state>>

Return(token) ==
  /\ location' = UpdateLocation
  /\ tokens' = Append(tokens, token)
  /\ Read

Token(kind, w) == [kind |-> kind, text |-> w, at |-> pos, loc |-> UpdateLocation]

\* Operators, keywords and identifiers.
ScanWord ==
  /\ \E rule \in {"operator", "keyword", "id"} :
       Scanning(rule) /\ Return(Token(rule, yytext))
  /\ UNCHANGED state

ScanString ==
  /\ Scanning("string")
  /\ Return(Token("string", SubSeq(yytext, 2, yyleng - 1)))
  /\ UNCHANGED state

Decimal(w) == FoldLeft(LAMBDA n, c : 10 * n + DigitValue(c), 0, w)

strtol(w) == IF Decimal(w) > long_max THEN long_max ELSE Decimal(w)

ERANGE(w) == Decimal(w) > long_max

\* A slip: errno is not looked at.
InRangeOfInt(w) == strtol(w) <= IntMax

InRange(w) == strtol(w) <= IntMax /\ ~ERANGE(w)

Throw ==
  /\ location' = UpdateLocation
  /\ state' = "error"
  /\ Read
  /\ UNCHANGED tokens

make_number ==
  /\ Scanning("int")
  /\ \/ /\ InRange(yytext)
        /\ Return([kind |-> "number", int |-> strtol(yytext), at |-> pos, loc |-> UpdateLocation])
        /\ UNCHANGED state
     \/ ~InRange(yytext) /\ Throw

ScanAny == Scanning("any") /\ Throw

ScanEOF ==
  /\ state = "scanning" /\ pos > Len(text)
  /\ state' = "EOF"
  /\ UNCHANGED <<text, long_max, pos, location, tokens>>

Next ==
  \/ ScanBlank \/ ScanNewline \/ ScanWord \/ ScanString
  \/ make_number \/ ScanAny \/ ScanEOF

Spec == Init /\ [][Next]_scannerVars

-----------------------------------------------------------------------------
(* Properties.                                                             *)

Position == [line : Nat \ {0}, column : Nat \ {0}]

TypeOK ==
  /\ text \in Texts /\ pos \in 1..Len(text) + 1
  /\ location \in [{"begin", "end"} -> Position]
  /\ \A k \in DOMAIN tokens :
       tokens[k].kind \in {"operator", "keyword", "id", "string", "number"}
  /\ state \in {"scanning", "EOF", "error"}

NewlinesBefore(p) == {k \in 1..p - 1 : text[k] = Newline}

\* Where position p of the text is, counted from its beginning.
Place(p) == [line   |-> 1 + Cardinality(NewlinesBefore(p)),
             column |-> p - Max(NewlinesBefore(p) \cup {0})]

\* A string runs over the end of a line.
StringWithNewline ==
  \E k \in DOMAIN tokens : tokens[k].kind = "string" /\ Newline \in ToSet(tokens[k].text)

\* The location kept step by step is the one counted from the beginning of the
\* text, so that an error is reported on its line: as long as no string has a
\* newline in it, which the rule of strings does not account for.
LocationFollowsText == StringWithNewline \/ location["end"] = Place(pos)

\* A number is the one written, or it is refused, whatever the widths of int
\* and long.
NumbersAreExact ==
  \A k \in DOMAIN tokens :
    tokens[k].kind = "number" =>
      LET n == Max({m \in 1..Len(text) - tokens[k].at + 1 :
                      All(SubSeq(text, tokens[k].at, tokens[k].at + m - 1), Digit)})
          written == SubSeq(text, tokens[k].at, tokens[k].at + n - 1)
      IN tokens[k].int = Decimal(written) /\ tokens[k].int <= IntMax

\* What letters, digits and underscores stand together is one word, and a keyword
\* exactly if it is spelled like one.
WholeWord(t) ==
  LET behind == t.at + Len(t.text)
  IN /\ text[t.at] \in Letter
     /\ \A p \in t.at..behind - 1 : text[p] = t.text[p - t.at + 1]
     /\ \A p \in t.at..behind - 1 : text[p] \in Letter \cup Digit \cup {"_"}
     /\ behind <= Len(text) => text[behind] \notin Letter \cup Digit \cup {"_"}
     /\ t.kind = "keyword" <=> t.text \in Keyword

\* A character of ":=", "<>", "<=" or ">=" is not taken alone.
WholeOperator(t) ==
  LET behind == t.at + Len(t.text)
  IN Len(t.text) = 1 /\ behind <= Len(text) =>
       <<text[t.at], text[behind]>> \notin
         {<<":", "=">>, <<"<", ">">>, <<"<", "=">>, <<">", "=">>}

\* A string goes from a quote to the next one of its kind.
WholeString(t) ==
  LET closing == t.at + Len(t.text) + 1
  IN /\ closing <= Len(text)
     /\ text[t.at] \in Quote /\ text[closing] = text[t.at]
     /\ \A p \in t.at + 1..closing - 1 : text[p] = t.text[p - t.at] /\ text[p] # text[t.at]

\* The lexemes are those the text has, whichever rules match and in whatever
\* order they stand: none is cut in two, none takes in what follows it, and each
\* word is of the kind it must have.
LexemesAreWhole ==
  \A k \in DOMAIN tokens :
    /\ tokens[k].kind \in {"keyword", "id"} => WholeWord(tokens[k])
    /\ tokens[k].kind = "operator" => WholeOperator(tokens[k])
    /\ tokens[k].kind = "string" => WholeString(tokens[k])
=============================================================================

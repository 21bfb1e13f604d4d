--------------------------- MODULE ScannerProofs ---------------------------
(***************************************************************************)
(* Theorems of Scanner, for every set of texts and keywords, and every     *)
(* width of int and long.                                                  *)
(***************************************************************************)
EXTENDS Scanner, FiniteSetTheorems, SequenceTheorems, WellFoundedInduction, TLAPS

(***************************************************************************)
(* The least and the greatest of some numbers.                             *)
(***************************************************************************)
\* There is a least one.
LEMMA MinExists ==
  ASSUME NEW S, S \subseteq Nat, S # {}
  PROVE  Min(S) \in S /\ \A k \in S : Min(S) <= k
PROOF
  <1>1. PICK m \in S : \A k \in S : ~ (<<k, m>> \in OpToRel(<, Nat))
    BY NatLessThanWellFounded, WFMin, Zenon
  <1>2. \A k \in S : ~(k < m)
    BY <1>1 DEF OpToRel
  <1>3. \E x \in S : \A k \in S : x <= k
    BY <1>2
  <1> QED BY <1>3 DEF Min

\* And, if they are bounded, a greatest one.
LEMMA MaxExists ==
  ASSUME NEW S, NEW n \in Nat, S \subseteq 0..n, S # {}
  PROVE  Max(S) \in S /\ \A k \in S : k <= Max(S)
PROOF
  <1> DEFINE T == {n - k : k \in S}
  <1>1. T \subseteq Nat
    <2>1. \A k \in S : n - k \in Nat
      OBVIOUS
    <2> QED BY <2>1
  <1>2. T # {}
    OBVIOUS
  <1>3. PICK t \in T : \A k \in T : t <= k
    BY <1>1, <1>2, MinExists
  <1>4. PICK m \in S : t = n - m
    BY <1>3
  <1>5. \A k \in S : n - m <= n - k
    BY <1>3, <1>4
  <1>6. \E x \in S : \A k \in S : x >= k
    BY <1>5
  <1>7. Max(S) \in S /\ \A k \in S : Max(S) >= k
    BY <1>6 DEF Max
  <1> QED BY <1>7

\* A number that is in the set and bounds it is its greatest.
LEMMA MaxIs ==
  ASSUME NEW S, S \subseteq Int, NEW m \in S, \A k \in S : k <= m
  PROVE  Max(S) = m
PROOF
  <1>1. Max(S) \in S /\ \A k \in S : Max(S) >= k
    <2>1. \E x \in S : \A k \in S : x >= k
      OBVIOUS
    <2> QED BY <2>1 DEF Max
  <1>2. Max(S) >= m /\ Max(S) <= m /\ Max(S) \in Int
    BY <1>1
  <1> QED BY <1>2

-----------------------------------------------------------------------------
(***************************************************************************)
(* The patterns.                                                           *)
(***************************************************************************)
\* A pattern for each rule.
LEMMA Patterns ==
  ASSUME NEW w
  PROVE  /\ Pattern("blank", w)    <=> All(w, Blank)
         /\ Pattern("newline", w)  <=> All(w, {Newline})
         /\ Pattern("operator", w) <=> w \in Operator
         /\ Pattern("keyword", w)  <=> w \in Keyword
         /\ Pattern("int", w)      <=> All(w, Digit)
         /\ Pattern("string", w)   <=>
              /\ Len(w) > 1 /\ Head(w) \in Quote /\ Last(w) = Head(w)
              /\ Head(w) \notin ToSet(SubSeq(w, 2, Len(w) - 1))
         /\ Pattern("id", w)       <=> Head(w) \in Letter /\ All(w, Letter \cup Digit \cup {"_"})
         /\ Pattern("any", w)      <=> Len(w) = 1 /\ w # <<Newline>>
PROOF
  BY Zenon DEF Pattern

RuleNames == {"blank", "newline", "operator", "keyword", "int", "string", "id", "any"}

\* The rules in their order.
LEMMA RulesFacts ==
  /\ DOMAIN Rules = 1..8
  /\ \A k \in 1..8 : Rules[k] \in RuleNames
  /\ \A r \in RuleNames : \E k \in 1..8 : Rules[k] = r
PROOF
  <1>1. DOMAIN Rules = 1..8
    BY DEF Rules
  <1>2. /\ Rules[1] = "blank" /\ Rules[2] = "newline" /\ Rules[3] = "operator"
        /\ Rules[4] = "keyword" /\ Rules[5] = "int" /\ Rules[6] = "string"
        /\ Rules[7] = "id" /\ Rules[8] = "any"
    BY DEF Rules
  <1>3. \A k \in 1..8 : Rules[k] \in RuleNames
    <2> SUFFICES ASSUME NEW k \in 1..8 PROVE Rules[k] \in RuleNames
      OBVIOUS
    <2>1. k = 1 \/ k = 2 \/ k = 3 \/ k = 4 \/ k = 5 \/ k = 6 \/ k = 7 \/ k = 8
      OBVIOUS
    <2> QED BY <1>2, <2>1 DEF RuleNames
  <1> QED BY <1>1, <1>2, <1>3 DEF RuleNames

\* The characters of a word of one character.
LEMMA SingleCharacter ==
  ASSUME NEW c
  PROVE  ToSet(<<c>>) = {c}
PROOF
  <1>1. DOMAIN <<c>> = 1..1 /\ <<c>>[1] = c
    OBVIOUS
  <1>2. \A i \in 1..1 : i = 1
    OBVIOUS
  <1> QED BY <1>1, <1>2 DEF ToSet

\* A newline is no blank, digit, quote or letter, and is in no operator.
LEMMA NewlineIsNothingElse ==
  /\ Newline \notin Blank \cup Quote \cup Digit \cup Letter \cup {"_"}
  /\ \A w \in Operator : Newline \notin ToSet(w)
PROOF
  <1>1. Newline \notin Blank \cup Quote \cup Letter \cup {"_"}
    BY WordsOfLetters DEF Newline, Blank, Quote
  <1>2. Newline \notin Digit
    BY DEF Newline, Digit, Digits, ToSet
  <1>3. ASSUME NEW w \in Operator
        PROVE  Newline \notin ToSet(w)
    <2>1. CASE w \in { <<c>> : c \in {"-", "+", "*", "/", "(", ")", "=", "<", ">",
                                      "[", "]", ".", ",", ":", ";"} }
      <3>1. PICK c \in {"-", "+", "*", "/", "(", ")", "=", "<", ">",
                        "[", "]", ".", ",", ":", ";"} : w = <<c>>
        BY <2>1
      <3>2. ToSet(w) = {c}
        BY <3>1, SingleCharacter, Zenon
      <3>3. c # Newline
        BY Zenon DEF Newline
      <3> QED BY <3>2, <3>3, Zenon
    <2>2. CASE w \in { <<":", "=">>, <<"<", ">">>, <<"<", "=">>, <<">", "=">> }
      <3>1. DOMAIN w = 1..2 /\ w[1] # Newline /\ w[2] # Newline
        BY <2>2 DEF Newline
      <3> QED BY <3>1 DEF ToSet
    <2> QED BY <1>3, <2>1, <2>2 DEF Operator
  <1> QED BY <1>1, <1>2, <1>3

-----------------------------------------------------------------------------
(***************************************************************************)
(* The lexeme that is read.                                                *)
(***************************************************************************)
InText == text \in Seq(STRING) /\ pos \in 1..Len(text)

\* A word is a part of the text.
LEMMA WordFacts ==
  ASSUME InText, NEW n \in 1..Len(text) - pos + 1
  PROVE  /\ Word(n) \in Seq(STRING) /\ Len(Word(n)) = n /\ DOMAIN Word(n) = 1..n
         /\ \A k \in 1..n : Word(n)[k] = text[pos + k - 1]
         /\ Head(Word(n)) = text[pos]
         /\ ToSet(Word(n)) = {text[j] : j \in pos..pos + n - 1}
PROOF
  <1>1. Len(text) \in Nat /\ pos \in Nat /\ n \in Nat /\ n > 0 /\ pos + n - 1 <= Len(text)
    BY DEF InText
  <1>2. /\ Word(n) \in Seq(STRING) /\ Len(Word(n)) = n
        /\ \A k \in 1..n : Word(n)[k] = text[pos + k - 1]
    BY <1>1 DEF Word, InText
  <1>3. DOMAIN Word(n) = 1..n
    BY <1>2
  <1>4. Head(Word(n)) = text[pos]
    BY <1>1, <1>2
  <1>5. ToSet(Word(n)) = {text[j] : j \in pos..pos + n - 1}
    <2>1. ASSUME NEW k \in 1..n
          PROVE  Word(n)[k] \in {text[j] : j \in pos..pos + n - 1}
      BY <1>1, <1>2
    <2>2. ASSUME NEW j \in pos..pos + n - 1
          PROVE  text[j] \in ToSet(Word(n))
      <3>1. j - pos + 1 \in 1..n /\ text[j] = text[pos + (j - pos + 1) - 1]
        BY <1>1
      <3> QED BY <1>2, <1>3, <3>1 DEF ToSet
    <2> QED BY <1>3, <2>1, <2>2 DEF ToSet
  <1> QED BY <1>2, <1>3, <1>4, <1>5

\* The lexeme matches a rule, and nothing longer matches any.
LEMMA LexemeFacts ==
  ASSUME InText
  PROVE  /\ yyleng \in 1..Len(text) - pos + 1
         /\ Rule \in RuleNames /\ Pattern(Rule, yytext)
         /\ \A n \in 1..Len(text) - pos + 1 :
              (\E r \in RuleNames : Pattern(r, Word(n))) => n <= yyleng
         /\ Rule = "id" => ~Pattern("keyword", yytext)
PROOF
  <1>1. Len(text) \in Nat /\ pos \in Nat /\ 1 \in 1..Len(text) - pos + 1
    BY DEF InText
  <1>2. ASSUME NEW n \in 1..Len(text) - pos + 1, NEW r \in RuleNames, Pattern(r, Word(n))
        PROVE  n \in Matching
    BY <1>2, RulesFacts DEF Matching
  <1>3. 1 \in Matching
    <2>1. CASE text[pos] = Newline
      <3>1. All(Word(1), {Newline})
        BY <1>1, <2>1, WordFacts DEF All
      <3> QED BY <1>1, <1>2, <3>1, Patterns DEF RuleNames
    <2>2. CASE text[pos] # Newline
      <3>1. Len(Word(1)) = 1 /\ Word(1) # <<Newline>>
        <4>1. Len(Word(1)) = 1 /\ \A k \in 1..1 : Word(1)[k] = text[pos + k - 1]
          BY <1>1, WordFacts, Zenon
        <4>2. <<Newline>>[1] = Newline
          OBVIOUS
        <4>3. Word(1)[1] = text[pos]
          BY <1>1, <4>1
        <4> QED BY <2>2, <4>1, <4>2, <4>3
      <3> QED BY <1>1, <1>2, <3>1, Patterns DEF RuleNames
    <2> QED BY <2>1, <2>2
  <1>4. yyleng \in Matching /\ \A n \in Matching : n <= yyleng
    <2>1. Matching \subseteq 0..Len(text) - pos + 1 /\ Len(text) - pos + 1 \in Nat
      BY <1>1 DEF Matching
    <2> QED BY <1>3, <2>1, MaxExists DEF yyleng
  <1>5. Rule \in RuleNames /\ Pattern(Rule, yytext)
    <2> DEFINE R == {k \in DOMAIN Rules : Pattern(Rules[k], yytext)}
    <2>1. R \subseteq Nat
      BY RulesFacts
    <2>2. R # {}
      BY <1>4 DEF Matching, yytext
    <2>3. Min(R) \in R
      BY <2>1, <2>2, MinExists
    <2> QED BY <2>3, RulesFacts DEF Rule
  <1>6. Rule = "id" => ~Pattern("keyword", yytext)
    <2> DEFINE R == {k \in DOMAIN Rules : Pattern(Rules[k], yytext)}
    <2> SUFFICES ASSUME Rule = "id", Pattern("keyword", yytext) PROVE FALSE
      OBVIOUS
    <2>1. 4 \in R /\ R \subseteq Nat
      BY RulesFacts DEF Rules
    <2>2. Min(R) \in R /\ Min(R) <= 4
      BY <2>1, MinExists
    <2>3. Min(R) \in 1..4
      BY <2>2, RulesFacts
    <2>4. \A k \in 1..4 : Rules[k] # "id"
      BY DEF Rules
    <2> QED BY <2>3, <2>4 DEF Rule
  <1> QED BY <1>2, <1>4, <1>5, <1>6 DEF Matching

-----------------------------------------------------------------------------
(***************************************************************************)
(* The location.                                                           *)
(***************************************************************************)
Interior == SubSeq(yytext, 2, yyleng - 1)

\* Only the rule of newlines reads newlines, and the one of strings inside them.
LEMMA NewlinesRead ==
  ASSUME InText
  PROVE  /\ Rule = "newline" =>
              \A j \in pos..pos + yyleng - 1 : text[j] = Newline
         /\ Rule # "newline" /\ (Rule = "string" => Newline \notin ToSet(Interior)) =>
              \A j \in pos..pos + yyleng - 1 : text[j] # Newline
PROOF
  <1>1. /\ yyleng \in 1..Len(text) - pos + 1 /\ Rule \in RuleNames /\ Pattern(Rule, yytext)
    BY LexemeFacts
  <1>2. /\ yytext \in Seq(STRING) /\ Len(yytext) = yyleng /\ DOMAIN yytext = 1..yyleng
        /\ ToSet(yytext) = {text[j] : j \in pos..pos + yyleng - 1}
    BY <1>1, WordFacts, Zenon DEF yytext
  <1>3. ASSUME Rule = "newline"
        PROVE  \A j \in pos..pos + yyleng - 1 : text[j] = Newline
    <2>1. ToSet(yytext) \subseteq {Newline}
      BY <1>1, <1>3, Patterns DEF All
    <2> QED BY <1>2, <2>1
  <1>4. ASSUME Rule # "newline", Rule = "string" => Newline \notin ToSet(Interior)
        PROVE  Newline \notin ToSet(yytext)
    <2>1. CASE Rule = "blank"
      BY <1>1, <2>1, Patterns, NewlineIsNothingElse DEF All
    <2>2. CASE Rule = "operator"
      BY <1>1, <2>2, Patterns, NewlineIsNothingElse
    <2>3. CASE Rule = "keyword"
      <3>1. yytext \in Seq(Letter)
        BY <1>1, <2>3, Patterns, WordsOfLetters
      <3>2. ToSet(yytext) \subseteq Letter
        BY <3>1 DEF ToSet
      <3> QED BY <3>2, NewlineIsNothingElse
    <2>4. CASE Rule = "int"
      BY <1>1, <2>4, Patterns, NewlineIsNothingElse DEF All
    <2>5. CASE Rule = "string"
      <3>1. /\ Len(yytext) > 1 /\ Head(yytext) \in Quote
            /\ Last(yytext) = Head(yytext)
        BY <1>1, <2>5, Patterns
      <3>2. yytext[1] # Newline /\ yytext[yyleng] # Newline
        <4>1. yytext[1] = Head(yytext) /\ yytext[yyleng] = Head(yytext)
          BY <1>2, <3>1 DEF Last
        <4> QED BY <3>1, <4>1, NewlineIsNothingElse, Zenon
      <3>3. ASSUME NEW k \in 2..yyleng - 1
            PROVE  yytext[k] # Newline
        <4>1. yyleng \in Nat
          BY <1>2
        <4>2. /\ Len(Interior) = yyleng - 2 /\ DOMAIN Interior = 1..yyleng - 2
              /\ \A i \in 1..yyleng - 2 : Interior[i] = yytext[i + 1]
          BY <1>2, <3>1, <4>1 DEF Interior
        <4>3. k - 1 \in 1..yyleng - 2 /\ (k - 1) + 1 = k
          BY <4>1
        <4>4. yytext[k] \in ToSet(Interior)
          BY <4>2, <4>3 DEF ToSet
        <4> QED BY <1>4, <2>5, <4>4
      <3>4. \A k \in 1..yyleng : k = 1 \/ k = yyleng \/ k \in 2..yyleng - 1
        BY <1>1
      <3> QED BY <1>2, <3>2, <3>3, <3>4 DEF ToSet
    <2>6. CASE Rule = "id"
      BY <1>1, <2>6, Patterns, NewlineIsNothingElse DEF All
    <2>7. CASE Rule = "any"
      <3>1. Len(yytext) = 1 /\ yytext # <<Newline>>
        BY <1>1, <2>7, Patterns
      <3>2. yytext[1] # Newline
        BY <1>2, <3>1
      <3>3. \A k \in 1..1 : k = 1
        OBVIOUS
      <3> QED BY <1>2, <3>1, <3>2, <3>3 DEF ToSet
    <2> QED BY <1>1, <1>4, <2>1, <2>2, <2>3, <2>4, <2>5, <2>6, <2>7 DEF RuleNames
  <1> QED BY <1>2, <1>3, <1>4

Location == [{"begin", "end"} -> Position]

\* What the actions make of the location.
LEMMA LocationFacts ==
  ASSUME location \in Location, NEW n \in Nat \ {0}
  PROVE  LET moved == columns(location, n)
             broken == step(lines(moved, n))
         IN /\ moved \in Location /\ broken \in Location
            /\ moved["end"] = [line   |-> location["end"].line,
                               column |-> location["end"].column + n]
            /\ broken["end"] = [line |-> location["end"].line + n, column |-> 1]
PROOF
  <1> DEFINE moved  == columns(location, n)
             newend == [line |-> location["end"].line + n, column |-> 1]
             fresh  == lines(moved, n)
             broken == step(fresh)
  <1>1. location["end"].line \in Nat \ {0} /\ location["end"].column \in Nat \ {0}
    BY DEF Location, Position
  <1>2. /\ moved \in Location
        /\ moved["end"] = [line   |-> location["end"].line,
                           column |-> location["end"].column + n]
    BY <1>1 DEF columns, Location, Position
  <1>3. newend \in Position
    BY <1>1 DEF Position
  <1>4. fresh = [moved EXCEPT !["end"] = newend]
    BY <1>2 DEF lines
  <1> HIDE DEF moved, newend
  <1>5. fresh \in Location /\ fresh["end"] = newend
    BY <1>2, <1>3, <1>4 DEF Location
  <1> HIDE DEF fresh
  <1>6. broken \in Location /\ broken["end"] = newend
    BY <1>3, <1>5 DEF step, Location
  <1> QED BY <1>2, <1>5, <1>6 DEF moved, newend, fresh

\* The line and the column of a place.
LEMMA PlaceIs ==
  ASSUME NEW p, NEW line, NEW column
  PROVE  /\ Place(p).line = 1 + Cardinality(NewlinesBefore(p))
         /\ Place(p).column = p - Max(NewlinesBefore(p) \cup {0})
         /\ Place(p).line = line /\ Place(p).column = column =>
              Place(p) = [line |-> line, column |-> column]
PROOF
  BY DEF Place

\* The places behind a lexeme without newlines, and behind one of newlines.
LEMMA PlaceFacts ==
  ASSUME InText, NEW n \in 1..Len(text) - pos + 1,
         Place(pos).line \in Int, Place(pos).column \in Int
  PROVE  /\ (\A j \in pos..pos + n - 1 : text[j] # Newline) =>
              Place(pos + n) = [line |-> Place(pos).line, column |-> Place(pos).column + n]
         /\ (\A j \in pos..pos + n - 1 : text[j] = Newline) =>
              Place(pos + n) = [line |-> Place(pos).line + n, column |-> 1]
PROOF
  <1> DEFINE before == NewlinesBefore(pos)
             after  == NewlinesBefore(pos + n)
             lexeme == pos..pos + n - 1
  <1>1. pos \in Nat \ {0} /\ n \in Nat \ {0}
    BY DEF InText
  <1>2. /\ Place(pos).line = 1 + Cardinality(before)
        /\ Place(pos).column = pos - Max(before \cup {0})
        /\ Place(pos + n).line = 1 + Cardinality(after)
        /\ Place(pos + n).column = (pos + n) - Max(after \cup {0})
    BY PlaceIs
  <1>3. IsFiniteSet(before) /\ before \cup {0} \subseteq 0..pos - 1
    <2>1. IsFiniteSet(1..pos - 1)
      BY <1>1, FS_Interval
    <2>2. before \subseteq 1..pos - 1
      BY DEF NewlinesBefore
    <2> QED BY <1>1, <2>1, <2>2, FS_Subset
  <1>4. Max(before \cup {0}) \in 0..pos - 1
    <2>1. pos - 1 \in Nat
      BY <1>1
    <2> QED BY <1>3, <2>1, MaxExists
  <1>5. ASSUME \A j \in pos..pos + n - 1 : text[j] # Newline
        PROVE  Place(pos + n) = [line |-> Place(pos).line, column |-> Place(pos).column + n]
    <2>1. after = before
      BY <1>1, <1>5 DEF NewlinesBefore
    <2>2. /\ Place(pos + n).line = 1 + Cardinality(before)
          /\ Place(pos + n).column = (pos + n) - Max(before \cup {0})
      BY <1>2, <2>1, Zenon
    <2>3. /\ Place(pos + n).line = Place(pos).line
          /\ Place(pos + n).column = Place(pos).column + n
      BY <1>1, <1>2, <1>4, <2>2
    <2> QED BY <2>3, PlaceIs
  <1>6. ASSUME \A j \in pos..pos + n - 1 : text[j] = Newline
        PROVE  Place(pos + n) = [line |-> Place(pos).line + n, column |-> 1]
    <2>1. after = before \cup lexeme
      BY <1>1, <1>6 DEF NewlinesBefore
    <2>2. before \cap lexeme = {}
      BY <1>1 DEF NewlinesBefore
    <2>3. Cardinality(after) = Cardinality(before) + n
      <3>1. IsFiniteSet(lexeme) /\ Cardinality(lexeme) = n
        BY <1>1, FS_Interval
      <3>2. Cardinality(before) \in Nat /\ Cardinality({}) = 0
        BY <1>3, FS_CardinalityType, FS_EmptySet
      <3> HIDE DEF before, after, lexeme
      <3>3. Cardinality(before \cup lexeme)
              = Cardinality(before) + Cardinality(lexeme) - Cardinality(before \cap lexeme)
        BY <1>3, <3>1, FS_Union
      <3>4. Cardinality(after) = Cardinality(before) + n - 0
        BY <2>1, <2>2, <3>1, <3>2, <3>3, Zenon
      <3> QED BY <1>1, <3>2, <3>4
    <2>4. Max(after \cup {0}) = pos + n - 1
      <3>1. pos + n - 1 \in after /\ after \cup {0} \subseteq 0..pos + n - 1
        BY <1>1, <1>6 DEF NewlinesBefore
      <3> HIDE DEF after
      <3>2. after \cup {0} \subseteq Int /\ \A k \in after \cup {0} : k <= pos + n - 1
        BY <1>1, <3>1
      <3> QED BY <3>1, <3>2, MaxIs
    <2> HIDE DEF before, after
    <2>5. Cardinality(before) \in Nat
      BY <1>3, FS_CardinalityType
    <2>6. Place(pos + n).line = Place(pos).line + n /\ Place(pos + n).column = 1
      BY <1>1, <1>2, <2>3, <2>4, <2>5
    <2> QED BY <2>6, PlaceIs
  <1> QED BY <1>5, <1>6

-----------------------------------------------------------------------------
(***************************************************************************)
(* The tokens.                                                             *)
(***************************************************************************)
Kinds == {"operator", "keyword", "id", "string", "number"}

\* What NumbersAreExact and LexemesAreWhole say of one token.
Exact(t) ==
  t.kind = "number" =>
    LET n == Max({m \in 1..Len(text) - t.at + 1 :
                    All(SubSeq(text, t.at, t.at + m - 1), Digit)})
        written == SubSeq(text, t.at, t.at + n - 1)
    IN t.int = Decimal(written) /\ t.int <= IntMax

Whole(t) ==
  /\ t.kind \in {"keyword", "id"} => WholeWord(t)
  /\ t.kind = "operator" => WholeOperator(t)
  /\ t.kind = "string" => WholeString(t)

Good(t) == t.kind \in Kinds /\ Exact(t) /\ Whole(t)

\* A number that is returned is the one written.
LEMMA NumberIsGood ==
  ASSUME InText, Rule = "int", InRange(yytext)
  PROVE  Good([kind |-> "number", int |-> strtol(yytext), at |-> pos, loc |-> UpdateLocation])
PROOF
  <1> DEFINE t == [kind |-> "number", int |-> strtol(yytext), at |-> pos,
                   loc |-> UpdateLocation]
             D == {m \in 1..Len(text) - pos + 1 : All(Word(m), Digit)}
  <1>1. yyleng \in 1..Len(text) - pos + 1 /\ All(yytext, Digit)
    BY LexemeFacts, Patterns
  <1>2. yyleng \in D
    BY <1>1 DEF yytext
  <1>3. \A m \in D : m <= yyleng
    <2> SUFFICES ASSUME NEW m \in D PROVE m <= yyleng
      OBVIOUS
    <2>1. Pattern("int", Word(m))
      BY Patterns
    <2> QED BY <2>1, LexemeFacts DEF RuleNames
  <1>4. Max(D) = yyleng
    <2>1. D \subseteq Int
      OBVIOUS
    <2> HIDE DEF D
    <2> QED BY <1>2, <1>3, <2>1, MaxIs
  <1>5. strtol(yytext) = Decimal(yytext) /\ strtol(yytext) <= IntMax
    BY DEF InRange, ERANGE, strtol
  <1>6. t.kind = "number" /\ t.at = pos /\ t.int = strtol(yytext)
    OBVIOUS
  <1>7. D = {m \in 1..Len(text) - t.at + 1 : All(SubSeq(text, t.at, t.at + m - 1), Digit)}
    BY <1>6, Zenon DEF Word
  <1>8. yytext = SubSeq(text, t.at, t.at + Max(D) - 1)
    BY <1>4, <1>6, Zenon DEF yytext, Word
  <1> HIDE DEF D
  <1>9. Exact(t)
    BY <1>5, <1>6, <1>7, <1>8, Zenon DEF Exact
  <1>10. Whole(t)
    BY <1>6 DEF Whole
  <1> QED BY <1>6, <1>9, <1>10 DEF Good, Kinds

\* One letter and one more.
LEMMA TwoLetters ==
  ASSUME NEW S, NEW w \in Seq(S), Len(w) = 1, NEW c \in S
  PROVE  w \o <<c>> = <<w[1], c>>
PROOF
  <1> DEFINE s == w \o <<c>>
             p == <<w[1], c>>
  <1>1. w[1] \in S
    <2>1. 1 \in 1..Len(w)
      OBVIOUS
    <2> QED BY <2>1, ElementOfSeq
  <1>2. s \in Seq(S) /\ Len(s) = 2 /\ s[1] = w[1] /\ s[2] = c
    <2> DEFINE l == <<c>>
    <2>1. l \in Seq(S) /\ Len(l) = 1 /\ l[1] = c
      OBVIOUS
    <2> HIDE DEF l
    <2>2. /\ w \o l \in Seq(S) /\ Len(w \o l) = Len(w) + Len(l)
          /\ \A k \in 1..Len(w) + Len(l) :
               (w \o l)[k] = IF k <= Len(w) THEN w[k] ELSE l[k - Len(w)]
      BY <2>1, ConcatProperties
    <2>3. Len(w \o l) = 2 /\ (w \o l)[1] = w[1] /\ (w \o l)[2] = c
      BY <2>1, <2>2
    <2> QED BY <2>2, <2>3 DEF l
  <1>3. p \in Seq(S) /\ Len(p) = 2 /\ p[1] = w[1] /\ p[2] = c
    BY <1>1
  <1> HIDE DEF s, p
  <1>4. \A k \in 1..Len(s) : s[k] = p[k]
    BY <1>2, <1>3
  <1>5. s = p
    BY <1>2, <1>3, <1>4, SeqEqual
  <1> QED BY <1>5 DEF s, p

\* A word is returned whole: with one more character, it would have been read.
LEMMA WordIsGood ==
  ASSUME InText, Rule \in {"operator", "keyword", "id"}
  PROVE  Good(Token(Rule, yytext))
PROOF
  <1> DEFINE t == Token(Rule, yytext)
             n == yyleng + 1
  <1>1. t.kind = Rule /\ t.text = yytext /\ t.at = pos
    BY DEF Token
  <1>2. /\ yyleng \in 1..Len(text) - pos + 1 /\ Pattern(Rule, yytext)
        /\ Len(text) \in Nat /\ pos \in Nat
    BY LexemeFacts DEF InText
  <1>3. Len(yytext) = yyleng /\ yytext \in Seq(STRING)
        /\ ToSet(yytext) = {text[j] : j \in pos..pos + yyleng - 1}
        /\ Head(yytext) = text[pos]
        /\ \A k \in 1..yyleng : yytext[k] = text[pos + k - 1]
    BY <1>2, WordFacts, Zenon DEF yytext
  <1>4. ASSUME pos + yyleng <= Len(text)
        PROVE  /\ n \in 1..Len(text) - pos + 1
               /\ \A r \in RuleNames : ~Pattern(r, Word(n))
               /\ Head(Word(n)) = Head(yytext)
               /\ ToSet(Word(n)) = ToSet(yytext) \cup {text[pos + yyleng]}
               /\ Word(n) = yytext \o <<text[pos + yyleng]>>
    <2>1. n \in 1..Len(text) - pos + 1 /\ ~(n <= yyleng)
      BY <1>2, <1>4
    <2>2. \A r \in RuleNames : ~Pattern(r, Word(n))
      BY <2>1, LexemeFacts
    <2>3. /\ Word(n) \in Seq(STRING) /\ Len(Word(n)) = n /\ Head(Word(n)) = text[pos]
          /\ ToSet(Word(n)) = {text[j] : j \in pos..pos + n - 1}
          /\ \A k \in 1..n : Word(n)[k] = text[pos + k - 1]
      BY <2>1, WordFacts, Zenon
    <2>4. ToSet(Word(n)) = ToSet(yytext) \cup {text[pos + yyleng]}
      <3>1. \A j \in pos..pos + n - 1 : j \in pos..pos + yyleng - 1 \/ j = pos + yyleng
        BY <1>2
      <3>2. pos + yyleng \in pos..pos + n - 1
        BY <1>2
      <3>3. \A j \in pos..pos + yyleng - 1 : j \in pos..pos + n - 1
        BY <1>2
      <3> QED BY <1>3, <2>3, <3>1, <3>2, <3>3
    <2>5. Word(n) = yytext \o <<text[pos + yyleng]>>
      <3> DEFINE s == yytext \o <<text[pos + yyleng]>>
      <3>1. text[pos + yyleng] \in STRING
        BY <1>2, <1>4 DEF InText
      <3>2. /\ s \in Seq(STRING) /\ Len(s) = n
            /\ \A k \in 1..yyleng : s[k] = yytext[k]
            /\ s[n] = text[pos + yyleng]
        BY <1>2, <1>3, <3>1
      <3>3. \A k \in 1..n : s[k] = text[pos + k - 1]
        <4> SUFFICES ASSUME NEW k \in 1..n PROVE s[k] = text[pos + k - 1]
          OBVIOUS
        <4>1. CASE k = n
          <5>1. pos + k - 1 = pos + yyleng
            BY <1>2, <4>1
          <5> QED BY <3>2, <4>1, <5>1
        <4>2. CASE k # n
          BY <1>2, <1>3, <3>2, <4>2
        <4> QED BY <4>1, <4>2
      <3> HIDE DEF s, n
      <3>4. Word(n) = s
        BY <2>3, <3>2, <3>3, SeqEqual
      <3> QED BY <3>4 DEF s
    <2> QED BY <1>3, <2>1, <2>2, <2>3, <2>4, <2>5
  <1>5. ASSUME Rule \in {"keyword", "id"}
        PROVE  Head(yytext) \in Letter /\ ToSet(yytext) \subseteq Letter \cup Digit \cup {"_"}
    <2>1. CASE Rule = "keyword"
      <3>1. yytext \in Seq(Letter) \ {<<>>}
        BY <1>2, <2>1, Patterns, WordsOfLetters
      <3>2. Len(yytext) \in Nat \ {0} /\ DOMAIN yytext = 1..Len(yytext)
            /\ \A k \in 1..Len(yytext) : yytext[k] \in Letter
        BY <3>1
      <3>3. Head(yytext) = yytext[1]
        BY <3>1
      <3>4. yytext[1] \in Letter
        BY <3>2
      <3>5. ToSet(yytext) \subseteq Letter
        BY <3>2 DEF ToSet
      <3> QED BY <3>3, <3>4, <3>5, Zenon
    <2>2. CASE Rule = "id"
      BY <1>2, <2>2, Patterns DEF All
    <2> QED BY <1>5, <2>1, <2>2
  <1>6. ASSUME pos + yyleng <= Len(text), Rule \in {"keyword", "id"}
        PROVE  text[pos + yyleng] \notin Letter \cup Digit \cup {"_"}
    <2>1. ~Pattern("id", Word(n))
      BY <1>4, <1>6 DEF RuleNames
    <2>2. Head(Word(n)) \in Letter
      BY <1>4, <1>5, <1>6
    <2>3. ~All(Word(n), Letter \cup Digit \cup {"_"})
      BY <2>1, <2>2, Patterns
    <2>4. ToSet(Word(n)) = ToSet(yytext) \cup {text[pos + yyleng]}
      BY <1>4, <1>6
    <2> QED BY <1>5, <1>6, <2>3, <2>4 DEF All
  <1>7. ASSUME Rule \in {"keyword", "id"}
        PROVE  Rule = "keyword" <=> yytext \in Keyword
    BY <1>2, <1>7, LexemeFacts, Patterns
  <1>8. ASSUME Rule \in {"keyword", "id"}
        PROVE  WholeWord(t)
    <2>1. text[pos] \in Letter
      BY <1>3, <1>5, <1>8
    <2>2. \A p \in pos..pos + yyleng - 1 : text[p] = yytext[p - pos + 1]
      <3> SUFFICES ASSUME NEW p \in pos..pos + yyleng - 1 PROVE text[p] = yytext[p - pos + 1]
        OBVIOUS
      <3>1. p - pos + 1 \in 1..yyleng /\ pos + (p - pos + 1) - 1 = p
        BY <1>2
      <3> QED BY <1>3, <3>1
    <2>3. \A p \in pos..pos + yyleng - 1 : text[p] \in Letter \cup Digit \cup {"_"}
      BY <1>3, <1>5, <1>8
    <2>4. pos + yyleng <= Len(text) => text[pos + yyleng] \notin Letter \cup Digit \cup {"_"}
      BY <1>6, <1>8
    <2>5. t.kind = "keyword" <=> t.text \in Keyword
      BY <1>1, <1>7, <1>8
    <2> DEFINE behind == t.at + Len(t.text)
    <2>6. t.at = pos /\ t.text = yytext /\ behind = pos + yyleng
      BY <1>1, <1>3
    <2> HIDE DEF t, n, behind
    <2>7. /\ text[t.at] \in Letter
          /\ \A p \in t.at..behind - 1 : text[p] = t.text[p - t.at + 1]
          /\ \A p \in t.at..behind - 1 : text[p] \in Letter \cup Digit \cup {"_"}
          /\ behind <= Len(text) => text[behind] \notin Letter \cup Digit \cup {"_"}
      <3>1. t.at..behind - 1 = pos..pos + yyleng - 1
        BY <1>2, <2>6
      <3> QED BY <2>1, <2>2, <2>3, <2>4, <2>6, <3>1
    <2> QED BY <2>5, <2>7, Zenon DEF WholeWord, behind
  <1>9. ASSUME Rule = "operator"
        PROVE  WholeOperator(t)
    <2> SUFFICES ASSUME yyleng = 1, pos + yyleng <= Len(text),
                        <<text[pos], text[pos + yyleng]>> \in
                          {<<":", "=">>, <<"<", ">">>, <<"<", "=">>, <<">", "=">>}
                 PROVE  FALSE
      BY <1>1, <1>3, Zenon DEF WholeOperator
    <2>1. ~Pattern("operator", Word(n)) /\ Word(n) = yytext \o <<text[pos + yyleng]>>
      BY <1>4 DEF RuleNames
    <2>2. yytext[1] = text[pos] /\ text[pos + yyleng] \in STRING
      BY <1>2, <1>3 DEF InText
    <2>3. yytext \o <<text[pos + yyleng]>> = <<text[pos], text[pos + yyleng]>>
      <3>1. Len(yytext) = 1 /\ yytext \in Seq(STRING) /\ text[pos] = yytext[1]
        BY <1>3, <2>2, Zenon
      <3> QED BY <2>2, <3>1, TwoLetters
    <2>4. <<text[pos], text[pos + yyleng]>> \in Operator
      BY Zenon DEF Operator
    <2> QED BY <2>1, <2>3, <2>4, Patterns, Zenon
  <1>10. Whole(t)
    BY <1>1, <1>8, <1>9 DEF Whole
  <1>11. Exact(t)
    BY <1>1 DEF Exact
  <1> QED BY <1>1, <1>10, <1>11 DEF Good, Kinds

\* A string is what stands between two quotes of a kind.
LEMMA StringIsGood ==
  ASSUME InText, Rule = "string"
  PROVE  Good(Token("string", Interior))
PROOF
  <1> DEFINE t == Token("string", Interior)
  <1>1. t.kind = "string" /\ t.text = Interior /\ t.at = pos
    BY DEF Token
  <1>2. /\ yyleng \in 1..Len(text) - pos + 1 /\ Pattern("string", yytext)
        /\ Len(text) \in Nat /\ pos \in Nat
    BY LexemeFacts DEF InText
  <1>3. Len(yytext) = yyleng /\ yytext \in Seq(STRING) /\ Head(yytext) = text[pos]
        /\ \A k \in 1..yyleng : yytext[k] = text[pos + k - 1]
    BY <1>2, WordFacts, Zenon DEF yytext
  <1>4. /\ yyleng > 1 /\ text[pos] \in Quote /\ Last(yytext) = text[pos]
        /\ text[pos] \notin ToSet(Interior)
    BY <1>2, <1>3, Patterns DEF Interior
  <1>5. /\ Len(Interior) = yyleng - 2 /\ DOMAIN Interior = 1..yyleng - 2
        /\ \A k \in 1..yyleng - 2 : Interior[k] = yytext[k + 1]
    BY <1>2, <1>3, <1>4 DEF Interior
  <1>6. pos + Len(Interior) + 1 = pos + yyleng - 1 /\ pos + yyleng - 1 <= Len(text)
    BY <1>2, <1>5
  <1>7. text[pos + yyleng - 1] = text[pos]
    BY <1>2, <1>3, <1>4 DEF Last
  <1>8. ASSUME NEW p \in pos + 1..pos + yyleng - 1 - 1
        PROVE  text[p] = Interior[p - pos] /\ text[p] # text[pos]
    <2>1. p - pos \in 1..yyleng - 2 /\ p - pos + 1 \in 1..yyleng /\ pos + (p - pos + 1) - 1 = p
      BY <1>2
    <2>2. text[p] = Interior[p - pos]
      BY <1>3, <1>5, <2>1
    <2>3. Interior[p - pos] \in ToSet(Interior)
      BY <1>5, <2>1 DEF ToSet
    <2> QED BY <1>4, <2>2, <2>3
  <1> HIDE DEF t
  <1>9. WholeString(t)
    <2> DEFINE closing == t.at + Len(t.text) + 1
    <2>1. t.at = pos /\ t.text = Interior /\ closing = pos + yyleng - 1
      BY <1>1, <1>6
    <2>2. closing <= Len(text) /\ text[t.at] \in Quote /\ text[closing] = text[t.at]
      BY <1>4, <1>6, <1>7, <2>1
    <2>3. \A p \in t.at + 1..closing - 1 : text[p] = t.text[p - t.at] /\ text[p] # text[t.at]
      <3> HIDE DEF closing
      <3> SUFFICES ASSUME NEW p \in t.at + 1..closing - 1
                   PROVE  text[p] = t.text[p - t.at] /\ text[p] # text[t.at]
        OBVIOUS
      <3>1. p \in pos + 1..pos + yyleng - 1 - 1
        BY <1>2, <2>1
      <3>2. text[p] = Interior[p - pos] /\ text[p] # text[pos]
        BY <1>8, <3>1
      <3> QED BY <2>1, <3>2
    <2> QED BY <2>2, <2>3, Zenon DEF WholeString
  <1>10. Good(t)
    BY <1>1, <1>9 DEF Good, Exact, Whole, Kinds
  <1> QED BY <1>10 DEF t

-----------------------------------------------------------------------------
(***************************************************************************)
(* The invariant and the theorems.                                         *)
(***************************************************************************)
ScanInv ==
  /\ TypeOK
  /\ tokens \in Seq(ToSet(tokens))
  /\ \A k \in DOMAIN tokens : Good(tokens[k])
  /\ LocationFollowsText

\* The tokens after a step: those there were, and one more at most.
LEMMA TokensKept ==
  ASSUME ScanInv, UNCHANGED text,
         UNCHANGED tokens \/ \E t : Good(t) /\ tokens' = Append(tokens, t)
  PROVE  /\ tokens' \in Seq(ToSet(tokens'))
         /\ (\A k \in DOMAIN tokens : Good(tokens[k]))'
         /\ StringWithNewline => StringWithNewline'
PROOF
  <1>1. \A t : Good(t) <=> Good(t)'
    <2> SUFFICES ASSUME NEW t PROVE Good(t) <=> Good(t)'
      OBVIOUS
    <2>1. Exact(t) <=> Exact(t)'
      BY DEF Exact
    <2>2. WholeWord(t) <=> WholeWord(t)'
      BY DEF WholeWord
    <2>3. WholeOperator(t) <=> WholeOperator(t)'
      BY DEF WholeOperator
    <2>4. WholeString(t) <=> WholeString(t)'
      BY DEF WholeString
    <2> QED BY <2>1, <2>2, <2>3, <2>4, Zenon DEF Good, Whole
  <1>2. CASE UNCHANGED tokens
    BY <1>1, <1>2 DEF ScanInv, StringWithNewline
  <1>3. ASSUME NEW t, Good(t), tokens' = Append(tokens, t)
        PROVE  /\ tokens' \in Seq(ToSet(tokens'))
               /\ (\A k \in DOMAIN tokens : Good(tokens[k]))'
               /\ StringWithNewline => StringWithNewline'
    <2> DEFINE S == ToSet(tokens) \cup {t}
    <2>1. tokens \in Seq(S) /\ t \in S
      BY DEF ScanInv
    <2> HIDE DEF S
    <2>2. /\ Len(tokens) \in Nat /\ DOMAIN tokens = 1..Len(tokens)
          /\ tokens' \in Seq(S) /\ Len(tokens') = Len(tokens) + 1
          /\ DOMAIN tokens' = 1..Len(tokens) + 1
          /\ \A k \in 1..Len(tokens) : tokens'[k] = tokens[k]
          /\ tokens'[Len(tokens) + 1] = t
      BY <1>3, <2>1
    <2>3. \A k \in 1..Len(tokens) + 1 : k \in 1..Len(tokens) \/ k = Len(tokens) + 1
      BY <2>2
    <2>4. \A k \in DOMAIN tokens' : tokens'[k] \in ToSet(tokens')
      BY DEF ToSet
    <2>5. tokens' \in Seq(ToSet(tokens'))
      BY <2>2, <2>4
    <2>6. \A k \in DOMAIN tokens' : Good(tokens'[k])
      BY <1>3, <2>2, <2>3 DEF ScanInv
    <2>7. StringWithNewline => StringWithNewline'
      BY <2>2 DEF StringWithNewline
    <2> QED BY <1>1, <2>5, <2>6, <2>7
  <1> QED BY <1>2, <1>3

\* A lexeme is read: the location moves over it or, after newlines, to the
\* beginning of a line.
LEMMA ReadStep ==
  ASSUME ScanInv, pos <= Len(text), Read,
         IF Rule = "newline" THEN location' = step(lines(UpdateLocation, yyleng))
                             ELSE location' = UpdateLocation,
         UNCHANGED tokens \/ \E t : Good(t) /\ tokens' = Append(tokens, t),
         Rule = "string" => tokens' = Append(tokens, Token("string", Interior)),
         state' \in {"scanning", "error"}
  PROVE  ScanInv'
PROOF
  <1>1. /\ text \in Texts /\ pos \in 1..Len(text) + 1 /\ location \in Location
        /\ text \in Seq(STRING)
    BY WordsOfLetters DEF ScanInv, TypeOK, Location
  <1>2. InText
    BY <1>1 DEF InText
  <1>3. /\ yyleng \in 1..Len(text) - pos + 1 /\ Len(text) \in Nat
        /\ text' = text /\ pos' = pos + yyleng
    BY <1>1, <1>2, LexemeFacts DEF Read
  <1>4. /\ tokens' \in Seq(ToSet(tokens'))
        /\ (\A k \in DOMAIN tokens : Good(tokens[k]))'
        /\ StringWithNewline => StringWithNewline'
    BY <1>3, TokensKept
  <1> DEFINE moved  == columns(location, yyleng)
             broken == step(lines(moved, yyleng))
  <1>5. /\ moved \in Location /\ broken \in Location
        /\ moved["end"] = [line   |-> location["end"].line,
                          column |-> location["end"].column + yyleng]
        /\ broken["end"] = [line |-> location["end"].line + yyleng, column |-> 1]
    <2>1. yyleng \in Nat \ {0}
      BY <1>3
    <2> QED BY <1>1, <2>1, LocationFacts
  <1>6. location' = IF Rule = "newline" THEN broken ELSE moved
    BY DEF UpdateLocation
  <1> HIDE DEF moved, broken
  <1>7. TypeOK'
    <2>1. pos' \in 1..Len(text') + 1
      BY <1>1, <1>3
    <2>2. \A k \in DOMAIN tokens' : tokens'[k].kind \in Kinds
      BY <1>4 DEF Good
    <2> QED BY <1>1, <1>3, <1>5, <1>6, <2>1, <2>2 DEF TypeOK, Location, Kinds
  <1>8. LocationFollowsText'
    <2> SUFFICES ASSUME ~StringWithNewline'
                 PROVE  location'["end"] = Place(pos)'
      BY DEF LocationFollowsText
    <2>1. location["end"] = Place(pos)
      BY <1>4 DEF ScanInv, LocationFollowsText
    <2>2. location["end"].line \in Nat /\ location["end"].column \in Nat
      BY <1>1 DEF Location, Position
    <2>3. Place(pos)' = Place(pos + yyleng)
      BY <1>3 DEF Place, NewlinesBefore
    <2>4. Place(pos).line \in Int /\ Place(pos).column \in Int
      BY <2>1, <2>2
    <2>5. CASE Rule = "newline"
      <3>1. location'["end"] = [line |-> location["end"].line + yyleng, column |-> 1]
        BY <1>5, <1>6, <2>5
      <3>2. Place(pos + yyleng) = [line |-> Place(pos).line + yyleng, column |-> 1]
        <4>1. \A j \in pos..pos + yyleng - 1 : text[j] = Newline
          BY <1>2, <2>5, NewlinesRead
        <4> QED BY <1>2, <1>3, <2>4, <4>1, PlaceFacts, Zenon
      <3> QED BY <2>1, <2>3, <3>1, <3>2, Zenon
    <2>6. CASE Rule # "newline"
      <3>1. location'["end"] = [line   |-> location["end"].line,
                                column |-> location["end"].column + yyleng]
        BY <1>5, <1>6, <2>6
      <3>2. Rule = "string" => Newline \notin ToSet(Interior)
        <4> SUFFICES ASSUME Rule = "string", Newline \in ToSet(Interior)
                     PROVE  StringWithNewline'
          OBVIOUS
        <4>1. tokens \in Seq(ToSet(tokens) \cup {Token("string", Interior)})
          BY DEF ScanInv
        <4>2. /\ Len(tokens) + 1 \in DOMAIN tokens'
              /\ tokens'[Len(tokens) + 1] = Token("string", Interior)
          BY <4>1
        <4> QED BY <4>2 DEF StringWithNewline, Token
      <3>3. Place(pos + yyleng) = [line   |-> Place(pos).line,
                                   column |-> Place(pos).column + yyleng]
        <4>1. \A j \in pos..pos + yyleng - 1 : text[j] # Newline
          BY <1>2, <2>6, <3>2, NewlinesRead
        <4> QED BY <1>2, <1>3, <2>4, <4>1, PlaceFacts, Zenon
      <3> QED BY <2>1, <2>3, <3>1, <3>3, Zenon
    <2> QED BY <2>5, <2>6
  <1> QED BY <1>4, <1>7, <1>8 DEF ScanInv

\* Every step keeps the invariant.
LEMMA NextScanInv ==
  ASSUME ScanInv, [Next]_scannerVars
  PROVE  ScanInv'
PROOF
  <1>1. state = "scanning" /\ pos <= Len(text) => InText
    BY WordsOfLetters DEF ScanInv, TypeOK, InText
  <1>2. CASE ScanBlank
    BY <1>2, ReadStep DEF ScanBlank, Scanning
  <1>3. CASE ScanNewline
    BY <1>3, ReadStep DEF ScanNewline, Scanning
  <1>4. CASE ScanWord
    <2>1. /\ state = "scanning" /\ pos <= Len(text) /\ Rule \in {"operator", "keyword", "id"}
          /\ Return(Token(Rule, yytext)) /\ UNCHANGED state
      BY <1>4 DEF ScanWord, Scanning
    <2>2. Good(Token(Rule, yytext))
      BY <1>1, <2>1, WordIsGood
    <2> QED BY <2>1, <2>2, ReadStep DEF Return
  <1>5. CASE ScanString
    <2>1. /\ state = "scanning" /\ pos <= Len(text) /\ Rule = "string"
          /\ Return(Token("string", Interior)) /\ UNCHANGED state
      BY <1>5 DEF ScanString, Scanning, Interior
    <2>2. Good(Token("string", Interior))
      BY <1>1, <2>1, StringIsGood
    <2> QED BY <2>1, <2>2, ReadStep DEF Return
  <1>6. CASE make_number
    <2> DEFINE t == [kind |-> "number", int |-> strtol(yytext), at |-> pos,
                     loc |-> UpdateLocation]
    <2>1. state = "scanning" /\ pos <= Len(text) /\ Rule = "int"
      BY <1>6 DEF make_number, Scanning
    <2>2. CASE InRange(yytext) /\ Return(t) /\ UNCHANGED state
      <3>1. Good(t)
        BY <1>1, <2>1, <2>2, NumberIsGood
      <3> HIDE DEF t
      <3> QED BY <2>1, <2>2, <3>1, ReadStep DEF Return
    <2>3. CASE Throw
      BY <2>1, <2>3, ReadStep DEF Throw
    <2> QED BY <1>6, <2>2, <2>3 DEF make_number
  <1>7. CASE ScanAny
    BY <1>7, ReadStep DEF ScanAny, Scanning, Throw
  <1>8. CASE ScanEOF \/ UNCHANGED scannerVars
    <2>1. /\ UNCHANGED <<text, pos, location, tokens>>
          /\ state' \in {"scanning", "EOF", "error"}
      BY <1>8 DEF ScanEOF, scannerVars, ScanInv, TypeOK
    <2>2. \A t : Good(t) <=> Good(t)'
      BY <2>1 DEF Good, Exact, Whole, WholeWord, WholeOperator, WholeString
    <2>3. TypeOK' /\ LocationFollowsText'
      BY <2>1 DEF ScanInv, TypeOK, LocationFollowsText, StringWithNewline, Place, NewlinesBefore
    <2> QED BY <2>1, <2>2, <2>3 DEF ScanInv
  <1> QED BY <1>2, <1>3, <1>4, <1>5, <1>6, <1>7, <1>8 DEF Next

\* At the beginning of a text: line 1, column 1.
LEMMA InitScanInv ==
  ASSUME Init
  PROVE  ScanInv
PROOF
  <1>1. text \in Seq(STRING) /\ pos = 1 /\ tokens = <<>> /\ location["end"] = Start
    BY WordsOfLetters DEF Init
  <1>2. TypeOK
    BY <1>1 DEF Init, TypeOK, Start, Position
  <1>3. NewlinesBefore(1) = {}
    BY DEF NewlinesBefore
  <1>4. Max(NewlinesBefore(1) \cup {0}) = 0
    <2>1. NewlinesBefore(1) \cup {0} \subseteq Int
          /\ 0 \in NewlinesBefore(1) \cup {0}
          /\ \A k \in NewlinesBefore(1) \cup {0} : k <= 0
      BY <1>3
    <2> QED BY <2>1, MaxIs
  <1>5. Cardinality(NewlinesBefore(1)) = 0
    BY <1>3, FS_EmptySet, Zenon
  <1>6. Place(1) = Start
    BY <1>4, <1>5 DEF Place, Start
  <1> QED BY <1>1, <1>2, <1>6 DEF ScanInv, LocationFollowsText

\* The invariant holds throughout.
LEMMA ScanInvariant == Spec => []ScanInv
PROOF
  <1>1. Init => ScanInv
    BY InitScanInv
  <1>2. ScanInv /\ [Next]_scannerVars => ScanInv'
    BY NextScanInv
  <1> QED BY <1>1, <1>2, PTL DEF Spec

\* For every text: the reading position stays in the text, lines and columns
\* are counted from one, and the tokens are of the kinds of the grammar.
THEOREM ScanTypeCorrect == Spec => []TypeOK
PROOF
  <1>1. ScanInv => TypeOK
    BY DEF ScanInv
  <1> QED BY <1>1, ScanInvariant, PTL

\* For every text: the location that scanner.l moves rule by rule is the line
\* and column at which it is, as long as no string has a newline in it.
THEOREM LocationIsPlace == Spec => []LocationFollowsText
PROOF
  <1>1. ScanInv => LocationFollowsText
    BY DEF ScanInv
  <1> QED BY <1>1, ScanInvariant, PTL

\* For every text and every width of int and long: make_number returns the
\* number that is written, all its digits, or refuses it.
THEOREM NumbersNeverWrap == Spec => []NumbersAreExact
PROOF
  <1>1. ScanInv => NumbersAreExact
    BY DEF ScanInv, NumbersAreExact, Good, Exact
  <1> QED BY <1>1, ScanInvariant, PTL

\* For every text: no word, operator or string is cut in two or runs into what
\* follows, and a word is a keyword exactly if it is spelled like one.
THEOREM NothingIsCut == Spec => []LexemesAreWhole
PROOF
  <1>1. ScanInv => LexemesAreWhole
    BY DEF ScanInv, LexemesAreWhole, Good, Whole
  <1> QED BY <1>1, ScanInvariant, PTL
=============================================================================

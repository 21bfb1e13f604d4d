---------------------------- MODULE ParserProofs ----------------------------
(***************************************************************************)
(* What the parser promises, for every text: the symbols that are still to *)
(* come fit the values on the stack of values, so that no action takes a   *)
(* value of the wrong sort; and if the tree's nodes and sentences are      *)
(* closed under the constructors, then a tree is built, and what was read  *)
(* is a sentence of it.                                                    *)
(***************************************************************************)
EXTENDS SyntaxProofs

-----------------------------------------------------------------------------
\* What a symbol that is none of these takes and leaves.
Signature(x, takes, gives) ==
  <<x, takes, gives>> \in IF x \in RestRules THEN RestSignatures ELSE ActionSignatures

\* What a symbol turns the sorts A of the values into.
Turns(x, A, B) ==
  CASE x = "=throw"     -> TRUE
    [] x \in Plain      -> B = A & x
    [] OTHER            -> \E takes \in Seq(Names), gives \in Names, b \in Seq(Names) :
                             /\ Signature(x, takes, gives)
                             /\ A = b \o takes /\ B = b & gives

\* The symbols s turn A into B.
Typed(s, A, B) ==
  \E N \in [0..Len(s) -> Seq(Names)] :
    /\ N[0] = A /\ N[Len(s)] = B
    /\ \A k \in 1..Len(s) : Turns(s[k], N[k - 1], N[k])

\* The symbols that may come anywhere.
Ordinary == Names \ {"CompilationUnit", "EOF", "=set_ast", "=IfThen"}

\* An alternative of a rule, as Expand needs it.
Fine(rule, alt) ==
  /\ alt \in Seq(Ordinary)
  /\ \A A, B \in Seq(Names) : Turns(rule, A, B) => Typed(alt, A, B)

\* A rule, behind values of the sorts pre, is to leave one of the sort gives.
From(rule, pre, gives) ==
  \A A, B \in Seq(Names) : Turns(rule, A, B) => \E b \in Seq(Names) : A = b \o pre /\ B = b & gives

\* A symbol takes values and leaves one.
Ends(x, takes, gives) ==
  \A b \in Seq(Names) : Turns(x, b \o takes, b & gives)

\* So do symbols.
Path(s, pre, gives) ==
  /\ s \in Seq(Ordinary)
  /\ \A b \in Seq(Names) : Typed(s, b \o pre, b & gives)

-----------------------------------------------------------------------------
(* Sequences of symbols.                                                   *)

\* The action that throws is neither a kind of token nor a rule.
LEMMA SymbolsAreNotThrown == "=throw" \notin Plain
PROOF
  BY DEF Plain, Kinds, HasValue, PlainRules

\* The first symbol, and the others.
LEMMA TypedHead ==
  ASSUME NEW s \in Seq(Names), s # <<>>, NEW A \in Seq(Names), NEW C \in Seq(Names), Typed(s, A, C)
  PROVE  \E B \in Seq(Names) : Turns(Head(s), A, B) /\ Typed(Tail(s), B, C)
PROOF
  <1>1. PICK N \in [0..Len(s) -> Seq(Names)] :
          /\ N[0] = A /\ N[Len(s)] = C
          /\ \A k \in 1..Len(s) : Turns(s[k], N[k - 1], N[k])
    BY DEF Typed
  <1>2. /\ Len(s) \in Nat /\ Len(s) >= 1 /\ Head(s) = s[1]
        /\ Tail(s) \in Seq(Names) /\ Len(Tail(s)) = Len(s) - 1
        /\ \A k \in 1..Len(Tail(s)) : Tail(s)[k] = s[k + 1]
    BY HeadTailProperties
  <1> DEFINE M == [k \in 0..Len(s) - 1 |-> N[k + 1]]
  <1>3. M \in [0..Len(Tail(s)) -> Seq(Names)] /\ M[0] = N[1] /\ M[Len(Tail(s))] = C
    BY <1>1, <1>2
  <1>4. ASSUME NEW k \in 1..Len(Tail(s))
        PROVE  Turns(Tail(s)[k], M[k - 1], M[k])
    <2>1. k + 1 \in 1..Len(s) /\ Tail(s)[k] = s[k + 1] /\ M[k - 1] = N[k] /\ M[k] = N[k + 1]
      BY <1>2
    <2> QED  BY <2>1, <1>1
  <1>5. Typed(Tail(s), N[1], C)
    BY <1>3, <1>4 DEF Typed
  <1>6. N[1] \in Seq(Names) /\ Turns(s[1], N[0], N[1])
    BY <1>1, <1>2
  <1> QED  BY <1>1, <1>2, <1>5, <1>6

\* One after the other.
LEMMA TypedCat ==
  ASSUME NEW s \in Seq(Names), NEW t \in Seq(Names), NEW A, NEW B, NEW C,
         Typed(s, A, B), Typed(t, B, C)
  PROVE  Typed(s \o t, A, C)
PROOF
  <1>1. PICK N \in [0..Len(s) -> Seq(Names)] :
          /\ N[0] = A /\ N[Len(s)] = B
          /\ \A k \in 1..Len(s) : Turns(s[k], N[k - 1], N[k])
    BY DEF Typed
  <1>2. PICK M \in [0..Len(t) -> Seq(Names)] :
          /\ M[0] = B /\ M[Len(t)] = C
          /\ \A k \in 1..Len(t) : Turns(t[k], M[k - 1], M[k])
    BY DEF Typed
  <1>3. /\ Len(s) \in Nat /\ Len(t) \in Nat /\ Len(s \o t) = Len(s) + Len(t)
        /\ \A k \in 1..Len(s) + Len(t) : (s \o t)[k] = IF k <= Len(s) THEN s[k] ELSE t[k - Len(s)]
    BY ConcatProperties
  <1> DEFINE L == [k \in 0..Len(s) + Len(t) |-> IF k <= Len(s) THEN N[k] ELSE M[k - Len(s)]]
  <1>4. L \in [0..Len(s \o t) -> Seq(Names)]
    <2>1. ASSUME NEW k \in 0..Len(s) + Len(t)
          PROVE  L[k] \in Seq(Names)
      <3>1. CASE k <= Len(s)
        BY <3>1, <1>1, <1>3
      <3>2. CASE k > Len(s)
        <4>1. L[k] = M[k - Len(s)] /\ k - Len(s) \in 0..Len(t)
          BY <3>2, <1>3
        <4> QED  BY <4>1, <1>2
      <3> QED  BY <3>1, <3>2, <1>3
    <2> QED  BY <2>1, <1>3
  <1>5. L[0] = A
    BY <1>1, <1>3
  <1>6. L[Len(s \o t)] = C
    <2>1. CASE Len(t) = 0
      BY <2>1, <1>1, <1>2, <1>3
    <2>2. CASE Len(t) > 0
      BY <2>2, <1>2, <1>3
    <2> QED  BY <2>1, <2>2, <1>3
  <1>7. ASSUME NEW k \in 1..Len(s \o t)
        PROVE  Turns((s \o t)[k], L[k - 1], L[k])
    <2>1. CASE k <= Len(s)
      <3>1. (s \o t)[k] = s[k] /\ L[k - 1] = N[k - 1] /\ L[k] = N[k] /\ k \in 1..Len(s)
        BY <2>1, <1>3
      <3> QED  BY <3>1, <1>1
    <2>2. CASE k > Len(s)
      <3> DEFINE j == k - Len(s)
      <3>1. j \in 1..Len(t) /\ (s \o t)[k] = t[j] /\ L[k] = M[j]
        BY <2>2, <1>3
      <3>2. L[k - 1] = M[j - 1]
        <4>1. CASE j = 1
          BY <4>1, <1>1, <1>2, <1>3
        <4>2. CASE j > 1
          BY <4>2, <2>2, <1>3
        <4> QED  BY <4>1, <4>2, <3>1
      <3> HIDE DEF j, L
      <3> QED  BY <3>1, <3>2, <1>2
    <2> QED  BY <2>1, <2>2, <1>3
  <1> HIDE DEF L
  <1> QED  BY <1>4, <1>5, <1>6, <1>7 DEF Typed

\* A sequence of seven elements.
LEMMA Sequence7 ==
  ASSUME NEW S, NEW x1 \in S, NEW x2 \in S, NEW x3 \in S, NEW x4 \in S, NEW x5 \in S, NEW x6 \in S, NEW x7 \in S
  PROVE  /\ <<x1, x2, x3, x4, x5, x6, x7>> \in Seq(S)
         /\ Len(<<x1, x2, x3, x4, x5, x6, x7>>) = 7
PROOF
  <1>1. <<x1, x2, x3, x4, x5, x6, x7>> \in [1..7 -> S]
    OBVIOUS
  <1> QED  BY <1>1, SeqDef

\* A sequence of nine elements.
LEMMA Sequence9 ==
  ASSUME NEW S, NEW x1 \in S, NEW x2 \in S, NEW x3 \in S, NEW x4 \in S, NEW x5 \in S, NEW x6 \in S, NEW x7 \in S, NEW x8 \in S,
         NEW x9 \in S
  PROVE  /\ <<x1, x2, x3, x4, x5, x6, x7, x8, x9>> \in Seq(S)
         /\ Len(<<x1, x2, x3, x4, x5, x6, x7, x8, x9>>) = 9
PROOF
  <1>1. <<x1, x2, x3, x4, x5, x6, x7, x8, x9>> \in [1..9 -> S]
    OBVIOUS
  <1> QED  BY <1>1, SeqDef

\* A sort is pushed.
LEMMA PushIs ==
  ASSUME NEW s \in Seq(Names), NEW x \in Names
  PROVE  /\ s & x \in Seq(Names) /\ Len(s & x) = Len(s) + 1
         /\ \A i \in 1..Len(s) : (s & x)[i] = s[i]
         /\ (s & x)[Len(s) + 1] = x
PROOF
  BY AppendProperties DEF &

\* What is pushed on the second part is pushed on the whole.
LEMMA PushLast ==
  ASSUME NEW b \in Seq(Names), NEW s \in Seq(Names), NEW x \in Names
  PROVE  b \o (s & x) = (b \o s) & x
PROOF
  <1>1. s & x = s \o <<x>> /\ (b \o s) & x = (b \o s) \o <<x>> /\ <<x>> \in Seq(Names)
    BY ConcatProperties, AppendIsConcat, Sequence1 DEF &
  <1>2. (b \o s) \o <<x>> = b \o (s \o <<x>>)
    BY <1>1, ConcatAssociative
  <1> QED  BY <1>1, <1>2

\* Symbols in front of the last one push their sorts.
LEMMA Pushing ==
  ASSUME NEW pre \in Seq(Names), NEW gives \in Names, NEW takes \in Seq(Names),
         NEW alt \in Seq(Ordinary), Len(alt) >= 1,
         Len(takes) = Len(pre) + Len(alt) - 1,
         \A k \in 1..Len(pre) : takes[k] = pre[k],
         \A k \in 1..Len(alt) - 1 : alt[k] \in Plain /\ alt[k] # "=throw" /\ takes[Len(pre) + k] = alt[k],
         Ends(alt[Len(alt)], takes, gives)
  PROVE  Path(alt, pre, gives)
PROOF
  <1> SUFFICES ASSUME NEW b \in Seq(Names)
               PROVE  Typed(alt, b \o pre, b & gives)
    BY DEF Path
  <1> DEFINE p == Len(pre)
             n == Len(alt)
             N == [k \in 0..n |-> IF k < n THEN b \o SubSeq(takes, 1, p + k) ELSE b & gives]
  <1>1. p \in Nat /\ n \in Nat /\ n >= 1 /\ Len(takes) = p + n - 1
    OBVIOUS
  <1>2. \A k \in 0..n - 1 : /\ SubSeq(takes, 1, p + k) \in Seq(Names)
                            /\ Len(SubSeq(takes, 1, p + k)) = p + k
                            /\ \A i \in 1..p + k : SubSeq(takes, 1, p + k)[i] = takes[i]
    <2> TAKE k \in 0..n - 1
    <2>1. \A i \in 1..p + k : takes[i] \in Names
      BY <1>1, ElementOfSeq
    <2>2. /\ SubSeq(takes, 1, p + k) \in Seq(Names)
          /\ Len(SubSeq(takes, 1, p + k)) = IF 1 <= p + k THEN p + k - 1 + 1 ELSE 0
          /\ \A i \in 1..p + k - 1 + 1 : SubSeq(takes, 1, p + k)[i] = takes[1 + i - 1]
      BY <2>1, <1>1, SubSeqProperties
    <2> QED  BY <2>2, <1>1
  <1>3. N \in [0..n -> Seq(Names)]
    <2>1. b & gives \in Seq(Names)
      BY AppendProperties DEF &
    <2>2. \A k \in 0..n - 1 : b \o SubSeq(takes, 1, p + k) \in Seq(Names)
      BY <1>2, ConcatProperties
    <2>3. \A k \in 0..n : N[k] \in Seq(Names)
      <3> TAKE k \in 0..n
      <3>1. CASE k < n
        <4>1. k \in 0..n - 1 /\ N[k] = b \o SubSeq(takes, 1, p + k)
          BY <3>1, <1>1
        <4> QED  BY <4>1, <2>2
      <3>2. CASE k = n
        BY <3>2, <2>1, <1>1
      <3> QED  BY <3>1, <3>2, <1>1
    <2> QED  BY <2>3
  <1>4. N[0] = b \o pre
    <2>1. SubSeq(takes, 1, p + 0) = pre
      BY <1>1, <1>2, SeqEqual
    <2> QED  BY <2>1, <1>1
  <1>5. N[n] = b & gives
    BY <1>1
  <1>6. \A k \in 1..n - 1 : Turns(alt[k], N[k - 1], N[k])
    <2> TAKE k \in 1..n - 1
    <2> DEFINE s == SubSeq(takes, 1, p + (k - 1))
               t == SubSeq(takes, 1, p + k)
    <2>1. N[k - 1] = b \o s /\ N[k] = b \o t
      <3>1. k \in 0..n /\ k < n /\ k - 1 \in 0..n /\ k - 1 < n
        BY <1>1
      <3> QED  BY <3>1
    <2>2. /\ s \in Seq(Names) /\ Len(s) = p + k - 1 /\ \A i \in 1..p + k - 1 : s[i] = takes[i]
          /\ t \in Seq(Names) /\ Len(t) = p + k /\ \A i \in 1..p + k : t[i] = takes[i]
      <3>1. k - 1 \in 0..n - 1 /\ k \in 0..n - 1 /\ p + (k - 1) = p + k - 1
        BY <1>1
      <3> QED  BY <1>2, <3>1
    <2>3. alt[k] \in Names /\ takes[p + k] = alt[k]
      BY <1>1, ElementOfSeq DEF Ordinary
    <2> HIDE DEF s, t, N
    <2>4. t = s & alt[k]
      <3>1. /\ s & alt[k] \in Seq(Names) /\ Len(s & alt[k]) = Len(s) + 1
            /\ \A i \in 1..Len(s) : (s & alt[k])[i] = s[i]
            /\ (s & alt[k])[Len(s) + 1] = alt[k]
        BY <2>2, <2>3, PushIs
      <3>2. \A i \in 1..Len(t) : t[i] = (s & alt[k])[i]
        <4> TAKE i \in 1..Len(t)
        <4>1. i \in 1..Len(s) \/ (i = Len(s) + 1 /\ i = p + k)
          BY <2>2, <1>1
        <4>2. t[i] = takes[i] /\ (i \in 1..Len(s) => s[i] = takes[i])
          BY <2>2, <1>1
        <4> QED  BY <4>1, <4>2, <3>1, <2>3
      <3>3. Len(t) = Len(s & alt[k])
        BY <3>1, <2>2, <1>1
      <3> QED  BY <3>1, <3>2, <3>3, <2>2, SeqEqual
    <2>5. b \o t = (b \o s) & alt[k]
      BY <2>2, <2>3, <2>4, PushLast
    <2> QED  BY <2>1, <2>5 DEF Turns
  <1>7. Turns(alt[n], N[n - 1], N[n])
    <2>1. takes = SubSeq(takes, 1, p + (n - 1))
      BY <1>1, SubSeqFull
    <2>2. n - 1 \in 0..n /\ n - 1 < n
      BY <1>1
    <2>3. N[n - 1] = b \o takes
      BY <2>1, <2>2
    <2> QED  BY <2>3, <1>5 DEF Ends
  <1> HIDE DEF N
  <1>8. \A k \in 1..n : Turns(alt[k], N[k - 1], N[k])
    BY <1>1, <1>6, <1>7
  <1> QED  BY <1>3, <1>4, <1>5, <1>8 DEF Typed

\* A path is an alternative of a rule that is to leave the same.
LEMMA PathFine ==
  ASSUME NEW rule, NEW s, NEW pre, NEW gives, From(rule, pre, gives), Path(s, pre, gives)
  PROVE  Fine(rule, s)
PROOF
  BY DEF From, Path, Fine

\* Paths in a row.
LEMMA PathCat ==
  ASSUME NEW s, NEW t, NEW pre, NEW sort \in Ordinary, NEW gives, Path(s, pre, sort), Path(t, <<sort>>, gives)
  PROVE  Path(s \o t, pre, gives)
PROOF
  <1>1. s \in Seq(Ordinary) /\ t \in Seq(Ordinary) /\ s \in Seq(Names) /\ t \in Seq(Names)
    BY SeqMonotonic DEF Path, Ordinary
  <1>2. s \o t \in Seq(Ordinary)
    BY <1>1, ConcatProperties
  <1>3. ASSUME NEW b \in Seq(Names)
        PROVE  Typed(s \o t, b \o pre, b & gives)
    <2>1. b & sort = b \o <<sort>>
      BY AppendIsConcat DEF &, Ordinary
    <2> QED  BY <1>1, <2>1, TypedCat DEF Path
  <1> QED  BY <1>2, <1>3 DEF Path

-----------------------------------------------------------------------------
(* The signatures.                                                         *)

\* No rule of these is a symbol that leaves itself.
LEMMA RestNames ==
  ASSUME NEW x, NEW takes, NEW gives, <<x, takes, gives>> \in RestSignatures
  PROVE  x \notin Plain /\ x # "=throw" /\ x \in RestRules
PROOF
  <1>1. x \in {"IdentListRest", "ConstantDefRest", "TypeDefRest", "VariableDeclRest",
              "SubprogDeclRest", "OneFormalParamRest", "SubrangeRest", "FieldListRest",
              "StatementRest", "AssignmentOrCall", "ElseOpt", "CaseRest", "CaseLabelRest",
              "DesignatorRest", "ExpListRest", "RelationOpt", "TermListRest", "FactorListRest",
              "DesignatorOrCall", "ElementListRest", "ElementRest"}
    BY ZenonT(60) DEF RestSignatures
  <1>2. /\ "IdentListRest" \notin Plain /\ "ConstantDefRest" \notin Plain /\ "TypeDefRest" \notin Plain
        /\ "VariableDeclRest" \notin Plain /\ "SubprogDeclRest" \notin Plain /\ "OneFormalParamRest" \notin Plain
        /\ "SubrangeRest" \notin Plain /\ "FieldListRest" \notin Plain /\ "StatementRest" \notin Plain
        /\ "AssignmentOrCall" \notin Plain /\ "ElseOpt" \notin Plain /\ "CaseRest" \notin Plain
        /\ "CaseLabelRest" \notin Plain /\ "DesignatorRest" \notin Plain /\ "ExpListRest" \notin Plain
        /\ "RelationOpt" \notin Plain /\ "TermListRest" \notin Plain /\ "FactorListRest" \notin Plain
        /\ "DesignatorOrCall" \notin Plain /\ "ElementListRest" \notin Plain /\ "ElementRest" \notin Plain
    BY DEF Plain, Kinds, HasValue, PlainRules
  <1>3. x \in RestRules
    BY <1>1 DEF RestRules
  <1> QED  BY <1>1, <1>2, <1>3

\* No action of these is a symbol that leaves itself.
LEMMA DeclarationNames ==
  ASSUME NEW x, NEW takes, NEW gives, <<x, takes, gives>> \in DeclarationSignatures
  PROVE  x \notin Plain /\ x # "=throw" /\ x \notin RestRules
PROOF
  <1>1. x \in {"=set_ast", "=ProgramModule", "=parameters", "=empty", "=insert", "=vector", "=Block",
              "=Declarations", "=last", "=first", "=vector;", "=ConstDef", "=TypeDef", "=VarDecl",
              "=prepend", "=SubprogDecl", "=ProcDecl", "=FuncDecl", "=ProcHeading", "=inner",
              "=FormalParam"}
    BY ZenonT(60) DEF DeclarationSignatures
  <1>2. /\ "=set_ast" \notin Plain /\ "=ProgramModule" \notin Plain /\ "=parameters" \notin Plain
        /\ "=empty" \notin Plain /\ "=insert" \notin Plain /\ "=vector" \notin Plain
        /\ "=Block" \notin Plain /\ "=Declarations" \notin Plain /\ "=last" \notin Plain
        /\ "=first" \notin Plain /\ "=vector;" \notin Plain /\ "=ConstDef" \notin Plain
        /\ "=TypeDef" \notin Plain /\ "=VarDecl" \notin Plain /\ "=prepend" \notin Plain
        /\ "=SubprogDecl" \notin Plain /\ "=ProcDecl" \notin Plain /\ "=FuncDecl" \notin Plain
        /\ "=ProcHeading" \notin Plain /\ "=inner" \notin Plain /\ "=FormalParam" \notin Plain
    BY DEF Plain, Kinds, HasValue, PlainRules
  <1>3. x \notin RestRules
    BY <1>1 DEF RestRules
  <1> QED  BY <1>1, <1>2, <1>3

\* No action of these is a symbol that leaves itself.
LEMMA ConstantAndTypeNames ==
  ASSUME NEW x, NEW takes, NEW gives, <<x, takes, gives>> \in ConstantAndTypeSignatures
  PROVE  x \notin Plain /\ x # "=throw" /\ x \notin RestRules
PROOF
  <1>1. x \in {"=ConstExpr", "Plus", "Minus", "None", "=ConstIdent", "=ConstNumber", "=ConstTrue",
              "=ConstFalse", "=ConstNil", "=NamedType", "=ArrayType", "=PointerType", "=RecordType",
              "=SetType", "=insert", "=vector", "=Subrange", "=FieldList"}
    BY ZenonT(60) DEF ConstantAndTypeSignatures
  <1>2. /\ "=ConstExpr" \notin Plain /\ "Plus" \notin Plain /\ "Minus" \notin Plain
        /\ "None" \notin Plain /\ "=ConstIdent" \notin Plain /\ "=ConstNumber" \notin Plain
        /\ "=ConstTrue" \notin Plain /\ "=ConstFalse" \notin Plain /\ "=ConstNil" \notin Plain
        /\ "=NamedType" \notin Plain /\ "=ArrayType" \notin Plain /\ "=PointerType" \notin Plain
        /\ "=RecordType" \notin Plain /\ "=SetType" \notin Plain /\ "=insert" \notin Plain
        /\ "=vector" \notin Plain /\ "=Subrange" \notin Plain /\ "=FieldList" \notin Plain
    BY DEF Plain, Kinds, HasValue, PlainRules
  <1>3. x \notin RestRules
    BY <1>1 DEF RestRules
  <1> QED  BY <1>1, <1>2, <1>3

\* No action of these is a symbol that leaves itself.
LEMMA StatementNames ==
  ASSUME NEW x, NEW takes, NEW gives, <<x, takes, gives>> \in StatementSignatures
  PROVE  x \notin Plain /\ x # "=throw" /\ x \notin RestRules
PROOF
  <1>1. x \in {"=StmtSeq", "=insert", "=vector", "=CaseStmt", "=WhileStmt", "=RepeatStmt",
              "=ForStmt", "=New", "=Dispose", "=first", "=EmptyStmt", "=Designator", "=Assignment",
              "=ProcCall", "=empty", "=IfElse", "=IfThen", "=Case", "To", "DownTo"}
    BY ZenonT(60) DEF StatementSignatures
  <1>2. /\ "=StmtSeq" \notin Plain /\ "=insert" \notin Plain /\ "=vector" \notin Plain
        /\ "=CaseStmt" \notin Plain /\ "=WhileStmt" \notin Plain /\ "=RepeatStmt" \notin Plain
        /\ "=ForStmt" \notin Plain /\ "=New" \notin Plain /\ "=Dispose" \notin Plain
        /\ "=first" \notin Plain /\ "=EmptyStmt" \notin Plain /\ "=Designator" \notin Plain
        /\ "=Assignment" \notin Plain /\ "=ProcCall" \notin Plain /\ "=empty" \notin Plain
        /\ "=IfElse" \notin Plain /\ "=IfThen" \notin Plain /\ "=Case" \notin Plain
        /\ "To" \notin Plain /\ "DownTo" \notin Plain
    BY DEF Plain, Kinds, HasValue, PlainRules
  <1>3. x \notin RestRules
    BY <1>1 DEF RestRules
  <1> QED  BY <1>1, <1>2, <1>3

\* No action of these is a symbol that leaves itself.
LEMMA ExpressionNames ==
  ASSUME NEW x, NEW takes, NEW gives, <<x, takes, gives>> \in ExpressionSignatures
  PROVE  x \notin Plain /\ x # "=throw" /\ x \notin RestRules
PROOF
  <1>1. x \in {"=first", "=empty", "=prepend", "=vector", "=FieldAccess", "=ArrayAccess",
              "=PointerAccess", "=inner", "=insert", "=Relation", "=Expr", "=SimpleExpr",
              "=inserts", "=vectors", "=Term", "=Number", "=String", "=True", "=False", "=Nil",
              "=Paren", "=Negation", "=FuncCall", "=pair", "Multiply", "RealDiv", "IntDiv",
              "Modulo", "And", "Plus", "Minus", "Or", "Equal", "NotEqual", "Less", "Greater",
              "LessEqual", "GreaterEqual", "In"}
    BY ZenonT(60) DEF ExpressionSignatures
  <1>2. /\ "=first" \notin Plain /\ "=empty" \notin Plain /\ "=prepend" \notin Plain
        /\ "=vector" \notin Plain /\ "=FieldAccess" \notin Plain /\ "=ArrayAccess" \notin Plain
        /\ "=PointerAccess" \notin Plain /\ "=inner" \notin Plain /\ "=insert" \notin Plain
        /\ "=Relation" \notin Plain /\ "=Expr" \notin Plain /\ "=SimpleExpr" \notin Plain
        /\ "=inserts" \notin Plain /\ "=vectors" \notin Plain /\ "=Term" \notin Plain
        /\ "=Number" \notin Plain /\ "=String" \notin Plain /\ "=True" \notin Plain
        /\ "=False" \notin Plain /\ "=Nil" \notin Plain /\ "=Paren" \notin Plain
        /\ "=Negation" \notin Plain /\ "=FuncCall" \notin Plain /\ "=pair" \notin Plain
        /\ "Multiply" \notin Plain /\ "RealDiv" \notin Plain /\ "IntDiv" \notin Plain
        /\ "Modulo" \notin Plain /\ "And" \notin Plain /\ "Plus" \notin Plain
        /\ "Minus" \notin Plain /\ "Or" \notin Plain /\ "Equal" \notin Plain
        /\ "NotEqual" \notin Plain /\ "Less" \notin Plain /\ "Greater" \notin Plain
        /\ "LessEqual" \notin Plain /\ "GreaterEqual" \notin Plain /\ "In" \notin Plain
    BY DEF Plain, Kinds, HasValue, PlainRules
  <1>3. x \notin RestRules
    BY <1>1 DEF RestRules
  <1> QED  BY <1>1, <1>2, <1>3

\* A symbol with a signature is no symbol that leaves itself.
LEMMA SignatureNames ==
  ASSUME NEW x, NEW takes, NEW gives, <<x, takes, gives>> \in RestSignatures \cup ActionSignatures
  PROVE  x \notin Plain /\ x # "=throw" /\ Signature(x, takes, gives)
PROOF
  BY RestNames, DeclarationNames, ConstantAndTypeNames, StatementNames, ExpressionNames
     DEF Signature, ActionSignatures

\* It takes what its signature says.
LEMMA SignatureEnds ==
  ASSUME NEW x, NEW takes \in Seq(Names), NEW gives \in Names,
         <<x, takes, gives>> \in RestSignatures \cup ActionSignatures
  PROVE  Ends(x, takes, gives)
PROOF
  BY SignatureNames DEF Ends, Turns

-----------------------------------------------------------------------------
(* The paths of the grammar.                                               *)

\* An action.
LEMMA Path00 ==
  ASSUME NEW a \in Ordinary, NEW gives \in Ordinary,
         <<a, <<>>, gives>> \in RestSignatures \cup ActionSignatures
  PROVE  Path(<<a>>, <<>>, gives)
PROOF
  <1> DEFINE alt == <<a>>  pre == <<>>  takes == <<>>
  <1>1. alt \in Seq(Ordinary) /\ Len(alt) = 1
    BY Sequence1
  <1>2. /\ pre \in Seq(Names) /\ Len(pre) = 0
        /\ takes \in Seq(Names) /\ Len(takes) = 0
    BY EmptySeq DEF Ordinary
  <1>3. alt[1] = a /\ <<a, takes, gives>> \in RestSignatures \cup ActionSignatures
    OBVIOUS
  <1> HIDE DEF alt, pre, takes
  <1>9. Ends(alt[1], takes, gives)
    BY <1>2, <1>3, SignatureEnds DEF Ordinary
  <1>6. \A k \in 1..Len(pre) : takes[k] = pre[k]
    BY <1>2
  <1>7. \A k \in 1..Len(alt) - 1 : alt[k] \in Plain /\ alt[k] # "=throw" /\ takes[Len(pre) + k] = alt[k]
    <2> TAKE k \in 1..Len(alt) - 1
    <2> QED  BY <1>1
  <1>8. Path(alt, pre, gives)
    <2>1. Len(alt) >= 1 /\ Len(takes) = Len(pre) + Len(alt) - 1 /\ Ends(alt[Len(alt)], takes, gives)
      BY <1>1, <1>2, <1>9
    <2>2. gives \in Names
      BY DEF Ordinary
    <2> QED  BY <2>1, <2>2, <1>1, <1>2, <1>6, <1>7, Pushing, Zenon
  <1> QED  BY <1>8 DEF alt, pre

\* Symbols that are taken by the last one.
LEMMA Path01 ==
  ASSUME NEW x1 \in Ordinary, x1 \in Plain, NEW a \in Ordinary, NEW gives \in Ordinary,
         <<a, <<x1>>, gives>> \in RestSignatures \cup ActionSignatures
  PROVE  Path(<<x1, a>>, <<>>, gives)
PROOF
  <1> DEFINE alt == <<x1, a>>  pre == <<>>  takes == <<x1>>
  <1>1. alt \in Seq(Ordinary) /\ Len(alt) = 2
    BY Sequence2
  <1>2. /\ pre \in Seq(Names) /\ Len(pre) = 0
        /\ takes \in Seq(Names) /\ Len(takes) = 1
    BY EmptySeq, Sequence1 DEF Ordinary
  <1>3. alt[2] = a /\ <<a, takes, gives>> \in RestSignatures \cup ActionSignatures
    OBVIOUS
  <1>5. /\ alt[1] \in Plain /\ takes[1] = alt[1]
    OBVIOUS
  <1> HIDE DEF alt, pre, takes
  <1>9. Ends(alt[2], takes, gives)
    BY <1>2, <1>3, SignatureEnds DEF Ordinary
  <1>6. \A k \in 1..Len(pre) : takes[k] = pre[k]
    BY <1>2
  <1>7. \A k \in 1..Len(alt) - 1 : alt[k] \in Plain /\ alt[k] # "=throw" /\ takes[Len(pre) + k] = alt[k]
    <2> TAKE k \in 1..Len(alt) - 1
    <2>1. k = 1
      BY <1>1
    <2>2. alt[k] \in Plain /\ takes[0 + k] = alt[k]
      BY <2>1, <1>5
    <2> QED  BY <2>2, <1>2, SymbolsAreNotThrown
  <1>8. Path(alt, pre, gives)
    <2>1. Len(alt) >= 1 /\ Len(takes) = Len(pre) + Len(alt) - 1 /\ Ends(alt[Len(alt)], takes, gives)
      BY <1>1, <1>2, <1>9
    <2>2. gives \in Names
      BY DEF Ordinary
    <2> QED  BY <2>1, <2>2, <1>1, <1>2, <1>6, <1>7, Pushing, Zenon
  <1> QED  BY <1>8 DEF alt, pre

\* Symbols that are taken by the last one.
LEMMA Path02 ==
  ASSUME NEW x1 \in Ordinary, NEW x2 \in Ordinary, x1 \in Plain, x2 \in Plain, NEW a \in Ordinary,
         NEW gives \in Ordinary, <<a, <<x1, x2>>, gives>> \in RestSignatures \cup ActionSignatures
  PROVE  Path(<<x1, x2, a>>, <<>>, gives)
PROOF
  <1> DEFINE alt == <<x1, x2, a>>  pre == <<>>  takes == <<x1, x2>>
  <1>1. alt \in Seq(Ordinary) /\ Len(alt) = 3
    BY Sequence3
  <1>2. /\ pre \in Seq(Names) /\ Len(pre) = 0
        /\ takes \in Seq(Names) /\ Len(takes) = 2
    BY EmptySeq, Sequence2 DEF Ordinary
  <1>3. alt[3] = a /\ <<a, takes, gives>> \in RestSignatures \cup ActionSignatures
    OBVIOUS
  <1>5. /\ alt[1] \in Plain /\ takes[1] = alt[1]
        /\ alt[2] \in Plain /\ takes[2] = alt[2]
    OBVIOUS
  <1> HIDE DEF alt, pre, takes
  <1>9. Ends(alt[3], takes, gives)
    BY <1>2, <1>3, SignatureEnds DEF Ordinary
  <1>6. \A k \in 1..Len(pre) : takes[k] = pre[k]
    BY <1>2
  <1>7. \A k \in 1..Len(alt) - 1 : alt[k] \in Plain /\ alt[k] # "=throw" /\ takes[Len(pre) + k] = alt[k]
    <2> TAKE k \in 1..Len(alt) - 1
    <2>1. k = 1 \/ k = 2
      BY <1>1
    <2>2. alt[k] \in Plain /\ takes[0 + k] = alt[k]
      BY <2>1, <1>5
    <2> QED  BY <2>2, <1>2, SymbolsAreNotThrown
  <1>8. Path(alt, pre, gives)
    <2>1. Len(alt) >= 1 /\ Len(takes) = Len(pre) + Len(alt) - 1 /\ Ends(alt[Len(alt)], takes, gives)
      BY <1>1, <1>2, <1>9
    <2>2. gives \in Names
      BY DEF Ordinary
    <2> QED  BY <2>1, <2>2, <1>1, <1>2, <1>6, <1>7, Pushing, Zenon
  <1> QED  BY <1>8 DEF alt, pre

\* Symbols that are taken by the last one.
LEMMA Path03 ==
  ASSUME NEW x1 \in Ordinary, NEW x2 \in Ordinary, NEW x3 \in Ordinary, x1 \in Plain, x2 \in Plain,
         x3 \in Plain, NEW a \in Ordinary, NEW gives \in Ordinary,
         <<a, <<x1, x2, x3>>, gives>> \in RestSignatures \cup ActionSignatures
  PROVE  Path(<<x1, x2, x3, a>>, <<>>, gives)
PROOF
  <1> DEFINE alt == <<x1, x2, x3, a>>  pre == <<>>  takes == <<x1, x2, x3>>
  <1>1. alt \in Seq(Ordinary) /\ Len(alt) = 4
    BY Sequence4
  <1>2. /\ pre \in Seq(Names) /\ Len(pre) = 0
        /\ takes \in Seq(Names) /\ Len(takes) = 3
    BY EmptySeq, Sequence3 DEF Ordinary
  <1>3. alt[4] = a /\ <<a, takes, gives>> \in RestSignatures \cup ActionSignatures
    OBVIOUS
  <1>5. /\ alt[1] \in Plain /\ takes[1] = alt[1]
        /\ alt[2] \in Plain /\ takes[2] = alt[2]
        /\ alt[3] \in Plain /\ takes[3] = alt[3]
    OBVIOUS
  <1> HIDE DEF alt, pre, takes
  <1>9. Ends(alt[4], takes, gives)
    BY <1>2, <1>3, SignatureEnds DEF Ordinary
  <1>6. \A k \in 1..Len(pre) : takes[k] = pre[k]
    BY <1>2
  <1>7. \A k \in 1..Len(alt) - 1 : alt[k] \in Plain /\ alt[k] # "=throw" /\ takes[Len(pre) + k] = alt[k]
    <2> TAKE k \in 1..Len(alt) - 1
    <2>1. k = 1 \/ k = 2 \/ k = 3
      BY <1>1
    <2>2. alt[k] \in Plain /\ takes[0 + k] = alt[k]
      BY <2>1, <1>5
    <2> QED  BY <2>2, <1>2, SymbolsAreNotThrown
  <1>8. Path(alt, pre, gives)
    <2>1. Len(alt) >= 1 /\ Len(takes) = Len(pre) + Len(alt) - 1 /\ Ends(alt[Len(alt)], takes, gives)
      BY <1>1, <1>2, <1>9
    <2>2. gives \in Names
      BY DEF Ordinary
    <2> QED  BY <2>1, <2>2, <1>1, <1>2, <1>6, <1>7, Pushing, Zenon
  <1> QED  BY <1>8 DEF alt, pre

\* Symbols that are taken by the last one.
LEMMA Path04 ==
  ASSUME NEW x1 \in Ordinary, NEW x2 \in Ordinary, NEW x3 \in Ordinary, NEW x4 \in Ordinary,
         x1 \in Plain, x2 \in Plain, x3 \in Plain, x4 \in Plain, NEW a \in Ordinary,
         NEW gives \in Ordinary,
         <<a, <<x1, x2, x3, x4>>, gives>> \in RestSignatures \cup ActionSignatures
  PROVE  Path(<<x1, x2, x3, x4, a>>, <<>>, gives)
PROOF
  <1> DEFINE alt == <<x1, x2, x3, x4, a>>  pre == <<>>  takes == <<x1, x2, x3, x4>>
  <1>1. alt \in Seq(Ordinary) /\ Len(alt) = 5
    BY Sequence5
  <1>2. /\ pre \in Seq(Names) /\ Len(pre) = 0
        /\ takes \in Seq(Names) /\ Len(takes) = 4
    BY EmptySeq, Sequence4 DEF Ordinary
  <1>3. alt[5] = a /\ <<a, takes, gives>> \in RestSignatures \cup ActionSignatures
    OBVIOUS
  <1>5. /\ alt[1] \in Plain /\ takes[1] = alt[1]
        /\ alt[2] \in Plain /\ takes[2] = alt[2]
        /\ alt[3] \in Plain /\ takes[3] = alt[3]
        /\ alt[4] \in Plain /\ takes[4] = alt[4]
    OBVIOUS
  <1> HIDE DEF alt, pre, takes
  <1>9. Ends(alt[5], takes, gives)
    BY <1>2, <1>3, SignatureEnds DEF Ordinary
  <1>6. \A k \in 1..Len(pre) : takes[k] = pre[k]
    BY <1>2
  <1>7. \A k \in 1..Len(alt) - 1 : alt[k] \in Plain /\ alt[k] # "=throw" /\ takes[Len(pre) + k] = alt[k]
    <2> TAKE k \in 1..Len(alt) - 1
    <2>1. k = 1 \/ k = 2 \/ k = 3 \/ k = 4
      BY <1>1
    <2>2. alt[k] \in Plain /\ takes[0 + k] = alt[k]
      BY <2>1, <1>5
    <2> QED  BY <2>2, <1>2, SymbolsAreNotThrown
  <1>8. Path(alt, pre, gives)
    <2>1. Len(alt) >= 1 /\ Len(takes) = Len(pre) + Len(alt) - 1 /\ Ends(alt[Len(alt)], takes, gives)
      BY <1>1, <1>2, <1>9
    <2>2. gives \in Names
      BY DEF Ordinary
    <2> QED  BY <2>1, <2>2, <1>1, <1>2, <1>6, <1>7, Pushing, Zenon
  <1> QED  BY <1>8 DEF alt, pre

\* Symbols that are taken by the last one.
LEMMA Path05 ==
  ASSUME NEW x1 \in Ordinary, NEW x2 \in Ordinary, NEW x3 \in Ordinary, NEW x4 \in Ordinary,
         NEW x5 \in Ordinary, x1 \in Plain, x2 \in Plain, x3 \in Plain, x4 \in Plain, x5 \in Plain,
         NEW a \in Ordinary, NEW gives \in Ordinary,
         <<a, <<x1, x2, x3, x4, x5>>, gives>> \in RestSignatures \cup ActionSignatures
  PROVE  Path(<<x1, x2, x3, x4, x5, a>>, <<>>, gives)
PROOF
  <1> DEFINE alt == <<x1, x2, x3, x4, x5, a>>  pre == <<>>  takes == <<x1, x2, x3, x4, x5>>
  <1>1. alt \in Seq(Ordinary) /\ Len(alt) = 6
    BY Sequence6
  <1>2. /\ pre \in Seq(Names) /\ Len(pre) = 0
        /\ takes \in Seq(Names) /\ Len(takes) = 5
    BY EmptySeq, Sequence5 DEF Ordinary
  <1>3. alt[6] = a /\ <<a, takes, gives>> \in RestSignatures \cup ActionSignatures
    OBVIOUS
  <1>5. /\ alt[1] \in Plain /\ takes[1] = alt[1]
        /\ alt[2] \in Plain /\ takes[2] = alt[2]
        /\ alt[3] \in Plain /\ takes[3] = alt[3]
        /\ alt[4] \in Plain /\ takes[4] = alt[4]
        /\ alt[5] \in Plain /\ takes[5] = alt[5]
    OBVIOUS
  <1> HIDE DEF alt, pre, takes
  <1>9. Ends(alt[6], takes, gives)
    BY <1>2, <1>3, SignatureEnds DEF Ordinary
  <1>6. \A k \in 1..Len(pre) : takes[k] = pre[k]
    BY <1>2
  <1>7. \A k \in 1..Len(alt) - 1 : alt[k] \in Plain /\ alt[k] # "=throw" /\ takes[Len(pre) + k] = alt[k]
    <2> TAKE k \in 1..Len(alt) - 1
    <2>1. k = 1 \/ k = 2 \/ k = 3 \/ k = 4 \/ k = 5
      BY <1>1
    <2>2. alt[k] \in Plain /\ takes[0 + k] = alt[k]
      BY <2>1, <1>5
    <2> QED  BY <2>2, <1>2, SymbolsAreNotThrown
  <1>8. Path(alt, pre, gives)
    <2>1. Len(alt) >= 1 /\ Len(takes) = Len(pre) + Len(alt) - 1 /\ Ends(alt[Len(alt)], takes, gives)
      BY <1>1, <1>2, <1>9
    <2>2. gives \in Names
      BY DEF Ordinary
    <2> QED  BY <2>1, <2>2, <1>1, <1>2, <1>6, <1>7, Pushing, Zenon
  <1> QED  BY <1>8 DEF alt, pre

\* Symbols that are taken by the last one.
LEMMA Path06 ==
  ASSUME NEW x1 \in Ordinary, NEW x2 \in Ordinary, NEW x3 \in Ordinary, NEW x4 \in Ordinary,
         NEW x5 \in Ordinary, NEW x6 \in Ordinary, x1 \in Plain, x2 \in Plain, x3 \in Plain,
         x4 \in Plain, x5 \in Plain, x6 \in Plain, NEW a \in Ordinary, NEW gives \in Ordinary,
         <<a, <<x1, x2, x3, x4, x5, x6>>, gives>> \in RestSignatures \cup ActionSignatures
  PROVE  Path(<<x1, x2, x3, x4, x5, x6, a>>, <<>>, gives)
PROOF
  <1> DEFINE alt == <<x1, x2, x3, x4, x5, x6, a>>  pre == <<>>  takes == <<x1, x2, x3, x4, x5, x6>>
  <1>1. alt \in Seq(Ordinary) /\ Len(alt) = 7
    BY Sequence7
  <1>2. /\ pre \in Seq(Names) /\ Len(pre) = 0
        /\ takes \in Seq(Names) /\ Len(takes) = 6
    BY EmptySeq, Sequence6 DEF Ordinary
  <1>3. alt[7] = a /\ <<a, takes, gives>> \in RestSignatures \cup ActionSignatures
    OBVIOUS
  <1>5. /\ alt[1] \in Plain /\ takes[1] = alt[1]
        /\ alt[2] \in Plain /\ takes[2] = alt[2]
        /\ alt[3] \in Plain /\ takes[3] = alt[3]
        /\ alt[4] \in Plain /\ takes[4] = alt[4]
        /\ alt[5] \in Plain /\ takes[5] = alt[5]
        /\ alt[6] \in Plain /\ takes[6] = alt[6]
    OBVIOUS
  <1> HIDE DEF alt, pre, takes
  <1>9. Ends(alt[7], takes, gives)
    BY <1>2, <1>3, SignatureEnds DEF Ordinary
  <1>6. \A k \in 1..Len(pre) : takes[k] = pre[k]
    BY <1>2
  <1>7. \A k \in 1..Len(alt) - 1 : alt[k] \in Plain /\ alt[k] # "=throw" /\ takes[Len(pre) + k] = alt[k]
    <2> TAKE k \in 1..Len(alt) - 1
    <2>1. k = 1 \/ k = 2 \/ k = 3 \/ k = 4 \/ k = 5 \/ k = 6
      BY <1>1
    <2>2. alt[k] \in Plain /\ takes[0 + k] = alt[k]
      BY <2>1, <1>5
    <2> QED  BY <2>2, <1>2, SymbolsAreNotThrown
  <1>8. Path(alt, pre, gives)
    <2>1. Len(alt) >= 1 /\ Len(takes) = Len(pre) + Len(alt) - 1 /\ Ends(alt[Len(alt)], takes, gives)
      BY <1>1, <1>2, <1>9
    <2>2. gives \in Names
      BY DEF Ordinary
    <2> QED  BY <2>1, <2>2, <1>1, <1>2, <1>6, <1>7, Pushing, Zenon
  <1> QED  BY <1>8 DEF alt, pre

\* Symbols that are taken by the last one.
LEMMA Path08 ==
  ASSUME NEW x1 \in Ordinary, NEW x2 \in Ordinary, NEW x3 \in Ordinary, NEW x4 \in Ordinary,
         NEW x5 \in Ordinary, NEW x6 \in Ordinary, NEW x7 \in Ordinary, NEW x8 \in Ordinary,
         x1 \in Plain, x2 \in Plain, x3 \in Plain, x4 \in Plain, x5 \in Plain, x6 \in Plain,
         x7 \in Plain, x8 \in Plain, NEW a \in Ordinary, NEW gives \in Ordinary,
         <<a, <<x1, x2, x3, x4, x5, x6, x7, x8>>, gives>> \in RestSignatures \cup ActionSignatures
  PROVE  Path(<<x1, x2, x3, x4, x5, x6, x7, x8, a>>, <<>>, gives)
PROOF
  <1> DEFINE alt == <<x1, x2, x3, x4, x5, x6, x7, x8, a>>  pre == <<>>  takes == <<x1, x2, x3, x4, x5, x6, x7, x8>>
  <1>1. alt \in Seq(Ordinary) /\ Len(alt) = 9
    BY Sequence9
  <1>2. /\ pre \in Seq(Names) /\ Len(pre) = 0
        /\ takes \in Seq(Names) /\ Len(takes) = 8
    BY EmptySeq, Sequence8 DEF Ordinary
  <1>3. alt[9] = a /\ <<a, takes, gives>> \in RestSignatures \cup ActionSignatures
    OBVIOUS
  <1>5. /\ alt[1] \in Plain /\ takes[1] = alt[1]
        /\ alt[2] \in Plain /\ takes[2] = alt[2]
        /\ alt[3] \in Plain /\ takes[3] = alt[3]
        /\ alt[4] \in Plain /\ takes[4] = alt[4]
        /\ alt[5] \in Plain /\ takes[5] = alt[5]
        /\ alt[6] \in Plain /\ takes[6] = alt[6]
        /\ alt[7] \in Plain /\ takes[7] = alt[7]
        /\ alt[8] \in Plain /\ takes[8] = alt[8]
    OBVIOUS
  <1> HIDE DEF alt, pre, takes
  <1>9. Ends(alt[9], takes, gives)
    BY <1>2, <1>3, SignatureEnds DEF Ordinary
  <1>6. \A k \in 1..Len(pre) : takes[k] = pre[k]
    BY <1>2
  <1>7. \A k \in 1..Len(alt) - 1 : alt[k] \in Plain /\ alt[k] # "=throw" /\ takes[Len(pre) + k] = alt[k]
    <2> TAKE k \in 1..Len(alt) - 1
    <2>1. k = 1 \/ k = 2 \/ k = 3 \/ k = 4 \/ k = 5 \/ k = 6 \/ k = 7 \/ k = 8
      BY <1>1
    <2>2. alt[k] \in Plain /\ takes[0 + k] = alt[k]
      BY <2>1, <1>5
    <2> QED  BY <2>2, <1>2, SymbolsAreNotThrown
  <1>8. Path(alt, pre, gives)
    <2>1. Len(alt) >= 1 /\ Len(takes) = Len(pre) + Len(alt) - 1 /\ Ends(alt[Len(alt)], takes, gives)
      BY <1>1, <1>2, <1>9
    <2>2. gives \in Names
      BY DEF Ordinary
    <2> QED  BY <2>1, <2>2, <1>1, <1>2, <1>6, <1>7, Pushing, Zenon
  <1> QED  BY <1>8 DEF alt, pre

\* Symbols that are taken by the last one.
LEMMA Path10 ==
  ASSUME NEW p1 \in Ordinary, NEW a \in Ordinary, NEW gives \in Ordinary,
         <<a, <<p1>>, gives>> \in RestSignatures \cup ActionSignatures
  PROVE  Path(<<a>>, <<p1>>, gives)
PROOF
  <1> DEFINE alt == <<a>>  pre == <<p1>>  takes == <<p1>>
  <1>1. alt \in Seq(Ordinary) /\ Len(alt) = 1
    BY Sequence1
  <1>2. /\ pre \in Seq(Names) /\ Len(pre) = 1
        /\ takes \in Seq(Names) /\ Len(takes) = 1
    BY Sequence1 DEF Ordinary
  <1>3. alt[1] = a /\ <<a, takes, gives>> \in RestSignatures \cup ActionSignatures
    OBVIOUS
  <1>4. takes[1] = pre[1]
    OBVIOUS
  <1> HIDE DEF alt, pre, takes
  <1>9. Ends(alt[1], takes, gives)
    BY <1>2, <1>3, SignatureEnds DEF Ordinary
  <1>6. \A k \in 1..Len(pre) : takes[k] = pre[k]
    BY <1>2, <1>4
  <1>7. \A k \in 1..Len(alt) - 1 : alt[k] \in Plain /\ alt[k] # "=throw" /\ takes[Len(pre) + k] = alt[k]
    <2> TAKE k \in 1..Len(alt) - 1
    <2> QED  BY <1>1
  <1>8. Path(alt, pre, gives)
    <2>1. Len(alt) >= 1 /\ Len(takes) = Len(pre) + Len(alt) - 1 /\ Ends(alt[Len(alt)], takes, gives)
      BY <1>1, <1>2, <1>9
    <2>2. gives \in Names
      BY DEF Ordinary
    <2> QED  BY <2>1, <2>2, <1>1, <1>2, <1>6, <1>7, Pushing, Zenon
  <1> QED  BY <1>8 DEF alt, pre

\* Symbols that are taken by the last one.
LEMMA Path11 ==
  ASSUME NEW p1 \in Ordinary, NEW x1 \in Ordinary, x1 \in Plain, NEW a \in Ordinary,
         NEW gives \in Ordinary, <<a, <<p1, x1>>, gives>> \in RestSignatures \cup ActionSignatures
  PROVE  Path(<<x1, a>>, <<p1>>, gives)
PROOF
  <1> DEFINE alt == <<x1, a>>  pre == <<p1>>  takes == <<p1, x1>>
  <1>1. alt \in Seq(Ordinary) /\ Len(alt) = 2
    BY Sequence2
  <1>2. /\ pre \in Seq(Names) /\ Len(pre) = 1
        /\ takes \in Seq(Names) /\ Len(takes) = 2
    BY Sequence1, Sequence2 DEF Ordinary
  <1>3. alt[2] = a /\ <<a, takes, gives>> \in RestSignatures \cup ActionSignatures
    OBVIOUS
  <1>4. takes[1] = pre[1]
    OBVIOUS
  <1>5. /\ alt[1] \in Plain /\ takes[2] = alt[1]
    OBVIOUS
  <1> HIDE DEF alt, pre, takes
  <1>9. Ends(alt[2], takes, gives)
    BY <1>2, <1>3, SignatureEnds DEF Ordinary
  <1>6. \A k \in 1..Len(pre) : takes[k] = pre[k]
    BY <1>2, <1>4
  <1>7. \A k \in 1..Len(alt) - 1 : alt[k] \in Plain /\ alt[k] # "=throw" /\ takes[Len(pre) + k] = alt[k]
    <2> TAKE k \in 1..Len(alt) - 1
    <2>1. k = 1
      BY <1>1
    <2>2. alt[k] \in Plain /\ takes[1 + k] = alt[k]
      BY <2>1, <1>5
    <2> QED  BY <2>2, <1>2, SymbolsAreNotThrown
  <1>8. Path(alt, pre, gives)
    <2>1. Len(alt) >= 1 /\ Len(takes) = Len(pre) + Len(alt) - 1 /\ Ends(alt[Len(alt)], takes, gives)
      BY <1>1, <1>2, <1>9
    <2>2. gives \in Names
      BY DEF Ordinary
    <2> QED  BY <2>1, <2>2, <1>1, <1>2, <1>6, <1>7, Pushing, Zenon
  <1> QED  BY <1>8 DEF alt, pre

\* Symbols that are taken by the last one.
LEMMA Path12 ==
  ASSUME NEW p1 \in Ordinary, NEW x1 \in Ordinary, NEW x2 \in Ordinary, x1 \in Plain, x2 \in Plain,
         NEW a \in Ordinary, NEW gives \in Ordinary,
         <<a, <<p1, x1, x2>>, gives>> \in RestSignatures \cup ActionSignatures
  PROVE  Path(<<x1, x2, a>>, <<p1>>, gives)
PROOF
  <1> DEFINE alt == <<x1, x2, a>>  pre == <<p1>>  takes == <<p1, x1, x2>>
  <1>1. alt \in Seq(Ordinary) /\ Len(alt) = 3
    BY Sequence3
  <1>2. /\ pre \in Seq(Names) /\ Len(pre) = 1
        /\ takes \in Seq(Names) /\ Len(takes) = 3
    BY Sequence1, Sequence3 DEF Ordinary
  <1>3. alt[3] = a /\ <<a, takes, gives>> \in RestSignatures \cup ActionSignatures
    OBVIOUS
  <1>4. takes[1] = pre[1]
    OBVIOUS
  <1>5. /\ alt[1] \in Plain /\ takes[2] = alt[1]
        /\ alt[2] \in Plain /\ takes[3] = alt[2]
    OBVIOUS
  <1> HIDE DEF alt, pre, takes
  <1>9. Ends(alt[3], takes, gives)
    BY <1>2, <1>3, SignatureEnds DEF Ordinary
  <1>6. \A k \in 1..Len(pre) : takes[k] = pre[k]
    BY <1>2, <1>4
  <1>7. \A k \in 1..Len(alt) - 1 : alt[k] \in Plain /\ alt[k] # "=throw" /\ takes[Len(pre) + k] = alt[k]
    <2> TAKE k \in 1..Len(alt) - 1
    <2>1. k = 1 \/ k = 2
      BY <1>1
    <2>2. alt[k] \in Plain /\ takes[1 + k] = alt[k]
      BY <2>1, <1>5
    <2> QED  BY <2>2, <1>2, SymbolsAreNotThrown
  <1>8. Path(alt, pre, gives)
    <2>1. Len(alt) >= 1 /\ Len(takes) = Len(pre) + Len(alt) - 1 /\ Ends(alt[Len(alt)], takes, gives)
      BY <1>1, <1>2, <1>9
    <2>2. gives \in Names
      BY DEF Ordinary
    <2> QED  BY <2>1, <2>2, <1>1, <1>2, <1>6, <1>7, Pushing, Zenon
  <1> QED  BY <1>8 DEF alt, pre

\* Symbols that are taken by the last one.
LEMMA Path20 ==
  ASSUME NEW p1 \in Ordinary, NEW p2 \in Ordinary, NEW a \in Ordinary, NEW gives \in Ordinary,
         <<a, <<p1, p2>>, gives>> \in RestSignatures \cup ActionSignatures
  PROVE  Path(<<a>>, <<p1, p2>>, gives)
PROOF
  <1> DEFINE alt == <<a>>  pre == <<p1, p2>>  takes == <<p1, p2>>
  <1>1. alt \in Seq(Ordinary) /\ Len(alt) = 1
    BY Sequence1
  <1>2. /\ pre \in Seq(Names) /\ Len(pre) = 2
        /\ takes \in Seq(Names) /\ Len(takes) = 2
    BY Sequence2 DEF Ordinary
  <1>3. alt[1] = a /\ <<a, takes, gives>> \in RestSignatures \cup ActionSignatures
    OBVIOUS
  <1>4. takes[1] = pre[1] /\ takes[2] = pre[2]
    OBVIOUS
  <1> HIDE DEF alt, pre, takes
  <1>9. Ends(alt[1], takes, gives)
    BY <1>2, <1>3, SignatureEnds DEF Ordinary
  <1>6. \A k \in 1..Len(pre) : takes[k] = pre[k]
    BY <1>2, <1>4
  <1>7. \A k \in 1..Len(alt) - 1 : alt[k] \in Plain /\ alt[k] # "=throw" /\ takes[Len(pre) + k] = alt[k]
    <2> TAKE k \in 1..Len(alt) - 1
    <2> QED  BY <1>1
  <1>8. Path(alt, pre, gives)
    <2>1. Len(alt) >= 1 /\ Len(takes) = Len(pre) + Len(alt) - 1 /\ Ends(alt[Len(alt)], takes, gives)
      BY <1>1, <1>2, <1>9
    <2>2. gives \in Names
      BY DEF Ordinary
    <2> QED  BY <2>1, <2>2, <1>1, <1>2, <1>6, <1>7, Pushing, Zenon
  <1> QED  BY <1>8 DEF alt, pre

\* Symbols that are taken by the last one.
LEMMA Path21 ==
  ASSUME NEW p1 \in Ordinary, NEW p2 \in Ordinary, NEW x1 \in Ordinary, x1 \in Plain,
         NEW a \in Ordinary, NEW gives \in Ordinary,
         <<a, <<p1, p2, x1>>, gives>> \in RestSignatures \cup ActionSignatures
  PROVE  Path(<<x1, a>>, <<p1, p2>>, gives)
PROOF
  <1> DEFINE alt == <<x1, a>>  pre == <<p1, p2>>  takes == <<p1, p2, x1>>
  <1>1. alt \in Seq(Ordinary) /\ Len(alt) = 2
    BY Sequence2
  <1>2. /\ pre \in Seq(Names) /\ Len(pre) = 2
        /\ takes \in Seq(Names) /\ Len(takes) = 3
    BY Sequence2, Sequence3 DEF Ordinary
  <1>3. alt[2] = a /\ <<a, takes, gives>> \in RestSignatures \cup ActionSignatures
    OBVIOUS
  <1>4. takes[1] = pre[1] /\ takes[2] = pre[2]
    OBVIOUS
  <1>5. /\ alt[1] \in Plain /\ takes[3] = alt[1]
    OBVIOUS
  <1> HIDE DEF alt, pre, takes
  <1>9. Ends(alt[2], takes, gives)
    BY <1>2, <1>3, SignatureEnds DEF Ordinary
  <1>6. \A k \in 1..Len(pre) : takes[k] = pre[k]
    BY <1>2, <1>4
  <1>7. \A k \in 1..Len(alt) - 1 : alt[k] \in Plain /\ alt[k] # "=throw" /\ takes[Len(pre) + k] = alt[k]
    <2> TAKE k \in 1..Len(alt) - 1
    <2>1. k = 1
      BY <1>1
    <2>2. alt[k] \in Plain /\ takes[2 + k] = alt[k]
      BY <2>1, <1>5
    <2> QED  BY <2>2, <1>2, SymbolsAreNotThrown
  <1>8. Path(alt, pre, gives)
    <2>1. Len(alt) >= 1 /\ Len(takes) = Len(pre) + Len(alt) - 1 /\ Ends(alt[Len(alt)], takes, gives)
      BY <1>1, <1>2, <1>9
    <2>2. gives \in Names
      BY DEF Ordinary
    <2> QED  BY <2>1, <2>2, <1>1, <1>2, <1>6, <1>7, Pushing, Zenon
  <1> QED  BY <1>8 DEF alt, pre

\* Symbols that are taken by the last one.
LEMMA Path42 ==
  ASSUME NEW p1 \in Ordinary, NEW p2 \in Ordinary, NEW p3 \in Ordinary, NEW p4 \in Ordinary,
         NEW x1 \in Ordinary, NEW x2 \in Ordinary, x1 \in Plain, x2 \in Plain, NEW a \in Ordinary,
         NEW gives \in Ordinary,
         <<a, <<p1, p2, p3, p4, x1, x2>>, gives>> \in RestSignatures \cup ActionSignatures
  PROVE  Path(<<x1, x2, a>>, <<p1, p2, p3, p4>>, gives)
PROOF
  <1> DEFINE alt == <<x1, x2, a>>  pre == <<p1, p2, p3, p4>>  takes == <<p1, p2, p3, p4, x1, x2>>
  <1>1. alt \in Seq(Ordinary) /\ Len(alt) = 3
    BY Sequence3
  <1>2. /\ pre \in Seq(Names) /\ Len(pre) = 4
        /\ takes \in Seq(Names) /\ Len(takes) = 6
    BY Sequence4, Sequence6 DEF Ordinary
  <1>3. alt[3] = a /\ <<a, takes, gives>> \in RestSignatures \cup ActionSignatures
    OBVIOUS
  <1>4. takes[1] = pre[1] /\ takes[2] = pre[2] /\ takes[3] = pre[3] /\ takes[4] = pre[4]
    OBVIOUS
  <1>5. /\ alt[1] \in Plain /\ takes[5] = alt[1]
        /\ alt[2] \in Plain /\ takes[6] = alt[2]
    OBVIOUS
  <1> HIDE DEF alt, pre, takes
  <1>9. Ends(alt[3], takes, gives)
    BY <1>2, <1>3, SignatureEnds DEF Ordinary
  <1>6. \A k \in 1..Len(pre) : takes[k] = pre[k]
    BY <1>2, <1>4
  <1>7. \A k \in 1..Len(alt) - 1 : alt[k] \in Plain /\ alt[k] # "=throw" /\ takes[Len(pre) + k] = alt[k]
    <2> TAKE k \in 1..Len(alt) - 1
    <2>1. k = 1 \/ k = 2
      BY <1>1
    <2>2. alt[k] \in Plain /\ takes[4 + k] = alt[k]
      BY <2>1, <1>5
    <2> QED  BY <2>2, <1>2, SymbolsAreNotThrown
  <1>8. Path(alt, pre, gives)
    <2>1. Len(alt) >= 1 /\ Len(takes) = Len(pre) + Len(alt) - 1 /\ Ends(alt[Len(alt)], takes, gives)
      BY <1>1, <1>2, <1>9
    <2>2. gives \in Names
      BY DEF Ordinary
    <2> QED  BY <2>1, <2>2, <1>1, <1>2, <1>6, <1>7, Pushing, Zenon
  <1> QED  BY <1>8 DEF alt, pre

\* Symbols, and an exception is thrown.
LEMMA Throw01 ==
  ASSUME NEW x1 \in Ordinary, x1 \in Plain, NEW gives \in Ordinary
  PROVE  Path(<<x1, "=throw">>, <<>>, gives)
PROOF
  <1> DEFINE alt == <<x1, "=throw">>  pre == <<>>  takes == <<x1>>
  <1>1. alt \in Seq(Ordinary) /\ Len(alt) = 2
    <2>1. "=throw" \in Ordinary
      BY DEF Ordinary, Names, ActionNames
    <2> QED  BY <2>1, Sequence2
  <1>2. /\ pre \in Seq(Names) /\ Len(pre) = 0
        /\ takes \in Seq(Names) /\ Len(takes) = 1
    BY EmptySeq, Sequence1 DEF Ordinary
  <1>3. alt[2] = "=throw"
    OBVIOUS
  <1>5. /\ alt[1] \in Plain /\ takes[1] = alt[1]
    OBVIOUS
  <1> HIDE DEF alt, pre, takes
  <1>9. Ends(alt[2], takes, gives)
    <2>1. Ends("=throw", takes, gives)
      BY SymbolsAreNotThrown DEF Ends, Turns
    <2> QED  BY <2>1, <1>3
  <1>6. \A k \in 1..Len(pre) : takes[k] = pre[k]
    BY <1>2
  <1>7. \A k \in 1..Len(alt) - 1 : alt[k] \in Plain /\ alt[k] # "=throw" /\ takes[Len(pre) + k] = alt[k]
    <2> TAKE k \in 1..Len(alt) - 1
    <2>1. k = 1
      BY <1>1
    <2>2. alt[k] \in Plain /\ takes[0 + k] = alt[k]
      BY <2>1, <1>5
    <2> QED  BY <2>2, <1>2, SymbolsAreNotThrown
  <1>8. Path(alt, pre, gives)
    <2>1. Len(alt) >= 1 /\ Len(takes) = Len(pre) + Len(alt) - 1 /\ Ends(alt[Len(alt)], takes, gives)
      BY <1>1, <1>2, <1>9
    <2>2. gives \in Names
      BY DEF Ordinary
    <2> QED  BY <2>1, <2>2, <1>1, <1>2, <1>6, <1>7, Pushing, Zenon
  <1> QED  BY <1>8 DEF alt, pre

\* Symbols, and an exception is thrown.
LEMMA Throw03 ==
  ASSUME NEW x1 \in Ordinary, NEW x2 \in Ordinary, NEW x3 \in Ordinary, x1 \in Plain, x2 \in Plain,
         x3 \in Plain, NEW gives \in Ordinary
  PROVE  Path(<<x1, x2, x3, "=throw">>, <<>>, gives)
PROOF
  <1> DEFINE alt == <<x1, x2, x3, "=throw">>  pre == <<>>  takes == <<x1, x2, x3>>
  <1>1. alt \in Seq(Ordinary) /\ Len(alt) = 4
    <2>1. "=throw" \in Ordinary
      BY DEF Ordinary, Names, ActionNames
    <2> QED  BY <2>1, Sequence4
  <1>2. /\ pre \in Seq(Names) /\ Len(pre) = 0
        /\ takes \in Seq(Names) /\ Len(takes) = 3
    BY EmptySeq, Sequence3 DEF Ordinary
  <1>3. alt[4] = "=throw"
    OBVIOUS
  <1>5. /\ alt[1] \in Plain /\ takes[1] = alt[1]
        /\ alt[2] \in Plain /\ takes[2] = alt[2]
        /\ alt[3] \in Plain /\ takes[3] = alt[3]
    OBVIOUS
  <1> HIDE DEF alt, pre, takes
  <1>9. Ends(alt[4], takes, gives)
    <2>1. Ends("=throw", takes, gives)
      BY SymbolsAreNotThrown DEF Ends, Turns
    <2> QED  BY <2>1, <1>3
  <1>6. \A k \in 1..Len(pre) : takes[k] = pre[k]
    BY <1>2
  <1>7. \A k \in 1..Len(alt) - 1 : alt[k] \in Plain /\ alt[k] # "=throw" /\ takes[Len(pre) + k] = alt[k]
    <2> TAKE k \in 1..Len(alt) - 1
    <2>1. k = 1 \/ k = 2 \/ k = 3
      BY <1>1
    <2>2. alt[k] \in Plain /\ takes[0 + k] = alt[k]
      BY <2>1, <1>5
    <2> QED  BY <2>2, <1>2, SymbolsAreNotThrown
  <1>8. Path(alt, pre, gives)
    <2>1. Len(alt) >= 1 /\ Len(takes) = Len(pre) + Len(alt) - 1 /\ Ends(alt[Len(alt)], takes, gives)
      BY <1>1, <1>2, <1>9
    <2>2. gives \in Names
      BY DEF Ordinary
    <2> QED  BY <2>1, <2>2, <1>1, <1>2, <1>6, <1>7, Pushing, Zenon
  <1> QED  BY <1>8 DEF alt, pre

\* A rule that leaves itself.
LEMMA PlainFrom ==
  ASSUME NEW rule \in Plain
  PROVE  From(rule, <<>>, rule)
PROOF
  <1>1. \A b \in Seq(Names) : b \o <<>> = b
    BY ConcatEmptySeq
  <1> QED  BY <1>1, SymbolsAreNotThrown DEF From, Turns

\* The rules that take what is in front of them.
LEMMA RestRulesAreNotPlain ==
  ASSUME NEW rule \in RestRules
  PROVE  rule \notin Plain /\ rule # "=throw"
PROOF
  <1>1. /\ "IdentListRest" \notin Plain /\ "ConstantDefRest" \notin Plain /\ "TypeDefRest" \notin Plain
        /\ "VariableDeclRest" \notin Plain /\ "SubprogDeclRest" \notin Plain
        /\ "OneFormalParamRest" \notin Plain /\ "SubrangeRest" \notin Plain
        /\ "FieldListRest" \notin Plain /\ "StatementRest" \notin Plain
        /\ "AssignmentOrCall" \notin Plain /\ "ElseOpt" \notin Plain /\ "CaseRest" \notin Plain
        /\ "CaseLabelRest" \notin Plain /\ "DesignatorRest" \notin Plain /\ "ExpListRest" \notin Plain
        /\ "RelationOpt" \notin Plain /\ "TermListRest" \notin Plain /\ "FactorListRest" \notin Plain
        /\ "DesignatorOrCall" \notin Plain /\ "ElementListRest" \notin Plain
        /\ "ElementRest" \notin Plain
    BY DEF Plain, Kinds, HasValue, PlainRules
  <1> QED  BY <1>1 DEF RestRules

\* Such a rule leaves what its signature says.
LEMMA RestFrom ==
  ASSUME NEW rule \in RestRules, NEW pre, NEW gives,
         \A t, g : <<rule, t, g>> \in RestSignatures => t = pre /\ g = gives
  PROVE  From(rule, pre, gives)
PROOF
  BY RestRulesAreNotPlain DEF From, Turns, Signature

\* Kinds of tokens may come anywhere.
LEMMA KindsAreOrdinary ==
  /\ "identifier" \in Ordinary /\ "string" \in Ordinary /\ "number" \in Ordinary /\ ":=" \in Ordinary
  /\ "-" \in Ordinary /\ "+" \in Ordinary /\ "*" \in Ordinary /\ "/" \in Ordinary
  /\ "div" \in Ordinary /\ "mod" \in Ordinary /\ "=" \in Ordinary /\ "<>" \in Ordinary
  /\ "<" \in Ordinary /\ ">" \in Ordinary /\ "<=" \in Ordinary /\ ">=" \in Ordinary
  /\ "in" \in Ordinary /\ "not" \in Ordinary /\ "or" \in Ordinary /\ "and" \in Ordinary
  /\ "(" \in Ordinary /\ ")" \in Ordinary /\ "[" \in Ordinary /\ "]" \in Ordinary
  /\ ".." \in Ordinary /\ "." \in Ordinary /\ "," \in Ordinary /\ ":" \in Ordinary
  /\ ";" \in Ordinary /\ "^" \in Ordinary /\ "array" \in Ordinary /\ "begin" \in Ordinary
  /\ "case" \in Ordinary /\ "const" \in Ordinary /\ "do" \in Ordinary /\ "downto" \in Ordinary
  /\ "end" \in Ordinary /\ "for" \in Ordinary /\ "function" \in Ordinary /\ "if" \in Ordinary
  /\ "nil" \in Ordinary /\ "of" \in Ordinary /\ "procedure" \in Ordinary /\ "program" \in Ordinary
  /\ "record" \in Ordinary /\ "repeat" \in Ordinary /\ "set" \in Ordinary /\ "then" \in Ordinary
  /\ "else" \in Ordinary /\ "to" \in Ordinary /\ "type" \in Ordinary /\ "until" \in Ordinary
  /\ "var" \in Ordinary /\ "while" \in Ordinary /\ "False" \in Ordinary /\ "True" \in Ordinary
  /\ "New" \in Ordinary /\ "Dispose" \in Ordinary /\ "CharSubrange" \in Ordinary /\ "CharacterConst" \in Ordinary
PROOF
  <1>1. /\ "identifier" \in Ordinary /\ "string" \in Ordinary /\ "number" \in Ordinary /\ ":=" \in Ordinary
        /\ "-" \in Ordinary /\ "+" \in Ordinary /\ "*" \in Ordinary /\ "/" \in Ordinary
        /\ "div" \in Ordinary /\ "mod" \in Ordinary /\ "=" \in Ordinary /\ "<>" \in Ordinary
    BY DEF Ordinary, Names, Plain, Kinds, HasValue
  <1>2. /\ "<" \in Ordinary /\ ">" \in Ordinary /\ "<=" \in Ordinary /\ ">=" \in Ordinary
        /\ "in" \in Ordinary /\ "not" \in Ordinary /\ "or" \in Ordinary /\ "and" \in Ordinary
        /\ "(" \in Ordinary /\ ")" \in Ordinary /\ "[" \in Ordinary /\ "]" \in Ordinary
    BY DEF Ordinary, Names, Plain, Kinds, HasValue
  <1>3. /\ ".." \in Ordinary /\ "." \in Ordinary /\ "," \in Ordinary /\ ":" \in Ordinary
        /\ ";" \in Ordinary /\ "^" \in Ordinary /\ "array" \in Ordinary /\ "begin" \in Ordinary
        /\ "case" \in Ordinary /\ "const" \in Ordinary /\ "do" \in Ordinary /\ "downto" \in Ordinary
    BY DEF Ordinary, Names, Plain, Kinds, HasValue
  <1>4. /\ "end" \in Ordinary /\ "for" \in Ordinary /\ "function" \in Ordinary /\ "if" \in Ordinary
        /\ "nil" \in Ordinary /\ "of" \in Ordinary /\ "procedure" \in Ordinary /\ "program" \in Ordinary
        /\ "record" \in Ordinary /\ "repeat" \in Ordinary /\ "set" \in Ordinary /\ "then" \in Ordinary
    BY DEF Ordinary, Names, Plain, Kinds, HasValue
  <1>5. /\ "else" \in Ordinary /\ "to" \in Ordinary /\ "type" \in Ordinary /\ "until" \in Ordinary
        /\ "var" \in Ordinary /\ "while" \in Ordinary /\ "False" \in Ordinary /\ "True" \in Ordinary
        /\ "New" \in Ordinary /\ "Dispose" \in Ordinary /\ "CharSubrange" \in Ordinary /\ "CharacterConst" \in Ordinary
    BY DEF Ordinary, Names, Plain, Kinds, HasValue
  <1> QED  BY <1>1, <1>2, <1>3, <1>4, <1>5

\* So may the rules.
LEMMA RulesAreOrdinary ==
  /\ "ProgramModule" \in Ordinary /\ "ProgramParametersOpt" \in Ordinary /\ "IdentList" \in Ordinary /\ "Block" \in Ordinary
  /\ "Declarations" \in Ordinary /\ "ConstantDefBlockOpt" \in Ordinary /\ "TypeDefBlockOpt" \in Ordinary /\ "VariableDeclBlockOpt" \in Ordinary
  /\ "SubprogDeclListOpt" \in Ordinary /\ "ConstantDefList" \in Ordinary /\ "TypeDefList" \in Ordinary /\ "VariableDeclList" \in Ordinary
  /\ "ConstantDef" \in Ordinary /\ "TypeDef" \in Ordinary /\ "VariableDecl" \in Ordinary /\ "SubprogDeclList" \in Ordinary
  /\ "SubprogDecl" \in Ordinary /\ "ProcedureDecl" \in Ordinary /\ "FunctionDecl" \in Ordinary /\ "ProcedureHeading" \in Ordinary
  /\ "FunctionHeading" \in Ordinary /\ "FormalParametersOpt" \in Ordinary /\ "OneFormalParamList" \in Ordinary /\ "OneFormalParam" \in Ordinary
  /\ "ConstExpression" \in Ordinary /\ "SignOpt" \in Ordinary /\ "ConstFactor" \in Ordinary /\ "Type" \in Ordinary
  /\ "SubrangeList" \in Ordinary /\ "Subrange" \in Ordinary /\ "FieldListSequence" \in Ordinary /\ "FieldList" \in Ordinary
  /\ "StatementSequence" \in Ordinary /\ "StatementList" \in Ordinary /\ "Statement" \in Ordinary /\ "ActualParametersOpt" \in Ordinary
  /\ "CaseList" \in Ordinary /\ "Case" \in Ordinary /\ "CaseLabelList" \in Ordinary /\ "WhichWay" \in Ordinary
  /\ "DesignatorStuffOpt" \in Ordinary /\ "DesignatorStuff" \in Ordinary /\ "DesignatorItem" \in Ordinary /\ "ActualParameters" \in Ordinary
  /\ "ExpListOpt" \in Ordinary /\ "ExpList" \in Ordinary /\ "Expression" \in Ordinary /\ "SimpleExpression" \in Ordinary
  /\ "TermList" \in Ordinary /\ "Term" \in Ordinary /\ "FactorList" \in Ordinary /\ "Factor" \in Ordinary
  /\ "ElementListOpt" \in Ordinary /\ "ElementList" \in Ordinary /\ "Element" \in Ordinary /\ "MultOperator" \in Ordinary
  /\ "AddOperator" \in Ordinary /\ "Relation" \in Ordinary
PROOF
  <1>1. /\ "ProgramModule" \in Ordinary /\ "ProgramParametersOpt" \in Ordinary /\ "IdentList" \in Ordinary /\ "Block" \in Ordinary
        /\ "Declarations" \in Ordinary /\ "ConstantDefBlockOpt" \in Ordinary /\ "TypeDefBlockOpt" \in Ordinary /\ "VariableDeclBlockOpt" \in Ordinary
        /\ "SubprogDeclListOpt" \in Ordinary /\ "ConstantDefList" \in Ordinary /\ "TypeDefList" \in Ordinary /\ "VariableDeclList" \in Ordinary
    BY DEF Ordinary, Names, Plain, PlainRules
  <1>2. /\ "ConstantDef" \in Ordinary /\ "TypeDef" \in Ordinary /\ "VariableDecl" \in Ordinary /\ "SubprogDeclList" \in Ordinary
        /\ "SubprogDecl" \in Ordinary /\ "ProcedureDecl" \in Ordinary /\ "FunctionDecl" \in Ordinary /\ "ProcedureHeading" \in Ordinary
        /\ "FunctionHeading" \in Ordinary /\ "FormalParametersOpt" \in Ordinary /\ "OneFormalParamList" \in Ordinary /\ "OneFormalParam" \in Ordinary
    BY DEF Ordinary, Names, Plain, PlainRules
  <1>3. /\ "ConstExpression" \in Ordinary /\ "SignOpt" \in Ordinary /\ "ConstFactor" \in Ordinary /\ "Type" \in Ordinary
        /\ "SubrangeList" \in Ordinary /\ "Subrange" \in Ordinary /\ "FieldListSequence" \in Ordinary /\ "FieldList" \in Ordinary
        /\ "StatementSequence" \in Ordinary /\ "StatementList" \in Ordinary /\ "Statement" \in Ordinary /\ "ActualParametersOpt" \in Ordinary
    BY DEF Ordinary, Names, Plain, PlainRules
  <1>4. /\ "CaseList" \in Ordinary /\ "Case" \in Ordinary /\ "CaseLabelList" \in Ordinary /\ "WhichWay" \in Ordinary
        /\ "DesignatorStuffOpt" \in Ordinary /\ "DesignatorStuff" \in Ordinary /\ "DesignatorItem" \in Ordinary /\ "ActualParameters" \in Ordinary
        /\ "ExpListOpt" \in Ordinary /\ "ExpList" \in Ordinary /\ "Expression" \in Ordinary /\ "SimpleExpression" \in Ordinary
    BY DEF Ordinary, Names, Plain, PlainRules
  <1>5. /\ "TermList" \in Ordinary /\ "Term" \in Ordinary /\ "FactorList" \in Ordinary /\ "Factor" \in Ordinary
        /\ "ElementListOpt" \in Ordinary /\ "ElementList" \in Ordinary /\ "Element" \in Ordinary /\ "MultOperator" \in Ordinary
        /\ "AddOperator" \in Ordinary /\ "Relation" \in Ordinary
    BY DEF Ordinary, Names, Plain, PlainRules
  <1> QED  BY <1>1, <1>2, <1>3, <1>4, <1>5

\* So may the rules that take values, and the sort of a Designator.
LEMMA RestsAreOrdinary ==
  /\ "IdentListRest" \in Ordinary /\ "ConstantDefRest" \in Ordinary /\ "TypeDefRest" \in Ordinary /\ "VariableDeclRest" \in Ordinary
  /\ "SubprogDeclRest" \in Ordinary /\ "OneFormalParamRest" \in Ordinary /\ "SubrangeRest" \in Ordinary /\ "FieldListRest" \in Ordinary
  /\ "StatementRest" \in Ordinary /\ "AssignmentOrCall" \in Ordinary /\ "ElseOpt" \in Ordinary /\ "CaseRest" \in Ordinary
  /\ "CaseLabelRest" \in Ordinary /\ "DesignatorRest" \in Ordinary /\ "ExpListRest" \in Ordinary /\ "RelationOpt" \in Ordinary
  /\ "TermListRest" \in Ordinary /\ "FactorListRest" \in Ordinary /\ "DesignatorOrCall" \in Ordinary /\ "ElementListRest" \in Ordinary
  /\ "ElementRest" \in Ordinary /\ "Designator" \in Ordinary
PROOF
  <1>1. /\ "IdentListRest" \in Ordinary /\ "ConstantDefRest" \in Ordinary /\ "TypeDefRest" \in Ordinary /\ "VariableDeclRest" \in Ordinary
        /\ "SubprogDeclRest" \in Ordinary /\ "OneFormalParamRest" \in Ordinary /\ "SubrangeRest" \in Ordinary /\ "FieldListRest" \in Ordinary
        /\ "StatementRest" \in Ordinary /\ "AssignmentOrCall" \in Ordinary /\ "ElseOpt" \in Ordinary /\ "CaseRest" \in Ordinary
    BY DEF Ordinary, Names, RestRules
  <1>2. /\ "CaseLabelRest" \in Ordinary /\ "DesignatorRest" \in Ordinary /\ "ExpListRest" \in Ordinary /\ "RelationOpt" \in Ordinary
        /\ "TermListRest" \in Ordinary /\ "FactorListRest" \in Ordinary /\ "DesignatorOrCall" \in Ordinary /\ "ElementListRest" \in Ordinary
        /\ "ElementRest" \in Ordinary /\ "Designator" \in Ordinary
    BY DEF Ordinary, Names, RestRules
  <1> QED  BY <1>1, <1>2

\* So may the actions, but for two.
LEMMA ActionsAreOrdinary ==
  /\ "=ProgramModule" \in Ordinary /\ "=parameters" \in Ordinary /\ "=empty" \in Ordinary /\ "=insert" \in Ordinary
  /\ "=vector" \in Ordinary /\ "=Block" \in Ordinary /\ "=Declarations" \in Ordinary /\ "=last" \in Ordinary
  /\ "=first" \in Ordinary /\ "=vector;" \in Ordinary /\ "=ConstDef" \in Ordinary /\ "=TypeDef" \in Ordinary
  /\ "=VarDecl" \in Ordinary /\ "=prepend" \in Ordinary /\ "=SubprogDecl" \in Ordinary /\ "=ProcDecl" \in Ordinary
  /\ "=FuncDecl" \in Ordinary /\ "=ProcHeading" \in Ordinary /\ "=inner" \in Ordinary /\ "=FormalParam" \in Ordinary
  /\ "=ConstExpr" \in Ordinary /\ "Plus" \in Ordinary /\ "Minus" \in Ordinary /\ "None" \in Ordinary
  /\ "=ConstIdent" \in Ordinary /\ "=ConstNumber" \in Ordinary /\ "=ConstTrue" \in Ordinary /\ "=ConstFalse" \in Ordinary
  /\ "=ConstNil" \in Ordinary /\ "=NamedType" \in Ordinary /\ "=ArrayType" \in Ordinary /\ "=PointerType" \in Ordinary
  /\ "=RecordType" \in Ordinary /\ "=SetType" \in Ordinary /\ "=Subrange" \in Ordinary /\ "=FieldList" \in Ordinary
  /\ "=StmtSeq" \in Ordinary /\ "=CaseStmt" \in Ordinary /\ "=WhileStmt" \in Ordinary /\ "=RepeatStmt" \in Ordinary
  /\ "=ForStmt" \in Ordinary /\ "=New" \in Ordinary /\ "=Dispose" \in Ordinary /\ "=EmptyStmt" \in Ordinary
  /\ "=Designator" \in Ordinary /\ "=Assignment" \in Ordinary /\ "=ProcCall" \in Ordinary /\ "=IfElse" \in Ordinary
  /\ "=Case" \in Ordinary /\ "To" \in Ordinary /\ "DownTo" \in Ordinary /\ "=FieldAccess" \in Ordinary
  /\ "=ArrayAccess" \in Ordinary /\ "=PointerAccess" \in Ordinary /\ "=Relation" \in Ordinary /\ "=Expr" \in Ordinary
  /\ "=SimpleExpr" \in Ordinary /\ "=inserts" \in Ordinary /\ "=vectors" \in Ordinary /\ "=Term" \in Ordinary
  /\ "=Number" \in Ordinary /\ "=String" \in Ordinary /\ "=True" \in Ordinary /\ "=False" \in Ordinary
  /\ "=Nil" \in Ordinary /\ "=Paren" \in Ordinary /\ "=Negation" \in Ordinary /\ "=FuncCall" \in Ordinary
  /\ "=pair" \in Ordinary /\ "Multiply" \in Ordinary /\ "RealDiv" \in Ordinary /\ "IntDiv" \in Ordinary
  /\ "Modulo" \in Ordinary /\ "And" \in Ordinary /\ "Or" \in Ordinary /\ "Equal" \in Ordinary
  /\ "NotEqual" \in Ordinary /\ "Less" \in Ordinary /\ "Greater" \in Ordinary /\ "LessEqual" \in Ordinary
  /\ "GreaterEqual" \in Ordinary /\ "In" \in Ordinary /\ "=throw" \in Ordinary
PROOF
  <1>1. /\ "=ProgramModule" \in Ordinary /\ "=parameters" \in Ordinary /\ "=empty" \in Ordinary /\ "=insert" \in Ordinary
        /\ "=vector" \in Ordinary /\ "=Block" \in Ordinary /\ "=Declarations" \in Ordinary /\ "=last" \in Ordinary
        /\ "=first" \in Ordinary /\ "=vector;" \in Ordinary /\ "=ConstDef" \in Ordinary /\ "=TypeDef" \in Ordinary
    BY DEF Ordinary, Names, ActionNames
  <1>2. /\ "=VarDecl" \in Ordinary /\ "=prepend" \in Ordinary /\ "=SubprogDecl" \in Ordinary /\ "=ProcDecl" \in Ordinary
        /\ "=FuncDecl" \in Ordinary /\ "=ProcHeading" \in Ordinary /\ "=inner" \in Ordinary /\ "=FormalParam" \in Ordinary
        /\ "=ConstExpr" \in Ordinary /\ "Plus" \in Ordinary /\ "Minus" \in Ordinary /\ "None" \in Ordinary
    BY DEF Ordinary, Names, ActionNames
  <1>3. /\ "=ConstIdent" \in Ordinary /\ "=ConstNumber" \in Ordinary /\ "=ConstTrue" \in Ordinary /\ "=ConstFalse" \in Ordinary
        /\ "=ConstNil" \in Ordinary /\ "=NamedType" \in Ordinary /\ "=ArrayType" \in Ordinary /\ "=PointerType" \in Ordinary
        /\ "=RecordType" \in Ordinary /\ "=SetType" \in Ordinary /\ "=Subrange" \in Ordinary /\ "=FieldList" \in Ordinary
    BY DEF Ordinary, Names, ActionNames
  <1>4. /\ "=StmtSeq" \in Ordinary /\ "=CaseStmt" \in Ordinary /\ "=WhileStmt" \in Ordinary /\ "=RepeatStmt" \in Ordinary
        /\ "=ForStmt" \in Ordinary /\ "=New" \in Ordinary /\ "=Dispose" \in Ordinary /\ "=EmptyStmt" \in Ordinary
        /\ "=Designator" \in Ordinary /\ "=Assignment" \in Ordinary /\ "=ProcCall" \in Ordinary /\ "=IfElse" \in Ordinary
    BY DEF Ordinary, Names, ActionNames
  <1>5. /\ "=Case" \in Ordinary /\ "To" \in Ordinary /\ "DownTo" \in Ordinary /\ "=FieldAccess" \in Ordinary
        /\ "=ArrayAccess" \in Ordinary /\ "=PointerAccess" \in Ordinary /\ "=Relation" \in Ordinary /\ "=Expr" \in Ordinary
        /\ "=SimpleExpr" \in Ordinary /\ "=inserts" \in Ordinary /\ "=vectors" \in Ordinary /\ "=Term" \in Ordinary
    BY DEF Ordinary, Names, ActionNames
  <1>6. /\ "=Number" \in Ordinary /\ "=String" \in Ordinary /\ "=True" \in Ordinary /\ "=False" \in Ordinary
        /\ "=Nil" \in Ordinary /\ "=Paren" \in Ordinary /\ "=Negation" \in Ordinary /\ "=FuncCall" \in Ordinary
        /\ "=pair" \in Ordinary /\ "Multiply" \in Ordinary /\ "RealDiv" \in Ordinary /\ "IntDiv" \in Ordinary
    BY DEF Ordinary, Names, ActionNames
  <1>7. /\ "Modulo" \in Ordinary /\ "And" \in Ordinary /\ "Or" \in Ordinary /\ "Equal" \in Ordinary
        /\ "NotEqual" \in Ordinary /\ "Less" \in Ordinary /\ "Greater" \in Ordinary /\ "LessEqual" \in Ordinary
        /\ "GreaterEqual" \in Ordinary /\ "In" \in Ordinary /\ "=throw" \in Ordinary
    BY DEF Ordinary, Names, ActionNames
  <1> QED  BY <1>1, <1>2, <1>3, <1>4, <1>5, <1>6, <1>7

-----------------------------------------------------------------------------
(* The productions.                                                        *)

\* What the grammar says of a rule, as Expand needs it.
Fits(p) == p = <<p[1], p[2]>> /\ p[1] \in Ordinary \ {"else"} /\ Fine(p[1], p[2])

\* A rule with an alternative.
LEMMA PairsOfOneOf ==
  ASSUME NEW r, NEW alts, NEW p \in OneOf(r, alts)
  PROVE  p = <<p[1], p[2]>> /\ p[1] = r /\ p[2] \in alts
PROOF
  BY DEF OneOf

\* The same of a rule that may be left out.
LEMMA PairsOfOptional ==
  ASSUME NEW r, NEW alt, NEW p \in Optional(r, alt)
  PROVE  p = <<p[1], p[2]>> /\ p[1] = r
PROOF
  BY PairsOfOneOf DEF Optional

\* The same of two rules.
LEMMA PairsOfTwo ==
  ASSUME NEW r1, NEW r2, NEW alts1, NEW alts2, NEW p \in OneOf(r1, alts1) \cup OneOf(r2, alts2)
  PROVE  p = <<p[1], p[2]>> /\ ((p[1] = r1 /\ p[2] \in alts1) \/ (p[1] = r2 /\ p[2] \in alts2))
PROOF
  <1>1. CASE p \in OneOf(r1, alts1)
    BY <1>1, PairsOfOneOf
  <1>2. CASE p \in OneOf(r2, alts2)
    BY <1>2, PairsOfOneOf
  <1> QED  BY <1>1, <1>2

\* The same of a list and its rest.
LEMMA PairsOfSeparated ==
  ASSUME NEW list, NEW rest, NEW item, NEW separator, NEW p \in SeparatedRule(list, rest, item, separator)
  PROVE  p = <<p[1], p[2]>> /\ (p[1] = list \/ p[1] = rest)
PROOF
  BY PairsOfOneOf DEF SeparatedRule

\* The same of a list whose items end with a semicolon.
LEMMA PairsOfTerminated ==
  ASSUME NEW list, NEW rest, NEW item, NEW p \in TerminatedRule(list, rest, item)
  PROVE  p = <<p[1], p[2]>> /\ (p[1] = list \/ p[1] = rest)
PROOF
  <1> DEFINE first == {<<item, ";", rest>>}
             others == {<<list, "=insert">>, <<"=vector;">>}
  <1>1. p \in OneOf(list, first) \cup OneOf(rest, others)
    BY Zenon DEF TerminatedRule
  <1> HIDE DEF first, others
  <1> QED  BY <1>1, PairsOfTwo

\* The same of a list whose items follow each other.
LEMMA PairsOfRepeated ==
  ASSUME NEW list, NEW rest, NEW item, NEW p \in RepeatedRule(list, rest, item)
  PROVE  p = <<p[1], p[2]>> /\ (p[1] = list \/ p[1] = rest)
PROOF
  BY PairsOfOneOf DEF RepeatedRule

\* The alternatives of a list whose items are separated.
LEMMA SeparatedFine ==
  ASSUME NEW list \in Ordinary, NEW item \in Ordinary, NEW separator \in Ordinary, NEW rest \in Ordinary,
         list \in Plain, item \in Plain, separator \in Plain,
         <<rest, <<item>>, list>> \in RestSignatures, From(rest, <<item>>, list),
         <<"=insert", <<item, separator, list>>, list>> \in ActionSignatures,
         <<"=vector", <<item>>, list>> \in ActionSignatures,
         list # "else", rest # "else",
         NEW p \in SeparatedRule(list, rest, item, separator)
  PROVE  Fits(p)
PROOF
  <1>1. Path(<<item, rest>>, <<>>, list) /\ From(list, <<>>, list)
    BY Path01, PlainFrom
  <1>2. Path(<<separator, list, "=insert">>, <<item>>, list) /\ Path(<<"=vector">>, <<item>>, list)
    BY ActionsAreOrdinary, Path12, Path10
  <1>3. \/ p[1] = list /\ p[2] = <<item, rest>>
        \/ p[1] = rest /\ p[2] \in {<<separator, list, "=insert">>, <<"=vector">>}
    BY PairsOfOneOf DEF SeparatedRule
  <1>4. p = <<p[1], p[2]>>
    BY PairsOfSeparated
  <1>5. Fine(p[1], p[2])
    BY <1>1, <1>2, <1>3, PathFine
  <1> QED  BY <1>3, <1>4, <1>5 DEF Fits

\* The alternatives of a list whose items end with a semicolon.
LEMMA TerminatedFine ==
  ASSUME NEW list \in Ordinary, NEW item \in Ordinary, NEW rest \in Ordinary,
         list \in Plain, item \in Plain,
         <<rest, <<item, ";">>, list>> \in RestSignatures, From(rest, <<item, ";">>, list),
         <<"=insert", <<item, ";", list>>, list>> \in ActionSignatures,
         <<"=vector;", <<item, ";">>, list>> \in ActionSignatures,
         list # "else", rest # "else",
         NEW p \in TerminatedRule(list, rest, item)
  PROVE  Fits(p)
PROOF
  <1>1. Path(<<item, ";", rest>>, <<>>, list) /\ From(list, <<>>, list)
    BY KindsAreOrdinary, KindsArePlain, Path02, PlainFrom
  <1>2. Path(<<list, "=insert">>, <<item, ";">>, list) /\ Path(<<"=vector;">>, <<item, ";">>, list)
    BY KindsAreOrdinary, ActionsAreOrdinary, Path21, Path20
  <1>3. \/ p[1] = list /\ p[2] \in {<<item, ";", rest>>}
        \/ p[1] = rest /\ p[2] \in {<<list, "=insert">>, <<"=vector;">>}
    <2> DEFINE first == {<<item, ";", rest>>}
               others == {<<list, "=insert">>, <<"=vector;">>}
    <2>1. p \in OneOf(list, first) \cup OneOf(rest, others)
      BY Zenon DEF TerminatedRule
    <2> HIDE DEF first, others
    <2>2. (p[1] = list /\ p[2] \in first) \/ (p[1] = rest /\ p[2] \in others)
      BY <2>1, PairsOfTwo
    <2> QED  BY <2>2 DEF first, others
  <1>4. p = <<p[1], p[2]>>
    BY PairsOfTerminated
  <1>5. Fine(p[1], p[2])
    BY <1>1, <1>2, <1>3, PathFine
  <1> QED  BY <1>3, <1>4, <1>5 DEF Fits

\* The alternatives of a list with nothing between its items.
LEMMA RepeatedFine ==
  ASSUME NEW list \in Ordinary, NEW item \in Ordinary, NEW rest \in Ordinary,
         list \in Plain, item \in Plain,
         <<rest, <<item>>, list>> \in RestSignatures, From(rest, <<item>>, list),
         <<"=prepend", <<item, list>>, list>> \in ActionSignatures,
         <<"=vector", <<item>>, list>> \in ActionSignatures,
         list # "else", rest # "else",
         NEW p \in RepeatedRule(list, rest, item)
  PROVE  Fits(p)
PROOF
  <1>1. Path(<<item, rest>>, <<>>, list) /\ From(list, <<>>, list)
    BY Path01, PlainFrom
  <1>2. Path(<<list, "=prepend">>, <<item>>, list) /\ Path(<<"=vector">>, <<item>>, list)
    BY ActionsAreOrdinary, Path11, Path10
  <1>3. \/ p[1] = list /\ p[2] = <<item, rest>>
        \/ p[1] = rest /\ p[2] \in {<<list, "=prepend">>, <<"=vector">>}
    BY PairsOfOneOf DEF RepeatedRule
  <1>4. p = <<p[1], p[2]>>
    BY PairsOfRepeated
  <1>5. Fine(p[1], p[2])
    BY <1>1, <1>2, <1>3, PathFine
  <1> QED  BY <1>3, <1>4, <1>5 DEF Fits

\* The alternatives of what may be left out.
LEMMA OptionalFine ==
  ASSUME NEW optional \in Ordinary, optional \in Plain, NEW present, Path(present, <<>>, optional),
         <<"=empty", <<>>, optional>> \in ActionSignatures,
         optional # "else",
         NEW p \in Optional(optional, present)
  PROVE  Fits(p)
PROOF
  <1>1. From(optional, <<>>, optional)
    BY PlainFrom
  <1>2. Path(<<"=empty">>, <<>>, optional)
    BY ActionsAreOrdinary, Path00
  <1>3. p[1] = optional /\ p[2] \in {present, <<"=empty">>}
    BY PairsOfOneOf DEF Optional
  <1>4. p = <<p[1], p[2]>>
    BY PairsOfOptional
  <1>5. Fine(p[1], p[2])
    BY <1>1, <1>2, <1>3, PathFine
  <1> QED  BY <1>3, <1>4, <1>5 DEF Fits

\* Two of the paths are longer.
LEMMA TupleCat21 ==
  ASSUME NEW x1 \in Ordinary, NEW x2 \in Ordinary, NEW y1 \in Ordinary
  PROVE  <<x1, x2>> \o <<y1>> = <<x1, x2, y1>>
PROOF
  <1> DEFINE s == <<x1, x2>> \o <<y1>>  t == <<x1, x2, y1>>
  <1>1. /\ s \in Seq(Ordinary) /\ Len(s) = 3
        /\ \A i \in 1..3 : s[i] = IF i <= 2 THEN <<x1, x2>>[i] ELSE <<y1>>[i - 2]
    BY Sequence1, Sequence2, ConcatProperties
  <1>2. t \in Seq(Ordinary) /\ Len(t) = 3
    BY Sequence3
  <1>3. s[1] = t[1] /\ s[2] = t[2] /\ s[3] = t[3]
    BY <1>1
  <1> HIDE DEF s, t
  <1>4. \A i \in 1..Len(s) : s[i] = t[i]
    BY <1>1, <1>3
  <1>5. s = t
    BY <1>1, <1>2, <1>4, SeqEqual
  <1> QED  BY <1>5 DEF s, t

\* The other.
LEMMA TupleCat23 ==
  ASSUME NEW x1 \in Ordinary, NEW x2 \in Ordinary, NEW y1 \in Ordinary, 
         NEW y2 \in Ordinary, NEW y3 \in Ordinary
  PROVE  <<x1, x2>> \o <<y1, y2, y3>> = <<x1, x2, y1, y2, y3>>
PROOF
  <1> DEFINE s == <<x1, x2>> \o <<y1, y2, y3>>  t == <<x1, x2, y1, y2, y3>>
  <1>1. /\ s \in Seq(Ordinary) /\ Len(s) = 5
        /\ \A i \in 1..5 : s[i] = IF i <= 2 THEN <<x1, x2>>[i] ELSE <<y1, y2, y3>>[i - 2]
    BY Sequence3, Sequence2, ConcatProperties
  <1>2. t \in Seq(Ordinary) /\ Len(t) = 5
    BY Sequence5
  <1>3. s[1] = t[1] /\ s[2] = t[2] /\ s[3] = t[3] /\ s[4] = t[4] /\ s[5] = t[5]
    BY <1>1
  <1> HIDE DEF s, t
  <1>4. \A i \in 1..Len(s) : s[i] = t[i]
    BY <1>1, <1>3
  <1>5. s = t
    BY <1>1, <1>2, <1>4, SeqEqual
  <1> QED  BY <1>5 DEF s, t

\* The alternatives of ProgramModule.
LEMMA ProgramModuleFine ==
  ASSUME NEW p \in OneOf("ProgramModule", {<<"program", "identifier", "ProgramParametersOpt", ";", "Block", ".", "=ProgramModule">>})
  PROVE  Fits(p)
PROOF
  <1>1. <<"=ProgramModule", <<"program", "identifier", "ProgramParametersOpt", ";", "Block", ".">>, "ProgramModule">> \in ActionSignatures
    BY ZenonT(60) DEF ActionSignatures, DeclarationSignatures
  <1>2. From("ProgramModule", <<>>, "ProgramModule")
    BY RulesArePlain, PlainFrom
  <1>3. Path(<<"program", "identifier", "ProgramParametersOpt", ";", "Block", ".", "=ProgramModule">>, <<>>, "ProgramModule")
    BY <1>1, ActionsAreOrdinary, KindsAreOrdinary, KindsArePlain, RulesAreOrdinary, RulesArePlain, Path06
  <1>4. p = <<p[1], p[2]>> /\ p[1] = "ProgramModule"
         /\ p[2] \in {<<"program", "identifier", "ProgramParametersOpt", ";", "Block", ".", "=ProgramModule">>}
    BY PairsOfOneOf
  <1>5. Fine(p[1], p[2])
    BY <1>2, <1>3, <1>4, PathFine
  <1> QED  BY <1>4, <1>5, RulesAreOrdinary DEF Fits

\* The alternatives of ProgramParametersOpt.
LEMMA ProgramParametersOptFine ==
  ASSUME NEW p \in Optional("ProgramParametersOpt", <<"(", "IdentList", ")", "=parameters">>)
  PROVE  Fits(p)
PROOF
  <1>1. /\ <<"=parameters", <<"(", "IdentList", ")">>, "ProgramParametersOpt">> \in ActionSignatures
        /\ <<"=empty", <<>>, "ProgramParametersOpt">> \in ActionSignatures
    BY ZenonT(60) DEF ActionSignatures, DeclarationSignatures
  <1>2. Path(<<"(", "IdentList", ")", "=parameters">>, <<>>, "ProgramParametersOpt")
    BY <1>1, ActionsAreOrdinary, KindsAreOrdinary, KindsArePlain, RulesAreOrdinary, RulesArePlain, Path03
  <1> QED  BY <1>1, <1>2, RulesAreOrdinary, RulesArePlain, OptionalFine

\* The alternatives of IdentList and IdentListRest.
LEMMA IdentListFine ==
  ASSUME NEW p \in SeparatedRule("IdentList", "IdentListRest", "identifier", ",")
  PROVE  Fits(p)
PROOF
  <1>1. /\ <<"IdentListRest", <<"identifier">>, "IdentList">> \in RestSignatures
        /\ <<"=insert", <<"identifier", ",", "IdentList">>, "IdentList">> \in ActionSignatures
        /\ <<"=vector", <<"identifier">>, "IdentList">> \in ActionSignatures
    BY ZenonT(60) DEF ActionSignatures, RestSignatures, DeclarationSignatures
  <1>2. From("IdentListRest", <<"identifier">>, "IdentList")
    BY RestFrom, ZenonT(60) DEF RestRules, RestSignatures
  <1> QED  BY <1>1, <1>2, KindsAreOrdinary, KindsArePlain, RestsAreOrdinary, RulesAreOrdinary,
              RulesArePlain, SeparatedFine

\* The alternatives of Block.
LEMMA BlockFine ==
  ASSUME NEW p \in OneOf("Block", {<<"Declarations", "StatementSequence", "=Block">>})
  PROVE  Fits(p)
PROOF
  <1>1. <<"=Block", <<"Declarations", "StatementSequence">>, "Block">> \in ActionSignatures
    BY ZenonT(60) DEF ActionSignatures, DeclarationSignatures
  <1>2. From("Block", <<>>, "Block")
    BY RulesArePlain, PlainFrom
  <1>3. Path(<<"Declarations", "StatementSequence", "=Block">>, <<>>, "Block")
    BY <1>1, ActionsAreOrdinary, RulesAreOrdinary, RulesArePlain, Path02
  <1>4. p = <<p[1], p[2]>> /\ p[1] = "Block"
         /\ p[2] \in {<<"Declarations", "StatementSequence", "=Block">>}
    BY PairsOfOneOf
  <1>5. Fine(p[1], p[2])
    BY <1>2, <1>3, <1>4, PathFine
  <1> QED  BY <1>4, <1>5, RulesAreOrdinary DEF Fits

\* The alternatives of Declarations.
LEMMA DeclarationsFine ==
  ASSUME NEW p \in OneOf("Declarations", {<<"ConstantDefBlockOpt", "TypeDefBlockOpt", "VariableDeclBlockOpt", "SubprogDeclListOpt", "=Declarations">>})
  PROVE  Fits(p)
PROOF
  <1>1. <<"=Declarations", <<"ConstantDefBlockOpt", "TypeDefBlockOpt", "VariableDeclBlockOpt", "SubprogDeclListOpt">>, "Declarations">> \in ActionSignatures
    BY ZenonT(60) DEF ActionSignatures, DeclarationSignatures
  <1>2. From("Declarations", <<>>, "Declarations")
    BY RulesArePlain, PlainFrom
  <1>3. Path(<<"ConstantDefBlockOpt", "TypeDefBlockOpt", "VariableDeclBlockOpt", "SubprogDeclListOpt", "=Declarations">>, <<>>, "Declarations")
    BY <1>1, ActionsAreOrdinary, RulesAreOrdinary, RulesArePlain, Path04
  <1>4. p = <<p[1], p[2]>> /\ p[1] = "Declarations"
         /\ p[2] \in {<<"ConstantDefBlockOpt", "TypeDefBlockOpt", "VariableDeclBlockOpt", "SubprogDeclListOpt", "=Declarations">>}
    BY PairsOfOneOf
  <1>5. Fine(p[1], p[2])
    BY <1>2, <1>3, <1>4, PathFine
  <1> QED  BY <1>4, <1>5, RulesAreOrdinary DEF Fits

\* The alternatives of ConstantDefBlockOpt.
LEMMA ConstantDefBlockOptFine ==
  ASSUME NEW p \in Optional("ConstantDefBlockOpt", <<"const", "ConstantDefList", "=last">>)
  PROVE  Fits(p)
PROOF
  <1>1. /\ <<"=last", <<"const", "ConstantDefList">>, "ConstantDefBlockOpt">> \in ActionSignatures
        /\ <<"=empty", <<>>, "ConstantDefBlockOpt">> \in ActionSignatures
    BY ZenonT(60) DEF ActionSignatures, DeclarationSignatures
  <1>2. Path(<<"const", "ConstantDefList", "=last">>, <<>>, "ConstantDefBlockOpt")
    BY <1>1, ActionsAreOrdinary, KindsAreOrdinary, KindsArePlain, RulesAreOrdinary, RulesArePlain, Path02
  <1> QED  BY <1>1, <1>2, RulesAreOrdinary, RulesArePlain, OptionalFine

\* The alternatives of TypeDefBlockOpt.
LEMMA TypeDefBlockOptFine ==
  ASSUME NEW p \in Optional("TypeDefBlockOpt", <<"type", "TypeDefList", "=last">>)
  PROVE  Fits(p)
PROOF
  <1>1. /\ <<"=last", <<"type", "TypeDefList">>, "TypeDefBlockOpt">> \in ActionSignatures
        /\ <<"=empty", <<>>, "TypeDefBlockOpt">> \in ActionSignatures
    BY ZenonT(60) DEF ActionSignatures, DeclarationSignatures
  <1>2. Path(<<"type", "TypeDefList", "=last">>, <<>>, "TypeDefBlockOpt")
    BY <1>1, ActionsAreOrdinary, KindsAreOrdinary, KindsArePlain, RulesAreOrdinary, RulesArePlain, Path02
  <1> QED  BY <1>1, <1>2, RulesAreOrdinary, RulesArePlain, OptionalFine

\* The alternatives of VariableDeclBlockOpt.
LEMMA VariableDeclBlockOptFine ==
  ASSUME NEW p \in Optional("VariableDeclBlockOpt", <<"var", "VariableDeclList", "=last">>)
  PROVE  Fits(p)
PROOF
  <1>1. /\ <<"=last", <<"var", "VariableDeclList">>, "VariableDeclBlockOpt">> \in ActionSignatures
        /\ <<"=empty", <<>>, "VariableDeclBlockOpt">> \in ActionSignatures
    BY ZenonT(60) DEF ActionSignatures, DeclarationSignatures
  <1>2. Path(<<"var", "VariableDeclList", "=last">>, <<>>, "VariableDeclBlockOpt")
    BY <1>1, ActionsAreOrdinary, KindsAreOrdinary, KindsArePlain, RulesAreOrdinary, RulesArePlain, Path02
  <1> QED  BY <1>1, <1>2, RulesAreOrdinary, RulesArePlain, OptionalFine

\* The alternatives of SubprogDeclListOpt.
LEMMA SubprogDeclListOptFine ==
  ASSUME NEW p \in Optional("SubprogDeclListOpt", <<"SubprogDeclList", "=first">>)
  PROVE  Fits(p)
PROOF
  <1>1. /\ <<"=first", <<"SubprogDeclList">>, "SubprogDeclListOpt">> \in ActionSignatures
        /\ <<"=empty", <<>>, "SubprogDeclListOpt">> \in ActionSignatures
    BY ZenonT(60) DEF ActionSignatures, DeclarationSignatures
  <1>2. Path(<<"SubprogDeclList", "=first">>, <<>>, "SubprogDeclListOpt")
    BY <1>1, ActionsAreOrdinary, RulesAreOrdinary, RulesArePlain, Path01
  <1> QED  BY <1>1, <1>2, RulesAreOrdinary, RulesArePlain, OptionalFine

\* The alternatives of ConstantDefList and ConstantDefRest.
LEMMA ConstantDefListFine ==
  ASSUME NEW p \in TerminatedRule("ConstantDefList", "ConstantDefRest", "ConstantDef")
  PROVE  Fits(p)
PROOF
  <1>1. /\ <<"ConstantDefRest", <<"ConstantDef", ";">>, "ConstantDefList">> \in RestSignatures
        /\ <<"=insert", <<"ConstantDef", ";", "ConstantDefList">>, "ConstantDefList">> \in ActionSignatures
        /\ <<"=vector;", <<"ConstantDef", ";">>, "ConstantDefList">> \in ActionSignatures
    BY ZenonT(60) DEF ActionSignatures, RestSignatures, DeclarationSignatures
  <1>2. From("ConstantDefRest", <<"ConstantDef", ";">>, "ConstantDefList")
    BY RestFrom, ZenonT(60) DEF RestRules, RestSignatures
  <1> QED  BY <1>1, <1>2, KindsAreOrdinary, RestsAreOrdinary, RulesAreOrdinary, RulesArePlain,
              TerminatedFine

\* The alternatives of TypeDefList and TypeDefRest.
LEMMA TypeDefListFine ==
  ASSUME NEW p \in TerminatedRule("TypeDefList", "TypeDefRest", "TypeDef")
  PROVE  Fits(p)
PROOF
  <1>1. /\ <<"TypeDefRest", <<"TypeDef", ";">>, "TypeDefList">> \in RestSignatures
        /\ <<"=insert", <<"TypeDef", ";", "TypeDefList">>, "TypeDefList">> \in ActionSignatures
        /\ <<"=vector;", <<"TypeDef", ";">>, "TypeDefList">> \in ActionSignatures
    BY ZenonT(60) DEF ActionSignatures, RestSignatures, DeclarationSignatures
  <1>2. From("TypeDefRest", <<"TypeDef", ";">>, "TypeDefList")
    BY RestFrom, ZenonT(60) DEF RestRules, RestSignatures
  <1> QED  BY <1>1, <1>2, KindsAreOrdinary, RestsAreOrdinary, RulesAreOrdinary, RulesArePlain,
              TerminatedFine

\* The alternatives of VariableDeclList and VariableDeclRest.
LEMMA VariableDeclListFine ==
  ASSUME NEW p \in TerminatedRule("VariableDeclList", "VariableDeclRest", "VariableDecl")
  PROVE  Fits(p)
PROOF
  <1>1. /\ <<"VariableDeclRest", <<"VariableDecl", ";">>, "VariableDeclList">> \in RestSignatures
        /\ <<"=insert", <<"VariableDecl", ";", "VariableDeclList">>, "VariableDeclList">> \in ActionSignatures
        /\ <<"=vector;", <<"VariableDecl", ";">>, "VariableDeclList">> \in ActionSignatures
    BY ZenonT(60) DEF ActionSignatures, RestSignatures, DeclarationSignatures
  <1>2. From("VariableDeclRest", <<"VariableDecl", ";">>, "VariableDeclList")
    BY RestFrom, ZenonT(60) DEF RestRules, RestSignatures
  <1> QED  BY <1>1, <1>2, KindsAreOrdinary, RestsAreOrdinary, RulesAreOrdinary, RulesArePlain,
              TerminatedFine

\* The alternatives of ConstantDef.
LEMMA ConstantDefFine ==
  ASSUME NEW p \in OneOf("ConstantDef", {<<"identifier", "=", "ConstExpression", "=ConstDef">>})
  PROVE  Fits(p)
PROOF
  <1>1. <<"=ConstDef", <<"identifier", "=", "ConstExpression">>, "ConstantDef">> \in ActionSignatures
    BY ZenonT(60) DEF ActionSignatures, DeclarationSignatures
  <1>2. From("ConstantDef", <<>>, "ConstantDef")
    BY RulesArePlain, PlainFrom
  <1>3. Path(<<"identifier", "=", "ConstExpression", "=ConstDef">>, <<>>, "ConstantDef")
    BY <1>1, ActionsAreOrdinary, KindsAreOrdinary, KindsArePlain, RulesAreOrdinary, RulesArePlain, Path03
  <1>4. p = <<p[1], p[2]>> /\ p[1] = "ConstantDef"
         /\ p[2] \in {<<"identifier", "=", "ConstExpression", "=ConstDef">>}
    BY PairsOfOneOf
  <1>5. Fine(p[1], p[2])
    BY <1>2, <1>3, <1>4, PathFine
  <1> QED  BY <1>4, <1>5, RulesAreOrdinary DEF Fits

\* The alternatives of TypeDef.
LEMMA TypeDefFine ==
  ASSUME NEW p \in OneOf("TypeDef", {<<"identifier", "=", "Type", "=TypeDef">>})
  PROVE  Fits(p)
PROOF
  <1>1. <<"=TypeDef", <<"identifier", "=", "Type">>, "TypeDef">> \in ActionSignatures
    BY ZenonT(60) DEF ActionSignatures, DeclarationSignatures
  <1>2. From("TypeDef", <<>>, "TypeDef")
    BY RulesArePlain, PlainFrom
  <1>3. Path(<<"identifier", "=", "Type", "=TypeDef">>, <<>>, "TypeDef")
    BY <1>1, ActionsAreOrdinary, KindsAreOrdinary, KindsArePlain, RulesAreOrdinary, RulesArePlain, Path03
  <1>4. p = <<p[1], p[2]>> /\ p[1] = "TypeDef"
         /\ p[2] \in {<<"identifier", "=", "Type", "=TypeDef">>}
    BY PairsOfOneOf
  <1>5. Fine(p[1], p[2])
    BY <1>2, <1>3, <1>4, PathFine
  <1> QED  BY <1>4, <1>5, RulesAreOrdinary DEF Fits

\* The alternatives of VariableDecl.
LEMMA VariableDeclFine ==
  ASSUME NEW p \in OneOf("VariableDecl", {<<"IdentList", ":", "Type", "=VarDecl">>})
  PROVE  Fits(p)
PROOF
  <1>1. <<"=VarDecl", <<"IdentList", ":", "Type">>, "VariableDecl">> \in ActionSignatures
    BY ZenonT(60) DEF ActionSignatures, DeclarationSignatures
  <1>2. From("VariableDecl", <<>>, "VariableDecl")
    BY RulesArePlain, PlainFrom
  <1>3. Path(<<"IdentList", ":", "Type", "=VarDecl">>, <<>>, "VariableDecl")
    BY <1>1, ActionsAreOrdinary, KindsAreOrdinary, KindsArePlain, RulesAreOrdinary, RulesArePlain, Path03
  <1>4. p = <<p[1], p[2]>> /\ p[1] = "VariableDecl"
         /\ p[2] \in {<<"IdentList", ":", "Type", "=VarDecl">>}
    BY PairsOfOneOf
  <1>5. Fine(p[1], p[2])
    BY <1>2, <1>3, <1>4, PathFine
  <1> QED  BY <1>4, <1>5, RulesAreOrdinary DEF Fits

\* The alternatives of SubprogDeclList and SubprogDeclRest.
LEMMA SubprogDeclListFine ==
  ASSUME NEW p \in RepeatedRule("SubprogDeclList", "SubprogDeclRest", "SubprogDecl")
  PROVE  Fits(p)
PROOF
  <1>1. /\ <<"SubprogDeclRest", <<"SubprogDecl">>, "SubprogDeclList">> \in RestSignatures
        /\ <<"=prepend", <<"SubprogDecl", "SubprogDeclList">>, "SubprogDeclList">> \in ActionSignatures
        /\ <<"=vector", <<"SubprogDecl">>, "SubprogDeclList">> \in ActionSignatures
    BY ZenonT(60) DEF ActionSignatures, RestSignatures, DeclarationSignatures
  <1>2. From("SubprogDeclRest", <<"SubprogDecl">>, "SubprogDeclList")
    BY RestFrom, ZenonT(60) DEF RestRules, RestSignatures
  <1> QED  BY <1>1, <1>2, RestsAreOrdinary, RulesAreOrdinary, RulesArePlain, RepeatedFine

\* The alternatives of SubprogDecl.
LEMMA SubprogDeclFine ==
  ASSUME NEW p \in OneOf("SubprogDecl", {<<"ProcedureDecl", ";", "=SubprogDecl">>,
                                        <<"FunctionDecl", ";", "=SubprogDecl">>})
  PROVE  Fits(p)
PROOF
  <1>1. /\ <<"=SubprogDecl", <<"ProcedureDecl", ";">>, "SubprogDecl">> \in ActionSignatures
        /\ <<"=SubprogDecl", <<"FunctionDecl", ";">>, "SubprogDecl">> \in ActionSignatures
    BY ZenonT(60) DEF ActionSignatures, DeclarationSignatures
  <1>2. From("SubprogDecl", <<>>, "SubprogDecl")
    BY RulesArePlain, PlainFrom
  <1>3. Path(<<"ProcedureDecl", ";", "=SubprogDecl">>, <<>>, "SubprogDecl")
    BY <1>1, ActionsAreOrdinary, KindsAreOrdinary, KindsArePlain, RulesAreOrdinary, RulesArePlain, Path02
  <1>4. Path(<<"FunctionDecl", ";", "=SubprogDecl">>, <<>>, "SubprogDecl")
    BY <1>1, ActionsAreOrdinary, KindsAreOrdinary, KindsArePlain, RulesAreOrdinary, RulesArePlain, Path02
  <1>5. p = <<p[1], p[2]>> /\ p[1] = "SubprogDecl"
         /\ p[2] \in {<<"ProcedureDecl", ";", "=SubprogDecl">>,
                     <<"FunctionDecl", ";", "=SubprogDecl">>}
    BY PairsOfOneOf
  <1>6. Fine(p[1], p[2])
    BY <1>2, <1>3, <1>4, <1>5, PathFine
  <1> QED  BY <1>5, <1>6, RulesAreOrdinary DEF Fits

\* The alternatives of ProcedureDecl.
LEMMA ProcedureDeclFine ==
  ASSUME NEW p \in OneOf("ProcedureDecl", {<<"ProcedureHeading", ";", "Block", "=ProcDecl">>})
  PROVE  Fits(p)
PROOF
  <1>1. <<"=ProcDecl", <<"ProcedureHeading", ";", "Block">>, "ProcedureDecl">> \in ActionSignatures
    BY ZenonT(60) DEF ActionSignatures, DeclarationSignatures
  <1>2. From("ProcedureDecl", <<>>, "ProcedureDecl")
    BY RulesArePlain, PlainFrom
  <1>3. Path(<<"ProcedureHeading", ";", "Block", "=ProcDecl">>, <<>>, "ProcedureDecl")
    BY <1>1, ActionsAreOrdinary, KindsAreOrdinary, KindsArePlain, RulesAreOrdinary, RulesArePlain, Path03
  <1>4. p = <<p[1], p[2]>> /\ p[1] = "ProcedureDecl"
         /\ p[2] \in {<<"ProcedureHeading", ";", "Block", "=ProcDecl">>}
    BY PairsOfOneOf
  <1>5. Fine(p[1], p[2])
    BY <1>2, <1>3, <1>4, PathFine
  <1> QED  BY <1>4, <1>5, RulesAreOrdinary DEF Fits

\* The alternatives of FunctionDecl.
LEMMA FunctionDeclFine ==
  ASSUME NEW p \in OneOf("FunctionDecl", {<<"FunctionHeading", ":", "identifier", ";", "Block", "=FuncDecl">>})
  PROVE  Fits(p)
PROOF
  <1>1. <<"=FuncDecl", <<"FunctionHeading", ":", "identifier", ";", "Block">>, "FunctionDecl">> \in ActionSignatures
    BY ZenonT(60) DEF ActionSignatures, DeclarationSignatures
  <1>2. From("FunctionDecl", <<>>, "FunctionDecl")
    BY RulesArePlain, PlainFrom
  <1>3. Path(<<"FunctionHeading", ":", "identifier", ";", "Block", "=FuncDecl">>, <<>>, "FunctionDecl")
    BY <1>1, ActionsAreOrdinary, KindsAreOrdinary, KindsArePlain, RulesAreOrdinary, RulesArePlain, Path05
  <1>4. p = <<p[1], p[2]>> /\ p[1] = "FunctionDecl"
         /\ p[2] \in {<<"FunctionHeading", ":", "identifier", ";", "Block", "=FuncDecl">>}
    BY PairsOfOneOf
  <1>5. Fine(p[1], p[2])
    BY <1>2, <1>3, <1>4, PathFine
  <1> QED  BY <1>4, <1>5, RulesAreOrdinary DEF Fits

\* The alternatives of ProcedureHeading.
LEMMA ProcedureHeadingFine ==
  ASSUME NEW p \in OneOf("ProcedureHeading", {<<"procedure", "identifier", "FormalParametersOpt", "=ProcHeading">>})
  PROVE  Fits(p)
PROOF
  <1>1. <<"=ProcHeading", <<"procedure", "identifier", "FormalParametersOpt">>, "ProcedureHeading">> \in ActionSignatures
    BY ZenonT(60) DEF ActionSignatures, DeclarationSignatures
  <1>2. From("ProcedureHeading", <<>>, "ProcedureHeading")
    BY RulesArePlain, PlainFrom
  <1>3. Path(<<"procedure", "identifier", "FormalParametersOpt", "=ProcHeading">>, <<>>, "ProcedureHeading")
    BY <1>1, ActionsAreOrdinary, KindsAreOrdinary, KindsArePlain, RulesAreOrdinary, RulesArePlain, Path03
  <1>4. p = <<p[1], p[2]>> /\ p[1] = "ProcedureHeading"
         /\ p[2] \in {<<"procedure", "identifier", "FormalParametersOpt", "=ProcHeading">>}
    BY PairsOfOneOf
  <1>5. Fine(p[1], p[2])
    BY <1>2, <1>3, <1>4, PathFine
  <1> QED  BY <1>4, <1>5, RulesAreOrdinary DEF Fits

\* The alternatives of FunctionHeading.
LEMMA FunctionHeadingFine ==
  ASSUME NEW p \in OneOf("FunctionHeading", {<<"function", "identifier", "FormalParametersOpt", "=ProcHeading">>})
  PROVE  Fits(p)
PROOF
  <1>1. <<"=ProcHeading", <<"function", "identifier", "FormalParametersOpt">>, "FunctionHeading">> \in ActionSignatures
    BY ZenonT(60) DEF ActionSignatures, DeclarationSignatures
  <1>2. From("FunctionHeading", <<>>, "FunctionHeading")
    BY RulesArePlain, PlainFrom
  <1>3. Path(<<"function", "identifier", "FormalParametersOpt", "=ProcHeading">>, <<>>, "FunctionHeading")
    BY <1>1, ActionsAreOrdinary, KindsAreOrdinary, KindsArePlain, RulesAreOrdinary, RulesArePlain, Path03
  <1>4. p = <<p[1], p[2]>> /\ p[1] = "FunctionHeading"
         /\ p[2] \in {<<"function", "identifier", "FormalParametersOpt", "=ProcHeading">>}
    BY PairsOfOneOf
  <1>5. Fine(p[1], p[2])
    BY <1>2, <1>3, <1>4, PathFine
  <1> QED  BY <1>4, <1>5, RulesAreOrdinary DEF Fits

\* The alternatives of FormalParametersOpt.
LEMMA FormalParametersOptFine ==
  ASSUME NEW p \in Optional("FormalParametersOpt", <<"(", "OneFormalParamList", ")", "=inner">>)
  PROVE  Fits(p)
PROOF
  <1>1. /\ <<"=inner", <<"(", "OneFormalParamList", ")">>, "FormalParametersOpt">> \in ActionSignatures
        /\ <<"=empty", <<>>, "FormalParametersOpt">> \in ActionSignatures
    BY ZenonT(60) DEF ActionSignatures, DeclarationSignatures
  <1>2. Path(<<"(", "OneFormalParamList", ")", "=inner">>, <<>>, "FormalParametersOpt")
    BY <1>1, ActionsAreOrdinary, KindsAreOrdinary, KindsArePlain, RulesAreOrdinary, RulesArePlain, Path03
  <1> QED  BY <1>1, <1>2, RulesAreOrdinary, RulesArePlain, OptionalFine

\* The alternatives of OneFormalParamList and OneFormalParamRest.
LEMMA OneFormalParamListFine ==
  ASSUME NEW p \in SeparatedRule("OneFormalParamList", "OneFormalParamRest", "OneFormalParam", ";")
  PROVE  Fits(p)
PROOF
  <1>1. /\ <<"OneFormalParamRest", <<"OneFormalParam">>, "OneFormalParamList">> \in RestSignatures
        /\ <<"=insert", <<"OneFormalParam", ";", "OneFormalParamList">>, "OneFormalParamList">> \in ActionSignatures
        /\ <<"=vector", <<"OneFormalParam">>, "OneFormalParamList">> \in ActionSignatures
    BY ZenonT(60) DEF ActionSignatures, RestSignatures, DeclarationSignatures
  <1>2. From("OneFormalParamRest", <<"OneFormalParam">>, "OneFormalParamList")
    BY RestFrom, ZenonT(60) DEF RestRules, RestSignatures
  <1> QED  BY <1>1, <1>2, KindsAreOrdinary, KindsArePlain, RestsAreOrdinary, RulesAreOrdinary,
              RulesArePlain, SeparatedFine

\* The alternatives of OneFormalParam.
LEMMA OneFormalParamFine ==
  ASSUME NEW p \in OneOf("OneFormalParam", {<<"var", "IdentList", ":", "identifier", "=FormalParam">>})
  PROVE  Fits(p)
PROOF
  <1>1. <<"=FormalParam", <<"var", "IdentList", ":", "identifier">>, "OneFormalParam">> \in ActionSignatures
    BY ZenonT(60) DEF ActionSignatures, DeclarationSignatures
  <1>2. From("OneFormalParam", <<>>, "OneFormalParam")
    BY RulesArePlain, PlainFrom
  <1>3. Path(<<"var", "IdentList", ":", "identifier", "=FormalParam">>, <<>>, "OneFormalParam")
    BY <1>1, ActionsAreOrdinary, KindsAreOrdinary, KindsArePlain, RulesAreOrdinary, RulesArePlain, Path04
  <1>4. p = <<p[1], p[2]>> /\ p[1] = "OneFormalParam"
         /\ p[2] \in {<<"var", "IdentList", ":", "identifier", "=FormalParam">>}
    BY PairsOfOneOf
  <1>5. Fine(p[1], p[2])
    BY <1>2, <1>3, <1>4, PathFine
  <1> QED  BY <1>4, <1>5, RulesAreOrdinary DEF Fits

\* The alternatives of ConstExpression.
LEMMA ConstExpressionFine ==
  ASSUME NEW p \in OneOf("ConstExpression", {<<"SignOpt", "ConstFactor", "=ConstExpr">>,
                                            <<"CharacterConst", "=throw">>})
  PROVE  Fits(p)
PROOF
  <1>1. <<"=ConstExpr", <<"SignOpt", "ConstFactor">>, "ConstExpression">> \in ActionSignatures
    BY ZenonT(60) DEF ActionSignatures, ConstantAndTypeSignatures
  <1>2. From("ConstExpression", <<>>, "ConstExpression")
    BY RulesArePlain, PlainFrom
  <1>3. Path(<<"SignOpt", "ConstFactor", "=ConstExpr">>, <<>>, "ConstExpression")
    BY <1>1, ActionsAreOrdinary, RulesAreOrdinary, RulesArePlain, Path02
  <1>4. Path(<<"CharacterConst", "=throw">>, <<>>, "ConstExpression")
    BY KindsAreOrdinary, KindsArePlain, RulesAreOrdinary, Throw01
  <1>5. p = <<p[1], p[2]>> /\ p[1] = "ConstExpression"
         /\ p[2] \in {<<"SignOpt", "ConstFactor", "=ConstExpr">>, <<"CharacterConst", "=throw">>}
    BY PairsOfOneOf
  <1>6. Fine(p[1], p[2])
    BY <1>2, <1>3, <1>4, <1>5, PathFine
  <1> QED  BY <1>5, <1>6, RulesAreOrdinary DEF Fits

\* The alternatives of SignOpt.
LEMMA SignOptFine ==
  ASSUME NEW p \in OneOf("SignOpt", {<<"+", "Plus">>, <<"-", "Minus">>, <<"None">>})
  PROVE  Fits(p)
PROOF
  <1>1. /\ <<"Plus", <<"+">>, "SignOpt">> \in ActionSignatures
        /\ <<"Minus", <<"-">>, "SignOpt">> \in ActionSignatures
        /\ <<"None", <<>>, "SignOpt">> \in ActionSignatures
    BY ZenonT(60) DEF ActionSignatures, ConstantAndTypeSignatures
  <1>2. From("SignOpt", <<>>, "SignOpt")
    BY RulesArePlain, PlainFrom
  <1>3. Path(<<"+", "Plus">>, <<>>, "SignOpt")
    BY <1>1, ActionsAreOrdinary, KindsAreOrdinary, KindsArePlain, RulesAreOrdinary, Path01
  <1>4. Path(<<"-", "Minus">>, <<>>, "SignOpt")
    BY <1>1, ActionsAreOrdinary, KindsAreOrdinary, KindsArePlain, RulesAreOrdinary, Path01
  <1>5. Path(<<"None">>, <<>>, "SignOpt")
    BY <1>1, ActionsAreOrdinary, RulesAreOrdinary, Path00
  <1>6. p = <<p[1], p[2]>> /\ p[1] = "SignOpt"
         /\ p[2] \in {<<"+", "Plus">>, <<"-", "Minus">>, <<"None">>}
    BY PairsOfOneOf
  <1>7. Fine(p[1], p[2])
    BY <1>2, <1>3, <1>4, <1>5, <1>6, PathFine
  <1> QED  BY <1>6, <1>7, RulesAreOrdinary DEF Fits

\* The alternatives of ConstFactor.
LEMMA ConstFactorFine ==
  ASSUME NEW p \in OneOf("ConstFactor", {<<"identifier", "=ConstIdent">>,
                                        <<"number", "=ConstNumber">>, <<"True", "=ConstTrue">>,
                                        <<"False", "=ConstFalse">>, <<"nil", "=ConstNil">>})
  PROVE  Fits(p)
PROOF
  <1>1. /\ <<"=ConstIdent", <<"identifier">>, "ConstFactor">> \in ActionSignatures
        /\ <<"=ConstNumber", <<"number">>, "ConstFactor">> \in ActionSignatures
        /\ <<"=ConstTrue", <<"True">>, "ConstFactor">> \in ActionSignatures
        /\ <<"=ConstFalse", <<"False">>, "ConstFactor">> \in ActionSignatures
        /\ <<"=ConstNil", <<"nil">>, "ConstFactor">> \in ActionSignatures
    BY ZenonT(60) DEF ActionSignatures, ConstantAndTypeSignatures
  <1>2. From("ConstFactor", <<>>, "ConstFactor")
    BY RulesArePlain, PlainFrom
  <1>3. Path(<<"identifier", "=ConstIdent">>, <<>>, "ConstFactor")
    BY <1>1, ActionsAreOrdinary, KindsAreOrdinary, KindsArePlain, RulesAreOrdinary, Path01
  <1>4. Path(<<"number", "=ConstNumber">>, <<>>, "ConstFactor")
    BY <1>1, ActionsAreOrdinary, KindsAreOrdinary, KindsArePlain, RulesAreOrdinary, Path01
  <1>5. Path(<<"True", "=ConstTrue">>, <<>>, "ConstFactor")
    BY <1>1, ActionsAreOrdinary, KindsAreOrdinary, KindsArePlain, RulesAreOrdinary, Path01
  <1>6. Path(<<"False", "=ConstFalse">>, <<>>, "ConstFactor")
    BY <1>1, ActionsAreOrdinary, KindsAreOrdinary, KindsArePlain, RulesAreOrdinary, Path01
  <1>7. Path(<<"nil", "=ConstNil">>, <<>>, "ConstFactor")
    BY <1>1, ActionsAreOrdinary, KindsAreOrdinary, KindsArePlain, RulesAreOrdinary, Path01
  <1>8. p = <<p[1], p[2]>> /\ p[1] = "ConstFactor"
         /\ p[2] \in {<<"identifier", "=ConstIdent">>, <<"number", "=ConstNumber">>,
                     <<"True", "=ConstTrue">>, <<"False", "=ConstFalse">>, <<"nil", "=ConstNil">>}
    BY PairsOfOneOf
  <1>9. Fine(p[1], p[2])
    BY <1>2, <1>3, <1>4, <1>5, <1>6, <1>7, <1>8, PathFine
  <1> QED  BY <1>8, <1>9, RulesAreOrdinary DEF Fits

\* The alternatives of Type.
LEMMA TypeFine ==
  ASSUME NEW p \in OneOf("Type", {<<"identifier", "=NamedType">>,
                                 <<"array", "[", "SubrangeList", "]", "of", "Type", "=ArrayType">>,
                                 <<"^", "identifier", "=PointerType">>,
                                 <<"record", "FieldListSequence", "end", "=RecordType">>,
                                 <<"set", "of", "Subrange", "=SetType">>})
  PROVE  Fits(p)
PROOF
  <1>1. /\ <<"=NamedType", <<"identifier">>, "Type">> \in ActionSignatures
        /\ <<"=ArrayType", <<"array", "[", "SubrangeList", "]", "of", "Type">>, "Type">> \in ActionSignatures
        /\ <<"=PointerType", <<"^", "identifier">>, "Type">> \in ActionSignatures
        /\ <<"=RecordType", <<"record", "FieldListSequence", "end">>, "Type">> \in ActionSignatures
        /\ <<"=SetType", <<"set", "of", "Subrange">>, "Type">> \in ActionSignatures
    BY ZenonT(60) DEF ActionSignatures, ConstantAndTypeSignatures
  <1>2. From("Type", <<>>, "Type")
    BY RulesArePlain, PlainFrom
  <1>3. Path(<<"identifier", "=NamedType">>, <<>>, "Type")
    BY <1>1, ActionsAreOrdinary, KindsAreOrdinary, KindsArePlain, RulesAreOrdinary, Path01
  <1>4. Path(<<"array", "[", "SubrangeList", "]", "of", "Type", "=ArrayType">>, <<>>, "Type")
    BY <1>1, ActionsAreOrdinary, KindsAreOrdinary, KindsArePlain, RulesAreOrdinary, RulesArePlain, Path06
  <1>5. Path(<<"^", "identifier", "=PointerType">>, <<>>, "Type")
    BY <1>1, ActionsAreOrdinary, KindsAreOrdinary, KindsArePlain, RulesAreOrdinary, Path02
  <1>6. Path(<<"record", "FieldListSequence", "end", "=RecordType">>, <<>>, "Type")
    BY <1>1, ActionsAreOrdinary, KindsAreOrdinary, KindsArePlain, RulesAreOrdinary, RulesArePlain, Path03
  <1>7. Path(<<"set", "of", "Subrange", "=SetType">>, <<>>, "Type")
    BY <1>1, ActionsAreOrdinary, KindsAreOrdinary, KindsArePlain, RulesAreOrdinary, RulesArePlain, Path03
  <1>8. p = <<p[1], p[2]>> /\ p[1] = "Type"
         /\ p[2] \in {<<"identifier", "=NamedType">>,
                     <<"array", "[", "SubrangeList", "]", "of", "Type", "=ArrayType">>,
                     <<"^", "identifier", "=PointerType">>,
                     <<"record", "FieldListSequence", "end", "=RecordType">>,
                     <<"set", "of", "Subrange", "=SetType">>}
    BY PairsOfOneOf
  <1>9. Fine(p[1], p[2])
    BY <1>2, <1>3, <1>4, <1>5, <1>6, <1>7, <1>8, PathFine
  <1> QED  BY <1>8, <1>9, RulesAreOrdinary DEF Fits

\* The alternatives of SubrangeList and SubrangeRest.
LEMMA SubrangeListFine ==
  ASSUME NEW p \in SeparatedRule("SubrangeList", "SubrangeRest", "Subrange", ",")
  PROVE  Fits(p)
PROOF
  <1>1. /\ <<"SubrangeRest", <<"Subrange">>, "SubrangeList">> \in RestSignatures
        /\ <<"=insert", <<"Subrange", ",", "SubrangeList">>, "SubrangeList">> \in ActionSignatures
        /\ <<"=vector", <<"Subrange">>, "SubrangeList">> \in ActionSignatures
    BY ZenonT(60) DEF ActionSignatures, RestSignatures, ConstantAndTypeSignatures
  <1>2. From("SubrangeRest", <<"Subrange">>, "SubrangeList")
    BY RestFrom, ZenonT(60) DEF RestRules, RestSignatures
  <1> QED  BY <1>1, <1>2, KindsAreOrdinary, KindsArePlain, RestsAreOrdinary, RulesAreOrdinary,
              RulesArePlain, SeparatedFine

\* The alternatives of Subrange.
LEMMA SubrangeFine ==
  ASSUME NEW p \in OneOf("Subrange", {<<"ConstFactor", "..", "ConstFactor", "=Subrange">>,
                                     <<"CharSubrange", "=throw">>})
  PROVE  Fits(p)
PROOF
  <1>1. <<"=Subrange", <<"ConstFactor", "..", "ConstFactor">>, "Subrange">> \in ActionSignatures
    BY ZenonT(60) DEF ActionSignatures, ConstantAndTypeSignatures
  <1>2. From("Subrange", <<>>, "Subrange")
    BY RulesArePlain, PlainFrom
  <1>3. Path(<<"ConstFactor", "..", "ConstFactor", "=Subrange">>, <<>>, "Subrange")
    BY <1>1, ActionsAreOrdinary, KindsAreOrdinary, KindsArePlain, RulesAreOrdinary, RulesArePlain, Path03
  <1>4. Path(<<"CharSubrange", "=throw">>, <<>>, "Subrange")
    BY KindsAreOrdinary, KindsArePlain, RulesAreOrdinary, Throw01
  <1>5. p = <<p[1], p[2]>> /\ p[1] = "Subrange"
         /\ p[2] \in {<<"ConstFactor", "..", "ConstFactor", "=Subrange">>,
                     <<"CharSubrange", "=throw">>}
    BY PairsOfOneOf
  <1>6. Fine(p[1], p[2])
    BY <1>2, <1>3, <1>4, <1>5, PathFine
  <1> QED  BY <1>5, <1>6, RulesAreOrdinary DEF Fits

\* The alternatives of FieldListSequence and FieldListRest.
LEMMA FieldListSequenceFine ==
  ASSUME NEW p \in SeparatedRule("FieldListSequence", "FieldListRest", "FieldList", ";")
  PROVE  Fits(p)
PROOF
  <1>1. /\ <<"FieldListRest", <<"FieldList">>, "FieldListSequence">> \in RestSignatures
        /\ <<"=insert", <<"FieldList", ";", "FieldListSequence">>, "FieldListSequence">> \in ActionSignatures
        /\ <<"=vector", <<"FieldList">>, "FieldListSequence">> \in ActionSignatures
    BY ZenonT(60) DEF ActionSignatures, RestSignatures, ConstantAndTypeSignatures
  <1>2. From("FieldListRest", <<"FieldList">>, "FieldListSequence")
    BY RestFrom, ZenonT(60) DEF RestRules, RestSignatures
  <1> QED  BY <1>1, <1>2, KindsAreOrdinary, KindsArePlain, RestsAreOrdinary, RulesAreOrdinary,
              RulesArePlain, SeparatedFine

\* The alternatives of FieldList.
LEMMA FieldListFine ==
  ASSUME NEW p \in OneOf("FieldList", {<<"IdentList", ":", "Type", "=FieldList">>})
  PROVE  Fits(p)
PROOF
  <1>1. <<"=FieldList", <<"IdentList", ":", "Type">>, "FieldList">> \in ActionSignatures
    BY ZenonT(60) DEF ActionSignatures, ConstantAndTypeSignatures
  <1>2. From("FieldList", <<>>, "FieldList")
    BY RulesArePlain, PlainFrom
  <1>3. Path(<<"IdentList", ":", "Type", "=FieldList">>, <<>>, "FieldList")
    BY <1>1, ActionsAreOrdinary, KindsAreOrdinary, KindsArePlain, RulesAreOrdinary, RulesArePlain, Path03
  <1>4. p = <<p[1], p[2]>> /\ p[1] = "FieldList"
         /\ p[2] \in {<<"IdentList", ":", "Type", "=FieldList">>}
    BY PairsOfOneOf
  <1>5. Fine(p[1], p[2])
    BY <1>2, <1>3, <1>4, PathFine
  <1> QED  BY <1>4, <1>5, RulesAreOrdinary DEF Fits

\* The alternatives of StatementSequence.
LEMMA StatementSequenceFine ==
  ASSUME NEW p \in OneOf("StatementSequence", {<<"begin", "StatementList", "end", "=StmtSeq">>})
  PROVE  Fits(p)
PROOF
  <1>1. <<"=StmtSeq", <<"begin", "StatementList", "end">>, "StatementSequence">> \in ActionSignatures
    BY ZenonT(60) DEF ActionSignatures, StatementSignatures
  <1>2. From("StatementSequence", <<>>, "StatementSequence")
    BY RulesArePlain, PlainFrom
  <1>3. Path(<<"begin", "StatementList", "end", "=StmtSeq">>, <<>>, "StatementSequence")
    BY <1>1, ActionsAreOrdinary, KindsAreOrdinary, KindsArePlain, RulesAreOrdinary, RulesArePlain, Path03
  <1>4. p = <<p[1], p[2]>> /\ p[1] = "StatementSequence"
         /\ p[2] \in {<<"begin", "StatementList", "end", "=StmtSeq">>}
    BY PairsOfOneOf
  <1>5. Fine(p[1], p[2])
    BY <1>2, <1>3, <1>4, PathFine
  <1> QED  BY <1>4, <1>5, RulesAreOrdinary DEF Fits

\* The alternatives of StatementList and StatementRest.
LEMMA StatementListFine ==
  ASSUME NEW p \in SeparatedRule("StatementList", "StatementRest", "Statement", ";")
  PROVE  Fits(p)
PROOF
  <1>1. /\ <<"StatementRest", <<"Statement">>, "StatementList">> \in RestSignatures
        /\ <<"=insert", <<"Statement", ";", "StatementList">>, "StatementList">> \in ActionSignatures
        /\ <<"=vector", <<"Statement">>, "StatementList">> \in ActionSignatures
    BY ZenonT(60) DEF ActionSignatures, RestSignatures, StatementSignatures
  <1>2. From("StatementRest", <<"Statement">>, "StatementList")
    BY RestFrom, ZenonT(60) DEF RestRules, RestSignatures
  <1> QED  BY <1>1, <1>2, KindsAreOrdinary, KindsArePlain, RestsAreOrdinary, RulesAreOrdinary,
              RulesArePlain, SeparatedFine

\* The alternatives of Statement.
LEMMA StatementFine ==
  ASSUME NEW p \in OneOf("Statement", {<<"identifier", "AssignmentOrCall">>,
                                      <<"if", "Expression", "then", "Statement", "ElseOpt">>,
                                      <<"case", "Expression", "of", "CaseList", "end", "=CaseStmt">>,
                                      <<"while", "Expression", "do", "Statement", "=WhileStmt">>,
                                      <<"repeat", "StatementSequence", "until", "Expression", "=RepeatStmt">>,
                                      <<"for", "identifier", ":=", "Expression", "WhichWay", "Expression", "do", "Statement", "=ForStmt">>,
                                      <<"New", "(", "identifier", ")", "=New">>,
                                      <<"Dispose", "(", "identifier", ")", "=Dispose">>,
                                      <<"StatementSequence", "=first">>, <<"=EmptyStmt">>})
  PROVE  Fits(p)
PROOF
  <1>1. /\ <<"AssignmentOrCall", <<"identifier">>, "Statement">> \in RestSignatures
        /\ <<"ElseOpt", <<"if", "Expression", "then", "Statement">>, "Statement">> \in RestSignatures
        /\ <<"=CaseStmt", <<"case", "Expression", "of", "CaseList", "end">>, "Statement">> \in ActionSignatures
        /\ <<"=WhileStmt", <<"while", "Expression", "do", "Statement">>, "Statement">> \in ActionSignatures
        /\ <<"=RepeatStmt", <<"repeat", "StatementSequence", "until", "Expression">>, "Statement">> \in ActionSignatures
        /\ <<"=ForStmt", <<"for", "identifier", ":=", "Expression", "WhichWay", "Expression", "do", "Statement">>, "Statement">> \in ActionSignatures
        /\ <<"=New", <<"New", "(", "identifier", ")">>, "Statement">> \in ActionSignatures
        /\ <<"=Dispose", <<"Dispose", "(", "identifier", ")">>, "Statement">> \in ActionSignatures
        /\ <<"=first", <<"StatementSequence">>, "Statement">> \in ActionSignatures
        /\ <<"=EmptyStmt", <<>>, "Statement">> \in ActionSignatures
    BY ZenonT(60) DEF ActionSignatures, RestSignatures, StatementSignatures
  <1>2. From("Statement", <<>>, "Statement")
    BY RulesArePlain, PlainFrom
  <1>3. Path(<<"identifier", "AssignmentOrCall">>, <<>>, "Statement")
    BY <1>1, KindsAreOrdinary, KindsArePlain, RestsAreOrdinary, RulesAreOrdinary, Path01
  <1>4. Path(<<"if", "Expression", "then", "Statement", "ElseOpt">>, <<>>, "Statement")
    BY <1>1, KindsAreOrdinary, KindsArePlain, RestsAreOrdinary, RulesAreOrdinary, RulesArePlain, Path04
  <1>5. Path(<<"case", "Expression", "of", "CaseList", "end", "=CaseStmt">>, <<>>, "Statement")
    BY <1>1, ActionsAreOrdinary, KindsAreOrdinary, KindsArePlain, RulesAreOrdinary, RulesArePlain, Path05
  <1>6. Path(<<"while", "Expression", "do", "Statement", "=WhileStmt">>, <<>>, "Statement")
    BY <1>1, ActionsAreOrdinary, KindsAreOrdinary, KindsArePlain, RulesAreOrdinary, RulesArePlain, Path04
  <1>7. Path(<<"repeat", "StatementSequence", "until", "Expression", "=RepeatStmt">>, <<>>, "Statement")
    BY <1>1, ActionsAreOrdinary, KindsAreOrdinary, KindsArePlain, RulesAreOrdinary, RulesArePlain, Path04
  <1>8. Path(<<"for", "identifier", ":=", "Expression", "WhichWay", "Expression", "do", "Statement", "=ForStmt">>, <<>>, "Statement")
    BY <1>1, ActionsAreOrdinary, KindsAreOrdinary, KindsArePlain, RulesAreOrdinary, RulesArePlain, Path08
  <1>9. Path(<<"New", "(", "identifier", ")", "=New">>, <<>>, "Statement")
    BY <1>1, ActionsAreOrdinary, KindsAreOrdinary, KindsArePlain, RulesAreOrdinary, Path04
  <1>10. Path(<<"Dispose", "(", "identifier", ")", "=Dispose">>, <<>>, "Statement")
    BY <1>1, ActionsAreOrdinary, KindsAreOrdinary, KindsArePlain, RulesAreOrdinary, Path04
  <1>11. Path(<<"StatementSequence", "=first">>, <<>>, "Statement")
    BY <1>1, ActionsAreOrdinary, RulesAreOrdinary, RulesArePlain, Path01
  <1>12. Path(<<"=EmptyStmt">>, <<>>, "Statement")
    BY <1>1, ActionsAreOrdinary, RulesAreOrdinary, Path00
  <1>13. p = <<p[1], p[2]>> /\ p[1] = "Statement"
         /\ p[2] \in {<<"identifier", "AssignmentOrCall">>,
                     <<"if", "Expression", "then", "Statement", "ElseOpt">>,
                     <<"case", "Expression", "of", "CaseList", "end", "=CaseStmt">>,
                     <<"while", "Expression", "do", "Statement", "=WhileStmt">>,
                     <<"repeat", "StatementSequence", "until", "Expression", "=RepeatStmt">>,
                     <<"for", "identifier", ":=", "Expression", "WhichWay", "Expression", "do", "Statement", "=ForStmt">>,
                     <<"New", "(", "identifier", ")", "=New">>,
                     <<"Dispose", "(", "identifier", ")", "=Dispose">>,
                     <<"StatementSequence", "=first">>, <<"=EmptyStmt">>}
    BY PairsOfOneOf
  <1>14. Fine(p[1], p[2])
    BY <1>2, <1>3, <1>4, <1>5, <1>6, <1>7, <1>8, <1>9, <1>10, <1>11, <1>12, <1>13, PathFine
  <1> QED  BY <1>13, <1>14, RulesAreOrdinary DEF Fits

\* The alternatives of AssignmentOrCall.
LEMMA AssignmentOrCallFine ==
  ASSUME NEW p \in OneOf("AssignmentOrCall", {<<"DesignatorStuffOpt", "=Designator", ":=", "Expression", "=Assignment">>,
                                             <<"ActualParametersOpt", "=ProcCall">>})
  PROVE  Fits(p)
PROOF
  <1>1. /\ <<"=Designator", <<"identifier", "DesignatorStuffOpt">>, "Designator">> \in ActionSignatures
        /\ <<"=Assignment", <<"Designator", ":=", "Expression">>, "Statement">> \in ActionSignatures
        /\ <<"=ProcCall", <<"identifier", "ActualParametersOpt">>, "Statement">> \in ActionSignatures
    BY ZenonT(60) DEF ActionSignatures, StatementSignatures
  <1>2. From("AssignmentOrCall", <<"identifier">>, "Statement")
    BY RestFrom, ZenonT(60) DEF RestRules, RestSignatures
  <1>3. Path(<<"DesignatorStuffOpt", "=Designator", ":=", "Expression", "=Assignment">>, <<"identifier">>, "Statement")
    <2>1. Path(<<"DesignatorStuffOpt", "=Designator">>, <<"identifier">>, "Designator")
      BY <1>1, ActionsAreOrdinary, KindsAreOrdinary, RestsAreOrdinary, RulesAreOrdinary, RulesArePlain,
         Path11
    <2>2. Path(<<":=", "Expression", "=Assignment">>, <<"Designator">>, "Statement")
      BY <1>1, ActionsAreOrdinary, KindsAreOrdinary, KindsArePlain, RestsAreOrdinary, RulesAreOrdinary,
         RulesArePlain, Path12
    <2>3. <<"DesignatorStuffOpt", "=Designator">> \o <<":=", "Expression", "=Assignment">>
          = <<"DesignatorStuffOpt", "=Designator", ":=", "Expression", "=Assignment">>
      <3>1. /\ "DesignatorStuffOpt" \in Ordinary /\ "=Designator" \in Ordinary /\ ":=" \in Ordinary
            /\ "Expression" \in Ordinary /\ "=Assignment" \in Ordinary
        BY ActionsAreOrdinary, KindsAreOrdinary, RulesAreOrdinary
      <3> QED  BY <3>1, TupleCat23
    <2>4. "Designator" \in Ordinary
      BY RestsAreOrdinary
    <2> QED  BY <2>1, <2>2, <2>3, <2>4, PathCat
  <1>4. Path(<<"ActualParametersOpt", "=ProcCall">>, <<"identifier">>, "Statement")
    BY <1>1, ActionsAreOrdinary, KindsAreOrdinary, RulesAreOrdinary, RulesArePlain, Path11
  <1>5. p = <<p[1], p[2]>> /\ p[1] = "AssignmentOrCall"
         /\ p[2] \in {<<"DesignatorStuffOpt", "=Designator", ":=", "Expression", "=Assignment">>,
                     <<"ActualParametersOpt", "=ProcCall">>}
    BY PairsOfOneOf
  <1>6. Fine(p[1], p[2])
    BY <1>2, <1>3, <1>4, <1>5, PathFine
  <1> QED  BY <1>5, <1>6, RestsAreOrdinary DEF Fits

\* The alternatives of ActualParametersOpt.
LEMMA ActualParametersOptFine ==
  ASSUME NEW p \in Optional("ActualParametersOpt", <<"ActualParameters", "=first">>)
  PROVE  Fits(p)
PROOF
  <1>1. /\ <<"=first", <<"ActualParameters">>, "ActualParametersOpt">> \in ActionSignatures
        /\ <<"=empty", <<>>, "ActualParametersOpt">> \in ActionSignatures
    BY ZenonT(60) DEF ActionSignatures, StatementSignatures
  <1>2. Path(<<"ActualParameters", "=first">>, <<>>, "ActualParametersOpt")
    BY <1>1, ActionsAreOrdinary, RulesAreOrdinary, RulesArePlain, Path01
  <1> QED  BY <1>1, <1>2, RulesAreOrdinary, RulesArePlain, OptionalFine

\* The alternatives of ElseOpt: an else is part of the statement.
LEMMA ElseOptFine ==
  ASSUME NEW p \in OneOf("ElseOpt", {<<"else", "Statement", "=IfElse">>, <<"=IfThen">>})
  PROVE  Fits(p) \/ p = <<"ElseOpt", <<"=IfThen">>>>
PROOF
  <1> DEFINE begun == <<"if", "Expression", "then", "Statement">>
             whole == <<"if", "Expression", "then", "Statement", "else", "Statement">>
  <1>3. <<"=IfElse", whole, "Statement">> \in ActionSignatures
    BY ZenonT(60) DEF ActionSignatures, StatementSignatures
  <1>4. From("ElseOpt", begun, "Statement")
    BY RestFrom, ZenonT(60) DEF RestRules, RestSignatures
  <1>5. Path(<<"else", "Statement", "=IfElse">>, begun, "Statement")
    BY <1>3, KindsArePlain, RulesArePlain, KindsAreOrdinary, RulesAreOrdinary, ActionsAreOrdinary, Path42
  <1>6. p = <<p[1], p[2]>> /\ p[1] = "ElseOpt"
        /\ p[2] \in {<<"else", "Statement", "=IfElse">>, <<"=IfThen">>}
    BY PairsOfOneOf
  <1>7. Fine(p[1], p[2]) \/ p[2] = <<"=IfThen">>
    BY <1>4, <1>5, <1>6, PathFine
  <1> QED  BY <1>6, <1>7, RestsAreOrdinary DEF Fits

\* The alternatives of CaseList and CaseRest.
LEMMA CaseListFine ==
  ASSUME NEW p \in SeparatedRule("CaseList", "CaseRest", "Case", ";")
  PROVE  Fits(p)
PROOF
  <1>1. /\ <<"CaseRest", <<"Case">>, "CaseList">> \in RestSignatures
        /\ <<"=insert", <<"Case", ";", "CaseList">>, "CaseList">> \in ActionSignatures
        /\ <<"=vector", <<"Case">>, "CaseList">> \in ActionSignatures
    BY ZenonT(60) DEF ActionSignatures, RestSignatures, StatementSignatures
  <1>2. From("CaseRest", <<"Case">>, "CaseList")
    BY RestFrom, ZenonT(60) DEF RestRules, RestSignatures
  <1> QED  BY <1>1, <1>2, KindsAreOrdinary, KindsArePlain, RestsAreOrdinary, RulesAreOrdinary,
              RulesArePlain, SeparatedFine

\* The alternatives of Case.
LEMMA CaseFine ==
  ASSUME NEW p \in OneOf("Case", {<<"CaseLabelList", ":", "Statement", "=Case">>})
  PROVE  Fits(p)
PROOF
  <1>1. <<"=Case", <<"CaseLabelList", ":", "Statement">>, "Case">> \in ActionSignatures
    BY ZenonT(60) DEF ActionSignatures, StatementSignatures
  <1>2. From("Case", <<>>, "Case")
    BY RulesArePlain, PlainFrom
  <1>3. Path(<<"CaseLabelList", ":", "Statement", "=Case">>, <<>>, "Case")
    BY <1>1, ActionsAreOrdinary, KindsAreOrdinary, KindsArePlain, RulesAreOrdinary, RulesArePlain, Path03
  <1>4. p = <<p[1], p[2]>> /\ p[1] = "Case"
         /\ p[2] \in {<<"CaseLabelList", ":", "Statement", "=Case">>}
    BY PairsOfOneOf
  <1>5. Fine(p[1], p[2])
    BY <1>2, <1>3, <1>4, PathFine
  <1> QED  BY <1>4, <1>5, RulesAreOrdinary DEF Fits

\* The alternatives of CaseLabelList and CaseLabelRest.
LEMMA CaseLabelListFine ==
  ASSUME NEW p \in SeparatedRule("CaseLabelList", "CaseLabelRest", "ConstExpression", ",")
  PROVE  Fits(p)
PROOF
  <1>1. /\ <<"CaseLabelRest", <<"ConstExpression">>, "CaseLabelList">> \in RestSignatures
        /\ <<"=insert", <<"ConstExpression", ",", "CaseLabelList">>, "CaseLabelList">> \in ActionSignatures
        /\ <<"=vector", <<"ConstExpression">>, "CaseLabelList">> \in ActionSignatures
    BY ZenonT(60) DEF ActionSignatures, RestSignatures, StatementSignatures
  <1>2. From("CaseLabelRest", <<"ConstExpression">>, "CaseLabelList")
    BY RestFrom, ZenonT(60) DEF RestRules, RestSignatures
  <1> QED  BY <1>1, <1>2, KindsAreOrdinary, KindsArePlain, RestsAreOrdinary, RulesAreOrdinary,
              RulesArePlain, SeparatedFine

\* The alternatives of WhichWay.
LEMMA WhichWayFine ==
  ASSUME NEW p \in OneOf("WhichWay", {<<"to", "To">>, <<"downto", "DownTo">>})
  PROVE  Fits(p)
PROOF
  <1>1. /\ <<"To", <<"to">>, "WhichWay">> \in ActionSignatures
        /\ <<"DownTo", <<"downto">>, "WhichWay">> \in ActionSignatures
    BY ZenonT(60) DEF ActionSignatures, StatementSignatures
  <1>2. From("WhichWay", <<>>, "WhichWay")
    BY RulesArePlain, PlainFrom
  <1>3. Path(<<"to", "To">>, <<>>, "WhichWay")
    BY <1>1, ActionsAreOrdinary, KindsAreOrdinary, KindsArePlain, RulesAreOrdinary, Path01
  <1>4. Path(<<"downto", "DownTo">>, <<>>, "WhichWay")
    BY <1>1, ActionsAreOrdinary, KindsAreOrdinary, KindsArePlain, RulesAreOrdinary, Path01
  <1>5. p = <<p[1], p[2]>> /\ p[1] = "WhichWay"
         /\ p[2] \in {<<"to", "To">>, <<"downto", "DownTo">>}
    BY PairsOfOneOf
  <1>6. Fine(p[1], p[2])
    BY <1>2, <1>3, <1>4, <1>5, PathFine
  <1> QED  BY <1>5, <1>6, RulesAreOrdinary DEF Fits

\* The alternatives of DesignatorStuffOpt.
LEMMA DesignatorStuffOptFine ==
  ASSUME NEW p \in Optional("DesignatorStuffOpt", <<"DesignatorStuff", "=first">>)
  PROVE  Fits(p)
PROOF
  <1>1. /\ <<"=first", <<"DesignatorStuff">>, "DesignatorStuffOpt">> \in ActionSignatures
        /\ <<"=empty", <<>>, "DesignatorStuffOpt">> \in ActionSignatures
    BY ZenonT(60) DEF ActionSignatures, ExpressionSignatures
  <1>2. Path(<<"DesignatorStuff", "=first">>, <<>>, "DesignatorStuffOpt")
    BY <1>1, ActionsAreOrdinary, RulesAreOrdinary, RulesArePlain, Path01
  <1> QED  BY <1>1, <1>2, RulesAreOrdinary, RulesArePlain, OptionalFine

\* The alternatives of DesignatorStuff and DesignatorRest.
LEMMA DesignatorStuffFine ==
  ASSUME NEW p \in RepeatedRule("DesignatorStuff", "DesignatorRest", "DesignatorItem")
  PROVE  Fits(p)
PROOF
  <1>1. /\ <<"DesignatorRest", <<"DesignatorItem">>, "DesignatorStuff">> \in RestSignatures
        /\ <<"=prepend", <<"DesignatorItem", "DesignatorStuff">>, "DesignatorStuff">> \in ActionSignatures
        /\ <<"=vector", <<"DesignatorItem">>, "DesignatorStuff">> \in ActionSignatures
    BY ZenonT(60) DEF ActionSignatures, RestSignatures, ExpressionSignatures
  <1>2. From("DesignatorRest", <<"DesignatorItem">>, "DesignatorStuff")
    BY RestFrom, ZenonT(60) DEF RestRules, RestSignatures
  <1> QED  BY <1>1, <1>2, RestsAreOrdinary, RulesAreOrdinary, RulesArePlain, RepeatedFine

\* The alternatives of DesignatorItem.
LEMMA DesignatorItemFine ==
  ASSUME NEW p \in OneOf("DesignatorItem", {<<".", "identifier", "=FieldAccess">>,
                                           <<"[", "ExpList", "]", "=ArrayAccess">>,
                                           <<"^", "=PointerAccess">>})
  PROVE  Fits(p)
PROOF
  <1>1. /\ <<"=FieldAccess", <<".", "identifier">>, "DesignatorItem">> \in ActionSignatures
        /\ <<"=ArrayAccess", <<"[", "ExpList", "]">>, "DesignatorItem">> \in ActionSignatures
        /\ <<"=PointerAccess", <<"^">>, "DesignatorItem">> \in ActionSignatures
    BY ZenonT(60) DEF ActionSignatures, ExpressionSignatures
  <1>2. From("DesignatorItem", <<>>, "DesignatorItem")
    BY RulesArePlain, PlainFrom
  <1>3. Path(<<".", "identifier", "=FieldAccess">>, <<>>, "DesignatorItem")
    BY <1>1, ActionsAreOrdinary, KindsAreOrdinary, KindsArePlain, RulesAreOrdinary, Path02
  <1>4. Path(<<"[", "ExpList", "]", "=ArrayAccess">>, <<>>, "DesignatorItem")
    BY <1>1, ActionsAreOrdinary, KindsAreOrdinary, KindsArePlain, RulesAreOrdinary, RulesArePlain, Path03
  <1>5. Path(<<"^", "=PointerAccess">>, <<>>, "DesignatorItem")
    BY <1>1, ActionsAreOrdinary, KindsAreOrdinary, KindsArePlain, RulesAreOrdinary, Path01
  <1>6. p = <<p[1], p[2]>> /\ p[1] = "DesignatorItem"
         /\ p[2] \in {<<".", "identifier", "=FieldAccess">>, <<"[", "ExpList", "]", "=ArrayAccess">>,
                     <<"^", "=PointerAccess">>}
    BY PairsOfOneOf
  <1>7. Fine(p[1], p[2])
    BY <1>2, <1>3, <1>4, <1>5, <1>6, PathFine
  <1> QED  BY <1>6, <1>7, RulesAreOrdinary DEF Fits

\* The alternatives of ActualParameters.
LEMMA ActualParametersFine ==
  ASSUME NEW p \in OneOf("ActualParameters", {<<"(", "ExpListOpt", ")", "=inner">>})
  PROVE  Fits(p)
PROOF
  <1>1. <<"=inner", <<"(", "ExpListOpt", ")">>, "ActualParameters">> \in ActionSignatures
    BY ZenonT(60) DEF ActionSignatures, ExpressionSignatures
  <1>2. From("ActualParameters", <<>>, "ActualParameters")
    BY RulesArePlain, PlainFrom
  <1>3. Path(<<"(", "ExpListOpt", ")", "=inner">>, <<>>, "ActualParameters")
    BY <1>1, ActionsAreOrdinary, KindsAreOrdinary, KindsArePlain, RulesAreOrdinary, RulesArePlain, Path03
  <1>4. p = <<p[1], p[2]>> /\ p[1] = "ActualParameters"
         /\ p[2] \in {<<"(", "ExpListOpt", ")", "=inner">>}
    BY PairsOfOneOf
  <1>5. Fine(p[1], p[2])
    BY <1>2, <1>3, <1>4, PathFine
  <1> QED  BY <1>4, <1>5, RulesAreOrdinary DEF Fits

\* The alternatives of ExpListOpt.
LEMMA ExpListOptFine ==
  ASSUME NEW p \in Optional("ExpListOpt", <<"ExpList", "=first">>)
  PROVE  Fits(p)
PROOF
  <1>1. /\ <<"=first", <<"ExpList">>, "ExpListOpt">> \in ActionSignatures
        /\ <<"=empty", <<>>, "ExpListOpt">> \in ActionSignatures
    BY ZenonT(60) DEF ActionSignatures, ExpressionSignatures
  <1>2. Path(<<"ExpList", "=first">>, <<>>, "ExpListOpt")
    BY <1>1, ActionsAreOrdinary, RulesAreOrdinary, RulesArePlain, Path01
  <1> QED  BY <1>1, <1>2, RulesAreOrdinary, RulesArePlain, OptionalFine

\* The alternatives of ExpList and ExpListRest.
LEMMA ExpListFine ==
  ASSUME NEW p \in SeparatedRule("ExpList", "ExpListRest", "Expression", ",")
  PROVE  Fits(p)
PROOF
  <1>1. /\ <<"ExpListRest", <<"Expression">>, "ExpList">> \in RestSignatures
        /\ <<"=insert", <<"Expression", ",", "ExpList">>, "ExpList">> \in ActionSignatures
        /\ <<"=vector", <<"Expression">>, "ExpList">> \in ActionSignatures
    BY ZenonT(60) DEF ActionSignatures, RestSignatures, ExpressionSignatures
  <1>2. From("ExpListRest", <<"Expression">>, "ExpList")
    BY RestFrom, ZenonT(60) DEF RestRules, RestSignatures
  <1> QED  BY <1>1, <1>2, KindsAreOrdinary, KindsArePlain, RestsAreOrdinary, RulesAreOrdinary,
              RulesArePlain, SeparatedFine

\* The alternatives of Expression.
LEMMA ExpressionFine ==
  ASSUME NEW p \in OneOf("Expression", {<<"SimpleExpression", "RelationOpt">>})
  PROVE  Fits(p)
PROOF
  <1>1. <<"RelationOpt", <<"SimpleExpression">>, "Expression">> \in RestSignatures
    BY ZenonT(60) DEF RestSignatures
  <1>2. From("Expression", <<>>, "Expression")
    BY RulesArePlain, PlainFrom
  <1>3. Path(<<"SimpleExpression", "RelationOpt">>, <<>>, "Expression")
    BY <1>1, RestsAreOrdinary, RulesAreOrdinary, RulesArePlain, Path01
  <1>4. p = <<p[1], p[2]>> /\ p[1] = "Expression"
         /\ p[2] \in {<<"SimpleExpression", "RelationOpt">>}
    BY PairsOfOneOf
  <1>5. Fine(p[1], p[2])
    BY <1>2, <1>3, <1>4, PathFine
  <1> QED  BY <1>4, <1>5, RulesAreOrdinary DEF Fits

\* The alternatives of RelationOpt.
LEMMA RelationOptFine ==
  ASSUME NEW p \in OneOf("RelationOpt", {<<"Relation", "SimpleExpression", "=Relation">>, <<"=Expr">>})
  PROVE  Fits(p)
PROOF
  <1>1. /\ <<"=Relation", <<"SimpleExpression", "Relation", "SimpleExpression">>, "Expression">> \in ActionSignatures
        /\ <<"=Expr", <<"SimpleExpression">>, "Expression">> \in ActionSignatures
    BY ZenonT(60) DEF ActionSignatures, ExpressionSignatures
  <1>2. From("RelationOpt", <<"SimpleExpression">>, "Expression")
    BY RestFrom, ZenonT(60) DEF RestRules, RestSignatures
  <1>3. Path(<<"Relation", "SimpleExpression", "=Relation">>, <<"SimpleExpression">>, "Expression")
    BY <1>1, ActionsAreOrdinary, RulesAreOrdinary, RulesArePlain, Path12
  <1>4. Path(<<"=Expr">>, <<"SimpleExpression">>, "Expression")
    BY <1>1, ActionsAreOrdinary, RulesAreOrdinary, Path10
  <1>5. p = <<p[1], p[2]>> /\ p[1] = "RelationOpt"
         /\ p[2] \in {<<"Relation", "SimpleExpression", "=Relation">>, <<"=Expr">>}
    BY PairsOfOneOf
  <1>6. Fine(p[1], p[2])
    BY <1>2, <1>3, <1>4, <1>5, PathFine
  <1> QED  BY <1>5, <1>6, RestsAreOrdinary DEF Fits

\* The alternatives of SimpleExpression.
LEMMA SimpleExpressionFine ==
  ASSUME NEW p \in OneOf("SimpleExpression", {<<"SignOpt", "TermList", "=SimpleExpr">>})
  PROVE  Fits(p)
PROOF
  <1>1. <<"=SimpleExpr", <<"SignOpt", "TermList">>, "SimpleExpression">> \in ActionSignatures
    BY ZenonT(60) DEF ActionSignatures, ExpressionSignatures
  <1>2. From("SimpleExpression", <<>>, "SimpleExpression")
    BY RulesArePlain, PlainFrom
  <1>3. Path(<<"SignOpt", "TermList", "=SimpleExpr">>, <<>>, "SimpleExpression")
    BY <1>1, ActionsAreOrdinary, RulesAreOrdinary, RulesArePlain, Path02
  <1>4. p = <<p[1], p[2]>> /\ p[1] = "SimpleExpression"
         /\ p[2] \in {<<"SignOpt", "TermList", "=SimpleExpr">>}
    BY PairsOfOneOf
  <1>5. Fine(p[1], p[2])
    BY <1>2, <1>3, <1>4, PathFine
  <1> QED  BY <1>4, <1>5, RulesAreOrdinary DEF Fits

\* The alternatives of TermList.
LEMMA TermListFine ==
  ASSUME NEW p \in OneOf("TermList", {<<"Term", "TermListRest">>})
  PROVE  Fits(p)
PROOF
  <1>1. <<"TermListRest", <<"Term">>, "TermList">> \in RestSignatures
    BY ZenonT(60) DEF RestSignatures
  <1>2. From("TermList", <<>>, "TermList")
    BY RulesArePlain, PlainFrom
  <1>3. Path(<<"Term", "TermListRest">>, <<>>, "TermList")
    BY <1>1, RestsAreOrdinary, RulesAreOrdinary, RulesArePlain, Path01
  <1>4. p = <<p[1], p[2]>> /\ p[1] = "TermList"
         /\ p[2] \in {<<"Term", "TermListRest">>}
    BY PairsOfOneOf
  <1>5. Fine(p[1], p[2])
    BY <1>2, <1>3, <1>4, PathFine
  <1> QED  BY <1>4, <1>5, RulesAreOrdinary DEF Fits

\* The alternatives of TermListRest.
LEMMA TermListRestFine ==
  ASSUME NEW p \in OneOf("TermListRest", {<<"AddOperator", "TermList", "=inserts">>, <<"=vectors">>})
  PROVE  Fits(p)
PROOF
  <1>1. /\ <<"=inserts", <<"Term", "AddOperator", "TermList">>, "TermList">> \in ActionSignatures
        /\ <<"=vectors", <<"Term">>, "TermList">> \in ActionSignatures
    BY ZenonT(60) DEF ActionSignatures, ExpressionSignatures
  <1>2. From("TermListRest", <<"Term">>, "TermList")
    BY RestFrom, ZenonT(60) DEF RestRules, RestSignatures
  <1>3. Path(<<"AddOperator", "TermList", "=inserts">>, <<"Term">>, "TermList")
    BY <1>1, ActionsAreOrdinary, RulesAreOrdinary, RulesArePlain, Path12
  <1>4. Path(<<"=vectors">>, <<"Term">>, "TermList")
    BY <1>1, ActionsAreOrdinary, RulesAreOrdinary, Path10
  <1>5. p = <<p[1], p[2]>> /\ p[1] = "TermListRest"
         /\ p[2] \in {<<"AddOperator", "TermList", "=inserts">>, <<"=vectors">>}
    BY PairsOfOneOf
  <1>6. Fine(p[1], p[2])
    BY <1>2, <1>3, <1>4, <1>5, PathFine
  <1> QED  BY <1>5, <1>6, RestsAreOrdinary DEF Fits

\* The alternatives of Term.
LEMMA TermFine ==
  ASSUME NEW p \in OneOf("Term", {<<"FactorList", "=Term">>})
  PROVE  Fits(p)
PROOF
  <1>1. <<"=Term", <<"FactorList">>, "Term">> \in ActionSignatures
    BY ZenonT(60) DEF ActionSignatures, ExpressionSignatures
  <1>2. From("Term", <<>>, "Term")
    BY RulesArePlain, PlainFrom
  <1>3. Path(<<"FactorList", "=Term">>, <<>>, "Term")
    BY <1>1, ActionsAreOrdinary, RulesAreOrdinary, RulesArePlain, Path01
  <1>4. p = <<p[1], p[2]>> /\ p[1] = "Term"
         /\ p[2] \in {<<"FactorList", "=Term">>}
    BY PairsOfOneOf
  <1>5. Fine(p[1], p[2])
    BY <1>2, <1>3, <1>4, PathFine
  <1> QED  BY <1>4, <1>5, RulesAreOrdinary DEF Fits

\* The alternatives of FactorList.
LEMMA FactorListFine ==
  ASSUME NEW p \in OneOf("FactorList", {<<"Factor", "FactorListRest">>})
  PROVE  Fits(p)
PROOF
  <1>1. <<"FactorListRest", <<"Factor">>, "FactorList">> \in RestSignatures
    BY ZenonT(60) DEF RestSignatures
  <1>2. From("FactorList", <<>>, "FactorList")
    BY RulesArePlain, PlainFrom
  <1>3. Path(<<"Factor", "FactorListRest">>, <<>>, "FactorList")
    BY <1>1, RestsAreOrdinary, RulesAreOrdinary, RulesArePlain, Path01
  <1>4. p = <<p[1], p[2]>> /\ p[1] = "FactorList"
         /\ p[2] \in {<<"Factor", "FactorListRest">>}
    BY PairsOfOneOf
  <1>5. Fine(p[1], p[2])
    BY <1>2, <1>3, <1>4, PathFine
  <1> QED  BY <1>4, <1>5, RulesAreOrdinary DEF Fits

\* The alternatives of FactorListRest.
LEMMA FactorListRestFine ==
  ASSUME NEW p \in OneOf("FactorListRest", {<<"MultOperator", "FactorList", "=inserts">>,
                                           <<"=vectors">>})
  PROVE  Fits(p)
PROOF
  <1>1. /\ <<"=inserts", <<"Factor", "MultOperator", "FactorList">>, "FactorList">> \in ActionSignatures
        /\ <<"=vectors", <<"Factor">>, "FactorList">> \in ActionSignatures
    BY ZenonT(60) DEF ActionSignatures, ExpressionSignatures
  <1>2. From("FactorListRest", <<"Factor">>, "FactorList")
    BY RestFrom, ZenonT(60) DEF RestRules, RestSignatures
  <1>3. Path(<<"MultOperator", "FactorList", "=inserts">>, <<"Factor">>, "FactorList")
    BY <1>1, ActionsAreOrdinary, RulesAreOrdinary, RulesArePlain, Path12
  <1>4. Path(<<"=vectors">>, <<"Factor">>, "FactorList")
    BY <1>1, ActionsAreOrdinary, RulesAreOrdinary, Path10
  <1>5. p = <<p[1], p[2]>> /\ p[1] = "FactorListRest"
         /\ p[2] \in {<<"MultOperator", "FactorList", "=inserts">>, <<"=vectors">>}
    BY PairsOfOneOf
  <1>6. Fine(p[1], p[2])
    BY <1>2, <1>3, <1>4, <1>5, PathFine
  <1> QED  BY <1>5, <1>6, RestsAreOrdinary DEF Fits

\* The alternatives of Factor.
LEMMA FactorFine ==
  ASSUME NEW p \in OneOf("Factor", {<<"number", "=Number">>, <<"string", "=String">>,
                                   <<"True", "=True">>, <<"False", "=False">>, <<"nil", "=Nil">>,
                                   <<"identifier", "DesignatorOrCall">>,
                                   <<"(", "Expression", ")", "=Paren">>,
                                   <<"not", "Factor", "=Negation">>,
                                   <<"[", "ElementListOpt", "]", "=throw">>})
  PROVE  Fits(p)
PROOF
  <1>1. /\ <<"=Number", <<"number">>, "Factor">> \in ActionSignatures
        /\ <<"=String", <<"string">>, "Factor">> \in ActionSignatures
        /\ <<"=True", <<"True">>, "Factor">> \in ActionSignatures
        /\ <<"=False", <<"False">>, "Factor">> \in ActionSignatures
        /\ <<"=Nil", <<"nil">>, "Factor">> \in ActionSignatures
        /\ <<"DesignatorOrCall", <<"identifier">>, "Factor">> \in RestSignatures
        /\ <<"=Paren", <<"(", "Expression", ")">>, "Factor">> \in ActionSignatures
        /\ <<"=Negation", <<"not", "Factor">>, "Factor">> \in ActionSignatures
    BY ZenonT(60) DEF ActionSignatures, ExpressionSignatures, RestSignatures
  <1>2. From("Factor", <<>>, "Factor")
    BY RulesArePlain, PlainFrom
  <1>3. Path(<<"number", "=Number">>, <<>>, "Factor")
    BY <1>1, ActionsAreOrdinary, KindsAreOrdinary, KindsArePlain, RulesAreOrdinary, Path01
  <1>4. Path(<<"string", "=String">>, <<>>, "Factor")
    BY <1>1, ActionsAreOrdinary, KindsAreOrdinary, KindsArePlain, RulesAreOrdinary, Path01
  <1>5. Path(<<"True", "=True">>, <<>>, "Factor")
    BY <1>1, ActionsAreOrdinary, KindsAreOrdinary, KindsArePlain, RulesAreOrdinary, Path01
  <1>6. Path(<<"False", "=False">>, <<>>, "Factor")
    BY <1>1, ActionsAreOrdinary, KindsAreOrdinary, KindsArePlain, RulesAreOrdinary, Path01
  <1>7. Path(<<"nil", "=Nil">>, <<>>, "Factor")
    BY <1>1, ActionsAreOrdinary, KindsAreOrdinary, KindsArePlain, RulesAreOrdinary, Path01
  <1>8. Path(<<"identifier", "DesignatorOrCall">>, <<>>, "Factor")
    BY <1>1, KindsAreOrdinary, KindsArePlain, RestsAreOrdinary, RulesAreOrdinary, Path01
  <1>9. Path(<<"(", "Expression", ")", "=Paren">>, <<>>, "Factor")
    BY <1>1, ActionsAreOrdinary, KindsAreOrdinary, KindsArePlain, RulesAreOrdinary, RulesArePlain, Path03
  <1>10. Path(<<"not", "Factor", "=Negation">>, <<>>, "Factor")
    BY <1>1, ActionsAreOrdinary, KindsAreOrdinary, KindsArePlain, RulesAreOrdinary, RulesArePlain, Path02
  <1>11. Path(<<"[", "ElementListOpt", "]", "=throw">>, <<>>, "Factor")
    BY KindsAreOrdinary, KindsArePlain, RulesAreOrdinary, RulesArePlain, Throw03
  <1>12. p = <<p[1], p[2]>> /\ p[1] = "Factor"
         /\ p[2] \in {<<"number", "=Number">>, <<"string", "=String">>, <<"True", "=True">>,
                     <<"False", "=False">>, <<"nil", "=Nil">>, <<"identifier", "DesignatorOrCall">>,
                     <<"(", "Expression", ")", "=Paren">>, <<"not", "Factor", "=Negation">>,
                     <<"[", "ElementListOpt", "]", "=throw">>}
    BY PairsOfOneOf
  <1>13. Fine(p[1], p[2])
    BY <1>2, <1>3, <1>4, <1>5, <1>6, <1>7, <1>8, <1>9, <1>10, <1>11, <1>12, PathFine
  <1> QED  BY <1>12, <1>13, RulesAreOrdinary DEF Fits

\* The alternatives of DesignatorOrCall.
LEMMA DesignatorOrCallFine ==
  ASSUME NEW p \in OneOf("DesignatorOrCall", {<<"ActualParameters", "=FuncCall">>,
                                             <<"DesignatorStuffOpt", "=Designator", "=first">>})
  PROVE  Fits(p)
PROOF
  <1>1. /\ <<"=FuncCall", <<"identifier", "ActualParameters">>, "Factor">> \in ActionSignatures
        /\ <<"=Designator", <<"identifier", "DesignatorStuffOpt">>, "Designator">> \in ActionSignatures
        /\ <<"=first", <<"Designator">>, "Factor">> \in ActionSignatures
    BY ZenonT(60) DEF ActionSignatures, ExpressionSignatures, StatementSignatures
  <1>2. From("DesignatorOrCall", <<"identifier">>, "Factor")
    BY RestFrom, ZenonT(60) DEF RestRules, RestSignatures
  <1>3. Path(<<"ActualParameters", "=FuncCall">>, <<"identifier">>, "Factor")
    BY <1>1, ActionsAreOrdinary, KindsAreOrdinary, RulesAreOrdinary, RulesArePlain, Path11
  <1>4. Path(<<"DesignatorStuffOpt", "=Designator", "=first">>, <<"identifier">>, "Factor")
    <2>1. Path(<<"DesignatorStuffOpt", "=Designator">>, <<"identifier">>, "Designator")
      BY <1>1, ActionsAreOrdinary, KindsAreOrdinary, RestsAreOrdinary, RulesAreOrdinary, RulesArePlain,
         Path11
    <2>2. Path(<<"=first">>, <<"Designator">>, "Factor")
      BY <1>1, ActionsAreOrdinary, RestsAreOrdinary, RulesAreOrdinary, Path10
    <2>3. <<"DesignatorStuffOpt", "=Designator">> \o <<"=first">>
          = <<"DesignatorStuffOpt", "=Designator", "=first">>
      <3>1. /\ "DesignatorStuffOpt" \in Ordinary /\ "=Designator" \in Ordinary /\ "=first" \in Ordinary
        BY ActionsAreOrdinary, RulesAreOrdinary
      <3> QED  BY <3>1, TupleCat21
    <2>4. "Designator" \in Ordinary
      BY RestsAreOrdinary
    <2> QED  BY <2>1, <2>2, <2>3, <2>4, PathCat
  <1>5. p = <<p[1], p[2]>> /\ p[1] = "DesignatorOrCall"
         /\ p[2] \in {<<"ActualParameters", "=FuncCall">>,
                     <<"DesignatorStuffOpt", "=Designator", "=first">>}
    BY PairsOfOneOf
  <1>6. Fine(p[1], p[2])
    BY <1>2, <1>3, <1>4, <1>5, PathFine
  <1> QED  BY <1>5, <1>6, RestsAreOrdinary DEF Fits

\* The alternatives of ElementListOpt.
LEMMA ElementListOptFine ==
  ASSUME NEW p \in Optional("ElementListOpt", <<"ElementList", "=first">>)
  PROVE  Fits(p)
PROOF
  <1>1. /\ <<"=first", <<"ElementList">>, "ElementListOpt">> \in ActionSignatures
        /\ <<"=empty", <<>>, "ElementListOpt">> \in ActionSignatures
    BY ZenonT(60) DEF ActionSignatures, ExpressionSignatures
  <1>2. Path(<<"ElementList", "=first">>, <<>>, "ElementListOpt")
    BY <1>1, ActionsAreOrdinary, RulesAreOrdinary, RulesArePlain, Path01
  <1> QED  BY <1>1, <1>2, RulesAreOrdinary, RulesArePlain, OptionalFine

\* The alternatives of ElementList and ElementListRest.
LEMMA ElementListFine ==
  ASSUME NEW p \in SeparatedRule("ElementList", "ElementListRest", "Element", ",")
  PROVE  Fits(p)
PROOF
  <1>1. /\ <<"ElementListRest", <<"Element">>, "ElementList">> \in RestSignatures
        /\ <<"=insert", <<"Element", ",", "ElementList">>, "ElementList">> \in ActionSignatures
        /\ <<"=vector", <<"Element">>, "ElementList">> \in ActionSignatures
    BY ZenonT(60) DEF ActionSignatures, RestSignatures, ExpressionSignatures
  <1>2. From("ElementListRest", <<"Element">>, "ElementList")
    BY RestFrom, ZenonT(60) DEF RestRules, RestSignatures
  <1> QED  BY <1>1, <1>2, KindsAreOrdinary, KindsArePlain, RestsAreOrdinary, RulesAreOrdinary,
              RulesArePlain, SeparatedFine

\* The alternatives of Element.
LEMMA ElementFine ==
  ASSUME NEW p \in OneOf("Element", {<<"ConstExpression", "ElementRest">>})
  PROVE  Fits(p)
PROOF
  <1>1. <<"ElementRest", <<"ConstExpression">>, "Element">> \in RestSignatures
    BY ZenonT(60) DEF RestSignatures
  <1>2. From("Element", <<>>, "Element")
    BY RulesArePlain, PlainFrom
  <1>3. Path(<<"ConstExpression", "ElementRest">>, <<>>, "Element")
    BY <1>1, RestsAreOrdinary, RulesAreOrdinary, RulesArePlain, Path01
  <1>4. p = <<p[1], p[2]>> /\ p[1] = "Element"
         /\ p[2] \in {<<"ConstExpression", "ElementRest">>}
    BY PairsOfOneOf
  <1>5. Fine(p[1], p[2])
    BY <1>2, <1>3, <1>4, PathFine
  <1> QED  BY <1>4, <1>5, RulesAreOrdinary DEF Fits

\* The alternatives of ElementRest.
LEMMA ElementRestFine ==
  ASSUME NEW p \in OneOf("ElementRest", {<<"..", "ConstExpression", "=pair">>, <<"=first">>})
  PROVE  Fits(p)
PROOF
  <1>1. /\ <<"=pair", <<"ConstExpression", "..", "ConstExpression">>, "Element">> \in ActionSignatures
        /\ <<"=first", <<"ConstExpression">>, "Element">> \in ActionSignatures
    BY ZenonT(60) DEF ActionSignatures, ExpressionSignatures
  <1>2. From("ElementRest", <<"ConstExpression">>, "Element")
    BY RestFrom, ZenonT(60) DEF RestRules, RestSignatures
  <1>3. Path(<<"..", "ConstExpression", "=pair">>, <<"ConstExpression">>, "Element")
    BY <1>1, ActionsAreOrdinary, KindsAreOrdinary, KindsArePlain, RulesAreOrdinary, RulesArePlain, Path12
  <1>4. Path(<<"=first">>, <<"ConstExpression">>, "Element")
    BY <1>1, ActionsAreOrdinary, RulesAreOrdinary, Path10
  <1>5. p = <<p[1], p[2]>> /\ p[1] = "ElementRest"
         /\ p[2] \in {<<"..", "ConstExpression", "=pair">>, <<"=first">>}
    BY PairsOfOneOf
  <1>6. Fine(p[1], p[2])
    BY <1>2, <1>3, <1>4, <1>5, PathFine
  <1> QED  BY <1>5, <1>6, RestsAreOrdinary DEF Fits

\* The alternatives of MultOperator.
LEMMA MultOperatorFine ==
  ASSUME NEW p \in OneOf("MultOperator", {<<"*", "Multiply">>, <<"/", "RealDiv">>,
                                         <<"div", "IntDiv">>, <<"mod", "Modulo">>, <<"and", "And">>})
  PROVE  Fits(p)
PROOF
  <1>1. /\ <<"Multiply", <<"*">>, "MultOperator">> \in ActionSignatures
        /\ <<"RealDiv", <<"/">>, "MultOperator">> \in ActionSignatures
        /\ <<"IntDiv", <<"div">>, "MultOperator">> \in ActionSignatures
        /\ <<"Modulo", <<"mod">>, "MultOperator">> \in ActionSignatures
        /\ <<"And", <<"and">>, "MultOperator">> \in ActionSignatures
    BY ZenonT(60) DEF ActionSignatures, ExpressionSignatures
  <1>2. From("MultOperator", <<>>, "MultOperator")
    BY RulesArePlain, PlainFrom
  <1>3. Path(<<"*", "Multiply">>, <<>>, "MultOperator")
    BY <1>1, ActionsAreOrdinary, KindsAreOrdinary, KindsArePlain, RulesAreOrdinary, Path01
  <1>4. Path(<<"/", "RealDiv">>, <<>>, "MultOperator")
    BY <1>1, ActionsAreOrdinary, KindsAreOrdinary, KindsArePlain, RulesAreOrdinary, Path01
  <1>5. Path(<<"div", "IntDiv">>, <<>>, "MultOperator")
    BY <1>1, ActionsAreOrdinary, KindsAreOrdinary, KindsArePlain, RulesAreOrdinary, Path01
  <1>6. Path(<<"mod", "Modulo">>, <<>>, "MultOperator")
    BY <1>1, ActionsAreOrdinary, KindsAreOrdinary, KindsArePlain, RulesAreOrdinary, Path01
  <1>7. Path(<<"and", "And">>, <<>>, "MultOperator")
    BY <1>1, ActionsAreOrdinary, KindsAreOrdinary, KindsArePlain, RulesAreOrdinary, Path01
  <1>8. p = <<p[1], p[2]>> /\ p[1] = "MultOperator"
         /\ p[2] \in {<<"*", "Multiply">>, <<"/", "RealDiv">>, <<"div", "IntDiv">>,
                     <<"mod", "Modulo">>, <<"and", "And">>}
    BY PairsOfOneOf
  <1>9. Fine(p[1], p[2])
    BY <1>2, <1>3, <1>4, <1>5, <1>6, <1>7, <1>8, PathFine
  <1> QED  BY <1>8, <1>9, RulesAreOrdinary DEF Fits

\* The alternatives of AddOperator.
LEMMA AddOperatorFine ==
  ASSUME NEW p \in OneOf("AddOperator", {<<"+", "Plus">>, <<"-", "Minus">>, <<"or", "Or">>})
  PROVE  Fits(p)
PROOF
  <1>1. /\ <<"Plus", <<"+">>, "AddOperator">> \in ActionSignatures
        /\ <<"Minus", <<"-">>, "AddOperator">> \in ActionSignatures
        /\ <<"Or", <<"or">>, "AddOperator">> \in ActionSignatures
    BY ZenonT(60) DEF ActionSignatures, ExpressionSignatures
  <1>2. From("AddOperator", <<>>, "AddOperator")
    BY RulesArePlain, PlainFrom
  <1>3. Path(<<"+", "Plus">>, <<>>, "AddOperator")
    BY <1>1, ActionsAreOrdinary, KindsAreOrdinary, KindsArePlain, RulesAreOrdinary, Path01
  <1>4. Path(<<"-", "Minus">>, <<>>, "AddOperator")
    BY <1>1, ActionsAreOrdinary, KindsAreOrdinary, KindsArePlain, RulesAreOrdinary, Path01
  <1>5. Path(<<"or", "Or">>, <<>>, "AddOperator")
    BY <1>1, ActionsAreOrdinary, KindsAreOrdinary, KindsArePlain, RulesAreOrdinary, Path01
  <1>6. p = <<p[1], p[2]>> /\ p[1] = "AddOperator"
         /\ p[2] \in {<<"+", "Plus">>, <<"-", "Minus">>, <<"or", "Or">>}
    BY PairsOfOneOf
  <1>7. Fine(p[1], p[2])
    BY <1>2, <1>3, <1>4, <1>5, <1>6, PathFine
  <1> QED  BY <1>6, <1>7, RulesAreOrdinary DEF Fits

\* The alternatives of Relation.
LEMMA RelationFine ==
  ASSUME NEW p \in OneOf("Relation", {<<"=", "Equal">>, <<"<>", "NotEqual">>, <<"<", "Less">>,
                                     <<">", "Greater">>, <<"<=", "LessEqual">>,
                                     <<">=", "GreaterEqual">>, <<"in", "In">>})
  PROVE  Fits(p)
PROOF
  <1>1. /\ <<"Equal", <<"=">>, "Relation">> \in ActionSignatures
        /\ <<"NotEqual", <<"<>">>, "Relation">> \in ActionSignatures
        /\ <<"Less", <<"<">>, "Relation">> \in ActionSignatures
        /\ <<"Greater", <<">">>, "Relation">> \in ActionSignatures
        /\ <<"LessEqual", <<"<=">>, "Relation">> \in ActionSignatures
        /\ <<"GreaterEqual", <<">=">>, "Relation">> \in ActionSignatures
        /\ <<"In", <<"in">>, "Relation">> \in ActionSignatures
    BY ZenonT(60) DEF ActionSignatures, ExpressionSignatures
  <1>2. From("Relation", <<>>, "Relation")
    BY RulesArePlain, PlainFrom
  <1>3. Path(<<"=", "Equal">>, <<>>, "Relation")
    BY <1>1, ActionsAreOrdinary, KindsAreOrdinary, KindsArePlain, RulesAreOrdinary, Path01
  <1>4. Path(<<"<>", "NotEqual">>, <<>>, "Relation")
    BY <1>1, ActionsAreOrdinary, KindsAreOrdinary, KindsArePlain, RulesAreOrdinary, Path01
  <1>5. Path(<<"<", "Less">>, <<>>, "Relation")
    BY <1>1, ActionsAreOrdinary, KindsAreOrdinary, KindsArePlain, RulesAreOrdinary, Path01
  <1>6. Path(<<">", "Greater">>, <<>>, "Relation")
    BY <1>1, ActionsAreOrdinary, KindsAreOrdinary, KindsArePlain, RulesAreOrdinary, Path01
  <1>7. Path(<<"<=", "LessEqual">>, <<>>, "Relation")
    BY <1>1, ActionsAreOrdinary, KindsAreOrdinary, KindsArePlain, RulesAreOrdinary, Path01
  <1>8. Path(<<">=", "GreaterEqual">>, <<>>, "Relation")
    BY <1>1, ActionsAreOrdinary, KindsAreOrdinary, KindsArePlain, RulesAreOrdinary, Path01
  <1>9. Path(<<"in", "In">>, <<>>, "Relation")
    BY <1>1, ActionsAreOrdinary, KindsAreOrdinary, KindsArePlain, RulesAreOrdinary, Path01
  <1>10. p = <<p[1], p[2]>> /\ p[1] = "Relation"
         /\ p[2] \in {<<"=", "Equal">>, <<"<>", "NotEqual">>, <<"<", "Less">>, <<">", "Greater">>,
                     <<"<=", "LessEqual">>, <<">=", "GreaterEqual">>, <<"in", "In">>}
    BY PairsOfOneOf
  <1>11. Fine(p[1], p[2])
    BY <1>2, <1>3, <1>4, <1>5, <1>6, <1>7, <1>8, <1>9, <1>10, PathFine
  <1> QED  BY <1>10, <1>11, RulesAreOrdinary DEF Fits

\* The alternative of CompilationUnit.
LEMMA CompilationUnitIs ==
  ASSUME NEW p \in OneOf("CompilationUnit", {<<"ProgramModule", "EOF", "=set_ast">>})
  PROVE  p = <<"CompilationUnit", <<"ProgramModule", "EOF", "=set_ast">>>>
PROOF
  BY PairsOfOneOf

\* What the productions are.
Expected(p) ==
  \/ Fits(p)
  \/ p = <<"ElseOpt", <<"=IfThen">>>>
  \/ p = <<"CompilationUnit", <<"ProgramModule", "EOF", "=set_ast">>>>

\* DeclarationRules.
LEMMA DeclarationRulesFit ==
  ASSUME NEW p \in DeclarationRules
  PROVE  Expected(p)
PROOF
  BY CompilationUnitIs, ProgramModuleFine, ProgramParametersOptFine, IdentListFine, BlockFine,
     DeclarationsFine, ConstantDefBlockOptFine, TypeDefBlockOptFine, VariableDeclBlockOptFine,
     SubprogDeclListOptFine, ConstantDefListFine, TypeDefListFine, VariableDeclListFine,
     ConstantDefFine, TypeDefFine, VariableDeclFine, SubprogDeclListFine, SubprogDeclFine,
     ProcedureDeclFine, FunctionDeclFine, ProcedureHeadingFine, FunctionHeadingFine,
     FormalParametersOptFine, OneFormalParamListFine, OneFormalParamFine
     DEF Expected, DeclarationRules

\* ConstantAndTypeRules.
LEMMA ConstantAndTypeRulesFit ==
  ASSUME NEW p \in ConstantAndTypeRules
  PROVE  Expected(p)
PROOF
  BY ConstExpressionFine, SignOptFine, ConstFactorFine, TypeFine, SubrangeListFine, SubrangeFine,
     FieldListSequenceFine, FieldListFine
     DEF Expected, ConstantAndTypeRules

\* StatementRules.
LEMMA StatementRulesFit ==
  ASSUME NEW p \in StatementRules
  PROVE  Expected(p)
PROOF
  BY StatementSequenceFine, StatementListFine, StatementFine, AssignmentOrCallFine,
     ActualParametersOptFine, ElseOptFine, CaseListFine, CaseFine, CaseLabelListFine, WhichWayFine
     DEF Expected, StatementRules

\* ExpressionRules.
LEMMA ExpressionRulesFit ==
  ASSUME NEW p \in ExpressionRules
  PROVE  Expected(p)
PROOF
  BY DesignatorStuffOptFine, DesignatorStuffFine, DesignatorItemFine, ActualParametersFine,
     ExpListOptFine, ExpListFine, ExpressionFine, RelationOptFine, SimpleExpressionFine,
     TermListFine, TermListRestFine, TermFine, FactorListFine, FactorListRestFine, FactorFine,
     DesignatorOrCallFine, ElementListOptFine, ElementListFine, ElementFine, ElementRestFine,
     MultOperatorFine, AddOperatorFine, RelationFine
     DEF Expected, ExpressionRules

\* All of them.
LEMMA ProductionsFit ==
  ASSUME NEW p \in Productions
  PROVE  Expected(p)
PROOF
  BY DeclarationRulesFit, ConstantAndTypeRulesFit, StatementRulesFit, ExpressionRulesFit DEF Productions

\* What has a production is a rule.
LEMMA HeadsAreRules ==
  ASSUME NEW r, NEW alt, <<r, alt>> \in Productions
  PROVE  r \in Rules
PROOF
  BY DEF Rules

\* There is a production of every rule: DeclarationRules.
LEMMA DeclarationRulesHave ==
  /\ "CompilationUnit" \in Rules /\ "ProgramModule" \in Rules /\ "ProgramParametersOpt" \in Rules
  /\ "IdentList" \in Rules /\ "IdentListRest" \in Rules /\ "Block" \in Rules
  /\ "Declarations" \in Rules /\ "ConstantDefBlockOpt" \in Rules /\ "TypeDefBlockOpt" \in Rules
  /\ "VariableDeclBlockOpt" \in Rules /\ "SubprogDeclListOpt" \in Rules /\ "ConstantDefList" \in Rules
  /\ "ConstantDefRest" \in Rules /\ "TypeDefList" \in Rules /\ "TypeDefRest" \in Rules
  /\ "VariableDeclList" \in Rules /\ "VariableDeclRest" \in Rules /\ "ConstantDef" \in Rules
  /\ "TypeDef" \in Rules /\ "VariableDecl" \in Rules /\ "SubprogDeclList" \in Rules
  /\ "SubprogDeclRest" \in Rules /\ "SubprogDecl" \in Rules /\ "ProcedureDecl" \in Rules
  /\ "FunctionDecl" \in Rules /\ "ProcedureHeading" \in Rules /\ "FunctionHeading" \in Rules
  /\ "FormalParametersOpt" \in Rules /\ "OneFormalParamList" \in Rules /\ "OneFormalParamRest" \in Rules
  /\ "OneFormalParam" \in Rules
PROOF
  <1>1. "CompilationUnit" \in Rules
    <2>1. <<"CompilationUnit", <<"ProgramModule", "EOF", "=set_ast">>>> \in DeclarationRules
      BY ZenonT(30) DEF DeclarationRules, OneOf, Optional, SeparatedRule, TerminatedRule, RepeatedRule
    <2> QED  BY <2>1, HeadsAreRules, Zenon DEF Productions
  <1>2. "ProgramModule" \in Rules
    <2>1. <<"ProgramModule", <<"program", "identifier", "ProgramParametersOpt", ";", "Block", ".", "=ProgramModule">>>> \in DeclarationRules
      BY ZenonT(30) DEF DeclarationRules, OneOf, Optional, SeparatedRule, TerminatedRule, RepeatedRule
    <2> QED  BY <2>1, HeadsAreRules, Zenon DEF Productions
  <1>3. "ProgramParametersOpt" \in Rules
    <2>1. <<"ProgramParametersOpt", <<"=empty">>>> \in DeclarationRules
      BY ZenonT(30) DEF DeclarationRules, OneOf, Optional, SeparatedRule, TerminatedRule, RepeatedRule
    <2> QED  BY <2>1, HeadsAreRules, Zenon DEF Productions
  <1>4. "IdentList" \in Rules
    <2>1. <<"IdentList", <<"identifier", "IdentListRest">>>> \in DeclarationRules
      BY ZenonT(30) DEF DeclarationRules, OneOf, Optional, SeparatedRule, TerminatedRule, RepeatedRule
    <2> QED  BY <2>1, HeadsAreRules, Zenon DEF Productions
  <1>5. "IdentListRest" \in Rules
    <2>1. <<"IdentListRest", <<"=vector">>>> \in DeclarationRules
      BY ZenonT(30) DEF DeclarationRules, OneOf, Optional, SeparatedRule, TerminatedRule, RepeatedRule
    <2> QED  BY <2>1, HeadsAreRules, Zenon DEF Productions
  <1>6. "Block" \in Rules
    <2>1. <<"Block", <<"Declarations", "StatementSequence", "=Block">>>> \in DeclarationRules
      BY ZenonT(30) DEF DeclarationRules, OneOf, Optional, SeparatedRule, TerminatedRule, RepeatedRule
    <2> QED  BY <2>1, HeadsAreRules, Zenon DEF Productions
  <1>7. "Declarations" \in Rules
    <2>1. <<"Declarations", <<"ConstantDefBlockOpt", "TypeDefBlockOpt", "VariableDeclBlockOpt", "SubprogDeclListOpt", "=Declarations">>>> \in DeclarationRules
      BY ZenonT(30) DEF DeclarationRules, OneOf, Optional, SeparatedRule, TerminatedRule, RepeatedRule
    <2> QED  BY <2>1, HeadsAreRules, Zenon DEF Productions
  <1>8. "ConstantDefBlockOpt" \in Rules
    <2>1. <<"ConstantDefBlockOpt", <<"=empty">>>> \in DeclarationRules
      BY ZenonT(30) DEF DeclarationRules, OneOf, Optional, SeparatedRule, TerminatedRule, RepeatedRule
    <2> QED  BY <2>1, HeadsAreRules, Zenon DEF Productions
  <1>9. "TypeDefBlockOpt" \in Rules
    <2>1. <<"TypeDefBlockOpt", <<"=empty">>>> \in DeclarationRules
      BY ZenonT(30) DEF DeclarationRules, OneOf, Optional, SeparatedRule, TerminatedRule, RepeatedRule
    <2> QED  BY <2>1, HeadsAreRules, Zenon DEF Productions
  <1>10. "VariableDeclBlockOpt" \in Rules
    <2>1. <<"VariableDeclBlockOpt", <<"=empty">>>> \in DeclarationRules
      BY ZenonT(30) DEF DeclarationRules, OneOf, Optional, SeparatedRule, TerminatedRule, RepeatedRule
    <2> QED  BY <2>1, HeadsAreRules, Zenon DEF Productions
  <1>11. "SubprogDeclListOpt" \in Rules
    <2>1. <<"SubprogDeclListOpt", <<"=empty">>>> \in DeclarationRules
      BY ZenonT(30) DEF DeclarationRules, OneOf, Optional, SeparatedRule, TerminatedRule, RepeatedRule
    <2> QED  BY <2>1, HeadsAreRules, Zenon DEF Productions
  <1>12. "ConstantDefList" \in Rules
    <2>1. <<"ConstantDefList", <<"ConstantDef", ";", "ConstantDefRest">>>> \in DeclarationRules
      BY ZenonT(30) DEF DeclarationRules, OneOf, Optional, SeparatedRule, TerminatedRule, RepeatedRule
    <2> QED  BY <2>1, HeadsAreRules, Zenon DEF Productions
  <1>13. "ConstantDefRest" \in Rules
    <2>1. <<"ConstantDefRest", <<"=vector;">>>> \in DeclarationRules
      BY ZenonT(30) DEF DeclarationRules, OneOf, Optional, SeparatedRule, TerminatedRule, RepeatedRule
    <2> QED  BY <2>1, HeadsAreRules, Zenon DEF Productions
  <1>14. "TypeDefList" \in Rules
    <2>1. <<"TypeDefList", <<"TypeDef", ";", "TypeDefRest">>>> \in DeclarationRules
      BY ZenonT(30) DEF DeclarationRules, OneOf, Optional, SeparatedRule, TerminatedRule, RepeatedRule
    <2> QED  BY <2>1, HeadsAreRules, Zenon DEF Productions
  <1>15. "TypeDefRest" \in Rules
    <2>1. <<"TypeDefRest", <<"=vector;">>>> \in DeclarationRules
      BY ZenonT(30) DEF DeclarationRules, OneOf, Optional, SeparatedRule, TerminatedRule, RepeatedRule
    <2> QED  BY <2>1, HeadsAreRules, Zenon DEF Productions
  <1>16. "VariableDeclList" \in Rules
    <2>1. <<"VariableDeclList", <<"VariableDecl", ";", "VariableDeclRest">>>> \in DeclarationRules
      BY ZenonT(30) DEF DeclarationRules, OneOf, Optional, SeparatedRule, TerminatedRule, RepeatedRule
    <2> QED  BY <2>1, HeadsAreRules, Zenon DEF Productions
  <1>17. "VariableDeclRest" \in Rules
    <2>1. <<"VariableDeclRest", <<"=vector;">>>> \in DeclarationRules
      BY ZenonT(30) DEF DeclarationRules, OneOf, Optional, SeparatedRule, TerminatedRule, RepeatedRule
    <2> QED  BY <2>1, HeadsAreRules, Zenon DEF Productions
  <1>18. "ConstantDef" \in Rules
    <2>1. <<"ConstantDef", <<"identifier", "=", "ConstExpression", "=ConstDef">>>> \in DeclarationRules
      BY ZenonT(30) DEF DeclarationRules, OneOf, Optional, SeparatedRule, TerminatedRule, RepeatedRule
    <2> QED  BY <2>1, HeadsAreRules, Zenon DEF Productions
  <1>19. "TypeDef" \in Rules
    <2>1. <<"TypeDef", <<"identifier", "=", "Type", "=TypeDef">>>> \in DeclarationRules
      BY ZenonT(30) DEF DeclarationRules, OneOf, Optional, SeparatedRule, TerminatedRule, RepeatedRule
    <2> QED  BY <2>1, HeadsAreRules, Zenon DEF Productions
  <1>20. "VariableDecl" \in Rules
    <2>1. <<"VariableDecl", <<"IdentList", ":", "Type", "=VarDecl">>>> \in DeclarationRules
      BY ZenonT(30) DEF DeclarationRules, OneOf, Optional, SeparatedRule, TerminatedRule, RepeatedRule
    <2> QED  BY <2>1, HeadsAreRules, Zenon DEF Productions
  <1>21. "SubprogDeclList" \in Rules
    <2>1. <<"SubprogDeclList", <<"SubprogDecl", "SubprogDeclRest">>>> \in DeclarationRules
      BY ZenonT(30) DEF DeclarationRules, OneOf, Optional, SeparatedRule, TerminatedRule, RepeatedRule
    <2> QED  BY <2>1, HeadsAreRules, Zenon DEF Productions
  <1>22. "SubprogDeclRest" \in Rules
    <2>1. <<"SubprogDeclRest", <<"=vector">>>> \in DeclarationRules
      BY ZenonT(30) DEF DeclarationRules, OneOf, Optional, SeparatedRule, TerminatedRule, RepeatedRule
    <2> QED  BY <2>1, HeadsAreRules, Zenon DEF Productions
  <1>23. "SubprogDecl" \in Rules
    <2>1. <<"SubprogDecl", <<"ProcedureDecl", ";", "=SubprogDecl">>>> \in DeclarationRules
      BY ZenonT(30) DEF DeclarationRules, OneOf, Optional, SeparatedRule, TerminatedRule, RepeatedRule
    <2> QED  BY <2>1, HeadsAreRules, Zenon DEF Productions
  <1>24. "ProcedureDecl" \in Rules
    <2>1. <<"ProcedureDecl", <<"ProcedureHeading", ";", "Block", "=ProcDecl">>>> \in DeclarationRules
      BY ZenonT(30) DEF DeclarationRules, OneOf, Optional, SeparatedRule, TerminatedRule, RepeatedRule
    <2> QED  BY <2>1, HeadsAreRules, Zenon DEF Productions
  <1>25. "FunctionDecl" \in Rules
    <2>1. <<"FunctionDecl", <<"FunctionHeading", ":", "identifier", ";", "Block", "=FuncDecl">>>> \in DeclarationRules
      BY ZenonT(30) DEF DeclarationRules, OneOf, Optional, SeparatedRule, TerminatedRule, RepeatedRule
    <2> QED  BY <2>1, HeadsAreRules, Zenon DEF Productions
  <1>26. "ProcedureHeading" \in Rules
    <2>1. <<"ProcedureHeading", <<"procedure", "identifier", "FormalParametersOpt", "=ProcHeading">>>> \in DeclarationRules
      BY ZenonT(30) DEF DeclarationRules, OneOf, Optional, SeparatedRule, TerminatedRule, RepeatedRule
    <2> QED  BY <2>1, HeadsAreRules, Zenon DEF Productions
  <1>27. "FunctionHeading" \in Rules
    <2>1. <<"FunctionHeading", <<"function", "identifier", "FormalParametersOpt", "=ProcHeading">>>> \in DeclarationRules
      BY ZenonT(30) DEF DeclarationRules, OneOf, Optional, SeparatedRule, TerminatedRule, RepeatedRule
    <2> QED  BY <2>1, HeadsAreRules, Zenon DEF Productions
  <1>28. "FormalParametersOpt" \in Rules
    <2>1. <<"FormalParametersOpt", <<"=empty">>>> \in DeclarationRules
      BY ZenonT(30) DEF DeclarationRules, OneOf, Optional, SeparatedRule, TerminatedRule, RepeatedRule
    <2> QED  BY <2>1, HeadsAreRules, Zenon DEF Productions
  <1>29. "OneFormalParamList" \in Rules
    <2>1. <<"OneFormalParamList", <<"OneFormalParam", "OneFormalParamRest">>>> \in DeclarationRules
      BY ZenonT(30) DEF DeclarationRules, OneOf, Optional, SeparatedRule, TerminatedRule, RepeatedRule
    <2> QED  BY <2>1, HeadsAreRules, Zenon DEF Productions
  <1>30. "OneFormalParamRest" \in Rules
    <2>1. <<"OneFormalParamRest", <<"=vector">>>> \in DeclarationRules
      BY ZenonT(30) DEF DeclarationRules, OneOf, Optional, SeparatedRule, TerminatedRule, RepeatedRule
    <2> QED  BY <2>1, HeadsAreRules, Zenon DEF Productions
  <1>31. "OneFormalParam" \in Rules
    <2>1. <<"OneFormalParam", <<"var", "IdentList", ":", "identifier", "=FormalParam">>>> \in DeclarationRules
      BY ZenonT(30) DEF DeclarationRules, OneOf, Optional, SeparatedRule, TerminatedRule, RepeatedRule
    <2> QED  BY <2>1, HeadsAreRules, Zenon DEF Productions
  <1> QED  BY <1>1, <1>2, <1>3, <1>4, <1>5, <1>6, <1>7, <1>8, <1>9, <1>10, <1>11, <1>12, <1>13,
               <1>14, <1>15, <1>16, <1>17, <1>18, <1>19, <1>20, <1>21, <1>22, <1>23, <1>24, <1>25,
               <1>26, <1>27, <1>28, <1>29, <1>30, <1>31

\* There is a production of every rule: ConstantAndTypeRules.
LEMMA ConstantAndTypeRulesHave ==
  /\ "ConstExpression" \in Rules /\ "SignOpt" \in Rules /\ "ConstFactor" \in Rules
  /\ "Type" \in Rules /\ "SubrangeList" \in Rules /\ "SubrangeRest" \in Rules
  /\ "Subrange" \in Rules /\ "FieldListSequence" \in Rules /\ "FieldListRest" \in Rules
  /\ "FieldList" \in Rules
PROOF
  <1>1. "ConstExpression" \in Rules
    <2>1. <<"ConstExpression", <<"CharacterConst", "=throw">>>> \in ConstantAndTypeRules
      BY ZenonT(30) DEF ConstantAndTypeRules, OneOf, Optional, SeparatedRule, TerminatedRule, RepeatedRule
    <2> QED  BY <2>1, HeadsAreRules, Zenon DEF Productions
  <1>2. "SignOpt" \in Rules
    <2>1. <<"SignOpt", <<"None">>>> \in ConstantAndTypeRules
      BY ZenonT(30) DEF ConstantAndTypeRules, OneOf, Optional, SeparatedRule, TerminatedRule, RepeatedRule
    <2> QED  BY <2>1, HeadsAreRules, Zenon DEF Productions
  <1>3. "ConstFactor" \in Rules
    <2>1. <<"ConstFactor", <<"identifier", "=ConstIdent">>>> \in ConstantAndTypeRules
      BY ZenonT(30) DEF ConstantAndTypeRules, OneOf, Optional, SeparatedRule, TerminatedRule, RepeatedRule
    <2> QED  BY <2>1, HeadsAreRules, Zenon DEF Productions
  <1>4. "Type" \in Rules
    <2>1. <<"Type", <<"identifier", "=NamedType">>>> \in ConstantAndTypeRules
      BY ZenonT(30) DEF ConstantAndTypeRules, OneOf, Optional, SeparatedRule, TerminatedRule, RepeatedRule
    <2> QED  BY <2>1, HeadsAreRules, Zenon DEF Productions
  <1>5. "SubrangeList" \in Rules
    <2>1. <<"SubrangeList", <<"Subrange", "SubrangeRest">>>> \in ConstantAndTypeRules
      BY ZenonT(30) DEF ConstantAndTypeRules, OneOf, Optional, SeparatedRule, TerminatedRule, RepeatedRule
    <2> QED  BY <2>1, HeadsAreRules, Zenon DEF Productions
  <1>6. "SubrangeRest" \in Rules
    <2>1. <<"SubrangeRest", <<"=vector">>>> \in ConstantAndTypeRules
      BY ZenonT(30) DEF ConstantAndTypeRules, OneOf, Optional, SeparatedRule, TerminatedRule, RepeatedRule
    <2> QED  BY <2>1, HeadsAreRules, Zenon DEF Productions
  <1>7. "Subrange" \in Rules
    <2>1. <<"Subrange", <<"CharSubrange", "=throw">>>> \in ConstantAndTypeRules
      BY ZenonT(30) DEF ConstantAndTypeRules, OneOf, Optional, SeparatedRule, TerminatedRule, RepeatedRule
    <2> QED  BY <2>1, HeadsAreRules, Zenon DEF Productions
  <1>8. "FieldListSequence" \in Rules
    <2>1. <<"FieldListSequence", <<"FieldList", "FieldListRest">>>> \in ConstantAndTypeRules
      BY ZenonT(30) DEF ConstantAndTypeRules, OneOf, Optional, SeparatedRule, TerminatedRule, RepeatedRule
    <2> QED  BY <2>1, HeadsAreRules, Zenon DEF Productions
  <1>9. "FieldListRest" \in Rules
    <2>1. <<"FieldListRest", <<"=vector">>>> \in ConstantAndTypeRules
      BY ZenonT(30) DEF ConstantAndTypeRules, OneOf, Optional, SeparatedRule, TerminatedRule, RepeatedRule
    <2> QED  BY <2>1, HeadsAreRules, Zenon DEF Productions
  <1>10. "FieldList" \in Rules
    <2>1. <<"FieldList", <<"IdentList", ":", "Type", "=FieldList">>>> \in ConstantAndTypeRules
      BY ZenonT(30) DEF ConstantAndTypeRules, OneOf, Optional, SeparatedRule, TerminatedRule, RepeatedRule
    <2> QED  BY <2>1, HeadsAreRules, Zenon DEF Productions
  <1> QED  BY <1>1, <1>2, <1>3, <1>4, <1>5, <1>6, <1>7, <1>8, <1>9, <1>10

\* There is a production of every rule: StatementRules.
LEMMA StatementRulesHave ==
  /\ "StatementSequence" \in Rules /\ "StatementList" \in Rules /\ "StatementRest" \in Rules
  /\ "Statement" \in Rules /\ "AssignmentOrCall" \in Rules /\ "ActualParametersOpt" \in Rules
  /\ "ElseOpt" \in Rules /\ "CaseList" \in Rules /\ "CaseRest" \in Rules
  /\ "Case" \in Rules /\ "CaseLabelList" \in Rules /\ "CaseLabelRest" \in Rules
  /\ "WhichWay" \in Rules
PROOF
  <1>1. "StatementSequence" \in Rules
    <2>1. <<"StatementSequence", <<"begin", "StatementList", "end", "=StmtSeq">>>> \in StatementRules
      BY ZenonT(30) DEF StatementRules, OneOf, Optional, SeparatedRule, TerminatedRule, RepeatedRule
    <2> QED  BY <2>1, HeadsAreRules, Zenon DEF Productions
  <1>2. "StatementList" \in Rules
    <2>1. <<"StatementList", <<"Statement", "StatementRest">>>> \in StatementRules
      BY ZenonT(30) DEF StatementRules, OneOf, Optional, SeparatedRule, TerminatedRule, RepeatedRule
    <2> QED  BY <2>1, HeadsAreRules, Zenon DEF Productions
  <1>3. "StatementRest" \in Rules
    <2>1. <<"StatementRest", <<"=vector">>>> \in StatementRules
      BY ZenonT(30) DEF StatementRules, OneOf, Optional, SeparatedRule, TerminatedRule, RepeatedRule
    <2> QED  BY <2>1, HeadsAreRules, Zenon DEF Productions
  <1>4. "Statement" \in Rules
    <2>1. <<"Statement", <<"=EmptyStmt">>>> \in StatementRules
      BY ZenonT(30) DEF StatementRules, OneOf, Optional, SeparatedRule, TerminatedRule, RepeatedRule
    <2> QED  BY <2>1, HeadsAreRules, Zenon DEF Productions
  <1>5. "AssignmentOrCall" \in Rules
    <2>1. <<"AssignmentOrCall", <<"ActualParametersOpt", "=ProcCall">>>> \in StatementRules
      BY ZenonT(30) DEF StatementRules, OneOf, Optional, SeparatedRule, TerminatedRule, RepeatedRule
    <2> QED  BY <2>1, HeadsAreRules, Zenon DEF Productions
  <1>6. "ActualParametersOpt" \in Rules
    <2>1. <<"ActualParametersOpt", <<"=empty">>>> \in StatementRules
      BY ZenonT(30) DEF StatementRules, OneOf, Optional, SeparatedRule, TerminatedRule, RepeatedRule
    <2> QED  BY <2>1, HeadsAreRules, Zenon DEF Productions
  <1>7. "ElseOpt" \in Rules
    <2>1. <<"ElseOpt", <<"=IfThen">>>> \in StatementRules
      BY ZenonT(30) DEF StatementRules, OneOf, Optional, SeparatedRule, TerminatedRule, RepeatedRule
    <2> QED  BY <2>1, HeadsAreRules, Zenon DEF Productions
  <1>8. "CaseList" \in Rules
    <2>1. <<"CaseList", <<"Case", "CaseRest">>>> \in StatementRules
      BY ZenonT(30) DEF StatementRules, OneOf, Optional, SeparatedRule, TerminatedRule, RepeatedRule
    <2> QED  BY <2>1, HeadsAreRules, Zenon DEF Productions
  <1>9. "CaseRest" \in Rules
    <2>1. <<"CaseRest", <<"=vector">>>> \in StatementRules
      BY ZenonT(30) DEF StatementRules, OneOf, Optional, SeparatedRule, TerminatedRule, RepeatedRule
    <2> QED  BY <2>1, HeadsAreRules, Zenon DEF Productions
  <1>10. "Case" \in Rules
    <2>1. <<"Case", <<"CaseLabelList", ":", "Statement", "=Case">>>> \in StatementRules
      BY ZenonT(30) DEF StatementRules, OneOf, Optional, SeparatedRule, TerminatedRule, RepeatedRule
    <2> QED  BY <2>1, HeadsAreRules, Zenon DEF Productions
  <1>11. "CaseLabelList" \in Rules
    <2>1. <<"CaseLabelList", <<"ConstExpression", "CaseLabelRest">>>> \in StatementRules
      BY ZenonT(30) DEF StatementRules, OneOf, Optional, SeparatedRule, TerminatedRule, RepeatedRule
    <2> QED  BY <2>1, HeadsAreRules, Zenon DEF Productions
  <1>12. "CaseLabelRest" \in Rules
    <2>1. <<"CaseLabelRest", <<"=vector">>>> \in StatementRules
      BY ZenonT(30) DEF StatementRules, OneOf, Optional, SeparatedRule, TerminatedRule, RepeatedRule
    <2> QED  BY <2>1, HeadsAreRules, Zenon DEF Productions
  <1>13. "WhichWay" \in Rules
    <2>1. <<"WhichWay", <<"to", "To">>>> \in StatementRules
      BY ZenonT(30) DEF StatementRules, OneOf, Optional, SeparatedRule, TerminatedRule, RepeatedRule
    <2> QED  BY <2>1, HeadsAreRules, Zenon DEF Productions
  <1> QED  BY <1>1, <1>2, <1>3, <1>4, <1>5, <1>6, <1>7, <1>8, <1>9, <1>10, <1>11, <1>12, <1>13

\* There is a production of every rule: ExpressionRules.
LEMMA ExpressionRulesHave ==
  /\ "DesignatorStuffOpt" \in Rules /\ "DesignatorStuff" \in Rules /\ "DesignatorRest" \in Rules
  /\ "DesignatorItem" \in Rules /\ "ActualParameters" \in Rules /\ "ExpListOpt" \in Rules
  /\ "ExpList" \in Rules /\ "ExpListRest" \in Rules /\ "Expression" \in Rules
  /\ "RelationOpt" \in Rules /\ "SimpleExpression" \in Rules /\ "TermList" \in Rules
  /\ "TermListRest" \in Rules /\ "Term" \in Rules /\ "FactorList" \in Rules
  /\ "FactorListRest" \in Rules /\ "Factor" \in Rules /\ "DesignatorOrCall" \in Rules
  /\ "ElementListOpt" \in Rules /\ "ElementList" \in Rules /\ "ElementListRest" \in Rules
  /\ "Element" \in Rules /\ "ElementRest" \in Rules /\ "MultOperator" \in Rules
  /\ "AddOperator" \in Rules /\ "Relation" \in Rules
PROOF
  <1>1. "DesignatorStuffOpt" \in Rules
    <2>1. <<"DesignatorStuffOpt", <<"=empty">>>> \in ExpressionRules
      BY ZenonT(30) DEF ExpressionRules, OneOf, Optional, SeparatedRule, TerminatedRule, RepeatedRule
    <2> QED  BY <2>1, HeadsAreRules, Zenon DEF Productions
  <1>2. "DesignatorStuff" \in Rules
    <2>1. <<"DesignatorStuff", <<"DesignatorItem", "DesignatorRest">>>> \in ExpressionRules
      BY ZenonT(30) DEF ExpressionRules, OneOf, Optional, SeparatedRule, TerminatedRule, RepeatedRule
    <2> QED  BY <2>1, HeadsAreRules, Zenon DEF Productions
  <1>3. "DesignatorRest" \in Rules
    <2>1. <<"DesignatorRest", <<"=vector">>>> \in ExpressionRules
      BY ZenonT(30) DEF ExpressionRules, OneOf, Optional, SeparatedRule, TerminatedRule, RepeatedRule
    <2> QED  BY <2>1, HeadsAreRules, Zenon DEF Productions
  <1>4. "DesignatorItem" \in Rules
    <2>1. <<"DesignatorItem", <<"^", "=PointerAccess">>>> \in ExpressionRules
      BY ZenonT(30) DEF ExpressionRules, OneOf, Optional, SeparatedRule, TerminatedRule, RepeatedRule
    <2> QED  BY <2>1, HeadsAreRules, Zenon DEF Productions
  <1>5. "ActualParameters" \in Rules
    <2>1. <<"ActualParameters", <<"(", "ExpListOpt", ")", "=inner">>>> \in ExpressionRules
      BY ZenonT(30) DEF ExpressionRules, OneOf, Optional, SeparatedRule, TerminatedRule, RepeatedRule
    <2> QED  BY <2>1, HeadsAreRules, Zenon DEF Productions
  <1>6. "ExpListOpt" \in Rules
    <2>1. <<"ExpListOpt", <<"=empty">>>> \in ExpressionRules
      BY ZenonT(30) DEF ExpressionRules, OneOf, Optional, SeparatedRule, TerminatedRule, RepeatedRule
    <2> QED  BY <2>1, HeadsAreRules, Zenon DEF Productions
  <1>7. "ExpList" \in Rules
    <2>1. <<"ExpList", <<"Expression", "ExpListRest">>>> \in ExpressionRules
      BY ZenonT(30) DEF ExpressionRules, OneOf, Optional, SeparatedRule, TerminatedRule, RepeatedRule
    <2> QED  BY <2>1, HeadsAreRules, Zenon DEF Productions
  <1>8. "ExpListRest" \in Rules
    <2>1. <<"ExpListRest", <<"=vector">>>> \in ExpressionRules
      BY ZenonT(30) DEF ExpressionRules, OneOf, Optional, SeparatedRule, TerminatedRule, RepeatedRule
    <2> QED  BY <2>1, HeadsAreRules, Zenon DEF Productions
  <1>9. "Expression" \in Rules
    <2>1. <<"Expression", <<"SimpleExpression", "RelationOpt">>>> \in ExpressionRules
      BY ZenonT(30) DEF ExpressionRules, OneOf, Optional, SeparatedRule, TerminatedRule, RepeatedRule
    <2> QED  BY <2>1, HeadsAreRules, Zenon DEF Productions
  <1>10. "RelationOpt" \in Rules
    <2>1. <<"RelationOpt", <<"=Expr">>>> \in ExpressionRules
      BY ZenonT(30) DEF ExpressionRules, OneOf, Optional, SeparatedRule, TerminatedRule, RepeatedRule
    <2> QED  BY <2>1, HeadsAreRules, Zenon DEF Productions
  <1>11. "SimpleExpression" \in Rules
    <2>1. <<"SimpleExpression", <<"SignOpt", "TermList", "=SimpleExpr">>>> \in ExpressionRules
      BY ZenonT(30) DEF ExpressionRules, OneOf, Optional, SeparatedRule, TerminatedRule, RepeatedRule
    <2> QED  BY <2>1, HeadsAreRules, Zenon DEF Productions
  <1>12. "TermList" \in Rules
    <2>1. <<"TermList", <<"Term", "TermListRest">>>> \in ExpressionRules
      BY ZenonT(30) DEF ExpressionRules, OneOf, Optional, SeparatedRule, TerminatedRule, RepeatedRule
    <2> QED  BY <2>1, HeadsAreRules, Zenon DEF Productions
  <1>13. "TermListRest" \in Rules
    <2>1. <<"TermListRest", <<"=vectors">>>> \in ExpressionRules
      BY ZenonT(30) DEF ExpressionRules, OneOf, Optional, SeparatedRule, TerminatedRule, RepeatedRule
    <2> QED  BY <2>1, HeadsAreRules, Zenon DEF Productions
  <1>14. "Term" \in Rules
    <2>1. <<"Term", <<"FactorList", "=Term">>>> \in ExpressionRules
      BY ZenonT(30) DEF ExpressionRules, OneOf, Optional, SeparatedRule, TerminatedRule, RepeatedRule
    <2> QED  BY <2>1, HeadsAreRules, Zenon DEF Productions
  <1>15. "FactorList" \in Rules
    <2>1. <<"FactorList", <<"Factor", "FactorListRest">>>> \in ExpressionRules
      BY ZenonT(30) DEF ExpressionRules, OneOf, Optional, SeparatedRule, TerminatedRule, RepeatedRule
    <2> QED  BY <2>1, HeadsAreRules, Zenon DEF Productions
  <1>16. "FactorListRest" \in Rules
    <2>1. <<"FactorListRest", <<"=vectors">>>> \in ExpressionRules
      BY ZenonT(30) DEF ExpressionRules, OneOf, Optional, SeparatedRule, TerminatedRule, RepeatedRule
    <2> QED  BY <2>1, HeadsAreRules, Zenon DEF Productions
  <1>17. "Factor" \in Rules
    <2>1. <<"Factor", <<"number", "=Number">>>> \in ExpressionRules
      BY ZenonT(30) DEF ExpressionRules, OneOf, Optional, SeparatedRule, TerminatedRule, RepeatedRule
    <2> QED  BY <2>1, HeadsAreRules, Zenon DEF Productions
  <1>18. "DesignatorOrCall" \in Rules
    <2>1. <<"DesignatorOrCall", <<"ActualParameters", "=FuncCall">>>> \in ExpressionRules
      BY ZenonT(30) DEF ExpressionRules, OneOf, Optional, SeparatedRule, TerminatedRule, RepeatedRule
    <2> QED  BY <2>1, HeadsAreRules, Zenon DEF Productions
  <1>19. "ElementListOpt" \in Rules
    <2>1. <<"ElementListOpt", <<"=empty">>>> \in ExpressionRules
      BY ZenonT(30) DEF ExpressionRules, OneOf, Optional, SeparatedRule, TerminatedRule, RepeatedRule
    <2> QED  BY <2>1, HeadsAreRules, Zenon DEF Productions
  <1>20. "ElementList" \in Rules
    <2>1. <<"ElementList", <<"Element", "ElementListRest">>>> \in ExpressionRules
      BY ZenonT(30) DEF ExpressionRules, OneOf, Optional, SeparatedRule, TerminatedRule, RepeatedRule
    <2> QED  BY <2>1, HeadsAreRules, Zenon DEF Productions
  <1>21. "ElementListRest" \in Rules
    <2>1. <<"ElementListRest", <<"=vector">>>> \in ExpressionRules
      BY ZenonT(30) DEF ExpressionRules, OneOf, Optional, SeparatedRule, TerminatedRule, RepeatedRule
    <2> QED  BY <2>1, HeadsAreRules, Zenon DEF Productions
  <1>22. "Element" \in Rules
    <2>1. <<"Element", <<"ConstExpression", "ElementRest">>>> \in ExpressionRules
      BY ZenonT(30) DEF ExpressionRules, OneOf, Optional, SeparatedRule, TerminatedRule, RepeatedRule
    <2> QED  BY <2>1, HeadsAreRules, Zenon DEF Productions
  <1>23. "ElementRest" \in Rules
    <2>1. <<"ElementRest", <<"=first">>>> \in ExpressionRules
      BY ZenonT(30) DEF ExpressionRules, OneOf, Optional, SeparatedRule, TerminatedRule, RepeatedRule
    <2> QED  BY <2>1, HeadsAreRules, Zenon DEF Productions
  <1>24. "MultOperator" \in Rules
    <2>1. <<"MultOperator", <<"*", "Multiply">>>> \in ExpressionRules
      BY ZenonT(30) DEF ExpressionRules, OneOf, Optional, SeparatedRule, TerminatedRule, RepeatedRule
    <2> QED  BY <2>1, HeadsAreRules, Zenon DEF Productions
  <1>25. "AddOperator" \in Rules
    <2>1. <<"AddOperator", <<"+", "Plus">>>> \in ExpressionRules
      BY ZenonT(30) DEF ExpressionRules, OneOf, Optional, SeparatedRule, TerminatedRule, RepeatedRule
    <2> QED  BY <2>1, HeadsAreRules, Zenon DEF Productions
  <1>26. "Relation" \in Rules
    <2>1. <<"Relation", <<"=", "Equal">>>> \in ExpressionRules
      BY ZenonT(30) DEF ExpressionRules, OneOf, Optional, SeparatedRule, TerminatedRule, RepeatedRule
    <2> QED  BY <2>1, HeadsAreRules, Zenon DEF Productions
  <1> QED  BY <1>1, <1>2, <1>3, <1>4, <1>5, <1>6, <1>7, <1>8, <1>9, <1>10, <1>11, <1>12, <1>13,
               <1>14, <1>15, <1>16, <1>17, <1>18, <1>19, <1>20, <1>21, <1>22, <1>23, <1>24, <1>25,
               <1>26

\* The rules of the signatures are rules.
LEMMA SignedRules ==
  PlainRules \cup RestRules \subseteq Rules
PROOF
  BY DeclarationRulesHave, ConstantAndTypeRulesHave, StatementRulesHave, ExpressionRulesHave
     DEF PlainRules, RestRules

\* A symbol with an action of its own is none of them.
LEMMA ActionsAreSigned ==
  ASSUME NEW x \in Actions
  PROVE  x \notin Plain /\ x \notin RestRules
PROOF
  <1>1. x \notin Rules /\ x \notin Kinds
    BY DEF Actions
  <1> QED  BY <1>1, SignedRules DEF Plain

\* What Expand chooses from.
LEMMA AlternativesFit ==
  ASSUME NEW rule \in Rules, NEW alt \in Grammar[rule]
  PROVE  \/ rule \in Ordinary \ {"else"} /\ Fine(rule, alt)
         \/ rule = "ElseOpt" /\ alt = <<"=IfThen">>
         \/ rule = "CompilationUnit" /\ alt = <<"ProgramModule", "EOF", "=set_ast">>
PROOF
  <1>1. PICK p \in Productions : p[1] = rule /\ p[2] = alt
    BY DEF Grammar
  <1> QED  BY <1>1, ProductionsFit DEF Expected, Fits

\* No rule is called like these.
LEMMA NoRules ==
  "EOF" \notin Rules /\ "=set_ast" \notin Rules /\ "=IfThen" \notin Rules /\ "else" \notin Rules
PROOF
  <1>1. ASSUME NEW p \in Productions
        PROVE  p[1] \in Ordinary \ {"else"} \/ p[1] = "ElseOpt" \/ p[1] = "CompilationUnit"
    BY ProductionsFit DEF Expected, Fits
  <1> QED  BY <1>1 DEF Rules, Ordinary

\* What is predicted is an alternative.
LEMMA PredictedIs ==
  ASSUME NEW rule \in Rules, NEW kind, NEW alt \in Predicted(rule, kind)
  PROVE  alt \in Grammar[rule]
PROOF
  BY DEF Predicted, Begins, Default

\* Before an else, the if statement is not ended.
LEMMA ElseIsShifted ==
  <<"=IfThen">> \notin Predicted("ElseOpt", "else")
PROOF
  <1> DEFINE e == <<"else", "Statement", "=IfElse">>
             i == <<"=IfThen">>
  <1>1. "ElseOpt" \in Rules /\ "else" \notin Rules /\ "=IfThen" \notin Rules
    BY StatementRulesHave, NoRules
  <1>2. "else" \in Kinds /\ "=IfThen" \notin Kinds
    BY DEF Kinds, HasValue
  <1>3. e \in Grammar["ElseOpt"]
    <2>1. <<"ElseOpt", e>> \in StatementRules
      BY ZenonT(30) DEF StatementRules, OneOf, Optional, SeparatedRule
    <2>2. <<"ElseOpt", e>> \in Productions
      BY <2>1, Zenon DEF Productions
    <2> HIDE DEF e
    <2> QED  BY <2>2, <1>1 DEF Grammar
  <1>4. "else" \in First(e)
    <2>1. e[1] = "else" /\ 1 \in DOMAIN e
      OBVIOUS
    <2> HIDE DEF e
    <2>2. "else" \in Leading(e)
      BY <2>1 DEF Leading
    <2> QED  BY <2>2, <1>1, <1>2 DEF First
  <1>5. "else" \notin First(i)
    <2>1. \A k \in DOMAIN i : i[k] = "=IfThen"
      OBVIOUS
    <2> HIDE DEF i
    <2>2. \A symbol \in Leading(i) : symbol = "=IfThen"
      BY <2>1 DEF Leading
    <2> QED  BY <2>2, <1>1, <1>2 DEF First
  <1> HIDE DEF e, i
  <1>6. e \in Begins("ElseOpt", "else")
    BY <1>1, <1>3, <1>4 DEF Begins, FirstOf
  <1>7. i \notin Begins("ElseOpt", "else")
    BY <1>1, <1>5 DEF Begins, FirstOf
  <1>8. i \notin Predicted("ElseOpt", "else")
    BY <1>6, <1>7 DEF Predicted
  <1> QED  BY <1>8 DEF i

\* The values vs have the sorts A, and were read one after the other before p.
Fit(t, A, vs, c, p) ==
  /\ Len(vs) = Len(A) /\ \E S : vs \in Seq(S)
  /\ c \in [0..Len(A) -> 1..Len(t) + 1] /\ c[0] = 1 /\ c[Len(A)] = p
  /\ \A k \in 1..Len(A) : Phrase(t, A[k], vs[k], c[k - 1], c[k])

\* The symbols that may be awaited: the end of an if statement only if no else comes.
Awaited(s, token) ==
  \/ s \in Seq(Ordinary)
  \/ token # <<"else">> /\ \E r \in Seq(Ordinary) : s = <<"=IfThen">> \o r

Ready(s, A, c, t, vs, p) ==
  /\ Awaited(s, t[p]) /\ A \in Seq(Names) /\ Typed(s, A, <<"ProgramModule">>)
  /\ \E S : t \in Seq(S)
  /\ Fit(t, A, vs, c, p)

-----------------------------------------------------------------------------
(* The stacks.                                                             *)

\* A sequence of elements of a set is one over the set.
LEMMA SeqOver ==
  ASSUME NEW S, NEW T, NEW s \in Seq(S), \A k \in 1..Len(s) : s[k] \in T
  PROVE  s \in Seq(T)
PROOF
  <1>1. s \in [1..Len(s) -> T] /\ Len(s) \in Nat
    OBVIOUS
  <1> QED  BY <1>1, SeqDef

\* The sequence of what is pushed.
LEMMA AppendOver ==
  ASSUME NEW vs, \E S : vs \in Seq(S), NEW v
  PROVE  /\ \E S : Append(vs, v) \in Seq(S)
         /\ Len(vs) \in Nat /\ Len(Append(vs, v)) = Len(vs) + 1
         /\ \A k \in 1..Len(vs) : Append(vs, v)[k] = vs[k]
         /\ Append(vs, v)[Len(vs) + 1] = v
PROOF
  <1>1. PICK S : vs \in Seq(S)
    OBVIOUS
  <1>2. vs \in Seq(S \cup {v}) /\ v \in S \cup {v}
    BY <1>1, SeqOver
  <1> QED  BY <1>2, AppendProperties

\* A phrase is pushed.
LEMMA FitPush ==
  ASSUME NEW t, NEW A \in Seq(Names), NEW x \in Names, NEW vs, NEW v, NEW c, NEW p, NEW q,
         Fit(t, A, vs, c, p), Phrase(t, x, v, p, q), \E S : t \in Seq(S)
  PROVE  \E d : Fit(t, A & x, Append(vs, v), d, q)
PROOF
  <1> DEFINE n == Len(A)
             d == [k \in 0..n + 1 |-> IF k <= n THEN c[k] ELSE q]
             B == A & x
             ws == Append(vs, v)
  <1>1. n \in Nat /\ Len(t) \in Nat
    OBVIOUS
  <1>2. /\ B \in Seq(Names) /\ Len(B) = n + 1 /\ B[n + 1] = x
        /\ \A k \in 1..n : B[k] = A[k]
    BY PushIs
  <1>3. /\ Len(vs) = n /\ \E S : vs \in Seq(S)
        /\ c \in [0..n -> 1..Len(t) + 1] /\ c[0] = 1 /\ c[n] = p
        /\ \A k \in 1..n : Phrase(t, A[k], vs[k], c[k - 1], c[k])
    BY DEF Fit
  <1>4. /\ \E S : ws \in Seq(S)
        /\ Len(ws) = n + 1 /\ ws[n + 1] = v
        /\ \A k \in 1..n : ws[k] = vs[k]
    <2>1. /\ \E S : ws \in Seq(S)
          /\ Len(vs) \in Nat /\ Len(ws) = Len(vs) + 1
          /\ \A k \in 1..Len(vs) : ws[k] = vs[k]
          /\ ws[Len(vs) + 1] = v
      <3> HIDE DEF d, B, n
      <3> QED  BY <1>3, AppendOver
    <2> QED  BY <2>1, <1>3
  <1>5. q \in 1..Len(t) + 1
    BY <1>1 DEF Phrase
  <1>6. d \in [0..n + 1 -> 1..Len(t) + 1] /\ d[0] = 1 /\ d[n + 1] = q /\ \A k \in 0..n : d[k] = c[k]
    BY <1>1, <1>3, <1>5
  <1> HIDE DEF d, B, ws, n
  <1>7. ASSUME NEW k \in 1..n + 1
        PROVE  Phrase(t, B[k], ws[k], d[k - 1], d[k])
    <2>1. CASE k \in 1..n
      <3>1. B[k] = A[k] /\ ws[k] = vs[k] /\ d[k - 1] = c[k - 1] /\ d[k] = c[k]
        BY <2>1, <1>1, <1>2, <1>4, <1>6
      <3> QED  BY <3>1, <2>1, <1>3
    <2>2. CASE k = n + 1
      <3>1. B[k] = x /\ ws[k] = v /\ d[k - 1] = p /\ d[k] = q
        BY <2>2, <1>1, <1>2, <1>3, <1>4, <1>6
      <3> QED  BY <3>1
    <2> QED  BY <2>1, <2>2, <1>1
  <1>8. Fit(t, B, ws, d, q)
    BY <1>2, <1>4, <1>6, <1>7 DEF Fit
  <1> QED  BY <1>8 DEF B, ws

\* On top of values of the sorts b are the phrases a that an action takes.
OnTop(t, b, ws, takes, a, p) ==
  \E e, q : /\ e \in [0..Len(takes) -> 1..Len(t) + 1] /\ e[0] = q /\ e[Len(takes)] = p
            /\ \A k \in 1..Len(takes) : Phrase(t, takes[k], a[k], e[k - 1], e[k])
            /\ Len(a) = Len(takes) /\ \E S : a \in Seq(S)
            /\ \E d : Fit(t, b, ws, d, q)

\* Phrases are taken.
LEMMA FitTaken ==
  ASSUME NEW t, NEW b \in Seq(Names), NEW takes \in Seq(Names), NEW vs, NEW c, NEW p,
         Fit(t, b \o takes, vs, c, p),
         NEW a, a = SubSeq(vs, Len(vs) - Len(takes) + 1, Len(vs)),
         NEW ws, ws = SubSeq(vs, 1, Len(vs) - Len(takes))
  PROVE  OnTop(t, b, ws, takes, a, p)
PROOF
  <1> DEFINE m == Len(b)
             n == Len(takes)
             e == [k \in 0..n |-> c[m + k]]
             d == [k \in 0..m |-> c[k]]
             A == b \o takes
  <1>1. m \in Nat /\ n \in Nat
    OBVIOUS
  <1>2. /\ A \in Seq(Names) /\ Len(A) = m + n
        /\ \A k \in 1..m : A[k] = b[k]
        /\ \A k \in 1..n : A[m + k] = takes[k]
    BY ConcatProperties
  <1>3. /\ Len(vs) = m + n
        /\ c \in [0..m + n -> 1..Len(t) + 1] /\ c[0] = 1 /\ c[m + n] = p
        /\ \A k \in 1..m + n : Phrase(t, A[k], vs[k], c[k - 1], c[k])
    BY <1>2 DEF Fit
  <1>4. PICK S : vs \in Seq(S)
    BY DEF Fit
  <1>5. /\ a \in Seq(S) /\ Len(a) = n
        /\ \A k \in 1..n : a[k] = vs[m + k]
    <2>1. \A k \in m + 1..m + n : vs[k] \in S
      BY <1>1, <1>3, <1>4, ElementOfSeq
    <2>2. a = SubSeq(vs, m + 1, m + n)
      BY <1>1, <1>3
    <2>3. /\ SubSeq(vs, m + 1, m + n) \in Seq(S)
          /\ Len(SubSeq(vs, m + 1, m + n)) = IF m + 1 <= m + n THEN m + n - (m + 1) + 1 ELSE 0
          /\ \A k \in 1..m + n - (m + 1) + 1 : SubSeq(vs, m + 1, m + n)[k] = vs[m + 1 + k - 1]
      BY <2>1, <1>1, SubSeqProperties
    <2>4. \A k \in 1..n : k \in 1..m + n - (m + 1) + 1 /\ m + 1 + k - 1 = m + k
      BY <1>1
    <2>5. Len(SubSeq(vs, m + 1, m + n)) = n
      BY <2>3, <1>1
    <2> HIDE DEF m, n
    <2> QED  BY <2>2, <2>3, <2>4, <2>5
  <1>6. /\ ws \in Seq(S) /\ Len(ws) = m
        /\ \A k \in 1..m : ws[k] = vs[k]
    <2>1. \A k \in 1..m : vs[k] \in S
      BY <1>1, <1>3, <1>4, ElementOfSeq
    <2>2. ws = SubSeq(vs, 1, m)
      BY <1>1, <1>3
    <2>3. /\ SubSeq(vs, 1, m) \in Seq(S)
          /\ Len(SubSeq(vs, 1, m)) = IF 1 <= m THEN m - 1 + 1 ELSE 0
          /\ \A k \in 1..m - 1 + 1 : SubSeq(vs, 1, m)[k] = vs[1 + k - 1]
      BY <2>1, <1>1, SubSeqProperties
    <2> QED  BY <2>2, <2>3, <1>1
  <1>7. e \in [0..n -> 1..Len(t) + 1] /\ e[0] = c[m] /\ e[n] = p /\ \A k \in 0..n : e[k] = c[m + k]
    BY <1>1, <1>3
  <1>8. d \in [0..m -> 1..Len(t) + 1] /\ d[0] = 1 /\ d[m] = c[m] /\ \A k \in 0..m : d[k] = c[k]
    BY <1>1, <1>3
  <1> HIDE DEF m, n, e, d, A
  <1>9. ASSUME NEW k \in 1..n
        PROVE  Phrase(t, takes[k], a[k], e[k - 1], e[k])
    <2> DEFINE i == m + k
    <2>1. i \in 1..m + n /\ takes[k] = A[i] /\ a[k] = vs[i]
      <3>1. i \in 1..m + n
        BY <1>1
      <3>2. takes[k] = A[i]
        BY <1>2
      <3>3. a[k] = vs[i]
        BY <1>5
      <3> QED  BY <3>1, <3>2, <3>3
    <2>2. e[k - 1] = c[i - 1] /\ e[k] = c[i]
      <3>1. k - 1 \in 0..n /\ k \in 0..n /\ m + (k - 1) = i - 1
        BY <1>1
      <3>2. e[k - 1] = c[m + (k - 1)] /\ e[k] = c[m + k]
        BY <3>1, <1>7
      <3> QED  BY <3>1, <3>2
    <2> HIDE DEF i
    <2>3. Phrase(t, A[i], vs[i], c[i - 1], c[i])
      BY <2>1, <1>3
    <2> QED  BY <2>1, <2>2, <2>3
  <1>10. Fit(t, b, ws, d, c[m])
    <2>1. ASSUME NEW k \in 1..m
          PROVE  Phrase(t, b[k], ws[k], d[k - 1], d[k])
      <3>1. k \in 1..m + n /\ k - 1 \in 0..m /\ k \in 0..m
        BY <1>1
      <3>2. b[k] = A[k]
        BY <1>2
      <3>3. ws[k] = vs[k]
        BY <1>6
      <3>4. d[k - 1] = c[k - 1] /\ d[k] = c[k]
        BY <3>1, <1>8
      <3>5. Phrase(t, A[k], vs[k], c[k - 1], c[k])
        BY <3>1, <1>3
      <3> QED  BY <3>2, <3>3, <3>4, <3>5
    <2> QED  BY <2>1, <1>6, <1>8 DEF Fit, m
  <1>11. \E d_ : Fit(t, b, ws, d_, c[m])
    BY <1>10
  <1> SUFFICES \E e_, q : /\ e_ \in [0..Len(takes) -> 1..Len(t) + 1] /\ e_[0] = q /\ e_[Len(takes)] = p
                          /\ \A k \in 1..Len(takes) : Phrase(t, takes[k], a[k], e_[k - 1], e_[k])
                          /\ Len(a) = Len(takes) /\ \E S_ : a \in Seq(S_)
                          /\ \E d_ : Fit(t, b, ws, d_, q)
    BY DEF OnTop
  <1> WITNESS e, c[m]
  <1> QED  BY <1>5, <1>7, <1>9, <1>11 DEF n

-----------------------------------------------------------------------------
(* What the steps do to the stacks.                                        *)

\* What is awaited first.
LEMMA AwaitedHead ==
  ASSUME NEW s, NEW token, Awaited(s, token), s # <<>>
  PROVE  /\ s \in Seq(Names) /\ Tail(s) \in Seq(Ordinary)
         /\ Head(s) \in Ordinary \/ (Head(s) = "=IfThen" /\ token # <<"else">>)
PROOF
  <1>1. CASE s \in Seq(Ordinary)
    <2>1. s \in Seq(Names)
      BY <1>1, SeqMonotonic DEF Ordinary
    <2> QED  BY <2>1, <1>1, HeadTailProperties
  <1>2. CASE token # <<"else">> /\ \E r \in Seq(Ordinary) : s = <<"=IfThen">> \o r
    <2>1. PICK r \in Seq(Ordinary) : s = <<"=IfThen">> \o r
      BY <1>2
    <2>2. "=IfThen" \in Names
      BY ZenonT(60) DEF Names, ActionNames
    <2>3. r \in Seq(Names) /\ <<"=IfThen">> \in Seq(Names)
      BY <2>2, SeqMonotonic, Sequence1 DEF Ordinary
    <2>4. /\ s \in Seq(Names) /\ Len(s) = 1 + Len(r)
          /\ \A k \in 1..1 + Len(r) : s[k] = IF k <= 1 THEN <<"=IfThen">>[k] ELSE r[k - 1]
      BY <2>1, <2>3, ConcatProperties
    <2>5. /\ Head(s) = s[1] /\ Tail(s) \in Seq(Names) /\ Len(Tail(s)) = Len(s) - 1
          /\ \A k \in 1..Len(Tail(s)) : Tail(s)[k] = s[k + 1]
      BY <2>4, HeadTailProperties
    <2>6. Head(s) = "=IfThen"
      BY <2>4, <2>5
    <2>7. Tail(s) = r
      <3>1. Len(Tail(s)) = Len(r) /\ \A k \in 1..Len(Tail(s)) : Tail(s)[k] = r[k]
        BY <2>4, <2>5
      <3> QED  BY <3>1, <2>3, <2>5, SeqEqual
    <2> QED  BY <1>2, <2>4, <2>6, <2>7
  <1> QED  BY <1>1, <1>2 DEF Awaited

\* One symbol.
LEMMA TypedOne ==
  ASSUME NEW x, NEW A \in Seq(Names), NEW B \in Seq(Names), Turns(x, A, B)
  PROVE  Typed(<<x>>, A, B)
PROOF
  <1> DEFINE N == [k \in 0..1 |-> IF k = 0 THEN A ELSE B]
             s == <<x>>
  <1>1. N \in [0..1 -> Seq(Names)] /\ N[0] = A /\ N[1] = B /\ Len(s) = 1 /\ s[1] = x
    OBVIOUS
  <1> HIDE DEF N, s
  <1>2. \A k \in 1..Len(s) : Turns(s[k], N[k - 1], N[k])
    BY <1>1
  <1>3. Typed(s, A, B)
    BY <1>1, <1>2 DEF Typed
  <1> QED  BY <1>3 DEF s

\* The end of an if statement is what ElseOpt may be.
LEMMA IfThenTyped ==
  ASSUME NEW A \in Seq(Names), NEW B \in Seq(Names), Turns("ElseOpt", A, B)
  PROVE  Typed(<<"=IfThen">>, A, B)
PROOF
  <1> DEFINE begun == <<"if", "Expression", "then", "Statement">>
  <1>1. From("ElseOpt", begun, "Statement")
    BY RestFrom, ZenonT(60) DEF RestRules, RestSignatures
  <1>2. <<"=IfThen", begun, "Statement">> \in ActionSignatures
    BY ZenonT(60) DEF ActionSignatures, StatementSignatures
  <1>3. /\ "=IfThen" \in Names /\ "Statement" \in Names
        /\ begun \in Seq(Names)
    <2>1. "=IfThen" \in Names
      BY ZenonT(60) DEF Names, ActionNames
    <2>2. "if" \in Ordinary /\ "Expression" \in Ordinary /\ "then" \in Ordinary /\ "Statement" \in Ordinary
      BY KindsAreOrdinary, RulesAreOrdinary
    <2> QED  BY <2>1, <2>2, Sequence4 DEF Ordinary
  <1> HIDE DEF begun
  <1>4. PICK b \in Seq(Names) : A = b \o begun /\ B = b & "Statement"
    BY <1>1 DEF From
  <1>5. Ends("=IfThen", begun, "Statement")
    BY <1>2, <1>3, SignatureEnds
  <1>6. Turns("=IfThen", A, B)
    BY <1>4, <1>5 DEF Ends
  <1> QED  BY <1>6, TypedOne

\* A sort of the tree.
LEMMA TheTreeIsNamed ==
  <<"ProgramModule">> \in Seq(Names)
PROOF
  <1>1. "ProgramModule" \in Names
    BY RulesAreOrdinary DEF Ordinary
  <1> QED  BY <1>1, Sequence1

\* An alternative that is predicted fits.
LEMMA ExpandReady ==
  ASSUME NEW s, NEW A, NEW c, NEW t, NEW vs, NEW p, Ready(s, A, c, t, vs, p), s # <<>>,
         Head(s) \in Rules, NEW alt \in Predicted(Head(s), t[p][1])
  PROVE  Ready(alt \o Tail(s), A, c, t, vs, p)
PROOF
  <1>1. /\ s \in Seq(Names) /\ Tail(s) \in Seq(Ordinary) /\ Head(s) \in Ordinary
    BY AwaitedHead, NoRules DEF Ready
  <1>2. PICK B \in Seq(Names) : Turns(Head(s), A, B) /\ Typed(Tail(s), B, <<"ProgramModule">>)
    BY <1>1, TypedHead, TheTreeIsNamed DEF Ready
  <1>3. A \in Seq(Names) /\ Tail(s) \in Seq(Names)
    BY <1>1, SeqMonotonic DEF Ready, Ordinary
  <1>4. alt \in Grammar[Head(s)]
    BY PredictedIs
  <1>5. CASE Fine(Head(s), alt)
    <2>1. alt \in Seq(Ordinary) /\ alt \in Seq(Names) /\ Typed(alt, A, B)
      BY <1>2, <1>3, <1>5, SeqMonotonic DEF Fine, Ordinary
    <2>2. Typed(alt \o Tail(s), A, <<"ProgramModule">>)
      BY <1>2, <1>3, <2>1, TypedCat
    <2>3. Awaited(alt \o Tail(s), t[p])
      BY <1>1, <2>1, ConcatProperties DEF Awaited
    <2> QED  BY <2>2, <2>3 DEF Ready
  <1>6. CASE Head(s) = "ElseOpt" /\ alt = <<"=IfThen">>
    <2>1. t[p] # <<"else">>
      <3>1. SUFFICES ASSUME t[p] = <<"else">>
                     PROVE  FALSE
        OBVIOUS
      <3>2. t[p][1] = "else"
        BY <3>1
      <3> QED  BY <3>2, <1>6, ElseIsShifted
    <2>2. Typed(alt, A, B)
      BY <1>2, <1>3, <1>6, IfThenTyped
    <2>3. alt \in Seq(Names)
      <3>1. "=IfThen" \in Names
        BY ZenonT(60) DEF Names, ActionNames
      <3> QED  BY <3>1, <1>6, Sequence1
    <2>4. Typed(alt \o Tail(s), A, <<"ProgramModule">>)
      BY <1>2, <1>3, <2>2, <2>3, TypedCat
    <2>5. Awaited(alt \o Tail(s), t[p])
      BY <1>1, <1>6, <2>1 DEF Awaited
    <2> QED  BY <2>4, <2>5 DEF Ready
  <1>7. Head(s) # "CompilationUnit"
    BY <1>1 DEF Ordinary
  <1> QED  BY <1>4, <1>5, <1>6, <1>7, AlternativesFit

\* A token is shifted.
LEMMA ShiftReady ==
  ASSUME NEW s, NEW A, NEW c, NEW t, NEW vs, NEW p \in 1..Len(t), Ready(s, A, c, t, vs, p), s # <<>>,
         Head(s) = t[p][1], t[p] \in Token,
         NEW v, v = IF t[p][1] \in HasValue THEN t[p][2] ELSE <<>>
  PROVE  \E B, d : Ready(Tail(s), B, d, t, Append(vs, v), p + 1)
PROOF
  <1>1. Head(s) \in Kinds /\ Phrase(t, Head(s), v, p, p + 1)
    BY TokenPhrase DEF Ready
  <1>2. Head(s) \in Plain /\ Head(s) \in Names /\ Head(s) # "=throw"
    BY <1>1, SymbolsAreNotThrown DEF Plain, Names
  <1>3. s \in Seq(Names) /\ Tail(s) \in Seq(Ordinary)
    BY AwaitedHead DEF Ready
  <1>4. PICK B \in Seq(Names) : Turns(Head(s), A, B) /\ Typed(Tail(s), B, <<"ProgramModule">>)
    BY <1>3, TypedHead, TheTreeIsNamed DEF Ready
  <1>5. B = A & Head(s)
    BY <1>2, <1>4 DEF Turns
  <1>6. PICK d : Fit(t, A & Head(s), Append(vs, v), d, p + 1)
    BY <1>1, <1>2, FitPush DEF Ready
  <1>7. Ready(Tail(s), B, d, t, Append(vs, v), p + 1)
    BY <1>3, <1>4, <1>5, <1>6 DEF Ready, Awaited
  <1> QED  BY <1>7

\* An action is taken.
LEMMA ReduceReady ==
  ASSUME NEW s, NEW A, NEW c, NEW t, NEW vs, NEW p, Ready(s, A, c, t, vs, p), s # <<>>,
         Head(s) \in Actions \ {"=throw"}
  PROVE  \E B, d :
           Ready(Tail(s), B, d, t,
                 Append(SubSeq(vs, 1, Len(vs) - Arity(Head(s))),
                        Built(Head(s), SubSeq(vs, Len(vs) - Arity(Head(s)) + 1, Len(vs)))), p)
PROOF
  <1> DEFINE x == Head(s)
  <1>1. s \in Seq(Names) /\ Tail(s) \in Seq(Ordinary) /\ (x = "=IfThen" => t[p] # <<"else">>)
    BY AwaitedHead DEF Ready, Ordinary
  <1>2. PICK B \in Seq(Names) : Turns(x, A, B) /\ Typed(Tail(s), B, <<"ProgramModule">>)
    BY <1>1, TypedHead, TheTreeIsNamed DEF Ready
  <1>3. x \notin Plain /\ x \notin RestRules /\ x # "=throw"
    BY ActionsAreSigned
  <1>4. PICK takes \in Seq(Names), gives \in Names, b \in Seq(Names) :
          <<x, takes, gives>> \in ActionSignatures /\ A = b \o takes /\ B = b & gives
    <2> HIDE DEF x
    <2> QED  BY <1>2, <1>3 DEF Turns, Signature
  <1>5. Makes(x, takes, gives) /\ Arity(x) = Len(takes)
    BY <1>4, SignatureMakes
  <1> DEFINE a == SubSeq(vs, Len(vs) - Len(takes) + 1, Len(vs))
             ws == SubSeq(vs, 1, Len(vs) - Len(takes))
  <1>6. PICK e, q :
          /\ e \in [0..Len(takes) -> 1..Len(t) + 1] /\ e[0] = q /\ e[Len(takes)] = p
          /\ \A k \in 1..Len(takes) : Phrase(t, takes[k], a[k], e[k - 1], e[k])
          /\ Len(a) = Len(takes) /\ \E S : a \in Seq(S)
          /\ \E d : Fit(t, b, ws, d, q)
    <2>1. Fit(t, b \o takes, vs, c, p)
      BY <1>4 DEF Ready
    <2>2. a = SubSeq(vs, Len(vs) - Len(takes) + 1, Len(vs)) /\ ws = SubSeq(vs, 1, Len(vs) - Len(takes))
      OBVIOUS
    <2> HIDE DEF a, ws, x
    <2>3. OnTop(t, b, ws, takes, a, p)
      BY <2>1, <2>2, FitTaken
    <2> QED  BY <2>3 DEF OnTop
  <1> HIDE DEF x, a, ws
  <1>7. Phrase(t, gives, Built(x, a), q, p)
    BY <1>1, <1>5, <1>6 DEF Makes, Ready
  <1>8. PICK f : Fit(t, b, ws, f, q)
    BY <1>6
  <1>9. PICK d : Fit(t, b & gives, Append(ws, Built(x, a)), d, p)
    BY <1>7, <1>8, FitPush DEF Ready
  <1>10. Ready(Tail(s), B, d, t, Append(ws, Built(x, a)), p)
    BY <1>1, <1>2, <1>4, <1>9 DEF Ready, Awaited
  <1> QED  BY <1>5, <1>10 DEF x, a, ws

-----------------------------------------------------------------------------
(***************************************************************************)
(* The inductive invariant: before anything is read; while the program is  *)
(* read, when the symbols that are still to come turn the sorts of the     *)
(* values into that of the tree; and after the last token.                 *)
(***************************************************************************)
Symbols == Kinds \cup Rules \cup Actions

tokens == Append(text, <<"EOF">>)

IsTree(v) == Phrase(tokens, "ProgramModule", v, 1, Len(text) + 1)

Begun == stack = <<"CompilationUnit">> /\ pos = 1 /\ values = <<>>

Reading ==
  \E s, A, c : /\ stack = s \o <<"EOF", "=set_ast">> /\ pos <= Len(text) + 1
               /\ Ready(s, A, c, tokens, values, pos)

AtEnd == stack = <<"=set_ast">> /\ pos = Len(text) + 2 /\ \E v, w : values = <<v, w>> /\ IsTree(v)

IInv ==
  /\ text \in Texts /\ pos \in 1..Len(text) + 2
  /\ phase \in {"parsing", "accepted", "error", "thrown"}
  /\ stack \in Seq(Symbols)
  /\ \/ /\ phase = "accepted" /\ stack = <<>> /\ values = <<>> /\ pos = Len(text) + 2
        /\ \E v : ast = <<v>> /\ IsTree(v)
     \/ phase # "accepted" /\ ast = <<>> /\ (Begun \/ Reading \/ AtEnd)

\* The tokens.
LEMMA TokensAre ==
  ASSUME text \in Texts
  PROVE  /\ text \in Seq(Token) /\ Len(text) \in Nat
         /\ tokens \in Seq(Token \cup {<<"EOF">>}) /\ Len(tokens) = Len(text) + 1
         /\ \A k \in 1..Len(text) : tokens[k] = text[k]
         /\ tokens[Len(text) + 1] = <<"EOF">>
PROOF
  <1>1. text \in Seq(Token)
    BY TextsAreTokens
  <1>2. text \in Seq(Token \cup {<<"EOF">>})
    BY <1>1, SeqMonotonic
  <1>3. <<"EOF">> \in Token \cup {<<"EOF">>}
    OBVIOUS
  <1> HIDE DEF tokens
  <1>4. /\ Append(text, <<"EOF">>) \in Seq(Token \cup {<<"EOF">>})
        /\ Len(Append(text, <<"EOF">>)) = Len(text) + 1
        /\ \A k \in 1..Len(text) : Append(text, <<"EOF">>)[k] = text[k]
        /\ Append(text, <<"EOF">>)[Len(text) + 1] = <<"EOF">>
    BY <1>2, <1>3, AppendProperties
  <1> QED  BY <1>1, <1>4 DEF tokens

\* The next token.
LEMMA LookaheadIs ==
  ASSUME text \in Texts, pos \in 1..Len(text) + 1
  PROVE  /\ lookahead = tokens[pos] /\ pos \in 1..Len(tokens)
         /\ pos <= Len(text) => lookahead \in Token
         /\ pos = Len(text) + 1 => lookahead = <<"EOF">>
PROOF
  <1>1. CASE pos <= Len(text)
    <2>1. pos \in 1..Len(text) /\ text[pos] \in Token
      BY <1>1, TokensAre
    <2> QED  BY <2>1, <1>1, TokensAre DEF lookahead
  <1>2. CASE pos = Len(text) + 1
    BY <1>2, TokensAre DEF lookahead
  <1> QED  BY <1>1, <1>2, TokensAre

\* No token of the text is the end.
LEMMA TokensAreNotTheEnd ==
  ASSUME NEW token \in Token
  PROVE  token[1] # "EOF"
PROOF
  <1>1. CASE token \in {"identifier"} \X Ident
    BY <1>1
  <1>2. CASE token \in {"string"} \X STRING
    BY <1>2
  <1>3. CASE token \in {"number"} \X (0..MaxLiteral)
    BY <1>3
  <1>4. CASE token \in {<<kind>> : kind \in Kinds \ (HasValue \cup {"EOF"})}
    BY <1>4
  <1> QED  BY <1>1, <1>2, <1>3, <1>4 DEF Token

\* The symbols before the end.
LEMMA BeforeTheEnd ==
  ASSUME NEW s \in Seq(Names)
  PROVE  LET e == <<"EOF", "=set_ast">>
         IN  IF s = <<>> THEN Head(s \o e) = "EOF" /\ Tail(s \o e) = <<"=set_ast">>
             ELSE Head(s \o e) = Head(s) /\ Tail(s \o e) = Tail(s) \o e
PROOF
  <1> DEFINE e == <<"EOF", "=set_ast">>
  <1>1. e \in Seq(Names) /\ Len(e) = 2 /\ e[1] = "EOF" /\ e[2] = "=set_ast"
    <2>1. "EOF" \in Names /\ "=set_ast" \in Names
      BY KindsArePlain, ZenonT(60) DEF Names, ActionNames
    <2> QED  BY <2>1, Sequence2
  <1>2. CASE s = <<>>
    <2>1. s \o e = e
      BY <1>1, <1>2, ConcatEmptySeq
    <2>2. Head(e) = "EOF" /\ Tail(e) = <<"=set_ast">>
      OBVIOUS
    <2> QED  BY <1>2, <2>1, <2>2
  <1>3. CASE s # <<>>
    <2> HIDE DEF e
    <2>0. Len(s) \in Nat /\ Len(s) >= 1
      BY <1>3, EmptySeq
    <2>8. /\ s \o e \in Seq(Names) /\ Len(s \o e) = Len(s) + Len(e)
          /\ \A k \in 1..Len(s) + Len(e) : (s \o e)[k] = IF k <= Len(s) THEN s[k] ELSE e[k - Len(s)]
      BY <1>1, ConcatProperties
    <2>1. /\ s \o e \in Seq(Names) /\ Len(s \o e) = Len(s) + 2 /\ Len(s) \in Nat /\ Len(s) >= 1
          /\ \A k \in 1..Len(s) + 2 : (s \o e)[k] = IF k <= Len(s) THEN s[k] ELSE e[k - Len(s)]
      BY <1>1, <2>0, <2>8
    <2>2. /\ Head(s) = s[1] /\ Tail(s) \in Seq(Names) /\ Len(Tail(s)) = Len(s) - 1
          /\ \A k \in 1..Len(Tail(s)) : Tail(s)[k] = s[k + 1]
      BY <1>3, HeadTailProperties
    <2>3. /\ Head(s \o e) = (s \o e)[1] /\ Tail(s \o e) \in Seq(Names)
          /\ Len(Tail(s \o e)) = Len(s) + 1
          /\ \A k \in 1..Len(s) + 1 : Tail(s \o e)[k] = (s \o e)[k + 1]
      BY <2>1, HeadTailProperties, EmptySeq
    <2>4. /\ Tail(s) \o e \in Seq(Names) /\ Len(Tail(s) \o e) = Len(s) + 1
          /\ \A k \in 1..Len(s) + 1 :
               (Tail(s) \o e)[k] = IF k <= Len(s) - 1 THEN Tail(s)[k] ELSE e[k - (Len(s) - 1)]
      BY <1>1, <2>1, <2>2, ConcatProperties
    <2>5. Head(s \o e) = Head(s)
      BY <2>1, <2>2, <2>3
    <2>6. \A k \in 1..Len(s) + 1 : Tail(s \o e)[k] = (Tail(s) \o e)[k]
      <3> TAKE k \in 1..Len(s) + 1
      <3>1. Tail(s \o e)[k] = IF k + 1 <= Len(s) THEN s[k + 1] ELSE e[k + 1 - Len(s)]
        BY <2>1, <2>3
      <3>2. k - (Len(s) - 1) = k + 1 - Len(s) /\ (k <= Len(s) - 1 <=> k + 1 <= Len(s))
        BY <2>1
      <3>3. k <= Len(s) - 1 => Tail(s)[k] = s[k + 1]
        BY <2>1, <2>2
      <3> QED  BY <3>1, <3>2, <3>3, <2>4
    <2>7. Tail(s \o e) = Tail(s) \o e
      BY <2>3, <2>4, <2>6, SeqEqual
    <2> QED  BY <1>3, <2>5, <2>7
  <1> QED  BY <1>2, <1>3

\* Everything has been read but the end.
LEMMA ReadyToEnd ==
  ASSUME NEW A, NEW c, NEW t, NEW vs, NEW p, Ready(<<>>, A, c, t, vs, p)
  PROVE  \E v : vs = <<v>> /\ Phrase(t, "ProgramModule", v, 1, p)
PROOF
  <1>1. A = <<"ProgramModule">>
    BY DEF Ready, Typed
  <1>2. PICK S : vs \in Seq(S)
    BY DEF Ready, Fit
  <1>3. Len(A) = 1 /\ A[1] = "ProgramModule" /\ 1 \in 1..Len(A)
    BY <1>1
  <1>4. Len(vs) = 1 /\ Phrase(t, "ProgramModule", vs[1], 1, p)
    BY <1>3 DEF Ready, Fit
  <1>5. vs = <<vs[1]>>
    BY <1>2, <1>4
  <1> QED  BY <1>4, <1>5

\* Nothing has been read, and a program is to come.
LEMMA ReadyToBegin ==
  ASSUME NEW t, \E S : t \in Seq(S)
  PROVE  \E A, c : Ready(<<"ProgramModule">>, A, c, t, <<>>, 1)
PROOF
  <1> DEFINE A == <<>>  c == [k \in {0} |-> 1]  s == <<"ProgramModule">>
  <1>1. A \in Seq(Names) /\ Len(A) = 0 /\ Len(t) \in Nat
    OBVIOUS
  <1>2. Fit(t, A, <<>>, c, 1)
    <2>1. c \in [0..Len(A) -> 1..Len(t) + 1] /\ c[0] = 1
      OBVIOUS
    <2>2. <<>> \in Seq({}) /\ Len(<<>>) = 0
      OBVIOUS
    <2>3. \A k \in 1..Len(A) : Phrase(t, A[k], <<>>[k], c[k - 1], c[k])
      OBVIOUS
    <2> HIDE DEF c
    <2> QED  BY <2>1, <2>2, <2>3 DEF Fit
  <1>3. Typed(s, A, <<"ProgramModule">>)
    <2>1. "ProgramModule" \in Plain /\ "ProgramModule" \in Names /\ "ProgramModule" # "=throw"
      BY RulesArePlain DEF Names
    <2>2. A & "ProgramModule" = <<"ProgramModule">>
      BY DEF &
    <2>3. Turns("ProgramModule", A, A & "ProgramModule")
      BY <2>1 DEF Turns
    <2> QED  BY <1>1, <2>2, <2>3, TypedOne, TheTreeIsNamed
  <1>4. s \in Seq(Ordinary)
    BY RulesAreOrdinary, Sequence1
  <1> HIDE DEF s, A, c
  <1>5. Ready(s, A, c, t, <<>>, 1)
    BY <1>1, <1>2, <1>3, <1>4 DEF Ready, Awaited
  <1> QED  BY <1>5 DEF s

\* An alternative consists of symbols.
LEMMA AlternativesAreSymbols ==
  ASSUME NEW rule \in Rules, NEW alt \in Grammar[rule]
  PROVE  alt \in Seq(Symbols)
PROOF
  <1>1. \E S : alt \in Seq(S)
    <2>1. alt \in Seq(Ordinary) \/ alt \in {<<"=IfThen">>, <<"ProgramModule", "EOF", "=set_ast">>}
      BY AlternativesFit DEF Fine
    <2>2. <<"=IfThen">> \in Seq({"=IfThen"})
      BY Sequence1
    <2>3. <<"ProgramModule", "EOF", "=set_ast">> \in Seq({"ProgramModule", "EOF", "=set_ast"})
      BY Sequence3
    <2> QED  BY <2>1, <2>2, <2>3
  <1>2. PICK S : alt \in Seq(S)
    BY <1>1
  <1>3. PICK q \in Productions : q[2] = alt
    BY DEF Grammar
  <1>4. ASSUME NEW k \in 1..Len(alt)
        PROVE  alt[k] \in Symbols
    <2>1. k \in DOMAIN alt
      BY <1>2
    <2>2. alt[k] \in ToSet(alt)
      BY <2>1 DEF ToSet
    <2>3. alt[k] \in UNION {ToSet(p[2]) : p \in Productions}
      BY <2>2, <1>3
    <2> QED  BY <2>3 DEF Symbols, Actions
  <1> QED  BY <1>2, <1>4, SeqOver

\* The invariant holds at first.
LEMMA InitIInv ==
  Init => IInv
PROOF
  <1> SUFFICES ASSUME Init
               PROVE  IInv
    OBVIOUS
  <1>1. text \in Texts /\ Len(text) \in Nat
    BY TokensAre DEF Init
  <1>2. "CompilationUnit" \in Symbols
    BY DeclarationRulesHave DEF Symbols
  <1>3. stack \in Seq(Symbols)
    BY <1>2, Sequence1 DEF Init
  <1> QED  BY <1>1, <1>3 DEF Init, IInv, Begun

\* A program, and the end.
LEMMA ProgramAndEnd ==
  <<"ProgramModule">> \o <<"EOF", "=set_ast">> = <<"ProgramModule", "EOF", "=set_ast">>
PROOF
  <1> DEFINE S == {"ProgramModule", "EOF", "=set_ast"}
             e == <<"EOF", "=set_ast">>
             p == <<"ProgramModule">>
             s == p \o e
             t == <<"ProgramModule", "EOF", "=set_ast">>
  <1>1. /\ p \in Seq(S) /\ Len(p) = 1 /\ p[1] = "ProgramModule"
        /\ e \in Seq(S) /\ Len(e) = 2 /\ e[1] = "EOF" /\ e[2] = "=set_ast"
    BY Sequence1, Sequence2
  <1>2. /\ t \in Seq(S) /\ Len(t) = 3
        /\ t[1] = "ProgramModule" /\ t[2] = "EOF" /\ t[3] = "=set_ast"
    BY Sequence3
  <1> HIDE DEF S, e, p, t
  <1>3. /\ s \in Seq(S) /\ Len(s) = Len(p) + Len(e)
        /\ \A i \in 1..Len(p) + Len(e) : s[i] = IF i <= Len(p) THEN p[i] ELSE e[i - Len(p)]
    BY <1>1, ConcatProperties
  <1> HIDE DEF s
  <1>4. Len(s) = 3 /\ s[1] = t[1] /\ s[2] = t[2] /\ s[3] = t[3]
    BY <1>1, <1>2, <1>3
  <1>5. \A i \in 1..Len(s) : s[i] = t[i]
    BY <1>4
  <1>6. s = t
    BY <1>2, <1>3, <1>4, <1>5, SeqEqual
  <1> QED  BY <1>6 DEF s, t, e, p

\* What is ready consists of names.
LEMMA ReadyNamed ==
  ASSUME NEW s, NEW A, NEW c, NEW t, NEW vs, NEW p, Ready(s, A, c, t, vs, p)
  PROVE  s \in Seq(Names)
PROOF
  <1>1. CASE s = <<>>
    BY <1>1, EmptySeq
  <1>2. CASE s # <<>>
    BY <1>2, AwaitedHead DEF Ready
  <1> QED  BY <1>1, <1>2

\* The state while the program is read.
LEMMA ReadingIs ==
  ASSUME text \in Texts, pos \in 1..Len(text) + 2, Reading
  PROVE  \E s, A, c : /\ Ready(s, A, c, tokens, values, pos)
                      /\ s \in Seq(Names) /\ stack = s \o <<"EOF", "=set_ast">>
                      /\ pos \in 1..Len(text) + 1 /\ lookahead = tokens[pos]
                      /\ s = <<>> => Head(stack) = "EOF" /\ Tail(stack) = <<"=set_ast">>
                      /\ s # <<>> => /\ Head(stack) = Head(s)
                                     /\ Tail(stack) = Tail(s) \o <<"EOF", "=set_ast">>
PROOF
  <1>1. PICK s, A, c : /\ stack = s \o <<"EOF", "=set_ast">> /\ pos <= Len(text) + 1
                       /\ Ready(s, A, c, tokens, values, pos)
    BY DEF Reading
  <1>2. s \in Seq(Names)
    BY <1>1, ReadyNamed
  <1>3. pos \in 1..Len(text) + 1 /\ lookahead = tokens[pos]
    BY <1>1, TokensAre, LookaheadIs
  <1> QED  BY <1>1, <1>2, <1>3, BeforeTheEnd

\* Something is still to come.
LEMMA StackIsNotEmpty ==
  ASSUME Begun \/ Reading \/ AtEnd
  PROVE  stack # <<>>
PROOF
  <1>1. CASE Reading
    <2>1. PICK s \in Seq(Names) : stack = s \o <<"EOF", "=set_ast">>
      BY <1>1, ReadyNamed DEF Reading
    <2>2. <<"EOF", "=set_ast">> \in Seq({"EOF", "=set_ast"}) /\ Len(<<"EOF", "=set_ast">>) = 2
      BY Sequence2
    <2>3. Len(stack) = Len(s) + 2 /\ Len(s) \in Nat
      <3>1. s \in Seq(Names \cup {"EOF", "=set_ast"}) /\ <<"EOF", "=set_ast">> \in Seq(Names \cup {"EOF", "=set_ast"})
        BY <2>2, SeqMonotonic
      <3> QED  BY <2>1, <2>2, <3>1, ConcatProperties
    <2> QED  BY <2>3, EmptySeq
  <1>2. CASE Begun
    BY <1>2 DEF Begun
  <1>3. CASE AtEnd
    BY <1>3 DEF AtEnd
  <1> QED  BY <1>1, <1>2, <1>3

\* An alternative in front of what is awaited.
LEMMA AppendTheEnd ==
  ASSUME NEW S, NEW alt \in Seq(S), NEW s \in Seq(Ordinary)
  PROVE  alt \o (s \o <<"EOF", "=set_ast">>) = (alt \o s) \o <<"EOF", "=set_ast">>
PROOF
  <1> DEFINE T == S \cup Ordinary \cup {"EOF", "=set_ast"}
             e == <<"EOF", "=set_ast">>
  <1>1. alt \in Seq(T) /\ s \in Seq(T)
    BY SeqMonotonic
  <1>2. e \in Seq(T)
    BY Sequence2
  <1> HIDE DEF T, e
  <1>3. alt \o (s \o e) = (alt \o s) \o e
    BY <1>1, <1>2, ConcatAssociative
  <1> QED  BY <1>3 DEF e

\* A token begins with its kind.
LEMMA TokenKinds ==
  ASSUME NEW token, token \in Token \/ token = <<"EOF">>
  PROVE  token[1] \in Kinds
PROOF
  <1>1. HasValue \subseteq Kinds /\ "EOF" \in Kinds
    BY DEF Kinds
  <1>2. CASE token \in {"identifier"} \X Ident
    BY <1>1, <1>2 DEF HasValue
  <1>3. CASE token \in {"string"} \X STRING
    BY <1>1, <1>3 DEF HasValue
  <1>4. CASE token \in {"number"} \X (0..MaxLiteral)
    BY <1>1, <1>4 DEF HasValue
  <1>5. CASE token \in {<<kind>> : kind \in Kinds \ (HasValue \cup {"EOF"})}
    BY <1>5
  <1>6. CASE token = <<"EOF">>
    BY <1>1, <1>6
  <1> QED  BY <1>2, <1>3, <1>4, <1>5, <1>6 DEF Token

\* These symbols are no kinds of tokens.
LEMMA NoKinds ==
  "CompilationUnit" \notin Kinds /\ "=set_ast" \notin Kinds /\ "=throw" \notin Kinds
PROOF
  BY DEF Kinds, HasValue

\* Expand keeps it.
LEMMA ExpandIInv ==
  ASSUME IInv, Expand
  PROVE  IInv'
PROOF
  <1>1. phase = "parsing" /\ Head(stack) \in Rules /\ UNCHANGED <<text, pos, values, ast, phase>>
    BY DEF Expand
  <1>2. /\ text \in Texts /\ pos \in 1..Len(text) + 2 /\ stack \in Seq(Symbols)
        /\ ast = <<>> /\ (Begun \/ Reading \/ AtEnd)
    BY <1>1 DEF IInv
  <1>3. PICK alt \in Predicted(Head(stack), lookahead[1]) : stack' = alt \o Tail(stack)
    BY DEF Expand
  <1>4. alt \in Grammar[Head(stack)]
    BY <1>1, PredictedIs
  <1>5. stack # <<>>
    BY <1>2, StackIsNotEmpty
  <1>6. stack' \in Seq(Symbols)
    <2>1. alt \in Seq(Symbols)
      BY <1>1, <1>4, AlternativesAreSymbols
    <2>2. Tail(stack) \in Seq(Symbols)
      BY <1>2, <1>5, HeadTailProperties
    <2> QED  BY <1>3, <2>1, <2>2, ConcatProperties
  <1>7. CASE Begun
    <2>1. Head(stack) = "CompilationUnit" /\ Tail(stack) = <<>>
      BY <1>7 DEF Begun
    <2>2. alt = <<"ProgramModule", "EOF", "=set_ast">>
      BY <1>1, <1>4, <2>1, AlternativesFit DEF Ordinary
    <2>3. stack' = <<"ProgramModule">> \o <<"EOF", "=set_ast">>
      <3>1. alt \o <<>> = alt
        BY <1>4, AlternativesAreSymbols, <1>1, ConcatEmptySeq
      <3> QED  BY <1>3, <2>1, <2>2, <3>1, ProgramAndEnd
    <2>4. PICK A, c : Ready(<<"ProgramModule">>, A, c, tokens, <<>>, 1)
      BY <1>2, TokensAre, ReadyToBegin
    <2>5. tokens' = tokens /\ values' = <<>> /\ pos' = 1 /\ 1 <= Len(text) + 1
      BY <1>1, <1>2, <1>7, TokensAre DEF tokens, Begun
    <2>6. Reading'
      <3>1. pos' <= Len(text') + 1 /\ Ready(<<"ProgramModule">>, A, c, tokens', values', pos')
        BY <1>1, <1>2, <2>4, <2>5, TokensAre
      <3> QED  BY <2>3, <3>1, Zenon DEF Reading
    <2> QED  BY <1>1, <1>2, <1>6, <2>6 DEF IInv
  <1>8. CASE Reading
    <2>1. PICK s, A, c : /\ Ready(s, A, c, tokens, values, pos)
                         /\ s \in Seq(Names) /\ stack = s \o <<"EOF", "=set_ast">>
                         /\ pos \in 1..Len(text) + 1 /\ lookahead = tokens[pos]
                         /\ s = <<>> => Head(stack) = "EOF" /\ Tail(stack) = <<"=set_ast">>
                         /\ s # <<>> => /\ Head(stack) = Head(s)
                                        /\ Tail(stack) = Tail(s) \o <<"EOF", "=set_ast">>
      BY <1>2, <1>8, ReadingIs
    <2>2. s # <<>>
      BY <1>1, <2>1, NoRules
    <2>3. Tail(s) \in Seq(Ordinary)
      BY <2>1, <2>2, AwaitedHead DEF Ready
    <2>5. Ready(alt \o Tail(s), A, c, tokens, values, pos)
      BY <1>1, <1>3, <2>1, <2>2, ExpandReady
    <2>6. stack' = (alt \o Tail(s)) \o <<"EOF", "=set_ast">>
      <3>1. alt \in Seq(Symbols)
        BY <1>1, <1>4, AlternativesAreSymbols
      <3> QED  BY <1>3, <2>1, <2>2, <2>3, <3>1, AppendTheEnd
    <2>7. tokens' = tokens
      BY <1>1 DEF tokens
    <2>8. Reading'
      <3>1. pos' <= Len(text') + 1
        BY <1>1, <1>2, <2>1, TokensAre
      <3>2. Ready(alt \o Tail(s), A, c, tokens', values', pos')
        BY <1>1, <2>5, <2>7
      <3> QED  BY <2>6, <3>1, <3>2, Zenon DEF Reading
    <2> QED  BY <1>1, <1>2, <1>6, <2>8 DEF IInv
  <1>9. CASE AtEnd
    <2>1. Head(stack) = "=set_ast"
      BY <1>9 DEF AtEnd
    <2> QED  BY <1>1, <2>1, NoRules
  <1> QED  BY <1>2, <1>7, <1>8, <1>9

\* A second value.
LEMMA AppendOne ==
  ASSUME NEW w, NEW v
  PROVE  Append(<<w>>, v) = <<w, v>>
PROOF
  <1> DEFINE S == {w, v}
             s == <<w>>
             r == <<w, v>>
  <1>1. w \in S /\ v \in S
    OBVIOUS
  <1>2. s \in Seq(S) /\ Len(s) = 1 /\ s[1] = w
    BY <1>1, ListOfOne
  <1>3. r \in Seq(S) /\ Len(r) = 2 /\ r[1] = w /\ r[2] = v
    BY <1>1, Sequence2
  <1> HIDE DEF S, s, r
  <1>4. /\ Append(s, v) \in Seq(S) /\ Len(Append(s, v)) = 2
        /\ Append(s, v)[1] = w /\ Append(s, v)[2] = v
    <2>1. /\ Append(s, v) \in Seq(S) /\ Len(Append(s, v)) = Len(s) + 1
          /\ \A i \in 1..Len(s) : Append(s, v)[i] = s[i]
          /\ Append(s, v)[Len(s) + 1] = v
      BY <1>1, <1>2, AppendProperties, ZenonT(60)
    <2>2. Len(s) + 1 = 2 /\ 1 \in 1..Len(s)
      BY <1>2
    <2> QED  BY <1>2, <2>1, <2>2
  <1>5. Append(s, v) = r
    BY <1>3, <1>4, SeqEqual
  <1> QED  BY <1>5 DEF s, r

\* Shift keeps it.
LEMMA ShiftIInv ==
  ASSUME IInv, Shift
  PROVE  IInv'
PROOF
  <1>1. phase = "parsing" /\ Head(stack) = lookahead[1] /\ UNCHANGED <<text, ast, phase>>
    BY DEF Shift
  <1>2. /\ text \in Texts /\ pos \in 1..Len(text) + 2 /\ stack \in Seq(Symbols)
        /\ ast = <<>> /\ (Begun \/ Reading \/ AtEnd)
    BY <1>1 DEF IInv
  <1> DEFINE v == IF lookahead[1] \in HasValue THEN lookahead[2] ELSE <<>>
  <1>3. pos' = pos + 1 /\ stack' = Tail(stack) /\ values' = Append(values, v)
    BY DEF Shift
  <1>4. stack' \in Seq(Symbols)
    BY <1>2, <1>3, StackIsNotEmpty, HeadTailProperties
  <1>5. tokens' = tokens
    BY <1>1 DEF tokens
  <1>6. text \in Seq(Token) /\ Len(text) \in Nat
    BY <1>2, TokensAre
  <1>7. CASE Begun
    <2>1. Head(stack) = "CompilationUnit"
      BY <1>7 DEF Begun
    <2>2. pos \in 1..Len(text) + 1
      BY <1>6, <1>7 DEF Begun
    <2>3. lookahead \in Token \/ lookahead = <<"EOF">>
      BY <1>2, <1>6, <2>2, LookaheadIs
    <2>4. lookahead[1] \in Kinds
      BY <2>3, TokenKinds
    <2> QED  BY <1>1, <2>1, <2>4, NoKinds
  <1>8. CASE Reading
    <2>1. PICK s, A, c : /\ Ready(s, A, c, tokens, values, pos)
                         /\ s \in Seq(Names) /\ stack = s \o <<"EOF", "=set_ast">>
                         /\ pos \in 1..Len(text) + 1 /\ lookahead = tokens[pos]
                         /\ s = <<>> => Head(stack) = "EOF" /\ Tail(stack) = <<"=set_ast">>
                         /\ s # <<>> => /\ Head(stack) = Head(s)
                                        /\ Tail(stack) = Tail(s) \o <<"EOF", "=set_ast">>
      BY <1>2, <1>8, ReadingIs
    <2>2. pos' \in 1..Len(text) + 2
      BY <1>3, <1>6, <2>1
    <2>3. CASE s = <<>>
      <3>1. pos = Len(text) + 1
        <4>1. lookahead[1] = "EOF"
          BY <1>1, <2>1, <2>3
        <4>2. lookahead \notin Token
          BY <4>1, TokensAreNotTheEnd
        <4> QED  BY <1>2, <1>6, <2>1, <4>2, LookaheadIs
      <3>2. PICK w : values = <<w>> /\ Phrase(tokens, "ProgramModule", w, 1, pos)
        BY <2>1, <2>3, ReadyToEnd
      <3>3. values' = <<w, v>>
        <4> HIDE DEF v
        <4>1. Append(<<w>>, v) = <<w, v>>
          BY AppendOne
        <4> QED  BY <1>3, <3>2, <4>1
      <3>4. IsTree(w)'
        BY <1>1, <1>5, <3>1, <3>2 DEF IsTree
      <3>5. stack' = <<"=set_ast">> /\ pos' = Len(text') + 2
        BY <1>1, <1>3, <1>6, <2>1, <2>3, <3>1
      <3>6. AtEnd'
        BY <3>3, <3>4, <3>5, Zenon DEF AtEnd
      <3> QED  BY <1>1, <1>2, <1>4, <2>2, <3>6 DEF IInv
    <2>4. CASE s # <<>>
      <3>1. lookahead \in Token /\ pos <= Len(text)
        <4>1. Head(s) # "EOF"
          BY <2>1, <2>4, AwaitedHead DEF Ready, Ordinary
        <4>2. lookahead # <<"EOF">>
          <5>1. SUFFICES ASSUME lookahead = <<"EOF">>
                         PROVE  FALSE
            OBVIOUS
          <5>2. lookahead[1] = "EOF"
            BY <5>1
          <5> QED  BY <1>1, <2>1, <2>4, <4>1, <5>2
        <4> QED  BY <1>2, <1>6, <2>1, <4>2, LookaheadIs
      <3>2. pos \in 1..Len(tokens)
        BY <1>2, <1>6, <2>1, TokensAre
      <3>3. PICK B, d : Ready(Tail(s), B, d, tokens, Append(values, v), pos + 1)
        <4>1. Head(s) = tokens[pos][1] /\ tokens[pos] \in Token
          BY <1>1, <2>1, <2>4, <3>1
        <4>2. v = IF tokens[pos][1] \in HasValue THEN tokens[pos][2] ELSE <<>>
          BY <2>1
        <4> HIDE DEF v
        <4> QED  BY <2>1, <2>4, <3>2, <4>1, <4>2, ShiftReady
      <3>4. stack' = Tail(s) \o <<"EOF", "=set_ast">>
        BY <1>3, <2>1, <2>4
      <3>5. pos' <= Len(text') + 1 /\ Ready(Tail(s), B, d, tokens', values', pos')
        BY <1>1, <1>3, <1>5, <1>6, <2>1, <3>1, <3>3
      <3>6. Reading'
        BY <3>4, <3>5, Zenon DEF Reading
      <3> QED  BY <1>1, <1>2, <1>4, <2>2, <3>6 DEF IInv
    <2> QED  BY <2>3, <2>4
  <1>9. CASE AtEnd
    <2>1. Head(stack) = "=set_ast" /\ pos > Len(text)
      BY <1>6, <1>9 DEF AtEnd
    <2>2. lookahead[1] = "EOF"
      BY <1>2, <1>6, <2>1 DEF lookahead
    <2> QED  BY <1>1, <2>1, <2>2
  <1> QED  BY <1>2, <1>7, <1>8, <1>9

\* Reduce keeps it.
LEMMA ReduceIInv ==
  ASSUME IInv, Reduce
  PROVE  IInv'
PROOF
  <1> DEFINE x == Head(stack)
  <1>1. /\ phase = "parsing" /\ x \in Actions \ {"=throw"} /\ x # "=set_ast"
        /\ UNCHANGED <<text, pos, ast, phase>>
    BY DEF Reduce
  <1>2. /\ text \in Texts /\ pos \in 1..Len(text) + 2 /\ stack \in Seq(Symbols)
        /\ ast = <<>> /\ (Begun \/ Reading \/ AtEnd)
    BY <1>1 DEF IInv
  <1> DEFINE vs == Append(SubSeq(values, 1, Len(values) - Arity(x)),
                          Built(x, SubSeq(values, Len(values) - Arity(x) + 1, Len(values))))
  <1>3. stack' = Tail(stack) /\ values' = vs
    BY DEF Reduce, Kept, Taken
  <1>4. stack' \in Seq(Symbols)
    BY <1>2, <1>3, StackIsNotEmpty, HeadTailProperties
  <1>5. x \notin Rules /\ x \notin Kinds
    BY <1>1 DEF Actions
  <1>6. tokens' = tokens
    BY <1>1 DEF tokens
  <1>7. CASE Begun
    <2>1. x = "CompilationUnit"
      BY <1>7 DEF Begun
    <2> QED  BY <1>5, <2>1, DeclarationRulesHave
  <1>8. CASE Reading
    <2>1. PICK s, A, c : /\ Ready(s, A, c, tokens, values, pos)
                         /\ s \in Seq(Names) /\ stack = s \o <<"EOF", "=set_ast">>
                         /\ pos \in 1..Len(text) + 1 /\ lookahead = tokens[pos]
                         /\ s = <<>> => Head(stack) = "EOF" /\ Tail(stack) = <<"=set_ast">>
                         /\ s # <<>> => /\ Head(stack) = Head(s)
                                        /\ Tail(stack) = Tail(s) \o <<"EOF", "=set_ast">>
      BY <1>2, <1>8, ReadingIs
    <2>2. s # <<>>
      <3>1. "EOF" \in Kinds
        BY DEF Kinds
      <3> QED  BY <1>5, <2>1, <3>1
    <2>3. Head(s) = x
      BY <2>1, <2>2
    <2>4. PICK B, d : Ready(Tail(s), B, d, tokens, vs, pos)
      <3> HIDE DEF x
      <3> QED  BY <1>1, <2>1, <2>2, <2>3, ReduceReady
    <2> HIDE DEF x, vs
    <2>5. stack' = Tail(s) \o <<"EOF", "=set_ast">>
      BY <1>3, <2>1, <2>2
    <2>6. pos' <= Len(text') + 1 /\ Ready(Tail(s), B, d, tokens', values', pos')
      BY <1>1, <1>2, <1>3, <1>6, <2>1, <2>4, TokensAre
    <2>7. Reading'
      BY <2>5, <2>6, Zenon DEF Reading
    <2> QED  BY <1>1, <1>2, <1>4, <2>7 DEF IInv
  <1>9. CASE AtEnd
    BY <1>1, <1>9 DEF AtEnd
  <1> QED  BY <1>2, <1>7, <1>8, <1>9

\* The action that ends the parse keeps it.
LEMMA SetAstIInv ==
  ASSUME IInv, set_ast
  PROVE  IInv'
PROOF
  <1>1. /\ phase = "parsing" /\ Head(stack) = "=set_ast" /\ phase' = "accepted"
        /\ stack' = Tail(stack) /\ ast' = <<Taken("=set_ast")[1]>> /\ values' = Kept("=set_ast")
        /\ UNCHANGED <<text, pos>>
    BY DEF set_ast
  <1>2. /\ text \in Texts /\ pos \in 1..Len(text) + 2 /\ stack \in Seq(Symbols)
        /\ ast = <<>> /\ (Begun \/ Reading \/ AtEnd)
    BY <1>1 DEF IInv
  <1>3. CASE Begun
    BY <1>1, <1>3 DEF Begun
  <1>4. CASE Reading
    <2>1. PICK s, A, c : /\ Ready(s, A, c, tokens, values, pos)
                         /\ s \in Seq(Names) /\ stack = s \o <<"EOF", "=set_ast">>
                         /\ pos \in 1..Len(text) + 1 /\ lookahead = tokens[pos]
                         /\ s = <<>> => Head(stack) = "EOF" /\ Tail(stack) = <<"=set_ast">>
                         /\ s # <<>> => /\ Head(stack) = Head(s)
                                        /\ Tail(stack) = Tail(s) \o <<"EOF", "=set_ast">>
      BY <1>2, <1>4, ReadingIs
    <2>2. CASE s = <<>>
      BY <1>1, <2>1, <2>2
    <2>3. CASE s # <<>>
      BY <1>1, <2>1, <2>3, AwaitedHead DEF Ready, Ordinary
    <2> QED  BY <2>2, <2>3
  <1>5. CASE AtEnd
    <2>1. PICK v, w : values = <<v, w>> /\ IsTree(v)
      BY <1>5 DEF AtEnd
    <2>2. Arity("=set_ast") = 2
      BY DEF Arity, Enumerators, AddOp, MultOp, RelOp
    <2>3. Taken("=set_ast")[1] = v /\ Kept("=set_ast") = <<>>
      BY <2>1, <2>2 DEF Taken, Kept
    <2>4. stack' = <<>> /\ values' = <<>> /\ pos' = Len(text') + 2
      BY <1>1, <1>5, <2>3 DEF AtEnd
    <2>5. ast' = <<v>> /\ IsTree(v)'
      BY <1>1, <2>1, <2>3 DEF IsTree, tokens
    <2>6. stack' \in Seq(Symbols)
      BY <2>4, EmptySeq
    <2> QED  BY <1>1, <1>2, <2>4, <2>5, <2>6 DEF IInv
  <1> QED  BY <1>2, <1>3, <1>4, <1>5

\* So do the end of the call in an error, and a step in which nothing happens.
LEMMA StopsIInv ==
  ASSUME IInv, Throw \/ SyntaxError \/ UNCHANGED vars
  PROVE  IInv'
PROOF
  <1>1. UNCHANGED <<text, pos, stack, values, ast>>
    BY DEF Throw, SyntaxError, vars
  <1>2. \/ phase' = phase
        \/ phase = "parsing" /\ phase' \in {"error", "thrown"}
    BY DEF Throw, SyntaxError, vars
  <1>3. Begun' = Begun /\ Reading' = Reading /\ AtEnd' = AtEnd /\ \A v : IsTree(v)' = IsTree(v)
    BY <1>1 DEF Begun, Reading, AtEnd, IsTree, tokens
  <1> QED  BY <1>1, <1>2, <1>3 DEF IInv

\* Every step keeps it.
LEMMA NextIInv ==
  IInv /\ [Next]_vars => IInv'
PROOF
  BY ExpandIInv, ShiftIInv, ReduceIInv, SetAstIInv, StopsIInv DEF Next

\* The invariant holds.
LEMMA IInvHolds ==
  Spec => []IInv
PROOF
  BY InitIInv, NextIInv, PTL DEF Spec

\* The stacks of symbols and of values go together: an accepted text leaves
\* nothing on either, and one tree with the driver.
THEOREM TypeOKHolds ==
  Spec => []TypeOK
PROOF
  <1>1. IInv => TypeOK
    BY DEF IInv, TypeOK, Symbols
  <1> QED  BY <1>1, IInvHolds, PTL

\* What the driver gets is the tree of a program: every node has the shape
\* that the constructors of ast/*.hpp ask for.
THEOREM TreesAreProgramsHolds ==
  ASSUME AllTrees
  PROVE  Spec => [](\A k \in DOMAIN ast : ast[k] \in Of({"ProgramModule"}))
PROOF
  <1>1. IInv => \A k \in DOMAIN ast : ast[k] \in Of({"ProgramModule"})
    <2>1. ASSUME NEW v, IsTree(v)
          PROVE  v \in Of({"ProgramModule"})
      BY <2>1, PhraseIs, ProgramModuleSort DEF IsTree
    <2> QED  BY <2>1 DEF IInv
  <1> QED  BY <1>1, IInvHolds, PTL

\* The text that is accepted is a sentence of the tree that is built.
THEOREM ParsedAsWrittenHolds ==
  ASSUME AllTrees, SyntaxIsClosed
  PROVE  Spec => []ParsedAsWritten
PROOF
  <1>1. IInv => ParsedAsWritten
    <2> SUFFICES ASSUME IInv, NEW k \in DOMAIN ast
                 PROVE  text \in Tree(ast[k])
      BY DEF ParsedAsWritten
    <2>1. PICK v : ast = <<v>> /\ IsTree(v)
      BY DEF IInv
    <2>2. Spans(tokens, Tree(v), 1, Len(text) + 1)
      BY <2>1, PhraseIs, ProgramModuleSort DEF IsTree
    <2>3. SubSeq(tokens, 1, Len(text) + 1 - 1) = text
      <3>1. /\ text \in Seq(Token) /\ Len(text) \in Nat
            /\ tokens \in Seq(Token \cup {<<"EOF">>}) /\ Len(tokens) = Len(text) + 1
            /\ \A i \in 1..Len(text) : tokens[i] = text[i]
        BY TokensAre DEF IInv
      <3>2. \A i \in 1..Len(text) : tokens[i] \in Token
        BY <3>1, ElementOfSeq
      <3>3. /\ SubSeq(tokens, 1, Len(text)) \in Seq(Token)
            /\ Len(SubSeq(tokens, 1, Len(text))) = IF 1 <= Len(text) THEN Len(text) - 1 + 1 ELSE 0
            /\ \A i \in 1..Len(text) - 1 + 1 : SubSeq(tokens, 1, Len(text))[i] = tokens[1 + i - 1]
        BY <3>1, <3>2, SubSeqProperties
      <3>4. /\ Len(SubSeq(tokens, 1, Len(text))) = Len(text)
            /\ \A i \in 1..Len(text) : SubSeq(tokens, 1, Len(text))[i] = text[i]
        BY <3>1, <3>3
      <3>5. SubSeq(tokens, 1, Len(text)) = text
        BY <3>1, <3>3, <3>4, SeqEqual
      <3> QED  BY <3>1, <3>5
    <2>4. ast[k] = v
      BY <2>1
    <2>5. SubSeq(tokens, 1, Len(text) + 1 - 1) \in Tree(v)
      BY <2>2 DEF Spans
    <2> HIDE DEF tokens
    <2> QED  BY <2>3, <2>4, <2>5
  <1> QED  BY <1>1, IInvHolds, PTL

=============================================================================

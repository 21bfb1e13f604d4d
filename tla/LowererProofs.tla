--------------------------- MODULE LowererProofs ---------------------------
(***************************************************************************)
(* Theorems of Lowerer, for every set of units, every width of the integer *)
(* types, and LLVM with and without assertions.                            *)
(***************************************************************************)
EXTENDS Lowerer, TLAPS, SequenceTheorems, FiniteSetTheorems

(***************************************************************************)
(* The tree: what a node of each kind has.                                 *)
(***************************************************************************)
\* A node has the shape of its kind.
LEMMA ShapeOfKind ==
  ASSUME NEW n \in Node
  PROVE  /\ n.kind \in FactorKinds => IsFactor(n)
         /\ n.kind \in ChainKinds  => IsChain(n)
         /\ n.kind \in StmtKinds   => IsStmt(n)
         /\ n.kind \in DeclKinds   => IsDecl(n)
PROOF
  <1>1. IsNode(n)
    BY AstShape
  <1> QED BY <1>1 DEF IsNode, FactorKinds, ChainKinds, StmtKinds, IgnoredKinds,
                      DesignatorItemKinds, ConstKinds, TypeKinds, DeclKinds

\* The children of a statement are nodes, and the name it assigns to is an
\* identifier.
LEMMA StatementNodes ==
  ASSUME NEW n \in Node
  PROVE  /\ n.kind = "Assignment" => n.expr \in Node /\ n.target.ident \in Ident
         /\ n.kind = "ProcCall"   => /\ Len(n.params) \in Nat
                                     /\ \A k \in 1..Len(n.params) : n.params[k] \in Node
         /\ n.kind = "StmtSeq"    => /\ Len(n.stmts) \in Nat
                                     /\ \A k \in 1..Len(n.stmts) : n.stmts[k] \in Node
PROOF
  <1>1. n.kind \in {"Assignment", "ProcCall", "StmtSeq"} => IsStmt(n)
    BY ShapeOfKind DEF StmtKinds
  <1>2. CASE n.kind = "Assignment"
    <2>1. n \in [kind : {"Assignment"}, target : Designator, expr : Expr]
      BY <1>1, <1>2 DEF IsStmt
    <2>2. n.target \in Node /\ n.target.kind = "Designator" /\ n.expr \in Node
      BY <2>1 DEF Designator, Expr, Of
    <2>3. IsFactor(n.target)
      BY <2>2, ShapeOfKind DEF FactorKinds
    <2>4. n.target.ident \in Ident
      BY <2>2, <2>3 DEF IsFactor, FuncCall
    <2> QED BY <1>2, <2>2, <2>4
  <1>3. CASE n.kind = "ProcCall"
    <2>1. n \in [kind : {"ProcCall"}, proc : Ident, params : Seq(Expr)]
      BY <1>1, <1>3 DEF IsStmt
    <2> QED BY <1>3, <2>1 DEF Expr, Of
  <1>4. CASE n.kind = "StmtSeq"
    <2>1. n \in [kind : {"StmtSeq"}, stmts : Seq(Stmt) \ {<<>>}]
      BY <1>1, <1>4 DEF IsStmt
    <2> QED BY <1>4, <2>1 DEF Stmt, Of
  <1> QED BY <1>2, <1>3, <1>4

\* What a factor carries: a number, a truth value, a name or a node.
LEMMA FactorNodes ==
  ASSUME NEW n \in Node
  PROVE  /\ n.kind = "Number"     => n.int \in Int
         /\ n.kind = "Bool"       => n.bool \in BOOLEAN
         /\ n.kind = "Designator" => n.ident \in Ident
         /\ n.kind \in {"Paren", "Negation"} => n.inner \in Node
PROOF
  <1> SUFFICES ASSUME n.kind \in {"Number", "Bool", "Designator", "Paren", "Negation"}
               PROVE  /\ n.kind = "Number"     => n.int \in Int
                      /\ n.kind = "Bool"       => n.bool \in BOOLEAN
                      /\ n.kind = "Designator" => n.ident \in Ident
                      /\ n.kind \in {"Paren", "Negation"} => n.inner \in Node
    OBVIOUS
  <1>1. IsFactor(n)
    BY ShapeOfKind DEF FactorKinds
  <1>2. /\ n.kind = "Number"     => n \in [kind : {"Number"}, int : 0..MaxLiteral]
        /\ n.kind = "Bool"       => n \in [kind : {"Bool"}, bool : BOOLEAN]
        /\ n.kind = "Designator" => n \in [kind : {"Designator"}, ident : Ident,
                                           items : Seq(DesignatorItem)]
        /\ n.kind = "Paren"      => n \in [kind : {"Paren"}, inner : Expr]
        /\ n.kind = "Negation"   => n \in [kind : {"Negation"}, inner : Factor]
    BY <1>1 DEF IsFactor, FuncCall
  <1> QED BY <1>2 DEF Expr, Factor, Of

\* The elements of a sequence over S are in S.
LEMMA SeqElements ==
  ASSUME NEW S, NEW s \in Seq(S)
  PROVE  Len(s) \in Nat /\ DOMAIN s = 1..Len(s) /\ \A k \in 1..Len(s) : s[k] \in S
PROOF
  OBVIOUS

\* Each entry of an operator list has an operator and a node.
LEMMA OpsElements ==
  ASSUME NEW O, NEW S, O \subseteq MultOp \cup AddOp \cup RelOp, S \subseteq Node,
         NEW ops \in Seq([op : O, rhs : S])
  PROVE  /\ Len(ops) \in Nat
         /\ \A k \in 1..Len(ops) : /\ ops[k].rhs \in Node
                                   /\ ops[k].op \in MultOp \cup AddOp \cup RelOp
PROOF
  <1>1. Len(ops) \in Nat /\ \A k \in 1..Len(ops) : ops[k] \in [op : O, rhs : S]
    BY SeqElements, Zenon
  <1> QED BY <1>1

\* The operands of a Term, SimpleExpr or Expr are nodes.
LEMMA ChainNodes ==
  ASSUME NEW n \in Node, n.kind \in ChainKinds
  PROVE  /\ n.start \in Node
         /\ Len(n.ops) \in Nat
         /\ \A k \in 1..Len(n.ops) : /\ n.ops[k].rhs \in Node
                                     /\ n.ops[k].op \in MultOp \cup AddOp \cup RelOp
PROOF
  <1>1. IsChain(n)
    BY ShapeOfKind
  <1>2. CASE n \in [kind : {"Term"}, start : Factor,
                    ops : Seq([op : MultOp, rhs : Factor])]
    <2>1. n.start \in Factor /\ n.ops \in Seq([op : MultOp, rhs : Factor])
      BY <1>2
    <2>2. Factor \subseteq Node
      BY DEF Factor, Of
    <2> QED BY <2>1, <2>2, OpsElements, Zenon
  <1>3. CASE n \in [kind : {"SimpleExpr"}, unary : Sign,
                    start : Term, ops : Seq([op : AddOp, rhs : Term])]
    <2>1. n.start \in Term /\ n.ops \in Seq([op : AddOp, rhs : Term])
      BY <1>3
    <2>2. Term \subseteq Node
      BY DEF Term, Of
    <2> QED BY <2>1, <2>2, OpsElements, Zenon
  <1>4. CASE n \in [kind : {"Expr"}, start : SimpleExpr,
                    ops : Seq([op : RelOp, rhs : SimpleExpr])]
    <2>1. n.start \in SimpleExpr /\ n.ops \in Seq([op : RelOp, rhs : SimpleExpr])
      BY <1>4
    <2>2. SimpleExpr \subseteq Node
      BY DEF SimpleExpr, Of
    <2> QED BY <2>1, <2>2, OpsElements, Zenon
  <1> QED BY <1>1, <1>2, <1>3, <1>4 DEF IsChain

\* The declarations and the body of a unit.
LEMMA UnitParts ==
  ASSUME NEW u \in Units
  PROVE  /\ VarDecls(u) \in Seq(VarDecl)
         /\ Body(u) \in Node
         /\ \A d \in VarDecl : d.idents \in Seq(Ident) \ {<<>>}
PROOF
  <1>1. u \in Node /\ u.kind = "ProgramModule"
    BY AstShape DEF Of
  <1>2. u \in [kind : {"ProgramModule"}, name : Ident, block : Block]
    BY <1>1, ShapeOfKind DEF IsDecl, ProgramModule, DeclKinds
  <1>3. u.block \in Node /\ u.block.kind = "Block"
    BY <1>2 DEF Block, Of
  <1>4. u.block \in [kind : {"Block"}, decls : DeclarationsNode, body : StmtSeq]
    BY <1>3, ShapeOfKind DEF IsDecl, ProgramModule, DeclKinds
  <1>5. u.block.decls \in Node /\ u.block.decls.kind = "Declarations" /\ u.block.body \in Node
    BY <1>4 DEF DeclarationsNode, StmtSeq, Of
  <1>6. u.block.decls \in [kind : {"Declarations"}, consts : Seq(ConstDef),
                           types : Seq(TypeDef), vars : Seq(VarDecl),
                           subprogs : Seq(SubprogDecl)]
    BY <1>5, ShapeOfKind DEF IsDecl, ProgramModule, DeclKinds
  <1>7. ASSUME NEW d \in VarDecl
        PROVE  d.idents \in Seq(Ident) \ {<<>>}
    <2>1. d \in Node /\ d.kind = "VarDecl"
      BY DEF VarDecl, Of
    <2>2. d \in [kind : {"VarDecl"}, idents : Seq(Ident) \ {<<>>}, type : Type]
      BY <2>1, ShapeOfKind DEF IsDecl, ProgramModule, DeclKinds
    <2> QED BY <2>2
  <1> QED BY <1>5, <1>6, <1>7 DEF VarDecls, Body

-----------------------------------------------------------------------------
(***************************************************************************)
(* The IR: what folding yields is a value.                                 *)
(***************************************************************************)
\* Wrapping to a width gives an integer.
LEMMA WrapIsInt ==
  ASSUME NEW ty \in IntTypes, NEW x \in Int
  PROVE  Wrap(ty, x) \in Int
PROOF
  <1>1. Half[ty] \in Nat \ {0}
    BY IrAssumption
  <1>2. 2 * Half[ty] \in Nat \ {0}
    BY <1>1
  <1>3. (x + Half[ty]) % (2 * Half[ty]) \in Int
    <2>1. x + Half[ty] \in Int
      BY <1>1
    <2> DEFINE a == x + Half[ty] 
               b == 2 * Half[ty]
    <2> HIDE DEF a, b
    <2>2. a \in Int /\ b \in Int /\ b > 0
      BY <1>2, <2>1 DEF a, b
    <2>3. a % b \in Int
      BY <2>2
    <2> QED BY <2>3 DEF a, b
  <1> QED BY <1>1, <1>3 DEF Wrap

\* Truncating division by a number other than zero gives an integer.
LEMMA QuotientIsInt ==
  ASSUME NEW l \in Int, NEW r \in Int, r # 0
  PROVE  Quotient(l, r) \in Int
PROOF
  <1> DEFINE a == Magnitude(l) 
             b == Magnitude(r)
  <1>1. a \in Int /\ b \in Int /\ b > 0
    BY DEF Magnitude
  <1> HIDE DEF a, b
  <1>2. a \div b \in Int
    BY <1>1
  <1> QED BY <1>2 DEF a, b, Quotient

\* Arithmetic and comparison of two integers give a value.
LEMMA ComputeIsValue ==
  ASSUME NEW op \in ArithOps \cup CmpOps, NEW ty \in IntTypes,
         NEW l \in Int, NEW r \in Int
  PROVE  Compute(op, ty, l, r) \in Value
PROOF
  <1>1. /\ l + r \in Int /\ l - r \in Int /\ l * r \in Int /\ -1 - l \in Int
        /\ \A b \in BOOLEAN : Bit(b) \in Int
    BY DEF Bit
  <1>2. /\ Wrap(ty, l + r) \in Int /\ Wrap(ty, l - r) \in Int /\ Wrap(ty, l * r) \in Int
    BY <1>1, WrapIsInt
  <1>3. Divides(ty, l, r) => Quotient(l, r) \in Int /\ l - r * Quotient(l, r) \in Int
    BY QuotientIsInt DEF Divides
  <1>4. op \in {"add", "sub", "mul", "xor"} => Compute(op, ty, l, r) \in Int
    BY <1>1, <1>2 DEF Compute
  <1>5. op \in DivOps => Compute(op, ty, l, r) \in Int \cup {Undef}
    BY <1>3 DEF Compute, DivOps
  <1>6. op \in CmpOps => Compute(op, ty, l, r) \in Int
    BY DEF Compute, CmpOps, Bit
  <1> QED BY <1>4, <1>5, <1>6 DEF ArithOps, Value

\* The comparisons say nothing of the type, so pointers are included.
LEMMA ComparisonIsValue ==
  ASSUME NEW op \in CmpOps, NEW ty, NEW l \in Int, NEW r \in Int
  PROVE  Compute(op, ty, l, r) \in Value
PROOF
  BY DEF Compute, CmpOps, Bit, Value

\* The operands of an operation, as the evals pass them.
Args(op) == IF op = "select" THEN [1..3 -> Operand] ELSE [1..2 -> Operand]

\* What an operation makes of values is a value, where the types are right.
LEMMA ApplyIsValue ==
  ASSUME NEW op \in PureOps, NEW args \in Args(op), WellTyped(op, args),
         NEW vals, \A k \in DOMAIN args : vals[k] \in Value
  PROVE  Apply(op, args[1].ty, vals) \in Value
PROOF
  <1>1. CASE op = "select"
    <2>1. vals[1] \in Value /\ vals[2] \in Value /\ vals[3] \in Value
      BY <1>1 DEF Args
    <2> QED BY <1>1, <2>1 DEF Apply, Value
  <1>2. CASE op # "select"
    <2>1. vals[1] \in Value /\ vals[2] \in Value /\ op \in ArithOps \cup CmpOps
      BY <1>2 DEF Args, PureOps
    <2>2. CASE Undef \in {vals[1], vals[2]}
      BY <1>2, <2>2 DEF Apply, Value
    <2>3. CASE Undef \notin {vals[1], vals[2]}
      <3>1. vals[1] \in Int /\ vals[2] \in Int
        BY <2>1, <2>3 DEF Value
      <3>2. op \in ArithOps => args[1].ty \in IntTypes
        BY DEF WellTyped
      <3>3. Compute(op, args[1].ty, vals[1], vals[2]) \in Value
        BY <2>1, <3>1, <3>2, ComputeIsValue, ComparisonIsValue
      <3> QED BY <1>2, <2>3, <3>3 DEF Apply
    <2> QED BY <2>2, <2>3
  <1> QED BY <1>1, <1>2

\* The constant folder's answer is a value, whatever the operands' types.
LEMMA FoldedIsValue ==
  ASSUME NEW op \in PureOps, NEW args \in Args(op)
  PROVE  Folded(op, args) \in Value
PROOF
  <1> DEFINE vals == [k \in DOMAIN args |-> args[k].val]
  <1>1. \A k \in DOMAIN args : vals[k] \in Value
    BY DEF Args, Operand
  <1>2. CASE ~WellTyped(op, args)
    BY <1>2 DEF Folded, Value
  <1>3. CASE WellTyped(op, args)
    <2> HIDE DEF vals
    <2>1. Apply(op, args[1].ty, vals) \in Value
      BY <1>1, <1>3, ApplyIsValue
    <2> QED BY <1>3, <2>1 DEF Folded, vals
  <1> QED BY <1>2, <1>3

-----------------------------------------------------------------------------
(***************************************************************************)
(* What a step may do to the code and to the call stack.                   *)
(***************************************************************************)
Values == Operand \cup {NoValue}

\* What instruction i must be to be appended to the code.
UsesComputed(i) == i \in Instr /\ \A a \in DOMAIN i.args : Computed(i.args[a], Len(ir))

Fits(i) ==
  /\ UsesComputed(i)
  /\ i.op = "load"  => \E x \in Variables :
       i.args[1].reg = InnerScope[x].alloc /\ i.ty = LlvmType(InnerScope[x].type)
  /\ i.op = "store" => \E x \in Variables : i.args[2].reg = InnerScope[x].alloc

\* A call stack that holds no value but those held already and v.
Keeps(fs, v) ==
  /\ fs \in Seq(FrameSet)
  /\ \A k \in DOMAIN fs : fs[k].acc \in Held \cup {v, NoValue} /\ HoldsLeft(fs[k])

\* v is computed by the code there is, or by the one instruction appended.
Yields(code, v) ==
  \/ code = ir /\ Computed(v, Len(ir))
  \/ \E i : /\ Fits(i) /\ code = Append(ir, i)
            /\ Computed(v, Len(ir)) \/ v = Reg(Len(ir) + 1, ResultType(i))

\* Appending to a sequence.
LEMMA AppendFacts ==
  ASSUME NEW S, NEW s \in Seq(S), NEW e \in S
  PROVE  /\ Append(s, e) \in Seq(S)
         /\ Len(Append(s, e)) = Len(s) + 1
         /\ Len(s) \in Nat
         /\ DOMAIN Append(s, e) = 1..Len(s) + 1 /\ DOMAIN s = 1..Len(s)
         /\ Append(s, e)[Len(s) + 1] = e
         /\ \A k \in 1..Len(s) : Append(s, e)[k] = s[k]
PROOF
  OBVIOUS

\* What was computed by the first n instructions still is, with one more.
LEMMA ComputedIsKept ==
  ASSUME TypeOK, NEW i \in Instr, ir' = Append(ir, i)
  PROVE  \A n \in Nat : \A o \in Values : n <= Len(ir) /\ Computed(o, n) =>
           IsConst(o) \/ (o.reg <= n /\ ResultType(ir'[o.reg]) = o.ty)
PROOF
  <1> SUFFICES ASSUME NEW n \in Nat, NEW o \in Values,
                      n <= Len(ir), Computed(o, n)
               PROVE  IsConst(o) \/ (o.reg <= n /\ ResultType(ir'[o.reg]) = o.ty)
    OBVIOUS
  <1>1. CASE IsConst(o)
    BY <1>1
  <1>2. CASE ~IsConst(o)
    <2>1. o.reg \in Nat \ {0}
      BY <1>2 DEF Values, Operand, IsConst, NoValue
    <2>2. o.reg <= n /\ ResultType(ir[o.reg]) = o.ty
      BY <1>2 DEF Computed
    <2>3. ir \in Seq(Instr)
      BY DEF TypeOK
    <2>4. ir'[o.reg] = ir[o.reg]
      BY <2>1, <2>2, <2>3, AppendFacts
    <2> QED BY <2>1, <2>2, <2>4
  <1> QED BY <1>1, <1>2

\* An instruction that fits keeps the code in order ...
LEMMA CodeGrows ==
  ASSUME IInv, NEW i, UsesComputed(i), ir' = Append(ir, i)
  PROVE  /\ ir' \in Seq(Instr)
         /\ (\A k \in DOMAIN ir : \A a \in DOMAIN ir[k].args : Computed(ir[k].args[a], k - 1))'
         /\ Len(ir') = Len(ir) + 1 /\ ir'[Len(ir) + 1] = i
         /\ \A o \in Values : Computed(o, Len(ir)) => Computed(o, Len(ir))'
PROOF
  <1>1. i \in Instr /\ ir \in Seq(Instr)
    BY DEF UsesComputed, IInv, TypeOK
  <1>2. /\ ir' \in Seq(Instr) /\ Len(ir) \in Nat /\ Len(ir') = Len(ir) + 1
        /\ DOMAIN ir' = 1..Len(ir) + 1 /\ DOMAIN ir = 1..Len(ir)
        /\ ir'[Len(ir) + 1] = i
        /\ \A k \in 1..Len(ir) : ir'[k] = ir[k]
    BY <1>1, AppendFacts
  <1>3. \A k \in DOMAIN ir' : ir'[k] \in Instr
    BY <1>2, SeqElements
  <1>4. \A k \in DOMAIN ir' : \A a \in DOMAIN ir'[k].args : ir'[k].args[a] \in Values
    <2> TAKE k \in DOMAIN ir'
    <2>1. ir'[k].args \in Seq(Operand)
      BY <1>3 DEF Instr
    <2> QED BY <2>1, SeqElements DEF Values
  <1>5. \A n \in Nat : \A o \in Values : n <= Len(ir) /\ Computed(o, n) =>
          IsConst(o) \/ (o.reg <= n /\ ResultType(ir'[o.reg]) = o.ty)
    BY <1>1, ComputedIsKept DEF IInv
  <1>6. (\A k \in DOMAIN ir : \A a \in DOMAIN ir[k].args : Computed(ir[k].args[a], k - 1))'
    <2> SUFFICES ASSUME NEW k \in DOMAIN ir', NEW a \in DOMAIN ir'[k].args
                 PROVE  \/ IsConst(ir'[k].args[a])
                        \/ /\ ir'[k].args[a].reg <= k - 1
                           /\ ResultType(ir'[ir'[k].args[a].reg]) = ir'[k].args[a].ty
      BY DEF Computed
    <2> DEFINE o == ir'[k].args[a]
    <2>1. o \in Values /\ k - 1 \in Nat /\ k - 1 <= Len(ir)
      BY <1>2, <1>4
    <2>2. Computed(o, k - 1)
      <3>1. CASE k \in 1..Len(ir)
        BY <1>2, <3>1 DEF IInv, ValuesComputedBeforeUse
      <3>2. CASE k = Len(ir) + 1
        BY <1>2, <3>2 DEF UsesComputed
      <3> QED BY <1>2, <3>1, <3>2
    <2> HIDE DEF o
    <2>3. IsConst(o) \/ (o.reg <= k - 1 /\ ResultType(ir'[o.reg]) = o.ty)
      BY <1>5, <2>1, <2>2, Zenon
    <2> QED BY <2>3 DEF o
  <1>7. \A o \in Values : Computed(o, Len(ir)) => Computed(o, Len(ir))'
    <2> SUFFICES ASSUME NEW o \in Values, Computed(o, Len(ir))
                 PROVE  Computed(o, Len(ir))'
      OBVIOUS
    <2>1. Len(ir) \in Nat /\ Len(ir) <= Len(ir) /\ o.reg \in Nat
      BY <1>2 DEF Values, Operand, NoValue
    <2>2. IsConst(o) \/ (o.reg <= Len(ir) /\ ResultType(ir'[o.reg]) = o.ty)
      BY <2>1, <1>5, Zenon
    <2>3. o.reg <= Len(ir) => o.reg <= Len(ir')
      BY <1>2, <2>1
    <2> QED BY <2>2, <2>3 DEF Computed
  <1> QED BY <1>2, <1>6, <1>7

\* ... and, where no name is declared, the slots.
LEMMA SlotsKept ==
  ASSUME IInv, NEW i, Fits(i), ir' = Append(ir, i), UNCHANGED pascal_scopes
  PROVE  AccessesGoToSlots'
PROOF
  <1>1. /\ Len(ir) \in Nat /\ DOMAIN ir' = 1..Len(ir) + 1 /\ DOMAIN ir = 1..Len(ir)
        /\ ir'[Len(ir) + 1] = i
        /\ \A k \in 1..Len(ir) : ir'[k] = ir[k]
    BY AppendFacts DEF Fits, UsesComputed, IInv, TypeOK
  <1>2. InnerScope' = InnerScope /\ Variables' = Variables
    BY DEF InnerScope, Variables
  <1>3. (\A x \in Variables :
           LET slot == InnerScope[x].alloc
           IN /\ slot \in DOMAIN ir
              /\ ir[slot].op = "alloca" /\ ir[slot].ty = LlvmType(InnerScope[x].type)
              /\ \A y \in Variables \ {x} : InnerScope[y].alloc # slot)'
    <2> SUFFICES ASSUME NEW x \in Variables
                 PROVE  LET slot == InnerScope[x].alloc
                        IN /\ slot \in DOMAIN ir'
                           /\ ir'[slot].op = "alloca"
                           /\ ir'[slot].ty = LlvmType(InnerScope[x].type)
                           /\ \A y \in Variables \ {x} : InnerScope[y].alloc # slot
      BY <1>2
    <2> QED BY <1>1 DEF IInv, AccessesGoToSlots
  <1>4. \A k \in DOMAIN ir' :
          /\ ir'[k].op = "load"  => \E x \in Variables :
               ir'[k].args[1].reg = InnerScope[x].alloc
                 /\ ir'[k].ty = LlvmType(InnerScope[x].type)
          /\ ir'[k].op = "store" => \E x \in Variables :
               ir'[k].args[2].reg = InnerScope[x].alloc
    <2> TAKE k \in DOMAIN ir'
    <2>1. CASE k \in 1..Len(ir)
      BY <1>1, <2>1 DEF IInv, AccessesGoToSlots
    <2>2. CASE k = Len(ir) + 1
      BY <1>1, <2>2 DEF Fits
    <2> QED BY <1>1, <2>1, <2>2
  <1> QED BY <1>2, <1>3, <1>4 DEF AccessesGoToSlots

\* What is held is a value that has been computed.
LEMMA HeldFacts ==
  ASSUME IInv
  PROVE  /\ Held \subseteq Values
         /\ \A o \in Held : Computed(o, Len(ir))
         /\ ret \in Held
PROOF
  <1>1. frames \in Seq(FrameSet) /\ ret \in Values
    BY DEF IInv, TypeOK, Values
  <1>2. \A k \in DOMAIN frames : frames[k] \in FrameSet
    BY <1>1, SeqElements
  <1>3. \A k \in DOMAIN frames : frames[k].acc \in Values
    BY <1>2 DEF FrameSet, Values
  <1> QED BY <1>1, <1>3 DEF Held, IInv, ValuesComputedBeforeUse

\* The variables the walk over the statements does not write.  Only StartMain
\* adds functions, and they are there once declarations are visited.
Proceeds ==
  /\ UNCHANGED <<cu, decl, pascal_scopes>>
  /\ stage' \in Stages
  /\ functions' \subseteq {"main", "write_int"}
  /\ stage' \in {"decls", "stmts", "lowered"} => "main" \in functions'

\* One step that declares nothing: at most one instruction is appended, and
\* the values held afterwards were held before or are the new value v.
LEMMA Step ==
  ASSUME IInv, Proceeds, NEW v \in Values, Keeps(frames', v), Yields(ir', v),
         ret' \in Values, ret' \in Held \cup {v, NoValue}
  PROVE  IInv'
PROOF
  <1>1. Held' \subseteq Held \cup {v, NoValue}
    BY DEF Held, Keeps
  <1>2. Computed(NoValue, Len(ir))'
    BY DEF Computed, IsConst, NoValue
  <1>3. UNCHANGED pascal_scopes
    BY DEF Proceeds
  <1>4. /\ ir' \in Seq(Instr)
        /\ (\A k \in DOMAIN ir : \A a \in DOMAIN ir[k].args : Computed(ir[k].args[a], k - 1))'
        /\ AccessesGoToSlots'
        /\ \A o \in Held \cup {v} : Computed(o, Len(ir))'
    <2>1. CASE ir' = ir /\ Computed(v, Len(ir))
      <3>1. AccessesGoToSlots'
        BY <1>3, <2>1 DEF IInv, AccessesGoToSlots, Variables, InnerScope
      <3> QED BY HeldFacts, <2>1, <3>1 DEF IInv, TypeOK, ValuesComputedBeforeUse, Computed
    <2>2. CASE \E i : /\ Fits(i) /\ ir' = Append(ir, i)
                      /\ Computed(v, Len(ir)) \/ v = Reg(Len(ir) + 1, ResultType(i))
      <3>1. PICK i : /\ Fits(i) /\ ir' = Append(ir, i)
                     /\ Computed(v, Len(ir)) \/ v = Reg(Len(ir) + 1, ResultType(i))
        BY <2>2
      <3>2. AccessesGoToSlots'
        BY <1>3, <3>1, SlotsKept
      <3>3. /\ ir' \in Seq(Instr)
            /\ (\A k \in DOMAIN ir : \A a \in DOMAIN ir[k].args :
                  Computed(ir[k].args[a], k - 1))'
            /\ Len(ir') = Len(ir) + 1 /\ ir'[Len(ir) + 1] = i
            /\ \A o \in Values : Computed(o, Len(ir)) => Computed(o, Len(ir))'
        BY <3>1, CodeGrows DEF Fits
      <3>4. Computed(v, Len(ir))'
        <4>1. Len(ir) \in Nat
          BY SeqElements DEF IInv, TypeOK
        <4>2. CASE v = Reg(Len(ir) + 1, ResultType(i))
          BY <3>3, <4>1, <4>2 DEF Computed, Reg
        <4> QED BY <3>1, <3>3, <4>2
      <3> QED BY HeldFacts, <3>2, <3>3, <3>4
    <2> QED BY <2>1, <2>2 DEF Yields
  <1>5. TypeOK'
    BY <1>4 DEF IInv, TypeOK, Proceeds, Keeps, Values, IsScope
  <1>6. ValuesComputedBeforeUse'
    BY <1>1, <1>2, <1>4 DEF ValuesComputedBeforeUse
  <1>7. BuiltinsUntouched' /\ NameInList'
    BY DEF IInv, BuiltinsUntouched, NameInList, Proceeds
  <1>8. (\A k \in DOMAIN frames : HoldsLeft(frames[k]))'
    BY DEF Keeps, HoldsLeft
  <1> QED BY <1>4, <1>5, <1>6, <1>7, <1>8 DEF IInv

\* A step that emits nothing and leaves the stack alone, as an exception does.
LEMMA QuietStep ==
  ASSUME IInv, Proceeds, UNCHANGED <<ir, frames, ret>>
  PROVE  IInv'
PROOF
  <1>1. Keeps(frames', NoValue)
    BY DEF Keeps, Held, IInv, TypeOK
  <1>2. Yields(ir', NoValue)
    BY DEF Yields, Computed, NoValue, IsConst
  <1> QED BY <1>1, <1>2, HeldFacts, Step DEF Values

\* An exception changes nothing the invariant speaks of.
LEMMA ThrowStep ==
  ASSUME IInv, NEW e \in Exceptions \cup {"assert"}, Throw(e)
  PROVE  IInv'
PROOF
  <1>1. stage' = e /\ UNCHANGED <<cu, decl, pascal_scopes, functions, ir, frames, ret>>
    BY DEF Throw
  <1>2. Proceeds
    BY <1>1 DEF Proceeds, IInv, TypeOK, Stages, Terminal, Exceptions
  <1> QED BY <1>1, <1>2, QuietStep

\* A step of the walk proceeds.
LEMMA WalkProceeds ==
  ASSUME IInv, KeepWalk
  PROVE  Proceeds
PROOF
  BY DEF IInv, TypeOK, KeepWalk, Proceeds

\* The frame on top of the stack.
LEMMA TopFacts ==
  ASSUME IInv, frames # <<>>
  PROVE  /\ frames \in Seq(FrameSet)
         /\ Len(frames) \in Nat \ {0} /\ DOMAIN frames = 1..Len(frames)
         /\ Len(frames) \in DOMAIN frames
         /\ Top \in FrameSet
         /\ Top.node \in Node /\ Top.next \in Nat /\ Top.acc \in Values /\ Top.acc \in Held
         /\ HoldsLeft(Top)
PROOF
  <1>1. frames \in Seq(FrameSet)
    BY DEF IInv, TypeOK
  <1>2. /\ Len(frames) \in Nat \ {0} /\ DOMAIN frames = 1..Len(frames)
        /\ Len(frames) \in DOMAIN frames
    BY <1>1
  <1>3. Top \in FrameSet
    BY <1>1, <1>2, SeqElements DEF Top
  <1>4. Top.acc \in Held
    BY <1>2 DEF Held, Top
  <1>5. HoldsLeft(Top)
    BY <1>2 DEF Top, IInv
  <1> QED BY <1>1, <1>2, <1>3, <1>4, <1>5 DEF FrameSet, Values

\* Returning from a frame, calling from it, and taking a value into it.
LEMMA PopKeeps ==
  ASSUME IInv, frames # <<>>, NEW v
  PROVE  Keeps(Popped, v)
PROOF
  <1>1. \A k \in 1..Len(frames) - 1 : frames[k] \in FrameSet
    BY TopFacts, SeqElements
  <1>2. /\ Popped \in Seq(FrameSet)
        /\ Len(Popped) = Len(frames) - 1
        /\ \A k \in 1..Len(frames) - 1 : Popped[k] = frames[k]
    <2>1. /\ SubSeq(frames, 1, Len(frames) - 1) \in Seq(FrameSet)
          /\ Len(SubSeq(frames, 1, Len(frames) - 1)) =
               IF 1 <= Len(frames) - 1 THEN Len(frames) - 1 - 1 + 1 ELSE 0
          /\ \A k \in 1..Len(frames) - 1 - 1 + 1 :
               SubSeq(frames, 1, Len(frames) - 1)[k] = frames[1 + k - 1]
      BY <1>1, TopFacts, SubSeqProperties
    <2> QED BY <2>1, TopFacts DEF Popped
  <1>3. \A k \in DOMAIN Popped : k \in DOMAIN frames /\ Popped[k] = frames[k]
    BY <1>2, TopFacts
  <1> QED BY <1>2, <1>3 DEF Keeps, Held, IInv

\* A frame put in the place of the top one holds nothing new but v.
LEMMA ReplaceKeeps ==
  ASSUME IInv, frames # <<>>, NEW f \in FrameSet, NEW v, f.acc \in Held \cup {v, NoValue},
         HoldsLeft(f)
  PROVE  Keeps([frames EXCEPT ![Len(frames)] = f], v)
PROOF
  <1>1. /\ [frames EXCEPT ![Len(frames)] = f] \in Seq(FrameSet)
        /\ DOMAIN [frames EXCEPT ![Len(frames)] = f] = DOMAIN frames
    BY TopFacts, ExceptSeq
  <1>2. \A k \in DOMAIN frames : [frames EXCEPT ![Len(frames)] = f][k] \in {f, frames[k]}
    OBVIOUS
  <1> QED BY <1>1, <1>2 DEF Keeps, Held, IInv

\* A call passes nothing on that was not held.
LEMMA CallKeeps ==
  ASSUME IInv, frames # <<>>, NEW n \in Node, NEW acc \in Held \cup {NoValue}, NEW v,
         HoldsLeft([node |-> Top.node, next |-> Top.next + 1, acc |-> acc])
  PROVE  Keeps(Calling(n, acc), v)
PROOF
  <1> DEFINE f  == [node |-> Top.node, next |-> Top.next + 1, acc |-> acc]
             fs == [frames EXCEPT ![Len(frames)] = f]
  <1>1. acc \in Operand \cup {NoValue}
    BY HeldFacts DEF Values
  <1>2. f \in FrameSet /\ Frame(n) \in FrameSet
    BY <1>1, TopFacts DEF FrameSet, Frame
  <1>3. Keeps(fs, v)
    <2>1. HoldsLeft(f)
      OBVIOUS
    <2> QED BY <1>2, <2>1, ReplaceKeeps
  <1> HIDE DEF f, fs
  <1>4. fs \in Seq(FrameSet)
    BY <1>3 DEF Keeps
  <1>5. /\ Append(fs, Frame(n)) \in Seq(FrameSet)
        /\ DOMAIN Append(fs, Frame(n)) = 1..Len(fs) + 1 /\ DOMAIN fs = 1..Len(fs)
        /\ Len(fs) \in Nat
        /\ Append(fs, Frame(n))[Len(fs) + 1] = Frame(n)
        /\ \A k \in 1..Len(fs) : Append(fs, Frame(n))[k] = fs[k]
    BY <1>2, <1>4, AppendFacts
  <1>6. \A k \in 1..Len(fs) + 1 : k \in 1..Len(fs) \/ k = Len(fs) + 1
    BY <1>5
  <1>7. Keeps(Append(fs, Frame(n)), v)
    <2>1. HoldsLeft(Frame(n)) /\ Frame(n).acc = NoValue
      BY DEF HoldsLeft, Frame
    <2> QED BY <1>3, <1>5, <1>6, <2>1 DEF Keeps
  <1> QED BY <1>7 DEF Calling, f, fs

\* A value taken into the top frame is the only new one.
LEMMA TakeKeeps ==
  ASSUME IInv, frames # <<>>, NEW v \in Operand, Top.next > 0
  PROVE  Keeps([frames EXCEPT ![Len(frames)].acc = v], v)
PROOF
  <1> DEFINE f == [Top EXCEPT !.acc = v]
  <1>1. f \in FrameSet /\ f.acc = v /\ HoldsLeft(f)
    <2>1. v # NoValue
      BY DEF Operand, Types, IntTypes, NoValue
    <2>2. f \in FrameSet /\ f.acc = v /\ f.node = Top.node /\ f.next = Top.next
      BY TopFacts DEF FrameSet
    <2> HIDE DEF f
    <2> QED BY <2>1, <2>2, TopFacts DEF HoldsLeft
  <1>2. [frames EXCEPT ![Len(frames)].acc = v] = [frames EXCEPT ![Len(frames)] = f]
    BY DEF Top
  <1> HIDE DEF f
  <1>3. Keeps([frames EXCEPT ![Len(frames)] = f], v)
    BY <1>1, ReplaceKeeps
  <1> QED BY <1>2, <1>3

\* There are always two scopes.
LEMMA ScopesAreTwo ==
  ASSUME pascal_scopes = <<pascal_scopes[1], pascal_scopes[2]>>
  PROVE  DOMAIN pascal_scopes = {1, 2} /\ Len(pascal_scopes) = 2
PROOF
  <1>1. PICK a, b : pascal_scopes = <<a, b>>
    OBVIOUS
  <1>2. DOMAIN <<a, b>> = {1, 2} /\ Len(<<a, b>>) = 2
    OBVIOUS
  <1> QED BY <1>1, <1>2, Zenon

\* Only the program's own scope has variables, so that is where one is found.
LEMMA LookupFacts ==
  ASSUME IInv, NEW x, IsVariable(x)
  PROVE  /\ x \in Variables
         /\ lookup_decl(x) = InnerScope[x]
         /\ lookup_decl(x).type \in TypeKind
         /\ lookup_decl(x).alloc \in DOMAIN ir
         /\ ir[lookup_decl(x).alloc].op = "alloca"
PROOF
  <1>1. /\ pascal_scopes = <<pascal_scopes[1], pascal_scopes[2]>>
        /\ IsScope(pascal_scopes[2]) /\ pascal_scopes[1] = BuiltinScope
    BY DEF IInv, TypeOK, BuiltinsUntouched
  <1>2. DOMAIN pascal_scopes = {1, 2} /\ InnerScope = pascal_scopes[2]
    BY <1>1, ScopesAreTwo DEF InnerScope
  <1>3. Hits(x) \subseteq {1, 2} /\ Hits(x) # {}
    BY <1>2 DEF Hits, IsVariable, Declared
  <1>4. CASE 2 \in Hits(x)
    <2>1. \A t \in Hits(x) : t <= 2
      BY <1>3
    <2>2. \A s \in Hits(x) : (\A t \in Hits(x) : t <= s) => s = 2
      BY <1>3, <1>4
    <2>3. (CHOOSE s \in Hits(x) : \A t \in Hits(x) : t <= s) = 2
      BY <1>4, <2>1, <2>2
    <2>4. lookup_decl(x) = InnerScope[x]
      BY <1>2, <2>3 DEF lookup_decl
    <2>5. x \in DOMAIN InnerScope
      BY <1>2, <1>4 DEF Hits
    <2>6. x \in Variables
      BY <2>4, <2>5 DEF IsVariable, Variables
    <2>7. InnerScope[x].type \in TypeKind
      BY <1>1, <1>2, <2>5 DEF IsScope, Item
    <2> QED BY <2>4, <2>6, <2>7 DEF IInv, AccessesGoToSlots
  <1>5. CASE 2 \notin Hits(x)
    <2>1. Hits(x) = {1}
      BY <1>3, <1>5
    <2>2. lookup_decl(x) = BuiltinScope[x]
      BY <1>1, <2>1 DEF lookup_decl
    <2>3. x \in TypeKind
      BY <1>1, <2>1 DEF Hits, BuiltinScope
    <2>4. lookup_decl(x).item = "type"
      BY <2>2, <2>3 DEF BuiltinScope
    <2> QED BY <2>4 DEF IsVariable
  <1> QED BY <1>4, <1>5

\* The pointer operand of a load or a store.
LEMMA SlotFacts ==
  ASSUME IInv, NEW x, IsVariable(x)
  PROVE  SlotOf(x) \in Operand /\ Computed(SlotOf(x), Len(ir))
PROOF
  <1>1. lookup_decl(x).alloc \in 1..Len(ir) /\ Len(ir) \in Nat
    BY LookupFacts, SeqElements DEF IInv, TypeOK
  <1>2. SlotOf(x) \in Operand
    BY <1>1 DEF SlotOf, Reg, Operand, Types, Value
  <1>3. ResultType(ir[lookup_decl(x).alloc]) = "ptr"
    BY LookupFacts DEF ResultType
  <1> QED BY <1>1, <1>2, <1>3 DEF SlotOf, Reg, Computed

\* What the IRBuilder returns for a pure operation.
LEMMA BuiltFacts ==
  ASSUME IInv, NEW op \in PureOps, NEW args \in Args(op),
         \A k \in DOMAIN args : Computed(args[k], Len(ir))
  PROVE  /\ BuiltVal(op, args) \in Operand
         /\ Yields(BuiltIr(op, args), BuiltVal(op, args))
PROOF
  <1>1. BuiltType(op, args) \in Types
    BY DEF BuiltType, Args, Operand, Types, IntTypes
  <1>2. Len(ir) \in Nat
    BY SeqElements DEF IInv, TypeOK
  <1>3. CASE AllConst(args)
    <2>1. BuiltVal(op, args) = Const(BuiltType(op, args), Folded(op, args))
      BY <1>3 DEF BuiltVal
    <2>2. BuiltVal(op, args) \in Operand
      BY <1>1, <2>1, FoldedIsValue DEF Const, Operand
    <2>3. Computed(BuiltVal(op, args), Len(ir))
      BY <2>1 DEF Computed, IsConst, Const
    <2>4. BuiltIr(op, args) = ir
      BY <1>3 DEF BuiltIr
    <2> QED BY <2>2, <2>3, <2>4 DEF Yields
  <1>4. CASE ~AllConst(args)
    <2> DEFINE i == [op |-> op, ty |-> BuiltType(op, args), args |-> args]
    <2>1. args \in Seq(Operand)
      <3>1. \A n \in Nat : [1..n -> Operand] \subseteq Seq(Operand)
        BY SeqDef
      <3> QED BY <3>1 DEF Args
    <2>2. i \in Instr
      BY <1>1, <2>1 DEF Instr, Opcodes
    <2>3. Fits(i)
      BY <2>2 DEF Fits, UsesComputed, PureOps, ArithOps, CmpOps, DivOps
    <2>4. BuiltIr(op, args) = Append(ir, i)
      BY <1>4 DEF BuiltIr, Emit
    <2>5. BuiltVal(op, args) = Reg(Len(ir) + 1, BuiltType(op, args))
      BY <1>4 DEF BuiltVal
    <2>6. ResultType(i) = BuiltType(op, args)
      BY DEF ResultType, PureOps, ArithOps, CmpOps, DivOps
    <2>7. BuiltVal(op, args) \in Operand
      BY <1>1, <1>2, <2>5 DEF Reg, Operand, Value
    <2> QED BY <2>3, <2>4, <2>5, <2>6, <2>7 DEF Yields
  <1> QED BY <1>3, <1>4

\* The operands of an operator of the language.
LEMMA OperandsFacts ==
  ASSUME NEW op \in (MultOp \cup AddOp \cup RelOp) \ {"In", "RealDiv"},
         NEW l \in Operand, NEW r \in Operand,
         Computed(l, Len(ir)), Computed(r, Len(ir))
  PROVE  /\ Opcode(op) \in PureOps
         /\ Operands(op, l, r) \in Args(Opcode(op))
         /\ \A k \in DOMAIN Operands(op, l, r) : Computed(Operands(op, l, r)[k], Len(ir))
PROOF
  <1>1. \A v \in {0, -1} : /\ Const(r.ty, v) \in Operand /\ Const(l.ty, v) \in Operand
                           /\ Computed(Const(r.ty, v), Len(ir))
    BY DEF Const, Operand, Value, Computed, IsConst
  <1>2. Opcode(op) \in PureOps
    BY DEF Opcode, MultOp, AddOp, RelOp, PureOps, ArithOps, DivOps, CmpOps
  <1>3. CASE op = "And"
    BY <1>1, <1>2, <1>3 DEF Operands, Opcode, Args
  <1>4. CASE op = "Or"
    BY <1>1, <1>2, <1>4 DEF Operands, Opcode, Args
  <1>5. CASE op \notin {"And", "Or"}
    <2>1. Opcode(op) # "select" /\ Operands(op, l, r) = <<l, r>>
      BY <1>5 DEF Opcode, MultOp, AddOp, RelOp, Operands
    <2> QED BY <1>2, <2>1 DEF Args
  <1> QED BY <1>3, <1>4, <1>5

-----------------------------------------------------------------------------
(***************************************************************************)
(* The declarations.                                                       *)
(***************************************************************************)

\* Whatever is found in the scopes has one of the three types.
LEMMA DeclaredFacts ==
  ASSUME IInv, NEW x, Declared(x)
  PROVE  lookup_decl(x).type \in TypeKind
PROOF
  <1>1. /\ pascal_scopes = <<pascal_scopes[1], pascal_scopes[2]>>
        /\ IsScope(pascal_scopes[1]) /\ IsScope(pascal_scopes[2])
    BY DEF IInv, TypeOK
  <1>2. DOMAIN pascal_scopes = {1, 2}
    BY <1>1, ScopesAreTwo
  <1>3. Hits(x) \subseteq {1, 2} /\ Hits(x) # {}
    BY <1>2 DEF Hits, Declared
  <1>4. \E s \in Hits(x) : \A t \in Hits(x) : t <= s
    BY <1>3
  <1> DEFINE m == CHOOSE s \in Hits(x) : \A t \in Hits(x) : t <= s
  <1>5. m \in Hits(x)
    BY <1>4
  <1> HIDE DEF m
  <1>6. x \in DOMAIN pascal_scopes[m] /\ m \in {1, 2}
    BY <1>3, <1>5 DEF Hits
  <1>7. \A s \in {1, 2} : x \in DOMAIN pascal_scopes[s] => pascal_scopes[s][x].type \in TypeKind
    BY <1>1 DEF IsScope, Item
  <1> QED BY <1>6, <1>7 DEF lookup_decl, m

\* The declaration being visited, and the list of its names.
LEMMA DeclFacts ==
  ASSUME IInv, InDecl
  PROVE  /\ decl.at \in Nat \ {0} /\ decl.name \in Nat /\ decl.type \in TypeKind
         /\ VarDecls(cu)[decl.at].idents \in Seq(Ident)
         /\ Len(VarDecls(cu)[decl.at].idents) \in Nat \ {0}
         /\ decl.name <= Len(VarDecls(cu)[decl.at].idents)
         /\ VarDecls(cu) \in Seq(VarDecl)
PROOF
  <1>1. cu \in Units /\ decl \in [at : Nat \ {0}, name : Nat, type : TypeKind]
    BY DEF IInv, TypeOK
  <1>2. VarDecls(cu) \in Seq(VarDecl)
    BY <1>1, UnitParts
  <1>3. VarDecls(cu)[decl.at] \in VarDecl
    BY <1>1, <1>2, SeqElements DEF InDecl
  <1>4. VarDecls(cu)[decl.at].idents \in Seq(Ident) \ {<<>>}
    BY <1>1, <1>3, UnitParts
  <1>5. Len(VarDecls(cu)[decl.at].idents) \in Nat \ {0}
    BY <1>4, EmptySeq
  <1> QED BY <1>1, <1>2, <1>4, <1>5 DEF IInv, NameInList, InDecl

\* The type of a declaration is one of the three.
LEMMA ResolveTypeStep ==
  ASSUME IInv, ResolveType
  PROVE  IInv'
PROOF
  <1> DEFINE type == VarDecls(cu)[decl.at].type
  <1>1. CASE TypeError(type) # "none"
    <2>1. TypeError(type) \in Exceptions
      BY <1>1 DEF TypeError, Exceptions
    <2>2. Throw(TypeError(type))
      BY <1>1 DEF ResolveType
    <2> QED BY <2>1, <2>2, ThrowStep
  <1>2. CASE TypeError(type) = "none"
    <2>1. /\ decl' = [decl EXCEPT !.name = 1, !.type = lookup_decl(type.name).type]
          /\ UNCHANGED <<cu, stage, pascal_scopes, functions, ir, frames, ret>>
      BY <1>2 DEF ResolveType
    <2>2. lookup_decl(type.name).type \in TypeKind
      BY <1>2, DeclaredFacts DEF TypeError
    <2>3. decl' \in [at : Nat \ {0}, name : Nat, type : TypeKind]
      BY <2>1, <2>2 DEF IInv, TypeOK
    <2>4. TypeOK'
      BY <2>1, <2>3 DEF IInv, TypeOK, IsScope
    <2>5. NameInList'
      <3>1. decl'.at = decl.at /\ decl'.name = 1 /\ cu' = cu
        BY <2>1 DEF IInv, TypeOK
      <3>2. InDecl
        BY DEF ResolveType
      <3> QED BY <3>1, <3>2, DeclFacts DEF NameInList
    <2>6. ValuesComputedBeforeUse' /\ AccessesGoToSlots' /\ BuiltinsUntouched'
      BY <2>1 DEF IInv, ValuesComputedBeforeUse, Computed, Held,
                  AccessesGoToSlots, Variables, InnerScope, BuiltinsUntouched
    <2>7. (\A k \in DOMAIN frames : HoldsLeft(frames[k]))'
      BY <2>1 DEF IInv, HoldsLeft
    <2> QED BY <2>4, <2>5, <2>6, <2>7 DEF IInv
  <1> QED BY <1>1, <1>2

\* What DeclareName does to the scopes.
LEMMA BindFacts ==
  ASSUME IInv, DeclareName
  PROVE  /\ pascal_scopes' = <<pascal_scopes'[1], pascal_scopes'[2]>>
         /\ pascal_scopes'[1] = pascal_scopes[1]
         /\ pascal_scopes'[2] =
              Bind(pascal_scopes[2], DeclName,
                   [item |-> "var", type |-> decl.type, alloc |-> Len(ir) + 1])
         /\ InnerScope = pascal_scopes[2] /\ InnerScope' = pascal_scopes'[2]
         /\ DeclName \in Ident
PROOF
  <1> DEFINE b == Bind(pascal_scopes[2], DeclName,
                       [item |-> "var", type |-> decl.type, alloc |-> Len(ir) + 1])
  <1>1. pascal_scopes = <<pascal_scopes[1], pascal_scopes[2]>>
    BY DEF IInv, TypeOK
  <1>2. DOMAIN pascal_scopes = {1, 2} /\ Len(pascal_scopes) = 2
    BY <1>1, ScopesAreTwo
  <1>3. pascal_scopes' = [pascal_scopes EXCEPT ![2] = b]
    BY <1>2, Zenon DEF DeclareName, codegen_alloc_value_of_type
  <1> HIDE DEF b
  <1>4. PICK p, q : pascal_scopes = <<p, q>>
    BY <1>1
  <1>5. pascal_scopes' = <<p, b>>
    BY <1>3, <1>4
  <1>6. /\ pascal_scopes' = <<pascal_scopes'[1], pascal_scopes'[2]>>
        /\ pascal_scopes'[1] = pascal_scopes[1] /\ pascal_scopes'[2] = b
        /\ Len(pascal_scopes') = 2
    <2>1. <<p, b>>[1] = p /\ <<p, b>>[2] = b /\ <<p, q>>[1] = p /\ Len(<<p, b>>) = 2
      OBVIOUS
    <2> QED BY <1>4, <1>5, <2>1, Zenon
  <1>7. DeclName \in Ident
    <2>1. InDecl /\ decl.name > 0
      BY DEF DeclareName
    <2> QED BY <2>1, DeclFacts, SeqElements DEF DeclName
  <1> QED BY <1>2, <1>6, <1>7 DEF InnerScope, b

\* A new name gets the slot that is emitted with it, and takes no other's.
LEMMA DeclareNameStep ==
  ASSUME IInv, DeclareName
  PROVE  IInv'
PROOF
  <1> DEFINE item == [item |-> "var", type |-> decl.type, alloc |-> Len(ir) + 1]
             i    == [op |-> "alloca", ty |-> LlvmType(decl.type), args |-> <<>>]
  <1>1. /\ InDecl /\ decl.name > 0 /\ DeclName \notin DOMAIN InnerScope
        /\ ir' = Append(ir, i)
        /\ UNCHANGED <<cu, stage, functions, frames, ret>>
    BY DEF DeclareName, InUse, Emit
  <1>2. /\ decl.type \in TypeKind /\ ir \in Seq(Instr) /\ Len(ir) \in Nat
        /\ DOMAIN ir = 1..Len(ir)
    BY <1>1, DeclFacts, SeqElements DEF IInv, TypeOK
  <1>3. UsesComputed(i)
    <2>1. LlvmType(decl.type) \in Types
      BY <1>2 DEF LlvmType, TypeKind, Types, IntTypes
    <2>2. <<>> \in Seq(Operand) /\ DOMAIN <<>> = {}
      OBVIOUS
    <2> QED BY <2>1, <2>2 DEF UsesComputed, Instr, Opcodes
  <1>4. /\ ir' \in Seq(Instr)
        /\ (\A k \in DOMAIN ir : \A a \in DOMAIN ir[k].args :
              Computed(ir[k].args[a], k - 1))'
        /\ \A o \in Values : Computed(o, Len(ir)) => Computed(o, Len(ir))'
    BY <1>1, <1>3, CodeGrows
  <1>5. ValuesComputedBeforeUse'
    <2>1. Held' = Held
      BY <1>1 DEF Held
    <2> QED BY <1>4, <2>1, HeldFacts DEF ValuesComputedBeforeUse
  <1>6. item \in Item
    BY <1>2 DEF Item
  <1>7. TypeOK'
    <2>1. IsScope(pascal_scopes'[2])
      <3>1. IsScope(pascal_scopes[2])
        BY DEF IInv, TypeOK
      <3> QED BY <1>6, <3>1, BindFacts DEF IsScope, Bind
    <2>2. decl' \in [at : Nat \ {0}, name : Nat, type : TypeKind]
      <3>1. decl \in [at : Nat \ {0}, name : Nat, type : TypeKind]
        BY DEF IInv, TypeOK
      <3>2. \/ decl' = [decl EXCEPT !.name = decl.name + 1]
            \/ decl' = [decl EXCEPT !.name = 0, !.at = decl.at + 1]
        BY Zenon DEF DeclareName
      <3>3. [decl EXCEPT !.name = decl.name + 1] \in [at : Nat \ {0}, name : Nat, type : TypeKind]
        BY <3>1
      <3>4. [decl EXCEPT !.name = 0, !.at = decl.at + 1]
              \in [at : Nat \ {0}, name : Nat, type : TypeKind]
        <4> DEFINE d == [decl EXCEPT !.name = 0]
        <4>1. d \in [at : Nat \ {0}, name : Nat, type : TypeKind] /\ d.at = decl.at
          BY <3>1
        <4> HIDE DEF d
        <4>2. [d EXCEPT !.at = d.at + 1] \in [at : Nat \ {0}, name : Nat, type : TypeKind]
          BY <4>1
        <4> QED BY <4>1, <4>2 DEF d
      <3> QED BY <3>2, <3>3, <3>4, Zenon
    <2>3. IsScope(pascal_scopes'[1])
      BY BindFacts DEF IInv, TypeOK
    <2>4. IsScope(pascal_scopes[1])' /\ IsScope(pascal_scopes[2])'
      BY <2>1, <2>3 DEF IsScope
    <2> QED BY <1>1, <1>4, <2>2, <2>4, BindFacts DEF IInv, TypeOK
  <1>8. BuiltinsUntouched'
    BY BindFacts DEF IInv, BuiltinsUntouched
  <1>9. NameInList'
    <2>1. CASE decl.name < Len(VarDecls(cu)[decl.at].idents)
      <3>1. decl'.at = decl.at /\ decl'.name = decl.name + 1 /\ cu' = cu
        BY <1>1, <2>1 DEF DeclareName, IInv, TypeOK
      <3> QED BY <1>1, <2>1, <3>1, DeclFacts DEF NameInList
    <2>2. CASE ~(decl.name < Len(VarDecls(cu)[decl.at].idents))
      <3>1. decl'.at = decl.at + 1 /\ decl'.name = 0 /\ cu' = cu
        BY <1>1, <2>2 DEF DeclareName, IInv, TypeOK
      <3>2. VarDecls(cu) \in Seq(VarDecl) /\ decl.at \in Nat
        BY <1>1, DeclFacts
      <3>3. decl.at + 1 <= Len(VarDecls(cu)) => Len(VarDecls(cu)[decl.at + 1].idents) \in Nat
        <4> SUFFICES ASSUME decl.at + 1 <= Len(VarDecls(cu))
                     PROVE  Len(VarDecls(cu)[decl.at + 1].idents) \in Nat
          OBVIOUS
        <4>1. VarDecls(cu)[decl.at + 1] \in VarDecl
          BY <3>2, SeqElements
        <4>2. VarDecls(cu)[decl.at + 1].idents \in Seq(Ident)
          BY <4>1, UnitParts DEF IInv, TypeOK
        <4> QED BY <4>2, SeqElements
      <3> QED BY <3>1, <3>3 DEF NameInList
    <2> QED BY <2>1, <2>2
  <1>10. AccessesGoToSlots'
    <2>1. /\ Variables' = Variables \cup {DeclName} /\ DeclName \notin Variables
          /\ InnerScope'[DeclName] = item
          /\ \A y \in Variables : InnerScope'[y] = InnerScope[y]
      BY <1>1, BindFacts DEF Variables, Bind
    <2>2. /\ DOMAIN ir' = 1..Len(ir) + 1 /\ ir'[Len(ir) + 1] = i
          /\ \A k \in 1..Len(ir) : ir'[k] = ir[k]
      <3>1. i \in Instr
        BY <1>3 DEF UsesComputed
      <3> HIDE DEF i
      <3> QED BY <1>1, <1>2, <3>1, AppendFacts
    <2>3. \A x \in Variables :
            /\ InnerScope[x].alloc \in 1..Len(ir)
            /\ ir[InnerScope[x].alloc].op = "alloca"
            /\ ir[InnerScope[x].alloc].ty = LlvmType(InnerScope[x].type)
            /\ \A y \in Variables \ {x} : InnerScope[y].alloc # InnerScope[x].alloc
      BY <1>2 DEF IInv, AccessesGoToSlots
    <2>4. (\A x \in Variables :
             LET slot == InnerScope[x].alloc
             IN /\ slot \in DOMAIN ir
                /\ ir[slot].op = "alloca" /\ ir[slot].ty = LlvmType(InnerScope[x].type)
                /\ \A y \in Variables \ {x} : InnerScope[y].alloc # slot)'
      <3> SUFFICES ASSUME NEW x \in Variables'
                   PROVE  /\ InnerScope'[x].alloc \in DOMAIN ir'
                          /\ ir'[InnerScope'[x].alloc].op = "alloca"
                          /\ ir'[InnerScope'[x].alloc].ty = LlvmType(InnerScope'[x].type)
                          /\ \A y \in Variables' \ {x} :
                               InnerScope'[y].alloc # InnerScope'[x].alloc
        OBVIOUS
      <3>1. CASE x \in Variables
        BY <1>2, <2>1, <2>2, <2>3, <3>1
      <3>2. CASE x = DeclName
        BY <1>2, <2>1, <2>2, <2>3, <3>2
      <3> QED BY <2>1, <3>1, <3>2
    <2>5. \A k \in DOMAIN ir' :
            /\ ir'[k].op = "load"  => \E x \in Variables' :
                 /\ ir'[k].args[1].reg = InnerScope'[x].alloc
                 /\ ir'[k].ty = LlvmType(InnerScope'[x].type)
            /\ ir'[k].op = "store" => \E x \in Variables' :
                 ir'[k].args[2].reg = InnerScope'[x].alloc
      <3> TAKE k \in DOMAIN ir'
      <3>1. CASE k \in 1..Len(ir)
        BY <1>2, <2>1, <2>2, <3>1 DEF IInv, AccessesGoToSlots
      <3>2. CASE k = Len(ir) + 1
        BY <2>2, <3>2
      <3> QED BY <1>2, <2>2, <3>1, <3>2
    <2> QED BY <2>4, <2>5 DEF AccessesGoToSlots
  <1>11. (\A k \in DOMAIN frames : HoldsLeft(frames[k]))'
    BY <1>1 DEF IInv, HoldsLeft
  <1> QED BY <1>5, <1>7, <1>8, <1>9, <1>10, <1>11 DEF IInv

\* The declarations keep the invariant.
LEMMA DeclarationsStep ==
  ASSUME IInv, Declarations
  PROVE  IInv'
PROOF
  <1>1. CASE RejectBlock
    BY <1>1, ThrowStep DEF RejectBlock, Exceptions
  <1>2. CASE StartMain
    <2>1. Proceeds
      BY <1>2 DEF StartMain, ModuleFunctions, Proceeds, Stages
    <2> QED BY <1>2, <2>1, QuietStep DEF StartMain
  <1>3. CASE ResolveType
    BY <1>3, ResolveTypeStep
  <1>4. CASE RejectName
    BY <1>4, ThrowStep DEF RejectName, Exceptions
  <1>5. CASE DeclareName
    BY <1>5, DeclareNameStep
  <1>6. CASE StartBody
    <2>1. Proceeds
      BY <1>6 DEF StartBody, Proceeds, Stages, IInv, TypeOK
    <2>2. Frame(Body(cu)) \in FrameSet
      <3>1. cu \in Units
        BY DEF IInv, TypeOK
      <3>2. Body(cu) \in Node
        BY <3>1, UnitParts
      <3> QED BY <3>2 DEF Frame, FrameSet
    <2>3. Keeps(frames', NoValue)
      <3> DEFINE f == Frame(Body(cu))
      <3>1. f.acc = NoValue /\ HoldsLeft(f)
        BY DEF Frame, HoldsLeft
      <3> HIDE DEF f
      <3>2. <<f>> \in Seq(FrameSet) /\ DOMAIN <<f>> = {1} /\ <<f>>[1] = f
        BY <2>2 DEF f
      <3>3. frames' = <<f>>
        BY <1>6 DEF StartBody, f
      <3> QED BY <3>1, <3>2, <3>3 DEF Keeps
    <2>4. Yields(ir', NoValue)
      BY <1>6 DEF StartBody, Yields, Computed, NoValue, IsConst
    <2> QED BY <1>6, <2>1, <2>3, <2>4, HeldFacts, Step DEF StartBody, Values
  <1> QED BY <1>1, <1>2, <1>3, <1>4, <1>5, <1>6 DEF Declarations

-----------------------------------------------------------------------------
(***************************************************************************)
(* The walk over the statements.                                           *)
(***************************************************************************)

\* A visit or an eval that returns without emitting.
LEMMA ReturnStep ==
  ASSUME IInv, KeepWalk, frames # <<>>, frames' = Popped, UNCHANGED ir,
         NEW v \in Values, Computed(v, Len(ir)), ret' \in {v, ret}
  PROVE  IInv'
PROOF
  <1>1. Keeps(frames', v)
    BY PopKeeps
  <1>2. Yields(ir', v)
    BY DEF Yields
  <1> QED BY <1>1, <1>2, HeldFacts, WalkProceeds, Step

\* A visit or an eval that calls another.
LEMMA CallStep ==
  ASSUME IInv, KeepWalk, frames # <<>>, UNCHANGED <<ir, ret>>,
         NEW n \in Node, NEW acc \in Held \cup {NoValue}, frames' = Calling(n, acc),
         HoldsLeft([node |-> Top.node, next |-> Top.next + 1, acc |-> acc])
  PROVE  IInv'
PROOF
  <1>1. Keeps(frames', NoValue)
    BY CallKeeps
  <1>2. Yields(ir', NoValue) /\ NoValue \in Values
    BY DEF Yields, Computed, NoValue, IsConst, Values
  <1> QED BY <1>1, <1>2, HeldFacts, WalkProceeds, Step

\* A visit that emits an instruction for its effect.
LEMMA EffectStep ==
  ASSUME IInv, KeepWalk, frames # <<>>, NEW i, Fits(i), ir' = Append(ir, i), Return(NoValue)
  PROVE  IInv'
PROOF
  <1>1. Keeps(frames', NoValue)
    BY PopKeeps DEF Return
  <1>2. Yields(ir', NoValue) /\ NoValue \in Values
    BY DEF Yields, Computed, NoValue, IsConst, Values
  <1> QED BY <1>1, <1>2, WalkProceeds, Step DEF Return

\* A value that was returned is computed.
LEMMA ReturnedIsOperand ==
  ASSUME IInv, ret # NoValue
  PROVE  ret \in Operand /\ Computed(ret, Len(ir))
PROOF
  BY HeldFacts DEF Values

\* Addressing and storing.
LEMMA AssignmentStoreStep ==
  ASSUME IInv, AssignmentStore
  PROVE  IInv'
PROOF
  <1> DEFINE x == Top.node.target.ident
  <1>1. frames # <<>> /\ ret # NoValue
    BY DEF AssignmentStore, At
  <1>2. CASE ~IsVariable(x)
    BY <1>2, ThrowStep DEF AssignmentStore, Exceptions
  <1>3. CASE IsVariable(x)
    <2> DEFINE i == [op |-> "store", ty |-> "void", args |-> <<ret, SlotOf(x)>>]
    <2>1. ir' = Append(ir, i) /\ Return(NoValue) /\ KeepWalk
      BY <1>3 DEF AssignmentStore, Emit
    <2>2. ret \in Operand /\ Computed(ret, Len(ir))
      BY <1>1, ReturnedIsOperand
    <2> HIDE DEF x
    <2>3. SlotOf(x) \in Operand /\ Computed(SlotOf(x), Len(ir))
      BY <1>3, SlotFacts
    <2>4. SlotOf(x).reg = InnerScope[x].alloc /\ x \in Variables
      BY <1>3, LookupFacts DEF SlotOf, Reg
    <2>5. UsesComputed(i)
      BY <2>2, <2>3 DEF UsesComputed, Instr, Opcodes
    <2>6. Fits(i)
      BY <2>4, <2>5 DEF Fits
    <2> HIDE DEF i
    <2> QED BY <1>1, <2>1, <2>6, EffectStep
  <1> QED BY <1>2, <1>3

\* The call of write_int is passed the value just returned.
LEMMA ProcCallEmitStep ==
  ASSUME IInv, ProcCallEmit
  PROVE  IInv'
PROOF
  <1>1. frames # <<>> /\ ret # NoValue
    BY DEF ProcCallEmit, At
  <1>2. CASE "write_int" \notin functions
    BY <1>2, ThrowStep DEF ProcCallEmit, Exceptions
  <1>3. CASE "write_int" \in functions /\ ~Accepted("call", <<ret>>)
    BY <1>3, ThrowStep DEF ProcCallEmit
  <1>4. CASE "write_int" \in functions /\ Accepted("call", <<ret>>)
    <2> DEFINE i == [op |-> "call", ty |-> "void", args |-> <<ret>>]
    <2>1. ir' = Append(ir, i) /\ Return(NoValue) /\ KeepWalk
      BY <1>4 DEF ProcCallEmit, Emit
    <2>2. ret \in Operand /\ Computed(ret, Len(ir))
      BY <1>1, ReturnedIsOperand
    <2>3. Fits(i)
      BY <2>2 DEF Fits, UsesComputed, Instr, Opcodes
    <2> HIDE DEF i
    <2> QED BY <1>1, <2>1, <2>3, EffectStep
  <1> QED BY <1>2, <1>3, <1>4

\* The return instruction that ends main.
LEMMA FinishStep ==
  ASSUME IInv, Finish
  PROVE  IInv'
PROOF
  <1> DEFINE i == [op |-> "ret", ty |-> "void", args |-> <<Const("i32", 0)>>]
  <1>1. ir' = Append(ir, i) /\ UNCHANGED <<frames, ret>>
    BY DEF Finish, Emit
  <1>2. Proceeds
    BY DEF Finish, Proceeds, Stages, Terminal, IInv, TypeOK
  <1>3. Const("i32", 0) \in Operand /\ Computed(Const("i32", 0), Len(ir))
    BY DEF Const, Operand, Types, IntTypes, Value, Computed, IsConst
  <1>4. Fits(i)
    BY <1>3 DEF Fits, UsesComputed, Instr, Opcodes
  <1> HIDE DEF i
  <1>5. Yields(ir', NoValue) /\ NoValue \in Values
    BY <1>1, <1>4 DEF Yields, Computed, NoValue, IsConst, Values
  <1>6. Keeps(frames', NoValue)
    BY <1>1 DEF Keeps, Held, IInv, TypeOK
  <1> QED BY <1>1, <1>2, <1>5, <1>6, HeldFacts, Step

\* The statements keep the invariant.
LEMMA StatementsStep ==
  ASSUME IInv, Statements
  PROVE  IInv'
PROOF
  <1>1. CASE VisitStmtSeq
    <2>1. frames # <<>> /\ Top.node.kind = "StmtSeq" /\ KeepWalk /\ UNCHANGED <<ir, ret>>
      BY <1>1 DEF VisitStmtSeq, At
    <2>2. CASE Top.next < Len(Top.node.stmts)
      <3>1. frames' = Calling(Top.node.stmts[Top.next + 1], NoValue)
        BY <1>1, <2>2 DEF VisitStmtSeq
      <3>2. Top.next + 1 \in 1..Len(Top.node.stmts)
        BY <2>1, <2>2, TopFacts, StatementNodes
      <3>3. Top.node.stmts[Top.next + 1] \in Node
        BY <2>1, <3>2, TopFacts, StatementNodes
      <3> QED BY <2>1, <3>1, <3>3, CallStep DEF HoldsLeft, ChainKinds
    <2>3. CASE ~(Top.next < Len(Top.node.stmts))
      BY <1>1, <2>1, <2>3, HeldFacts, ReturnStep DEF VisitStmtSeq
    <2> QED BY <2>2, <2>3
  <1>2. CASE VisitIgnored \/ VisitWriteStr
    BY <1>2, HeldFacts, ReturnStep DEF VisitIgnored, VisitWriteStr, At
  <1>3. CASE AssignmentEval
    <2>1. frames # <<>> /\ Top.node.kind = "Assignment" /\ KeepWalk /\ UNCHANGED <<ir, ret>>
          /\ frames' = Calling(Top.node.expr, NoValue)
      BY <1>3 DEF AssignmentEval, At
    <2>2. Top.node.expr \in Node
      BY <2>1, TopFacts, StatementNodes
    <2> QED BY <2>1, <2>2, CallStep DEF HoldsLeft, ChainKinds
  <1>4. CASE AssignmentStore
    BY <1>4, AssignmentStoreStep
  <1>5. CASE ProcCallEval
    <2>1. frames # <<>> /\ Top.node.kind = "ProcCall" /\ KeepWalk /\ UNCHANGED <<ir, ret>>
          /\ frames' = Calling(Top.node.params[1], NoValue) /\ Len(Top.node.params) = 1
      BY <1>5 DEF ProcCallEval, At
    <2>2. Top.node.params[1] \in Node
      BY <2>1, TopFacts, StatementNodes
    <2> QED BY <2>1, <2>2, CallStep DEF HoldsLeft, ChainKinds
  <1>6. CASE ProcCallReject
    BY <1>6, ThrowStep DEF ProcCallReject, Exceptions
  <1>7. CASE ProcCallEmit
    BY <1>7, ProcCallEmitStep
  <1>8. CASE Finish
    BY <1>8, FinishStep
  <1> QED BY <1>1, <1>2, <1>3, <1>4, <1>5, <1>6, <1>7, <1>8 DEF Statements

-----------------------------------------------------------------------------
(***************************************************************************)
(* The evals.                                                              *)
(***************************************************************************)

\* A variable's value is loaded from its slot, at the slot's type.
LEMMA EvalDesignatorStep ==
  ASSUME IInv, EvalDesignator
  PROVE  IInv'
PROOF
  <1> DEFINE x == Top.node.ident
  <1>1. frames # <<>>
    BY DEF EvalDesignator, At
  <1>2. CASE ~IsVariable(x) \/ Top.node.items # <<>>
    BY <1>2, ThrowStep DEF EvalDesignator, Exceptions
  <1>3. CASE IsVariable(x) /\ Top.node.items = <<>>
    <2> DEFINE ty == LlvmType(lookup_decl(x).type)
               i  == [op |-> "load", ty |-> ty, args |-> <<SlotOf(x)>>]
               v  == Reg(Len(ir) + 1, ty)
    <2>1. ir' = Append(ir, i) /\ Return(v) /\ KeepWalk
      BY <1>3 DEF EvalDesignator, Emit
    <2> HIDE DEF x
    <2>2. SlotOf(x) \in Operand /\ Computed(SlotOf(x), Len(ir))
      BY <1>3, SlotFacts
    <2>3. /\ SlotOf(x).reg = InnerScope[x].alloc /\ x \in Variables
          /\ lookup_decl(x) = InnerScope[x] /\ lookup_decl(x).type \in TypeKind
      BY <1>3, LookupFacts DEF SlotOf, Reg
    <2>4. ty \in Types
      BY <2>3 DEF LlvmType, TypeKind, Types, IntTypes
    <2>5. UsesComputed(i)
      BY <2>2, <2>4 DEF UsesComputed, Instr, Opcodes
    <2>6. Fits(i)
      BY <2>3, <2>5 DEF Fits
    <2>7. v = Reg(Len(ir) + 1, ResultType(i))
      BY DEF ResultType
    <2>8. v \in Values
      <3>1. Len(ir) \in Nat
        BY SeqElements DEF IInv, TypeOK
      <3> QED BY <2>4, <3>1 DEF Reg, Operand, Value, Values
    <2> HIDE DEF i, v
    <2>9. Yields(ir', v)
      BY <2>1, <2>6, <2>7 DEF Yields
    <2>10. Keeps(frames', v)
      BY <1>1, <2>1, PopKeeps DEF Return
    <2> QED BY <2>1, <2>8, <2>9, <2>10, WalkProceeds, Step DEF Return
  <1> QED BY <1>2, <1>3

\* A negation combines the value returned with a constant of its type.
LEMMA EvalNegationStep ==
  ASSUME IInv, EvalNegation
  PROVE  IInv'
PROOF
  <1> DEFINE args == <<ret, Const(ret.ty, -1)>>
             v    == BuiltVal("xor", args)
  <1>1. frames # <<>> /\ ret # NoValue /\ ReturnBuilt("xor", args)
    BY DEF EvalNegation, At
  <1>2. ret \in Operand /\ Computed(ret, Len(ir))
    BY <1>1, ReturnedIsOperand
  <1>3. args \in Args("xor") /\ \A k \in DOMAIN args : Computed(args[k], Len(ir))
    BY <1>2 DEF Args, Const, Operand, Value, Computed, IsConst
  <1>4. "xor" \in PureOps
    BY DEF PureOps, ArithOps
  <1> HIDE DEF args
  <1>5. v \in Values /\ Yields(BuiltIr("xor", args), v)
    BY <1>3, <1>4, BuiltFacts DEF Values
  <1>6. CASE ~Accepted("xor", args)
    BY <1>1, <1>6, ThrowStep DEF ReturnBuilt
  <1>7. CASE Accepted("xor", args)
    <2>1. ir' = BuiltIr("xor", args) /\ Return(v) /\ KeepWalk
      BY <1>1, <1>7 DEF ReturnBuilt
    <2> HIDE DEF v
    <2>2. Keeps(frames', v)
      BY <1>1, <2>1, PopKeeps DEF Return
    <2> QED BY <1>5, <2>1, <2>2, WalkProceeds, Step DEF Return
  <1> QED BY <1>6, <1>7

\* The factors keep the invariant.
LEMMA FactorsStep ==
  ASSUME IInv, Factors
  PROVE  IInv'
PROOF
  <1>1. CASE EvalNumber
    <2>1. frames # <<>> /\ Top.node.int \in Int
      BY <1>1, TopFacts, FactorNodes DEF EvalNumber, At
    <2>2. Const("i32", Top.node.int) \in Values /\ Computed(Const("i32", Top.node.int), Len(ir))
      BY <2>1 DEF Const, Values, Operand, Types, IntTypes, Value, Computed, IsConst
    <2> QED BY <1>1, <2>1, <2>2, ReturnStep DEF EvalNumber, Return
  <1>2. CASE EvalBool
    <2>1. frames # <<>> /\ Bit(Top.node.bool) \in Int
      BY <1>2 DEF EvalBool, At, Bit
    <2>2. Const("i1", Bit(Top.node.bool)) \in Values
          /\ Computed(Const("i1", Bit(Top.node.bool)), Len(ir))
      BY <2>1 DEF Const, Values, Operand, Types, IntTypes, Value, Computed, IsConst
    <2> QED BY <1>2, <2>1, <2>2, ReturnStep DEF EvalBool, Return
  <1>3. CASE EvalUnsupported
    BY <1>3, ThrowStep DEF EvalUnsupported, Exceptions
  <1>4. CASE EvalDesignator
    BY <1>4, EvalDesignatorStep
  <1>5. CASE CallInner
    <2>1. frames # <<>> /\ Top.node.kind \in {"Paren", "Negation"} /\ KeepWalk
          /\ UNCHANGED <<ir, ret>> /\ frames' = Calling(Top.node.inner, NoValue)
      BY <1>5 DEF CallInner, At
    <2>2. Top.node.inner \in Node
      BY <2>1, TopFacts, FactorNodes
    <2> QED BY <2>1, <2>2, CallStep DEF HoldsLeft, ChainKinds
  <1>6. CASE EvalParen
    BY <1>6, HeldFacts, ReturnStep DEF EvalParen, At, Return
  <1>7. CASE EvalNegation
    BY <1>7, EvalNegationStep
  <1> QED BY <1>1, <1>2, <1>3, <1>4, <1>5, <1>6, <1>7 DEF Factors

\* A binary operator combines the value held with the one returned: both are
\* computed, although code may have been emitted between them.
LEMMA TakeRhsStep ==
  ASSUME IInv, TakeRhs
  PROVE  IInv'
PROOF
  <1> DEFINE op   == Top.node.ops[Top.next - 1].op
             args == Operands(op, Top.acc, ret)
             v    == BuiltVal(Opcode(op), args)
  <1>1. frames # <<>> /\ Top.node.kind \in ChainKinds /\ Top.next > 1 /\ ret # NoValue
    BY DEF TakeRhs, At
  <1>2. CASE op = "RealDiv"
    BY <1>2, ThrowStep DEF TakeRhs, Exceptions
  <1>3. CASE op # "RealDiv" /\ ~Accepted(Opcode(op), args)
    BY <1>3, ThrowStep DEF TakeRhs
  <1>4. CASE op # "RealDiv" /\ Accepted(Opcode(op), args)
    <2>1. /\ ir' = BuiltIr(Opcode(op), args) /\ KeepWalk
          /\ frames' = [frames EXCEPT ![Len(frames)].acc = v] /\ ret' = NoValue
      BY <1>4 DEF TakeRhs
    <2>2. ret \in Operand /\ Computed(ret, Len(ir))
      BY <1>1, ReturnedIsOperand
    <2>3. Top.acc \in Operand /\ Computed(Top.acc, Len(ir))
      BY <1>1, TopFacts, HeldFacts DEF HoldsLeft, Values
    <2>4. op \in (MultOp \cup AddOp \cup RelOp) \ {"In", "RealDiv"}
      <3>1. Top.next - 1 \in 1..Len(Top.node.ops) /\ op # "In"
        BY <1>1, TopFacts, ChainNodes DEF HoldsLeft
      <3> QED BY <1>1, <1>4, <3>1, TopFacts, ChainNodes
    <2> HIDE DEF op
    <2>5. /\ Opcode(op) \in PureOps /\ args \in Args(Opcode(op))
          /\ \A k \in DOMAIN args : Computed(args[k], Len(ir))
      BY <2>2, <2>3, <2>4, OperandsFacts
    <2> HIDE DEF args
    <2>6. v \in Values /\ Yields(ir', v) /\ v \in Operand
      BY <2>1, <2>5, BuiltFacts DEF Values
    <2> HIDE DEF v
    <2>7. Keeps(frames', v)
      <3>1. Top.next > 0
        BY <1>1, TopFacts
      <3> QED BY <1>1, <2>1, <2>6, <3>1, TakeKeeps, Zenon
    <2> QED BY <2>1, <2>6, <2>7, WalkProceeds, Step DEF Values
  <1> QED BY <1>2, <1>3, <1>4

\* The three loops over operators keep the invariant.
LEMMA ChainsStep ==
  ASSUME IInv, Chains
  PROVE  IInv'
PROOF
  <1>1. CASE CallStart
    <2>1. frames # <<>> /\ Top.node.kind \in ChainKinds /\ KeepWalk /\ Top.next = 0
          /\ UNCHANGED <<ir, ret>> /\ frames' = Calling(Top.node.start, NoValue)
      BY <1>1 DEF CallStart, At
    <2>2. Top.node.start \in Node
      BY <2>1, TopFacts, ChainNodes
    <2> QED BY <2>1, <2>2, CallStep DEF HoldsLeft
  <1>2. CASE TakeStart
    <2>1. frames # <<>> /\ ret # NoValue /\ KeepWalk /\ UNCHANGED ir /\ ret' = NoValue
          /\ Top.next = 1
          /\ frames' = [frames EXCEPT ![Len(frames)].acc = ret]
      BY <1>2 DEF TakeStart, At
    <2>2. ret \in Operand /\ Yields(ir', ret) /\ ret \in Values /\ Top.next > 0
      BY <2>1, ReturnedIsOperand DEF Yields, Values
    <2>3. Keeps(frames', ret)
      BY <2>1, <2>2, TakeKeeps, Zenon
    <2> QED BY <2>1, <2>2, <2>3, WalkProceeds, Step DEF Values
  <1>3. CASE CallRhs
    <2> DEFINE op == Top.node.ops[Top.next]
    <2>1. frames # <<>> /\ Top.node.kind \in ChainKinds /\ Top.acc # NoValue
      BY <1>3 DEF CallRhs, InChain, At
    <2>2. CASE op.op = "In"
      BY <1>3, <2>2, ThrowStep DEF CallRhs, Exceptions
    <2>3. CASE op.op # "In"
      <3>1. KeepWalk /\ UNCHANGED <<ir, ret>> /\ frames' = Calling(op.rhs, Top.acc)
            /\ Top.next <= Len(Top.node.ops)
        BY <1>3, <2>3 DEF CallRhs
      <3>2. Top.next \in 1..Len(Top.node.ops)
        BY <2>1, <3>1, TopFacts, ChainNodes DEF HoldsLeft
      <3>3. op.rhs \in Node
        BY <2>1, <3>2, TopFacts, ChainNodes
      <3>4. HoldsLeft([node |-> Top.node, next |-> Top.next + 1, acc |-> Top.acc])
        <4>1. Top.next + 1 - 1 = Top.next /\ Top.next + 1 > 0
              /\ Top.next + 1 <= Len(Top.node.ops) + 1
          BY <2>1, <3>2, TopFacts, ChainNodes
        <4> DEFINE f == [node |-> Top.node, next |-> Top.next + 1, acc |-> Top.acc]
        <4>2. f.node = Top.node /\ f.next = Top.next + 1 /\ f.acc = Top.acc
          OBVIOUS
        <4> HIDE DEF f
        <4>3. f.node.ops[f.next - 1].op # "In"
          <5>1. f.next - 1 = Top.next
            BY <2>1, <4>2, TopFacts
          <5> QED BY <2>3, <4>2, <5>1
        <4>4. HoldsLeft(f)
          BY <2>1, <4>1, <4>2, <4>3 DEF HoldsLeft
        <4> QED BY <4>4 DEF f
      <3> QED BY <2>1, <3>1, <3>3, <3>4, TopFacts, CallStep
    <2> QED BY <2>2, <2>3
  <1>4. CASE TakeRhs
    BY <1>4, TakeRhsStep
  <1>5. CASE ChainReturn
    <2>1. frames # <<>> /\ KeepWalk /\ UNCHANGED ir /\ Return(Top.acc)
      BY <1>5 DEF ChainReturn, InChain, At
    <2>2. Top.acc \in Values /\ Computed(Top.acc, Len(ir))
      BY <2>1, TopFacts, HeldFacts
    <2> QED BY <2>1, <2>2, ReturnStep DEF Return
  <1> QED BY <1>1, <1>2, <1>3, <1>4, <1>5 DEF Chains

-----------------------------------------------------------------------------
(***************************************************************************)
(* The invariant and the theorems.                                         *)
(***************************************************************************)

\* The invariant holds when the constructor starts.
LEMMA InitIInv ==
  ASSUME Init
  PROVE  IInv
PROOF
  <1>1. TypeOK
    <2>1. IsScope(BuiltinScope) /\ IsScope(EmptyScope)
      <3>1. IsScope(BuiltinScope)
        BY BuiltinsAreIdents DEF IsScope, BuiltinScope, Item
      <3>2. IsScope(EmptyScope)
        BY DEF IsScope, EmptyScope
      <3> QED BY <3>1, <3>2
    <2>2. <<BuiltinScope, EmptyScope>>[1] = BuiltinScope
          /\ <<BuiltinScope, EmptyScope>>[2] = EmptyScope
      OBVIOUS
    <2>3. /\ pascal_scopes = <<pascal_scopes[1], pascal_scopes[2]>>
          /\ IsScope(pascal_scopes[1]) /\ IsScope(pascal_scopes[2])
      BY <2>1, <2>2, Zenon DEF Init
    <2>4. decl \in [at : Nat \ {0}, name : Nat, type : TypeKind]
      BY DEF Init, TypeKind
    <2>5. ir \in Seq(Instr) /\ frames \in Seq(FrameSet)
      BY DEF Init
    <2> QED BY <2>3, <2>4, <2>5 DEF Init, TypeOK, Stages
  <1>2. BuiltinsUntouched
    BY DEF Init, BuiltinsUntouched
  <1>3. NameInList
    <2> SUFFICES ASSUME decl.at <= Len(VarDecls(cu))
                 PROVE  decl.name <= Len(VarDecls(cu)[decl.at].idents)
      BY DEF NameInList
    <2>1. decl.at = 1 /\ decl.name = 0 /\ cu \in Units
      BY DEF Init
    <2>2. VarDecls(cu) \in Seq(VarDecl)
      BY <2>1, UnitParts
    <2>3. VarDecls(cu)[1] \in VarDecl
      BY <2>1, <2>2, SeqElements
    <2>4. VarDecls(cu)[1].idents \in Seq(Ident)
      BY <2>1, <2>3, UnitParts
    <2> QED BY <2>1, <2>4, SeqElements
  <1>4. \A k \in DOMAIN frames : HoldsLeft(frames[k])
    BY DEF Init
  <1>5. ValuesComputedBeforeUse
    <2>1. Held = {NoValue}
      BY DEF Init, Held
    <2>2. DOMAIN ir = {}
      BY DEF Init
    <2> QED BY <2>1, <2>2 DEF ValuesComputedBeforeUse, Computed, IsConst, NoValue
  <1>6. AccessesGoToSlots
    <2>1. DOMAIN ir = {}
      BY DEF Init
    <2>2. InnerScope = EmptyScope
      <3>1. Len(<<BuiltinScope, EmptyScope>>) = 2
            /\ <<BuiltinScope, EmptyScope>>[2] = EmptyScope
        OBVIOUS
      <3> QED BY <3>1, Zenon DEF Init, InnerScope
    <2>3. Variables = {}
      BY <2>2 DEF Variables, EmptyScope
    <2> QED BY <2>1, <2>3 DEF AccessesGoToSlots
  <1> QED BY <1>1, <1>2, <1>3, <1>4, <1>5, <1>6 DEF IInv

\* Every step keeps the invariant.
LEMMA NextIInv ==
  ASSUME IInv, [Next]_vars
  PROVE  IInv'
PROOF
  <1>1. CASE Declarations
    BY <1>1, DeclarationsStep
  <1>2. CASE Statements
    BY <1>2, StatementsStep
  <1>3. CASE Factors
    BY <1>3, FactorsStep
  <1>4. CASE Chains
    BY <1>4, ChainsStep
  <1>5. CASE UNCHANGED vars
    <2>1. UNCHANGED <<cu, stage, decl, pascal_scopes, functions, ir, frames, ret>>
      BY <1>5 DEF vars
    <2>2. Proceeds
      BY <2>1 DEF Proceeds, IInv, TypeOK
    <2> QED BY <2>1, <2>2, QuietStep
  <1> QED BY <1>1, <1>2, <1>3, <1>4, <1>5 DEF Next

\* The invariant holds throughout: the three facts about scopes, names and
\* chains, with the form of the code, are what no visit or eval can break alone.
THEOREM Invariant == Spec => []IInv
PROOF
  <1>1. Init => IInv
    BY InitIInv
  <1>2. IInv /\ [Next]_vars => IInv'
    BY NextIInv
  <1> QED BY <1>1, <1>2, PTL DEF Spec

\* Every variable of the walk keeps to its type: in particular, no eval ever
\* stores the "no value yet" of another as an operand, and main exists before
\* code is put into it.
THEOREM TypeCorrect == Spec => []TypeOK
PROOF
  <1>1. IInv => TypeOK
    BY DEF IInv
  <1> QED BY <1>1, Invariant, PTL

\* For every program, at every moment of its compilation, main's code uses
\* only values that earlier instructions computed, at the types they have, and
\* so do the evals that are still active.
THEOREM CodeIsWellFormed == Spec => []ValuesComputedBeforeUse
PROOF
  <1>1. IInv => ValuesComputedBeforeUse
    BY DEF IInv
  <1> QED BY <1>1, Invariant, PTL

\* For every program, each variable has a slot of its own and of its type, and
\* each load and store addresses such a slot.
THEOREM SlotsAreRight == Spec => []AccessesGoToSlots
PROOF
  <1>1. IInv => AccessesGoToSlots
    BY DEF IInv
  <1> QED BY <1>1, Invariant, PTL

-----------------------------------------------------------------------------
(***************************************************************************)
(* What a step may never do.                                               *)
(***************************************************************************)

\* A step appends to the code at most, and only DeclareName touches a scope.
LEMMA StepShape ==
  ASSUME [Next]_vars
  PROVE  /\ ir' = ir \/ \E i : ir' = Append(ir, i)
         /\ UNCHANGED pascal_scopes \/ DeclareName
PROOF
  <1>1. CASE Declarations
    BY <1>1, Zenon DEF Declarations, RejectBlock, StartMain, ResolveType, RejectName,
                       DeclareName, StartBody, Throw, Emit
  <1>2. CASE Statements
    BY <1>2, Zenon DEF Statements, VisitStmtSeq, VisitIgnored, AssignmentEval,
         AssignmentStore, ProcCallEval, ProcCallReject, ProcCallEmit, VisitWriteStr,
         Finish, Throw, Return, KeepWalk, Emit
  <1>3. CASE Factors
    BY <1>3, Zenon DEF Factors, EvalNumber, EvalBool, EvalUnsupported, EvalDesignator,
         CallInner, EvalParen, EvalNegation, ReturnBuilt, BuiltIr, Throw, Return, KeepWalk,
         Emit
  <1>4. CASE Chains
    BY <1>4, Zenon DEF Chains, CallStart, TakeStart, CallRhs, TakeRhs, ChainReturn,
         BuiltIr, Throw, Return, KeepWalk, Emit
  <1>5. CASE UNCHANGED vars
    BY <1>5 DEF vars
  <1> QED BY <1>1, <1>2, <1>3, <1>4, <1>5 DEF Next

\* A step alters no declaration and no instruction.
LEMMA NothingIsAltered ==
  ASSUME IInv, [Next]_vars
  PROVE  /\ \A s \in DOMAIN pascal_scopes : \A x \in DOMAIN pascal_scopes[s] :
              x \in DOMAIN pascal_scopes'[s] /\ pascal_scopes'[s][x] = pascal_scopes[s][x]
         /\ Len(ir) <= Len(ir') /\ \A k \in DOMAIN ir : ir'[k] = ir[k]
PROOF
  <1>1. \A s \in DOMAIN pascal_scopes : \A x \in DOMAIN pascal_scopes[s] :
          x \in DOMAIN pascal_scopes'[s] /\ pascal_scopes'[s][x] = pascal_scopes[s][x]
    <2>1. CASE UNCHANGED pascal_scopes
      BY <2>1
    <2>2. CASE DeclareName
      <3>1. DOMAIN pascal_scopes = {1, 2}
        BY ScopesAreTwo DEF IInv, TypeOK
      <3>2. DeclName \notin DOMAIN pascal_scopes[2]
        BY <2>2, BindFacts DEF DeclareName, InUse
      <3>3. /\ pascal_scopes'[1] = pascal_scopes[1]
            /\ \A x \in DOMAIN pascal_scopes[2] :
                 x \in DOMAIN pascal_scopes'[2] /\ pascal_scopes'[2][x] = pascal_scopes[2][x]
        BY <2>2, <3>2, BindFacts DEF Bind
      <3> QED BY <3>1, <3>3
    <2> QED BY <2>1, <2>2, StepShape
  <1>2. Len(ir) <= Len(ir') /\ \A k \in DOMAIN ir : ir'[k] = ir[k]
    <2>1. ir \in Seq(Instr) /\ Len(ir) \in Nat
      BY SeqElements DEF IInv, TypeOK
    <2>2. CASE ir' = ir
      BY <2>1, <2>2
    <2>3. CASE \E i : ir' = Append(ir, i)
      <3>1. PICK i : ir' = Append(ir, i)
        BY <2>3
      <3>2. ir \in Seq(Instr \cup {i})
        BY <2>1, SeqMonotonic
      <3>3. /\ Len(ir') = Len(ir) + 1 /\ DOMAIN ir = 1..Len(ir)
            /\ \A k \in 1..Len(ir) : ir'[k] = ir[k]
        BY <3>1, <3>2, AppendFacts
      <3> QED BY <2>1, <3>3
    <2> QED BY <2>2, <2>3, StepShape
  <1> QED BY <1>1, <1>2

\* For every program, what an identifier means and the code already emitted
\* never change again, in whatever order names are declared and errors thrown.
THEOREM NothingIsUndone == Spec => DeclarationsAndCodeAreFinal
PROOF
  <1>1. IInv /\ [Next]_vars =>
          [/\ \A s \in DOMAIN pascal_scopes : \A x \in DOMAIN pascal_scopes[s] :
                x \in DOMAIN pascal_scopes'[s] /\ pascal_scopes'[s][x] = pascal_scopes[s][x]
           /\ Len(ir) <= Len(ir') /\ \A k \in DOMAIN ir : ir'[k] = ir[k]]_vars
    BY NothingIsAltered
  <1> QED BY <1>1, Invariant, PTL DEF Spec, DeclarationsAndCodeAreFinal

\* The functions visit_write_int asks the module for are there from the moment
\* declarations are visited.
WriteIntIsThere ==
  /\ WriteIntIsDeclared
  /\ stage \in {"decls", "stmts"} => "write_int" \in functions

\* They stay there.
LEMMA WriteIntIsThereAlways == Spec => []WriteIntIsThere
PROOF
  <1>1. Init => WriteIntIsThere
    BY DEF Init, WriteIntIsThere, WriteIntIsDeclared
  <1>2. WriteIntIsThere /\ [Next]_vars => WriteIntIsThere'
    <2> SUFFICES ASSUME WriteIntIsThere, [Next]_vars
                 PROVE  WriteIntIsThere'
      OBVIOUS
    <2>1. CASE Declarations
      BY <2>1 DEF Declarations, RejectBlock, StartMain, ResolveType, RejectName, DeclareName,
                  StartBody, Throw, TypeError, ModuleFunctions, WriteIntIsThere,
                  WriteIntIsDeclared
    <2>2. CASE Statements
      BY <2>2 DEF Statements, VisitStmtSeq, VisitIgnored, AssignmentEval, AssignmentStore,
                  ProcCallEval, ProcCallReject, ProcCallEmit, VisitWriteStr, Finish, At,
                  Throw, Return, KeepWalk, WriteIntIsThere, WriteIntIsDeclared
    <2>3. CASE Factors
      BY <2>3 DEF Factors, EvalNumber, EvalBool, EvalUnsupported, EvalDesignator, CallInner,
                  EvalParen, EvalNegation, ReturnBuilt, Throw, Return, KeepWalk,
                  WriteIntIsThere, WriteIntIsDeclared
    <2>4. CASE Chains
      BY <2>4 DEF Chains, CallStart, TakeStart, CallRhs, TakeRhs, ChainReturn, Throw, Return,
                  KeepWalk, WriteIntIsThere, WriteIntIsDeclared
    <2>5. CASE UNCHANGED vars
      BY <2>5 DEF vars, WriteIntIsThere, WriteIntIsDeclared
    <2> QED BY <2>1, <2>2, <2>3, <2>4, <2>5 DEF Next
  <1> QED BY <1>1, <1>2, PTL DEF Spec

\* For every program, the internal error of visit_write_int never occurs.
THEOREM WriteIntIsAlwaysThere == Spec => []WriteIntIsDeclared
PROOF
  <1>1. WriteIntIsThere => WriteIntIsDeclared
    BY DEF WriteIntIsThere
  <1> QED BY <1>1, WriteIntIsThereAlways, PTL

-----------------------------------------------------------------------------
(***************************************************************************)
(* The theorem that the recursive walk of lowerer.cpp is linear: what an   *)
(* expression computes is held by one eval at a time, until one            *)
(* instruction consumes it.                                                *)
(***************************************************************************)
ExprKinds == FactorKinds \cup ChainKinds

\* A frame that has called an eval and will take the value it returns.
Awaits(f) ==
  /\ f.next > 0
  /\ f.node.kind \in {"Assignment", "ProcCall", "Paren", "Negation"} \cup ChainKinds
  /\ f.node.kind = "ProcCall" => f.node.proc = "write_int"

(***************************************************************************)
(* The form of the call stack.  Only the loops over operators keep values; *)
(* an eval is called by a frame that waits for it; a value returned has    *)
(* one who takes it; and a loop keeps nothing before its first operand is  *)
(* there.                                                                  *)
(***************************************************************************)
OnlyChainsKeep(f) == f.node.kind \notin ChainKinds => f.acc = NoValue

StartsEmpty(f) == f.node.kind \in ChainKinds /\ f.next <= 1 => f.acc = NoValue

WalkShape ==
  /\ stage \in {"toplevel", "decls"} => frames = <<>>
  /\ ret # NoValue => frames # <<>> /\ Awaits(Top) /\ StartsEmpty(Top)
  /\ \A k \in DOMAIN frames :
       /\ OnlyChainsKeep(frames[k])
       /\ k < Len(frames) => StartsEmpty(frames[k])
       /\ frames[k].node.kind \in ExprKinds => k > 1 /\ Awaits(frames[k - 1])

\* One use and no holder, or one holder and no use.
Once(uses, holders) ==
  \/ uses = {} /\ \E h : holders = {h}
  \/ holders = {} /\ \E u : uses = {u}

Linear == \A r \in Results : Once(UsesOf(r), HoldersOf(r))

LinearInv == IInv /\ WalkShape /\ Linear

-----------------------------------------------------------------------------
\* The statements of a sequence are no expressions.
LEMMA StatementKinds ==
  ASSUME NEW n \in Node, n.kind = "StmtSeq"
  PROVE  \A k \in 1..Len(n.stmts) : n.stmts[k].kind \notin ExprKinds
PROOF
  <1>1. n \in [kind : {"StmtSeq"}, stmts : Seq(Stmt) \ {<<>>}]
    BY ShapeOfKind DEF IsStmt, StmtKinds
  <1>2. n.stmts \in Seq(Stmt)
    BY <1>1
  <1>3. \A k \in 1..Len(n.stmts) : n.stmts[k] \in Stmt
    BY <1>2
  <1>4. StmtKinds \cap ExprKinds = {}
    BY DEF StmtKinds, IgnoredKinds, ExprKinds, FactorKinds, ChainKinds
  <1> QED BY <1>3, <1>4 DEF Stmt, Of

\* The walk begins at a sequence of statements.
LEMMA BodyIsStmtSeq ==
  ASSUME NEW u \in Units
  PROVE  Body(u).kind = "StmtSeq"
PROOF
  <1>1. u \in Node /\ u.kind = "ProgramModule"
    BY AstShape DEF Of
  <1>2. u \in [kind : {"ProgramModule"}, name : Ident, block : Block]
    BY <1>1, ShapeOfKind DEF IsDecl, ProgramModule, DeclKinds
  <1>3. u.block \in Node /\ u.block.kind = "Block"
    BY <1>2 DEF Block, Of
  <1>4. u.block \in [kind : {"Block"}, decls : DeclarationsNode, body : StmtSeq]
    BY <1>3, ShapeOfKind DEF IsDecl, ProgramModule, DeclKinds
  <1> QED BY <1>4 DEF StmtSeq, Of, Body

-----------------------------------------------------------------------------
(***************************************************************************)
(* The call stack after a step: its frames, its form, and who holds what.  *)
(* Position 0 of HoldersOf stands for ret.                                 *)
(***************************************************************************)
LEMMA PoppedFrames ==
  ASSUME IInv, frames # <<>>
  PROVE  /\ Len(Popped) = Len(frames) - 1 /\ DOMAIN Popped = 1..Len(frames) - 1
         /\ \A k \in 1..Len(frames) - 1 : Popped[k] = frames[k]
PROOF
  <1>1. frames \in Seq(FrameSet) /\ Len(frames) \in Nat \ {0}
    BY TopFacts
  <1>2. \A k \in 1..Len(frames) - 1 : frames[k] \in FrameSet
    BY TopFacts, SeqElements
  <1>3. /\ SubSeq(frames, 1, Len(frames) - 1) \in Seq(FrameSet)
        /\ Len(SubSeq(frames, 1, Len(frames) - 1)) =
             IF 1 <= Len(frames) - 1 THEN Len(frames) - 1 - 1 + 1 ELSE 0
        /\ \A k \in 1..Len(frames) - 1 - 1 + 1 :
             SubSeq(frames, 1, Len(frames) - 1)[k] = frames[1 + k - 1]
    BY <1>1, <1>2, SubSeqProperties
  <1>4. Popped \in Seq(FrameSet) /\ Len(Popped) = Len(frames) - 1
    BY <1>3, TopFacts DEF Popped
  <1>5. \A k \in 1..Len(frames) - 1 : Popped[k] = frames[k]
    BY <1>1, <1>3 DEF Popped
  <1> HIDE DEF Popped
  <1>6. DOMAIN Popped = 1..Len(Popped)
    BY <1>4
  <1> QED BY <1>4, <1>5, <1>6

\* The frames after a call, in which the caller keeps acc.
LEMMA CallingFrames ==
  ASSUME IInv, frames # <<>>, NEW n \in Node, NEW acc \in Held \cup {NoValue}
  PROVE  /\ Len(Calling(n, acc)) = Len(frames) + 1
         /\ DOMAIN Calling(n, acc) = 1..Len(frames) + 1
         /\ \A k \in 1..Len(frames) - 1 : Calling(n, acc)[k] = frames[k]
         /\ Calling(n, acc)[Len(frames)] =
              [node |-> Top.node, next |-> Top.next + 1, acc |-> acc]
         /\ Calling(n, acc)[Len(frames) + 1] = Frame(n)
PROOF
  <1> DEFINE f  == [node |-> Top.node, next |-> Top.next + 1, acc |-> acc]
             fs == [frames EXCEPT ![Len(frames)] = f]
  <1>1. acc \in Values
    BY HeldFacts DEF Values
  <1>2. f \in FrameSet /\ Frame(n) \in FrameSet
    BY <1>1, TopFacts DEF FrameSet, Frame, Values
  <1>3. fs \in Seq(FrameSet) /\ DOMAIN fs = DOMAIN frames
    BY <1>2, TopFacts, ExceptSeq
  <1>4. /\ frames \in Seq(FrameSet) /\ Len(frames) \in Nat \ {0}
        /\ DOMAIN frames = 1..Len(frames)
    BY TopFacts
  <1>5. Calling(n, acc) = Append(fs, Frame(n))
    BY DEF Calling
  <1> HIDE DEF f
  <1>6. \A k \in DOMAIN frames : fs[k] = IF k = Len(frames) THEN f ELSE frames[k]
    OBVIOUS
  <1> HIDE DEF fs
  <1>7. Len(fs) = Len(frames)
    BY <1>3, <1>4
  <1>8. /\ Len(Append(fs, Frame(n))) = Len(frames) + 1
        /\ DOMAIN Append(fs, Frame(n)) = 1..Len(frames) + 1
        /\ Append(fs, Frame(n))[Len(frames) + 1] = Frame(n)
        /\ \A k \in 1..Len(frames) : Append(fs, Frame(n))[k] = fs[k]
    BY <1>2, <1>3, <1>7, AppendFacts
  <1>9. \A k \in 1..Len(frames) - 1 : k \in 1..Len(frames) /\ k # Len(frames)
    <2>1. Len(frames) \in Int
      BY <1>4
    <2> QED BY <2>1
  <1>10. Len(frames) \in 1..Len(frames)
    BY <1>4
  <1>11. /\ \A k \in 1..Len(frames) - 1 : Append(fs, Frame(n))[k] = frames[k]
         /\ Append(fs, Frame(n))[Len(frames)] = f
    BY <1>4, <1>6, <1>8, <1>9, <1>10
  <1> QED BY <1>5, <1>8, <1>11, Zenon DEF f

\* The frames after the top one has taken a value.
LEMMA TakingFrames ==
  ASSUME IInv, frames # <<>>, NEW v \in Operand,
         frames' = [frames EXCEPT ![Len(frames)].acc = v]
  PROVE  /\ Len(frames') = Len(frames) /\ DOMAIN frames' = 1..Len(frames)
         /\ \A k \in 1..Len(frames) - 1 : frames'[k] = frames[k]
         /\ frames'[Len(frames)].node = Top.node /\ frames'[Len(frames)].next = Top.next
         /\ frames'[Len(frames)].acc = v
PROOF
  <1> DEFINE f == [Top EXCEPT !.acc = v]
  <1>1. f \in FrameSet /\ f.acc = v /\ f.node = Top.node /\ f.next = Top.next
    BY TopFacts DEF FrameSet
  <1>2. frames' = [frames EXCEPT ![Len(frames)] = f]
    BY DEF Top
  <1> HIDE DEF f
  <1>3. /\ frames \in Seq(FrameSet) /\ Len(frames) \in Nat \ {0}
        /\ DOMAIN frames = 1..Len(frames)
    BY TopFacts
  <1>4. frames' \in Seq(FrameSet) /\ DOMAIN frames' = DOMAIN frames
    BY <1>1, <1>2, <1>3, ExceptSeq
  <1>5. frames'[Len(frames)] = f /\ \A k \in 1..Len(frames) - 1 : frames'[k] = frames[k]
    BY <1>2, <1>3
  <1>6. Len(frames') = Len(frames)
    BY <1>3, <1>4
  <1> QED BY <1>1, <1>3, <1>4, <1>5, <1>6

\* Who holds r when the value a is at the place of the top frame and the
\* value b returned, and nothing is changed below.
HoldersWith(r, a, b) ==
  (HoldersOf(r) \ {0, Len(frames)})
    \cup {k \in {Len(frames)} : a = r} \cup {k \in {0} : b = r}

\* Before a step the top frame holds its acc, and the caller ret.
LEMMA HoldersNow ==
  ASSUME IInv, frames # <<>>, NEW r
  PROVE  HoldersOf(r) = HoldersWith(r, Top.acc.reg, ret.reg)
PROOF
  BY TopFacts DEF HoldersOf, HoldersWith, Top

\* When the top frame has returned, its acc is held no more.
LEMMA PoppedHolders ==
  ASSUME IInv, frames # <<>>, frames' = Popped, NEW r \in Nat \ {0}
  PROVE  HoldersOf(r)' = HoldersWith(r, 0, ret'.reg)
PROOF
  <1>1. /\ DOMAIN frames' = 1..Len(frames) - 1 /\ DOMAIN frames = 1..Len(frames)
        /\ Len(frames) \in Nat \ {0}
        /\ \A k \in 1..Len(frames) - 1 : frames'[k] = frames[k]
    BY PoppedFrames, TopFacts
  <1> QED BY <1>1 DEF HoldersOf, HoldersWith

\* Who calls, keeps what it held; who is called, holds nothing.
LEMMA CallingHolders ==
  ASSUME IInv, frames # <<>>, NEW n \in Node, NEW acc \in Held \cup {NoValue},
         acc = Top.acc, frames' = Calling(n, acc), ret' = ret, NEW r \in Nat \ {0}
  PROVE  HoldersOf(r)' = HoldersOf(r)
PROOF
  <1>1. /\ DOMAIN frames' = 1..Len(frames) + 1 /\ DOMAIN frames = 1..Len(frames)
        /\ Len(frames) \in Nat \ {0}
        /\ \A k \in 1..Len(frames) - 1 : frames'[k] = frames[k]
        /\ frames'[Len(frames)] = [node |-> Top.node, next |-> Top.next + 1, acc |-> acc]
        /\ frames'[Len(frames) + 1] = Frame(n)
    BY CallingFrames, TopFacts
  <1>2. frames'[Len(frames)].acc = Top.acc /\ frames'[Len(frames) + 1].acc.reg = 0
    BY <1>1 DEF Frame, NoValue
  <1>3. \A k \in 1..Len(frames) : frames'[k].acc = frames[k].acc
    BY <1>1, <1>2 DEF Top
  <1> QED BY <1>1, <1>2, <1>3 DEF HoldersOf

\* When a loop takes a value, it holds that value and no other.
LEMMA TakingHolders ==
  ASSUME IInv, frames # <<>>, NEW v \in Operand, NEW r,
         frames' = [frames EXCEPT ![Len(frames)].acc = v]
  PROVE  HoldersOf(r)' = HoldersWith(r, v.reg, ret'.reg)
PROOF
  <1>1. /\ DOMAIN frames' = 1..Len(frames) /\ DOMAIN frames = 1..Len(frames)
        /\ Len(frames) \in Nat \ {0}
        /\ \A k \in 1..Len(frames) - 1 : frames'[k] = frames[k]
        /\ frames'[Len(frames)].acc = v
    BY TakingFrames, TopFacts
  <1> QED BY <1>1 DEF HoldersOf, HoldersWith

-----------------------------------------------------------------------------
(***************************************************************************)
(* The form of the call stack is kept.                                     *)
(***************************************************************************)
LEMMA QuietShape ==
  ASSUME WalkShape, UNCHANGED <<frames, ret>>,
         stage' \in {"toplevel", "decls"} => stage \in {"toplevel", "decls"}
  PROVE  WalkShape'
PROOF
  BY DEF WalkShape, Top, Awaits, OnlyChainsKeep, StartsEmpty

\* A statement returns nothing, and an eval to the frame that awaits it.
LEMMA PopShape ==
  ASSUME IInv, WalkShape, frames # <<>>, stage' = "stmts", frames' = Popped,
         ret' # NoValue => Top.node.kind \in ExprKinds
  PROVE  WalkShape'
PROOF
  <1>1. /\ DOMAIN frames' = 1..Len(frames) - 1 /\ DOMAIN frames = 1..Len(frames)
        /\ Len(frames) \in Nat \ {0} /\ Len(frames') = Len(frames) - 1
        /\ \A k \in 1..Len(frames) - 1 : frames'[k] = frames[k]
    BY PoppedFrames, TopFacts
  <1>2. ASSUME ret' # NoValue
        PROVE  frames' # <<>> /\ Awaits(Top') /\ StartsEmpty(Top')
    <2>1. Len(frames) > 1 /\ Awaits(frames[Len(frames) - 1])
      BY <1>1, <1>2 DEF WalkShape, Top
    <2>2. Top' = frames[Len(frames) - 1] /\ frames' # <<>>
      BY <1>1, <2>1 DEF Top
    <2>3. StartsEmpty(frames[Len(frames) - 1])
      BY <1>1, <2>1 DEF WalkShape
    <2> QED BY <2>1, <2>2, <2>3, Zenon
  <1>3. ASSUME NEW k \in DOMAIN frames'
        PROVE  /\ OnlyChainsKeep(frames'[k]) /\ StartsEmpty(frames'[k])
               /\ frames'[k].node.kind \in ExprKinds => k > 1 /\ Awaits(frames'[k - 1])
    <2>1. k \in DOMAIN frames /\ k < Len(frames) /\ frames'[k] = frames[k]
          /\ (k > 1 => frames'[k - 1] = frames[k - 1])
      BY <1>1, <1>3
    <2>2. OnlyChainsKeep(frames[k]) /\ StartsEmpty(frames[k])
          /\ (frames[k].node.kind \in ExprKinds => k > 1 /\ Awaits(frames[k - 1]))
      BY <2>1 DEF WalkShape
    <2> QED BY <2>1, <2>2, Zenon
  <1>4. stage' \notin {"toplevel", "decls"}
    OBVIOUS
  <1> QED BY <1>2, <1>3, <1>4 DEF WalkShape, Top, Awaits, OnlyChainsKeep, StartsEmpty

\* A frame calls: afterwards it awaits what it called, if that is an eval.
LEMMA CallShape ==
  ASSUME IInv, WalkShape, frames # <<>>, stage' = "stmts", ret' = NoValue,
         NEW n \in Node, NEW acc \in Held \cup {NoValue}, frames' = Calling(n, acc),
         NEW f, f = [node |-> Top.node, next |-> Top.next + 1, acc |-> acc],
         OnlyChainsKeep(f), StartsEmpty(f), n.kind \in ExprKinds => Awaits(f)
  PROVE  WalkShape'
PROOF
  <1>1. /\ DOMAIN frames' = 1..Len(frames) + 1 /\ DOMAIN frames = 1..Len(frames)
        /\ Len(frames) \in Nat \ {0} /\ Len(frames') = Len(frames) + 1
        /\ \A k \in 1..Len(frames) - 1 : frames'[k] = frames[k]
        /\ frames'[Len(frames)] = f
        /\ frames'[Len(frames) + 1] = Frame(n)
    BY CallingFrames, TopFacts
  <1>2. ASSUME NEW k \in DOMAIN frames'
        PROVE  /\ OnlyChainsKeep(frames'[k]) /\ StartsEmpty(frames'[k])
               /\ frames'[k].node.kind \in ExprKinds => k > 1 /\ Awaits(frames'[k - 1])
    <2>1. CASE k < Len(frames)
      <3>1. k \in DOMAIN frames /\ frames'[k] = frames[k]
            /\ (k > 1 => frames'[k - 1] = frames[k - 1])
        BY <1>1, <2>1
      <3>2. OnlyChainsKeep(frames[k]) /\ StartsEmpty(frames[k])
            /\ (frames[k].node.kind \in ExprKinds => k > 1 /\ Awaits(frames[k - 1]))
        BY <2>1, <3>1 DEF WalkShape
      <3> QED BY <3>1, <3>2, Zenon
    <2>2. CASE k = Len(frames)
      <3>1. frames'[k] = f /\ f.node = frames[k].node
            /\ (k > 1 => frames'[k - 1] = frames[k - 1])
        BY <1>1, <2>2 DEF Top
      <3>2. frames[k].node.kind \in ExprKinds => k > 1 /\ Awaits(frames[k - 1])
        BY <1>1, <2>2 DEF WalkShape
      <3> QED BY <3>1, <3>2, Zenon
    <2>3. CASE k = Len(frames) + 1
      <3>1. frames'[k] = Frame(n) /\ k > 1 /\ frames'[k - 1] = f
        BY <1>1, <2>3
      <3>2. Frame(n).node = n /\ OnlyChainsKeep(Frame(n)) /\ StartsEmpty(Frame(n))
        BY DEF Frame, OnlyChainsKeep, StartsEmpty
      <3> QED BY <3>1, <3>2, Zenon
    <2> QED BY <1>1, <2>1, <2>2, <2>3
  <1>3. stage' \notin {"toplevel", "decls"}
    OBVIOUS
  <1> QED BY <1>2, <1>3 DEF WalkShape, Top, Awaits, OnlyChainsKeep, StartsEmpty

\* A loop takes an operand.
LEMMA TakeShape ==
  ASSUME IInv, WalkShape, frames # <<>>, stage' = "stmts", ret' = NoValue,
         Top.node.kind \in ChainKinds, NEW v \in Operand,
         frames' = [frames EXCEPT ![Len(frames)].acc = v]
  PROVE  WalkShape'
PROOF
  <1>1. /\ DOMAIN frames' = 1..Len(frames) /\ DOMAIN frames = 1..Len(frames)
        /\ Len(frames) \in Nat \ {0} /\ Len(frames') = Len(frames)
        /\ \A k \in 1..Len(frames) - 1 : frames'[k] = frames[k]
        /\ frames'[Len(frames)].node = frames[Len(frames)].node
    BY TakingFrames, TopFacts DEF Top
  <1>2. ASSUME NEW k \in DOMAIN frames'
        PROVE  /\ OnlyChainsKeep(frames'[k])
               /\ k < Len(frames') => StartsEmpty(frames'[k])
               /\ frames'[k].node.kind \in ExprKinds => k > 1 /\ Awaits(frames'[k - 1])
    <2>1. k \in DOMAIN frames /\ (k > 1 => frames'[k - 1] = frames[k - 1])
          /\ frames'[k].node = frames[k].node
      BY <1>1, <1>2
    <2>2. frames[k].node.kind \in ExprKinds => k > 1 /\ Awaits(frames[k - 1])
      BY <2>1 DEF WalkShape
    <2>3. CASE k < Len(frames)
      <3>1. frames'[k] = frames[k] /\ OnlyChainsKeep(frames[k]) /\ StartsEmpty(frames[k])
        BY <1>1, <2>1, <2>3 DEF WalkShape
      <3> QED BY <2>1, <2>2, <3>1, Zenon
    <2>4. CASE k = Len(frames)
      <3>1. OnlyChainsKeep(frames'[k])
        BY <2>1, <2>4 DEF OnlyChainsKeep, Top
      <3>2. ~(k < Len(frames'))
        BY <1>1, <2>4
      <3> QED BY <2>1, <2>2, <3>1, <3>2, Zenon
    <2> QED BY <1>1, <2>1, <2>3, <2>4
  <1>3. stage' \notin {"toplevel", "decls"}
    OBVIOUS
  <1> QED BY <1>2, <1>3 DEF WalkShape, Top, Awaits, OnlyChainsKeep, StartsEmpty

-----------------------------------------------------------------------------
(***************************************************************************)
(* What is consumed.                                                       *)
(***************************************************************************)
Producers == PureOps \cup {"load"}

\* The result r is one of the operands, and is no operand.
Takes(args, r)   == \E p \in DOMAIN args : {q \in DOMAIN args : args[q].reg = r} = {p}
Ignores(args, r) == \A p \in DOMAIN args : args[p].reg # r

\* A result is named by the number of its instruction, never by 0.
LEMMA ResultsAreNumbers ==
  ASSUME IInv
  PROVE  /\ Len(ir) \in Nat /\ DOMAIN ir = 1..Len(ir)
         /\ Results \subseteq 1..Len(ir)
PROOF
  BY DEF IInv, TypeOK, Results

\* Nobody holds what has not been computed.
LEMMA NothingNewIsHeld ==
  ASSUME IInv
  PROVE  HoldersOf(Len(ir) + 1) = {}
PROOF
  <1>1. Len(ir) \in Nat
    BY ResultsAreNumbers
  <1>2. \A o \in Held : o.reg # Len(ir) + 1
    <2>1. \A o \in Held : o.reg = 0 \/ o.reg <= Len(ir)
      BY HeldFacts DEF Computed, IsConst
    <2>2. \A o \in Held : o.reg \in Nat
      BY HeldFacts DEF Values, Operand, NoValue
    <2> QED BY <1>1, <2>1, <2>2
  <1>3. ret \in Held /\ \A k \in DOMAIN frames : frames[k].acc \in Held
    BY DEF Held
  <1> QED BY <1>2, <1>3 DEF HoldersOf

\* No instruction uses what has not been computed before it.
LEMMA NothingNewIsUsed ==
  ASSUME IInv', NEW new \in Nat \ {0}, Len(ir') = new
  PROVE  UsesOf(new)' = {}
PROOF
  <1>1. DOMAIN ir' = 1..new /\ ir' \in Seq(Instr)
    BY DEF IInv, TypeOK
  <1>2. ASSUME NEW k \in DOMAIN ir', NEW a \in DOMAIN ir'[k].args
        PROVE  ir'[k].args[a].reg # new
    <2>1. ir'[k] \in Instr
      BY <1>1, <1>2, SeqElements
    <2>2. ir'[k].args \in Seq(Operand)
      BY <2>1 DEF Instr
    <2>3. ir'[k].args[a] \in Operand
      BY <1>2, <2>2
    <2>4. ir'[k].args[a].reg = 0 \/ ir'[k].args[a].reg <= k - 1
      BY <1>2 DEF IInv, ValuesComputedBeforeUse, Computed, IsConst
    <2>5. ir'[k].args[a].reg \in Nat
      BY <2>3 DEF Operand
    <2> QED BY <1>1, <1>2, <2>4, <2>5
  <1> QED BY <1>2 DEF UsesOf

\* The top frame and the value returned are never the same result.
LEMMA HeldOnce ==
  ASSUME LinearInv, frames # <<>>, NEW r \in Results
  PROVE  /\ Top.acc.reg = r => UsesOf(r) = {} /\ HoldersOf(r) = {Len(frames)} /\ ret.reg # r
         /\ ret.reg = r => UsesOf(r) = {} /\ HoldersOf(r) = {0} /\ Top.acc.reg # r
PROOF
  <1>1. Once(UsesOf(r), HoldersOf(r))
    BY DEF LinearInv, Linear
  <1>2. Len(frames) \in DOMAIN frames /\ Len(frames) # 0
    BY TopFacts DEF LinearInv
  <1>3. Top.acc.reg = r => Len(frames) \in HoldersOf(r)
    BY <1>2 DEF HoldersOf, Top
  <1>4. ret.reg = r <=> 0 \in HoldersOf(r)
    BY TopFacts DEF LinearInv, HoldersOf
  <1>5. \A h \in HoldersOf(r) : UsesOf(r) = {} /\ HoldersOf(r) = {h}
    BY <1>1 DEF Once
  <1> QED BY <1>2, <1>3, <1>4, <1>5

\* Values change hands at the top of the stack at most: they stay, or the one
\* kept and the one returned change places.
LEMMA PassedOn ==
  ASSUME LinearInv, frames # <<>>, ir' = ir, NEW a, NEW b,
         \A r \in Nat \ {0} : HoldersOf(r)' = HoldersWith(r, a, b),
         \/ a = Top.acc.reg /\ b = ret.reg
         \/ a = ret.reg /\ b = Top.acc.reg
  PROVE  Linear'
PROOF
  <1>1. Results' = Results /\ \A r : UsesOf(r)' = UsesOf(r)
    BY DEF Results, UsesOf
  <1>2. Results \subseteq Nat \ {0}
    BY ResultsAreNumbers DEF LinearInv
  <1>3. ASSUME NEW r \in Results
        PROVE  Once(UsesOf(r), HoldersWith(r, a, b))
    <2>1. HoldersOf(r) = HoldersWith(r, Top.acc.reg, ret.reg)
      BY HoldersNow DEF LinearInv
    <2>2. Once(UsesOf(r), HoldersOf(r))
      BY DEF LinearInv, Linear
    <2>3. CASE a = Top.acc.reg /\ b = ret.reg
      BY <2>1, <2>2, <2>3
    <2>4. CASE a = ret.reg /\ b = Top.acc.reg /\ (Top.acc.reg = r \/ ret.reg = r)
      <3>1. UsesOf(r) = {} /\ HoldersOf(r) \ {0, Len(frames)} = {}
            /\ ((a = r /\ b # r) \/ (a # r /\ b = r))
        BY <1>3, <2>4, HeldOnce
      <3>2. HoldersWith(r, a, b) = {Len(frames)} \/ HoldersWith(r, a, b) = {0}
        BY <3>1 DEF HoldersWith
      <3> QED BY <3>1, <3>2 DEF Once
    <2>5. CASE a = ret.reg /\ b = Top.acc.reg /\ Top.acc.reg # r /\ ret.reg # r
      <3>1. HoldersWith(r, a, b) = HoldersWith(r, Top.acc.reg, ret.reg)
        BY <2>5 DEF HoldersWith
      <3> QED BY <2>1, <2>2, <3>1
    <2> QED BY <2>3, <2>4, <2>5
  <1>4. \A r \in Results : HoldersOf(r)' = HoldersWith(r, a, b)
    BY <1>2
  <1> QED BY <1>1, <1>3, <1>4 DEF Linear

\* The uses after an instruction has been appended.
LEMMA UsesGrow ==
  ASSUME IInv, NEW i, DOMAIN i.args \subseteq 1..3, ir' = Append(ir, i), NEW r
  PROVE  UsesOf(r)' = UsesOf(r) \cup {<<Len(ir) + 1, p>> : p \in {q \in DOMAIN i.args : i.args[q].reg = r}}
PROOF
  <1>1. /\ Len(ir) \in Nat /\ DOMAIN ir = 1..Len(ir) /\ DOMAIN ir' = 1..Len(ir) + 1
        /\ ir'[Len(ir) + 1] = i /\ \A k \in 1..Len(ir) : ir'[k] = ir[k]
    BY DEF IInv, TypeOK
  <1> QED BY <1>1 DEF UsesOf

\* An instruction is appended.  What is consumed by it was held, and is not
\* any more; what it computes, if anything, is held once.
LEMMA Consumed ==
  ASSUME LinearInv, IInv', NEW i, DOMAIN i.args \subseteq 1..3, ir' = Append(ir, i),
         NEW new, new = Len(ir) + 1,
         \A r \in Results :
           \/ /\ HoldersOf(r)' = HoldersOf(r)
              /\ Ignores(i.args, r)
           \/ /\ HoldersOf(r) # {} /\ HoldersOf(r)' = {}
              /\ Takes(i.args, r),
         i.op \in Producers => \E h : HoldersOf(new)' = {h}
  PROVE  Linear'
PROOF
  <1>1. /\ Len(ir) \in Nat /\ DOMAIN ir = 1..Len(ir) /\ DOMAIN ir' = 1..Len(ir) + 1
        /\ Len(ir') = Len(ir) + 1
        /\ ir'[Len(ir) + 1] = i /\ \A k \in 1..Len(ir) : ir'[k] = ir[k]
    BY DEF LinearInv, IInv, TypeOK
  <1>2. ASSUME NEW r \in Results
        PROVE  Once(UsesOf(r)', HoldersOf(r)')
    <2>1. Once(UsesOf(r), HoldersOf(r))
      BY DEF LinearInv, Linear
    <2>2. UsesOf(r)' = UsesOf(r) \cup {<<Len(ir) + 1, p>> : p \in {q \in DOMAIN i.args : i.args[q].reg = r}}
      BY UsesGrow DEF LinearInv
    <2>3. CASE /\ HoldersOf(r)' = HoldersOf(r)
               /\ Ignores(i.args, r)
      <3>1. UsesOf(r)' = UsesOf(r)
        BY <2>2, <2>3 DEF Takes, Ignores
      <3> QED BY <2>1, <2>3, <3>1
    <2>4. CASE /\ HoldersOf(r) # {} /\ HoldersOf(r)' = {}
               /\ Takes(i.args, r)
      <3>1. UsesOf(r) = {}
        BY <2>1, <2>4 DEF Once
      <3>2. PICK p \in DOMAIN i.args : {q \in DOMAIN i.args : i.args[q].reg = r} = {p}
        BY <2>4 DEF Takes, Ignores
      <3>3. UsesOf(r)' = {<<Len(ir) + 1, p>>}
        BY <2>2, <3>1, <3>2
      <3> QED BY <2>4, <3>3 DEF Once
    <2> QED BY <1>2, <2>3, <2>4
  <1>3. ASSUME i.op \in Producers
        PROVE  Once(UsesOf(new)', HoldersOf(new)')
    <2>1. UsesOf(new)' = {}
      BY <1>1, NothingNewIsUsed
    <2> QED BY <1>3, <2>1 DEF Once
  <1>4. ASSUME NEW r \in Results'
        PROVE  r \in Results \/ (r = new /\ i.op \in Producers)
    BY <1>1, <1>4 DEF Results, Producers
  <1> QED BY <1>2, <1>3, <1>4 DEF Linear

\* The same for the walk: the instruction consumes what the top frame keeps
\* and what was returned, and its result is in one of the two places.
LEMMA ConsumedAtTop ==
  ASSUME LinearInv, IInv', frames # <<>>, NEW i, DOMAIN i.args \subseteq 1..3,
         ir' = Append(ir, i), NEW a, NEW b, NEW new, new = Len(ir) + 1,
         \A r \in Nat \ {0} : HoldersOf(r)' = HoldersWith(r, a, b),
         IF i.op \in Producers
         THEN (a = 0 /\ b = new) \/ (a = new /\ b = 0)
         ELSE a = 0 /\ b = 0,
         \A r \in Results :
           IF Top.acc.reg = r \/ ret.reg = r
           THEN Takes(i.args, r)
           ELSE Ignores(i.args, r)
  PROVE  Linear'
PROOF
  <1>1. Len(ir) \in Nat /\ Results \subseteq 1..Len(ir) /\ Len(frames) # 0
    BY ResultsAreNumbers, TopFacts DEF LinearInv
  <1>2. ASSUME NEW r \in Results
        PROVE  \/ /\ HoldersOf(r)' = HoldersOf(r)
                  /\ Ignores(i.args, r)
               \/ /\ HoldersOf(r) # {} /\ HoldersOf(r)' = {}
                  /\ Takes(i.args, r)
    <2>1. HoldersOf(r)' = HoldersOf(r) \ {0, Len(frames)}
      <3>1. a # r /\ b # r /\ r \in Nat \ {0}
        BY <1>1, <1>2
      <3> QED BY <3>1 DEF HoldersWith
    <2>2. CASE Top.acc.reg = r \/ ret.reg = r
      BY <1>2, <2>1, <2>2, HeldOnce
    <2>3. CASE Top.acc.reg # r /\ ret.reg # r
      <3>1. HoldersOf(r) = HoldersOf(r) \ {0, Len(frames)}
        BY <2>3, HoldersNow DEF HoldersWith, LinearInv
      <3> QED BY <1>2, <2>1, <2>3, <3>1
    <2> QED BY <2>2, <2>3
  <1>3. ASSUME i.op \in Producers
        PROVE  \E h : HoldersOf(new)' = {h}
    <2>1. HoldersOf(new)' = HoldersWith(new, a, b)
      BY <1>1
    <2>2. HoldersOf(new) = {}
      BY NothingNewIsHeld DEF LinearInv
    <2>3. \/ a = 0 /\ b = new
          \/ a = new /\ b = 0
      BY <1>3
    <2>4. HoldersWith(new, a, b) = {0} \/ HoldersWith(new, a, b) = {Len(frames)}
      BY <1>1, <2>2, <2>3 DEF HoldersWith
    <2> QED BY <2>1, <2>4
  <1> QED BY <1>2, <1>3, Consumed

-----------------------------------------------------------------------------
(***************************************************************************)
(* The actions.                                                            *)
(***************************************************************************)
\* Who does not wait has been returned nothing, and who is no loop keeps
\* nothing.
LEMMA NothingAtTop ==
  ASSUME LinearInv, frames # <<>>
  PROVE  /\ ~Awaits(Top) => ret = NoValue
         /\ Top.node.kind \notin ChainKinds => Top.acc = NoValue
         /\ NoValue.reg = 0
PROOF
  <1>1. Len(frames) \in DOMAIN frames
    BY TopFacts DEF LinearInv
  <1> QED BY <1>1 DEF LinearInv, WalkShape, OnlyChainsKeep, Top, NoValue

\* An exception leaves everything where it is.
LEMMA ThrowLinear ==
  ASSUME LinearInv, NEW e \in Exceptions \cup {"assert"}, Throw(e)
  PROVE  WalkShape' /\ Linear'
PROOF
  <1>1. stage' = e /\ UNCHANGED <<ir, frames, ret>> /\ e \notin {"toplevel", "decls"}
    BY DEF Throw, Exceptions
  <1>2. WalkShape'
    BY <1>1, QuietShape DEF LinearInv
  <1>3. Linear'
    BY <1>1 DEF LinearInv, Linear, Results, UsesOf, HoldersOf
  <1> QED BY <1>2, <1>3

\* A return passes on one value, the one kept or the one returned to it.
LEMMA ReturnLinear ==
  ASSUME LinearInv, stage' = "stmts", frames # <<>>, ir' = ir, frames' = Popped,
         ret' # NoValue => Top.node.kind \in ExprKinds,
         \/ Top.acc.reg = 0 /\ ret'.reg = ret.reg
         \/ ret.reg = 0 /\ ret'.reg = Top.acc.reg
  PROVE  WalkShape' /\ Linear'
PROOF
  <1>1. WalkShape'
    BY PopShape DEF LinearInv
  <1>2. \A r \in Nat \ {0} : HoldersOf(r)' = HoldersWith(r, 0, ret'.reg)
    BY PoppedHolders DEF LinearInv
  <1>3. Linear'
    BY <1>2, PassedOn
  <1> QED BY <1>1, <1>3

\* A call, from which nothing changes hands.
LEMMA CallLinear ==
  ASSUME LinearInv, stage' = "stmts", frames # <<>>, ir' = ir, ret' = ret, ret = NoValue,
         NEW n \in Node, frames' = Calling(n, Top.acc),
         NEW f, f = [node |-> Top.node, next |-> Top.next + 1, acc |-> Top.acc],
         StartsEmpty(f), n.kind \in ExprKinds => Awaits(f)
  PROVE  WalkShape' /\ Linear'
PROOF
  <1>1. Top.acc \in Held \cup {NoValue}
    BY TopFacts DEF LinearInv
  <1>2. OnlyChainsKeep(f)
    <2>1. f.node = Top.node /\ f.acc = Top.acc
      OBVIOUS
    <2> QED BY <2>1, NothingAtTop DEF OnlyChainsKeep
  <1>3. WalkShape'
    <2>1. IInv /\ WalkShape /\ ret' = NoValue
      BY DEF LinearInv
    <2> QED BY <1>1, <1>2, <2>1, CallShape
  <1>4. \A r \in Nat \ {0} : HoldersOf(r)' = HoldersOf(r)
    BY <1>1, CallingHolders DEF LinearInv
  <1>5. \A r \in Nat \ {0} : HoldersOf(r)' = HoldersWith(r, Top.acc.reg, ret.reg)
    BY <1>4, HoldersNow DEF LinearInv
  <1>6. Linear'
    BY <1>5, PassedOn
  <1> QED BY <1>3, <1>6

\* A statement emits an instruction that consumes what was returned to it.
LEMMA EffectLinear ==
  ASSUME LinearInv, IInv', stage' = "stmts", frames # <<>>, Top.node.kind \notin ChainKinds,
         NEW i, DOMAIN i.args \subseteq 1..3, ir' = Append(ir, i), i.op \notin Producers,
         Return(NoValue),
         \A r \in Results :
           IF ret.reg = r
           THEN Takes(i.args, r)
           ELSE Ignores(i.args, r)
  PROVE  WalkShape' /\ Linear'
PROOF
  <1>1. Top.acc.reg = 0 /\ NoValue.reg = 0
    BY NothingAtTop
  <1>2. frames' = Popped /\ ret' = NoValue
    BY DEF Return
  <1>3. WalkShape'
    BY <1>2, PopShape DEF LinearInv
  <1>4. \A r \in Nat \ {0} : HoldersOf(r)' = HoldersWith(r, 0, 0)
    BY <1>1, <1>2, PoppedHolders DEF LinearInv
  <1>5. \A r \in Results : Top.acc.reg # r
    BY <1>1, ResultsAreNumbers DEF LinearInv
  <1>6. Linear'
    BY <1>4, <1>5, ConsumedAtTop
  <1> QED BY <1>3, <1>6

\* A store consumes the value; the slot it goes to is no result.
LEMMA AssignmentStoreLinear ==
  ASSUME LinearInv, IInv', AssignmentStore
  PROVE  WalkShape' /\ Linear'
PROOF
  <1> DEFINE x == Top.node.target.ident
  <1>1. frames # <<>> /\ stage = "stmts" /\ Top.node.kind = "Assignment" /\ ret # NoValue
    BY DEF AssignmentStore, At
  <1>2. CASE ~IsVariable(x)
    BY <1>2, ThrowLinear DEF AssignmentStore, Exceptions
  <1>3. CASE IsVariable(x)
    <2> DEFINE i == [op |-> "store", ty |-> "void", args |-> <<ret, SlotOf(x)>>]
    <2>1. ir' = Append(ir, i) /\ Return(NoValue) /\ stage' = "stmts"
      BY <1>1, <1>3 DEF AssignmentStore, Emit, KeepWalk
    <2> HIDE DEF x
    <2>2. SlotOf(x).reg \notin Results
      BY <1>3, LookupFacts DEF LinearInv, SlotOf, Reg, Results, PureOps, ArithOps, DivOps, CmpOps
    <2>3. /\ DOMAIN i.args = {1, 2} /\ i.args[1] = ret /\ i.args[2] = SlotOf(x)
          /\ i.op \notin Producers
      BY DEF Producers, PureOps, ArithOps, DivOps, CmpOps
    <2>4. Top.node.kind \notin ChainKinds
      BY <1>1 DEF ChainKinds
    <2> HIDE DEF i
    <2>5. \A r \in Results :
            IF ret.reg = r
            THEN Takes(i.args, r)
            ELSE Ignores(i.args, r)
      <3> SUFFICES ASSUME NEW r \in Results
                   PROVE  IF ret.reg = r
                          THEN Takes(i.args, r)
                          ELSE Ignores(i.args, r)
        OBVIOUS
      <3>1. i.args[2].reg # r
        BY <2>2, <2>3
      <3>2. ret.reg = r => {q \in DOMAIN i.args : i.args[q].reg = r} = {1}
        BY <2>3, <3>1
      <3> QED BY <2>3, <3>1, <3>2 DEF Takes, Ignores
    <2>6. DOMAIN i.args \subseteq 1..3
      BY <2>3
    <2> QED BY <1>1, <2>1, <2>3, <2>4, <2>5, <2>6, EffectLinear
  <1> QED BY <1>2, <1>3

\* A call of write_int consumes the value.
LEMMA ProcCallEmitLinear ==
  ASSUME LinearInv, IInv', ProcCallEmit
  PROVE  WalkShape' /\ Linear'
PROOF
  <1>1. frames # <<>> /\ stage = "stmts" /\ Top.node.kind = "ProcCall" /\ ret # NoValue
    BY DEF ProcCallEmit, At
  <1>2. CASE "write_int" \notin functions
    BY <1>2, ThrowLinear DEF ProcCallEmit, Exceptions
  <1>3. CASE "write_int" \in functions /\ ~Accepted("call", <<ret>>)
    BY <1>3, ThrowLinear DEF ProcCallEmit
  <1>4. CASE "write_int" \in functions /\ Accepted("call", <<ret>>)
    <2> DEFINE i == [op |-> "call", ty |-> "void", args |-> <<ret>>]
    <2>1. ir' = Append(ir, i) /\ Return(NoValue) /\ stage' = "stmts"
      BY <1>1, <1>4 DEF ProcCallEmit, Emit, KeepWalk
    <2>2. DOMAIN i.args = {1} /\ i.args[1] = ret /\ i.op \notin Producers
      BY DEF Producers, PureOps, ArithOps, DivOps, CmpOps
    <2>3. Top.node.kind \notin ChainKinds
      BY <1>1 DEF ChainKinds
    <2> HIDE DEF i
    <2>4. \A r \in Results :
            IF ret.reg = r
            THEN Takes(i.args, r)
            ELSE Ignores(i.args, r)
      BY <2>2 DEF Takes, Ignores
    <2>5. DOMAIN i.args \subseteq 1..3
      BY <2>2
    <2> QED BY <1>1, <2>1, <2>2, <2>3, <2>4, <2>5, EffectLinear
  <1> QED BY <1>2, <1>3, <1>4

\* An instruction outside of the walk, when nothing is held.
LEMMA EmitOutside ==
  ASSUME LinearInv, IInv', frames = <<>>, ret = NoValue, UNCHANGED <<frames, ret>>,
         NEW i, DOMAIN i.args \subseteq 1..3, ir' = Append(ir, i), i.op \notin Producers,
         \A p \in DOMAIN i.args : i.args[p].reg = 0
  PROVE  Linear'
PROOF
  <1>1. \A r : HoldersOf(r)' = HoldersOf(r)
    BY DEF HoldersOf
  <1>2. \A r \in Results : r # 0
    BY ResultsAreNumbers DEF LinearInv
  <1>3. \A r \in Results : HoldersOf(r)' = HoldersOf(r) /\ Ignores(i.args, r)
    BY <1>1, <1>2 DEF Ignores
  <1>4. PICK new : new = Len(ir) + 1
    OBVIOUS
  <1> QED BY <1>3, <1>4, Consumed

\* No value is held while variables are declared.
LEMMA DeclarationsLinear ==
  ASSUME LinearInv, IInv', Declarations
  PROVE  WalkShape' /\ Linear'
PROOF
  <1>1. CASE RejectBlock \/ RejectName
    BY <1>1, ThrowLinear DEF RejectBlock, RejectName, Exceptions
  <1>2. CASE StartMain
    BY <1>2, QuietShape DEF StartMain, LinearInv, Linear, Results, UsesOf, HoldersOf
  <1>3. CASE ResolveType
    <2> DEFINE type == VarDecls(cu)[decl.at].type
    <2>1. CASE TypeError(type) # "none"
      <3>1. TypeError(type) \in Exceptions
        BY <2>1 DEF TypeError, Exceptions
      <3>2. Throw(TypeError(type))
        BY <1>3, <2>1 DEF ResolveType
      <3> QED BY <3>1, <3>2, ThrowLinear
    <2>2. CASE TypeError(type) = "none"
      <3>1. UNCHANGED <<stage, ir, frames, ret>>
        BY <1>3, <2>2 DEF ResolveType
      <3> QED BY <3>1, QuietShape DEF LinearInv, Linear, Results, UsesOf, HoldersOf
    <2> QED BY <2>1, <2>2
  <1>4. CASE DeclareName
    <2> DEFINE i == [op |-> "alloca", ty |-> LlvmType(decl.type), args |-> <<>>]
    <2>1. ir' = Append(ir, i) /\ UNCHANGED <<stage, frames, ret>> /\ stage = "decls"
      BY <1>4 DEF DeclareName, Emit, InDecl
    <2>2. frames = <<>> /\ ret = NoValue
      BY <2>1 DEF LinearInv, WalkShape
    <2>3. DOMAIN i.args = {} /\ i.op \notin Producers
      BY DEF Producers, PureOps, ArithOps, DivOps, CmpOps
    <2> HIDE DEF i
    <2>4. WalkShape'
      BY <2>1, QuietShape DEF LinearInv
    <2>5. Linear'
      BY <2>1, <2>2, <2>3, EmitOutside
    <2> QED BY <2>4, <2>5
  <1>5. CASE StartBody
    <2> DEFINE f == Frame(Body(cu))
    <2>1. frames = <<>> /\ ret = NoValue
      BY <1>5 DEF StartBody, LinearInv, WalkShape
    <2>2. stage' = "stmts" /\ frames' = <<f>> /\ UNCHANGED <<ir, ret>>
      BY <1>5 DEF StartBody
    <2>3. f.node.kind = "StmtSeq" /\ f.acc = NoValue
      BY BodyIsStmtSeq DEF Frame, LinearInv, IInv, TypeOK
    <2> HIDE DEF f
    <2>4. DOMAIN frames' = {1} /\ Len(frames') = 1 /\ frames'[1] = f
      BY <2>2
    <2>5. WalkShape'
      <3>1. f.node.kind \notin ExprKinds
        BY <2>3 DEF ExprKinds, FactorKinds, ChainKinds
      <3> QED BY <2>1, <2>2, <2>3, <2>4, <3>1 DEF WalkShape, OnlyChainsKeep, StartsEmpty
    <2>6. \A r \in Nat \ {0} : HoldersOf(r)' = HoldersOf(r)
      BY <2>1, <2>2, <2>3, <2>4 DEF HoldersOf, NoValue
    <2>7. Linear'
      <3>1. Results' = Results /\ \A r : UsesOf(r)' = UsesOf(r)
        BY <2>2 DEF Results, UsesOf
      <3>2. Results \subseteq Nat \ {0}
        BY ResultsAreNumbers DEF LinearInv
      <3> QED BY <2>6, <3>1, <3>2 DEF LinearInv, Linear
    <2> QED BY <2>5, <2>7
  <1> QED BY <1>1, <1>2, <1>3, <1>4, <1>5 DEF Declarations

\* Each action of the statements.
LEMMA StatementsLinear ==
  ASSUME LinearInv, IInv', Statements
  PROVE  WalkShape' /\ Linear'
PROOF
  <1>1. CASE VisitStmtSeq
    <2>1. frames # <<>> /\ Top.node.kind = "StmtSeq" /\ stage' = "stmts" /\ UNCHANGED <<ir, ret>>
      BY <1>1 DEF VisitStmtSeq, At, KeepWalk
    <2>2. Top.acc = NoValue /\ ret = NoValue
      BY <2>1, NothingAtTop DEF Awaits, ChainKinds
    <2>3. CASE Top.next < Len(Top.node.stmts)
      <3> DEFINE n == Top.node.stmts[Top.next + 1]
                 f == [node |-> Top.node, next |-> Top.next + 1, acc |-> Top.acc]
      <3>1. frames' = Calling(n, Top.acc)
        BY <1>1, <2>2, <2>3 DEF VisitStmtSeq
      <3>2. Top.next + 1 \in 1..Len(Top.node.stmts) /\ Top.node \in Node
        BY <2>1, <2>3, TopFacts, StatementNodes DEF LinearInv
      <3>3. n \in Node /\ n.kind \notin ExprKinds
        BY <2>1, <3>2, StatementNodes, StatementKinds
      <3>4. StartsEmpty(f)
        BY <2>2 DEF StartsEmpty
      <3> HIDE DEF n, f
      <3> QED BY <2>1, <2>2, <3>1, <3>3, <3>4, CallLinear DEF f
    <2>4. CASE ~(Top.next < Len(Top.node.stmts))
      BY <1>1, <2>1, <2>2, <2>4, ReturnLinear DEF VisitStmtSeq, NoValue
    <2> QED BY <2>3, <2>4
  <1>2. CASE VisitIgnored \/ VisitWriteStr
    <2>1. /\ frames # <<>> /\ stage' = "stmts" /\ UNCHANGED <<ir, ret>> /\ frames' = Popped
          /\ Top.node.kind \in IgnoredKinds
             \/ (Top.node.kind = "ProcCall" /\ Top.node.proc = "write_str")
      BY <1>2 DEF VisitIgnored, VisitWriteStr, At, KeepWalk
    <2>2. Top.acc = NoValue /\ ret = NoValue
      BY <2>1, NothingAtTop DEF Awaits, ChainKinds, IgnoredKinds
    <2> QED BY <2>1, <2>2, ReturnLinear DEF NoValue
  <1>3. CASE AssignmentEval \/ ProcCallEval
    <2> DEFINE n == IF Top.node.kind = "Assignment" THEN Top.node.expr ELSE Top.node.params[1]
               f == [node |-> Top.node, next |-> Top.next + 1, acc |-> Top.acc]
    <2>1. /\ frames # <<>> /\ stage' = "stmts" /\ UNCHANGED <<ir, ret>> /\ Top.next = 0
          /\ \/ Top.node.kind = "Assignment"
             \/ /\ Top.node.kind = "ProcCall" /\ Top.node.proc = "write_int"
                /\ Len(Top.node.params) = 1
          /\ frames' = Calling(n, NoValue)
      BY <1>3 DEF AssignmentEval, ProcCallEval, At, KeepWalk
    <2>2. Top.acc = NoValue /\ ret = NoValue
      BY <2>1, NothingAtTop DEF Awaits, ChainKinds
    <2>3. n \in Node
      BY <2>1, TopFacts, StatementNodes DEF LinearInv
    <2>4. StartsEmpty(f) /\ Awaits(f)
      BY <2>1, <2>2 DEF StartsEmpty, Awaits
    <2> HIDE DEF n, f
    <2> QED BY <2>1, <2>2, <2>3, <2>4, CallLinear DEF f
  <1>4. CASE AssignmentStore
    BY <1>4, AssignmentStoreLinear
  <1>5. CASE ProcCallReject
    BY <1>5, ThrowLinear DEF ProcCallReject, Exceptions
  <1>6. CASE ProcCallEmit
    BY <1>6, ProcCallEmitLinear
  <1>7. CASE Finish
    <2> DEFINE i == [op |-> "ret", ty |-> "void", args |-> <<Const("i32", 0)>>]
    <2>1. ir' = Append(ir, i) /\ UNCHANGED <<frames, ret>> /\ stage' = "lowered"
      BY <1>7 DEF Finish, Emit
    <2>2. frames = <<>> /\ ret = NoValue
      BY <1>7 DEF Finish, LinearInv, WalkShape
    <2>3. DOMAIN i.args = {1} /\ i.args[1].reg = 0 /\ i.op \notin Producers
      BY DEF Producers, PureOps, ArithOps, DivOps, CmpOps, Const
    <2> HIDE DEF i
    <2>4. WalkShape'
      BY <2>1, QuietShape DEF LinearInv
    <2>5. Linear'
      <3>1. DOMAIN i.args \subseteq 1..3 /\ \A p \in DOMAIN i.args : i.args[p].reg = 0
        BY <2>3
      <3> QED BY <2>1, <2>2, <2>3, <3>1, EmitOutside
    <2> QED BY <2>4, <2>5
  <1> QED BY <1>1, <1>2, <1>3, <1>4, <1>5, <1>6, <1>7 DEF Statements

\* A load consumes nothing, and returns its result.
LEMMA EvalDesignatorLinear ==
  ASSUME LinearInv, IInv', EvalDesignator
  PROVE  WalkShape' /\ Linear'
PROOF
  <1> DEFINE x == Top.node.ident
  <1>1. frames # <<>> /\ stage = "stmts" /\ Top.node.kind = "Designator"
    BY DEF EvalDesignator, At
  <1>2. CASE ~IsVariable(x) \/ Top.node.items # <<>>
    BY <1>2, ThrowLinear DEF EvalDesignator, Exceptions
  <1>3. CASE IsVariable(x) /\ Top.node.items = <<>>
    <2> DEFINE ty == LlvmType(lookup_decl(x).type)
               i  == [op |-> "load", ty |-> ty, args |-> <<SlotOf(x)>>]
    <2>1. /\ ir' = Append(ir, i) /\ stage' = "stmts" /\ frames' = Popped
          /\ ret' = Reg(Len(ir) + 1, ty)
      BY <1>1, <1>3 DEF EvalDesignator, Emit, Return, KeepWalk
    <2> HIDE DEF x
    <2>2. SlotOf(x).reg \notin Results
      BY <1>3, LookupFacts DEF LinearInv, SlotOf, Reg, Results, PureOps, ArithOps, DivOps, CmpOps
    <2>3. DOMAIN i.args = {1} /\ i.args[1] = SlotOf(x) /\ i.op \in Producers
      BY DEF Producers
    <2>4. Top.acc.reg = 0 /\ ret.reg = 0 /\ Top.node.kind \in ExprKinds
      BY <1>1, NothingAtTop DEF Awaits, ChainKinds, ExprKinds, FactorKinds
    <2>5. PICK new : new = Len(ir) + 1 /\ ret'.reg = new
      BY <2>1 DEF Reg
    <2> HIDE DEF i
    <2>6. WalkShape'
      BY <1>1, <2>1, <2>4, PopShape DEF LinearInv
    <2>7. \A r \in Nat \ {0} : HoldersOf(r)' = HoldersWith(r, 0, new)
      BY <1>1, <2>1, <2>5, PoppedHolders DEF LinearInv
    <2>8. \A r \in Results : /\ Top.acc.reg # r /\ ret.reg # r
                             /\ Ignores(i.args, r)
      BY <2>2, <2>3, <2>4, ResultsAreNumbers DEF Takes, Ignores, LinearInv
    <2>9. DOMAIN i.args \subseteq 1..3
      BY <2>3
    <2>10. Linear'
      BY <1>1, <2>1, <2>3, <2>5, <2>7, <2>8, <2>9, ConsumedAtTop
    <2> QED BY <2>6, <2>10
  <1> QED BY <1>2, <1>3

\* An operation on the value kept and the value returned is folded, when both
\* are constants, or consumes the two.
BuiltFrom(args) ==
  /\ DOMAIN args \subseteq 1..3
  /\ AllConst(args) => Top.acc.reg = 0 /\ ret.reg = 0
  /\ \A r \in Results :
       IF Top.acc.reg = r \/ ret.reg = r
       THEN Takes(args, r)
       ELSE Ignores(args, r)

\* An operation in an eval, whose result is kept (a) or returned (b).
LEMMA BuiltLinear ==
  ASSUME LinearInv, IInv', frames # <<>>, NEW op \in PureOps, NEW args, BuiltFrom(args),
         ir' = BuiltIr(op, args), NEW a, NEW b,
         \A r \in Nat \ {0} : HoldersOf(r)' = HoldersWith(r, a, b),
         \/ a = 0 /\ b = BuiltVal(op, args).reg
         \/ a = BuiltVal(op, args).reg /\ b = 0
  PROVE  Linear'
PROOF
  <1>1. CASE AllConst(args)
    <2>1. ir' = ir /\ BuiltVal(op, args).reg = 0 /\ Top.acc.reg = 0 /\ ret.reg = 0
      BY <1>1 DEF BuiltIr, BuiltVal, Const, BuiltFrom
    <2> QED BY <2>1, PassedOn
  <1>2. CASE ~AllConst(args)
    <2>1. PICK i, new : /\ i = [op |-> op, ty |-> BuiltType(op, args), args |-> args]
                        /\ new = Len(ir) + 1 /\ BuiltVal(op, args).reg = new
                        /\ ir' = Append(ir, i)
      BY <1>2, Zenon DEF BuiltIr, Emit, BuiltVal, Reg
    <2>2. i.op \in Producers /\ i.args = args
      BY <2>1 DEF Producers
    <2>3. /\ DOMAIN i.args \subseteq 1..3
          /\ \A r \in Results :
               IF Top.acc.reg = r \/ ret.reg = r
               THEN Takes(i.args, r)
               ELSE Ignores(i.args, r)
      BY <2>2 DEF BuiltFrom
    <2>4. IF i.op \in Producers
          THEN (a = 0 /\ b = new) \/ (a = new /\ b = 0)
          ELSE a = 0 /\ b = 0
      BY <2>1, <2>2
    <2>5. /\ LinearInv /\ IInv' /\ frames # <<>>
          /\ \A r \in Nat \ {0} : HoldersOf(r)' = HoldersWith(r, a, b)
          /\ new = Len(ir) + 1 /\ ir' = Append(ir, i)
      BY <2>1
    <2> QED BY <2>2, <2>3, <2>4, <2>5, ConsumedAtTop
  <1> QED BY <1>1, <1>2

\* The negation consumes the value returned and returns its own.
LEMMA EvalNegationLinear ==
  ASSUME LinearInv, IInv', EvalNegation
  PROVE  WalkShape' /\ Linear'
PROOF
  <1> DEFINE args == <<ret, Const(ret.ty, -1)>>
  <1>1. frames # <<>> /\ stage = "stmts" /\ Top.node.kind = "Negation"
        /\ ReturnBuilt("xor", args)
    BY DEF EvalNegation, At
  <1>2. Top.acc.reg = 0 /\ Top.node.kind \in ExprKinds
    BY <1>1, NothingAtTop DEF ChainKinds, ExprKinds, FactorKinds
  <1>3. BuiltFrom(args)
    <2>1. DOMAIN args = {1, 2} /\ args[1] = ret /\ args[2].reg = 0
      BY DEF Const
    <2> HIDE DEF args
    <2>2. AllConst(args) => ret.reg = 0
      BY <2>1 DEF AllConst, IsConst
    <2>3. \A r \in Results :
            IF Top.acc.reg = r \/ ret.reg = r
            THEN Takes(args, r)
            ELSE Ignores(args, r)
      <3> SUFFICES ASSUME NEW r \in Results
                   PROVE  IF Top.acc.reg = r \/ ret.reg = r
                          THEN Takes(args, r)
                          ELSE Ignores(args, r)
        OBVIOUS
      <3>1. r # 0
        BY ResultsAreNumbers DEF LinearInv
      <3>2. ret.reg = r => {q \in DOMAIN args : args[q].reg = r} = {1}
        BY <2>1, <3>1
      <3> QED BY <1>2, <2>1, <3>1, <3>2 DEF Takes, Ignores
    <2> QED BY <1>2, <2>1, <2>2, <2>3 DEF BuiltFrom
  <1> HIDE DEF args
  <1>4. CASE ~Accepted("xor", args)
    BY <1>1, <1>4, ThrowLinear DEF ReturnBuilt
  <1>5. CASE Accepted("xor", args)
    <2>1. /\ ir' = BuiltIr("xor", args) /\ frames' = Popped /\ ret' = BuiltVal("xor", args)
          /\ stage' = "stmts"
      BY <1>1, <1>5 DEF ReturnBuilt, Return, KeepWalk
    <2>2. WalkShape'
      BY <1>1, <1>2, <2>1, PopShape DEF LinearInv
    <2>3. \A r \in Nat \ {0} : HoldersOf(r)' = HoldersWith(r, 0, BuiltVal("xor", args).reg)
      BY <1>1, <2>1, PoppedHolders DEF LinearInv
    <2>4. "xor" \in PureOps
      BY DEF PureOps, ArithOps
    <2>5. Linear'
      BY <1>1, <1>3, <2>1, <2>3, <2>4, BuiltLinear
    <2> QED BY <2>2, <2>5
  <1> QED BY <1>4, <1>5

\* Each action of the factors.
LEMMA FactorsLinear ==
  ASSUME LinearInv, IInv', Factors
  PROVE  WalkShape' /\ Linear'
PROOF
  <1>1. CASE EvalNumber \/ EvalBool
    <2>1. /\ frames # <<>> /\ stage' = "stmts" /\ ir' = ir /\ frames' = Popped
          /\ Top.node.kind \in {"Number", "Bool"} /\ ret'.reg = 0
      BY <1>1 DEF EvalNumber, EvalBool, At, KeepWalk, Return, Const
    <2>2. Top.acc.reg = 0 /\ ret.reg = 0 /\ Top.node.kind \in ExprKinds
      BY <2>1, NothingAtTop DEF Awaits, ChainKinds, ExprKinds, FactorKinds
    <2> QED BY <2>1, <2>2, ReturnLinear
  <1>2. CASE EvalUnsupported
    BY <1>2, ThrowLinear DEF EvalUnsupported, Exceptions
  <1>3. CASE EvalDesignator
    BY <1>3, EvalDesignatorLinear
  <1>4. CASE CallInner
    <2> DEFINE f == [node |-> Top.node, next |-> Top.next + 1, acc |-> Top.acc]
    <2>1. /\ frames # <<>> /\ stage' = "stmts" /\ UNCHANGED <<ir, ret>> /\ Top.next = 0
          /\ Top.node.kind \in {"Paren", "Negation"}
          /\ frames' = Calling(Top.node.inner, NoValue)
      BY <1>4 DEF CallInner, At, KeepWalk
    <2>2. Top.acc = NoValue /\ ret = NoValue
      BY <2>1, NothingAtTop DEF Awaits, ChainKinds
    <2>3. Top.node.inner \in Node
      BY <2>1, TopFacts, FactorNodes DEF LinearInv
    <2>4. StartsEmpty(f) /\ Awaits(f)
      BY <2>1, <2>2 DEF StartsEmpty, Awaits
    <2> HIDE DEF f
    <2> QED BY <2>1, <2>2, <2>3, <2>4, CallLinear DEF f
  <1>5. CASE EvalParen
    <2>1. /\ frames # <<>> /\ stage' = "stmts" /\ ir' = ir /\ frames' = Popped
          /\ Top.node.kind = "Paren" /\ ret' = ret
      BY <1>5 DEF EvalParen, At, KeepWalk, Return
    <2>2. Top.acc.reg = 0 /\ Top.node.kind \in ExprKinds
      BY <2>1, NothingAtTop DEF ChainKinds, ExprKinds, FactorKinds
    <2> QED BY <2>1, <2>2, ReturnLinear
  <1>6. CASE EvalNegation
    BY <1>6, EvalNegationLinear
  <1> QED BY <1>1, <1>2, <1>3, <1>4, <1>5, <1>6 DEF Factors

\* Each operator has each of its operands once.
LEMMA OperandsOnce ==
  ASSUME LinearInv, frames # <<>>, NEW op
  PROVE  BuiltFrom(Operands(op, Top.acc, ret))
PROOF
  <1> DEFINE args == Operands(op, Top.acc, ret)
             l == Top.acc
  <1>1. \/ args = <<l, ret, Const(ret.ty, 0)>>
        \/ args = <<l, Const(ret.ty, -1), ret>>
        \/ args = <<l, ret>>
    BY Zenon DEF Operands
  <1>2. \E p \in {2, 3} : \A q \in DOMAIN args :
          /\ q = 1 => args[q] = l
          /\ q = p => args[q] = ret
          /\ q \notin {1, p} => args[q].reg = 0
          /\ {1, p} \subseteq DOMAIN args /\ DOMAIN args \subseteq 1..3
    <2>1. CASE args = <<l, ret, Const(ret.ty, 0)>>
      <3>1. DOMAIN args = 1..3 /\ args[1] = l /\ args[2] = ret /\ args[3].reg = 0
        BY <2>1 DEF Const
      <3> HIDE DEF args
      <3> QED BY <3>1
    <2>2. CASE args = <<l, Const(ret.ty, -1), ret>>
      <3>1. DOMAIN args = 1..3 /\ args[1] = l /\ args[2].reg = 0 /\ args[3] = ret
        BY <2>2 DEF Const
      <3> HIDE DEF args
      <3> QED BY <3>1
    <2>3. CASE args = <<l, ret>>
      <3>1. DOMAIN args = 1..2 /\ args[1] = l /\ args[2] = ret
        BY <2>3
      <3> HIDE DEF args
      <3> QED BY <3>1
    <2> QED BY <1>1, <2>1, <2>2, <2>3
  <1>3. 1 \in DOMAIN args
    BY <1>1
  <1> HIDE DEF args, l
  <1>4. PICK p \in {2, 3} :
          /\ args[1] = l /\ args[p] = ret /\ {1, p} \subseteq DOMAIN args
          /\ DOMAIN args \subseteq 1..3
          /\ \A q \in DOMAIN args : q \notin {1, p} => args[q].reg = 0
    BY <1>2, <1>3
  <1>5. AllConst(args) => l.reg = 0 /\ ret.reg = 0
    BY <1>4 DEF AllConst, IsConst
  <1>6. ASSUME NEW r \in Results
        PROVE  IF l.reg = r \/ ret.reg = r
               THEN Takes(args, r)
               ELSE Ignores(args, r)
    <2>1. r # 0 /\ ~(l.reg = r /\ ret.reg = r)
      BY ResultsAreNumbers, HeldOnce DEF LinearInv, l
    <2>2. l.reg = r => {q \in DOMAIN args : args[q].reg = r} = {1}
      BY <1>4, <2>1
    <2>3. ret.reg = r => {q \in DOMAIN args : args[q].reg = r} = {p}
      BY <1>4, <2>1
    <2> QED BY <1>4, <2>1, <2>2, <2>3 DEF Takes, Ignores
  <1> QED BY <1>4, <1>5, <1>6 DEF BuiltFrom, l, args

\* The loop combines the value it keeps with the one returned to it.
LEMMA TakeRhsLinear ==
  ASSUME LinearInv, IInv', TakeRhs
  PROVE  WalkShape' /\ Linear'
PROOF
  <1> DEFINE op   == Top.node.ops[Top.next - 1].op
             args == Operands(op, Top.acc, ret)
             v    == BuiltVal(Opcode(op), args)
  <1>1. frames # <<>> /\ stage = "stmts" /\ Top.node.kind \in ChainKinds /\ Top.next > 1
        /\ ret # NoValue
    BY DEF TakeRhs, At
  <1>2. CASE op = "RealDiv"
    BY <1>2, ThrowLinear DEF TakeRhs, Exceptions
  <1>3. CASE op # "RealDiv" /\ ~Accepted(Opcode(op), args)
    BY <1>3, ThrowLinear DEF TakeRhs
  <1>4. CASE op # "RealDiv" /\ Accepted(Opcode(op), args)
    <2>1. /\ ir' = BuiltIr(Opcode(op), args) /\ stage' = "stmts"
          /\ frames' = [frames EXCEPT ![Len(frames)].acc = v] /\ ret' = NoValue
      BY <1>1, <1>4 DEF TakeRhs, KeepWalk
    <2>2. ret \in Operand /\ Computed(ret, Len(ir))
      BY <1>1, ReturnedIsOperand DEF LinearInv
    <2>3. Top.acc \in Operand /\ Computed(Top.acc, Len(ir))
      BY <1>1, TopFacts, HeldFacts DEF LinearInv, HoldsLeft, Values
    <2>4. op \in (MultOp \cup AddOp \cup RelOp) \ {"In", "RealDiv"}
      <3>1. Top.next - 1 \in 1..Len(Top.node.ops) /\ op # "In"
        BY <1>1, TopFacts, ChainNodes DEF LinearInv, HoldsLeft
      <3> QED BY <1>1, <1>4, <3>1, TopFacts, ChainNodes DEF LinearInv
    <2> HIDE DEF op
    <2>5. /\ Opcode(op) \in PureOps /\ args \in Args(Opcode(op))
          /\ \A k \in DOMAIN args : Computed(args[k], Len(ir))
      BY <2>2, <2>3, <2>4, OperandsFacts
    <2>6. BuiltFrom(args)
      BY <1>1, OperandsOnce
    <2> HIDE DEF args
    <2>7. v \in Operand
      BY <2>5, BuiltFacts DEF LinearInv
    <2>8. WalkShape'
      BY <1>1, <2>1, <2>7, TakeShape DEF LinearInv
    <2>9. \A r \in Nat \ {0} : HoldersOf(r)' = HoldersWith(r, v.reg, 0)
      BY <1>1, <2>1, <2>7, TakingHolders DEF LinearInv, NoValue
    <2>10. Linear'
      BY <1>1, <2>1, <2>5, <2>6, <2>9, BuiltLinear
    <2> QED BY <2>8, <2>10
  <1> QED BY <1>2, <1>3, <1>4

\* Each action of the loops over operators.
LEMMA ChainsLinear ==
  ASSUME LinearInv, IInv', Chains
  PROVE  WalkShape' /\ Linear'
PROOF
  <1>0. Chains => frames # <<>> /\ stage = "stmts" /\ Top.node.kind \in ChainKinds
    BY DEF Chains, CallStart, TakeStart, CallRhs, TakeRhs, ChainReturn, InChain, At
  <1>1. /\ Top.node \in Node /\ Top.next \in Nat /\ HoldsLeft(Top) /\ Top.acc \in Values
        /\ Len(Top.node.ops) \in Nat
    BY <1>0, TopFacts, ChainNodes DEF LinearInv
  <1>2. CASE CallStart
    <2> DEFINE f == [node |-> Top.node, next |-> Top.next + 1, acc |-> Top.acc]
    <2>1. /\ stage' = "stmts" /\ UNCHANGED <<ir, ret>> /\ Top.next = 0
          /\ frames' = Calling(Top.node.start, NoValue)
      BY <1>0, <1>2 DEF CallStart, KeepWalk
    <2>2. Top.acc = NoValue
      BY <1>0, <1>1, <2>1 DEF HoldsLeft
    <2>3. ret = NoValue
      BY <1>0, <2>1, NothingAtTop DEF Awaits
    <2>4. Top.node.start \in Node
      BY <1>0, <1>1, ChainNodes
    <2>5. StartsEmpty(f) /\ Awaits(f)
      BY <1>0, <2>1, <2>2 DEF StartsEmpty, Awaits, ChainKinds
    <2> HIDE DEF f
    <2> QED BY <1>0, <2>1, <2>2, <2>3, <2>4, <2>5, CallLinear DEF f
  <1>3. CASE TakeStart
    <2>1. /\ stage' = "stmts" /\ ir' = ir /\ ret' = NoValue /\ Top.next = 1 /\ ret # NoValue
          /\ frames' = [frames EXCEPT ![Len(frames)].acc = ret]
      BY <1>0, <1>3 DEF TakeStart, KeepWalk
    <2>2. ret \in Operand
      BY <2>1, ReturnedIsOperand DEF LinearInv
    <2>3. Top.acc = NoValue
      BY <1>0, <2>1 DEF LinearInv, WalkShape, StartsEmpty
    <2>4. WalkShape'
      BY <1>0, <2>1, <2>2, TakeShape DEF LinearInv
    <2>5. \A r \in Nat \ {0} : HoldersOf(r)' = HoldersWith(r, ret.reg, Top.acc.reg)
      BY <1>0, <2>1, <2>2, <2>3, TakingHolders DEF LinearInv
    <2>6. Linear'
      BY <1>0, <2>1, <2>5, PassedOn
    <2> QED BY <2>4, <2>6
  <1>4. CASE CallRhs
    <2> DEFINE op == Top.node.ops[Top.next]
               f  == [node |-> Top.node, next |-> Top.next + 1, acc |-> Top.acc]
    <2>1. Top.acc # NoValue /\ ret = NoValue /\ Top.next <= Len(Top.node.ops)
      BY <1>4 DEF CallRhs, InChain
    <2>2. CASE op.op = "In"
      BY <1>4, <2>2, ThrowLinear DEF CallRhs, Exceptions
    <2>3. CASE op.op # "In"
      <3>1. stage' = "stmts" /\ UNCHANGED <<ir, ret>> /\ frames' = Calling(op.rhs, Top.acc)
        BY <1>0, <1>4, <2>3 DEF CallRhs, KeepWalk
      <3>2. Top.next > 0
        BY <1>0, <1>1, <2>1 DEF HoldsLeft
      <3>3. op.rhs \in Node
        BY <1>0, <1>1, <2>1, <3>2, ChainNodes
      <3>4. StartsEmpty(f) /\ Awaits(f)
        BY <1>0, <1>1, <3>2 DEF StartsEmpty, Awaits, ChainKinds
      <3> HIDE DEF f, op
      <3> QED BY <1>0, <2>1, <3>1, <3>3, <3>4, CallLinear DEF f
    <2> QED BY <2>2, <2>3
  <1>5. CASE TakeRhs
    BY <1>5, TakeRhsLinear
  <1>6. CASE ChainReturn
    <2>1. stage' = "stmts" /\ ir' = ir /\ frames' = Popped /\ ret' = Top.acc /\ ret.reg = 0
      BY <1>0, <1>6 DEF ChainReturn, InChain, KeepWalk, Return, NoValue
    <2>2. Top.node.kind \in ExprKinds
      BY <1>0 DEF ExprKinds
    <2> QED BY <1>0, <2>1, <2>2, ReturnLinear
  <1> QED BY <1>2, <1>3, <1>4, <1>5, <1>6 DEF Chains

-----------------------------------------------------------------------------
\* The invariant holds of every program.
LEMMA LinearInvariant == Spec => []LinearInv
PROOF
  <1>1. Init => LinearInv
    <2> SUFFICES ASSUME Init PROVE LinearInv
      OBVIOUS
    <2>1. ir = <<>> /\ frames = <<>> /\ ret = NoValue
      BY DEF Init
    <2>2. WalkShape
      BY <2>1 DEF WalkShape
    <2>3. Linear
      BY <2>1 DEF Linear, Results
    <2> QED BY <2>2, <2>3, InitIInv DEF LinearInv
  <1>2. LinearInv /\ [Next]_vars => LinearInv'
    <2> SUFFICES ASSUME LinearInv, [Next]_vars PROVE LinearInv'
      OBVIOUS
    <2>1. IInv'
      BY NextIInv DEF LinearInv
    <2>2. CASE Declarations
      BY <2>1, <2>2, DeclarationsLinear DEF LinearInv
    <2>3. CASE Statements
      BY <2>1, <2>3, StatementsLinear DEF LinearInv
    <2>4. CASE Factors
      BY <2>1, <2>4, FactorsLinear DEF LinearInv
    <2>5. CASE Chains
      BY <2>1, <2>5, ChainsLinear DEF LinearInv
    <2>6. CASE UNCHANGED vars
      <3>1. UNCHANGED <<stage, ir, frames, ret>>
        BY <2>6 DEF vars
      <3>2. WalkShape'
        BY <3>1, QuietShape DEF LinearInv
      <3>3. Linear'
        BY <3>1 DEF LinearInv, Linear, Results, UsesOf, HoldersOf
      <3> QED BY <2>1, <3>2, <3>3 DEF LinearInv
    <2> QED BY <2>2, <2>3, <2>4, <2>5, <2>6 DEF Next
  <1> QED BY <1>1, <1>2, PTL DEF Spec

\* For every program, whatever the folder leaves out and wherever an exception
\* interrupts the walk: a value computed is used by one instruction, or is
\* held by one eval, never both and never twice.
THEOREM ValuesAreLinear == Spec => []ValuesUsedExactlyOnce
PROOF
  <1>1. LinearInv => ValuesUsedExactlyOnce
    <2> SUFFICES ASSUME LinearInv, NEW r \in Results
                 PROVE  Cardinality(UsesOf(r)) + Cardinality(HoldersOf(r)) = 1
      BY DEF ValuesUsedExactlyOnce
    <2>1. Once(UsesOf(r), HoldersOf(r))
      BY DEF LinearInv, Linear
    <2>2. Cardinality({}) = 0 /\ \A x : Cardinality({x}) = 1
      BY FS_EmptySet, FS_Singleton
    <2>3. CASE UsesOf(r) = {} /\ \E h : HoldersOf(r) = {h}
      <3>1. Cardinality(UsesOf(r)) = 0 /\ Cardinality(HoldersOf(r)) = 1
        BY <2>2, <2>3, Zenon
      <3> QED BY <3>1
    <2>4. CASE HoldersOf(r) = {} /\ \E u : UsesOf(r) = {u}
      <3>1. Cardinality(UsesOf(r)) = 1 /\ Cardinality(HoldersOf(r)) = 0
        BY <2>2, <2>4, Zenon
      <3> QED BY <3>1
    <2> QED BY <2>1, <2>3, <2>4 DEF Once
  <1> QED BY <1>1, LinearInvariant, PTL
=============================================================================

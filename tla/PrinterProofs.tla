--------------------------- MODULE PrinterProofs ---------------------------
(***************************************************************************)
(* Theorems of Printer, for every set of units.                            *)
(***************************************************************************)
EXTENDS Printer, TLAPS, FiniteSetTheorems, SequenceTheorems

-----------------------------------------------------------------------------
(***************************************************************************)
(* The parts of a node.                                                    *)
(***************************************************************************)
\* The parts of declarations are nodes.
LEMMA DeclParts ==
  ASSUME NEW n \in Node
  PROVE  /\ n.kind = "ProgramModule" => n.block \in Node
         /\ n.kind = "Block" => n.decls \in Node /\ n.body \in Node
         /\ n.kind = "Declarations" => /\ n.consts \in Seq(Node) /\ n.types \in Seq(Node)
                                       /\ n.vars \in Seq(Node) /\ n.subprogs \in Seq(Node)
         /\ n.kind = "ConstDef" => n.expr \in Node
         /\ n.kind \in {"TypeDef", "VarDecl"} => n.type \in Node
PROOF
  <1>1. n.kind \in DeclKinds => IsDecl(n)
    BY AstShape DEF IsNode, FactorKinds, ChainKinds, StmtKinds, IgnoredKinds,
                    DesignatorItemKinds, ConstKinds, TypeKinds, DeclKinds
  <1>2. CASE n.kind = "ProgramModule"
    <2>1. n \in ProgramModule
      BY <1>1, <1>2 DEF IsDecl, ProgramModule, DeclKinds
    <2> QED BY <1>2, <2>1 DEF ProgramModule, Block, Of
  <1>3. CASE n.kind = "Block"
    <2>1. n \in [kind : {"Block"}, decls : DeclarationsNode, body : StmtSeq]
      BY <1>1, <1>3 DEF IsDecl, ProgramModule, DeclKinds
    <2> QED BY <1>3, <2>1 DEF DeclarationsNode, StmtSeq, Of
  <1>4. CASE n.kind = "Declarations"
    <2>1. n \in [kind : {"Declarations"}, consts : Seq(ConstDef), types : Seq(TypeDef),
                 vars : Seq(VarDecl), subprogs : Seq(SubprogDecl)]
      BY <1>1, <1>4 DEF IsDecl, ProgramModule, DeclKinds
    <2>2. /\ ConstDef \subseteq Node /\ TypeDef \subseteq Node
          /\ VarDecl \subseteq Node /\ SubprogDecl \subseteq Node
      BY DEF ConstDef, TypeDef, VarDecl, SubprogDecl, Of
    <2> QED BY <1>4, <2>1, <2>2
  <1>5. CASE n.kind = "ConstDef"
    <2>1. n \in [kind : {"ConstDef"}, ident : Ident, expr : ConstExpr]
      BY <1>1, <1>5 DEF IsDecl, ProgramModule, DeclKinds
    <2> QED BY <1>5, <2>1 DEF ConstExpr, Of
  <1>6. CASE n.kind \in {"TypeDef", "VarDecl"}
    <2>1. \/ n \in [kind : {"TypeDef"}, ident : Ident, type : Type]
          \/ n \in [kind : {"VarDecl"}, idents : Seq(Ident) \ {<<>>}, type : Type]
      BY <1>1, <1>6 DEF IsDecl, ProgramModule, DeclKinds
    <2> QED BY <1>6, <2>1 DEF Type, Of
  <1> QED BY <1>2, <1>3, <1>4, <1>5, <1>6

\* The parts of factors, designator items and constants are nodes.
LEMMA FactorParts ==
  ASSUME NEW n \in Node
  PROVE  /\ n.kind = "Designator"  => n.items \in Seq(Node)
         /\ n.kind = "FuncCall"    => n.params \in Seq(Node)
         /\ n.kind \in {"Paren", "Negation"} => n.inner \in Node
         /\ n.kind = "ArrayAccess" => n.exprs \in Seq(Node)
         /\ n.kind = "ConstExpr"   => n.factor \in Node
PROOF
  <1>1. /\ n.kind \in FactorKinds => IsFactor(n)
        /\ n.kind \in DesignatorItemKinds => IsDesignatorItem(n)
        /\ n.kind \in ConstKinds => IsConstNode(n)
    BY AstShape DEF IsNode, FactorKinds, ChainKinds, StmtKinds, IgnoredKinds,
                    DesignatorItemKinds, ConstKinds, TypeKinds, DeclKinds
  <1>2. /\ DesignatorItem \subseteq Node /\ Expr \subseteq Node
        /\ Factor \subseteq Node /\ ConstFactor \subseteq Node
    BY DEF DesignatorItem, Expr, Factor, ConstFactor, Of
  <1>3. CASE n.kind = "Designator"
    <2>1. n \in [kind : {"Designator"}, ident : Ident, items : Seq(DesignatorItem)]
      BY <1>1, <1>3 DEF IsFactor, FuncCall, FactorKinds
    <2> QED BY <1>2, <1>3, <2>1
  <1>4. CASE n.kind = "FuncCall"
    <2>1. n \in [kind : {"FuncCall"}, func : Ident, params : Seq(Expr)]
      BY <1>1, <1>4 DEF IsFactor, FuncCall, FactorKinds
    <2> QED BY <1>2, <1>4, <2>1
  <1>5. CASE n.kind \in {"Paren", "Negation"}
    <2>1. \/ n \in [kind : {"Paren"}, inner : Expr]
          \/ n \in [kind : {"Negation"}, inner : Factor]
      BY <1>1, <1>5 DEF IsFactor, FuncCall, FactorKinds
    <2> QED BY <1>2, <1>5, <2>1
  <1>6. CASE n.kind = "ArrayAccess"
    <2>1. n \in [kind : {"ArrayAccess"}, exprs : Seq(Expr)]
      BY <1>1, <1>6 DEF IsDesignatorItem, DesignatorItemKinds
    <2> QED BY <1>2, <1>6, <2>1
  <1>7. CASE n.kind = "ConstExpr"
    <2>1. n \in [kind : {"ConstExpr"}, unary : Sign, factor : ConstFactor]
      BY <1>1, <1>7 DEF IsConstNode, ConstKinds
    <2> QED BY <1>2, <1>7, <2>1
  <1> QED BY <1>3, <1>4, <1>5, <1>6, <1>7

\* The parts of statements are nodes.
LEMMA StmtParts ==
  ASSUME NEW n \in Node
  PROVE  /\ n.kind = "Assignment" => n.target \in Node /\ n.expr \in Node
         /\ n.kind = "ProcCall"   => n.params \in Seq(Node)
         /\ n.kind = "StmtSeq"    => n.stmts \in Seq(Node)
         /\ n.kind = "If"    => n.cond \in Node /\ n.then \in Node /\ n.else \in Seq(Node)
         /\ n.kind = "While" => n.cond \in Node /\ n.body \in Node
         /\ n.kind = "For"   => n.start \in Node /\ n.finish \in Node /\ n.body \in Node
PROOF
  <1>1. n.kind \in StmtKinds => IsStmt(n)
    BY AstShape DEF IsNode, FactorKinds, ChainKinds, StmtKinds, IgnoredKinds,
                    DesignatorItemKinds, ConstKinds, TypeKinds, DeclKinds
  <1>2. Designator \subseteq Node /\ Expr \subseteq Node /\ Stmt \subseteq Node
    BY DEF Designator, Expr, Stmt, Of
  <1>3. CASE n.kind = "Assignment"
    <2>1. n \in [kind : {"Assignment"}, target : Designator, expr : Expr]
      BY <1>1, <1>3 DEF IsStmt, StmtKinds
    <2> QED BY <1>2, <1>3, <2>1
  <1>4. CASE n.kind = "ProcCall"
    <2>1. n \in [kind : {"ProcCall"}, proc : Ident, params : Seq(Expr)]
      BY <1>1, <1>4 DEF IsStmt, StmtKinds
    <2> QED BY <1>2, <1>4, <2>1
  <1>5. CASE n.kind = "StmtSeq"
    <2>1. n \in [kind : {"StmtSeq"}, stmts : Seq(Stmt) \ {<<>>}]
      BY <1>1, <1>5 DEF IsStmt, StmtKinds
    <2> QED BY <1>2, <1>5, <2>1
  <1>6. CASE n.kind = "If"
    <2>1. n \in [kind : {"If"}, cond : Expr, then : Stmt, else : Seq(Stmt)]
      BY <1>1, <1>6 DEF IsStmt, StmtKinds, IgnoredKinds
    <2> QED BY <1>2, <1>6, <2>1
  <1>7. CASE n.kind = "While"
    <2>1. n \in [kind : {"While"}, cond : Expr, body : Stmt]
      BY <1>1, <1>7 DEF IsStmt, StmtKinds, IgnoredKinds
    <2> QED BY <1>2, <1>7, <2>1
  <1>8. CASE n.kind = "For"
    <2>1. n \in [kind : {"For"}, ident : Ident, start : Expr, finish : Expr, body : Stmt]
      BY <1>1, <1>8 DEF IsStmt, StmtKinds, IgnoredKinds
    <2> QED BY <1>2, <1>8, <2>1
  <1> QED BY <1>3, <1>4, <1>5, <1>6, <1>7, <1>8

\* What is known of the elements of a sequence.
LEMMA SeqElements ==
  ASSUME NEW S, NEW s \in Seq(S)
  PROVE  Len(s) \in Nat /\ DOMAIN s = 1..Len(s) /\ \A k \in 1..Len(s) : s[k] \in S
PROOF
  OBVIOUS

\* A sequence over a set is one over any larger set.
LEMMA SeqGrows ==
  ASSUME NEW S, NEW T, S \subseteq T, NEW s \in Seq(S)
  PROVE  s \in Seq(T)
PROOF
  OBVIOUS

\* The operators and operands of a chain, interleaved, are parts.
LEMMA InterleavedParts ==
  ASSUME NEW ops \in Seq([op : AddOp \cup MultOp, rhs : Node])
  PROVE  Interleaved(ops) \in Seq(Part)
PROOF
  <1>1. Len(ops) \in Nat
        /\ \A k \in 1..Len(ops) : ops[k].op \in AddOp \cup MultOp /\ ops[k].rhs \in Node
    <2>1. Len(ops) \in Nat
          /\ \A k \in 1..Len(ops) : ops[k] \in [op : AddOp \cup MultOp, rhs : Node]
      BY SeqElements, Zenon
    <2> QED BY <2>1
  <1>2. ASSUME NEW k \in 1..2 * Len(ops)
        PROVE  (IF k % 2 = 1 THEN OpLine(ops[(k + 1) \div 2].op) ELSE ops[k \div 2].rhs) \in Part
    <2>1. CASE k % 2 = 1
      <3>1. (k + 1) \div 2 \in 1..Len(ops)
        BY <1>1, <2>1
      <3> QED BY <1>1, <2>1, <3>1 DEF OpLine, Part
    <2>2. CASE k % 2 # 1
      <3>1. k \div 2 \in 1..Len(ops)
        BY <1>1, <2>2
      <3> QED BY <1>1, <2>2, <3>1 DEF Part
    <2> QED BY <2>1, <2>2
  <1>3. 2 * Len(ops) \in Nat
    BY <1>1
  <1> QED BY <1>2, <1>3 DEF Interleaved

\* The parts of a Term, SimpleExpr or Expr are nodes, and lines of operators.
LEMMA ChainParts ==
  ASSUME NEW n \in Node, n.kind \in ChainKinds
  PROVE  /\ n.start \in Node
         /\ n.kind = "Expr" => [k \in DOMAIN n.ops |-> n.ops[k].rhs] \in Seq(Part)
         /\ n.kind # "Expr" => Interleaved(n.ops) \in Seq(Part)
PROOF
  <1>1. IsChain(n)
    BY AstShape DEF IsNode, FactorKinds, ChainKinds, StmtKinds, IgnoredKinds,
                    DesignatorItemKinds, ConstKinds, TypeKinds, DeclKinds
  <1>2. Factor \subseteq Node /\ Term \subseteq Node /\ SimpleExpr \subseteq Node
    BY DEF Factor, Term, SimpleExpr, Of
  <1>3. CASE n \in [kind : {"Term"}, start : Factor, ops : Seq([op : MultOp, rhs : Factor])]
    <2>1. n.kind = "Term" /\ n.start \in Factor /\ n.ops \in Seq([op : MultOp, rhs : Factor])
      BY <1>3
    <2>2. [op : MultOp, rhs : Factor] \subseteq [op : AddOp \cup MultOp, rhs : Node]
      BY <1>2
    <2>3. n.ops \in Seq([op : AddOp \cup MultOp, rhs : Node])
      BY <2>1, <2>2, SeqGrows, Zenon
    <2> QED BY <1>2, <2>1, <2>3, InterleavedParts
  <1>4. CASE n \in [kind : {"SimpleExpr"}, unary : Sign, start : Term,
                    ops : Seq([op : AddOp, rhs : Term])]
    <2>1. n.kind = "SimpleExpr" /\ n.start \in Term /\ n.ops \in Seq([op : AddOp, rhs : Term])
      BY <1>4
    <2>2. [op : AddOp, rhs : Term] \subseteq [op : AddOp \cup MultOp, rhs : Node]
      BY <1>2
    <2>3. n.ops \in Seq([op : AddOp \cup MultOp, rhs : Node])
      BY <2>1, <2>2, SeqGrows, Zenon
    <2> QED BY <1>2, <2>1, <2>3, InterleavedParts
  <1>5. CASE n \in [kind : {"Expr"}, start : SimpleExpr,
                    ops : Seq([op : RelOp, rhs : SimpleExpr])]
    <2>1. n.kind = "Expr" /\ n.start \in SimpleExpr /\ n.ops \in Seq([op : RelOp, rhs : SimpleExpr])
      BY <1>5
    <2>2. Len(n.ops) \in Nat /\ DOMAIN n.ops = 1..Len(n.ops)
          /\ \A k \in 1..Len(n.ops) : n.ops[k] \in [op : RelOp, rhs : SimpleExpr]
      BY <2>1, SeqElements, Zenon
    <2>3. \A k \in 1..Len(n.ops) : n.ops[k].rhs \in Part
      BY <1>2, <2>2 DEF Part
    <2>4. [k \in 1..Len(n.ops) |-> n.ops[k].rhs] \in Seq(Part)
      BY <2>2, <2>3
    <2> QED BY <1>2, <2>1, <2>2, <2>4
  <1> QED BY <1>1, <1>3, <1>4, <1>5 DEF IsChain

\* The case of Parts for each kind.
LEMMA PartsByKind ==
  ASSUME NEW n
  PROVE  /\ n.kind = "ProgramModule" => Parts(n) = <<n.block>>
         /\ n.kind = "Block" => Parts(n) = <<n.decls, n.body>>
         /\ n.kind = "Declarations" => Parts(n) = n.consts \o n.types \o n.vars \o n.subprogs
         /\ n.kind = "ConstDef" => Parts(n) = <<n.expr>>
         /\ n.kind \in {"TypeDef", "VarDecl"} => Parts(n) = <<n.type>>
         /\ n.kind = "ConstExpr" => Parts(n) = <<n.factor>>
         /\ n.kind = "Assignment" => Parts(n) = <<n.target, n.expr>>
         /\ n.kind \in {"ProcCall", "FuncCall"} => Parts(n) = n.params
         /\ n.kind = "StmtSeq" => Parts(n) = n.stmts
         /\ n.kind = "If" => Parts(n) = <<n.cond, n.then>> \o n.else
         /\ n.kind = "While" => Parts(n) = <<n.cond, n.body>>
         /\ n.kind = "For" => Parts(n) = <<n.start, n.finish, n.body>>
         /\ n.kind = "Designator" => Parts(n) = n.items
         /\ n.kind = "ArrayAccess" => Parts(n) = n.exprs
         /\ n.kind \in {"Paren", "Negation"} => Parts(n) = <<n.inner>>
         /\ n.kind = "Expr" => Parts(n) = <<n.start>> \o [k \in DOMAIN n.ops |-> n.ops[k].rhs]
         /\ n.kind \in {"SimpleExpr", "Term"} => Parts(n) = <<n.start>> \o Interleaved(n.ops)
PROOF
  <1>1. n.kind = "ProgramModule" => Parts(n) = <<n.block>>
    BY Zenon DEF Parts
  <1>2. n.kind = "Block" => Parts(n) = <<n.decls, n.body>>
    BY Zenon DEF Parts
  <1>3. n.kind = "Declarations" => Parts(n) = n.consts \o n.types \o n.vars \o n.subprogs
    BY Zenon DEF Parts
  <1>4. n.kind = "ConstDef" => Parts(n) = <<n.expr>>
    BY Zenon DEF Parts
  <1>5. n.kind \in {"TypeDef", "VarDecl"} => Parts(n) = <<n.type>>
    BY Zenon DEF Parts
  <1>6. n.kind = "ConstExpr" => Parts(n) = <<n.factor>>
    BY Zenon DEF Parts
  <1>7. n.kind = "Assignment" => Parts(n) = <<n.target, n.expr>>
    BY Zenon DEF Parts
  <1>8. n.kind \in {"ProcCall", "FuncCall"} => Parts(n) = n.params
    BY Zenon DEF Parts
  <1>9. n.kind = "StmtSeq" => Parts(n) = n.stmts
    BY Zenon DEF Parts
  <1>10. n.kind = "If" => Parts(n) = <<n.cond, n.then>> \o n.else
    BY Zenon DEF Parts
  <1>11. n.kind = "While" => Parts(n) = <<n.cond, n.body>>
    BY Zenon DEF Parts
  <1>12. n.kind = "For" => Parts(n) = <<n.start, n.finish, n.body>>
    BY Zenon DEF Parts
  <1>13. n.kind = "Designator" => Parts(n) = n.items
    BY Zenon DEF Parts
  <1>14. n.kind = "ArrayAccess" => Parts(n) = n.exprs
    BY Zenon DEF Parts
  <1>15. n.kind \in {"Paren", "Negation"} => Parts(n) = <<n.inner>>
    BY Zenon DEF Parts
  <1>16. n.kind = "Expr" => Parts(n) = <<n.start>> \o [k \in DOMAIN n.ops |-> n.ops[k].rhs]
    BY Zenon DEF Parts
  <1>17. n.kind \in {"SimpleExpr", "Term"} => Parts(n) = <<n.start>> \o Interleaved(n.ops)
    BY Zenon DEF Parts
  <1> QED BY <1>1, <1>2, <1>3, <1>4, <1>5, <1>6, <1>7, <1>8, <1>9, <1>10, <1>11, <1>12, <1>13, <1>14, <1>15, <1>16, <1>17

\* A node of any other kind has no parts.
LEMMA NoParts ==
  ASSUME NEW n,
         n.kind \notin {"ProgramModule", "Block", "Declarations", "ConstDef", "TypeDef",
                       "VarDecl", "ConstExpr", "Assignment", "ProcCall", "FuncCall",
                       "StmtSeq", "If", "While", "For", "Designator", "ArrayAccess",
                       "Paren", "Negation", "Expr", "SimpleExpr", "Term"}
  PROVE  Parts(n) = <<>>
PROOF
  BY Zenon DEF Parts

\* Parts in a row.
LEMMA PartsInARow ==
  ASSUME NEW a \in Part, NEW b \in Part, NEW c \in Part
  PROVE  <<a>> \in Seq(Part) /\ <<a, b>> \in Seq(Part) /\ <<a, b, c>> \in Seq(Part)
PROOF
  <1> HIDE DEF Part
  <1> QED OBVIOUS

\* What a visit visits are nodes, or lines with an operator.
LEMMA PartsOfNode ==
  ASSUME NEW n \in Part
  PROVE  Parts(n) \in Seq(Part)
PROOF
  <1>1. Node \subseteq Part
    BY DEF Part
  <1>2. \A s \in Seq(Node) : s \in Seq(Part)
    BY <1>1, SeqGrows, Zenon
  <1>3. CASE n \notin Node
    <2>1. n.kind = "OpLine"
      BY <1>3 DEF Part
    <2>2. Parts(n) = <<>>
      BY <2>1, NoParts
    <2> QED BY <2>2
  <1>4. CASE n \in Node /\ n.kind \in ChainKinds
    <2>1. n.start \in Part
      BY <1>1, <1>4, ChainParts
    <2>2. CASE n.kind = "Expr"
      <3>1. Parts(n) = <<n.start>> \o [k \in DOMAIN n.ops |-> n.ops[k].rhs]
        BY <2>2, PartsByKind
      <3>2. [k \in DOMAIN n.ops |-> n.ops[k].rhs] \in Seq(Part)
        BY <1>4, <2>2, ChainParts
      <3> QED BY <2>1, <3>1, <3>2
    <2>3. CASE n.kind # "Expr"
      <3>1. Parts(n) = <<n.start>> \o Interleaved(n.ops)
        BY <1>4, <2>3, PartsByKind DEF ChainKinds
      <3>2. Interleaved(n.ops) \in Seq(Part)
        BY <1>4, <2>3, ChainParts
      <3> QED BY <2>1, <3>1, <3>2
    <2> QED BY <2>2, <2>3
  <1>5. CASE n \in Node /\ n.kind \in DeclKinds
    <2>1. CASE n.kind = "Declarations"
      <3>1. Parts(n) = n.consts \o n.types \o n.vars \o n.subprogs
        BY <2>1, PartsByKind
      <3> QED BY <1>1, <1>2, <1>5, <2>1, <3>1, DeclParts
    <2>2. CASE n.kind \in {"ProgramModule", "Block", "ConstDef", "TypeDef", "VarDecl"}
      <3>1. /\ n.kind = "ProgramModule" => Parts(n) = <<n.block>>
            /\ n.kind = "Block" => Parts(n) = <<n.decls, n.body>>
            /\ n.kind = "ConstDef" => Parts(n) = <<n.expr>>
            /\ n.kind \in {"TypeDef", "VarDecl"} => Parts(n) = <<n.type>>
        BY PartsByKind, Zenon
      <3>2. CASE n.kind = "Block"
        <4>1. n.decls \in Part /\ n.body \in Part
          BY <1>1, <1>5, <3>2, DeclParts
        <4> QED BY <3>1, <3>2, <4>1, PartsInARow
      <3>3. CASE n.kind # "Block"
        <4>1. PICK a \in Part : Parts(n) = <<a>>
          BY <1>1, <1>5, <2>2, <3>1, <3>3, DeclParts
        <4> QED BY <4>1, PartsInARow
      <3> QED BY <3>2, <3>3
    <2>3. CASE n.kind \in {"ProcDecl", "FuncDecl"}
      <3>1. Parts(n) = <<>>
        BY <2>3, NoParts
      <3> QED BY <3>1
    <2> QED BY <1>5, <2>1, <2>2, <2>3 DEF DeclKinds
  <1>6. CASE n \in Node /\ n.kind \in StmtKinds
    <2>1. CASE n.kind = "If"
      <3>1. Parts(n) = <<n.cond, n.then>> \o n.else
        BY <2>1, PartsByKind
      <3>2. n.cond \in Part /\ n.then \in Part /\ n.else \in Seq(Part)
        BY <1>1, <1>2, <1>6, <2>1, StmtParts
      <3> QED BY <3>1, <3>2
    <2>2. CASE n.kind \in {"Assignment", "ProcCall", "StmtSeq", "While", "For"}
      <3>1. /\ n.kind = "Assignment" => Parts(n) = <<n.target, n.expr>>
            /\ n.kind = "ProcCall" => Parts(n) = n.params
            /\ n.kind = "StmtSeq" => Parts(n) = n.stmts
            /\ n.kind = "While" => Parts(n) = <<n.cond, n.body>>
            /\ n.kind = "For" => Parts(n) = <<n.start, n.finish, n.body>>
        BY PartsByKind, Zenon
      <3>2. CASE n.kind \in {"ProcCall", "StmtSeq"}
        BY <1>2, <1>6, <3>1, <3>2, StmtParts
      <3>3. CASE n.kind = "Assignment"
        <4>1. n.target \in Part /\ n.expr \in Part
          BY <1>1, <1>6, <3>3, StmtParts
        <4> QED BY <3>1, <3>3, <4>1, PartsInARow
      <3>4. CASE n.kind = "While"
        <4>1. n.cond \in Part /\ n.body \in Part
          BY <1>1, <1>6, <3>4, StmtParts
        <4> QED BY <3>1, <3>4, <4>1, PartsInARow
      <3>5. CASE n.kind = "For"
        <4>1. n.start \in Part /\ n.finish \in Part /\ n.body \in Part
          BY <1>1, <1>6, <3>5, StmtParts
        <4> QED BY <3>1, <3>5, <4>1, PartsInARow
      <3> QED BY <2>2, <3>2, <3>3, <3>4, <3>5
    <2>3. CASE n.kind \in {"Case", "Repeat", "Memory", "Empty"}
      <3>1. Parts(n) = <<>>
        BY <2>3, NoParts
      <3> QED BY <3>1
    <2> QED BY <1>6, <2>1, <2>2, <2>3 DEF StmtKinds, IgnoredKinds
  <1>7. CASE n \in Node /\ n.kind \in {"Designator", "FuncCall", "Paren", "Negation",
                                      "ArrayAccess", "ConstExpr"}
    <2>1. /\ n.kind = "Designator" => Parts(n) = n.items
          /\ n.kind = "FuncCall" => Parts(n) = n.params
          /\ n.kind \in {"Paren", "Negation"} => Parts(n) = <<n.inner>>
          /\ n.kind = "ArrayAccess" => Parts(n) = n.exprs
          /\ n.kind = "ConstExpr" => Parts(n) = <<n.factor>>
      BY PartsByKind, Zenon
    <2> QED BY <1>1, <1>2, <1>7, <2>1, FactorParts
  <1>8. CASE /\ n.kind \notin {"Designator", "FuncCall", "Paren", "Negation",
                               "ArrayAccess", "ConstExpr"}
             /\ n.kind \notin ChainKinds \cup DeclKinds \cup StmtKinds
    <2>1. Parts(n) = <<>>
      BY <1>8, NoParts DEF ChainKinds, DeclKinds, StmtKinds, IgnoredKinds
    <2> QED BY <2>1
  <1> QED BY <1>3, <1>4, <1>5, <1>6, <1>7, <1>8

-----------------------------------------------------------------------------
(***************************************************************************)
(* The depth.                                                              *)
(***************************************************************************)
\* The active visits are finitely many.
LEMMA DescendedFinite ==
  ASSUME NEW cs \in Seq([node : Part, next : Nat])
  PROVE  IsFiniteSet({k \in DOMAIN cs : k < Len(cs) /\ ~Forwards(cs[k].node)})
PROOF
  <1>1. {k \in DOMAIN cs : k < Len(cs) /\ ~Forwards(cs[k].node)} \subseteq 1..Len(cs)
    OBVIOUS
  <1>2. IsFiniteSet(1..Len(cs))
    BY FS_Interval
  <1> QED BY <1>1, <1>2, FS_Subset

\* The invariant of the theorems.
DepthInv == VisitsOK /\ DepthIsNesting

\* The last visit at its next part is the same visit.
LEMMA AdvancedFacts ==
  ASSUME DepthInv, Visiting
  PROVE  /\ Len(calls) \in Nat \ {0} /\ DOMAIN calls = 1..Len(calls)
         /\ Top \in [node : Part, next : Nat]
         /\ Advanced \in Seq([node : Part, next : Nat])
         /\ Len(Advanced) = Len(calls)
         /\ DOMAIN Advanced = DOMAIN calls
         /\ \A k \in DOMAIN calls : Advanced[k].node = calls[k].node
PROOF
  <1> DEFINE F == [node : Part, next : Nat]
             f == [node |-> Top.node, next |-> Top.next + 1]
  <1>1. /\ calls \in Seq(F) /\ Len(calls) \in Nat \ {0}
        /\ DOMAIN calls = 1..Len(calls) /\ Len(calls) \in DOMAIN calls
    BY DEF DepthInv, VisitsOK, Visiting
  <1>2. Top \in F
    BY <1>1, SeqElements, Zenon DEF Top
  <1>3. f \in F /\ f.node = Top.node
    BY <1>2
  <1>4. Advanced = [calls EXCEPT ![Len(calls)] = f]
    BY DEF Advanced
  <1> HIDE DEF f, F
  <1>5. /\ Advanced \in Seq(F) /\ Len(Advanced) = Len(calls)
        /\ DOMAIN Advanced = DOMAIN calls
    BY <1>1, <1>3, <1>4, ExceptSeq
  <1>6. \A k \in DOMAIN calls : Advanced[k] = IF k = Len(calls) THEN f ELSE calls[k]
    BY <1>1, <1>4
  <1>7. \A k \in DOMAIN calls : Advanced[k].node = calls[k].node
    BY <1>3, <1>6 DEF Top
  <1> QED BY <1>1, <1>2, <1>5, <1>7 DEF F

\* A step that calls nothing and returns from nothing keeps the depth.
LEMMA AdvanceKeeps ==
  ASSUME DepthInv, Visiting, calls' = Advanced, UNCHANGED <<unit, phase, depth_>>
  PROVE  DepthInv'
PROOF
  <1>1. Descended' = Descended
    BY AdvancedFacts DEF Descended
  <1>2. depth_' = Cardinality(Descended')
    BY <1>1 DEF DepthInv, DepthIsNesting
  <1> QED BY <1>2, AdvancedFacts DEF DepthInv, VisitsOK, DepthIsNesting

\* A call adds the caller to the descended visits, unless it forwards.
LEMMA CallDeepens ==
  ASSUME DepthInv, DESCEND
  PROVE  DepthInv'
PROOF
  <1> DEFINE m == Len(calls)
             n == Top.node
             v == Visit(Parts(n)[Top.next])
             F == [node : Part, next : Nat]
  <1>1. /\ Visiting /\ Top.next \in DOMAIN Parts(n)
        /\ calls' = Append(Advanced, v)
        /\ depth_' = depth_ + Descent(n)
        /\ UNCHANGED <<unit, phase>>
    BY DEF DESCEND
  <1>2. /\ m \in Nat \ {0} /\ DOMAIN calls = 1..m /\ n \in Part /\ n = calls[m].node
        /\ Advanced \in Seq(F) /\ Len(Advanced) = m
        /\ \A k \in 1..m : Advanced[k].node = calls[k].node
    BY <1>1, AdvancedFacts DEF Top
  <1>3. v \in F
    <2>1. Parts(n)[Top.next] \in Part
      BY <1>1, <1>2, PartsOfNode, SeqElements
    <2> QED BY <2>1 DEF Visit
  <1> HIDE DEF v, F
  <1>4. /\ calls' \in Seq(F)
        /\ Len(calls') = m + 1
        /\ DOMAIN calls' = 1..(m + 1)
        /\ \A k \in 1..m : calls'[k] = Advanced[k]
    BY <1>1, <1>2, <1>3
  <1>5. Descended = {k \in 1..m : k < m /\ ~Forwards(calls[k].node)}
    BY <1>2 DEF Descended
  <1>6. Descended' = {k \in 1..(m + 1) : k < m + 1 /\ ~Forwards(calls'[k].node)}
    BY <1>4 DEF Descended
  <1>7. Descended' = {k \in 1..m : ~Forwards(calls[k].node)}
    BY <1>2, <1>4, <1>6
  <1>8. IsFiniteSet(Descended) /\ depth_ = Cardinality(Descended) /\ depth_ \in Nat
    BY DescendedFinite DEF Descended, DepthInv, DepthIsNesting, VisitsOK
  <1>9. CASE Forwards(n)
    <2>1. Descended' = Descended
      BY <1>2, <1>5, <1>7, <1>9
    <2>2. depth_' = depth_
      BY <1>1, <1>8, <1>9 DEF Descent
    <2> QED BY <1>1, <1>4, <1>8, <2>1, <2>2 DEF DepthInv, VisitsOK, DepthIsNesting, F
  <1>10. CASE ~Forwards(n)
    <2>1. Descended' = Descended \cup {m} /\ m \notin Descended
      BY <1>2, <1>5, <1>7, <1>10
    <2>2. Cardinality(Descended') = Cardinality(Descended) + 1
      BY <1>8, <2>1, FS_AddElement
    <2>3. depth_' = depth_ + 1
      BY <1>1, <1>10 DEF Descent
    <2> QED BY <1>1, <1>4, <1>8, <2>2, <2>3 DEF DepthInv, VisitsOK, DepthIsNesting, F
  <1> QED BY <1>9, <1>10

\* A return takes the caller out again.
LEMMA ReturnRestores ==
  ASSUME DepthInv, Return
  PROVE  DepthInv'
PROOF
  <1> DEFINE m == Len(calls)
             n == calls[m - 1].node
             F == [node : Part, next : Nat]
  <1>1. /\ calls \in Seq(F) /\ m \in Nat /\ m > 1 /\ DOMAIN calls = 1..m
        /\ calls' = SubSeq(calls, 1, m - 1)
        /\ depth_' = depth_ - Descent(n)
        /\ UNCHANGED <<unit, phase>>
    BY DEF DepthInv, VisitsOK, Return, Visiting, Front, Caller
  <1>2. /\ calls' \in Seq(F)
        /\ Len(calls') = m - 1
        /\ DOMAIN calls' = 1..(m - 1)
        /\ \A k \in 1..(m - 1) : calls'[k] = calls[k]
    <2> HIDE DEF F
    <2>1. \A k \in 1..(m - 1) : calls[k] \in F
      BY <1>1, SeqElements
    <2>2. /\ SubSeq(calls, 1, m - 1) \in Seq(F)
          /\ Len(SubSeq(calls, 1, m - 1)) = IF 1 <= m - 1 THEN m - 1 - 1 + 1 ELSE 0
          /\ \A k \in 1..m - 1 - 1 + 1 : SubSeq(calls, 1, m - 1)[k] = calls[1 + k - 1]
      BY <1>1, <2>1, SubSeqProperties
    <2> QED BY <1>1, <2>2
  <1>3. Descended = {k \in 1..m : k < m /\ ~Forwards(calls[k].node)}
    BY <1>1 DEF Descended
  <1>4. Descended' = {k \in 1..(m - 1) : k < m - 1 /\ ~Forwards(calls'[k].node)}
    BY <1>2 DEF Descended
  <1>5. Descended' = {k \in 1..(m - 1) : k < m - 1 /\ ~Forwards(calls[k].node)}
    BY <1>2, <1>4
  <1>6. IsFiniteSet(Descended) /\ depth_ = Cardinality(Descended) /\ depth_ \in Nat
    BY DescendedFinite DEF Descended, DepthInv, DepthIsNesting, VisitsOK
  <1>7. CASE Forwards(n)
    <2>1. Descended' = Descended
      BY <1>1, <1>3, <1>5, <1>7
    <2>2. depth_' = depth_
      BY <1>1, <1>6, <1>7 DEF Descent
    <2> QED BY <1>1, <1>2, <1>6, <2>1, <2>2 DEF DepthInv, VisitsOK, DepthIsNesting
  <1>8. CASE ~Forwards(n)
    <2>1. Descended' = Descended \ {m - 1} /\ m - 1 \in Descended
      BY <1>1, <1>3, <1>5, <1>8
    <2>2. Cardinality(Descended') = Cardinality(Descended) - 1 /\ IsFiniteSet(Descended')
      BY <1>6, <2>1, FS_RemoveElement
    <2>3. depth_' = depth_ - 1
      BY <1>1, <1>8 DEF Descent
    <2>4. depth_' = Cardinality(Descended') /\ depth_' \in Nat
      BY <1>6, <2>2, <2>3, FS_CardinalityType
    <2> QED BY <1>1, <1>2, <2>4 DEF DepthInv, VisitsOK, DepthIsNesting
  <1> QED BY <1>7, <1>8

\* The visit that is left when the walk ends is not inside of another one.
LEMMA NothingDescended ==
  ASSUME Len(calls) = 1 \/ calls = <<>>, DOMAIN calls = 1..Len(calls)
  PROVE  Cardinality(Descended) = 0
PROOF
  <1>1. Descended = {}
    BY DEF Descended
  <1> QED BY <1>1, FS_EmptySet

LEMMA FinishRestores ==
  ASSUME DepthInv, Finish
  PROVE  DepthInv'
PROOF
  <1>1. Cardinality(Descended) = 0
    BY AdvancedFacts, NothingDescended DEF Finish
  <1>2. Descended' = {}
    BY DEF Finish, Descended
  <1>3. depth_' = Cardinality(Descended')
    BY <1>1, <1>2, FS_EmptySet DEF Finish, DepthInv, DepthIsNesting
  <1> QED BY <1>3 DEF Finish, DepthInv, VisitsOK, DepthIsNesting

LEMMA DepthInvInductive == Spec => []DepthInv
PROOF
  <1>1. Init => DepthInv
    <2> SUFFICES ASSUME Init PROVE DepthInv
      OBVIOUS
    <2>1. unit \in Part
      BY AstShape DEF Init, Part, Of
    <2>2. calls = <<Visit(unit)>> /\ Visit(unit) \in [node : Part, next : Nat]
      BY <2>1 DEF Init, Visit
    <2>3. calls \in Seq([node : Part, next : Nat]) /\ Len(calls) = 1 /\ DOMAIN calls = 1..Len(calls)
      BY <2>2
    <2>4. Cardinality(Descended) = 0
      BY <2>3, NothingDescended
    <2> QED BY <2>3, <2>4 DEF Init, DepthInv, VisitsOK, DepthIsNesting
  <1>2. DepthInv /\ [Next]_printerVars => DepthInv'
    <2> SUFFICES ASSUME DepthInv, [Next]_printerVars PROVE DepthInv'
      OBVIOUS
    <2>1. CASE VisitHeading
      BY <2>1, AdvanceKeeps DEF VisitHeading, PutLine
    <2>2. CASE VisitFor
      <3>1. CASE calls' = Advanced /\ UNCHANGED <<unit, phase, depth_>>
        BY <2>2, <3>1, AdvanceKeeps DEF VisitFor
      <3>2. CASE phase' = "assert" /\ UNCHANGED <<unit, calls, depth_>>
        BY <3>2 DEF DepthInv, VisitsOK, DepthIsNesting, Descended
      <3> QED BY <2>2, <3>1, <3>2 DEF VisitFor, PutLine
    <2>3. CASE VisitConstFactor
      BY <2>3, AdvanceKeeps DEF VisitConstFactor
    <2>4. CASE Forward
      BY <2>4, AdvanceKeeps DEF Forward
    <2>5. CASE DESCEND
      BY <2>5, CallDeepens
    <2>6. CASE Return
      BY <2>6, ReturnRestores
    <2>7. CASE Finish
      BY <2>7, FinishRestores
    <2>8. CASE UNCHANGED printerVars
      BY <2>8 DEF printerVars, DepthInv, VisitsOK, DepthIsNesting, Descended
    <2> QED BY <2>1, <2>2, <2>3, <2>4, <2>5, <2>6, <2>7, <2>8 DEF Next
  <1> QED BY <1>1, <1>2, PTL DEF Spec

\* Whatever the tree, the visits are visits of its nodes and depth_, which is
\* unsigned in printer.hpp, never goes below zero.
THEOREM VisitsAreTyped == Spec => []VisitsOK
PROOF
  <1>1. DepthInv => VisitsOK
    BY DEF DepthInv
  <1> QED BY <1>1, DepthInvInductive, PTL

\* Whatever the tree, DESCEND and the returns balance: the indentation of a
\* line is the nesting of the visits that print.
THEOREM DepthFollowsNesting == Spec => []DepthIsNesting
PROOF
  <1>1. DepthInv => DepthIsNesting
    BY DEF DepthInv
  <1> QED BY <1>1, DepthInvInductive, PTL

-----------------------------------------------------------------------------
(***************************************************************************)
(* The lines.                                                              *)
(***************************************************************************)
\* Every line has an indentation, and words.
LinesOK ==
  /\ stream_ = [k \in 1..Len(stream_) |-> stream_[k]]
  /\ Len(stream_) \in Nat
  /\ \A k \in 1..Len(stream_) :
       \E i \in Nat : \E w : stream_[k] = [indent |-> i, words |-> w]

\* A line that is put is indented by depth_.
LEMMA LinePut ==
  ASSUME LinesOK, depth_ \in Nat, NEW words, stream_' = Append(stream_, Line(words))
  PROVE  LinesOK'
PROOF
  <1> DEFINE V == {stream_[k] : k \in 1..Len(stream_)} \cup {Line(words)}
  <1>1. stream_ \in Seq(V) /\ Line(words) \in V
    BY DEF LinesOK
  <1> HIDE DEF V
  <1>2. stream_' \in Seq(V) /\ Len(stream_') = Len(stream_) + 1 /\ Len(stream_') \in Nat
    BY <1>1
  <1>3. \A k \in 1..Len(stream_') :
          stream_'[k] = IF k <= Len(stream_) THEN stream_[k] ELSE Line(words)
    BY <1>1, <1>2
  <1>4. stream_' = [k \in 1..Len(stream_') |-> stream_'[k]]
    BY <1>2, LenProperties
  <1>5. \A k \in 1..Len(stream_') :
          \E i \in Nat : \E w : stream_'[k] = [indent |-> i, words |-> w]
    <2> TAKE k \in 1..Len(stream_')
    <2>1. CASE k <= Len(stream_)
      BY <1>2, <1>3, <2>1 DEF LinesOK
    <2>2. CASE ~(k <= Len(stream_))
      BY <1>3, <2>2 DEF Line
    <2> QED BY <2>1, <2>2
  <1> QED BY <1>2, <1>4, <1>5 DEF LinesOK

\* Words that are added to the last line leave its indentation alone.
LEMMA LineContinued ==
  ASSUME LinesOK, NEW words,
         stream_' = [stream_ EXCEPT ![Len(stream_)].words = @ \o words]
  PROVE  LinesOK'
PROOF
  <1> DEFINE L == Len(stream_)
             last == [stream_[L] EXCEPT !.words = stream_[L].words \o words]
  <1>1. stream_ = [k \in 1..L |-> stream_[k]] /\ L \in Nat
    BY DEF LinesOK
  <1>2. stream_' = [k \in 1..L |-> IF k = L THEN last ELSE stream_[k]]
    BY <1>1
  <1>3. Len(stream_') = L
    <2> DEFINE V == {stream_'[k] : k \in 1..L}
    <2>1. stream_' \in [1..L -> V]
      BY <1>2
    <2> HIDE DEF V
    <2>2. stream_' \in Seq(V)
      BY <1>1, <2>1, SeqDef
    <2>3. Len(stream_') \in Nat /\ DOMAIN stream_' = 1..Len(stream_')
      BY <2>2, LenProperties
    <2>4. 1..Len(stream_') = 1..L
      BY <2>1, <2>3
    <2> QED BY <1>1, <2>3, <2>4
  <1>4. stream_' = [k \in 1..L |-> stream_'[k]]
    BY <1>2
  <1>5. \A k \in 1..L : \E i \in Nat : \E w : stream_'[k] = [indent |-> i, words |-> w]
    <2> TAKE k \in 1..L
    <2>1. PICK i \in Nat : \E w : stream_[k] = [indent |-> i, words |-> w]
      BY DEF LinesOK
    <2>2. PICK w : stream_[k] = [indent |-> i, words |-> w]
      BY <2>1
    <2>3. CASE k = L
      <3> DEFINE now == stream_[L].words \o words
      <3>1. stream_[L] = [indent |-> i, words |-> w]
        BY <2>2, <2>3
      <3> HIDE DEF now
      <3>2. [stream_[L] EXCEPT !.words = now] = [indent |-> i, words |-> now]
        BY <3>1
      <3>3. last = [stream_[L] EXCEPT !.words = now]
        BY DEF now
      <3>4. stream_'[k] = last
        BY <1>2, <2>3
      <3> QED BY <3>2, <3>3, <3>4
    <2>4. CASE k # L
      BY <1>2, <2>2, <2>4
    <2> QED BY <2>3, <2>4
  <1>6. \A k \in 1..Len(stream_') : \E i \in Nat : \E w : stream_'[k] = [indent |-> i, words |-> w]
    BY <1>3, <1>5
  <1>7. stream_' = [k \in 1..Len(stream_') |-> stream_'[k]] /\ Len(stream_') \in Nat
    BY <1>1, <1>3, <1>4
  <1> QED BY <1>6, <1>7 DEF LinesOK

\* No step takes a line's indentation away.
LEMMA LinesInductive == Spec => []LinesOK
PROOF
  <1>1. Init => LinesOK
    BY DEF Init, LinesOK
  <1>2. DepthInv /\ LinesOK /\ [Next]_printerVars => LinesOK'
    <2> SUFFICES ASSUME DepthInv, LinesOK, [Next]_printerVars PROVE LinesOK'
      OBVIOUS
    <2>0. depth_ \in Nat
      BY DEF DepthInv, VisitsOK
    <2>1. CASE VisitHeading
      BY <2>0, <2>1, LinePut DEF VisitHeading, PutLine
    <2>2. CASE VisitFor
      BY <2>0, <2>2, LinePut DEF VisitFor, PutLine
    <2>3. CASE VisitConstFactor
      BY <2>3, LineContinued DEF VisitConstFactor
    <2>4. CASE UNCHANGED stream_
      BY <2>4 DEF LinesOK
    <2> QED BY <2>1, <2>2, <2>3, <2>4
            DEF Next, Forward, DESCEND, Return, Finish, printerVars
  <1> QED BY <1>1, <1>2, DepthInvInductive, PTL DEF Spec

\* Whatever the tree, the visits are visits of its nodes, and every line of
\* the dump, one that a ConstFactor has continued too, is indented by a
\* natural number of levels: a size_t that has not wrapped around.
THEOREM DumpIsTyped == Spec => []TypeOK
PROOF
  <1>1. DepthInv /\ LinesOK => TypeOK
    <2> SUFFICES ASSUME LinesOK, NEW k \in DOMAIN stream_ PROVE stream_[k].indent \in Nat
      BY DEF TypeOK, DepthInv
    <2>1. k \in 1..Len(stream_)
      BY DEF LinesOK
    <2> QED BY <2>1 DEF LinesOK
  <1> QED BY <1>1, DepthInvInductive, LinesInductive, PTL
=============================================================================

-------------------------------- MODULE Ast --------------------------------
(***************************************************************************)
(* The abstract syntax tree of ast/*.hpp: what the parser builds and the   *)
(* visitors walk.  A node is a record whose "kind" is the enumerator (or   *)
(* class) the source gives it; a child is the value of a field, which is   *)
(* what a unique_ptr that nobody else holds amounts to.                    *)
(*                                                                         *)
(* Node is the set of all nodes that occur in the units under study.  It   *)
(* is a parameter, so that one theorem speaks of every program; the        *)
(* assumption AstShape is what the constructors of ast/*.hpp and the       *)
(* grammar of parser.y guarantee of every node.                            *)
(***************************************************************************)
EXTENDS Integers, Sequences

CONSTANTS
  Ident,       \* identifiers (the strings of the token "identifier")
  Node,        \* the nodes
  Units,       \* the compilation units
  MaxLiteral   \* INT_MAX, the largest literal make_number lets through

FactorKinds == {"String", "Number", "Bool", "Nil", "Designator", "Paren",
                "Negation", "FuncCall"}

ChainKinds == {"Expr", "SimpleExpr", "Term"}

\* The statements whose visit in the lowerer is an empty function body.
IgnoredKinds == {"If", "Case", "While", "Repeat", "For", "Memory", "Empty"}

StmtKinds == IgnoredKinds \cup {"Assignment", "ProcCall", "StmtSeq"}

DesignatorItemKinds == {"FieldAccess", "ArrayAccess", "PointerAccess"}

TypeKinds == {"Set", "Array", "Pointer", "Record", "Named"}

ConstKinds == {"ConstIdent", "ConstNumber", "ConstBool", "ConstNil", "ConstExpr"}

DeclKinds == {"ConstDef", "TypeDef", "VarDecl", "ProcDecl", "FuncDecl",
              "Declarations", "Block", "ProgramModule"}

AddOp   == {"Plus", "Minus", "Or"}
UnaryOp == {"Plus", "Minus"}
MultOp  == {"Multiply", "RealDiv", "IntDiv", "Modulo", "And"}
RelOp   == {"Equal", "NotEqual", "Less", "Greater", "LessEqual",
            "GreaterEqual", "In"}

\* An optional sign.
Sign == UnaryOp \cup {"None"}

Of(kinds) == {n \in Node : n.kind \in kinds}

Factor     == Of(FactorKinds)
Term       == Of({"Term"})
SimpleExpr == Of({"SimpleExpr"})
Expr       == Of({"Expr"})
Chain      == Of(ChainKinds)
Designator == Of({"Designator"})
DesignatorItem == Of(DesignatorItemKinds)
Stmt       == Of(StmtKinds)
StmtSeq    == Of({"StmtSeq"})
Type       == Of(TypeKinds)
ConstExpr  == Of({"ConstExpr"})
ConstFactor == Of(ConstKinds \ {"ConstExpr"})

FuncCall == [kind : {"FuncCall"}, func : Ident, params : Seq(Expr)]

IsFactor(n) ==
  \/ n \in [kind : {"Number"}, int : 0..MaxLiteral]
  \/ n \in [kind : {"Bool"}, bool : BOOLEAN]
  \/ n \in [kind : {"String"}, text : STRING]
  \/ n \in [kind : {"Nil"}]
  \/ n \in [kind : {"Designator"}, ident : Ident, items : Seq(DesignatorItem)]
  \/ n \in [kind : {"Paren"}, inner : Expr]
  \/ n \in [kind : {"Negation"}, inner : Factor]
  \/ n \in FuncCall

IsDesignatorItem(n) ==
  \/ n \in [kind : {"FieldAccess"}, field : Ident]
  \/ n \in [kind : {"ArrayAccess"}, exprs : Seq(Expr)]
  \/ n \in [kind : {"PointerAccess"}]

(***************************************************************************)
(* Term, SimpleExpr and Expr are the three levels of precedence: a first   *)
(* operand and a list of (operator, operand), in source order.  The        *)
(* optional relation of an Expr is a list of at most one.                  *)
(***************************************************************************)
IsChain(n) ==
  \/ n \in [kind : {"Term"}, start : Factor,
            ops : Seq([op : MultOp, rhs : Factor])]
  \/ n \in [kind : {"SimpleExpr"}, unary : Sign,
            start : Term, ops : Seq([op : AddOp, rhs : Term])]
  \/ /\ n \in [kind : {"Expr"}, start : SimpleExpr,
               ops : Seq([op : RelOp, rhs : SimpleExpr])]
     /\ Len(n.ops) <= 1

(***************************************************************************)
(* The else branch is a list of at most one statement.  A for statement    *)
(* has no field for its direction: the constructor drops its argument, and *)
(* what dir_ holds afterwards is indeterminate.                            *)
(***************************************************************************)
IsStmt(n) ==
  \/ n \in [kind : {"Assignment"}, target : Designator, expr : Expr]
  \/ n \in [kind : {"ProcCall"}, proc : Ident, params : Seq(Expr)]
  \/ n \in [kind : {"StmtSeq"}, stmts : Seq(Stmt) \ {<<>>}]
  \/ /\ n \in [kind : {"If"}, cond : Expr, then : Stmt, else : Seq(Stmt)]
     /\ Len(n.else) <= 1
  \/ n \in [kind : {"Case"}, expr : Expr,
            cases : Seq([labels : Seq(ConstExpr), stmt : Stmt])]
  \/ n \in [kind : {"While"}, cond : Expr, body : Stmt]
  \/ n \in [kind : {"Repeat"}, body : StmtSeq, cond : Expr]
  \/ n \in [kind : {"For"}, ident : Ident, start : Expr, finish : Expr, body : Stmt]
  \/ n \in [kind : {"Memory"}, op : {"New", "Dispose"}, ident : Ident]
  \/ n \in [kind : {"Empty"}]

ForStmt(ident, start, dir, finish, body) ==
  [kind |-> "For", ident |-> ident, start |-> start, finish |-> finish, body |-> body]

IsConstNode(n) ==
  \/ n \in [kind : {"ConstIdent"}, ident : Ident]
  \/ n \in [kind : {"ConstNumber"}, int : 0..MaxLiteral]
  \/ n \in [kind : {"ConstBool"}, bool : BOOLEAN]
  \/ n \in [kind : {"ConstNil"}]
  \/ n \in [kind : {"ConstExpr"}, unary : Sign, factor : ConstFactor]

Subrange == [start : ConstFactor, finish : ConstFactor]

FieldList == [idents : Seq(Ident) \ {<<>>}, type : Type]

IsType(n) ==
  \/ n \in [kind : {"Set"}, range : Subrange]
  \/ n \in [kind : {"Array"}, ranges : Seq(Subrange) \ {<<>>}, item : Type]
  \/ n \in [kind : {"Pointer"}, ref : Ident]
  \/ n \in [kind : {"Record"}, fields : Seq(FieldList) \ {<<>>}]
  \/ n \in [kind : {"Named"}, name : Ident]

(***************************************************************************)
(* Declarations.                                                           *)
(***************************************************************************)
ConstDef == Of({"ConstDef"})
TypeDef  == Of({"TypeDef"})
VarDecl  == Of({"VarDecl"})
ProcDecl == Of({"ProcDecl"})
SubprogDecl  == Of({"ProcDecl", "FuncDecl"})
DeclarationsNode == Of({"Declarations"})
Block == Of({"Block"})

FormalParam == [idents : Seq(Ident) \ {<<>>}, type : Ident]

ProcHeading == [name : Ident, params : Seq(FormalParam)]

ProgramModule == [kind : {"ProgramModule"}, name : Ident, block : Block]

IsDecl(n) ==
  \/ n \in ProgramModule
  \/ n \in [kind : {"Block"}, decls : DeclarationsNode, body : StmtSeq]
  \/ n \in [kind : {"Declarations"}, consts : Seq(ConstDef), types : Seq(TypeDef),
            vars : Seq(VarDecl), subprogs : Seq(SubprogDecl)]
  \/ n \in [kind : {"VarDecl"}, idents : Seq(Ident) \ {<<>>}, type : Type]
  \/ n \in [kind : {"ConstDef"}, ident : Ident, expr : ConstExpr]
  \/ n \in [kind : {"TypeDef"}, ident : Ident, type : Type]
  \/ n \in [kind : {"ProcDecl"}, heading : ProcHeading, block : Block]
  \/ n \in [kind : {"FuncDecl"}, proc : ProcDecl, ret : Ident]

IsNode(n) ==
  \/ n.kind \in FactorKinds /\ IsFactor(n)
  \/ n.kind \in ChainKinds /\ IsChain(n)
  \/ n.kind \in StmtKinds /\ IsStmt(n)
  \/ n.kind \in DesignatorItemKinds /\ IsDesignatorItem(n)
  \/ n.kind \in ConstKinds /\ IsConstNode(n)
  \/ n.kind \in TypeKinds /\ IsType(n)
  \/ n.kind \in DeclKinds /\ IsDecl(n)

\* The parts of a unit.
Constants(u) == u.block.decls.consts
TypeDefs(u)  == u.block.decls.types
VarDecls(u)  == u.block.decls.vars
Subprograms(u) == u.block.decls.subprogs
Body(u) == u.block.body

ASSUME AstShape ==
  /\ \A n \in Node : IsNode(n)
  /\ Units \subseteq Of({"ProgramModule"})
  /\ MaxLiteral \in Nat

(***************************************************************************)
(* A node is built from nodes that exist already and owns them, so that no *)
(* node is inside of itself: the nodes that the recursions over statements *)
(* and expressions descend to have a smaller height.                       *)
(***************************************************************************)
SubNodes(n) ==
  CASE n.kind \in {"Paren", "Negation"} -> {n.inner}
    [] n.kind \in ChainKinds   -> {n.start} \cup {n.ops[k].rhs : k \in DOMAIN n.ops}
    [] n.kind = "Assignment"   -> {n.expr}
    [] n.kind = "ProcCall"     -> {n.params[k] : k \in DOMAIN n.params}
    [] n.kind = "StmtSeq"      -> {n.stmts[k] : k \in DOMAIN n.stmts}
    [] OTHER -> {}

Height[n \in Node] ==
  LET heights == {Height[m] : m \in SubNodes(n)}
  IN IF heights = {} THEN 0 ELSE 1 + CHOOSE h \in heights : \A g \in heights : g <= h

ASSUME TreesAreFinite ==
  \A n \in Node : Height[n] \in Nat /\ \A m \in SubNodes(n) : Height[m] < Height[n]
=============================================================================

------------------------------ MODULE Language ------------------------------
(***************************************************************************)
(* The static side of what the compiler owes its user, said of the source  *)
(* program alone: which programs it accepts and what it says of the others *)
(* (Verdict), and the language it implements (Supported).                  *)
(***************************************************************************)
EXTENDS Ast

-----------------------------------------------------------------------------
(* Declarations.                                                           *)

BaseType == {"Integer", "Char", "String"}

Errors == {"NotImplemented", "SemanticProblem", "TypeClash"}

\* The pairs (declaration, position) of the names of a unit, and their order.
NamePlaces(u) == UNION {{d} \X DOMAIN VarDecls(u)[d].idents : d \in DOMAIN VarDecls(u)}

NameAt(u, p) == VarDecls(u)[p[1]].idents[p[2]]

Before(p, q) == p[1] < q[1] \/ (p[1] = q[1] /\ p[2] < q[2])

DeclaredNames(u) == {NameAt(u, p) : p \in NamePlaces(u)}

Duplicate(u, p) == \E q \in NamePlaces(u) : Before(q, p) /\ NameAt(u, q) = NameAt(u, p)

\* A type's name means the predefined type unless a variable took the name.
TypeProblem(u, d) ==
  LET type == VarDecls(u)[d].type
  IN IF type.kind # "Named" THEN "NotImplemented"
     ELSE IF \/ type.name \notin BaseType
             \/ \E p \in NamePlaces(u) : p[1] < d /\ NameAt(u, p) = type.name
     THEN "SemanticProblem"
     ELSE "ok"

\* The problems of the declarations, each with the place where it shows.
DeclProblems(u) ==
  {<<<<d, 0>>, TypeProblem(u, d)>> :
     d \in {e \in 1..Len(VarDecls(u)) : TypeProblem(u, e) # "ok"}}
  \cup {<<p, "SemanticProblem">> : p \in {q \in NamePlaces(u) : Duplicate(u, q)}}

FirstProblem(problems) ==
  (CHOOSE p \in problems : \A q \in problems : ~Before(q[1], p[1]))[2]

\* Meaningful when the declarations have no problem.
VarTypes(u) ==
  [x \in DeclaredNames(u) |->
     VarDecls(u)[(CHOOSE p \in NamePlaces(u) : NameAt(u, p) = x)[1]].type.name]

-----------------------------------------------------------------------------
(* The static semantics: the type of each expression, "ok" for a           *)
(* statement, or the first error met on the way from left to right.        *)

ResultOf(op, l, r) ==
  CASE op = "RealDiv"        -> "NotImplemented"
    [] op \in {"And", "Or"}  -> IF l = r /\ l = "Boolean" THEN "Boolean" ELSE "TypeClash"
    [] op \in RelOp          -> IF l = r THEN "Boolean" ELSE "TypeClash"
    [] OTHER                 -> IF l = r /\ l # "String" THEN l ELSE "TypeClash"

\* What an operator yields between a left and a right operand of these types.
Chained(op, left, right) ==
  IF left \in Errors THEN left
  ELSE IF op = "In" THEN "NotImplemented"
  ELSE IF right \in Errors THEN right
  ELSE ResultOf(op, left, right)

\* The type of the first operand, and of it with one operator more each.
OfChain(n, type) ==
  LET prefix[k \in 0..Len(n.ops)] ==
        IF k = 0 THEN type[n.start]
        ELSE Chained(n.ops[k].op, prefix[k - 1], type[n.ops[k].rhs])
  IN prefix

\* The argument of write_str is never looked at.
OfCall(n, type) ==
  IF n.proc \notin {"write_int", "write_str"} THEN "NotImplemented"
  ELSE IF Len(n.params) # 1 THEN "SemanticProblem"
  ELSE IF n.proc = "write_str" THEN "ok"
  ELSE IF type[n.params[1]] \in Errors THEN type[n.params[1]]
  ELSE IF type[n.params[1]] = "Integer" THEN "ok" ELSE "TypeClash"

Failing(n, type) == {k \in DOMAIN n.stmts : type[n.stmts[k]] # "ok"}

FirstFailing(n, type) ==
  CHOOSE k \in Failing(n, type) : \A j \in Failing(n, type) : k <= j

\* The type of a node, from those of the nodes inside it.
TypeOf(n, types, type) ==
  CASE n.kind = "Number" -> "Integer"
    [] n.kind = "Bool"   -> "Boolean"
    [] n.kind \in {"String", "Nil", "FuncCall"} -> "NotImplemented"
    [] n.kind = "Designator" ->
         IF n.ident \notin DOMAIN types THEN "SemanticProblem"
         ELSE IF n.items # <<>> THEN "NotImplemented" ELSE types[n.ident]
    [] n.kind = "Paren"    -> type[n.inner]
    [] n.kind = "Negation" ->
         IF type[n.inner] = "String" THEN "TypeClash" ELSE type[n.inner]
    [] n.kind \in ChainKinds -> OfChain(n, type)[Len(n.ops)]
    [] n.kind = "Assignment" ->
         IF type[n.expr] \in Errors THEN type[n.expr]
         ELSE IF n.target.ident \in DOMAIN types THEN "ok" ELSE "SemanticProblem"
    [] n.kind = "ProcCall" -> OfCall(n, type)
    [] n.kind = "StmtSeq" ->
         IF Failing(n, type) = {} THEN "ok" ELSE type[n.stmts[FirstFailing(n, type)]]
    [] OTHER -> "ok"

Static(types) == LET type[n \in Node] == TypeOf(n, types, type) IN type

Verdict(u) ==
  IF Constants(u) # <<>> \/ Subprograms(u) # <<>> THEN "NotImplemented"
  ELSE IF DeclProblems(u) # {} THEN FirstProblem(DeclProblems(u))
  ELSE Static(VarTypes(u))[Body(u)]

-----------------------------------------------------------------------------
(* The language implemented: integer variables and expressions, the copy   *)
(* of a variable of any type, write_int and blocks.                        *)

\* What a sequence has executed after each number of its statements.
OfSequence(n, effects) ==
  LET upto[k \in 0..Len(n.stmts)] ==
        IF k = 0 THEN <<>> ELSE upto[k - 1] \o effects[n.stmts[k]]
  IN upto

\* The statements executed when n is, one after another.
EffectsOf(n, effects) ==
  CASE n.kind = "StmtSeq" -> OfSequence(n, effects)[Len(n.stmts)]
    [] n.kind = "Empty"   -> <<>>
    [] OTHER              -> <<n>>

Effects == LET effects[n \in Stmt] == EffectsOf(n, effects) IN effects

Plain ==
  LET plain[n \in (Factor \cup Chain)] ==
        CASE n.kind \in {"Paren", "Negation"} -> plain[n.inner]
          [] n.kind \in ChainKinds ->
               /\ n.kind = "SimpleExpr" => n.unary # "Minus"
               /\ plain[n.start]
               /\ \A k \in DOMAIN n.ops : plain[n.ops[k].rhs]
          [] OTHER -> TRUE
  IN plain

SupportedStmt(n, types) ==
  \/ /\ n.kind = "Assignment"
     /\ n.target.items = <<>>
     /\ Plain[n.expr]
     /\ Static(types)[n.expr] = types[n.target.ident]
  \/ /\ n.kind = "ProcCall"
     /\ n.proc = "write_int"
     /\ Plain[n.params[1]]

Supported(u) ==
  /\ Verdict(u) = "ok"
  /\ \A k \in DOMAIN Effects[Body(u)] : SupportedStmt(Effects[Body(u)][k], VarTypes(u))

=============================================================================

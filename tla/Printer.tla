------------------------------ MODULE Printer ------------------------------
(***************************************************************************)
(* ast/visitors/printer.cpp: the walk that dumps the tree to a stream, one *)
(* line per node, indented by depth_.                                      *)
(*                                                                         *)
(* As in Lowerer the recursion is a call stack.  The macro DESCEND adds 1  *)
(* to depth_, makes a call and subtracts 1 again; a visit that only        *)
(* forwards (an Expr without a relation, a parenthesis) calls without it,  *)
(* so that depth_ and the height of the stack are different things.        *)
(***************************************************************************)
EXTENDS Ast, FiniteSets, SequencesExt, TLC

VARIABLES
  unit,    \* the compilation unit
  phase,   \* "printing", "printed", or "assert" when an assertion failed
  calls,   \* the active visits; next is the part that is visited next
  depth_,
  stream_  \* the lines, each with its indentation and its words

printerVars == <<unit, phase, calls, depth_, stream_>>

\* The line an operator of a SimpleExpr or Term has between its operands.
OpLine(op) == [kind |-> "OpLine", op |-> op]

\* The visits whose body is empty.
SilentKinds ==
  TypeKinds \cup {"ProcDecl", "FuncDecl", "Case", "Repeat", "Memory", "Empty",
                  "FieldAccess", "PointerAccess"}

\* The visits that forward to the only part they have.
Forwards(n) ==
  \/ n.kind = "Paren"
  \/ n.kind \in {"Term", "Expr"} /\ n.ops = <<>>
  \/ n.kind = "SimpleExpr" /\ n.ops = <<>> /\ n.unary = "None"

\* A slip: the operator after its operand.
InterleavedLate(ops) ==
  [k \in 1..2 * Len(ops) |->
     IF k % 2 = 1 THEN ops[(k + 1) \div 2].rhs ELSE OpLine(ops[k \div 2].op)]

\* The operators and the operands that follow the first one.
Interleaved(ops) ==
  [k \in 1..2 * Len(ops) |->
     IF k % 2 = 1 THEN OpLine(ops[(k + 1) \div 2].op) ELSE ops[k \div 2].rhs]

\* What a visit visits, in order.
Parts(n) ==
  CASE n.kind = "ProgramModule" -> <<n.block>>
    [] n.kind = "Block"         -> <<n.decls, n.body>>
    [] n.kind = "Declarations"  -> n.consts \o n.types \o n.vars \o n.subprogs
    [] n.kind = "ConstDef"      -> <<n.expr>>
    [] n.kind \in {"TypeDef", "VarDecl"}   -> <<n.type>>
    [] n.kind = "ConstExpr"     -> <<n.factor>>
    [] n.kind = "Assignment"    -> <<n.target, n.expr>>
    [] n.kind \in {"ProcCall", "FuncCall"} -> n.params
    [] n.kind = "StmtSeq"       -> n.stmts
    [] n.kind = "If"            -> <<n.cond, n.then>> \o n.else
    [] n.kind = "While"         -> <<n.cond, n.body>>
    [] n.kind = "For"           -> <<n.start, n.finish, n.body>>
    [] n.kind = "Designator"    -> n.items
    [] n.kind = "ArrayAccess"   -> n.exprs
    [] n.kind \in {"Paren", "Negation"}    -> <<n.inner>>
    [] n.kind = "Expr"          -> <<n.start>> \o [k \in DOMAIN n.ops |-> n.ops[k].rhs]
    [] n.kind \in {"SimpleExpr", "Term"}   -> <<n.start>> \o Interleaved(n.ops)
    [] OTHER                    -> <<>>

SignWords(sign) ==
  CASE sign = "None" -> <<>> [] sign = "Plus" -> <<"unary_op=plus">> [] sign = "Minus" -> <<"unary_op=minus">>

BoolWord(b) == IF b THEN "true" ELSE "false"

\* The words of a node's line.  An operator is shown by its enumerator.
Heading(n) ==
  CASE n.kind = "ProgramModule" -> <<"ProgramModule", n.name>>
    [] n.kind = "ConstDef"      -> <<"ConstDef", n.ident>>
    [] n.kind = "TypeDef"       -> <<"TypeDef", n.ident>>
    [] n.kind = "VarDecl"       -> <<"VarDecl">> \o n.idents
    [] n.kind = "ConstExpr"     -> <<"ConstExpr">> \o SignWords(n.unary)
    [] n.kind = "ConstIdent"    -> <<"ConstFactor identifier", n.ident>>
    [] n.kind = "ConstNumber"   -> <<"ConstFactor number", ToString(n.int)>>
    [] n.kind = "ConstBool"     -> <<"ConstFactor bool", BoolWord(n.bool)>>
    [] n.kind = "ConstNil"      -> <<"ConstFactor nil">>
    [] n.kind = "ProcCall"      -> <<"ProcCall", n.proc>>
    [] n.kind = "FuncCall"      -> <<"FuncCall", n.func>>
    [] n.kind = "Designator"    -> <<"Designator", n.ident>>
    [] n.kind = "Expr"          -> <<"Expr", n.ops[1].op>>
    [] n.kind = "SimpleExpr"    -> <<"SimpleExpr">> \o SignWords(n.unary)
    [] n.kind = "OpLine"        -> <<n.op>>
    [] n.kind = "Number"        -> <<"Factor number", ToString(n.int)>>
    [] n.kind = "Bool"          -> <<"Factor Bool", BoolWord(n.bool)>>
    [] n.kind = "String"        -> <<"Factor string", n.text>>
    [] n.kind = "Nil"           -> <<"Factor Nil">>
    [] n.kind = "Negation"      -> <<"Factor Not">>
    [] n.kind = "For"           -> <<"For", n.ident>>
    [] OTHER                    -> <<n.kind>>

-----------------------------------------------------------------------------
\* next = 0 until the visit's line is printed.
Visit(n) == [node |-> n, next |-> 0]

Top == calls[Len(calls)]

Visiting == phase = "printing" /\ calls # <<>>

\* How much the calls of a visit are indented.
Descent(n) == IF Forwards(n) THEN 0 ELSE 1

Init ==
  /\ unit \in Units
  /\ phase = "printing"
  /\ calls = <<Visit(unit)>>
  /\ depth_ = 0
  /\ stream_ = <<>>

Line(words) == [indent |-> depth_, words |-> words]

\* The active visits, the last one at its next part.
Advanced == [calls EXCEPT ![Len(calls)] = [node |-> Top.node, next |-> Top.next + 1]]

PutLine(words) ==
  /\ stream_' = Append(stream_, Line(words))
  /\ calls' = Advanced
  /\ UNCHANGED <<unit, phase, depth_>>

InHeading(n) ==
  n.kind \in SilentKinds \cup {"For"} \cup (ConstKinds \ {"ConstExpr"}) \/ Forwards(n)

VisitHeading ==
  /\ Visiting /\ Top.next = 0
  /\ ~InHeading(Top.node)
  /\ PutLine(Heading(Top.node))

\* dir_ was never initialized: the switch may take any of its branches.
VisitFor ==
  /\ Visiting /\ Top.next = 0
  /\ Top.node.kind = "For"
  /\ \/ \E dir \in {"To", "DownTo"} : PutLine(Heading(Top.node) \o <<dir>>)
     \/ /\ phase' = "assert"
        /\ stream_' = Append(stream_, Line(Heading(Top.node)))
        /\ UNCHANGED <<unit, calls, depth_>>

\* The line of the ConstExpr has not been ended.
VisitConstFactor ==
  /\ Visiting /\ Top.next = 0
  /\ Top.node.kind \in ConstKinds \ {"ConstExpr"}
  /\ stream_' = [stream_ EXCEPT ![Len(stream_)].words = @ \o Heading(Top.node)]
  /\ calls' = Advanced
  /\ UNCHANGED <<unit, phase, depth_>>

Forward ==
  /\ Visiting /\ Top.next = 0
  /\ Forwards(Top.node)
  /\ calls' = Advanced
  /\ UNCHANGED <<unit, phase, depth_, stream_>>

DESCEND ==
  /\ Visiting
  /\ Top.next \in DOMAIN Parts(Top.node)
  /\ depth_' = depth_ + Descent(Top.node)
  /\ calls' = Append(Advanced, Visit(Parts(Top.node)[Top.next]))
  /\ UNCHANGED <<unit, phase, stream_>>

Done(f) == f.node.kind \in SilentKinds \/ f.next > Len(Parts(f.node))

Caller == calls[Len(calls) - 1]

\* A slip: every return takes back an indentation.
ReturnAlways ==
  /\ Visiting
  /\ Len(calls) > 1
  /\ Done(Top)
  /\ depth_' = depth_ - 1
  /\ calls' = Front(calls)
  /\ UNCHANGED <<unit, phase, stream_>>

\* A slip: the depth is left where a visit has no body.
ReturnDeeper ==
  /\ Visiting
  /\ Len(calls) > 1
  /\ Done(Top)
  /\ depth_' = IF Top.node.kind \in SilentKinds THEN depth_ ELSE depth_ - Descent(Caller.node)
  /\ calls' = Front(calls)
  /\ UNCHANGED <<unit, phase, stream_>>

Return ==
  /\ Visiting
  /\ Len(calls) > 1
  /\ Done(Top)
  /\ depth_' = depth_ - Descent(Caller.node)
  /\ calls' = Front(calls)
  /\ UNCHANGED <<unit, phase, stream_>>

Finish ==
  /\ Visiting
  /\ Len(calls) = 1
  /\ Done(Top)
  /\ phase' = "printed"
  /\ calls' = <<>>
  /\ UNCHANGED <<unit, depth_, stream_>>

Next == VisitHeading \/ VisitFor \/ VisitConstFactor \/ Forward \/ DESCEND \/ Return \/ Finish

Spec == Init /\ [][Next]_printerVars

-----------------------------------------------------------------------------
(* Properties.                                                             *)

Part == Node \cup [kind : {"OpLine"}, op : AddOp \cup MultOp]

\* depth_ is a size_t: below zero it would be the length of a huge indentation.
VisitsOK ==
  /\ unit \in Units
  /\ phase \in {"printing", "printed", "assert"}
  /\ calls \in Seq([node : Part, next : Nat])
  /\ depth_ \in Nat

TypeOK ==
  /\ VisitsOK
  /\ \A k \in DOMAIN stream_ : stream_[k].indent \in Nat

\* The active visits that have called another one from inside of DESCEND.
Descended == {k \in DOMAIN calls : k < Len(calls) /\ ~Forwards(calls[k].node)}

\* However a visit ends, with or without a body, having forwarded or not,
\* depth_ is back at what it was: it is the nesting of the visits that are
\* active, and 0 when the walk is over.
DepthIsNesting == depth_ = Cardinality(Descended)

\* The assertion after the switch over the direction of a for statement
\* (printer.cpp, line 191) holds.
DirectionIsKnown == phase # "assert"
=============================================================================

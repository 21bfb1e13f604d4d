----------------------------- MODULE MCLowerer -----------------------------
(***************************************************************************)
(* The lowering of the units of Programs, and what the source says of      *)
(* them.                                                                   *)
(***************************************************************************)
EXTENDS Checking, Programs

\* i1, i8 and i32 keep their order of size; none is wide.
SmallHalf == [ty \in IntTypes |-> CASE ty = "i1" -> 1 [] ty = "i8" -> 2 [] ty = "i32" -> 8]

AllUnits == DeclUnits \cup StmtUnits \cup ExprUnits
AllTree  == NodesOfUnits(AllUnits)
ExprTree == NodesOfUnits(ExprUnits)
StmtTree == NodesOfUnits(StmtUnits)

\* The values of the constants.  TLC computes a definition such as AllTree
\* once, but what a .cfg substitutes for a constant at each of its uses.
AllNodes  == AllTree
ExprNodes == ExprTree
StmtNodes == StmtTree
AllPrograms  == AllUnits
ExprPrograms == ExprUnits
StmtPrograms == StmtUnits

-----------------------------------------------------------------------------
(* What comments and messages of the source say of the compiler and the    *)
(* code does not do.                                                       *)

\* A type section that names a predefined type anew, and a variable of it.
SynonymUnit ==
  Module(BlockOf(<<>>, <<Synonym("t", Named("Integer"))>>, <<Vars(<<"i">>, "t")>>, <<>>,
                 <<AssignTo(Id("i"), AsExpr(Num(1)))>>))

SynonymPrograms == {SynonymUnit}
SynonymTree     == NodesOfUnits({SynonymUnit})
SynonymNodes    == SynonymTree

IsSynonym(name) == \E k \in DOMAIN TypeDefs(cu) :
  TypeDefs(cu)[k].ident = name /\ TypeDefs(cu)[k].type.kind = "Named"
                           /\ TypeDefs(cu)[k].type.name \in TypeKind

\* A declaration whose type is a synonym of a predefined type is accepted
\* (comment on TypeKind in lowerer.hpp: synonyms are expanded).
SynonymsAreExpanded ==
  stage = "SemanticProblem" =>
    \E d \in DOMAIN VarDecls(cu) : VarDecls(cu)[d].type.kind = "Named"
      /\ VarDecls(cu)[d].type.name \notin TypeKind /\ ~IsSynonym(VarDecls(cu)[d].type.name)

CallsIn(stmts) == {k \in DOMAIN stmts : stmts[k].kind = "ProcCall"}

\* In a unit that was lowered every procedure call is a call of write_int: the
\* message of visit(ProcCall) says that no other is supported.
OnlyWriteIntIsCalled ==
  stage = "lowered" =>
    \A k \in CallsIn(Effects[Body(cu)]) : Effects[Body(cu)][k].proc = "write_int"
=============================================================================

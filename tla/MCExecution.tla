---------------------------- MODULE MCExecution ----------------------------
(***************************************************************************)
(* Compiling and running the units of Programs, and their meaning as       *)
(* Pascal programs.                                                        *)
(***************************************************************************)
EXTENDS Execution, Programs

SmallHalf == [ty \in IntTypes |-> CASE ty = "i1" -> 1 [] ty = "i8" -> 2 [] ty = "i32" -> 8]

\* Integer programs, and programs that are refused.
SourceUnits ==
  IntUnits
  \cup {Program(AllVars, <<WriteInt(AsExpr(Num(1))), s>>) :
          s \in {Call("other", <<>>), WriteInt(AsExpr(Truth(TRUE))),
                 AssignTo(Id("q"), AsExpr(Num(1)))}}
  \cup {Module(BlockOf(<<AConstant>>, <<>>, <<>>, <<>>, <<Nothing>>))}

SourceTree == NodesOfUnits(SourceUnits)
AnyUnits   == StmtUnits \cup ExprUnits
AnyTree    == NodesOfUnits(AnyUnits)

\* The values of the constants (see MCLowerer).
SourceNodes    == SourceTree
SourcePrograms == SourceUnits
AnyNodes       == AnyTree
AnyPrograms    == AnyUnits
=============================================================================

------------------------------ MODULE Checking ------------------------------
(***************************************************************************)
(* No pass of the compiler checks types: the lowering finds the errors on  *)
(* its way.  Here it is set against the static semantics of the language.  *)
(***************************************************************************)
EXTENDS Lowerer, Language

\* How the constructor ended, in the words of the static semantics.
VerdictShown ==
  CASE stage = "lowered" -> "ok" [] stage = "assert" -> "TypeClash" [] OTHER -> stage

\* Where types clash LLVM aborts, if it has assertions; without them it builds
\* the instruction nevertheless.
ClashesShow == LlvmAsserts \/ Verdict(cu) # "TypeClash"

\* The walk ends the way the static semantics of the source says: it accepts
\* what has no error, and otherwise throws the exception of the first error in
\* source order, with the one of an "in" before and the one of a "/" after
\* those of their right operands.  An LLVM without assertions misses the clashes
\* of types, and no other error.
VerdictAsSpecified ==
  stage \in Terminal /\ ClashesShow => VerdictShown = Verdict(cu)
=============================================================================

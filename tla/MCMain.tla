------------------------------- MODULE MCMain -------------------------------
(***************************************************************************)
(* The command lines of up to MaxArgs arguments.                           *)
(***************************************************************************)
EXTENDS Main

CONSTANT MaxArgs

MCFile == {"-", "a"}

MCArgs == UNION {[1..n -> MCFile \cup Option] : n \in 0..MaxArgs}
=============================================================================

----------------------------- MODULE Execution -----------------------------
(***************************************************************************)
(* main.cpp from the construction of the Lowerer on: the module is handed  *)
(* over, printed, and its main is run by LLVM's interpreter, with the      *)
(* write_int of stdlib.cpp.  An exception of the Lowerer is printed and    *)
(* rethrown, so the process aborts.                                        *)
(***************************************************************************)
EXTENDS Lowerer, SequencesExt, FiniteSets

VARIABLES
  process,  \* "compiling", "running", "exited" (status 0) or "aborted"
  regs,     \* the result of each instruction executed so far
  mem,      \* what each slot holds; a slot is named by its alloca's number
  out       \* what write_int printed

execVars == <<process, regs, mem, out>>

allVars == <<vars, execVars>>

ExecInit ==
  /\ Init
  /\ process = "compiling"
  /\ regs = <<>>
  /\ mem = [s \in {} |-> Undef]
  /\ out = <<>>

Compile ==
  /\ process = "compiling"
  /\ Next
  /\ UNCHANGED execVars

\* catch (...) { ...; throw; }, and an assertion of LLVM.
Abort ==
  /\ process = "compiling"
  /\ stage \in Terminal \ {"lowered"}
  /\ process' = "aborted"
  /\ UNCHANGED <<vars, regs, mem, out>>

RunFunction ==
  /\ process = "compiling"
  /\ stage = "lowered"
  /\ process' = "running"
  /\ UNCHANGED <<vars, regs, mem, out>>

-----------------------------------------------------------------------------
(* The interpreter.                                                        *)

Instruction == ir[Len(regs) + 1]

Executing(ops) ==
  /\ process = "running"
  /\ Len(regs) < Len(ir)
  /\ Instruction.op \in ops
  /\ UNCHANGED vars

ValueOf(o) == IF IsConst(o) THEN o.val ELSE regs[o.reg]

Completes(v) ==
  /\ regs' = Append(regs, v)
  /\ UNCHANGED process

\* A slip: a slot gets the number of the instruction before.
NewSlotBefore == Len(regs)

NewSlot == Len(regs) + 1

ExecAlloca ==
  /\ Executing({"alloca"})
  /\ mem' = [s \in DOMAIN mem \cup {NewSlot} |->
               IF s \in DOMAIN mem THEN mem[s] ELSE Undef]
  /\ Completes(NewSlot)
  /\ UNCHANGED out

ExecLoad ==
  /\ Executing({"load"})
  /\ Completes(mem[ValueOf(Instruction.args[1])])
  /\ UNCHANGED <<mem, out>>

Bytes(ty) == CASE ty = "i1" -> 1 [] ty = "i8" -> 1 [] ty = "i32" -> 4 [] ty = "ptr" -> 8

(***************************************************************************)
(* A store writes as many bytes as its value has.  Fewer than the slot has *)
(* leave a mixture of old and new; more run over what lies behind it.      *)
(***************************************************************************)
Stored(slot, ty, v) ==
  IF ty = ir[slot].ty THEN [mem EXCEPT ![slot] = v]
  ELSE IF Bytes(ty) <= Bytes(ir[slot].ty) THEN [mem EXCEPT ![slot] = Undef]
  ELSE [s \in DOMAIN mem |-> Undef]

ExecStore ==
  /\ Executing({"store"})
  /\ LET value == Instruction.args[1]
     IN mem' = Stored(ValueOf(Instruction.args[2]), value.ty, ValueOf(value))
  /\ Completes(Undef)
  /\ UNCHANGED out

\* printf("%d", (int) getZExtValue()): narrow values print as unsigned.
Printed(ty, v) ==
  IF v = Undef \/ ty = "ptr" THEN Undef
  ELSE IF ty = "i32" THEN v ELSE v % (2 * Half[ty])

lle_X_write_int ==
  /\ Executing({"call"})
  /\ LET arg == Instruction.args[1]
     IN out' = Append(out, Printed(arg.ty, ValueOf(arg)))
  /\ Completes(Undef)
  /\ UNCHANGED mem

Result ==
  IF WellTyped(Instruction.op, Instruction.args)
  THEN Apply(Instruction.op, Instruction.args[1].ty,
             [k \in DOMAIN Instruction.args |-> ValueOf(Instruction.args[k])])
  ELSE Undef

ExecPure ==
  /\ Executing(PureOps)
  /\ Completes(Result)
  /\ UNCHANGED <<mem, out>>

\* A division that determines nothing may stop the process instead.
Trap ==
  /\ Executing(DivOps)
  /\ Result = Undef
  /\ process' = "aborted"
  /\ UNCHANGED <<regs, mem, out>>

ExecRet ==
  /\ Executing({"ret"})
  /\ process' = "exited"
  /\ regs' = Append(regs, Undef)
  /\ UNCHANGED <<mem, out>>

Run ==
  \/ ExecAlloca \/ ExecLoad \/ ExecStore \/ lle_X_write_int
  \/ ExecPure \/ Trap \/ ExecRet

ExecNext == Compile \/ Abort \/ RunFunction \/ Run

\* One thread runs main from beginning to end.
ExecSpec == ExecInit /\ [][ExecNext]_allVars /\ WF_allVars(ExecNext)

-----------------------------------------------------------------------------
(***************************************************************************)
(* The mapping to the source program.  A store or a call executed is a     *)
(* statement executed, and a variable's value is what its slot holds.      *)
(***************************************************************************)
Executed(ops) == {k \in 1..Len(regs) : ir[k].op \in ops}

SourceStatus ==
  CASE process = "compiling" -> "submitted"
    [] process = "running"   -> "running"
    [] process = "exited"    -> "ended"
    [] process = "aborted"   -> IF stage = "lowered" THEN "failed" ELSE "refused"

SourceNames == UNION {ToSet(VarDecls(cu)[d].idents) : d \in DOMAIN VarDecls(cu)}

\* Nothing is stored before the slots are made.
SourceEnv ==
  [x \in SourceNames |->
     IF IsVariable(x) /\ lookup_decl(x).alloc \in DOMAIN mem
     THEN mem[lookup_decl(x).alloc] ELSE Undef]

Source == INSTANCE Pascal WITH
            MaxInt <- Half["i32"] - 1, Unknown <- Undef,
            unit <- cu, status <- SourceStatus,
            pos <- Cardinality(Executed({"store", "call"})),
            env <- SourceEnv, out <- out

-----------------------------------------------------------------------------
(* Properties.                                                             *)

\* The interpreter's state has the values it can have, and its memory exactly
\* the slots whose alloca has been executed.
ExecTypeOK ==
  /\ process \in {"compiling", "running", "exited", "aborted"}
  /\ regs \in Seq(Value) /\ Len(regs) <= Len(ir)
  /\ mem \in [Executed({"alloca"}) -> Value]
  /\ out \in Seq(Value)

\* Whatever was compiled, type-correct or not: no instruction is executed
\* before those whose results it needs, and every load and store goes to a slot
\* that exists.
OperandsReady ==
  process = "running" /\ Len(regs) < Len(ir) =>
    /\ \A a \in DOMAIN Instruction.args : Instruction.args[a].reg <= Len(regs)
    /\ Instruction.op = "load"  => ValueOf(Instruction.args[1]) \in DOMAIN mem
    /\ Instruction.op = "store" => ValueOf(Instruction.args[2]) \in DOMAIN mem

\* The process ends: main returns, or the process aborts.
ProcessEnds == <>(process \in {"exited", "aborted"})

\* A program of the language implemented runs as the source says, statement by
\* statement: each assignment changes its variable to the value of its
\* expression and no other, write_int prints, the process ends when the
\* statements do, and it fails only where the source determines no value.
ImplementsPascal == Source!Spec

\* The programs the source semantics speaks of: those of the language
\* implemented, and those with an error that the build can see.
InLanguage ==
  /\ Source!Verdict(cu) = "ok" => Source!Supported(cu)
  /\ LlvmAsserts \/ Source!Verdict(cu) # "TypeClash"

\* The same but for its end, of whatever can be written: as long as the process
\* runs a program of the language, all it does is what that program may do next,
\* or nothing that the program knows of.
RunsAsWritten == Source!Init /\ [][InLanguage => Source!Next]_(Source!srcVars)
=============================================================================

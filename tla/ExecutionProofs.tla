-------------------------- MODULE ExecutionProofs --------------------------
(***************************************************************************)
(* Theorems of Execution: what runs is well-formed, whatever was compiled; *)
(* and a program of the language implemented runs as the source says.      *)
(***************************************************************************)
EXTENDS Execution, VerdictProofs

(***************************************************************************)
(* Two facts more than Lowerer's invariant and the types.  Each            *)
(* instruction has the operands its operation takes, so that the           *)
(* interpreter finds the ones it reads; and what an executed alloca has    *)
(* left in its register is the slot it made.                               *)
(***************************************************************************)
ArgCount(op) ==
  IF op = "alloca" THEN 0
  ELSE IF op \in {"load", "call", "ret"} THEN 1
  ELSE IF op = "select" THEN 3 ELSE 2

ArgsComplete == \A k \in DOMAIN ir : Len(ir[k].args) = ArgCount(ir[k].op)

SlotsNamed == \A k \in 1..Len(regs) : ir[k].op = "alloca" => regs[k] = k

ExecInv ==
  /\ IInv /\ ArgsComplete
  /\ ExecTypeOK /\ SlotsNamed
  /\ process = "compiling" => regs = <<>>

-----------------------------------------------------------------------------
(***************************************************************************)
(* The compiler emits complete instructions.                               *)
(***************************************************************************)
Complete(i) == Len(i.args) = ArgCount(i.op)

\* Of the emitted instruction only its operation and the number of its
\* operands matter here.
LEMMA EmitComplete ==
  ASSUME NEW op, NEW ty, NEW args, Len(args) = ArgCount(op), ir' = Emit(op, ty, args)
  PROVE  \E i : ir' = Append(ir, i) /\ Complete(i)
PROOF
  <1> DEFINE i == [op |-> op, ty |-> ty, args |-> args]
  <1>1. ir' = Append(ir, i) /\ i.op = op /\ i.args = args
    BY DEF Emit
  <1> QED BY <1>1 DEF Complete

\* A built operation has two operands, or three when it is a select.
LEMMA BuiltComplete ==
  ASSUME NEW op \in PureOps, NEW args, Len(args) = ArgCount(op), ir' = BuiltIr(op, args)
  PROVE  ir' = ir \/ \E i : ir' = Append(ir, i) /\ Complete(i)
PROOF
  <1>1. CASE AllConst(args)
    BY <1>1 DEF BuiltIr
  <1>2. CASE ~AllConst(args)
    <2>1. ir' = Emit(op, BuiltType(op, args), args)
      BY <1>2 DEF BuiltIr
    <2> QED BY <2>1, EmitComplete
  <1> QED BY <1>1, <1>2

\* The operands of an operator are as many as its instruction takes.
LEMMA OperandsComplete ==
  ASSUME NEW op \in MultOp \cup AddOp \cup RelOp, op \notin {"In", "RealDiv"},
         NEW l, NEW r
  PROVE  /\ Opcode(op) \in PureOps
         /\ Len(Operands(op, l, r)) = ArgCount(Opcode(op))
PROOF
  <1>1. CASE op = "And"
    <2>1. Opcode(op) = "select" /\ Operands(op, l, r) = <<l, r, Const(r.ty, 0)>>
      BY <1>1, Zenon DEF Opcode, Operands
    <2> QED BY <2>1 DEF ArgCount, PureOps
  <1>2. CASE op = "Or"
    <2>1. Opcode(op) = "select" /\ Operands(op, l, r) = <<l, Const(r.ty, -1), r>>
      BY <1>2, Zenon DEF Opcode, Operands
    <2> QED BY <2>1 DEF ArgCount, PureOps
  <1>3. CASE op \notin {"And", "Or"}
    <2>1. Operands(op, l, r) = <<l, r>>
      BY <1>3 DEF Operands
    <2>2. Opcode(op) \in ArithOps \cup CmpOps
      BY <1>3 DEF Opcode, MultOp, AddOp, RelOp, ArithOps, CmpOps, DivOps
    <2> QED BY <2>1, <2>2 DEF ArgCount, PureOps, ArithOps, CmpOps, DivOps
  <1> QED BY <1>1, <1>2, <1>3

\* A step of the compiler appends nothing, or one complete instruction.
LEMMA StepComplete ==
  ASSUME IInv, [Next]_vars
  PROVE  ir' = ir \/ \E i : ir' = Append(ir, i) /\ Complete(i)
PROOF
  <1>1. CASE Declarations
    <2>1. ir' = ir \/ ir' = Emit("alloca", LlvmType(decl.type), <<>>)
      BY <1>1, Zenon DEF Declarations, RejectBlock, StartMain, ResolveType, RejectName,
                         DeclareName, StartBody, Throw
    <2> QED BY <2>1, EmitComplete DEF ArgCount
  <1>2. CASE Statements
    <2>1. \/ ir' = ir
          \/ \E x : ir' = Emit("store", "void", <<ret, SlotOf(x)>>)
          \/ ir' = Emit("call", "void", <<ret>>)
          \/ ir' = Emit("ret", "void", <<Const("i32", 0)>>)
      BY <1>2, Zenon DEF Statements, VisitStmtSeq, VisitIgnored, AssignmentEval,
           AssignmentStore, ProcCallEval, ProcCallReject, ProcCallEmit, VisitWriteStr,
           Finish, Throw, Return, KeepWalk
    <2>2. ASSUME NEW x, ir' = Emit("store", "void", <<ret, SlotOf(x)>>)
          PROVE  \E i : ir' = Append(ir, i) /\ Complete(i)
      BY <2>2, EmitComplete DEF ArgCount
    <2>3. ASSUME ir' = Emit("call", "void", <<ret>>)
          PROVE  \E i : ir' = Append(ir, i) /\ Complete(i)
      BY <2>3, EmitComplete DEF ArgCount
    <2>4. ASSUME ir' = Emit("ret", "void", <<Const("i32", 0)>>)
          PROVE  \E i : ir' = Append(ir, i) /\ Complete(i)
      BY <2>4, EmitComplete DEF ArgCount
    <2> QED BY <2>1, <2>2, <2>3, <2>4
  <1>3. CASE Factors
    <2>1. \/ ir' = ir
          \/ \E ty, x : ir' = Emit("load", ty, <<SlotOf(x)>>)
          \/ ir' = BuiltIr("xor", <<ret, Const(ret.ty, -1)>>)
      BY <1>3, Zenon DEF Factors, EvalNumber, EvalBool, EvalUnsupported, EvalDesignator,
           CallInner, EvalParen, EvalNegation, ReturnBuilt, Throw, Return, KeepWalk
    <2>2. ASSUME NEW ty, NEW x, ir' = Emit("load", ty, <<SlotOf(x)>>)
          PROVE  \E i : ir' = Append(ir, i) /\ Complete(i)
      BY <2>2, EmitComplete DEF ArgCount
    <2>3. Len(<<ret, Const(ret.ty, -1)>>) = ArgCount("xor") /\ "xor" \in PureOps
      BY DEF ArgCount, PureOps, ArithOps
    <2> QED BY <2>1, <2>2, <2>3, BuiltComplete
  <1>4. CASE Chains
    <2>1. CASE TakeRhs
      <3> DEFINE op   == Top.node.ops[Top.next - 1].op
                 args == Operands(op, Top.acc, ret)
      <3>1. ir' = ir \/ (op # "RealDiv" /\ ir' = BuiltIr(Opcode(op), args))
        BY <2>1, Zenon DEF TakeRhs, Throw
      <3>2. op \in MultOp \cup AddOp \cup RelOp /\ op # "In"
        <4>1. frames # <<>> /\ Top.node.kind \in ChainKinds /\ Top.next > 1
          BY <2>1 DEF TakeRhs, At
        <4>2. Top.next - 1 \in 1..Len(Top.node.ops) /\ op # "In"
          BY <4>1, TopFacts, ChainNodes DEF HoldsLeft
        <4> QED BY <4>1, <4>2, TopFacts, ChainNodes
      <3> HIDE DEF op
      <3>3. op # "RealDiv" => /\ Opcode(op) \in PureOps
                              /\ Len(args) = ArgCount(Opcode(op))
        BY <3>2, OperandsComplete
      <3> HIDE DEF args
      <3> QED BY <3>1, <3>3, BuiltComplete
    <2>2. CASE ~TakeRhs
      <3>1. ir' = ir
        BY <1>4, <2>2, Zenon DEF Chains, CallStart, TakeStart, CallRhs, ChainReturn,
             Throw, Return, KeepWalk
      <3> QED BY <3>1
    <2> QED BY <2>1, <2>2
  <1>5. CASE UNCHANGED vars
    BY <1>5 DEF vars
  <1> QED BY <1>1, <1>2, <1>3, <1>4, <1>5 DEF Next

\* So the code stays complete.
LEMMA CodeStaysComplete ==
  ASSUME IInv, IInv', ArgsComplete, [Next]_vars
  PROVE  ArgsComplete'
PROOF
  <1>1. CASE ir' = ir
    BY <1>1 DEF ArgsComplete
  <1>2. CASE \E i : ir' = Append(ir, i) /\ Complete(i)
    <2>1. PICK i : ir' = Append(ir, i) /\ Complete(i)
      BY <1>2
    <2>2. ir \in Seq(Instr) /\ ir' \in Seq(Instr)
      BY DEF IInv, TypeOK
    <2>3. Len(ir') = Len(ir) + 1 /\ ir'[Len(ir) + 1] = i
          /\ \A k \in 1..Len(ir) : ir'[k] = ir[k]
      BY <2>1, <2>2
    <2>4. DOMAIN ir' = 1..Len(ir) + 1 /\ DOMAIN ir = 1..Len(ir)
      BY <2>2, <2>3
    <2> QED BY <2>1, <2>2, <2>3, <2>4 DEF ArgsComplete, Complete
  <1> QED BY <1>1, <1>2, StepComplete

-----------------------------------------------------------------------------
(***************************************************************************)
(* The next instruction finds what it needs.                               *)
(***************************************************************************)

\* The slot that x owns, once its alloca has been executed.
LEMMA SlotIsThere ==
  ASSUME ExecInv, NEW x \in Variables, NEW o \in Operand,
         o.reg = InnerScope[x].alloc, o.reg <= Len(regs)
  PROVE  ValueOf(o) \in DOMAIN mem
PROOF
  <1>1. o.reg \in DOMAIN ir /\ ir[o.reg].op = "alloca"
    BY DEF ExecInv, IInv, AccessesGoToSlots
  <1>2. ir \in Seq(Instr) /\ regs \in Seq(Value) /\ Len(regs) \in Nat
    BY DEF ExecInv, IInv, TypeOK, ExecTypeOK
  <1>3. o.reg \in 1..Len(regs)
    BY <1>1, <1>2
  <1>4. regs[o.reg] = o.reg
    BY <1>1, <1>3 DEF ExecInv, SlotsNamed
  <1>5. ValueOf(o) = o.reg
    BY <1>3, <1>4 DEF ValueOf, IsConst
  <1>6. DOMAIN mem = Executed({"alloca"})
    BY DEF ExecInv, ExecTypeOK
  <1> QED BY <1>1, <1>3, <1>5, <1>6 DEF Executed

\* The operands of the next instruction are all there, and are computed.
LEMMA InstructionFacts ==
  ASSUME ExecInv, Len(regs) < Len(ir)
  PROVE  /\ Len(regs) \in Nat /\ Len(regs) + 1 \in DOMAIN ir
         /\ Instruction \in Instr
         /\ DOMAIN Instruction.args = 1..ArgCount(Instruction.op)
         /\ \A a \in DOMAIN Instruction.args :
              /\ Instruction.args[a] \in Operand
              /\ Instruction.args[a].reg <= Len(regs)
              /\ ValueOf(Instruction.args[a]) \in Value
         /\ Instruction.op = "load"  => ValueOf(Instruction.args[1]) \in DOMAIN mem
         /\ Instruction.op = "store" => ValueOf(Instruction.args[2]) \in DOMAIN mem
PROOF
  <1>1. ir \in Seq(Instr) /\ regs \in Seq(Value)
    BY DEF ExecInv, IInv, TypeOK, ExecTypeOK
  <1>2. Len(regs) \in Nat /\ Len(regs) + 1 \in DOMAIN ir /\ Instruction \in Instr
    BY <1>1 DEF Instruction
  <1>3. Instruction.args \in Seq(Operand)
    BY <1>2 DEF Instr
  <1>4. DOMAIN Instruction.args = 1..ArgCount(Instruction.op)
    <2>1. Len(Instruction.args) = ArgCount(Instruction.op)
      BY <1>2 DEF ExecInv, ArgsComplete, Instruction
    <2> QED BY <1>3, <2>1
  <1>5. ASSUME NEW a \in DOMAIN Instruction.args
        PROVE  /\ Instruction.args[a] \in Operand
               /\ Instruction.args[a].reg <= Len(regs)
               /\ ValueOf(Instruction.args[a]) \in Value
    <2> DEFINE o == Instruction.args[a]
    <2>1. o \in Operand
      BY <1>3, <1>5
    <2>2. Computed(o, Len(regs))
      <3>1. Computed(o, Len(regs) + 1 - 1)
        BY <1>2, <1>5 DEF ExecInv, IInv, ValuesComputedBeforeUse, Instruction
      <3>2. Len(regs) + 1 - 1 = Len(regs)
        BY <1>2
      <3> QED BY <3>1, <3>2
    <2>3. o.reg \in Nat /\ o.val \in Value
      BY <2>1 DEF Operand
    <2> HIDE DEF o
    <2>4. o.reg <= Len(regs)
      BY <1>2, <2>2, <2>3 DEF Computed, IsConst
    <2>5. ValueOf(o) \in Value
      BY <1>1, <1>2, <2>3, <2>4 DEF ValueOf, IsConst
    <2> QED BY <2>1, <2>4, <2>5 DEF o
  <1>6. ASSUME Instruction.op = "load"
        PROVE  ValueOf(Instruction.args[1]) \in DOMAIN mem
    <2>1. 1 \in DOMAIN Instruction.args
      BY <1>4, <1>6 DEF ArgCount
    <2>2. PICK x \in Variables : Instruction.args[1].reg = InnerScope[x].alloc
      BY <1>2, <1>6 DEF ExecInv, IInv, AccessesGoToSlots, Instruction
    <2> QED BY <1>5, <2>1, <2>2, SlotIsThere
  <1>7. ASSUME Instruction.op = "store"
        PROVE  ValueOf(Instruction.args[2]) \in DOMAIN mem
    <2>1. 2 \in DOMAIN Instruction.args
      BY <1>4, <1>7 DEF ArgCount
    <2>2. PICK x \in Variables : Instruction.args[2].reg = InnerScope[x].alloc
      BY <1>2, <1>7 DEF ExecInv, IInv, AccessesGoToSlots, Instruction
    <2> QED BY <1>5, <2>1, <2>2, SlotIsThere
  <1> QED BY <1>2, <1>4, <1>5, <1>6, <1>7

\* What the next instruction computes or prints is a value.
LEMMA ResultIsValue ==
  ASSUME ExecInv, Len(regs) < Len(ir), Instruction.op \in PureOps
  PROVE  Result \in Value
PROOF
  <1> DEFINE op   == Instruction.op
             args == Instruction.args
             vals == [k \in DOMAIN args |-> ValueOf(args[k])]
  <1>1. args \in Args(op)
    <2>1. /\ args \in Seq(Operand)
          /\ DOMAIN args = 1..ArgCount(op) /\ \A a \in DOMAIN args : args[a] \in Operand
      BY InstructionFacts DEF Instr
    <2>2. ArgCount(op) = IF op = "select" THEN 3 ELSE 2
      BY DEF ArgCount, PureOps, ArithOps, CmpOps, DivOps
    <2> HIDE DEF op, args
    <2>3. args \in [1..ArgCount(op) -> Operand]
      BY <2>1
    <2> QED BY <2>2, <2>3 DEF Args
  <1>2. \A k \in DOMAIN args : vals[k] \in Value
    BY InstructionFacts
  <1>3. CASE WellTyped(op, args)
    <2>1. Result = Apply(op, args[1].ty, vals)
      BY <1>3 DEF Result
    <2> HIDE DEF op, args, vals
    <2>2. op \in PureOps
      BY DEF op
    <2> QED BY <1>1, <1>2, <1>3, <2>1, <2>2, ApplyIsValue
  <1>4. CASE ~WellTyped(op, args)
    BY <1>4 DEF Result, Value
  <1> QED BY <1>3, <1>4

\* So is what write_int prints.
LEMMA PrintedIsValue ==
  ASSUME NEW ty \in Types, NEW v \in Value
  PROVE  Printed(ty, v) \in Value
PROOF
  <1>1. CASE v = Undef \/ ty = "ptr" \/ ty = "i32"
    BY <1>1 DEF Printed, Value
  <1>2. CASE v # Undef /\ ty # "ptr" /\ ty # "i32"
    <2>1. v \in Int /\ ty \in IntTypes
      BY <1>2 DEF Value, Types
    <2>2. 2 * Half[ty] \in Nat \ {0}
      BY <2>1, IrAssumption
    <2> DEFINE m == 2 * Half[ty]
    <2> HIDE DEF m
    <2>3. m \in Int /\ m > 0
      BY <2>2 DEF m
    <2>4. v % m \in Int
      BY <2>1, <2>3
    <2> QED BY <1>2, <2>4 DEF Printed, Value, m
  <1> QED BY <1>1, <1>2

-----------------------------------------------------------------------------
(***************************************************************************)
(* The steps.                                                              *)
(***************************************************************************)

\* A step that leaves the code and the interpreter's state alone.
LEMMA OutsideStep ==
  ASSUME ExecInv, UNCHANGED <<vars, regs, mem, out>>,
         process' \in {"running", "exited", "aborted"} \/ process' = process
  PROVE  ExecInv'
PROOF
  <1>1. IInv'
    <2>1. [Next]_vars
      OBVIOUS
    <2> QED BY <2>1, NextIInv DEF ExecInv
  <1>2. ir' = ir /\ UNCHANGED <<regs, mem, out>>
    BY DEF vars
  <1>3. Executed({"alloca"})' = Executed({"alloca"})
    BY <1>2 DEF Executed
  <1>4. ArgsComplete' /\ SlotsNamed'
    BY <1>2 DEF ExecInv, ArgsComplete, SlotsNamed
  <1> QED BY <1>1, <1>2, <1>3, <1>4 DEF ExecInv, ExecTypeOK

\* What an instruction that completes leaves to be shown: the value it leaves
\* in its register, and the memory and the output after it.
LEMMA CompletesStep ==
  ASSUME ExecInv, process = "running", Len(regs) < Len(ir), UNCHANGED vars,
         NEW v \in Value, regs' = Append(regs, v),
         Instruction.op = "alloca" => v = Len(regs) + 1,
         process' \in {"running", "exited"},
         mem' \in [DOMAIN mem \cup {k \in {Len(regs) + 1} : Instruction.op = "alloca"} -> Value],
         out' \in Seq(Value)
  PROVE  ExecInv'
PROOF
  <1>1. IInv'
    <2>1. UNCHANGED <<cu, stage, decl, pascal_scopes, functions, ir, frames, ret>>
      BY DEF vars
    <2>2. [Next]_vars
      OBVIOUS
    <2> QED BY <2>2, NextIInv DEF ExecInv
  <1>2. ir' = ir
    BY DEF vars
  <1>3. ArgsComplete'
    BY <1>2 DEF ExecInv, ArgsComplete
  <1>4. /\ regs \in Seq(Value) /\ Len(regs) \in Nat /\ Len(ir) \in Nat
        /\ regs' \in Seq(Value) /\ Len(regs') = Len(regs) + 1
        /\ regs'[Len(regs) + 1] = v /\ \A k \in 1..Len(regs) : regs'[k] = regs[k]
    BY AppendFacts DEF ExecInv, IInv, TypeOK, ExecTypeOK
  <1>5. Executed({"alloca"})'
          = DOMAIN mem \cup {k \in {Len(regs) + 1} : Instruction.op = "alloca"}
    <2>1. DOMAIN mem = {k \in 1..Len(regs) : ir[k].op = "alloca"}
      BY DEF ExecInv, ExecTypeOK, Executed
    <2>2. Executed({"alloca"})' = {k \in 1..Len(regs) + 1 : ir[k].op = "alloca"}
      BY <1>2, <1>4 DEF Executed
    <2> QED BY <1>4, <2>1, <2>2 DEF Instruction
  <1>6. ExecTypeOK'
    <2>1. Len(regs') <= Len(ir')
      BY <1>2, <1>4
    <2>2. mem' \in [Executed({"alloca"})' -> Value]
      BY <1>5
    <2> QED BY <1>4, <2>1, <2>2 DEF ExecTypeOK
  <1>7. SlotsNamed'
    <2> SUFFICES ASSUME NEW k \in 1..Len(regs) + 1, ir[k].op = "alloca"
                 PROVE  regs'[k] = k
      BY <1>2, <1>4 DEF SlotsNamed
    <2>1. CASE k = Len(regs) + 1
      BY <1>4, <2>1 DEF Instruction
    <2>2. CASE k # Len(regs) + 1
      BY <1>4, <2>2 DEF ExecInv, SlotsNamed
    <2> QED BY <2>1, <2>2
  <1> QED BY <1>1, <1>3, <1>6, <1>7 DEF ExecInv


\* The interpreter's steps keep the invariant.
LEMMA RunStep ==
  ASSUME ExecInv, Run
  PROVE  ExecInv'
PROOF
  <1>1. /\ process = "running" /\ Len(regs) < Len(ir)
        /\ UNCHANGED vars
    BY Zenon DEF Run, Executing, ExecAlloca, ExecLoad, ExecStore, lle_X_write_int,
                 ExecPure, Trap, ExecRet
  <1>2. /\ Len(regs) \in Nat /\ Instruction \in Instr
        /\ mem \in [DOMAIN mem -> Value] /\ out \in Seq(Value)
        /\ Undef \in Value
    BY <1>1, InstructionFacts DEF ExecInv, ExecTypeOK, Value
  <1>3. CASE ExecAlloca
    <2>1. /\ Instruction.op = "alloca" /\ regs' = Append(regs, Len(regs) + 1)
          /\ UNCHANGED <<process, out>>
          /\ mem' = [s \in DOMAIN mem \cup {Len(regs) + 1} |->
                       IF s \in DOMAIN mem THEN mem[s] ELSE Undef]
      BY <1>3 DEF ExecAlloca, Executing, Completes, NewSlot
    <2>2. Len(regs) + 1 \in Value
      BY <1>2 DEF Value
    <2>3. mem' \in [DOMAIN mem \cup {k \in {Len(regs) + 1} : Instruction.op = "alloca"} -> Value]
      BY <1>2, <2>1
    <2> QED BY <1>1, <1>2, <2>1, <2>2, <2>3, CompletesStep
  <1>4. CASE ExecLoad
    <2> DEFINE v == mem[ValueOf(Instruction.args[1])]
    <2>1. /\ Instruction.op = "load" /\ regs' = Append(regs, v)
          /\ UNCHANGED <<process, mem, out>>
      BY <1>4 DEF ExecLoad, Executing, Completes
    <2>2. v \in Value
      BY <1>1, <1>2, <2>1, InstructionFacts
    <2> HIDE DEF v
    <2> QED BY <1>1, <1>2, <2>1, <2>2, CompletesStep
  <1>5. CASE ExecStore
    <2> DEFINE value == Instruction.args[1]
               slot  == ValueOf(Instruction.args[2])
    <2>1. /\ Instruction.op = "store" /\ regs' = Append(regs, Undef)
          /\ UNCHANGED <<process, out>> /\ mem' = Stored(slot, value.ty, ValueOf(value))
      BY <1>5 DEF ExecStore, Executing, Completes
    <2>2. ValueOf(value) \in Value
      <3>1. 1 \in DOMAIN Instruction.args
        BY <1>1, <2>1, InstructionFacts DEF ArgCount
      <3> QED BY <1>1, <3>1, InstructionFacts
    <2> HIDE DEF value, slot
    <2>3. mem' \in [DOMAIN mem -> Value]
      BY <1>2, <2>1, <2>2 DEF Stored
    <2> QED BY <1>1, <1>2, <2>1, <2>3, CompletesStep
  <1>6. CASE lle_X_write_int
    <2> DEFINE arg == Instruction.args[1]
               v   == Printed(arg.ty, ValueOf(arg))
    <2>1. /\ Instruction.op = "call" /\ regs' = Append(regs, Undef)
          /\ UNCHANGED <<process, mem>> /\ out' = Append(out, v)
      BY <1>6 DEF lle_X_write_int, Executing, Completes
    <2>2. arg \in Operand /\ ValueOf(arg) \in Value
      <3>1. 1 \in DOMAIN Instruction.args
        BY <1>1, <2>1, InstructionFacts DEF ArgCount
      <3> QED BY <1>1, <3>1, InstructionFacts
    <2> HIDE DEF arg
    <2>3. v \in Value
      BY <2>2, PrintedIsValue DEF Operand
    <2> HIDE DEF v
    <2>4. out' \in Seq(Value)
      BY <1>2, <2>1, <2>3
    <2> QED BY <1>1, <1>2, <2>1, <2>4, CompletesStep
  <1>7. CASE ExecPure
    <2>1. /\ Instruction.op \in PureOps /\ regs' = Append(regs, Result)
          /\ UNCHANGED <<process, mem, out>>
      BY <1>7 DEF ExecPure, Executing, Completes
    <2>2. Result \in Value
      BY <1>1, <2>1, ResultIsValue
    <2>3. Instruction.op # "alloca"
      BY <2>1 DEF PureOps, ArithOps, CmpOps, DivOps
    <2> QED BY <1>1, <1>2, <2>1, <2>2, <2>3, CompletesStep
  <1>8. CASE Trap
    <2>1. process' = "aborted" /\ UNCHANGED <<regs, mem, out>>
      BY <1>8 DEF Trap
    <2> QED BY <1>1, <2>1, OutsideStep
  <1>9. CASE ExecRet
    <2>1. /\ Instruction.op = "ret" /\ regs' = Append(regs, Undef)
          /\ process' = "exited" /\ UNCHANGED <<mem, out>>
      BY <1>9 DEF ExecRet, Executing
    <2> QED BY <1>1, <1>2, <2>1, CompletesStep
  <1> QED BY <1>3, <1>4, <1>5, <1>6, <1>7, <1>8, <1>9 DEF Run

\* The compiler's steps do, while nothing runs yet.
LEMMA CompileStep ==
  ASSUME ExecInv, Compile
  PROVE  ExecInv'
PROOF
  <1>1. [Next]_vars /\ process = "compiling" /\ regs = <<>>
        /\ UNCHANGED <<process, regs, mem, out>>
    BY DEF Compile, execVars, ExecInv
  <1>2. IInv'
    BY <1>1, NextIInv DEF ExecInv
  <1>3. ArgsComplete'
    BY <1>1, <1>2, CodeStaysComplete DEF ExecInv
  <1>4. ExecTypeOK' /\ SlotsNamed'
    <2>1. Len(regs) = 0 /\ Len(ir') \in Nat
      BY <1>1, <1>2 DEF IInv, TypeOK
    <2>2. Executed({"alloca"}) = {} /\ Executed({"alloca"})' = {}
      BY <1>1, <2>1 DEF Executed
    <2>3. mem' \in [Executed({"alloca"})' -> Value]
      BY <1>1, <2>2 DEF ExecInv, ExecTypeOK
    <2>4. Len(regs') <= Len(ir')
      BY <1>1, <2>1
    <2>5. ExecTypeOK'
      BY <1>1, <2>3, <2>4 DEF ExecInv, ExecTypeOK
    <2>6. SlotsNamed'
      BY <1>1, <2>1 DEF SlotsNamed
    <2> QED BY <2>5, <2>6
  <1> QED BY <1>1, <1>2, <1>3, <1>4 DEF ExecInv

\* Every step of the process keeps the invariant.
LEMMA NextExecInv ==
  ASSUME ExecInv, [ExecNext]_allVars
  PROVE  ExecInv'
PROOF
  <1>1. CASE Compile
    BY <1>1, CompileStep
  <1>2. CASE Abort
    BY <1>2, OutsideStep DEF Abort
  <1>3. CASE RunFunction
    BY <1>3, OutsideStep DEF RunFunction
  <1>4. CASE Run
    BY <1>4, RunStep
  <1>5. CASE UNCHANGED allVars
    <2>1. UNCHANGED vars /\ UNCHANGED <<process, regs, mem, out>>
      BY <1>5 DEF allVars, execVars
    <2>2. process' \in {"running", "exited", "aborted"} \/ process' = process
      BY <2>1
    <2> QED BY <2>1, <2>2, OutsideStep
  <1> QED BY <1>1, <1>2, <1>3, <1>4, <1>5 DEF ExecNext

\* The invariant of a run: code and interpreter together.
THEOREM ExecInvariant == ExecSpec => []ExecInv
PROOF
  <1>1. ExecInit => ExecInv
    <2> SUFFICES ASSUME ExecInit PROVE ExecInv
      OBVIOUS
    <2>1. IInv
      BY InitIInv DEF ExecInit
    <2>2. ir = <<>> /\ regs = <<>> /\ out = <<>> /\ process = "compiling"
          /\ mem = [s \in {} |-> Undef]
      BY DEF ExecInit, Init
    <2>3. Executed({"alloca"}) = {}
      BY <2>2 DEF Executed
    <2> QED BY <2>1, <2>2, <2>3 DEF ExecInv, ArgsComplete, ExecTypeOK, SlotsNamed
  <1>2. ExecInv /\ [ExecNext]_allVars => ExecInv'
    BY NextExecInv
  <1> QED BY <1>1, <1>2, PTL DEF ExecSpec

\* Whatever is compiled, the interpreter's registers, slots and output hold
\* values, and there are slots exactly for the allocas executed.
THEOREM ExecTypeCorrect == ExecSpec => []ExecTypeOK
PROOF
  <1>1. ExecInv => ExecTypeOK
    BY DEF ExecInv
  <1> QED BY <1>1, ExecInvariant, PTL

\* Whatever is compiled, with or without the assertions of LLVM: an instruction
\* that runs finds its operands computed and its slot allocated.
THEOREM OperandsAlwaysReady == ExecSpec => []OperandsReady
PROOF
  <1>1. ExecInv => OperandsReady
    BY InstructionFacts DEF OperandsReady
  <1> QED BY <1>1, ExecInvariant, PTL

-----------------------------------------------------------------------------
(* Pascal, as it is instantiated for the refinement, extends the Language  *)
(* of the other theorems.                                                  *)

\* The trees are the same.
LEMMA SameTrees ==
  /\ Source!Stmt = Stmt /\ Source!Factor = Factor /\ Source!Chain = Chain
  /\ Source!ChainKinds = ChainKinds
  /\ \A u : Source!Body(u) = Body(u)
PROOF
  BY DEF Source!Stmt, Stmt, Source!Factor, Factor, Source!Chain, Chain, Source!Of, Of,
         Source!StmtKinds, StmtKinds, Source!IgnoredKinds, IgnoredKinds,
         Source!FactorKinds, FactorKinds, Source!ChainKinds, ChainKinds, Source!Body, Body

\* The effects of the statements are the same.
LEMMA SameEffects == Source!Effects = Effects
PROOF
  BY DEF Source!Effects, Source!EffectsOf, Source!OfSequence, Effects, EffectsOf, OfSequence,
         Source!Stmt, Stmt, Source!Of, Of, Source!StmtKinds, StmtKinds,
         Source!IgnoredKinds, IgnoredKinds

\* The declarations are the same.
LEMMA SameDeclarations ==
  ASSUME NEW u
  PROVE  /\ Source!VarTypes(u) = VarTypes(u)
         /\ Source!DeclaredNames(u) = DeclaredNames(u)
         /\ Source!DeclProblems(u) = DeclProblems(u)
PROOF
  BY DEF Source!NamePlaces, Source!NameAt, Source!DeclaredNames, Source!VarTypes,
         Source!VarDecls, Source!DeclProblems, Source!TypeProblem, Source!Duplicate,
         Source!Before, Source!BaseType,
         NamePlaces, NameAt, DeclaredNames, VarTypes, VarDecls, DeclProblems, TypeProblem,
         Duplicate, Before, BaseType

\* The types are the same.
LEMMA SameTypes ==
  ASSUME NEW types
  PROVE  Source!Static(types) = Static(types)
PROOF
  BY DEF Source!Static, Source!TypeOf, Source!OfChain, Source!Chained, Source!ResultOf,
         Source!OfCall, Source!Failing, Source!FirstFailing, Source!Errors, Source!RelOp,
         Source!ChainKinds,
         Static, TypeOf, OfChain, Chained, ResultOf, OfCall, Failing, FirstFailing, Errors,
         RelOp, ChainKinds

\* The verdicts are the same.
LEMMA SameVerdict ==
  ASSUME NEW u
  PROVE  Source!Verdict(u) = Verdict(u)
PROOF
  <1>1. /\ \A problems : Source!FirstProblem(problems) = FirstProblem(problems)
        /\ Source!Constants(u) = Constants(u) /\ Source!Subprograms(u) = Subprograms(u)
    BY DEF Source!FirstProblem, Source!Before, FirstProblem, Before, Source!Constants, Constants,
           Source!Subprograms, Subprograms
  <1> QED BY <1>1, SameDeclarations, SameTypes, SameTrees DEF Source!Verdict, Verdict

\* The language is the same.
LEMMA SameLanguage ==
  ASSUME NEW u
  PROVE  Source!Supported(u) = Supported(u)
PROOF
  <1>1. Source!Plain = Plain
    BY DEF Source!Plain, Plain, Source!Factor, Factor, Source!Chain, Chain, Source!Of, Of,
           Source!FactorKinds, FactorKinds, Source!ChainKinds, ChainKinds
  <1>2. \A n, types : Source!SupportedStmt(n, types) = SupportedStmt(n, types)
    BY <1>1, SameTypes DEF Source!SupportedStmt, SupportedStmt
  <1> QED BY <1>2, SameVerdict, SameEffects, SameTrees, SameDeclarations
          DEF Source!Supported, Supported

-----------------------------------------------------------------------------
(* Arithmetic.                                                             *)

\* A multiple of M that is smaller than M is 0.
LEMMA SmallMultiple ==
  ASSUME NEW M \in Nat \ {0}, NEW k \in Int, -M < M * k, M * k < M
  PROVE  k = 0
PROOF
  <1>1. CASE k >= 1
    <2>1. M * k >= M * 1
      BY <1>1
    <2> QED BY <2>1
  <1>2. CASE k <= -1
    <2>1. M * k <= M * (-1)
      BY <1>2
    <2> QED BY <2>1
  <1> QED BY <1>1, <1>2

\* Division with a remainder.
LEMMA DivMod ==
  ASSUME NEW M \in Nat \ {0}, NEW x \in Int
  PROVE  x = M * (x \div M) + (x % M) /\ x \div M \in Int /\ x % M \in 0..M-1
PROOF OBVIOUS

\* The number of an interval of length M that is congruent to x.
LEMMA OneCongruent ==
  ASSUME NEW M \in Nat \ {0}, NEW a \in Int, NEW x \in Int,
         NEW y \in a..a + M - 1, NEW z \in a..a + M - 1,
         (x - y) % M = 0, (x - z) % M = 0
  PROVE  y = z
PROOF
  <1> DEFINE p == (x - y) \div M
             q == (x - z) \div M
  <1>1. x - y = M * p /\ p \in Int
    BY DivMod
  <1>2. x - z = M * q /\ q \in Int
    BY DivMod
  <1> HIDE DEF p, q
  <1>5. z - y = M * (p - q)
    <2>1. M * (p - q) = M * p - M * q
      BY <1>1, <1>2
    <2> QED BY <1>1, <1>2, <2>1
  <1>6. p - q = 0
    <2>1. -M < z - y /\ z - y < M
      OBVIOUS
    <2>2. p - q \in Int /\ -M < M * (p - q) /\ M * (p - q) < M
      BY <1>1, <1>2, <1>5, <2>1
    <2> QED BY <2>2, SmallMultiple
  <1> QED BY <1>5, <1>6

\* What a number is wrapped to is congruent to it.
LEMMA WrapCongruent ==
  ASSUME NEW H \in Nat \ {0}, NEW x \in Int
  PROVE  LET y == ((x + H) % (2 * H)) - H
         IN  y \in -H..H-1 /\ (x - y) % (2 * H) = 0
PROOF
  <1>0. PICK M \in Nat \ {0} : M = 2 * H
    OBVIOUS
  <1> DEFINE q == (x + H) \div M
             m == (x + H) % M
  <1>1. x + H = M * q + m /\ q \in Int /\ m \in 0..M-1
    BY DivMod
  <1> HIDE DEF q
  <1>2. m - H \in -H..H-1
    BY <1>0, <1>1
  <1>3. x - (m - H) = M * q
    BY <1>1
  <1>4. (M * q) % M = 0
    <2> DEFINE r == (M * q) % M
               d == (M * q) \div M
    <2>1. M * q \in Int /\ q \in Int
      BY <1>1
    <2>2. M * q = M * d + r /\ d \in Int /\ r \in 0..M-1
      BY <2>1, DivMod
    <2> HIDE DEF r, d
    <2>3. M * (q - d) = M * q - M * d
      BY <2>1, <2>2
    <2>4. M * (q - d) = r
      BY <2>1, <2>2, <2>3
    <2>5. q - d = 0
      BY <2>1, <2>2, <2>4, SmallMultiple
    <2> QED BY <2>2, <2>4, <2>5 DEF r
  <1> QED BY <1>0, <1>1, <1>2, <1>3, <1>4

\* At most one quotient.
LEMMA OneQuotient ==
  ASSUME NEW l \in Int, NEW r \in Int \ {0}, NEW p \in Int, NEW q \in Int,
         Source!IsDivision(l, r, p, l - p * r), Source!IsDivision(l, r, q, l - q * r)
  PROVE  p = q
PROOF
  <1>0. PICK M \in Nat \ {0} : M = Magnitude(r)
    BY DEF Magnitude
  <1>1. PICK m \in Int : m = l - p * r
    OBVIOUS
  <1>2. PICK n \in Int : n = l - q * r
    OBVIOUS
  <1>3. -M < m /\ m < M /\ -M < n /\ n < M /\ -M < m - n /\ m - n < M
    BY <1>0, <1>1, <1>2 DEF Source!IsDivision, Magnitude
  <1>4. r * (q - p) = m - n
    <2>1. r * (q - p) = q * r - p * r
      OBVIOUS
    <2> QED BY <1>1, <1>2, <2>1
  <1>5. CASE r = M
    <2>1. M * (q - p) = m - n
      BY <1>4, <1>5
    <2>2. q - p = 0
      BY <1>3, <2>1, SmallMultiple
    <2> QED BY <2>2
  <1>6. CASE r = -M
    <2>1. M * (p - q) = m - n
      <3>1. (-M) * (q - p) = M * (p - q)
        OBVIOUS
      <3> QED BY <1>4, <1>6, <3>1
    <2>2. p - q = 0
      BY <1>3, <2>1, SmallMultiple
    <2> QED BY <2>2
  <1> QED BY <1>0, <1>5, <1>6 DEF Magnitude

\* Truncating towards zero gives the quotient.
LEMMA QuotientDivides ==
  ASSUME NEW H \in Nat \ {0}, NEW l \in -H..H-1, NEW r \in Int \ {0}, ~(r = -1 /\ l = -H)
  PROVE  Quotient(l, r) \in -H..H-1 /\ Source!IsDivision(l, r, Quotient(l, r), l - Quotient(l, r) * r)
PROOF
  <1>0. PICK M \in Nat \ {0} : M = Magnitude(r)
    BY DEF Magnitude
  <1>1. PICK n \in Nat : n = Magnitude(l)
    BY DEF Magnitude
  <1> DEFINE d == n \div M
             s == n % M
  <1>2. n = M * d + s /\ d \in Int /\ s \in 0..M-1
    BY DivMod
  <1>3. Quotient(l, r) = IF (l < 0) # (r < 0) THEN -d ELSE d
    BY <1>0, <1>1 DEF Quotient
  <1> HIDE DEF d, s
  <1>4. d >= 0 /\ d <= n
    <2>1. CASE d <= -1
      <3>1. M * d <= M * (-1)
        BY <1>2, <2>1
      <3> QED BY <1>2, <3>1
    <2>2. CASE d >= 0
      <3>1. M * d >= d
        <4>1. (M - 1) * d >= 0
          BY <1>2, <2>2
        <4>2. M * d = (M - 1) * d + d
          BY <1>2
        <4> QED BY <1>2, <4>1, <4>2
      <3> QED BY <1>2, <2>2, <3>1
    <2> QED BY <1>2, <2>1, <2>2
  <1>5. M # 1 /\ n > 0 => d < n
    <2> SUFFICES ASSUME M # 1, n > 0 PROVE d < n
      OBVIOUS
    <2>1. CASE d = 0
      BY <2>1
    <2>2. CASE d > 0
      <3>1. (M - 2) * d >= 0
        BY <1>2, <2>2
      <3>2. M * d = (M - 2) * d + 2 * d
        BY <1>2
      <3> QED BY <1>2, <2>2, <3>1, <3>2
    <2> QED BY <1>2, <1>4, <2>1, <2>2
  <1>6. Quotient(l, r) \in -H..H-1
    <2>1. n <= H /\ (n = H => l = -H)
      BY <1>1 DEF Magnitude
    <2>2. CASE (l < 0) # (r < 0)
      BY <1>2, <1>3, <1>4, <2>1, <2>2
    <2>3. CASE (l < 0) <=> (r < 0)
      <3>1. M = 1 /\ l < 0 => r = -1
        BY <1>0, <2>3 DEF Magnitude
      <3>2. d <= H - 1
        BY <1>2, <1>4, <1>5, <2>1, <3>1
      <3> QED BY <1>2, <1>3, <1>4, <2>3, <3>2
    <2> QED BY <2>2, <2>3
  <1>7. Quotient(l, r) * r = IF l < 0 THEN -(M * d) ELSE M * d
    <2>1. r = M \/ r = -M
      BY <1>0 DEF Magnitude
    <2>2. M * d = d * M /\ (-d) * M = -(M * d) /\ d * (-M) = -(M * d) /\ (-d) * (-M) = M * d
      BY <1>2
    <2>3. r < 0 <=> r = -M
      BY <1>0, <2>1
    <2> QED BY <1>3, <2>1, <2>2, <2>3
  <1>8. PICK e \in Int : e = M * d
    BY <1>2
  <1>9. PICK t \in Int : t = Quotient(l, r) * r
    BY <1>6
  <1>10. t = (IF l < 0 THEN -e ELSE e) /\ n = e + s /\ s \in 0..M-1
    BY <1>2, <1>7, <1>8, <1>9
  <1> QED BY <1>0, <1>1, <1>6, <1>9, <1>10 DEF Source!IsDivision, Magnitude

\* The integers of the program, and the values of its expressions.
Ints == -Half["i32"] .. Half["i32"] - 1

Vals == Ints \cup {Undef}

\* The arithmetic of i32 is that of the language.
LEMMA Wrapping ==
  ASSUME NEW x \in Int
  PROVE  Source!Wrapped(x) = Wrap("i32", x) /\ Wrap("i32", x) \in Ints
PROOF
  <1>1. PICK H \in Nat \ {0} : H = Half["i32"]
    BY IrAssumption DEF IntTypes
  <1> DEFINE w == ((x + H) % (2 * H)) - H
             c == CHOOSE y \in -H..H-1 : (x - y) % (2 * H) = 0
  <1>2. w \in -H..H-1 /\ (x - w) % (2 * H) = 0
    BY WrapCongruent
  <1>3. Wrap("i32", x) = w
    BY <1>1 DEF Wrap
  <1>4. Source!Wrapped(x) = c
    <2>1. Source!Integer = -H..H-1
      BY <1>1 DEF Source!Integer
    <2>2. 2 * ((H - 1) + 1) = 2 * H
      OBVIOUS
    <2> QED BY <1>1, <2>1, <2>2 DEF Source!Wrapped
  <1> HIDE DEF w
  <1>5. c \in -H..H-1 /\ (x - c) % (2 * H) = 0
    BY <1>2
  <1> HIDE DEF c
  <1>6. 2 * H \in Nat \ {0} /\ -H..H-1 = -H..(-H) + 2 * H - 1
    OBVIOUS
  <1>7. PICK M \in Nat \ {0} : M = 2 * H
    BY <1>6
  <1>8. -H \in Int /\ c \in -H..(-H) + M - 1 /\ w \in -H..(-H) + M - 1
    BY <1>2, <1>5, <1>6, <1>7
  <1>9. c = w
    BY <1>2, <1>5, <1>7, <1>8, OneCongruent
  <1> QED BY <1>1, <1>2, <1>3, <1>4, <1>9 DEF Ints

\* So are the quotient and the remainder, where the program determines them.
LEMMA Dividing ==
  ASSUME NEW l \in Ints, NEW r \in Ints, Divides("i32", l, r)
  PROVE  /\ Source!QuotientOf(l, r) = Quotient(l, r) /\ Quotient(l, r) \in Ints
         /\ l - r * Quotient(l, r) = l - Quotient(l, r) * r
         /\ l - Quotient(l, r) * r \in Ints
PROOF
  <1>1. PICK H \in Nat \ {0} : H = Half["i32"]
    BY IrAssumption DEF IntTypes
  <1>2. /\ l \in -H..H-1 /\ r \in Int \ {0} /\ ~(r = -1 /\ l = -H) /\ r \in -H..H-1
    BY <1>1 DEF Divides, Ints
  <1> DEFINE q == Quotient(l, r)
             c == CHOOSE p \in -H..H-1 : Source!IsDivision(l, r, p, l - p * r)
  <1>3. q \in -H..H-1 /\ Source!IsDivision(l, r, q, l - q * r)
    BY <1>2, QuotientDivides
  <1>4. Source!QuotientOf(l, r) = c
    <2>1. Source!Integer = -H..H-1
      BY <1>1 DEF Source!Integer
    <2> QED BY <2>1 DEF Source!QuotientOf
  <1> HIDE DEF q
  <1>5. c \in -H..H-1 /\ Source!IsDivision(l, r, c, l - c * r)
    BY <1>3
  <1> HIDE DEF c
  <1>6. c = q
    <2>1. c \in Int /\ q \in Int /\ l \in Int
      BY <1>2, <1>3, <1>5
    <2> QED BY <1>2, <1>3, <1>5, <2>1, OneQuotient
  <1>7. PICK t \in Int : t = q * r
    BY <1>2, <1>3
  <1>8. r * q = t
    BY <1>2, <1>3, <1>7
  <1>9. l - t \in -H..H-1
    BY <1>2, <1>3, <1>7 DEF Source!IsDivision
  <1> QED BY <1>1, <1>3, <1>4, <1>6, <1>7, <1>8, <1>9 DEF Ints, q

\* The operators on integers.
IntegerOps == {"Multiply", "IntDiv", "Modulo", "Plus", "Minus"}

\* The instruction built for an operator computes what the operator means.
LEMMA OperatorMeans ==
  ASSUME NEW op \in IntegerOps, NEW l \in Vals, NEW r \in Vals,
         NEW vals, vals[1] = l, vals[2] = r
  PROVE  /\ Apply(Opcode(op), "i32", vals) = Source!Strict(op, l, r)
         /\ Source!Strict(op, l, r) \in Vals
PROOF
  <1>1. CASE Undef \in {l, r}
    <2>1. Opcode(op) # "select"
      BY Zenon DEF Opcode, IntegerOps
    <2> QED BY <1>1, <2>1 DEF Apply, Source!Strict, Vals
  <1>2. CASE Undef \notin {l, r}
    <2>0. l \in Ints /\ r \in Ints /\ l \in Int /\ r \in Int
      BY <1>2 DEF Vals, Ints
    <2>1. Opcode(op) # "select" =>
            Apply(Opcode(op), "i32", vals) = Compute(Opcode(op), "i32", l, r)
      BY <1>2 DEF Apply
    <2>2. Source!Strict(op, l, r) = Source!ArithmeticOf(op, l, r)
      BY <1>2 DEF Source!Strict
    <2>3. CASE op \in {"Plus", "Minus", "Multiply"}
      <3>1. PICK x \in Int : x = IF op = "Plus" THEN l + r ELSE IF op = "Minus" THEN l - r
                                 ELSE l * r
        <4>1. l + r \in Int /\ l - r \in Int /\ l * r \in Int
          BY <2>0
        <4> HIDE <2>0
        <4> QED BY <4>1
      <3>2. Opcode(op) = IF op = "Plus" THEN "add" ELSE IF op = "Minus" THEN "sub" ELSE "mul"
        BY <2>3, Zenon DEF Opcode
      <3>3. Compute(Opcode(op), "i32", l, r) = Wrap("i32", x)
        <4>1. CASE op = "Plus"
          BY <3>1, <3>2, <4>1, Zenon DEF Compute
        <4>2. CASE op = "Minus"
          BY <3>1, <3>2, <4>2, Zenon DEF Compute
        <4>3. CASE op = "Multiply"
          BY <3>1, <3>2, <4>3, Zenon DEF Compute
        <4> QED BY <2>3, <4>1, <4>2, <4>3
      <3>4. Source!ArithmeticOf(op, l, r) = Source!Wrapped(x)
        <4>1. CASE op = "Plus"
          BY <3>1, <4>1, Zenon DEF Source!ArithmeticOf
        <4>2. CASE op = "Minus"
          BY <3>1, <4>2, Zenon DEF Source!ArithmeticOf
        <4>3. CASE op = "Multiply"
          BY <3>1, <4>3, Zenon DEF Source!ArithmeticOf
        <4> QED BY <2>3, <4>1, <4>2, <4>3
      <3>5. Opcode(op) # "select"
        BY <3>2
      <3> QED BY <2>1, <2>2, <3>3, <3>4, <3>5, Wrapping DEF Vals
    <2>4. CASE op \in {"IntDiv", "Modulo"}
      <3>1. Opcode(op) = IF op = "IntDiv" THEN "sdiv" ELSE "srem"
        BY <2>4, Zenon DEF Opcode
      <3>2. Compute(Opcode(op), "i32", l, r) =
              IF Divides("i32", l, r)
              THEN IF op = "IntDiv" THEN Quotient(l, r) ELSE l - r * Quotient(l, r)
              ELSE Undef
        <4>1. CASE op = "IntDiv"
          BY <3>1, <4>1, Zenon DEF Compute
        <4>2. CASE op = "Modulo"
          BY <3>1, <4>2, Zenon DEF Compute
        <4> QED BY <2>4, <4>1, <4>2
      <3>3. Source!ArithmeticOf(op, l, r) =
              IF r = 0 \/ (r = -1 /\ l = -(Half["i32"] - 1) - 1) THEN Undef
              ELSE IF op = "IntDiv" THEN Source!QuotientOf(l, r)
              ELSE l - Source!QuotientOf(l, r) * r
        BY <2>4, Zenon DEF Source!ArithmeticOf
      <3>4. Divides("i32", l, r) <=> ~(r = 0 \/ (r = -1 /\ l = -(Half["i32"] - 1) - 1))
        <4>1. PICK H \in Nat \ {0} : H = Half["i32"]
          BY IrAssumption DEF IntTypes
        <4>2. -(H - 1) - 1 = -H
          OBVIOUS
        <4> QED BY <4>1, <4>2 DEF Divides
      <3>5. CASE Divides("i32", l, r)
        <4>1. /\ Source!QuotientOf(l, r) = Quotient(l, r) /\ Quotient(l, r) \in Ints
              /\ l - r * Quotient(l, r) = l - Quotient(l, r) * r
              /\ l - Quotient(l, r) * r \in Ints
          BY <2>0, <3>5, Dividing
        <4> QED BY <2>1, <2>2, <3>1, <3>2, <3>3, <3>4, <3>5, <4>1 DEF Vals
      <3>6. CASE ~Divides("i32", l, r)
        BY <2>1, <2>2, <3>1, <3>2, <3>3, <3>4, <3>6 DEF Vals
      <3> QED BY <3>5, <3>6
    <2> QED BY <2>3, <2>4 DEF IntegerOps
  <1> QED BY <1>1, <1>2

-----------------------------------------------------------------------------
(* What an expression evaluates to satisfies the equations that define it. *)

\* Whatever the operator, the result is a value.
LEMMA StrictIsValue ==
  ASSUME NEW op, NEW l \in Vals, NEW r \in Vals
  PROVE  Source!Strict(op, l, r) \in Vals
PROOF
  <1>1. CASE op \in IntegerOps
    <2>1. PICK vals : vals = <<l, r>>
      OBVIOUS
    <2>2. vals[1] = l /\ vals[2] = r
      BY <2>1
    <2> QED BY <1>1, <2>2, OperatorMeans
  <1>2. CASE op \notin IntegerOps
    <2>1. Source!ArithmeticOf(op, l, r) = Undef
      BY <1>2, Zenon DEF Source!ArithmeticOf, IntegerOps
    <2> QED BY <2>1 DEF Source!Strict, Vals
  <1> QED BY <1>1, <1>2

\* Whether the operands of n have values.
OperandsHave(n, value) ==
  value[n.start] \in Vals /\ \A k \in 1..Len(n.ops) : value[n.ops[k].rhs] \in Vals

\* The recursion along the operators, as a functional.
OperatorsFunctional(n, value) ==
  [x \in (0..Len(n.ops)) \X [0..Len(n.ops) -> Vals] |->
     IF x[1] = 0 THEN value[n.start]
     ELSE Source!Strict(n.ops[x[1]].op, x[2][x[1] - 1], value[n.ops[x[1]].rhs])]

\* It descends.
LEMMA OperatorsDescend ==
  ASSUME NEW n, Len(n.ops) \in Nat, NEW value, OperandsHave(n, value)
  PROVE  Recursive(0..Len(n.ops), Vals, [k \in 0..Len(n.ops) |-> k],
                   OperatorsFunctional(n, value))
PROOF
  <1> DEFINE S == 0..Len(n.ops)
             F == OperatorsFunctional(n, value)
             rank == [k \in S |-> k]
  <1>1. Vals # {} /\ \A k \in S : rank[k] = k /\ k \in Nat
    BY DEF Vals
  <1>2. \A k \in S : \A g \in [S -> Vals] :
          F[<<k, g>>] = IF k = 0 THEN value[n.start]
                        ELSE Source!Strict(n.ops[k].op, g[k - 1], value[n.ops[k].rhs])
    BY DEF OperatorsFunctional
  <1> HIDE DEF F, rank
  <1>3. ASSUME NEW k \in S, NEW g \in [S -> Vals]
        PROVE  F[<<k, g>>] \in Vals
    <2>1. CASE k = 0
      BY <1>2, <2>1 DEF OperandsHave
    <2>2. CASE k # 0
      <3>1. k \in 1..Len(n.ops) /\ k - 1 \in S
        BY <2>2
      <3>2. g[k - 1] \in Vals /\ value[n.ops[k].rhs] \in Vals
        BY <3>1 DEF OperandsHave
      <3> QED BY <1>2, <2>2, <3>2, StrictIsValue
    <2> QED BY <2>1, <2>2
  <1>4. ASSUME NEW k \in S, NEW g \in [S -> Vals], NEW h \in [S -> Vals],
               \A m \in S : rank[m] < rank[k] => g[m] = h[m]
        PROVE  F[<<k, g>>] = F[<<k, h>>]
    <2>1. CASE k = 0
      BY <1>2, <2>1
    <2>2. CASE k # 0
      <3>1. k - 1 \in S /\ k - 1 < k
        BY <2>2
      <3>2. g[k - 1] = h[k - 1]
        BY <1>1, <1>4, <3>1
      <3> QED BY <1>2, <3>2
    <2> QED BY <2>1, <2>2
  <1> QED BY <1>1, <1>3, <1>4 DEF Recursive, F, rank

\* The values along a chain of operators.
LEMMA OperatorsEquations ==
  ASSUME NEW n, Len(n.ops) \in Nat, NEW value, OperandsHave(n, value),
         NEW p, p = Source!OfOperators(n, value)
  PROVE  /\ p \in [0..Len(n.ops) -> Vals]
         /\ p[0] = value[n.start]
         /\ \A k \in 1..Len(n.ops) :
              p[k] = Source!Strict(n.ops[k].op, p[k - 1], value[n.ops[k].rhs])
PROOF
  <1> DEFINE S == 0..Len(n.ops)
             F == OperatorsFunctional(n, value)
             body(f) == [k \in S |-> IF k = 0 THEN value[n.start]
                           ELSE Source!Strict(n.ops[k].op, f[k - 1], value[n.ops[k].rhs])]
  <1>1. PICK f \in [S -> Vals] : \A k \in S : f[k] = F[<<k, f>>]
    <2> DEFINE rank == [k \in S |-> k]
    <2>1. Recursive(S, Vals, rank, F)
      BY OperatorsDescend
    <2> HIDE DEF S, F, rank
    <2> QED BY <2>1, Recursion
  <1>2. \A g \in [S -> Vals] : \A k \in S : F[<<k, g>>] = body(g)[k]
    BY DEF OperatorsFunctional
  <1>3. f = body(f)
    <2>1. \A k \in S : f[k] = body(f)[k]
      BY <1>1, <1>2
    <2> QED BY <2>1
  <1>4. Source!OfOperators(n, value) = body(Source!OfOperators(n, value))
    BY <1>3 DEF Source!OfOperators
  <1>5. p = body(p)
    BY <1>4
  <1> HIDE DEF F
  <1>6. /\ DOMAIN p = S /\ p[0] = value[n.start]
        /\ \A k \in 1..Len(n.ops) :
             p[k] = Source!Strict(n.ops[k].op, p[k - 1], value[n.ops[k].rhs])
    <2>1. DOMAIN p = S /\ \A k \in S : p[k] = body(p)[k]
      BY <1>5
    <2>2. 0 \in S /\ \A k \in 1..Len(n.ops) : k \in S /\ k # 0
      OBVIOUS
    <2> QED BY <2>1, <2>2
  <1> DEFINE B == {k \in S : p[k] \notin Vals}
  <1>7. CASE B = {}
    BY <1>5, <1>6, <1>7
  <1>8. CASE B # {}
    <2>1. B \in SUBSET Nat
      OBVIOUS
    <2>2. PICK k \in B : \A j \in B : k <= j
      BY <1>8, <2>1, LeastMember
    <2>3. k # 0
      BY <1>6, <2>2 DEF OperandsHave
    <2>4. k \in 1..Len(n.ops) /\ k - 1 \in S /\ k - 1 \notin B
      BY <2>2, <2>3
    <2>5. p[k - 1] \in Vals /\ value[n.ops[k].rhs] \in Vals
      BY <2>4 DEF OperandsHave
    <2> QED BY <1>6, <2>2, <2>4, <2>5, StrictIsValue
  <1> QED BY <1>7, <1>8

\* Once a value is undetermined in a chain, it stays so to the end.
LEMMA UndefSticks ==
  ASSUME NEW n, Len(n.ops) \in Nat, NEW value, OperandsHave(n, value),
         NEW p, p = Source!OfOperators(n, value),
         NEW k \in 0..Len(n.ops), p[k] = Undef
  PROVE  p[Len(n.ops)] = Undef
PROOF
  <1> DEFINE B == {j \in k..Len(n.ops) : p[j] # Undef}
  <1>1. CASE B = {}
    BY <1>1
  <1>2. CASE B # {}
    <2>1. B \in SUBSET Nat
      OBVIOUS
    <2>2. PICK j \in B : \A i \in B : j <= i
      BY <1>2, <2>1, LeastMember
    <2>3. j # k
      BY <2>2
    <2>4. j \in 1..Len(n.ops) /\ j - 1 \in k..Len(n.ops) /\ j - 1 \notin B
      BY <2>2, <2>3
    <2>5. p[j - 1] = Undef
      BY <2>4
    <2>6. p[j] = Source!Strict(n.ops[j].op, p[j - 1], value[n.ops[j].rhs])
      BY <2>4, OperatorsEquations
    <2> QED BY <2>2, <2>5, <2>6 DEF Source!Strict
  <1> QED BY <1>1, <1>2

\* The value of an expression, kind by kind.
LEMMA ValueOfKinds ==
  ASSUME NEW n, NEW e, NEW value
  PROVE  /\ n.kind = "Number" => Source!ValueFrom(n, e, value) = n.int
         /\ n.kind = "Designator" =>
              Source!ValueFrom(n, e, value) =
                IF n.ident \in DOMAIN e THEN e[n.ident] ELSE Undef
         /\ n.kind = "Paren" => Source!ValueFrom(n, e, value) = value[n.inner]
         /\ n.kind = "Negation" =>
              Source!ValueFrom(n, e, value) =
                IF value[n.inner] = Undef THEN Undef ELSE -1 - value[n.inner]
         /\ n.kind \in ChainKinds =>
              Source!ValueFrom(n, e, value) = Source!OfOperators(n, value)[Len(n.ops)]
         /\ n.kind \notin {"Number", "Designator", "Paren", "Negation"} \cup ChainKinds
              => Source!ValueFrom(n, e, value) = Undef
PROOF
  <1>1. CASE n.kind \in ChainKinds
    BY <1>1, Zenon DEF Source!ValueFrom, Source!ChainKinds, ChainKinds
  <1>2. CASE n.kind \notin ChainKinds
    BY <1>2, Zenon DEF Source!ValueFrom, Source!ChainKinds, ChainKinds
  <1> QED BY <1>1, <1>2

\* The expressions.
Evaluable == Factor \cup Chain

\* The nodes inside n have values.
InsideHave(n, value) == \A m \in SubNodes(n) : value[m] \in Vals

\* What is inside of an expression is an expression.
LEMMA InsideIsEvaluable ==
  ASSUME NEW n \in Evaluable
  PROVE  /\ n \in Node /\ n.kind \in ExprKinds
         /\ \A m \in SubNodes(n) : m \in Evaluable /\ Height[m] < Height[n]
PROOF
  <1>1. n \in Node /\ n.kind \in ExprKinds
    BY DEF Evaluable, Factor, Chain, Of, ExprKinds
  <1>2. \A m \in Node : m.kind \in ExprKinds => m \in Evaluable
    BY DEF Evaluable, Factor, Chain, Of, ExprKinds
  <1>3. \A m \in SubNodes(n) : m.kind \in ExprKinds
    <2>1. CASE n.kind \in {"Paren", "Negation"}
      BY <1>1, <2>1, PartsAreExpressions DEF SubNodes, ChainKinds
    <2>2. CASE n.kind \in ChainKinds
      <3>1. SubNodes(n) = {n.start} \cup {n.ops[k].rhs : k \in 1..Len(n.ops)}
        BY <1>1, <2>2, ListsAreSequences DEF SubNodes, ChainKinds
      <3> QED BY <1>1, <2>2, <3>1, PartsAreExpressions
    <2>3. CASE n.kind \notin {"Paren", "Negation"} \cup ChainKinds
      <3>1. n.kind \notin {"Assignment", "ProcCall", "StmtSeq"}
        BY <1>1 DEF ExprKinds, FactorKinds, ChainKinds
      <3>2. SubNodes(n) = {}
        BY <2>3, <3>1, Zenon DEF SubNodes, ChainKinds
      <3> QED BY <3>2
    <2> QED BY <2>1, <2>2, <2>3
  <1> QED BY <1>1, <1>2, <1>3, InsideIsLower

\* The operands of a chain are inside of it.
LEMMA OperandsInside ==
  ASSUME NEW n \in Node, n.kind \in ChainKinds, NEW value, InsideHave(n, value)
  PROVE  OperandsHave(n, value) /\ Len(n.ops) \in Nat
PROOF
  BY InnerNodes, ChainNodes DEF InsideHave, OperandsHave

\* The value of an expression is a value.
LEMMA ValueIsValue ==
  ASSUME NEW n \in Evaluable, NEW D, NEW e \in [D -> Vals], NEW value, InsideHave(n, value)
  PROVE  Source!ValueFrom(n, e, value) \in Vals
PROOF
  <1>1. n \in Node
    BY InsideIsEvaluable
  <1>2. CASE n.kind = "Number"
    <2>1. n.int \in 0..MaxLiteral
      BY <1>1, <1>2, ShapeOfKind DEF IsFactor, FactorKinds, FuncCall
    <2>2. PICK H \in Nat \ {0} : H = Half["i32"]
      BY IrAssumption DEF IntTypes
    <2>3. MaxLiteral \in Nat /\ MaxLiteral < H
      BY <2>2, AstShape, LiteralsFit
    <2>4. n.int \in -H..H-1
      BY <2>1, <2>2, <2>3
    <2> QED BY <1>2, <2>2, <2>4, ValueOfKinds DEF Vals, Ints
  <1>3. CASE n.kind = "Designator"
    BY <1>3, ValueOfKinds DEF Vals
  <1>4. CASE n.kind \in {"Paren", "Negation"}
    <2>1. value[n.inner] \in Vals
      BY <1>1, <1>4, InnerNodes DEF InsideHave
    <2>2. PICK v \in Vals : v = value[n.inner]
      BY <2>1
    <2>3. v # Undef => -1 - v \in Ints
      BY IrAssumption DEF Vals, Ints, IntTypes
    <2> QED BY <1>4, <2>2, <2>3, ValueOfKinds DEF Vals
  <1>5. CASE n.kind \in ChainKinds
    <2>1. OperandsHave(n, value) /\ Len(n.ops) \in Nat
      BY <1>1, <1>5, OperandsInside
    <2>2. Source!OfOperators(n, value)[Len(n.ops)] \in Vals
      BY <2>1, OperatorsEquations
    <2> QED BY <1>5, <2>2, ValueOfKinds
  <1>6. CASE n.kind \notin {"Number", "Designator", "Paren", "Negation"} \cup ChainKinds
    BY <1>6, ValueOfKinds DEF Vals
  <1> QED BY <1>2, <1>3, <1>4, <1>5, <1>6

\* Only the values of the operands decide the values along a chain.
LEMMA OperatorsAreLocal ==
  ASSUME NEW n \in Node, n.kind \in ChainKinds, NEW g, NEW h,
         InsideHave(n, g), InsideHave(n, h), SameInside(n, g, h)
  PROVE  \A k \in 0..Len(n.ops) : Source!OfOperators(n, g)[k] = Source!OfOperators(n, h)[k]
PROOF
  <1>1. PICK p : p = Source!OfOperators(n, g)
    OBVIOUS
  <1>2. PICK q : q = Source!OfOperators(n, h)
    OBVIOUS
  <1>3. OperandsHave(n, g) /\ OperandsHave(n, h) /\ Len(n.ops) \in Nat
    BY OperandsInside
  <1>4. /\ p[0] = g[n.start] /\ q[0] = h[n.start]
        /\ \A k \in 1..Len(n.ops) :
             /\ p[k] = Source!Strict(n.ops[k].op, p[k - 1], g[n.ops[k].rhs])
             /\ q[k] = Source!Strict(n.ops[k].op, q[k - 1], h[n.ops[k].rhs])
    BY <1>1, <1>2, <1>3, OperatorsEquations
  <1>5. g[n.start] = h[n.start] /\ \A k \in 1..Len(n.ops) : g[n.ops[k].rhs] = h[n.ops[k].rhs]
    BY InnerNodes DEF SameInside
  <1>6. \A k \in 1..Len(n.ops) : p[k - 1] = q[k - 1] => p[k] = q[k]
    BY <1>4, <1>5
  <1> DEFINE B == {k \in 0..Len(n.ops) : p[k] # q[k]}
  <1>7. CASE B = {}
    BY <1>1, <1>2, <1>7
  <1>8. CASE B # {}
    <2>1. B \in SUBSET Nat
      OBVIOUS
    <2>2. PICK k \in B : \A j \in B : k <= j
      BY <1>8, <2>1, LeastMember
    <2>3. k # 0
      BY <1>4, <1>5, <2>2
    <2>4. k \in 1..Len(n.ops) /\ k - 1 \in 0..Len(n.ops) /\ k - 1 \notin B
      BY <1>3, <2>2, <2>3
    <2> QED BY <1>6, <2>2, <2>4
  <1> QED BY <1>7, <1>8

\* Only the values of the nodes inside decide the value of an expression.
LEMMA ValueIsLocal ==
  ASSUME NEW n \in Evaluable, NEW e, NEW g, NEW h,
         InsideHave(n, g), InsideHave(n, h), SameInside(n, g, h)
  PROVE  Source!ValueFrom(n, e, g) = Source!ValueFrom(n, e, h)
PROOF
  <1>1. n \in Node
    BY InsideIsEvaluable
  <1>2. CASE n.kind \in ChainKinds
    <2>1. Len(n.ops) \in Nat
      BY <1>1, <1>2, ChainNodes
    <2>2. Source!OfOperators(n, g)[Len(n.ops)] = Source!OfOperators(n, h)[Len(n.ops)]
      BY <1>1, <1>2, <2>1, OperatorsAreLocal
    <2> QED BY <1>2, <2>2, ValueOfKinds
  <1>3. CASE n.kind \in {"Paren", "Negation"}
    <2>1. g[n.inner] = h[n.inner]
      BY <1>1, <1>3, InnerNodes DEF SameInside
    <2> QED BY <1>3, <2>1, ValueOfKinds
  <1>4. CASE n.kind \notin {"Paren", "Negation"} \cup ChainKinds
    BY <1>4, ValueOfKinds
  <1> QED BY <1>2, <1>3, <1>4

\* The evaluation, as a functional.
EvalFunctional(e) ==
  [x \in Evaluable \X [Evaluable -> Vals] |-> Source!ValueFrom(x[1], e, x[2])]

\* It descends.
LEMMA EvalDescends ==
  ASSUME NEW D, NEW e \in [D -> Vals]
  PROVE  Recursive(Evaluable, Vals, Height, EvalFunctional(e))
PROOF
  <1> DEFINE F == EvalFunctional(e)
  <1>1. \A n \in Evaluable : \A g \in [Evaluable -> Vals] :
          F[<<n, g>>] = Source!ValueFrom(n, e, g)
    BY DEF EvalFunctional
  <1> HIDE DEF F
  <1>2. \A n \in Evaluable : \A g \in [Evaluable -> Vals] : InsideHave(n, g)
    BY InsideIsEvaluable DEF InsideHave
  <1>3. ASSUME NEW n \in Evaluable, NEW g \in [Evaluable -> Vals]
        PROVE  F[<<n, g>>] \in Vals
    <2>1. InsideHave(n, g)
      BY <1>2
    <2>2. Source!ValueFrom(n, e, g) \in Vals
      BY <2>1, ValueIsValue
    <2> QED BY <1>1, <2>2
  <1>4. ASSUME NEW n \in Evaluable, NEW g \in [Evaluable -> Vals],
               NEW h \in [Evaluable -> Vals],
               \A m \in Evaluable : Height[m] < Height[n] => g[m] = h[m]
        PROVE  F[<<n, g>>] = F[<<n, h>>]
    <2>1. SameInside(n, g, h)
      BY <1>4, InsideIsEvaluable DEF SameInside
    <2>2. Source!ValueFrom(n, e, g) = Source!ValueFrom(n, e, h)
      BY <1>2, <2>1, ValueIsLocal
    <2> QED BY <1>1, <2>2
  <1>5. Vals # {} /\ \A n \in Evaluable : Height[n] \in Nat
    BY TreesAreFinite, InsideIsEvaluable DEF Vals
  <1> QED BY <1>3, <1>4, <1>5 DEF Recursive, F

\* Every expression has a value, given by the equations of the language.
LEMMA EvalEquations ==
  ASSUME NEW D, NEW e \in [D -> Vals]
  PROVE  /\ Source!Eval(e) \in [Evaluable -> Vals]
         /\ \A n \in Evaluable : Source!Eval(e)[n] = Source!ValueFrom(n, e, Source!Eval(e))
PROOF
  <1> DEFINE F == EvalFunctional(e)
             body(f) == [n \in Evaluable |-> Source!ValueFrom(n, e, f)]
  <1>1. PICK f \in [Evaluable -> Vals] : \A n \in Evaluable : f[n] = F[<<n, f>>]
    <2>1. Recursive(Evaluable, Vals, Height, F)
      BY EvalDescends
    <2> HIDE DEF F
    <2> QED BY <2>1, Recursion
  <1>2. \A n \in Evaluable : \A g \in [Evaluable -> Vals] :
          F[<<n, g>>] = Source!ValueFrom(n, e, g)
    BY DEF EvalFunctional
  <1>3. f = body(f)
    <2>1. \A n \in Evaluable : f[n] = body(f)[n]
      BY <1>1, <1>2
    <2> QED BY <2>1
  <1>4. Source!Eval(e) = body(Source!Eval(e))
    BY <1>3, SameTrees DEF Source!Eval, Evaluable
  <1>5. PICK g : g = Source!Eval(e)
    OBVIOUS
  <1>6. g = body(g)
    BY <1>4, <1>5
  <1>7. DOMAIN g = Evaluable /\ \A n \in Evaluable : g[n] = Source!ValueFrom(n, e, g)
    BY <1>6
  <1> HIDE DEF F
  <1> DEFINE B == {Height[n] : n \in {m \in Evaluable : g[m] \notin Vals}}
  <1>8. CASE B = {}
    <2>1. \A n \in Evaluable : g[n] \in Vals
      BY <1>8
    <2>2. g \in [Evaluable -> Vals]
      BY <1>6, <2>1
    <2> QED BY <1>5, <1>7, <2>2
  <1>9. CASE B # {}
    <2>1. B \in SUBSET Nat
      BY TreesAreFinite, InsideIsEvaluable
    <2>2. PICK k \in B : \A j \in B : k <= j
      BY <1>9, <2>1, LeastMember
    <2>3. PICK n \in Evaluable : g[n] \notin Vals /\ Height[n] = k
      BY <2>2
    <2>4. InsideHave(n, g)
      <3> SUFFICES ASSUME NEW m \in SubNodes(n)
                   PROVE  g[m] \in Vals
        BY DEF InsideHave
      <3>1. m \in Evaluable /\ Height[m] < Height[n]
        BY InsideIsEvaluable
      <3>2. Height[m] \in Nat /\ Height[n] \in Nat
        BY <3>1, TreesAreFinite, InsideIsEvaluable
      <3>3. ~(k <= Height[m])
        BY <2>3, <3>1, <3>2
      <3> QED BY <2>2, <3>1, <3>3
    <2> QED BY <1>7, <2>3, <2>4, ValueIsValue
  <1> QED BY <1>8, <1>9

-----------------------------------------------------------------------------
(* The effects of a statement satisfy the equations that define them.      *)

\* The statements of n have effects.
StmtsHave(n, effects) == \A k \in 1..Len(n.stmts) : effects[n.stmts[k]] \in Seq(Stmt)

\* The recursion along the statements of a sequence, as a functional.
SequenceFunctional(n, effects) ==
  [x \in (0..Len(n.stmts)) \X [0..Len(n.stmts) -> Seq(Stmt)] |->
     IF x[1] = 0 THEN <<>> ELSE x[2][x[1] - 1] \o effects[n.stmts[x[1]]]]

\* It descends.
LEMMA SequenceDescends ==
  ASSUME NEW n, Len(n.stmts) \in Nat, NEW effects, StmtsHave(n, effects)
  PROVE  Recursive(0..Len(n.stmts), Seq(Stmt), [k \in 0..Len(n.stmts) |-> k],
                   SequenceFunctional(n, effects))
PROOF
  <1> DEFINE S == 0..Len(n.stmts)
             V == Seq(Stmt)
             F == SequenceFunctional(n, effects)
             rank == [k \in S |-> k]
  <1>1. <<>> \in V /\ \A k \in S : rank[k] = k /\ k \in Nat
    OBVIOUS
  <1>2. \A k \in S : \A g \in [S -> V] :
          F[<<k, g>>] = IF k = 0 THEN <<>> ELSE g[k - 1] \o effects[n.stmts[k]]
    BY DEF SequenceFunctional
  <1>c. \A s, t \in V : s \o t \in V
    OBVIOUS
  <1> HIDE DEF F, rank, V
  <1>3. ASSUME NEW k \in S, NEW g \in [S -> V]
        PROVE  F[<<k, g>>] \in V
    <2>1. CASE k = 0
      BY <1>1, <1>2, <2>1
    <2>2. CASE k # 0
      <3>1. k \in 1..Len(n.stmts) /\ k - 1 \in S
        BY <2>2
      <3>2. g[k - 1] \in V /\ effects[n.stmts[k]] \in V
        BY <3>1 DEF StmtsHave, V
      <3> QED BY <1>c, <1>2, <2>2, <3>2
    <2> QED BY <2>1, <2>2
  <1>4. ASSUME NEW k \in S, NEW g \in [S -> V], NEW h \in [S -> V],
               \A m \in S : rank[m] < rank[k] => g[m] = h[m]
        PROVE  F[<<k, g>>] = F[<<k, h>>]
    <2>1. CASE k = 0
      BY <1>2, <2>1
    <2>2. CASE k # 0
      <3>1. k - 1 \in S /\ k - 1 < k
        BY <2>2
      <3>2. g[k - 1] = h[k - 1]
        BY <1>1, <1>4, <3>1
      <3> QED BY <1>2, <3>2
    <2> QED BY <2>1, <2>2
  <1>5. V # {} /\ \A k \in S : rank[k] \in Nat
    BY <1>1
  <1> QED BY <1>3, <1>4, <1>5 DEF Recursive, F, rank, V

\* What a sequence has executed after each number of its statements.
LEMMA SequenceEquations ==
  ASSUME NEW n, Len(n.stmts) \in Nat, NEW effects, StmtsHave(n, effects),
         NEW p, p = OfSequence(n, effects)
  PROVE  /\ p \in [0..Len(n.stmts) -> Seq(Stmt)]
         /\ p[0] = <<>>
         /\ \A k \in 1..Len(n.stmts) : p[k] = p[k - 1] \o effects[n.stmts[k]]
PROOF
  <1> DEFINE S == 0..Len(n.stmts)
             V == Seq(Stmt)
             F == SequenceFunctional(n, effects)
             body(f) == [k \in S |-> IF k = 0 THEN <<>> ELSE f[k - 1] \o effects[n.stmts[k]]]
  <1>1. PICK f \in [S -> V] : \A k \in S : f[k] = F[<<k, f>>]
    <2> DEFINE rank == [k \in S |-> k]
    <2>1. Recursive(S, V, rank, F)
      BY SequenceDescends
    <2> HIDE DEF S, F, rank, V
    <2> QED BY <2>1, Recursion
  <1>2. \A g \in [S -> V] : \A k \in S : F[<<k, g>>] = body(g)[k]
    BY DEF SequenceFunctional
  <1>3. f = body(f)
    <2>1. \A k \in S : f[k] = body(f)[k]
      BY <1>1, <1>2
    <2> QED BY <2>1
  <1>4. OfSequence(n, effects) = body(OfSequence(n, effects))
    BY <1>3 DEF OfSequence
  <1>5. p = body(p)
    BY <1>4
  <1> HIDE DEF F
  <1>6. /\ DOMAIN p = S /\ p[0] = <<>>
        /\ \A k \in 1..Len(n.stmts) : p[k] = p[k - 1] \o effects[n.stmts[k]]
    <2>1. DOMAIN p = S /\ \A k \in S : p[k] = body(p)[k]
      BY <1>5
    <2>2. 0 \in S /\ \A k \in 1..Len(n.stmts) : k \in S /\ k # 0
      OBVIOUS
    <2> QED BY <2>1, <2>2
  <1>c. <<>> \in V /\ \A s, t \in V : s \o t \in V
    OBVIOUS
  <1> HIDE DEF V
  <1> DEFINE B == {k \in S : p[k] \notin V}
  <1>7. CASE B = {}
    BY <1>5, <1>6, <1>7 DEF V
  <1>8. CASE B # {}
    <2>1. B \in SUBSET Nat
      OBVIOUS
    <2>2. PICK k \in B : \A j \in B : k <= j
      BY <1>8, <2>1, LeastMember
    <2>3. k # 0
      BY <1>6, <1>c, <2>2
    <2>4. k \in 1..Len(n.stmts) /\ k - 1 \in S /\ k - 1 \notin B
      BY <2>2, <2>3
    <2>5. p[k - 1] \in V /\ effects[n.stmts[k]] \in V
      BY <2>4 DEF StmtsHave, V
    <2> QED BY <1>6, <1>c, <2>2, <2>4, <2>5
  <1> QED BY <1>7, <1>8

\* The effects of a statement, kind by kind.
LEMMA EffectsOfKinds ==
  ASSUME NEW n, NEW effects
  PROVE  /\ n.kind = "StmtSeq" => EffectsOf(n, effects) = OfSequence(n, effects)[Len(n.stmts)]
         /\ n.kind = "Empty" => EffectsOf(n, effects) = <<>>
         /\ n.kind \notin {"StmtSeq", "Empty"} => EffectsOf(n, effects) = <<n>>
PROOF
  BY Zenon DEF EffectsOf

\* The statements of a sequence are statements of a smaller height.
LEMMA StmtsInside ==
  ASSUME NEW n \in Stmt, n.kind = "StmtSeq"
  PROVE  /\ Len(n.stmts) \in Nat /\ Len(n.stmts) > 0
         /\ \A k \in 1..Len(n.stmts) : n.stmts[k] \in Stmt /\ Height[n.stmts[k]] < Height[n]
PROOF
  <1>1. n \in Node
    BY DEF Stmt, Of
  <1>2. n \in [kind : {"StmtSeq"}, stmts : Seq(Stmt) \ {<<>>}]
    BY <1>1, ShapeOfKind DEF IsStmt, StmtKinds
  <1>3. n.stmts \in Seq(Stmt)
    BY <1>2
  <1>4. \A k \in 1..Len(n.stmts) : n.stmts[k] \in Stmt
    BY <1>3, SeqElements
  <1>5. \A k \in 1..Len(n.stmts) : Height[n.stmts[k]] < Height[n]
    BY <1>1, InnerNodes, InsideIsLower
  <1>6. Len(n.stmts) \in Nat /\ Len(n.stmts) > 0
    BY <1>1, <1>3, ListsAreSequences
  <1> QED BY <1>4, <1>5, <1>6

\* The effects of a statement are statements.
LEMMA EffectsAreStmts ==
  ASSUME NEW n \in Stmt, NEW effects,
         n.kind = "StmtSeq" => StmtsHave(n, effects)
  PROVE  EffectsOf(n, effects) \in Seq(Stmt)
PROOF
  <1>1. CASE n.kind = "StmtSeq"
    <2>1. PICK p : p = OfSequence(n, effects)
      OBVIOUS
    <2>2. p \in [0..Len(n.stmts) -> Seq(Stmt)] /\ Len(n.stmts) \in Nat
      BY <1>1, <2>1, StmtsInside, SequenceEquations
    <2>3. p[Len(n.stmts)] \in Seq(Stmt)
      BY <2>2
    <2> QED BY <1>1, <2>1, <2>3, EffectsOfKinds
  <1>2. CASE n.kind # "StmtSeq"
    <2>1. <<>> \in Seq(Stmt) /\ <<n>> \in Seq(Stmt)
      OBVIOUS
    <2> QED BY <1>2, <2>1, EffectsOfKinds
  <1> QED BY <1>1, <1>2

\* That, in one word.
Sequenced(n, effects, p) ==
  /\ p[0] = <<>>
  /\ \A k \in 1..Len(n.stmts) : p[k] = p[k - 1] \o effects[n.stmts[k]]

\* Every sequence of statements is such a recursion.
LEMMA SequencesAre ==
  ASSUME NEW n \in Stmt, n.kind = "StmtSeq", NEW effects, StmtsHave(n, effects)
  PROVE  Sequenced(n, effects, OfSequence(n, effects))
PROOF
  <1>1. Len(n.stmts) \in Nat
    BY StmtsInside
  <1>2. PICK p : p = OfSequence(n, effects)
    OBVIOUS
  <1>3. Sequenced(n, effects, p)
    BY <1>1, <1>2, SequenceEquations DEF Sequenced
  <1> QED BY <1>2, <1>3

\* Only the effects of the statements inside decide those of a sequence.
LEMMA SequencesAgree ==
  ASSUME NEW n \in Stmt, n.kind = "StmtSeq", NEW g, NEW h, StmtsHave(n, g), StmtsHave(n, h),
         \A k \in 1..Len(n.stmts) : g[n.stmts[k]] = h[n.stmts[k]]
  PROVE  OfSequence(n, g)[Len(n.stmts)] = OfSequence(n, h)[Len(n.stmts)]
PROOF
  <1>1. PICK p : p = OfSequence(n, g)
    OBVIOUS
  <1>2. PICK q : q = OfSequence(n, h)
    OBVIOUS
  <1>3. Len(n.stmts) \in Nat
    BY StmtsInside
  <1>4. /\ p[0] = <<>>
        /\ \A k \in 1..Len(n.stmts) : p[k] = p[k - 1] \o g[n.stmts[k]]
    <2>1. Sequenced(n, g, p)
      BY <1>1, SequencesAre
    <2> QED BY <2>1 DEF Sequenced
  <1>5. /\ q[0] = <<>>
        /\ \A k \in 1..Len(n.stmts) : q[k] = q[k - 1] \o h[n.stmts[k]]
    <2>1. Sequenced(n, h, q)
      BY <1>2, SequencesAre
    <2> QED BY <2>1 DEF Sequenced
  <1>6. \A k \in 1..Len(n.stmts) : p[k - 1] = q[k - 1] => p[k] = q[k]
    BY <1>4, <1>5
  <1> DEFINE B == {k \in 0..Len(n.stmts) : p[k] # q[k]}
  <1>7. CASE B = {}
    <2>1. p[Len(n.stmts)] = q[Len(n.stmts)]
      BY <1>3, <1>7
    <2> QED BY <1>1, <1>2, <2>1
  <1>8. CASE B # {}
    <2>1. B \in SUBSET Nat
      OBVIOUS
    <2>2. PICK k \in B : \A j \in B : k <= j
      BY <1>8, <2>1, LeastMember
    <2>3. k # 0
      BY <1>4, <1>5, <2>2
    <2>4. k \in 1..Len(n.stmts) /\ k - 1 \in 0..Len(n.stmts) /\ k - 1 \notin B
      BY <1>3, <2>2, <2>3
    <2> QED BY <1>6, <2>2, <2>4
  <1> QED BY <1>7, <1>8

\* The same, of any statement.
LEMMA EffectsAreLocal ==
  ASSUME NEW n \in Stmt, NEW g, NEW h,
         n.kind = "StmtSeq" => /\ StmtsHave(n, g) /\ StmtsHave(n, h)
                               /\ \A k \in 1..Len(n.stmts) : g[n.stmts[k]] = h[n.stmts[k]]
  PROVE  EffectsOf(n, g) = EffectsOf(n, h)
PROOF
  <1>1. CASE n.kind = "StmtSeq"
    <2>1. OfSequence(n, g)[Len(n.stmts)] = OfSequence(n, h)[Len(n.stmts)]
      BY <1>1, SequencesAgree
    <2> QED BY <1>1, <2>1, EffectsOfKinds
  <1>2. CASE n.kind # "StmtSeq"
    BY <1>2, EffectsOfKinds
  <1> QED BY <1>1, <1>2

\* The effects, as a functional.
EffectsFunctional == [x \in Stmt \X [Stmt -> Seq(Stmt)] |-> EffectsOf(x[1], x[2])]

\* It descends.
LEMMA EffectsDescend == Recursive(Stmt, Seq(Stmt), Height, EffectsFunctional)
PROOF
  <1> DEFINE F == EffectsFunctional
             V == Seq(Stmt)
  <1>1. \A n \in Stmt : \A g \in [Stmt -> V] : F[<<n, g>>] = EffectsOf(n, g)
    BY DEF EffectsFunctional
  <1> HIDE DEF F
  <1>2. \A n \in Stmt : \A g \in [Stmt -> V] : n.kind = "StmtSeq" => StmtsHave(n, g)
    BY StmtsInside DEF StmtsHave
  <1>3. ASSUME NEW n \in Stmt, NEW g \in [Stmt -> V]
        PROVE  F[<<n, g>>] \in V
    <2>1. EffectsOf(n, g) \in V
      BY <1>2, EffectsAreStmts
    <2> QED BY <1>1, <2>1
  <1>4. ASSUME NEW n \in Stmt, NEW g \in [Stmt -> V], NEW h \in [Stmt -> V],
               \A m \in Stmt : Height[m] < Height[n] => g[m] = h[m]
        PROVE  F[<<n, g>>] = F[<<n, h>>]
    <2>1. n.kind = "StmtSeq" => \A k \in 1..Len(n.stmts) : g[n.stmts[k]] = h[n.stmts[k]]
      BY <1>4, StmtsInside
    <2>2. EffectsOf(n, g) = EffectsOf(n, h)
      BY <1>2, <2>1, EffectsAreLocal
    <2> QED BY <1>1, <2>2
  <1>5. V # {} /\ \A n \in Stmt : Height[n] \in Nat
    <2>1. <<>> \in V
      OBVIOUS
    <2>2. \A n \in Stmt : n \in Node
      BY DEF Stmt, Of
    <2> QED BY <2>1, <2>2, TreesAreFinite
  <1> QED BY <1>3, <1>4, <1>5 DEF Recursive, F

\* Every statement has effects, given by the equations of the language.
LEMMA EffectsEquations ==
  /\ Effects \in [Stmt -> Seq(Stmt)]
  /\ \A n \in Stmt : Effects[n] = EffectsOf(n, Effects)
PROOF
  <1> DEFINE F == EffectsFunctional
             V == Seq(Stmt)
             body(f) == [n \in Stmt |-> EffectsOf(n, f)]
  <1>1. PICK f \in [Stmt -> V] : \A n \in Stmt : f[n] = F[<<n, f>>]
    <2>1. Recursive(Stmt, V, Height, F)
      BY EffectsDescend
    <2> HIDE DEF F, V
    <2> QED BY <2>1, Recursion
  <1>2. \A n \in Stmt : \A g \in [Stmt -> V] : F[<<n, g>>] = EffectsOf(n, g)
    BY DEF EffectsFunctional
  <1>3. f = body(f)
    <2>1. \A n \in Stmt : f[n] = body(f)[n]
      BY <1>1, <1>2
    <2> QED BY <2>1
  <1>4. Effects = body(Effects)
    BY <1>3 DEF Effects
  <1>5. PICK g : g = Effects
    OBVIOUS
  <1>6. g = body(g)
    BY <1>4, <1>5
  <1>7. DOMAIN g = Stmt /\ \A n \in Stmt : g[n] = EffectsOf(n, g)
    BY <1>6
  <1> HIDE DEF F, V
  <1> DEFINE B == {Height[n] : n \in {m \in Stmt : g[m] \notin V}}
  <1>0. \A n \in Stmt : Height[n] \in Nat
    <2>1. \A n \in Stmt : n \in Node
      BY DEF Stmt, Of
    <2> QED BY <2>1, TreesAreFinite
  <1>8. CASE B = {}
    <2>1. \A n \in Stmt : g[n] \in V
      BY <1>8
    <2>2. g \in [Stmt -> V]
      BY <1>6, <2>1
    <2> QED BY <1>5, <1>7, <2>2 DEF V
  <1>9. CASE B # {}
    <2>1. B \in SUBSET Nat
      BY <1>0
    <2>2. PICK k \in B : \A j \in B : k <= j
      BY <1>9, <2>1, LeastMember
    <2>3. PICK n \in Stmt : g[n] \notin V /\ Height[n] = k
      BY <2>2
    <2>4. ASSUME n.kind = "StmtSeq", NEW j \in 1..Len(n.stmts)
          PROVE  g[n.stmts[j]] \in V
      <3>1. n.stmts[j] \in Stmt /\ Height[n.stmts[j]] < Height[n]
        BY <2>4, StmtsInside
      <3>2. ~(k <= Height[n.stmts[j]])
        BY <1>0, <2>3, <3>1
      <3> QED BY <2>2, <3>1, <3>2
    <2>5. n.kind = "StmtSeq" => StmtsHave(n, g)
      BY <2>4 DEF StmtsHave, V
    <2>6. EffectsOf(n, g) \in V
      BY <2>5, EffectsAreStmts DEF V
    <2> QED BY <1>7, <2>3, <2>6
  <1> QED BY <1>8, <1>9

-----------------------------------------------------------------------------
(* Where the statements of a program stand among all that it executes.     *)

\* What the program executes, one statement after another.
Steps == Effects[Body(cu)]

\* The effects of n are the ones of s after the first c.
LiesAt(s, n, c) ==
  \A j \in 1..Len(Effects[n]) : c + j <= Len(s) /\ s[c + j] = Effects[n][j]

\* What s begins with.
Begins(s, t) == Len(s) <= Len(t) /\ \A j \in 1..Len(s) : t[j] = s[j]

\* Beginnings of beginnings.
LEMMA BeginsConcat ==
  ASSUME NEW r \in Seq(Stmt), NEW s \in Seq(Stmt), NEW t \in Seq(Stmt), Begins(r \o s, t)
  PROVE  /\ Begins(r, t)
         /\ \A j \in 1..Len(s) : Len(r) + j <= Len(t) /\ t[Len(r) + j] = s[j]
PROOF
  <1>1. /\ Len(r \o s) = Len(r) + Len(s) /\ Len(r) \in Nat /\ Len(s) \in Nat /\ Len(t) \in Nat
        /\ \A j \in 1..Len(r) + Len(s) :
             (r \o s)[j] = IF j <= Len(r) THEN r[j] ELSE s[j - Len(r)]
    BY ConcatProperties, LenProperties
  <1>2. ASSUME NEW j \in 1..Len(r)
        PROVE  t[j] = r[j]
    <2>1. j \in 1..Len(r) + Len(s) /\ j <= Len(r)
      BY <1>1
    <2> QED BY <1>1, <2>1 DEF Begins
  <1>3. ASSUME NEW j \in 1..Len(s)
        PROVE  Len(r) + j <= Len(t) /\ t[Len(r) + j] = s[j]
    <2>1. /\ Len(r) + j \in 1..Len(r) + Len(s) /\ ~(Len(r) + j <= Len(r))
          /\ (Len(r) + j) - Len(r) = j
      BY <1>1
    <2> QED BY <1>1, <2>1 DEF Begins
  <1>4. Len(r) <= Len(t)
    BY <1>1 DEF Begins
  <1> QED BY <1>2, <1>3, <1>4 DEF Begins

\* What a sequence has executed after k of its statements, and where the next
\* one stands.
LEMMA PartsOfSequence ==
  ASSUME NEW n \in Stmt, n.kind = "StmtSeq", NEW p, p = OfSequence(n, Effects)
  PROVE  /\ p \in [0..Len(n.stmts) -> Seq(Stmt)]
         /\ Len(p[0]) = 0 /\ p[Len(n.stmts)] = Effects[n]
         /\ \A k \in 1..Len(n.stmts) :
              /\ Len(p[k]) = Len(p[k - 1]) + Len(Effects[n.stmts[k]])
              /\ \A c \in Nat : LiesAt(Steps, n, c) => LiesAt(Steps, n.stmts[k], c + Len(p[k - 1]))
PROOF
  <1> DEFINE m == Len(n.stmts)
             q == p[m]
  <1>1. /\ Effects \in [Stmt -> Seq(Stmt)]
        /\ Effects[n] = EffectsOf(n, Effects)
    BY EffectsEquations
  <1>2. /\ m \in Nat /\ m > 0
        /\ \A k \in 1..m : n.stmts[k] \in Stmt
    BY StmtsInside
  <1>3. \A k \in 1..m : Effects[n.stmts[k]] \in Seq(Stmt)
    BY <1>1, <1>2
  <1>4. StmtsHave(n, Effects)
    BY <1>3 DEF StmtsHave
  <1>5. /\ p \in [0..m -> Seq(Stmt)]
        /\ p[0] = <<>>
        /\ \A k \in 1..m : p[k] = p[k - 1] \o Effects[n.stmts[k]]
    BY <1>2, <1>4, SequenceEquations
  <1>6. p[m] = Effects[n]
    BY <1>1, EffectsOfKinds
  <1>7. \A k \in 0..m : p[k] \in Seq(Stmt)
    BY <1>5
  <1>8. \A k \in 1..m : p[k - 1] \in Seq(Stmt)
    <2>1. \A k \in 1..m : k - 1 \in 0..m
      BY <1>2
    <2> QED BY <1>7, <2>1
  <1>9. ASSUME NEW k \in 1..m, Begins(p[k], q)
        PROVE  Begins(p[k - 1], q)
    <2>1. q \in Seq(Stmt)
      <3>1. m \in 0..m
        BY <1>2
      <3> QED BY <1>7, <3>1
    <2>2. PICK r : r = p[k - 1]
      OBVIOUS
    <2>3. PICK s : s = Effects[n.stmts[k]]
      OBVIOUS
    <2>4. r \in Seq(Stmt) /\ s \in Seq(Stmt) /\ p[k] = r \o s
      BY <1>3, <1>5, <1>8, <2>2, <2>3
    <2>5. Begins(r \o s, q)
      BY <1>9, <2>4
    <2> HIDE DEF q
    <2>6. Begins(r, q)
      BY <2>1, <2>4, <2>5, BeginsConcat
    <2> QED BY <2>2, <2>6
  <1>10. \A k \in 0..m : Begins(p[k], q)
    <2> DEFINE B == {d \in 0..m : ~Begins(p[m - d], q)}
    <2>1. CASE B = {}
      <3>1. \A k \in 0..m : m - k \in 0..m /\ m - (m - k) = k
        BY <1>2
      <3> QED BY <2>1, <3>1
    <2>2. CASE B # {}
      <3>1. B \in SUBSET Nat
        OBVIOUS
      <3>2. PICK d \in B : \A j \in B : d <= j
        BY <2>2, <3>1, LeastMember
      <3>3. Begins(p[m], q)
        <4>1. m \in 0..m
          BY <1>2
        <4>2. Len(p[m]) \in Nat
          BY <1>7, <4>1, LenProperties
        <4> QED BY <4>2 DEF Begins
      <3>4. d # 0
        BY <1>2, <3>2, <3>3
      <3>5. /\ d - 1 \in 0..m /\ ~(d <= d - 1)
            /\ m - (d - 1) \in 1..m /\ (m - (d - 1)) - 1 = m - d
        BY <1>2, <3>2, <3>4
      <3>6. Begins(p[m - (d - 1)], q)
        BY <3>2, <3>5
      <3>7. Begins(p[m - d], q)
        BY <1>9, <3>5, <3>6
      <3> QED BY <3>2, <3>7
    <2> QED BY <2>1, <2>2
  <1>11. ASSUME NEW k \in 1..m
         PROVE  /\ Len(p[k]) = Len(p[k - 1]) + Len(Effects[n.stmts[k]])
                /\ \A c \in Nat : LiesAt(Steps, n, c) => LiesAt(Steps, n.stmts[k], c + Len(p[k - 1]))
    <2> DEFINE r == p[k - 1]
               s == Effects[n.stmts[k]]
    <2>1. r \in Seq(Stmt) /\ s \in Seq(Stmt) /\ p[k] = r \o s /\ q \in Seq(Stmt) /\ k \in 0..m
      <3>1. m \in 0..m /\ k \in 0..m
        BY <1>2
      <3> QED BY <1>3, <1>5, <1>7, <1>8, <3>1
    <2>2. Len(p[k]) = Len(r) + Len(s) /\ Len(r) \in Nat /\ Len(s) \in Nat
      BY <2>1, ConcatProperties, LenProperties
    <2>3. \A j \in 1..Len(s) : Len(r) + j <= Len(q) /\ q[Len(r) + j] = s[j]
      <3>1. Begins(r \o s, q)
        BY <1>10, <2>1
      <3> QED BY <2>1, <3>1, BeginsConcat
    <2>4. ASSUME NEW c \in Nat, LiesAt(Steps, n, c), NEW j \in 1..Len(s)
          PROVE  (c + Len(r)) + j <= Len(Steps) /\ Steps[(c + Len(r)) + j] = s[j]
      <3>1. Len(r) + j \in 1..Len(q)
        <4>1. Len(q) \in Nat
          BY <2>1, LenProperties
        <4> QED BY <2>2, <2>3, <4>1
      <3>2. c + (Len(r) + j) = (c + Len(r)) + j
        BY <2>2
      <3>3. c + (Len(r) + j) <= Len(Steps) /\ Steps[c + (Len(r) + j)] = q[Len(r) + j]
        BY <1>6, <2>4, <3>1 DEF LiesAt
      <3> QED BY <2>3, <3>2, <3>3
    <2> QED BY <2>2, <2>4 DEF LiesAt
  <1> QED
    <2>1. Len(p[0]) = 0
      BY <1>5
    <2> QED BY <1>5, <1>6, <1>11, <2>1

\* The body of the program is all of it.
LEMMA BodyIsAll ==
  ASSUME cu \in Units
  PROVE  /\ Body(cu) \in Stmt /\ Body(cu).kind = "StmtSeq" /\ LiesAt(Steps, Body(cu), 0)
         /\ Steps \in Seq(Stmt) /\ Len(Steps) \in Nat
PROOF
  <1>1. Body(cu) \in Stmt /\ Body(cu).kind = "StmtSeq"
    BY UnitParts, BodyIsStmtSeq DEF Stmt, Of, StmtKinds
  <1>2. Steps \in Seq(Stmt) /\ Len(Steps) \in Nat
    BY <1>1, EffectsEquations, LenProperties DEF Steps
  <1>3. LiesAt(Steps, Body(cu), 0)
    BY <1>2 DEF LiesAt, Steps
  <1> QED BY <1>1, <1>2, <1>3

-----------------------------------------------------------------------------
(* Types and values.                                                       *)

\* The values that variables can have: those of a type narrower than Integer
\* are never determined.
Envs ==
  {e \in [DOMAIN VarTypes(cu) -> Vals] :
     \A x \in DOMAIN VarTypes(cu) : VarTypes(cu)[x] # "Integer" => e[x] = Undef}

\* An operator whose result is no Boolean has operands of the result's type.
LEMMA OperandTypes ==
  ASSUME NEW op \in MultOp \cup AddOp \cup RelOp, NEW l \in Verdicts, NEW r \in Verdicts,
         Chained(op, l, r) \in BaseType
  PROVE  op \in IntegerOps /\ l = Chained(op, l, r) /\ r = Chained(op, l, r)
PROOF
  <1>1. BaseType \cap Errors = {} /\ "Boolean" \notin BaseType
        /\ "NotImplemented" \in Errors /\ "TypeClash" \in Errors
    BY DEF BaseType, Errors
  <1>2. l \notin Errors /\ op # "In" /\ r \notin Errors /\ Chained(op, l, r) = ResultOf(op, l, r)
    BY <1>1 DEF Chained
  <1>3. op # "RealDiv"
    BY <1>1, <1>2, Zenon DEF ResultOf
  <1>4. op \notin {"And", "Or"}
    <2>1. op \in {"And", "Or"} => ResultOf(op, l, r) \in {"Boolean", "TypeClash"}
      BY Zenon DEF ResultOf
    <2> QED BY <1>1, <1>2, <2>1
  <1>5. op \notin RelOp
    <2>1. op \in RelOp => ResultOf(op, l, r) \in {"Boolean", "TypeClash"}
      BY Zenon DEF ResultOf, RelOp
    <2> QED BY <1>1, <1>2, <2>1
  <1>6. op \in IntegerOps
    BY <1>3, <1>4, <1>5 DEF IntegerOps, MultOp, AddOp
  <1>7. ResultOf(op, l, r) = IF l = r /\ l # "String" THEN l ELSE "TypeClash"
    BY <1>3, <1>4, <1>5, Zenon DEF ResultOf
  <1> QED BY <1>1, <1>2, <1>6, <1>7

\* All operands of a chain of such operators are of its type.
LEMMA ChainUniform ==
  ASSUME IInv, DeclsDone, NEW n \in Node, n.kind \in ChainKinds, NodeType[n] \in BaseType,
         NEW t, t = OfChain(n, NodeType)
  PROVE  /\ Len(n.ops) \in Nat
         /\ \A k \in 0..Len(n.ops) : t[k] = NodeType[n]
         /\ NodeType[n.start] = NodeType[n]
         /\ \A k \in 1..Len(n.ops) :
              n.ops[k].op \in IntegerOps /\ NodeType[n.ops[k].rhs] = NodeType[n]
PROOF
  <1> DEFINE m == Len(n.ops)
  <1>1. /\ NodeType \in [Node -> Verdicts]
        /\ NodeType[n] = TypeOf(n, VarTypes(cu), NodeType)
    BY NodeTypes
  <1>2. /\ t \in [0..m -> Verdicts]
        /\ t[0] = NodeType[n.start]
        /\ \A k \in 1..m : t[k] = Chained(n.ops[k].op, t[k - 1], NodeType[n.ops[k].rhs])
    BY <1>1, ChainTypes
  <1>3. NodeType[n] = t[m]
    BY <1>1, TypeOfKinds
  <1>4. /\ m \in Nat
        /\ \A k \in 1..m : n.ops[k].rhs \in Node /\ n.ops[k].op \in MultOp \cup AddOp \cup RelOp
    BY ChainNodes
  <1>5. ASSUME NEW k \in 1..m, t[k] = t[m]
        PROVE  t[k - 1] = t[m] /\ n.ops[k].op \in IntegerOps /\ NodeType[n.ops[k].rhs] = t[m]
    <2>1. t[k - 1] \in Verdicts
      <3>1. k - 1 \in 0..m
        BY <1>4
      <3> QED BY <1>2, <3>1
    <2>2. NodeType[n.ops[k].rhs] \in Verdicts
      BY <1>1, <1>4
    <2> QED BY <1>2, <1>3, <1>4, <1>5, <2>1, <2>2, OperandTypes
  <1>6. \A k \in 0..m : t[k] = t[m]
    <2> DEFINE B == {d \in 0..m : t[m - d] # t[m]}
    <2>1. CASE B = {}
      <3>1. \A k \in 0..m : m - k \in 0..m /\ m - (m - k) = k
        BY <1>4
      <3> QED BY <2>1, <3>1
    <2>2. CASE B # {}
      <3>1. B \in SUBSET Nat
        OBVIOUS
      <3>2. PICK d \in B : \A j \in B : d <= j
        BY <2>2, <3>1, LeastMember
      <3>3. d # 0
        BY <1>4, <3>2
      <3>4. /\ d - 1 \in 0..m /\ ~(d <= d - 1)
            /\ m - (d - 1) \in 1..m /\ (m - (d - 1)) - 1 = m - d
        BY <1>4, <3>2, <3>3
      <3>5. t[m - (d - 1)] = t[m]
        BY <3>2, <3>4
      <3> QED BY <1>5, <3>2, <3>4, <3>5
    <2> QED BY <2>1, <2>2
  <1>7. \A k \in 1..m : k \in 0..m
    BY <1>4
  <1>8. 0 \in 0..m
    BY <1>4
  <1> QED BY <1>2, <1>3, <1>4, <1>5, <1>6, <1>7, <1>8

\* The value of an expression and of what is inside it.
LEMMA EvalNow ==
  ASSUME NEW e \in Envs, NEW n \in Evaluable, NEW v, v = Source!Eval(e)
  PROVE  /\ v \in [Evaluable -> Vals] /\ v[n] \in Vals
         /\ InsideHave(n, v)
         /\ v[n] = Source!ValueFrom(n, e, v)
PROOF
  <1>1. e \in [DOMAIN VarTypes(cu) -> Vals]
    BY DEF Envs
  <1>2. v \in [Evaluable -> Vals] /\ v[n] = Source!ValueFrom(n, e, v)
    BY <1>1, EvalEquations
  <1>3. InsideHave(n, v)
    BY <1>2, InsideIsEvaluable DEF InsideHave
  <1> QED BY <1>2, <1>3

\* The value of a chain and of what it begins with.
LEMMA ChainNow ==
  ASSUME NEW e \in Envs, NEW n \in Evaluable, n.kind \in ChainKinds,
         NEW v, v = Source!Eval(e), NEW p, p = Source!OfOperators(n, v)
  PROVE  /\ Len(n.ops) \in Nat /\ OperandsHave(n, v)
         /\ p \in [0..Len(n.ops) -> Vals]
         /\ p[0] = v[n.start] /\ p[Len(n.ops)] = v[n]
         /\ \A k \in 1..Len(n.ops) :
              p[k] = Source!Strict(n.ops[k].op, p[k - 1], v[n.ops[k].rhs])
         /\ \A k \in 0..Len(n.ops) : p[k] = Undef => v[n] = Undef
PROOF
  <1>1. n \in Node /\ InsideHave(n, v) /\ v[n] = Source!ValueFrom(n, e, v)
    BY EvalNow, InsideIsEvaluable
  <1>2. OperandsHave(n, v) /\ Len(n.ops) \in Nat
    BY <1>1, OperandsInside
  <1>3. p[Len(n.ops)] = v[n]
    BY <1>1, ValueOfKinds
  <1>4. /\ p \in [0..Len(n.ops) -> Vals]
        /\ p[0] = v[n.start]
        /\ \A k \in 1..Len(n.ops) :
             p[k] = Source!Strict(n.ops[k].op, p[k - 1], v[n.ops[k].rhs])
    BY <1>2, OperatorsEquations
  <1>5. \A k \in 0..Len(n.ops) : p[k] = Undef => p[Len(n.ops)] = Undef
    BY <1>2, UndefSticks
  <1> QED BY <1>2, <1>3, <1>4, <1>5

\* An expression of a type narrower than Integer has no value.
LEMMA NarrowUndef ==
  ASSUME IInv, DeclsDone, NEW e \in Envs,
         NEW n \in Evaluable, NodeType[n] \in {"Char", "String"}
  PROVE  Source!Eval(e)[n] = Undef
PROOF
  <1>0. PICK v : v = Source!Eval(e)
    OBVIOUS
  <1> DEFINE Bad == {m \in Evaluable : NodeType[m] \in {"Char", "String"} /\ v[m] # Undef}
             B == {Height[m] : m \in Bad}
  <1>1. \A m \in Evaluable : m \in Node /\ m.kind \in ExprKinds /\ Height[m] \in Nat
    BY InsideIsEvaluable, TreesAreFinite
  <1>2. /\ NodeType \in [Node -> Verdicts]
        /\ \A m \in Node : NodeType[m] = TypeOf(m, VarTypes(cu), NodeType)
    BY NodeTypes
  <1>3. CASE B = {}
    BY <1>0, <1>3
  <1>4. CASE B # {}
    <2>1. B \in SUBSET Nat
      BY <1>1
    <2>2. PICK h \in B : \A j \in B : h <= j
      BY <1>4, <2>1, LeastMember
    <2>3. PICK m \in Bad : Height[m] = h
      BY <2>2
    <2>4. \A k \in SubNodes(m) :
            /\ k \in Evaluable
            /\ NodeType[k] \in {"Char", "String"} => v[k] = Undef
      <3> TAKE k \in SubNodes(m)
      <3>1. k \in Evaluable /\ Height[k] < Height[m]
        BY <2>3, InsideIsEvaluable
      <3>2. ~(h <= Height[k])
        BY <1>1, <2>3, <3>1
      <3> QED BY <2>2, <3>1, <3>2
    <2>5. /\ m \in Node /\ m.kind \in ExprKinds /\ m \in Evaluable
          /\ NodeType[m] = TypeOf(m, VarTypes(cu), NodeType)
          /\ NodeType[m] \in {"Char", "String"}
      BY <1>1, <1>2, <2>3
    <2>6. v[m] = Source!ValueFrom(m, e, v)
      BY <1>0, <2>5, EvalNow
    <2>7. CASE m.kind \in {"Number", "Bool", "String", "Nil", "FuncCall"}
      <3>1. NodeType[m] \in {"Integer", "Boolean", "NotImplemented"}
        BY <2>5, <2>7, TypeOfKinds
      <3> QED BY <2>5, <3>1
    <2>8. CASE m.kind = "Designator"
      <3>1. m.ident \in DOMAIN VarTypes(cu) /\ VarTypes(cu)[m.ident] # "Integer"
        BY <2>5, <2>8, TypeOfKinds
      <3>2. e[m.ident] = Undef
        BY <3>1 DEF Envs
      <3>3. v[m] = IF m.ident \in DOMAIN e THEN e[m.ident] ELSE Undef
        BY <2>6, <2>8, ValueOfKinds
      <3> QED BY <2>3, <3>2, <3>3
    <2>9. CASE m.kind \in {"Paren", "Negation"}
      <3>1. m.inner \in SubNodes(m)
        BY <2>5, <2>9, InnerNodes
      <3>2. NodeType[m.inner] \in {"Char", "String"}
        BY <2>5, <2>9, TypeOfKinds
      <3>3. v[m.inner] = Undef
        BY <2>4, <3>1, <3>2
      <3>4. v[m] = Undef
        BY <2>6, <2>9, <3>3, ValueOfKinds
      <3> QED BY <2>3, <3>4
    <2>10. CASE m.kind \in ChainKinds
      <3>1. m.start \in SubNodes(m)
        BY <2>5, <2>10, InnerNodes
      <3>2. NodeType[m] \in BaseType
        BY <2>5 DEF BaseType
      <3>3. NodeType[m.start] = NodeType[m]
        BY <2>5, <2>10, <3>2, ChainUniform
      <3>4. v[m.start] = Undef
        BY <2>4, <2>5, <3>1, <3>3
      <3>5. PICK p : p = Source!OfOperators(m, v)
        OBVIOUS
      <3>6. /\ Len(m.ops) \in Nat /\ p[0] = v[m.start]
            /\ \A k \in 0..Len(m.ops) : p[k] = Undef => v[m] = Undef
        BY <1>0, <2>5, <2>10, <3>5, ChainNow
      <3>7. 0 \in 0..Len(m.ops)
        BY <3>6
      <3>8. v[m] = Undef
        BY <3>4, <3>6, <3>7
      <3> QED BY <2>3, <3>8
    <2> QED BY <2>5, <2>7, <2>8, <2>9, <2>10 DEF ExprKinds, FactorKinds
  <1> QED BY <1>3, <1>4

\* The instruction of an operator computes its value, at the type of integers
\* or when an operand has none.
LEMMA OperatorComputes ==
  ASSUME NEW op \in IntegerOps, NEW l \in Vals, NEW r \in Vals,
         NEW ty, ty = "i32" \/ Undef \in {l, r},
         NEW vals, vals[1] = l, vals[2] = r
  PROVE  Apply(Opcode(op), ty, vals) = Source!Strict(op, l, r)
PROOF
  <1>1. CASE ty = "i32"
    BY <1>1, OperatorMeans
  <1>2. CASE Undef \in {l, r}
    <2>1. Opcode(op) # "select"
      BY Zenon DEF Opcode, IntegerOps
    <2>2. Apply(Opcode(op), ty, vals) = Undef
      BY <1>2, <2>1 DEF Apply
    <2>3. Source!Strict(op, l, r) = Undef
      BY <1>2 DEF Source!Strict
    <2> QED BY <2>2, <2>3
  <1> QED BY <1>1, <1>2

-----------------------------------------------------------------------------
(***************************************************************************)
(* What code computes.  Between two statements executed, the registers     *)
(* rho follow from the values e of the variables: an instruction of code c *)
(* loads what e says or computes from its operands.  The scope sc says     *)
(* whose slot is read.                                                     *)
(***************************************************************************)
Effect(i) == i.op \in {"store", "call"}

\* The statements executed by the first k instructions.
Done(c, k) == Cardinality({i \in 1..k : Effect(c[i])})

ValIn(rho, o) == IF IsConst(o) THEN o.val ELSE rho[o.reg]

Computes(c, rho, i) ==
  LET args == c[i].args
  IN IF WellTyped(c[i].op, args)
     THEN Apply(c[i].op, args[1].ty, [a \in DOMAIN args |-> ValIn(rho, args[a])])
     ELSE Undef

Follows(c, sc, rho, e, i) ==
  /\ c[i].op = "load" =>
       \A x \in DOMAIN sc : sc[x].item = "var" /\ sc[x].alloc = c[i].args[1].reg => rho[i] = e[x]
  /\ c[i].op \in PureOps => rho[i] = Computes(c, rho, i)

\* The registers of the instructions since the last statement executed.
Consistent(c, sc, rho, e, k) ==
  \A i \in 1..k : Done(c, i) = Done(c, k) => Follows(c, sc, rho, e, i)

\* Statements executed are counted one by one.
LEMMA Counting ==
  ASSUME NEW c
  PROVE  /\ Done(c, 0) = 0
         /\ \A k \in Nat : Done(c, k) \in Nat
         /\ \A k \in Nat \ {0} :
              Done(c, k) = IF Effect(c[k]) THEN Done(c, k - 1) + 1 ELSE Done(c, k - 1)
         /\ \A k \in Nat : \A j \in 0..k : Done(c, j) <= Done(c, k)
PROOF
  <1> DEFINE S(k) == {i \in 1..k : Effect(c[i])}
  <1>1. \A k \in Nat : IsFiniteSet(S(k)) /\ Cardinality(S(k)) \in Nat
    <2> TAKE k \in Nat
    <2>1. IsFiniteSet(1..k)
      BY FS_Interval
    <2>2. S(k) \subseteq 1..k
      OBVIOUS
    <2>3. IsFiniteSet(S(k))
      BY <2>1, <2>2, FS_Subset
    <2> QED BY <2>3, FS_CardinalityType
  <1>2. \A k : Done(c, k) = Cardinality(S(k))
    BY DEF Done
  <1>3. Done(c, 0) = 0
    <2>1. S(0) = {}
      OBVIOUS
    <2> QED BY <1>2, <2>1, FS_EmptySet
  <1>4. ASSUME NEW k \in Nat \ {0}
        PROVE  Done(c, k) = IF Effect(c[k]) THEN Done(c, k - 1) + 1 ELSE Done(c, k - 1)
    <2>1. k - 1 \in Nat /\ k \notin S(k - 1)
      OBVIOUS
    <2>2. S(k) = IF Effect(c[k]) THEN S(k - 1) \cup {k} ELSE S(k - 1)
      <3>1. \A i \in 1..k : i \in 1..k - 1 \/ i = k
        OBVIOUS
      <3>2. k \in 1..k /\ \A i \in 1..k - 1 : i \in 1..k
        OBVIOUS
      <3> QED BY <3>1, <3>2
    <2>3. Effect(c[k]) => Cardinality(S(k - 1) \cup {k}) = Cardinality(S(k - 1)) + 1
      <3> HIDE DEF S
      <3> QED BY <1>1, <2>1, FS_AddElement
    <2> HIDE DEF S
    <2> QED BY <1>2, <2>2, <2>3
  <1>5. ASSUME NEW k \in Nat, NEW j \in 0..k
        PROVE  Done(c, j) <= Done(c, k)
    <2>1. S(j) \subseteq S(k)
      OBVIOUS
    <2> HIDE DEF S
    <2>2. IsFiniteSet(S(k))
      BY <1>1
    <2>3. Cardinality(S(j)) <= Cardinality(S(k))
      BY <2>1, <2>2, FS_Subset
    <2> QED BY <1>2, <2>3
  <1> HIDE DEF S
  <1> QED BY <1>1, <1>2, <1>3, <1>4, <1>5

\* One instruction more: a statement executed makes the registers before it
\* worthless, another one adds its own.
LEMMA ConsistentStep ==
  ASSUME NEW c, NEW sc, NEW rho, NEW e, NEW k \in Nat \ {0}
  PROVE  /\ Effect(c[k]) => Consistent(c, sc, rho, e, k)
         /\ ~Effect(c[k]) => (Consistent(c, sc, rho, e, k) <=>
                                Consistent(c, sc, rho, e, k - 1) /\ Follows(c, sc, rho, e, k))
PROOF
  <1>1. /\ k - 1 \in Nat /\ k \in 1..k /\ \A i \in 1..k - 1 : i \in 1..k
        /\ \A i \in 1..k : i \in 1..k - 1 \/ i = k
    OBVIOUS
  <1>2. Done(c, k) = IF Effect(c[k]) THEN Done(c, k - 1) + 1 ELSE Done(c, k - 1)
    BY Counting
  <1>3. ASSUME Effect(c[k])
        PROVE  Consistent(c, sc, rho, e, k)
    <2>1. ASSUME NEW i \in 1..k - 1
          PROVE  Done(c, i) # Done(c, k)
      <3>1. i \in 0..k - 1 /\ i \in Nat
        OBVIOUS
      <3>2. Done(c, i) <= Done(c, k - 1) /\ Done(c, i) \in Nat /\ Done(c, k - 1) \in Nat
        BY <1>1, <3>1, Counting
      <3> QED BY <1>2, <1>3, <3>2
    <2>2. Follows(c, sc, rho, e, k)
      BY <1>3 DEF Effect, Follows, PureOps, ArithOps, DivOps, CmpOps
    <2> QED BY <1>1, <2>1, <2>2 DEF Consistent
  <1>4. ASSUME ~Effect(c[k])
        PROVE  Consistent(c, sc, rho, e, k) <=>
                 Consistent(c, sc, rho, e, k - 1) /\ Follows(c, sc, rho, e, k)
    BY <1>1, <1>2, <1>4 DEF Consistent
  <1> QED BY <1>3, <1>4

\* Code that begins in the same way.
LEMMA SameCode ==
  ASSUME NEW c, NEW d, NEW sc, NEW m \in Nat, \A i \in 1..m : d[i] = c[i]
  PROVE  \A k \in 0..m :
           /\ Done(d, k) = Done(c, k)
           /\ \A rho, e : Consistent(d, sc, rho, e, k) <=> Consistent(c, sc, rho, e, k)
PROOF
  <1>1. \A k \in 0..m : Done(d, k) = Done(c, k)
    <2> TAKE k \in 0..m
    <2>1. {i \in 1..k : Effect(d[i])} = {i \in 1..k : Effect(c[i])}
      OBVIOUS
    <2> QED BY <2>1 DEF Done
  <1>2. \A i \in 1..m : \A rho, e : Follows(d, sc, rho, e, i) <=> Follows(c, sc, rho, e, i)
    BY DEF Follows, Computes
  <1>3. ASSUME NEW k \in 0..m, NEW rho, NEW e
        PROVE  Consistent(d, sc, rho, e, k) <=> Consistent(c, sc, rho, e, k)
    <2>1. \A i \in 1..k : i \in 1..m /\ i \in 0..m
      OBVIOUS
    <2> QED BY <1>1, <1>2, <2>1 DEF Consistent
  <1> QED BY <1>1, <1>3

-----------------------------------------------------------------------------
(***************************************************************************)
(* The invariant of the walk over a program of the language.               *)
(***************************************************************************)

\* The expression a statement is about.
ExprOf(s) == IF s.kind = "Assignment" THEN s.expr ELSE s.params[1]

\* Whatever the registers may be, o has the value of the expression n after
\* the first k instructions.
Means(k, o, n) ==
  \A rho : \A e \in Envs :
    Consistent(ir, InnerScope, rho, e, k) => ValIn(rho, o) = Source!Eval(e)[n]

\* The code so far.
Emitted == Done(ir, Len(ir))

Knows(rho, e) == Consistent(ir, InnerScope, rho, e, Len(ir))

Denotes(o, n) == \A rho : \A e \in Envs : Knows(rho, e) => ValIn(rho, o) = Source!Eval(e)[n]

\* o has the value of the chain n up to its j-th operator.
DenotesPart(o, n, j) ==
  \A rho : \A e \in Envs :
    Knows(rho, e) => ValIn(rho, o) = Source!OfOperators(n, Source!Eval(e))[j]

\* A store executes the assignment whose turn it is, a call the procedure
\* statement; a division that determines nothing is inside an expression that
\* has no value; and main returns when all has been executed.
RightStore(k) ==
  LET s == Steps[Done(ir, k)]
      x == s.target.ident
  IN /\ Done(ir, k) <= Len(Steps) /\ s.kind = "Assignment"
     /\ x \in DOMAIN InnerScope
     /\ ir[k].args[2].reg = InnerScope[x].alloc
     /\ ir[k].args[1].ty = LlvmType(InnerScope[x].type)
     /\ Means(k - 1, ir[k].args[1], s.expr)

RightCall(k) ==
  LET s == Steps[Done(ir, k)]
  IN /\ Done(ir, k) <= Len(Steps) /\ s.kind = "ProcCall"
     /\ ir[k].args[1].ty = "i32"
     /\ Means(k - 1, ir[k].args[1], s.params[1])

RightDivision(k) ==
  /\ Done(ir, k) < Len(Steps)
  /\ \A rho : \A e \in Envs :
       Consistent(ir, InnerScope, rho, e, k - 1) /\ Computes(ir, rho, k) = Undef =>
         Source!Eval(e)[ExprOf(Steps[Done(ir, k) + 1])] = Undef

RightCode(k) ==
  /\ ir[k].op = "store" => RightStore(k)
  /\ ir[k].op = "call" => RightCall(k)
  /\ ir[k].op \in DivOps => RightDivision(k)
  /\ ir[k].op = "ret" => Done(ir, k) = Len(Steps)

CodeInv == \A k \in DOMAIN ir : RightCode(k)

(***************************************************************************)
(* o[k] is where the node of the k-th frame stands in the program.  A      *)
(* sequence that is being visited has executed the statements before the   *)
(* one it has called, and when that has returned, this one too.            *)
(***************************************************************************)
SoFar(n, j) == IF n.kind = "StmtSeq" THEN Len(OfSequence(n, Effects)[j]) ELSE 0

Placed(o) ==
  /\ o[1] = 0
  /\ Emitted = IF frames = <<>> THEN Len(Steps)
               ELSE o[Len(frames)] + SoFar(Top.node, Top.next)
  /\ \A k \in DOMAIN frames :
       LET f == frames[k]
       IN /\ f.node.kind \in StmtKinds => LiesAt(Steps, f.node, o[k])
          /\ f.node.kind = "StmtSeq" =>
               f.next <= Len(f.node.stmts) /\ (k < Len(frames) => f.next > 0)
          /\ k < Len(frames) => o[k + 1] = o[k] + SoFar(f.node, f.next - 1)

StackInv == \E o \in [Nat -> Nat] : Placed(o)

\* If the expression n has no value, neither has the statement whose turn it is.
Sinks(n) ==
  /\ Emitted < Len(Steps)
  /\ \A e \in Envs :
       Source!Eval(e)[n] = Undef => Source!Eval(e)[ExprOf(Steps[Emitted + 1])] = Undef

\* What the k-th frame holds and what it is about.
FrameRight(k) ==
  LET f == frames[k]
  IN /\ f.node.kind \in ChainKinds /\ f.acc # NoValue =>
          DenotesPart(f.acc, f.node, IF Pending(k) THEN f.next - 2 ELSE f.next - 1)
     /\ f.node.kind \in ExprKinds => NodeType[f.node] \in BaseType /\ Sinks(f.node)

HoldInv ==
  /\ ret # NoValue => Denotes(ret, Part(Top))
  /\ \A k \in DOMAIN frames : FrameRight(k)

MeaningInv ==
  /\ stage \in {"toplevel", "decls"} => \A k \in DOMAIN ir : ir[k].op = "alloca"
  /\ stage = "stmts" => CodeInv /\ StackInv /\ HoldInv
  /\ stage = "lowered" => CodeInv /\ DeclsDone

\* Code that becomes longer without executing a statement.
Longer == ir' = ir \/ \E i \in Instr : ir' = Append(ir, i) /\ ~Effect(i)

\* What is left alone with the unit and the scopes.
LEMMA SameScopes ==
  ASSUME UNCHANGED <<cu, pascal_scopes>>
  PROVE  Steps' = Steps /\ Envs' = Envs /\ InnerScope' = InnerScope /\ NodeType' = NodeType
PROOF
  BY DEF Steps, Envs, InnerScope, NodeType

\* What was known stays known.
LEMMA KnownStays ==
  ASSUME ir \in Seq(Instr), UNCHANGED <<cu, pascal_scopes>>, Longer
  PROVE  /\ Emitted' = Emitted
         /\ \A rho : \A e : Knows(rho, e)' => Knows(rho, e)
         /\ \A o, n : Denotes(o, n) => Denotes(o, n)'
         /\ \A o, n, j : DenotesPart(o, n, j) => DenotesPart(o, n, j)'
         /\ \A n : Sinks(n) => Sinks(n)'
PROOF
  <1>1. Steps' = Steps /\ Envs' = Envs /\ InnerScope' = InnerScope
    BY SameScopes
  <1>2. Emitted' = Emitted /\ \A rho : \A e : Knows(rho, e)' => Knows(rho, e)
    <2>1. CASE ir' = ir
      BY <1>1, <2>1 DEF Emitted, Knows
    <2>2. CASE \E i \in Instr : ir' = Append(ir, i) /\ ~Effect(i)
      <3>1. PICK i \in Instr : ir' = Append(ir, i) /\ ~Effect(i)
        BY <2>2
      <3>2. PICK m : m = Len(ir)
        OBVIOUS
      <3>3. /\ m \in Nat /\ Len(ir') = m + 1 /\ ir'[m + 1] = i
            /\ \A k \in 1..m : ir'[k] = ir[k]
        BY <3>1, <3>2, AppendFacts
      <3>4. m + 1 \in Nat \ {0} /\ (m + 1) - 1 = m /\ m \in 0..m
        BY <3>3
      <3>5. Done(ir', m + 1) = Done(ir', m)
        BY <3>1, <3>3, <3>4, Counting
      <3>6. /\ Done(ir', m) = Done(ir, m)
            /\ \A rho, e : Consistent(ir', InnerScope, rho, e, m)
                             <=> Consistent(ir, InnerScope, rho, e, m)
        BY <3>3, <3>4, SameCode
      <3>7. \A rho, e : Consistent(ir', InnerScope, rho, e, m + 1)
                          => Consistent(ir', InnerScope, rho, e, m)
        BY <3>1, <3>3, <3>4, ConsistentStep
      <3> QED BY <1>1, <3>2, <3>3, <3>5, <3>6, <3>7 DEF Emitted, Knows
    <2> QED BY <2>1, <2>2 DEF Longer
  <1>3. \A o, n : Denotes(o, n) => Denotes(o, n)'
    BY <1>1, <1>2 DEF Denotes
  <1>4. \A o, n, j : DenotesPart(o, n, j) => DenotesPart(o, n, j)'
    BY <1>1, <1>2 DEF DenotesPart
  <1>5. \A n : Sinks(n) => Sinks(n)'
    BY <1>1, <1>2 DEF Sinks
  <1> QED BY <1>2, <1>3, <1>4, <1>5

\* Right code stays right.
LEMMA CodeStays ==
  ASSUME ir \in Seq(Instr), UNCHANGED <<cu, pascal_scopes>>, CodeInv,
         NEW q, q = Len(ir) + 1,
         ir' = ir \/ \E i \in Instr : ir' = Append(ir, i) /\ RightCode(q)'
  PROVE  CodeInv'
PROOF
  <1>1. Steps' = Steps /\ Envs' = Envs /\ InnerScope' = InnerScope
    BY SameScopes
  <1>2. CASE ir' = ir
    BY <1>1, <1>2 DEF CodeInv, RightCode, RightStore, RightCall, RightDivision, Means
  <1>3. CASE \E i \in Instr : ir' = Append(ir, i) /\ RightCode(q)'
    <2>1. PICK i \in Instr : ir' = Append(ir, i) /\ RightCode(q)'
      BY <1>3
    <2>2. PICK m : m = Len(ir)
      OBVIOUS
    <2>3. /\ m \in Nat /\ DOMAIN ir' = 1..m + 1 /\ DOMAIN ir = 1..m
          /\ \A k \in 1..m : ir'[k] = ir[k]
      BY <2>1, <2>2, AppendFacts
    <2>4. \A k \in 0..m : /\ Done(ir', k) = Done(ir, k)
                          /\ \A rho, e : Consistent(ir', InnerScope, rho, e, k)
                                           <=> Consistent(ir, InnerScope, rho, e, k)
      BY <2>3, SameCode
    <2>5. ASSUME NEW k \in 1..m
          PROVE  RightCode(k)'
      <3>1. RightCode(k) /\ ir'[k] = ir[k] /\ k \in 0..m /\ k - 1 \in 0..m
        BY <2>3 DEF CodeInv
      <3>2. \A o, n : Means(k - 1, o, n)' <=> Means(k - 1, o, n)
        BY <1>1, <2>4, <3>1 DEF Means
      <3>3. Done(ir', k) = Done(ir, k)
        BY <2>4, <3>1
      <3>4. ir[k].op = "store" => RightStore(k)'
        BY <1>1, <3>1, <3>2, <3>3 DEF RightCode, RightStore
      <3>5. ir[k].op = "call" => RightCall(k)'
        BY <1>1, <3>1, <3>2, <3>3 DEF RightCode, RightCall
      <3>6. \A rho : Computes(ir', rho, k) = Computes(ir, rho, k)
        BY <3>1 DEF Computes
      <3>7. ir[k].op \in DivOps => RightDivision(k)'
        BY <1>1, <2>4, <3>1, <3>3, <3>6 DEF RightCode, RightDivision
      <3>8. ir[k].op = "ret" => Done(ir, k)' = Len(Steps)'
        BY <1>1, <3>1, <3>3 DEF RightCode
      <3> QED BY <3>1, <3>4, <3>5, <3>7, <3>8 DEF RightCode
    <2>6. \A k \in 1..m + 1 : k \in 1..m \/ k = q
      BY <2>2, <2>3
    <2> QED BY <2>1, <2>2, <2>3, <2>5, <2>6 DEF CodeInv
  <1> QED BY <1>2, <1>3

-----------------------------------------------------------------------------
(* The context of a step, and what the step makes of the call stack.       *)

Translating ==
  /\ Walking /\ VerdictInv' /\ stage = "stmts"
  /\ Supported(cu)
  /\ CodeInv /\ StackInv /\ HoldInv

\* A program of the language has no error, so that nothing is thrown.
LEMMA NothingThrown ==
  ASSUME Translating, NEW e \in Exceptions \cup {"assert"}, Throw(e)
  PROVE  FALSE
PROOF
  <1>1. stage' = e /\ cu' = cu /\ e \in Terminal /\ e # "lowered"
    BY DEF Throw, Terminal, Exceptions
  <1>2. VerdictShown' = Verdict(cu)
    BY <1>1 DEF Translating, VerdictInv
  <1>3. Verdict(cu) = "ok"
    BY DEF Translating, Supported
  <1>4. VerdictShown' # "ok"
    <2>1. VerdictShown = "ok" => stage \in {"lowered", "ok"}
      BY DEF VerdictShown
    <2>2. VerdictShown' = IF stage' = "lowered" THEN "ok"
                          ELSE IF stage' = "assert" THEN "TypeClash" ELSE stage'
      BY DEF VerdictShown
    <2> QED BY <1>1, <2>2 DEF Exceptions
  <1> QED BY <1>2, <1>3, <1>4

\* The statements that the language has.
LEMMA StatementsSupported ==
  ASSUME Translating, NEW k \in 1..Len(Steps)
  PROVE  SupportedStmt(Steps[k], VarTypes(cu))
PROOF
  <1>1. Steps \in Seq(Stmt)
    BY BodyIsAll DEF Translating, Walking, IInv, TypeOK
  <1>2. k \in DOMAIN Steps
    BY <1>1
  <1> QED BY <1>2 DEF Translating, Supported, Steps

\* Only sequences are below a statement.
LEMMA StatementsBelow ==
  ASSUME IInv, StmtsSoFar, NEW k \in DOMAIN frames, frames[k].node.kind \notin ExprKinds
  PROVE  \A j \in 1..k - 1 : frames[j].node.kind = "StmtSeq"
PROOF
  <1>1. DOMAIN frames = 1..Len(frames) /\ Len(frames) \in Nat
    BY DEF IInv, TypeOK
  <1>2. \A j \in 1..Len(frames) - 1 :
          frames[j].node.kind # "StmtSeq" => frames[j + 1].node.kind \in ExprKinds
    <2>1. \A j \in 1..Len(frames) - 1 : j \in DOMAIN frames /\ j < Len(frames)
      BY <1>1
    <2> QED BY <2>1 DEF StmtsSoFar, Called
  <1> DEFINE B == {d \in 0..k - 1 : d > 0 /\ frames[k - d].node.kind # "StmtSeq"}
  <1>3. CASE B = {}
    <2>1. \A j \in 1..k - 1 : k - j \in 0..k - 1 /\ k - j > 0 /\ k - (k - j) = j
      BY <1>1
    <2> QED BY <1>3, <2>1
  <1>4. CASE B # {}
    <2>1. B \in SUBSET Nat
      BY <1>1
    <2>2. PICK d \in B : \A j \in B : d <= j
      BY <1>4, <2>1, LeastMember
    <2>3. /\ k - d \in 1..Len(frames) - 1 /\ (k - d) + 1 = k - (d - 1)
          /\ d - 1 \in 0..k - 1 /\ ~(d <= d - 1)
      BY <1>1, <2>2
    <2>4. frames[k - (d - 1)].node.kind \in ExprKinds
      BY <1>2, <2>2, <2>3
    <2>5. d - 1 # 0
      <3>1. d - 1 = 0 => k - (d - 1) = k
        BY <1>1
      <3> QED BY <2>4, <3>1
    <2>6. frames[k - (d - 1)].node.kind # "StmtSeq"
      BY <2>4 DEF ExprKinds, FactorKinds, ChainKinds
    <2>7. d - 1 \in B
      BY <2>3, <2>5, <2>6
    <2> QED BY <2>2, <2>3, <2>7
  <1> QED BY <1>3, <1>4

\* How much a visited sequence has executed.
LEMMA SoFarFacts ==
  ASSUME NEW n \in Node
  PROVE  /\ n.kind # "StmtSeq" => \A j : SoFar(n, j) = 0
         /\ n.kind = "StmtSeq" =>
              /\ Len(n.stmts) \in Nat /\ n \in Stmt
              /\ \A j \in 0..Len(n.stmts) : SoFar(n, j) \in Nat
              /\ SoFar(n, 0) = 0 /\ SoFar(n, Len(n.stmts)) = Len(Effects[n])
              /\ \A j \in 1..Len(n.stmts) :
                   /\ n.stmts[j] \in Stmt
                   /\ SoFar(n, j) = SoFar(n, j - 1) + Len(Effects[n.stmts[j]])
                   /\ \A c \in Nat : LiesAt(Steps, n, c) => LiesAt(Steps, n.stmts[j], c + SoFar(n, j - 1))
PROOF
  <1>1. ASSUME n.kind = "StmtSeq"
        PROVE  /\ Len(n.stmts) \in Nat /\ n \in Stmt
               /\ \A j \in 0..Len(n.stmts) : SoFar(n, j) \in Nat
               /\ SoFar(n, 0) = 0 /\ SoFar(n, Len(n.stmts)) = Len(Effects[n])
               /\ \A j \in 1..Len(n.stmts) :
                    /\ n.stmts[j] \in Stmt
                    /\ SoFar(n, j) = SoFar(n, j - 1) + Len(Effects[n.stmts[j]])
                    /\ \A c \in Nat : LiesAt(Steps, n, c) => LiesAt(Steps, n.stmts[j], c + SoFar(n, j - 1))
    <2>1. n \in Stmt
      BY <1>1 DEF Stmt, Of, StmtKinds
    <2>2. Len(n.stmts) \in Nat /\ \A j \in 1..Len(n.stmts) : n.stmts[j] \in Stmt
      BY <1>1, <2>1, StmtsInside
    <2>3. PICK p : p = OfSequence(n, Effects)
      OBVIOUS
    <2>4. \A j : SoFar(n, j) = Len(p[j])
      BY <1>1, <2>3 DEF SoFar
    <2>5. /\ p \in [0..Len(n.stmts) -> Seq(Stmt)]
          /\ Len(p[0]) = 0 /\ p[Len(n.stmts)] = Effects[n]
          /\ \A k \in 1..Len(n.stmts) :
               /\ Len(p[k]) = Len(p[k - 1]) + Len(Effects[n.stmts[k]])
               /\ \A c \in Nat : LiesAt(Steps, n, c) => LiesAt(Steps, n.stmts[k], c + Len(p[k - 1]))
      BY <1>1, <2>1, <2>3, PartsOfSequence, ZenonT(60)
    <2>6. \A j \in 0..Len(n.stmts) : Len(p[j]) \in Nat
      <3> TAKE j \in 0..Len(n.stmts)
      <3>1. p[j] \in Seq(Stmt)
        BY <2>5
      <3> QED BY <3>1, LenProperties
    <2>7. SoFar(n, 0) = 0 /\ SoFar(n, Len(n.stmts)) = Len(Effects[n])
      BY <2>4, <2>5
    <2>8. ASSUME NEW j \in 1..Len(n.stmts)
          PROVE  /\ n.stmts[j] \in Stmt
                 /\ SoFar(n, j) = SoFar(n, j - 1) + Len(Effects[n.stmts[j]])
                 /\ \A c \in Nat :
                      LiesAt(Steps, n, c) => LiesAt(Steps, n.stmts[j], c + SoFar(n, j - 1))
      <3>1. SoFar(n, j) = Len(p[j]) /\ SoFar(n, j - 1) = Len(p[j - 1])
        BY <2>4, Zenon
      <3> QED BY <2>2, <2>5, <3>1, Zenon
    <2>9. \A j \in 0..Len(n.stmts) : SoFar(n, j) \in Nat
      BY <2>4, <2>6
    <2> QED BY <2>1, <2>2, <2>7, <2>8, <2>9, Zenon
  <1> QED BY <1>1 DEF SoFar

\* A statement is done.
LEMMA StatementDone ==
  ASSUME Translating, frames # <<>>, Top.node.kind \notin ExprKinds,
         UNCHANGED <<cu, pascal_scopes>>, frames' = Popped, ret' = NoValue,
         \A o \in [Nat -> Nat] :
           Placed(o) => Emitted' = o[Len(frames)] + Len(Effects[Top.node])
  PROVE  StackInv' /\ HoldInv'
PROOF
  <1>0. IInv /\ StmtsSoFar
    BY DEF Translating, Walking
  <1>a. PICK L : L = Len(frames)
    OBVIOUS
  <1>1. /\ DOMAIN frames' = 1..L - 1 /\ DOMAIN frames = 1..L
        /\ L \in Nat \ {0} /\ Len(frames) = L /\ Len(frames') = L - 1
        /\ \A k \in 1..L - 1 : frames'[k] = frames[k]
    BY <1>0, <1>a, PoppedFrames, TopFacts
  <1>2. PICK o \in [Nat -> Nat] : Placed(o)
    BY DEF Translating, StackInv
  <1>3. Steps' = Steps /\ Envs' = Envs /\ NodeType' = NodeType
    BY SameScopes
  <1>4. Emitted' = o[L] + Len(Effects[Top.node])
    BY <1>a, <1>2
  <1>5. Top = frames[L] /\ L \in DOMAIN frames /\ frames[L].node.kind \notin ExprKinds
    BY <1>1 DEF Top
  <1>6. \A j \in 1..L - 1 : frames[j].node.kind = "StmtSeq"
    BY <1>0, <1>5, StatementsBelow
  <1>7. HoldInv'
    <2>1. \A k \in DOMAIN frames' : frames'[k].node.kind = "StmtSeq"
      BY <1>1, <1>6
    <2> QED BY <2>1 DEF HoldInv, FrameRight, ExprKinds, FactorKinds, ChainKinds
  <1>8. Emitted' = IF frames' = <<>> THEN Len(Steps)
                   ELSE o[Len(frames')] + SoFar(Top'.node, Top'.next)
    <2>1. CASE L = 1
      <3>1. frames' = <<>> /\ Top.node = Body(cu)
        BY <1>0, <1>1, <1>5, <2>1 DEF StmtsSoFar
      <3>2. o[1] = 0
        BY <1>2 DEF Placed
      <3>3. Len(Effects[Body(cu)]) = Len(Steps) /\ Len(Steps) \in Nat
        BY <1>0, BodyIsAll DEF Steps, IInv, TypeOK
      <3> QED BY <1>4, <2>1, <3>1, <3>2, <3>3
    <2>2. CASE L > 1
      <3> DEFINE f == frames[L - 1]
                 n == f.node
                 j == f.next
      <3>1. /\ L - 1 \in 1..L - 1 /\ L - 1 \in DOMAIN frames /\ L - 1 < L /\ (L - 1) + 1 = L
            /\ frames' # <<>> /\ Top' = f
        BY <1>1, <2>2 DEF Top
      <3>2. n.kind = "StmtSeq" /\ n \in Node /\ j \in Nat
        <4>1. f \in FrameSet
          BY <1>0, <3>1 DEF IInv, TypeOK
        <4> QED BY <1>6, <3>1, <4>1 DEF FrameSet
      <3>3. Called(L - 1)
        BY <1>0, <1>1, <3>1 DEF StmtsSoFar
      <3>4. Top.node = n.stmts[j]
        BY <1>5, <3>1, <3>2, <3>3, PartOfKinds DEF Called
      <3>5. j <= Len(n.stmts) /\ j > 0 /\ o[L] = o[L - 1] + SoFar(n, j - 1)
        BY <1>1, <1>2, <3>1, <3>2 DEF Placed
      <3>6. j \in 1..Len(n.stmts) /\ j - 1 \in 0..Len(n.stmts)
        <4>1. Len(n.stmts) \in Nat
          BY <3>2, SoFarFacts
        <4>2. j \in Nat /\ j <= Len(n.stmts) /\ j > 0
          BY <3>2, <3>5
        <4> HIDE DEF n, j
        <4> QED BY <4>1, <4>2
      <3>7. SoFar(n, j) = SoFar(n, j - 1) + Len(Effects[Top.node]) /\ SoFar(n, j - 1) \in Nat
        BY <3>2, <3>4, <3>6, SoFarFacts
      <3>8. Len(Effects[Top.node]) \in Nat
        <4>1. Top.node \in Stmt
          BY <3>2, <3>4, <3>6, SoFarFacts
        <4>2. Effects[Top.node] \in Seq(Stmt)
          BY <4>1, EffectsEquations
        <4> QED BY <4>2, LenProperties
      <3>9. o[L - 1] \in Nat
        BY <1>1, <3>1
      <3>10. Emitted' = o[L - 1] + SoFar(n, j)
        <4> DEFINE a == o[L - 1]
                   b == SoFar(n, j - 1)
                   d == Len(Effects[Top.node])
        <4>1. Emitted' = (a + b) + d /\ SoFar(n, j) = b + d
          BY <1>4, <3>5, <3>7
        <4>2. a \in Nat /\ b \in Nat /\ d \in Nat
          BY <3>7, <3>8, <3>9
        <4> HIDE DEF a, b, d
        <4>3. (a + b) + d = a + (b + d)
          BY <4>2
        <4> QED BY <4>1, <4>3 DEF a
      <3> QED BY <1>1, <3>1, <3>10
    <2> QED BY <1>1, <2>1, <2>2
  <1>9. ASSUME NEW k \in 1..L - 1
        PROVE  LET f == frames'[k]
               IN /\ f.node.kind \in StmtKinds => LiesAt(Steps, f.node, o[k])
                  /\ f.node.kind = "StmtSeq" =>
                       f.next <= Len(f.node.stmts) /\ (k < Len(frames') => f.next > 0)
                  /\ k < Len(frames') => o[k + 1] = o[k] + SoFar(f.node, f.next - 1)
    <2>1. k \in DOMAIN frames /\ k < L /\ frames'[k] = frames[k]
      BY <1>1
    <2> QED BY <1>1, <1>2, <2>1 DEF Placed
  <1>10. o[1] = 0
    BY <1>2 DEF Placed
  <1>11. Placed(o)'
    BY <1>1, <1>3, <1>8, <1>9, <1>10 DEF Placed
  <1> QED BY <1>7, <1>11 DEF StackInv

\* A frame that stays as it is, and so does what it holds.
LEMMA FrameKept ==
  ASSUME ir \in Seq(Instr), UNCHANGED <<cu, pascal_scopes>>, Longer,
         NEW k, FrameRight(k),
         frames'[k].node = frames[k].node, frames'[k].acc = frames[k].acc,
         frames[k].node.kind \in ChainKinds /\ frames[k].acc # NoValue =>
           (IF Pending(k)' THEN frames'[k].next - 2 ELSE frames'[k].next - 1) =
             (IF Pending(k) THEN frames[k].next - 2 ELSE frames[k].next - 1)
  PROVE  FrameRight(k)'
PROOF
  <1>1. /\ Steps' = Steps /\ Envs' = Envs /\ NodeType' = NodeType /\ Emitted' = Emitted
        /\ \A rho : \A e : Knows(rho, e)' => Knows(rho, e)
    BY SameScopes, KnownStays
  <1> DEFINE n == frames[k].node
             v == frames[k].acc
             j == IF Pending(k) THEN frames[k].next - 2 ELSE frames[k].next - 1
             i == IF Pending(k)' THEN frames'[k].next - 2 ELSE frames'[k].next - 1
  <1>2. ASSUME n.kind \in ChainKinds, v # NoValue
        PROVE  \A rho : \A e \in Envs :
                 Knows(rho, e)' => ValIn(rho, v) = Source!OfOperators(n, Source!Eval(e))[i]
    <2>1. DenotesPart(v, n, j) /\ i = j
      BY <1>2 DEF FrameRight
    <2> HIDE DEF n, v, i, j
    <2> QED BY <1>1, <2>1 DEF DenotesPart
  <1>3. ASSUME n.kind \in ExprKinds
        PROVE  /\ NodeType[n] \in BaseType /\ Emitted < Len(Steps)
               /\ \A e \in Envs : Source!Eval(e)[n] = Undef =>
                    Source!Eval(e)[ExprOf(Steps[Emitted + 1])] = Undef
    BY <1>3 DEF FrameRight, Sinks
  <1> QED BY <1>1, <1>2, <1>3 DEF FrameRight, DenotesPart, Sinks

\* An eval or a visit is called.
LEMMA CallMade ==
  ASSUME Translating, frames # <<>>, KeepWalk, ir' = ir, ret = NoValue, ret' = NoValue,
         NEW n \in Node, NEW acc, acc = Top.acc, frames' = Calling(n, acc),
         IF n.kind \in ExprKinds
         THEN Top.node.kind # "StmtSeq" /\ NodeType[n] \in BaseType /\ Sinks(n)
         ELSE /\ Top.node.kind = "StmtSeq" /\ Top.next < Len(Top.node.stmts)
              /\ n = Top.node.stmts[Top.next + 1]
  PROVE  StackInv' /\ HoldInv'
PROOF
  <1>0. IInv /\ StmtsSoFar
    BY DEF Translating, Walking
  <1>a. PICK L : L = Len(frames)
    OBVIOUS
  <1>b. PICK s : s = Top.node /\ s \in Node
    BY <1>0, TopFacts
  <1>c. PICK i : i = Top.next /\ i \in Nat
    BY <1>0, TopFacts
  <1> DEFINE f == [node |-> s, next |-> i + 1, acc |-> acc]
  <1>1. /\ DOMAIN frames' = 1..L + 1 /\ DOMAIN frames = 1..L
        /\ L \in Nat \ {0} /\ Len(frames) = L /\ Len(frames') = L + 1
        /\ \A k \in 1..L - 1 : frames'[k] = frames[k]
        /\ frames'[L] = f /\ frames'[L + 1] = Frame(n)
    <2>1. acc \in Held \cup {NoValue}
      BY <1>0, TopFacts
    <2> QED BY <1>0, <1>a, <1>b, <1>c, <2>1, CallingFrames, TopFacts
  <1>2. /\ f.node = s /\ f.next = i + 1 /\ f.acc = acc /\ Top = frames[L]
        /\ Frame(n).node = n /\ Frame(n).next = 0 /\ Frame(n).acc = NoValue
        /\ Top' = Frame(n)
    BY <1>a, <1>1 DEF Top, Frame
  <1> HIDE DEF f
  <1>3. /\ Steps' = Steps /\ Envs' = Envs /\ NodeType' = NodeType /\ Emitted' = Emitted
        /\ \A m : Sinks(m) => Sinks(m)'
        /\ UNCHANGED <<cu, pascal_scopes>> /\ Longer /\ ir \in Seq(Instr)
    <2>1. UNCHANGED <<cu, pascal_scopes>> /\ Longer /\ ir \in Seq(Instr)
      BY <1>0 DEF KeepWalk, Longer, IInv, TypeOK
    <2> QED BY <2>1, SameScopes, KnownStays
  <1>4. HoldInv'
    <2>1. ASSUME NEW k \in 1..L
          PROVE  FrameRight(k)'
      <3>1. FrameRight(k) /\ Pending(k)'
        BY <1>1, <2>1 DEF Translating, HoldInv, Pending
      <3>2. CASE k = L
        <4>1. ~Pending(k)
          BY <1>1, <3>2 DEF Pending
        <4>2. /\ frames'[k].node = frames[k].node /\ frames'[k].acc = frames[k].acc
              /\ frames'[k].next - 2 = frames[k].next - 1
          BY <1>b, <1>c, <1>1, <1>2, <3>2
        <4> QED BY <1>3, <3>1, <4>1, <4>2, FrameKept
      <3>3. CASE k # L
        <4>1. k \in 1..L - 1 /\ k < L
          BY <1>1, <3>3
        <4>2. Pending(k) /\ frames'[k] = frames[k]
          BY <1>1, <4>1 DEF Pending
        <4> QED BY <1>3, <3>1, <4>2, FrameKept
      <3> QED BY <3>2, <3>3
    <2>2. FrameRight(L + 1)'
      <3>1. n.kind \in ExprKinds => NodeType'[n] \in BaseType /\ Sinks(n)'
        BY <1>3
      <3> QED BY <1>1, <1>2, <3>1 DEF FrameRight, Sinks
    <2>3. \A k \in 1..L + 1 : k \in 1..L \/ k = L + 1
      BY <1>1
    <2> QED BY <1>1, <2>1, <2>2, <2>3 DEF HoldInv
  <1>5. PICK o \in [Nat -> Nat] : Placed(o)
    BY DEF Translating, StackInv
  <1>d. L \in Nat \ {0} /\ L \in 1..L /\ L \in Nat /\ L + 1 \in Nat /\ L \in DOMAIN frames
        /\ frames # <<>>
    <2>1. L \in Nat \ {0} /\ DOMAIN frames = 1..L
      BY <1>1, Zenon
    <2>2. L \in 1..L /\ L \in Nat /\ L + 1 \in Nat
      BY <2>1
    <2> QED BY <2>1, <2>2, Zenon
  <1>6. o[1] = 0 /\ Emitted = o[L] + SoFar(s, i)
    <2>1. frames # <<>>
      BY <1>d
    <2> QED BY <1>a, <1>b, <1>c, <1>5, <2>1 DEF Placed
  <1>e. \A k \in 1..L : o[k] \in Nat
    BY <1>d
  <1>f. s.kind = "StmtSeq" => i <= Len(s.stmts) /\ Len(s.stmts) \in Nat
    BY <1>b, <1>c, <1>d, <1>2, <1>5, SoFarFacts DEF Placed
  <1>g. s.kind \in StmtKinds => LiesAt(Steps, s, o[L])
    BY <1>b, <1>d, <1>2, <1>5 DEF Placed
  <1>7. SoFar(s, i) \in Nat
    <2>1. s.kind = "StmtSeq" => i \in 0..Len(s.stmts)
      BY <1>c, <1>f
    <2> QED BY <1>b, <2>1, SoFarFacts
  <1>8. o[L] + SoFar(s, i) \in Nat
    <2>1. o[L] \in Nat
      BY <1>d, <1>e
    <2>2. \A a, b \in Nat : a + b \in Nat
      OBVIOUS
    <2> QED BY <1>7, <2>1, <2>2, Zenon
  <1>h. PICK c : c = o[L] + SoFar(s, i)
    OBVIOUS
  <1>9. PICK q : q = [o EXCEPT ![L + 1] = c]
    OBVIOUS
  <1>i. q \in [Nat -> Nat] /\ c \in Nat
    BY <1>8, <1>9, <1>h
  <1>10. q[L + 1] = c /\ \A k \in 1..L : q[k] = o[k]
    <2>1. L + 1 \in Nat /\ \A k \in 1..L : k # L + 1 /\ k \in Nat
      BY <1>d
    <2> QED BY <1>9, <2>1
  <1>11. Placed(q)'
    <2>1. q[1] = 0
      <3>1. 1 \in 1..L
        BY <1>d
      <3> QED BY <1>6, <1>10, <3>1
    <2>2. SoFar(n, 0) = 0
      BY SoFarFacts
    <2>3. frames' # <<>> /\ Emitted' = q[Len(frames')] + SoFar(Top'.node, Top'.next)
      <3>1. Len(frames') = L + 1 /\ frames' # <<>>
        BY <1>1, <1>d
      <3>2. Emitted' = c /\ SoFar(Top'.node, Top'.next) = 0
        BY <1>2, <1>3, <1>6, <1>h, <2>2
      <3> QED BY <1>10, <1>i, <3>1, <3>2
    <2>4. ASSUME NEW k \in 1..L - 1
          PROVE  LET g == frames'[k]
                 IN /\ g.node.kind \in StmtKinds => LiesAt(Steps, g.node, q[k])
                    /\ g.node.kind = "StmtSeq" => g.next <= Len(g.node.stmts) /\ g.next > 0
                    /\ q[k + 1] = q[k] + SoFar(g.node, g.next - 1)
      <3>1. k < L /\ k + 1 \in 1..L /\ k \in 1..L
        BY <1>d
      <3>2. k \in DOMAIN frames /\ Len(frames) = L /\ frames'[k] = frames[k]
        BY <1>1, <3>1
      <3>3. q[k] = o[k] /\ q[k + 1] = o[k + 1]
        BY <1>10, <3>1
      <3> QED BY <1>5, <3>1, <3>2, <3>3 DEF Placed
    <2>5. /\ s.kind \in StmtKinds => LiesAt(Steps, s, q[L])
          /\ s.kind = "StmtSeq" => i + 1 <= Len(s.stmts) /\ i + 1 > 0
          /\ q[L + 1] = q[L] + SoFar(s, (i + 1) - 1)
      <3>1. q[L] = o[L] /\ q[L + 1] = o[L] + SoFar(s, i)
        BY <1>d, <1>h, <1>10
      <3>3. s.kind = "StmtSeq" => i + 1 <= Len(s.stmts) /\ i + 1 > 0
        <4>1. s.kind = "StmtSeq" => n.kind \notin ExprKinds
          BY <1>b
        <4>2. s.kind = "StmtSeq" => Len(s.stmts) \in Nat /\ i < Len(s.stmts) /\ i \in Nat
          BY <1>b, <1>c, <1>f, <4>1
        <4>3. PICK len : len = Len(s.stmts)
          OBVIOUS
        <4>4. len \in Nat /\ i \in Nat /\ i < len => i + 1 <= len /\ i + 1 > 0
          OBVIOUS
        <4> QED BY <4>2, <4>3, <4>4
      <3>4. (i + 1) - 1 = i
        BY <1>c
      <3> QED BY <1>g, <3>1, <3>3, <3>4
    <2>6. n.kind \in StmtKinds => LiesAt(Steps, n, c)
      <3>1. n.kind \in StmtKinds => n.kind \notin ExprKinds
        BY DEF StmtKinds, IgnoredKinds, ExprKinds, FactorKinds, ChainKinds
      <3>2. ASSUME n.kind \in StmtKinds
            PROVE  LiesAt(Steps, n, c)
        <4>1. s.kind = "StmtSeq" /\ i < Len(s.stmts) /\ n = s.stmts[i + 1]
          BY <1>b, <1>c, <3>1, <3>2
        <4>2. PICK len : len = Len(s.stmts)
          OBVIOUS
        <4>3. len \in Nat /\ i \in Nat /\ i < len
          BY <1>c, <1>f, <4>1, <4>2
        <4>4. i + 1 \in 1..len /\ (i + 1) - 1 = i
          BY <4>3
        <4>5. LiesAt(Steps, s, o[L]) /\ o[L] \in Nat
          BY <1>d, <1>e, <1>g, <4>1 DEF StmtKinds
        <4> QED BY <1>b, <1>h, <4>1, <4>2, <4>4, <4>5, SoFarFacts
      <3> QED BY <3>2
    <2>7. n.kind = "StmtSeq" => 0 <= Len(n.stmts)
      BY SoFarFacts
    <2>8. ASSUME NEW k \in 1..L + 1
          PROVE  LET g == frames'[k]
                 IN /\ g.node.kind \in StmtKinds => LiesAt(Steps, g.node, q[k])
                    /\ g.node.kind = "StmtSeq" =>
                         g.next <= Len(g.node.stmts) /\ (k < L + 1 => g.next > 0)
                    /\ k < L + 1 => q[k + 1] = q[k] + SoFar(g.node, g.next - 1)
      <3>1. CASE k \in 1..L - 1
        BY <2>4, <3>1
      <3>2. CASE k = L
        BY <1>1, <1>2, <2>5, <3>2
      <3>3. CASE k = L + 1
        <4>1. ~(k < L + 1)
          BY <1>d, <3>3
        <4> QED BY <1>1, <1>2, <1>10, <2>6, <2>7, <3>3, <4>1
      <3>4. k \in 1..L - 1 \/ k = L \/ k = L + 1
        BY <1>d
      <3> QED BY <3>1, <3>2, <3>3, <3>4
    <2>9. DOMAIN frames' = 1..L + 1 /\ Len(frames') = L + 1
      BY <1>1
    <2> QED BY <1>3, <2>1, <2>3, <2>8, <2>9 DEF Placed
  <1> QED BY <1>4, <1>11, <1>i DEF StackInv

\* An eval returns the value of its expression to the frame below, which is
\* no sequence.
LEMMA ValueGiven ==
  ASSUME Translating, frames # <<>>, KeepWalk, Top.node.kind \in ExprKinds,
         frames' = Popped, NEW v \in Operand, ret' = v,
         NEW n, n = Top.node, Denotes(v, n)', Longer
  PROVE  StackInv' /\ HoldInv'
PROOF
  <1>0. IInv /\ WalkShape /\ StmtsSoFar
    BY DEF Translating, Walking
  <1>1. PICK L : L = Len(frames)
    OBVIOUS
  <1>2. /\ DOMAIN frames' = 1..L - 1 /\ DOMAIN frames = 1..L
        /\ L \in Nat \ {0} /\ Len(frames) = L /\ Len(frames') = L - 1
        /\ \A k \in 1..L - 1 : frames'[k] = frames[k]
    BY <1>0, <1>1, PoppedFrames, TopFacts
  <1>3. Top = frames[L] /\ L \in DOMAIN frames /\ frames[L].node = n
    BY <1>2 DEF Top
  <1>4. L > 1 /\ Awaits(frames[L - 1])
    BY <1>0, <1>3 DEF WalkShape
  <1>5. /\ L - 1 \in 1..L - 1 /\ L - 1 \in DOMAIN frames /\ L - 1 < L /\ (L - 1) + 1 = L
        /\ L - 1 \in 1..L /\ L \in 1..L
    BY <1>2, <1>4
  <1>6. frames' # <<>> /\ Top' = frames[L - 1]
    BY <1>2, <1>5 DEF Top
  <1>7. frames[L - 1].node.kind # "StmtSeq"
    BY <1>4 DEF Awaits, ChainKinds
  <1>8. Part(frames[L - 1]) = n
    <2>1. Called(L - 1)
      BY <1>0, <1>2, <1>5 DEF StmtsSoFar
    <2> QED BY <1>3, <1>5, <2>1 DEF Called
  <1>9. /\ UNCHANGED <<cu, pascal_scopes>> /\ ir \in Seq(Instr)
        /\ Steps' = Steps /\ Emitted' = Emitted
    <2>1. UNCHANGED <<cu, pascal_scopes>> /\ ir \in Seq(Instr)
      BY <1>0 DEF KeepWalk, IInv, TypeOK
    <2> QED BY <2>1, SameScopes, KnownStays
  <1>10. HoldInv'
    <2>1. Denotes(ret, Part(Top))'
      <3>1. Part(Top)' = n
        BY <1>6, <1>8 DEF Part
      <3> QED BY <3>1 DEF Denotes
    <2>2. ASSUME NEW k \in 1..L - 1
          PROVE  FrameRight(k)'
      <3>1. v # NoValue
        BY DEF Operand, Types, IntTypes, NoValue
      <3>2. k < L /\ k \in DOMAIN frames /\ frames'[k] = frames[k]
        BY <1>2
      <3>3. FrameRight(k) /\ Pending(k) /\ Pending(k)'
        BY <1>2, <3>1, <3>2 DEF Translating, HoldInv, Pending
      <3> QED BY <1>9, <3>2, <3>3, FrameKept
    <2> QED BY <1>2, <2>1, <2>2 DEF HoldInv
  <1>11. PICK o \in [Nat -> Nat] : Placed(o)
    BY DEF Translating, StackInv
  <1>12. Emitted = o[L - 1]
    <2>1. SoFar(n, Top.next) = 0 /\ SoFar(frames[L - 1].node, frames[L - 1].next - 1) = 0
      BY <1>7 DEF SoFar, ExprKinds, FactorKinds, ChainKinds
    <2>2. Emitted = o[L] + SoFar(n, Top.next)
      BY <1>2, <1>11 DEF Placed
    <2>3. o[L] = o[L - 1] + SoFar(frames[L - 1].node, frames[L - 1].next - 1)
      <3>1. \A k \in DOMAIN frames :
              k < Len(frames) => o[k + 1] = o[k] + SoFar(frames[k].node, frames[k].next - 1)
        BY <1>11, Zenon DEF Placed
      <3>2. L - 1 < Len(frames)
        BY <1>2, <1>5
      <3> QED BY <1>5, <3>1, <3>2, Zenon
    <2>4. o[L] \in Nat /\ o[L - 1] \in Nat
      <3>1. L \in Nat /\ L - 1 \in Nat
        BY <1>2
      <3> QED BY <3>1
    <2>5. PICK b : b = SoFar(frames[L - 1].node, frames[L - 1].next - 1)
      OBVIOUS
    <2>6. b = 0 /\ o[L] = o[L - 1] + b
      BY <2>1, <2>3, <2>5, Zenon
    <2>7. PICK d : d = SoFar(n, Top.next)
      OBVIOUS
    <2>8. d = 0 /\ Emitted = o[L] + d
      BY <2>1, <2>2, <2>7, Zenon
    <2> QED BY <2>4, <2>6, <2>8
  <1>13. Placed(o)'
    <2>1. Emitted' = o[Len(frames')] + SoFar(Top'.node, Top'.next)
      <3>1. SoFar(Top'.node, Top'.next) = 0
        BY <1>6, <1>7 DEF SoFar
      <3>2. o[L - 1] \in Nat /\ Len(frames') = L - 1
        BY <1>2, <1>5
      <3> QED BY <1>9, <1>12, <3>1, <3>2
    <2>2. ASSUME NEW k \in 1..L - 1
          PROVE  LET f == frames'[k]
                 IN /\ f.node.kind \in StmtKinds => LiesAt(Steps, f.node, o[k])
                    /\ f.node.kind = "StmtSeq" => f.next <= Len(f.node.stmts) /\ f.next > 0
                    /\ o[k + 1] = o[k] + SoFar(f.node, f.next - 1)
      <3>1. k \in DOMAIN frames /\ k < L /\ frames'[k] = frames[k]
        BY <1>2
      <3> QED BY <1>2, <1>11, <3>1 DEF Placed
    <2>3. o[1] = 0
      BY <1>11 DEF Placed
    <2> QED BY <1>2, <1>6, <1>9, <2>1, <2>2, <2>3 DEF Placed
  <1> QED BY <1>10, <1>11, <1>13 DEF StackInv

\* A loop over operators takes a value.
LEMMA ValueTaken ==
  ASSUME Translating, frames # <<>>, KeepWalk, Top.node.kind \in ChainKinds,
         NEW v \in Operand, frames' = [frames EXCEPT ![Len(frames)].acc = v], ret' = NoValue,
         NEW n, n = Top.node, NEW j, j = Top.next - 1, DenotesPart(v, n, j)', Longer
  PROVE  StackInv' /\ HoldInv'
PROOF
  <1>0. IInv
    BY DEF Translating, Walking
  <1>1. PICK L : L = Len(frames)
    OBVIOUS
  <1>2. /\ DOMAIN frames' = 1..L /\ DOMAIN frames = 1..L
        /\ L \in Nat \ {0} /\ Len(frames) = L /\ Len(frames') = L
        /\ \A k \in 1..L - 1 : frames'[k] = frames[k]
        /\ frames'[L].node = n /\ frames'[L].next = Top.next /\ frames'[L].acc = v
    BY <1>0, <1>1, TakingFrames, TopFacts
  <1>3. Top = frames[L] /\ Top' = frames'[L] /\ L \in DOMAIN frames /\ frames[L].node = n
    BY <1>2 DEF Top
  <1>4. /\ UNCHANGED <<cu, pascal_scopes>> /\ ir \in Seq(Instr) /\ NodeType' = NodeType
        /\ Steps' = Steps /\ Envs' = Envs /\ Emitted' = Emitted /\ \A m : Sinks(m) => Sinks(m)'
    <2>1. UNCHANGED <<cu, pascal_scopes>> /\ ir \in Seq(Instr)
      BY <1>0 DEF KeepWalk, IInv, TypeOK
    <2> QED BY <2>1, SameScopes, KnownStays
  <1>5. \A k \in 1..L : frames'[k].node = frames[k].node /\ frames'[k].next = frames[k].next
    BY <1>2, <1>3
  <1>6. HoldInv'
    <2>1. ASSUME NEW k \in 1..L - 1
          PROVE  FrameRight(k)'
      <3>1. k < L /\ k \in DOMAIN frames /\ frames'[k] = frames[k]
        BY <1>2
      <3>2. FrameRight(k) /\ Pending(k) /\ Pending(k)'
        BY <1>2, <3>1 DEF Translating, HoldInv, Pending
      <3>3. UNCHANGED <<cu, pascal_scopes>> /\ ir \in Seq(Instr)
        BY <1>4
      <3>4. frames'[k].node = frames[k].node /\ frames'[k].acc = frames[k].acc
        BY <3>1
      <3>5. (IF Pending(k)' THEN frames'[k].next - 2 ELSE frames'[k].next - 1) =
              (IF Pending(k) THEN frames[k].next - 2 ELSE frames[k].next - 1)
        BY <3>1, <3>2
      <3>6. FrameRight(k)
        BY <3>2
      <3> QED BY <3>3, <3>4, <3>5, <3>6, FrameKept
    <2>2. FrameRight(L)'
      <3>1. ~Pending(L)'
        BY <1>2 DEF Pending
      <3>2. NodeType[n] \in BaseType /\ Sinks(n)
        BY <1>3 DEF Translating, HoldInv, FrameRight, ExprKinds
      <3>3. /\ frames'[L].node = n /\ frames'[L].acc = v /\ frames'[L].next - 1 = j
        BY <1>2
      <3>4. \A rho : \A e \in Envs :
              Knows(rho, e)' => ValIn(rho, v) = Source!OfOperators(n, Source!Eval(e))[j]
        BY <1>4 DEF DenotesPart
      <3>5. NodeType'[n] \in BaseType /\ Sinks(n)'
        BY <1>4, <3>2
      <3> QED BY <1>4, <3>1, <3>3, <3>4, <3>5 DEF FrameRight, DenotesPart, Sinks
    <2>3. \A k \in 1..L : k \in 1..L - 1 \/ k = L
      BY <1>2
    <2> QED BY <1>2, <2>1, <2>2, <2>3 DEF HoldInv
  <1>7. PICK o \in [Nat -> Nat] : Placed(o)
    BY DEF Translating, StackInv
  <1>8. Placed(o)'
    <2>1. Emitted' = o[Len(frames')] + SoFar(Top'.node, Top'.next) /\ frames' # <<>>
      BY <1>1, <1>2, <1>3, <1>4, <1>7 DEF Placed
    <2>2. \A k \in 1..L :
            LET f == frames'[k]
            IN /\ f.node.kind \in StmtKinds => LiesAt(Steps, f.node, o[k])
               /\ f.node.kind = "StmtSeq" =>
                    f.next <= Len(f.node.stmts) /\ (k < L => f.next > 0)
               /\ k < L => o[k + 1] = o[k] + SoFar(f.node, f.next - 1)
      BY <1>2, <1>5, <1>7 DEF Placed
    <2>3. o[1] = 0
      BY <1>7 DEF Placed
    <2> QED BY <1>2, <1>4, <2>1, <2>2, <2>3 DEF Placed
  <1> QED BY <1>6, <1>7, <1>8 DEF StackInv

-----------------------------------------------------------------------------
(* The frame at the top.                                                   *)

\* What MeaningInv says of the frame at the top while statements are visited.
LEMMA TopMeaning ==
  ASSUME Translating, frames # <<>>, NEW n, n = Top.node
  PROVE  /\ IInv /\ DeclsDone /\ ir \in Seq(Instr) /\ n \in Node /\ Top.next \in Nat
         /\ n.kind \in ExprKinds => n \in Evaluable /\ NodeType[n] \in BaseType /\ Sinks(n)
         /\ NodeType[n] \notin Errors
         /\ ret # NoValue => ret \in Operand /\ Denotes(ret, Part(Top))
         /\ ~Awaits(Top) => ret = NoValue
         /\ Top.next = 0 => Top.acc = NoValue /\ ret = NoValue
         /\ n.kind \notin ChainKinds => Top.acc = NoValue
PROOF
  <1>1. IInv /\ StmtsSoFar /\ WalkShape /\ Walking /\ HoldInv /\ Verdict(cu) = "ok"
    BY DEF Translating, Walking, Supported
  <1>2. DeclsDone /\ ir \in Seq(Instr)
    BY <1>1 DEF StmtsSoFar, IInv, TypeOK
  <1>3. /\ n \in Node /\ Top.next \in Nat /\ Len(frames) \in DOMAIN frames /\ HoldsLeft(Top)
        /\ Top = frames[Len(frames)]
    BY <1>1, TopFacts DEF Top
  <1>4. ret # NoValue => Awaits(Top) /\ ret \in Operand /\ Denotes(ret, Part(Top))
    BY <1>1, TopNow, ReturnedIsOperand DEF HoldInv
  <1>5. n.kind \notin ChainKinds => Top.acc = NoValue
    BY <1>1, <1>3 DEF WalkShape, OnlyChainsKeep
  <1>6. Top.next = 0 => Top.acc = NoValue /\ ret = NoValue
    <2>1. Top.next = 0 => ~Awaits(Top)
      BY DEF Awaits
    <2>2. n.kind \in ChainKinds /\ Top.next = 0 => Top.acc = NoValue
      BY <1>3 DEF HoldsLeft
    <2> QED BY <1>4, <1>5, <2>1, <2>2
  <1>7. NodeType[n] \notin Errors
    <2>1. NodeType[Body(cu)] = "ok"
      BY <1>1, <1>2 DEF DeclsDone, Unsupported, Verdict, NodeType
    <2>2. Surfaces(Len(frames))
      BY <1>1, <1>3 DEF StmtsSoFar
    <2> QED BY <1>3, <2>1, <2>2 DEF Surfaces, Errors
  <1>8. n.kind \in ExprKinds => n \in Evaluable /\ NodeType[n] \in BaseType /\ Sinks(n)
    <2>1. FrameRight(Len(frames))
      BY <1>1, <1>3 DEF HoldInv
    <2> QED BY <1>3, <2>1 DEF FrameRight, Evaluable, Factor, Chain, Of, ExprKinds
  <1> QED BY <1>1, <1>2, <1>3, <1>4, <1>5, <1>6, <1>7, <1>8

\* It is the turn of the statement that is visited.
LEMMA StatementTurn ==
  ASSUME Translating, frames # <<>>, NEW n, n = Top.node,
         n.kind \in StmtKinds, n.kind \notin {"StmtSeq", "Empty"}
  PROVE  /\ SupportedStmt(n, VarTypes(cu))
         /\ Emitted \in Nat /\ Emitted < Len(Steps) /\ Steps[Emitted + 1] = n
         /\ \A o \in [Nat -> Nat] : Placed(o) => Emitted = o[Len(frames)]
         /\ Len(Effects[n]) = 1
PROOF
  <1>1. n \in Stmt /\ Len(frames) \in DOMAIN frames /\ Top = frames[Len(frames)]
        /\ Len(frames) \in Nat
    <2>1. IInv
      BY DEF Translating, Walking
    <2> QED BY <2>1, TopFacts DEF Top, Stmt, Of
  <1>2. Effects[n] = <<n>>
    BY <1>1, EffectsEquations, EffectsOfKinds
  <1>3. ASSUME NEW o \in [Nat -> Nat], Placed(o)
        PROVE  /\ Emitted = o[Len(frames)] /\ Emitted \in Nat
               /\ LiesAt(Steps, n, Emitted)
    <2>1. SoFar(n, Top.next) = 0
      BY DEF SoFar
    <2>2. Emitted = o[Len(frames)] + SoFar(n, Top.next)
      BY <1>3 DEF Placed
    <2>3. o[Len(frames)] \in Nat
      BY <1>1
    <2>4. Emitted = o[Len(frames)]
      BY <2>1, <2>2, <2>3
    <2>5. LiesAt(Steps, n, o[Len(frames)])
      BY <1>1, <1>3 DEF Placed
    <2> QED BY <2>3, <2>4, <2>5
  <1>4. Emitted \in Nat /\ LiesAt(Steps, n, Emitted)
    BY <1>3 DEF Translating, StackInv
  <1>5. Len(Effects[n]) = 1 /\ Effects[n][1] = n
    BY <1>2
  <1>6. Emitted + 1 <= Len(Steps) /\ Steps[Emitted + 1] = n
    BY <1>4, <1>5 DEF LiesAt
  <1>7. Len(Steps) \in Nat
    BY BodyIsAll DEF Translating, Walking, IInv, TypeOK
  <1>8. Emitted < Len(Steps) /\ Emitted + 1 \in 1..Len(Steps)
    BY <1>4, <1>6, <1>7
  <1>9. SupportedStmt(n, VarTypes(cu))
    BY <1>6, <1>8, StatementsSupported
  <1> QED BY <1>3, <1>4, <1>5, <1>6, <1>8, <1>9

\* A pure operation that LLVM accepts yields what it computes of its operands.
LEMMA BuiltComputes ==
  ASSUME ir \in Seq(Instr), UNCHANGED <<cu, pascal_scopes>>,
         NEW op \in PureOps, NEW args \in Seq(Operand), WellTyped(op, args),
         BuiltIr(op, args) \in Seq(Instr),
         ir' = BuiltIr(op, args), NEW v, v = BuiltVal(op, args),
         NEW q, q = Len(ir) + 1
  PROVE  /\ Longer
         /\ \A rho : \A e : Knows(rho, e)' =>
              ValIn(rho, v) = Apply(op, args[1].ty, [a \in DOMAIN args |-> ValIn(rho, args[a])])
         /\ ir' = ir \/ /\ q \in Nat \ {0} /\ ir'[q].op = op
                        /\ \E i \in Instr : ir' = Append(ir, i)
                        /\ Done(ir', q) = Emitted
                        /\ \A rho : \A e :
                             Consistent(ir', InnerScope, rho, e, q - 1) <=> Knows(rho, e)
                        /\ \A rho : Computes(ir', rho, q) =
                             Apply(op, args[1].ty, [a \in DOMAIN args |-> ValIn(rho, args[a])])
PROOF
  <1>1. InnerScope' = InnerScope
    BY SameScopes
  <1>2. CASE AllConst(args)
    <2>1. ir' = ir
      BY <1>2 DEF BuiltIr
    <2>2. ASSUME NEW rho
          PROVE  ValIn(rho, v) = Apply(op, args[1].ty, [a \in DOMAIN args |-> ValIn(rho, args[a])])
      <3>1. [a \in DOMAIN args |-> ValIn(rho, args[a])] = [a \in DOMAIN args |-> args[a].val]
        BY <1>2 DEF AllConst, ValIn
      <3>2. IsConst(v) /\ v.val = Folded(op, args)
        BY <1>2 DEF BuiltVal, Const, IsConst
      <3> QED BY <3>1, <3>2 DEF ValIn, Folded
    <2> QED BY <2>1, <2>2 DEF Longer
  <1>3. CASE ~AllConst(args)
    <2>1. PICK i : i = [op |-> op, ty |-> BuiltType(op, args), args |-> args]
      OBVIOUS
    <2>2. i.op = op /\ i.args = args /\ ir' = Append(ir, i)
      BY <1>3, <2>1 DEF BuiltIr, Emit
    <2>3. PICK m : m = Len(ir)
      OBVIOUS
    <2>4. i \in Instr /\ m \in Nat
      <3>1. Append(ir, i) \in Seq(Instr) /\ Append(ir, i)[Len(ir) + 1] = i
            /\ Len(ir) + 1 \in DOMAIN Append(ir, i) /\ Len(ir) \in Nat
        BY <1>3, <2>1 DEF Emit, BuiltIr
      <3> QED BY <2>3, <3>1
    <2>5. /\ Len(ir') = m + 1 /\ ir'[m + 1] = i
          /\ \A k \in 1..m : ir'[k] = ir[k]
      BY <2>2, <2>3, <2>4, AppendFacts
    <2>6. q = m + 1 /\ q \in Nat \ {0} /\ q - 1 = m /\ m \in 0..m
      BY <2>3, <2>4
    <2>7. ~Effect(i) /\ i.op # "load"
      BY <2>2 DEF Effect, PureOps, ArithOps, DivOps, CmpOps
    <2>8. \A rho : Computes(ir', rho, q) =
                     Apply(op, args[1].ty, [a \in DOMAIN args |-> ValIn(rho, args[a])])
      BY <2>2, <2>5, <2>6 DEF Computes
    <2>9. /\ Done(ir', m) = Done(ir, m)
          /\ \A rho, e : Consistent(ir', InnerScope, rho, e, m)
                           <=> Consistent(ir, InnerScope, rho, e, m)
      <3>1. \A k \in 1..m : ir'[k] = ir[k]
        BY <2>5
      <3> QED BY <2>4, <2>6, <3>1, SameCode
    <2>10. Done(ir', q) = Emitted
      <3>1. Done(ir', q) = Done(ir', q - 1)
        BY <2>5, <2>6, <2>7, Counting
      <3> QED BY <2>3, <2>6, <2>9, <3>1 DEF Emitted
    <2>11. \A rho : \A e : Consistent(ir', InnerScope, rho, e, q - 1) <=> Knows(rho, e)
      BY <2>3, <2>6, <2>9 DEF Knows
    <2>12. ASSUME NEW rho, NEW e, Knows(rho, e)'
           PROVE  ValIn(rho, v) = Computes(ir', rho, q)
      <3>1. Consistent(ir', InnerScope, rho, e, q)
        BY <1>1, <2>5, <2>6, <2>12 DEF Knows
      <3>2. Follows(ir', InnerScope, rho, e, q)
        BY <2>5, <2>6, <2>7, <3>1, ConsistentStep
      <3>3. rho[q] = Computes(ir', rho, q)
        BY <2>2, <2>5, <2>6, <3>2 DEF Follows
      <3>4. v.reg = q /\ ~IsConst(v)
        BY <1>3, <2>3, <2>6 DEF BuiltVal, Reg, IsConst
      <3> QED BY <3>3, <3>4 DEF ValIn
    <2>13. Longer
      BY <2>2, <2>4, <2>7 DEF Longer
    <2> QED BY <2>2, <2>4, <2>5, <2>6, <2>8, <2>10, <2>11, <2>12, <2>13
  <1> QED BY <1>2, <1>3

-----------------------------------------------------------------------------
(* One step of the walk, action by action.                                 *)

WalkMeaning == CodeInv /\ StackInv /\ HoldInv

\* Nothing is emitted.
LEMMA NothingEmitted ==
  ASSUME Translating, KeepWalk, ir' = ir
  PROVE  CodeInv' /\ Emitted' = Emitted /\ Longer /\ UNCHANGED <<cu, pascal_scopes>>
PROOF
  <1>1. UNCHANGED <<cu, pascal_scopes>> /\ ir \in Seq(Instr) /\ CodeInv /\ Longer
    BY DEF Translating, Walking, KeepWalk, IInv, TypeOK, Longer
  <1>2. PICK q : q = Len(ir) + 1
    OBVIOUS
  <1> QED BY <1>1, <1>2, CodeStays, KnownStays

\* A sequence calls its next statement or is done.
LEMMA SequenceMeaning ==
  ASSUME Translating, VisitStmtSeq
  PROVE  WalkMeaning'
PROOF
  <1>1. PICK n : n = Top.node
    OBVIOUS
  <1>2. /\ frames # <<>> /\ n.kind = "StmtSeq" /\ KeepWalk /\ ir' = ir /\ ret' = ret
        /\ IF Top.next < Len(n.stmts) THEN frames' = Calling(n.stmts[Top.next + 1], NoValue)
           ELSE frames' = Popped
    BY <1>1 DEF VisitStmtSeq, At
  <1>3. n \in Node /\ Top.next \in Nat /\ ret = NoValue /\ Top.acc = NoValue
    <2>1. ~Awaits(Top) /\ n.kind \notin ChainKinds
      BY <1>1, <1>2 DEF Awaits, ChainKinds
    <2> QED BY <1>1, <1>2, <2>1, TopMeaning
  <1>4. CodeInv' /\ Emitted' = Emitted /\ UNCHANGED <<cu, pascal_scopes>>
    BY <1>2, NothingEmitted
  <1>5. Len(n.stmts) \in Nat
    BY <1>2, <1>3, SoFarFacts
  <1>6. CASE Top.next < Len(n.stmts)
    <2>1. Top.next + 1 \in 1..Len(n.stmts)
      BY <1>3, <1>5, <1>6
    <2>2. PICK m : m = n.stmts[Top.next + 1]
      OBVIOUS
    <2>3. m \in Node /\ m.kind \notin ExprKinds
      BY <1>2, <1>3, <2>1, <2>2, StatementNodes, StatementKinds
    <2> QED BY <1>1, <1>2, <1>3, <1>4, <1>6, <2>2, <2>3, CallMade DEF WalkMeaning
  <1>7. CASE ~(Top.next < Len(n.stmts))
    <2>1. n.kind \notin ExprKinds
      BY <1>2 DEF ExprKinds, FactorKinds, ChainKinds
    <2>2. ASSUME NEW o \in [Nat -> Nat], Placed(o)
          PROVE  Emitted' = o[Len(frames)] + Len(Effects[n])
      <3>1. Emitted = o[Len(frames)] + SoFar(n, Top.next)
        BY <1>1, <1>2, <2>2 DEF Placed
      <3>2. Len(frames) \in DOMAIN frames /\ Top = frames[Len(frames)]
        BY <1>2, TopFacts DEF Translating, Walking, Top
      <3>3. Top.next <= Len(n.stmts)
        BY <1>1, <1>2, <2>2, <3>2 DEF Placed
      <3>4. Top.next = Len(n.stmts)
        BY <1>3, <1>5, <1>7, <3>3
      <3>5. SoFar(n, Len(n.stmts)) = Len(Effects[n])
        BY <1>2, <1>3, SoFarFacts
      <3> QED BY <1>4, <3>1, <3>4, <3>5
    <2> QED BY <1>1, <1>2, <1>3, <1>4, <1>7, <2>1, <2>2, StatementDone DEF WalkMeaning
  <1> QED BY <1>6, <1>7

\* Of the statements that are passed over only the empty one is in the language.
LEMMA IgnoredMeaning ==
  ASSUME Translating, VisitIgnored
  PROVE  WalkMeaning'
PROOF
  <1>1. PICK n : n = Top.node
    OBVIOUS
  <1>2. /\ frames # <<>> /\ n.kind \in IgnoredKinds /\ KeepWalk /\ ir' = ir /\ ret' = ret
        /\ frames' = Popped
    BY <1>1 DEF VisitIgnored, At
  <1>3. /\ n.kind \notin ExprKinds /\ n.kind \in StmtKinds
        /\ n.kind \notin {"StmtSeq", "Assignment", "ProcCall"}
    BY <1>2 DEF IgnoredKinds, ExprKinds, FactorKinds, ChainKinds, StmtKinds
  <1>4. n \in Node /\ ret = NoValue
    <2>1. ~Awaits(Top)
      BY <1>1, <1>3 DEF Awaits, ExprKinds, FactorKinds
    <2> QED BY <1>1, <1>2, <2>1, TopMeaning
  <1>5. CodeInv' /\ Emitted' = Emitted /\ UNCHANGED <<cu, pascal_scopes>>
    BY <1>2, NothingEmitted
  <1>6. n.kind = "Empty"
    <2>1. ~SupportedStmt(n, VarTypes(cu))
      BY <1>3 DEF SupportedStmt
    <2> QED BY <1>1, <1>2, <1>3, <2>1, StatementTurn
  <1>7. Len(Effects[n]) = 0
    <2>1. n \in Stmt
      BY <1>3, <1>4 DEF Stmt, Of
    <2>2. Effects[n] = <<>>
      BY <1>6, <2>1, EffectsEquations, EffectsOfKinds
    <2> QED BY <2>2
  <1>8. ASSUME NEW o \in [Nat -> Nat], Placed(o)
        PROVE  Emitted' = o[Len(frames)] + Len(Effects[n])
    <2>1. SoFar(n, Top.next) = 0
      BY <1>3 DEF SoFar
    <2> QED BY <1>1, <1>2, <1>5, <1>7, <1>8, <2>1 DEF Placed
  <1> QED BY <1>1, <1>2, <1>3, <1>4, <1>5, <1>8, StatementDone DEF WalkMeaning

\* The statement whose turn it is sinks with its expression.
LEMMA StatementSinks ==
  ASSUME Emitted < Len(Steps), NEW n, n = Steps[Emitted + 1], NEW m, m = ExprOf(n)
  PROVE  Sinks(m)
PROOF
  BY DEF Sinks

\* The right-hand side of an assignment is called.
LEMMA AssignmentEvalMeaning ==
  ASSUME Translating, AssignmentEval
  PROVE  WalkMeaning'
PROOF
  <1>1. PICK n : n = Top.node
    OBVIOUS
  <1>2. /\ frames # <<>> /\ n.kind = "Assignment" /\ KeepWalk /\ ir' = ir /\ ret' = ret
        /\ Top.next = 0 /\ frames' = Calling(n.expr, NoValue)
    BY <1>1 DEF AssignmentEval, At
  <1>3. n \in Node /\ IInv /\ DeclsDone /\ ret = NoValue /\ Top.acc = NoValue
        /\ NodeType[n] \notin Errors
    BY <1>1, <1>2, TopMeaning
  <1>4. PICK m : m = n.expr
    OBVIOUS
  <1>5. m \in Node /\ m.kind \in ExprKinds
    BY <1>2, <1>3, <1>4, StatementNodes, PartsAreExpressions
  <1>6. SupportedStmt(n, VarTypes(cu)) /\ Emitted < Len(Steps) /\ Steps[Emitted + 1] = n
    BY <1>1, <1>2, StatementTurn DEF StmtKinds
  <1>7. NodeType[m] \in BaseType
    <2>1. NodeType[m] = VarTypes(cu)[n.target.ident]
      BY <1>2, <1>4, <1>6 DEF SupportedStmt, NodeType
    <2>2. n.target.ident \in DOMAIN VarTypes(cu)
      <3>1. NodeType[n] = IF NodeType[n.expr] \in Errors THEN NodeType[n.expr]
                          ELSE IF n.target.ident \in DOMAIN VarTypes(cu)
                               THEN "ok" ELSE "SemanticProblem"
        BY <1>2, <1>3, NodeTypes, TypeOfKinds
      <3> QED BY <1>3, <3>1 DEF Errors
    <2> QED BY <1>3, <2>1, <2>2, NodeTypes
  <1>8. Sinks(m)
    <2>1. m = ExprOf(n)
      BY <1>2, <1>4 DEF ExprOf
    <2> QED BY <1>6, <2>1, StatementSinks
  <1>9. StackInv' /\ HoldInv'
    BY <1>1, <1>2, <1>3, <1>4, <1>5, <1>7, <1>8, CallMade
  <1> QED BY <1>2, <1>9, NothingEmitted DEF WalkMeaning

\* The argument of write_int is called.
LEMMA ProcCallEvalMeaning ==
  ASSUME Translating, ProcCallEval
  PROVE  WalkMeaning'
PROOF
  <1>1. PICK n : n = Top.node
    OBVIOUS
  <1>2. /\ frames # <<>> /\ n.kind = "ProcCall" /\ KeepWalk /\ ir' = ir /\ ret' = ret
        /\ Top.next = 0 /\ n.proc = "write_int" /\ Len(n.params) = 1
        /\ frames' = Calling(n.params[1], NoValue)
    BY <1>1 DEF ProcCallEval, At
  <1>3. n \in Node /\ IInv /\ DeclsDone /\ ret = NoValue /\ Top.acc = NoValue
        /\ NodeType[n] \notin Errors
    BY <1>1, <1>2, TopMeaning
  <1>4. PICK m : m = n.params[1]
    OBVIOUS
  <1>5. m \in Node /\ m.kind \in ExprKinds
    <2>1. 1 \in 1..Len(n.params)
      BY <1>2
    <2> QED BY <1>2, <1>3, <1>4, <2>1, StatementNodes, PartsAreExpressions
  <1>6. Emitted < Len(Steps) /\ Steps[Emitted + 1] = n
    BY <1>1, <1>2, StatementTurn DEF StmtKinds
  <1>7. NodeType[m] \in BaseType
    <2>1. NodeType[n] = OfCall(n, NodeType)
      BY <1>2, <1>3, NodeTypes, TypeOfKinds
    <2> QED BY <1>2, <1>3, <1>4, <2>1 DEF OfCall, Errors, BaseType
  <1>8. Sinks(m)
    <2>1. m = ExprOf(n)
      BY <1>2, <1>4 DEF ExprOf
    <2> QED BY <1>6, <2>1, StatementSinks
  <1>9. StackInv' /\ HoldInv'
    BY <1>1, <1>2, <1>3, <1>4, <1>5, <1>7, <1>8, CallMade
  <1> QED BY <1>2, <1>9, NothingEmitted DEF WalkMeaning

\* An instruction that executes a statement is emitted.
LEMMA EffectEmitted ==
  ASSUME ir \in Seq(Instr), UNCHANGED <<cu, pascal_scopes>>,
         NEW i \in Instr, Effect(i), ir' = Append(ir, i), NEW q, q = Len(ir) + 1
  PROVE  /\ q \in Nat \ {0} /\ ir'[q] = i
         /\ Emitted' = Emitted + 1 /\ Done(ir', q) = Emitted + 1
         /\ \A o, n : Denotes(o, n) => Means(q - 1, o, n)'
PROOF
  <1>1. Envs' = Envs /\ InnerScope' = InnerScope
    BY SameScopes
  <1>2. PICK m : m = Len(ir)
    OBVIOUS
  <1>3. /\ m \in Nat /\ Len(ir') = m + 1 /\ ir'[m + 1] = i
        /\ \A k \in 1..m : ir'[k] = ir[k]
    BY <1>2, AppendFacts
  <1>4. q = m + 1 /\ q \in Nat \ {0} /\ q - 1 = m /\ m \in 0..m
    BY <1>2, <1>3
  <1>5. /\ Done(ir', m) = Done(ir, m)
        /\ \A rho, e : Consistent(ir', InnerScope, rho, e, m)
                         <=> Consistent(ir, InnerScope, rho, e, m)
    <2>1. \A k \in 1..m : ir'[k] = ir[k]
      BY <1>3
    <2> QED BY <1>3, <1>4, <2>1, SameCode
  <1>6. Done(ir', q) = Emitted + 1
    <2>1. Done(ir', q) = Done(ir', q - 1) + 1
      BY <1>3, <1>4, Counting
    <2> QED BY <1>2, <1>4, <1>5, <2>1 DEF Emitted
  <1>7. Emitted' = Emitted + 1
    BY <1>3, <1>4, <1>6 DEF Emitted
  <1>8. ASSUME NEW o, NEW n, Denotes(o, n)
        PROVE  Means(q - 1, o, n)'
    <2>1. ASSUME NEW rho, NEW e \in Envs, Consistent(ir', InnerScope, rho, e, m)
          PROVE  ValIn(rho, o) = Source!Eval(e)[n]
      BY <1>2, <1>5, <1>8, <2>1 DEF Denotes, Knows
    <2> QED BY <1>1, <1>4, <2>1 DEF Means
  <1> QED BY <1>3, <1>4, <1>6, <1>7, <1>8

\* The store of an assignment.
LEMMA AssignmentStoreMeaning ==
  ASSUME Translating, AssignmentStore
  PROVE  WalkMeaning'
PROOF
  <1>1. PICK n : n = Top.node
    OBVIOUS
  <1>2. PICK x : x = n.target.ident
    OBVIOUS
  <1>3. /\ frames # <<>> /\ n.kind = "Assignment" /\ ret # NoValue
        /\ IF IsVariable(x)
           THEN /\ ir' = Emit("store", "void", <<ret, SlotOf(x)>>)
                /\ Return(NoValue) /\ KeepWalk
           ELSE Throw("SemanticProblem")
    BY <1>1, <1>2 DEF AssignmentStore, At
  <1>4. /\ n \in Node /\ IInv /\ DeclsDone /\ ir \in Seq(Instr)
        /\ ret \in Operand /\ Denotes(ret, Part(Top))
    BY <1>1, <1>3, TopMeaning
  <1>5. Part(Top) = n.expr /\ Carries(ret, NodeType[n.expr])
    <2>1. Carries(ret, NodeType[Part(Top)])
      BY <1>3, TopNow DEF Translating
    <2> QED BY <1>1, <1>3, <2>1, PartOfKinds
  <1>6. /\ IsVariable(x) /\ ir' = Emit("store", "void", <<ret, SlotOf(x)>>)
        /\ frames' = Popped /\ ret' = NoValue /\ KeepWalk
    <2>1. ~Throw("SemanticProblem")
      BY NothingThrown DEF Exceptions
    <2> QED BY <1>3, <2>1 DEF Return
  <1>7. /\ UNCHANGED <<cu, pascal_scopes>> /\ Steps' = Steps /\ InnerScope' = InnerScope
    BY <1>6, SameScopes DEF KeepWalk
  <1>8. PICK i : i = [op |-> "store", ty |-> "void", args |-> <<ret, SlotOf(x)>>]
    OBVIOUS
  <1>9. /\ i.op = "store" /\ i.args = <<ret, SlotOf(x)>> /\ ir' = Append(ir, i) /\ Effect(i)
    BY <1>6, <1>8 DEF Emit, Effect
  <1>10. i \in Instr
    <2>1. ir' \in Seq(Instr)
      BY DEF Translating, Walking, IInv, TypeOK
    <2>2. Append(ir, i)[Len(ir) + 1] = i /\ Len(ir) + 1 \in DOMAIN Append(ir, i)
      BY <1>4, <1>8
    <2> QED BY <1>9, <2>1, <2>2
  <1>11. PICK q : q = Len(ir) + 1
    OBVIOUS
  <1>v. PICK v : v = ret
    OBVIOUS
  <1>12. /\ q \in Nat \ {0} /\ ir'[q] = i
         /\ Emitted' = Emitted + 1 /\ Done(ir', q) = Emitted + 1
         /\ Means(q - 1, v, n.expr)'
    BY <1>4, <1>5, <1>7, <1>9, <1>10, <1>11, <1>v, EffectEmitted
  <1>13. /\ SupportedStmt(n, VarTypes(cu)) /\ Emitted \in Nat /\ Emitted < Len(Steps)
         /\ Steps[Emitted + 1] = n /\ Len(Effects[n]) = 1
         /\ \A o \in [Nat -> Nat] : Placed(o) => Emitted = o[Len(frames)]
    BY <1>1, <1>3, StatementTurn DEF StmtKinds
  <1>14. /\ x \in DOMAIN InnerScope /\ InnerScope[x].alloc = lookup_decl(x).alloc
         /\ ret.ty = LlvmType(InnerScope[x].type)
    <2>1. x \in DOMAIN InnerScope /\ lookup_decl(x) = InnerScope[x]
      BY <1>4, <1>6, LookupFacts DEF Variables
    <2>2. NodeType[n.expr] = InnerScope[x].type
      BY <1>2, <1>3, <1>4, <1>13, <2>1 DEF SupportedStmt, NodeType, DeclsDone
    <2>3. NodeType[n.expr] \in BaseType
      BY <1>4, <2>1, <2>2, NodeTypes DEF DeclsDone
    <2> QED BY <1>5, <2>1, <2>2, <2>3 DEF Carries, IrType, BaseType
  <1>15. RightStore(q)'
    <2>1. ir'[q].args[2].reg = lookup_decl(x).alloc /\ ir'[q].args[1] = v
      BY <1>9, <1>12, <1>v DEF SlotOf, Reg
    <2>2. Emitted + 1 <= Len(Steps)
      <3>1. Len(Steps) \in Nat
        BY BodyIsAll DEF Translating, Walking, IInv, TypeOK
      <3> QED BY <1>13, <3>1
    <2>3. Means(q - 1, ir[q].args[1], n.expr)'
      BY <1>12, <2>1 DEF Means
    <2> QED BY <1>2, <1>3, <1>7, <1>12, <1>13, <1>14, <1>v, <2>1, <2>2, <2>3 DEF RightStore
  <1>16. CodeInv'
    <2>1. RightCode(q)'
      BY <1>9, <1>12, <1>15 DEF RightCode, DivOps
    <2> QED BY <1>4, <1>7, <1>9, <1>10, <1>11, <2>1, CodeStays DEF Translating
  <1>17. StackInv' /\ HoldInv'
    <2>1. n.kind \notin ExprKinds
      BY <1>3 DEF ExprKinds, FactorKinds, ChainKinds
    <2>2. \A o \in [Nat -> Nat] : Placed(o) => Emitted' = o[Len(frames)] + Len(Effects[n])
      BY <1>12, <1>13
    <2> QED BY <1>1, <1>3, <1>6, <1>7, <2>1, <2>2, StatementDone
  <1> QED BY <1>16, <1>17 DEF WalkMeaning

\* The call of write_int.
LEMMA ProcCallEmitMeaning ==
  ASSUME Translating, ProcCallEmit
  PROVE  WalkMeaning'
PROOF
  <1>1. PICK n : n = Top.node
    OBVIOUS
  <1>3. /\ frames # <<>> /\ n.kind = "ProcCall" /\ ret # NoValue
        /\ IF "write_int" \notin functions THEN Throw("RuntimeProblem")
           ELSE IF ~Accepted("call", <<ret>>) THEN Throw("assert")
           ELSE /\ ir' = Emit("call", "void", <<ret>>)
                /\ Return(NoValue) /\ KeepWalk
    BY <1>1 DEF ProcCallEmit, At
  <1>4. /\ n \in Node /\ IInv /\ ir \in Seq(Instr)
        /\ ret \in Operand /\ Denotes(ret, Part(Top))
    BY <1>1, <1>3, TopMeaning
  <1>5. Part(Top) = n.params[1]
    BY <1>1, <1>3, PartOfKinds
  <1>6. /\ ir' = Emit("call", "void", <<ret>>) /\ Accepted("call", <<ret>>)
        /\ frames' = Popped /\ ret' = NoValue /\ KeepWalk
    <2>1. ~Throw("assert")
      BY NothingThrown
    <2>2. "write_int" \in functions
      BY <1>3 DEF Translating, Walking, WriteIntIsThere
    <2> QED BY <1>3, <2>1, <2>2 DEF Return
  <1>7. /\ UNCHANGED <<cu, pascal_scopes>> /\ Steps' = Steps /\ InnerScope' = InnerScope
    BY <1>6, SameScopes DEF KeepWalk
  <1>8. PICK i : i = [op |-> "call", ty |-> "void", args |-> <<ret>>]
    OBVIOUS
  <1>9. /\ i.op = "call" /\ i.args = <<ret>> /\ ir' = Append(ir, i) /\ Effect(i)
    BY <1>6, <1>8 DEF Emit, Effect
  <1>10. i \in Instr
    <2>1. ir' \in Seq(Instr)
      BY DEF Translating, Walking, IInv, TypeOK
    <2>2. Append(ir, i)[Len(ir) + 1] = i /\ Len(ir) + 1 \in DOMAIN Append(ir, i)
      BY <1>4, <1>8
    <2> QED BY <1>9, <2>1, <2>2
  <1>11. PICK q : q = Len(ir) + 1
    OBVIOUS
  <1>v. PICK v : v = ret
    OBVIOUS
  <1>12. /\ q \in Nat \ {0} /\ ir'[q] = i
         /\ Emitted' = Emitted + 1 /\ Done(ir', q) = Emitted + 1
         /\ Means(q - 1, v, n.params[1])'
    BY <1>4, <1>5, <1>7, <1>9, <1>10, <1>11, <1>v, EffectEmitted
  <1>13. /\ Emitted \in Nat /\ Emitted < Len(Steps)
         /\ Steps[Emitted + 1] = n /\ Len(Effects[n]) = 1
         /\ \A o \in [Nat -> Nat] : Placed(o) => Emitted = o[Len(frames)]
    BY <1>1, <1>3, StatementTurn DEF StmtKinds
  <1>14. ret.ty = "i32"
    BY <1>6, ProcCallTypes DEF Translating
  <1>15. RightCall(q)'
    <2>1. ir'[q].args[1] = v
      BY <1>9, <1>12, <1>v
    <2>2. Emitted + 1 <= Len(Steps)
      <3>1. Len(Steps) \in Nat
        BY BodyIsAll DEF Translating, Walking, IInv, TypeOK
      <3> QED BY <1>13, <3>1
    <2>3. Means(q - 1, ir[q].args[1], n.params[1])'
      BY <1>12, <2>1 DEF Means
    <2> QED BY <1>3, <1>7, <1>12, <1>13, <1>14, <1>v, <2>1, <2>2, <2>3 DEF RightCall
  <1>16. CodeInv'
    <2>1. RightCode(q)'
      BY <1>9, <1>12, <1>15 DEF RightCode, DivOps
    <2> QED BY <1>4, <1>7, <1>9, <1>10, <1>11, <2>1, CodeStays DEF Translating
  <1>17. StackInv' /\ HoldInv'
    <2>1. n.kind \notin ExprKinds
      BY <1>3 DEF ExprKinds, FactorKinds, ChainKinds
    <2>2. \A o \in [Nat -> Nat] : Placed(o) => Emitted' = o[Len(frames)] + Len(Effects[n])
      BY <1>12, <1>13
    <2> QED BY <1>1, <1>3, <1>6, <1>7, <2>1, <2>2, StatementDone
  <1> QED BY <1>16, <1>17 DEF WalkMeaning

\* A procedure call that is refused, and the one of write_str, are not in a
\* program of the language.
LEMMA OtherCallsMeaning ==
  ASSUME Translating, ProcCallReject \/ VisitWriteStr
  PROVE  WalkMeaning'
PROOF
  <1>1. CASE ProcCallReject
    BY <1>1, NothingThrown DEF ProcCallReject, Exceptions
  <1>2. CASE VisitWriteStr
    <2>1. PICK n : n = Top.node
      OBVIOUS
    <2>2. frames # <<>> /\ n.kind = "ProcCall" /\ n.proc = "write_str"
      BY <1>2, <2>1 DEF VisitWriteStr, At
    <2>3. SupportedStmt(n, VarTypes(cu))
      BY <2>1, <2>2, StatementTurn DEF StmtKinds
    <2> QED BY <2>2, <2>3 DEF SupportedStmt
  <1> QED BY <1>1, <1>2

\* main returns.
LEMMA FinishMeaning ==
  ASSUME Translating, Finish
  PROVE  CodeInv' /\ DeclsDone'
PROOF
  <1>1. /\ frames = <<>> /\ UNCHANGED <<cu, pascal_scopes>>
        /\ ir' = Emit("ret", "void", <<Const("i32", 0)>>)
    BY DEF Finish
  <1>2. ir \in Seq(Instr) /\ CodeInv /\ DeclsDone /\ DeclsDone' /\ Steps' = Steps
    <2>1. ir \in Seq(Instr) /\ CodeInv /\ DeclsDone
      BY DEF Translating, Walking, IInv, TypeOK, StmtsSoFar
    <2> QED BY <1>1, <2>1, DeclsKept, SameScopes
  <1>3. PICK i : i = [op |-> "ret", ty |-> "void", args |-> <<Const("i32", 0)>>]
    OBVIOUS
  <1>4. i.op = "ret" /\ ir' = Append(ir, i) /\ ~Effect(i)
    BY <1>1, <1>3 DEF Emit, Effect
  <1>5. i \in Instr
    <2>1. ir' \in Seq(Instr)
      BY DEF Translating, Walking, IInv, TypeOK
    <2>2. Append(ir, i)[Len(ir) + 1] = i /\ Len(ir) + 1 \in DOMAIN Append(ir, i)
      BY <1>2, <1>3
    <2> QED BY <1>4, <2>1, <2>2
  <1>6. PICK q : q = Len(ir) + 1
    OBVIOUS
  <1>7. ir'[q] = i /\ q = Len(ir')
    BY <1>2, <1>4, <1>5, <1>6, AppendFacts
  <1>8. Emitted' = Emitted
    <2>1. Longer
      BY <1>4, <1>5 DEF Longer
    <2> QED BY <1>1, <1>2, <2>1, KnownStays
  <1>9. Emitted = Len(Steps)
    BY <1>1 DEF Translating, StackInv, Placed
  <1>10. Done(ir', q) = Len(Steps)
    BY <1>7, <1>8, <1>9 DEF Emitted
  <1>11. RightCode(q)'
    BY <1>2, <1>4, <1>7, <1>10 DEF RightCode, DivOps
  <1> QED BY <1>1, <1>2, <1>4, <1>5, <1>6, <1>11, CodeStays

-----------------------------------------------------------------------------
(* Factors.                                                                *)

\* What o denotes after the step.
LEMMA DenotesNow ==
  ASSUME UNCHANGED <<cu, pascal_scopes>>, NEW v, NEW n,
         \A rho : \A e \in Envs : Knows(rho, e)' => ValIn(rho, v) = Source!Eval(e)[n]
  PROVE  Denotes(v, n)'
PROOF
  BY SameScopes DEF Denotes

\* An expression sinks with the one it is in.
LEMMA SinksInside ==
  ASSUME NEW n, NEW m, Sinks(n),
         \A e \in Envs : Source!Eval(e)[m] = Undef => Source!Eval(e)[n] = Undef
  PROVE  Sinks(m)
PROOF
  BY DEF Sinks

\* A number.
LEMMA EvalNumberMeaning ==
  ASSUME Translating, EvalNumber
  PROVE  WalkMeaning'
PROOF
  <1>1. PICK n : n = Top.node
    OBVIOUS
  <1>2. PICK v : v = Const("i32", n.int)
    OBVIOUS
  <1>3. /\ frames # <<>> /\ n.kind = "Number" /\ KeepWalk /\ ir' = ir /\ ret' = v
        /\ frames' = Popped
    BY <1>1, <1>2 DEF EvalNumber, At, Return
  <1>4. n.kind \in ExprKinds
    BY <1>3 DEF ExprKinds, FactorKinds
  <1>5. n \in Evaluable
    BY <1>1, <1>3, <1>4, TopMeaning
  <1>6. v.reg = 0 /\ v.val = n.int /\ v.ty = "i32"
    BY <1>2 DEF Const
  <1>7. v \in Operand
    <2>1. ret' \in Operand \cup {NoValue}
      BY DEF Translating, Walking, IInv, TypeOK
    <2> QED BY <1>3, <1>6, <2>1 DEF NoValue
  <1>8. UNCHANGED <<cu, pascal_scopes>> /\ Longer /\ CodeInv'
    BY <1>3, NothingEmitted
  <1>9. ASSUME NEW rho, NEW e \in Envs
        PROVE  ValIn(rho, v) = Source!Eval(e)[n]
    <2>1. PICK w : w = Source!Eval(e)
      OBVIOUS
    <2>2. w[n] = n.int
      BY <1>3, <1>5, <2>1, EvalNow, ValueOfKinds
    <2> QED BY <1>6, <2>1, <2>2 DEF ValIn, IsConst
  <1>10. Denotes(v, n)'
    BY <1>8, <1>9, DenotesNow
  <1> QED BY <1>1, <1>3, <1>4, <1>7, <1>8, <1>10, ValueGiven DEF WalkMeaning

\* A literal of another type is not in the language, or is refused.
LEMMA OtherFactorsMeaning ==
  ASSUME Translating, EvalBool \/ EvalUnsupported
  PROVE  WalkMeaning'
PROOF
  <1>1. CASE EvalBool
    <2>1. PICK n : n = Top.node
      OBVIOUS
    <2>2. frames # <<>> /\ n.kind = "Bool" /\ n.kind \in ExprKinds
      BY <1>1, <2>1 DEF EvalBool, At, ExprKinds, FactorKinds
    <2>3. n \in Node /\ IInv /\ DeclsDone /\ NodeType[n] \in BaseType
      BY <2>1, <2>2, TopMeaning
    <2>4. NodeType[n] = "Boolean"
      BY <2>2, <2>3, NodeTypes, TypeOfKinds
    <2> QED BY <2>3, <2>4 DEF BaseType
  <1>2. CASE EvalUnsupported
    BY <1>2, NothingThrown DEF EvalUnsupported, Exceptions
  <1> QED BY <1>1, <1>2

\* A variable is loaded from its slot.
LEMMA EvalDesignatorMeaning ==
  ASSUME Translating, EvalDesignator
  PROVE  WalkMeaning'
PROOF
  <1>1. PICK n : n = Top.node
    OBVIOUS
  <1>2. PICK x : x = n.ident
    OBVIOUS
  <1>3. PICK ty : ty = LlvmType(lookup_decl(x).type)
    OBVIOUS
  <1>4. /\ frames # <<>> /\ n.kind = "Designator"
        /\ IF ~IsVariable(x) THEN Throw("SemanticProblem")
           ELSE IF n.items # <<>> THEN Throw("NotImplemented")
           ELSE /\ ir' = Emit("load", ty, <<SlotOf(x)>>)
                /\ Return(Reg(Len(ir) + 1, ty)) /\ KeepWalk
    BY <1>1, <1>2, <1>3 DEF EvalDesignator, At
  <1>5. PICK q : q = Len(ir) + 1
    OBVIOUS
  <1>6. PICK v : v = Reg(q, ty)
    OBVIOUS
  <1>7. /\ IsVariable(x) /\ ir' = Emit("load", ty, <<SlotOf(x)>>) /\ KeepWalk
        /\ frames' = Popped /\ ret' = v
    <2>1. ~Throw("SemanticProblem") /\ ~Throw("NotImplemented")
      BY NothingThrown DEF Exceptions
    <2> QED BY <1>4, <1>5, <1>6, <2>1 DEF Return
  <1>8. n.kind \in ExprKinds
    BY <1>4 DEF ExprKinds, FactorKinds
  <1>9. n \in Evaluable /\ IInv /\ DeclsDone /\ ir \in Seq(Instr)
    BY <1>1, <1>4, <1>8, TopMeaning
  <1>10. UNCHANGED <<cu, pascal_scopes>> /\ InnerScope' = InnerScope
    BY <1>7, SameScopes DEF KeepWalk
  <1>11. PICK i : i = [op |-> "load", ty |-> ty, args |-> <<SlotOf(x)>>]
    OBVIOUS
  <1>12. /\ i.op = "load" /\ i.args = <<SlotOf(x)>> /\ ir' = Append(ir, i) /\ ~Effect(i)
    BY <1>7, <1>11 DEF Emit, Effect
  <1>13. i \in Instr
    <2>1. ir' \in Seq(Instr)
      BY DEF Translating, Walking, IInv, TypeOK
    <2>2. Append(ir, i)[Len(ir) + 1] = i /\ Len(ir) + 1 \in DOMAIN Append(ir, i)
      BY <1>9, <1>11
    <2> QED BY <1>12, <2>1, <2>2
  <1>14. Len(ir') = q /\ ir'[q] = i /\ q \in Nat \ {0}
    BY <1>5, <1>9, <1>12, <1>13, AppendFacts
  <1>15. Longer
    BY <1>12, <1>13 DEF Longer
  <1>16. CodeInv'
    <2>1. RightCode(q)'
      BY <1>12, <1>14 DEF RightCode, DivOps
    <2> QED BY <1>5, <1>9, <1>10, <1>12, <1>13, <2>1, CodeStays DEF Translating
  <1>17. v \in Operand
    <2>1. ret' \in Operand \cup {NoValue}
      BY DEF Translating, Walking, IInv, TypeOK
    <2>2. v.reg = q
      BY <1>6 DEF Reg
    <2> QED BY <1>7, <1>14, <2>1, <2>2 DEF NoValue
  <1>18. /\ x \in DOMAIN InnerScope /\ InnerScope[x].item = "var"
         /\ InnerScope[x].alloc = lookup_decl(x).alloc
    BY <1>7, <1>9, LookupFacts DEF Variables
  <1>19. ASSUME NEW rho, NEW e \in Envs, Knows(rho, e)'
         PROVE  ValIn(rho, v) = Source!Eval(e)[n]
    <2>1. Consistent(ir', InnerScope, rho, e, q)
      BY <1>10, <1>14, <1>19 DEF Knows
    <2>2. Follows(ir', InnerScope, rho, e, q)
      BY <1>12, <1>14, <2>1, ConsistentStep
    <2>3. ir'[q].args[1].reg = lookup_decl(x).alloc
      BY <1>12, <1>14 DEF SlotOf, Reg
    <2>4. rho[q] = e[x]
      BY <1>12, <1>14, <1>18, <2>2, <2>3 DEF Follows
    <2>5. v.reg = q /\ ~IsConst(v)
      BY <1>6, <1>14 DEF Reg, IsConst
    <2>6. x \in DOMAIN e
      BY <1>9, <1>18 DEF Envs, DeclsDone
    <2>7. PICK w : w = Source!Eval(e)
      OBVIOUS
    <2>8. w[n] = e[x]
      BY <1>2, <1>4, <1>9, <2>6, <2>7, EvalNow, ValueOfKinds
    <2> QED BY <2>4, <2>5, <2>7, <2>8 DEF ValIn
  <1>20. Denotes(v, n)'
    BY <1>10, <1>19, DenotesNow
  <1> QED BY <1>1, <1>4, <1>7, <1>8, <1>15, <1>16, <1>17, <1>20, ValueGiven DEF WalkMeaning

\* What a parenthesis or a negation is about.
LEMMA InnerMeaning ==
  ASSUME Translating, frames # <<>>, NEW n, n = Top.node, n.kind \in {"Paren", "Negation"},
         NEW m, m = n.inner
  PROVE  /\ m \in Node /\ m.kind \in ExprKinds
         /\ NodeType[m] \in BaseType /\ Sinks(m)
         /\ \A e \in Envs :
              /\ Source!Eval(e)[m] \in Vals
              /\ n.kind = "Paren" => Source!Eval(e)[n] = Source!Eval(e)[m]
              /\ n.kind = "Negation" => Source!Eval(e)[n] =
                   IF Source!Eval(e)[m] = Undef THEN Undef ELSE -1 - Source!Eval(e)[m]
PROOF
  <1>1. n.kind \in ExprKinds
    BY DEF ExprKinds, FactorKinds
  <1>2. /\ n \in Node /\ n \in Evaluable /\ IInv /\ DeclsDone
        /\ NodeType[n] \in BaseType /\ Sinks(n)
    BY <1>1, TopMeaning
  <1>3. m \in Node /\ m.kind \in ExprKinds
    BY <1>2, FactorNodes, PartsAreExpressions
  <1>4. NodeType[m] \in BaseType
    <2>1. NodeType[n] = IF n.kind = "Negation" /\ NodeType[m] = "String"
                        THEN "TypeClash" ELSE NodeType[m]
      BY <1>2, NodeTypes, TypeOfKinds
    <2> QED BY <1>2, <2>1 DEF BaseType
  <1>5. ASSUME NEW e \in Envs
        PROVE  /\ Source!Eval(e)[m] \in Vals
               /\ n.kind = "Paren" => Source!Eval(e)[n] = Source!Eval(e)[m]
               /\ n.kind = "Negation" => Source!Eval(e)[n] =
                    IF Source!Eval(e)[m] = Undef THEN Undef ELSE -1 - Source!Eval(e)[m]
    <2>1. PICK w : w = Source!Eval(e)
      OBVIOUS
    <2>2. w[n] = Source!ValueFrom(n, e, w)
      BY <1>2, <2>1, EvalNow
    <2>3. m \in Evaluable
      BY <1>3 DEF Evaluable, Factor, Chain, Of, ExprKinds
    <2>4. w[m] \in Vals
      BY <2>1, <2>3, EvalNow
    <2> QED BY <2>1, <2>2, <2>4, ValueOfKinds
  <1>6. Sinks(m)
    <2>1. \A e \in Envs : Source!Eval(e)[m] = Undef => Source!Eval(e)[n] = Undef
      BY <1>5
    <2> QED BY <1>2, <2>1, SinksInside
  <1> QED BY <1>3, <1>4, <1>5, <1>6

\* It is called.
LEMMA CallInnerMeaning ==
  ASSUME Translating, CallInner
  PROVE  WalkMeaning'
PROOF
  <1>1. PICK n : n = Top.node
    OBVIOUS
  <1>2. PICK m : m = n.inner
    OBVIOUS
  <1>3. /\ frames # <<>> /\ n.kind \in {"Paren", "Negation"} /\ KeepWalk /\ ir' = ir
        /\ ret' = ret /\ Top.next = 0 /\ frames' = Calling(m, NoValue)
    BY <1>1, <1>2 DEF CallInner, At
  <1>4. ret = NoValue /\ Top.acc = NoValue
    BY <1>1, <1>3, TopMeaning
  <1>5. m \in Node /\ m.kind \in ExprKinds /\ NodeType[m] \in BaseType /\ Sinks(m)
    BY <1>1, <1>2, <1>3, InnerMeaning
  <1>6. StackInv' /\ HoldInv'
    BY <1>1, <1>3, <1>4, <1>5, CallMade
  <1> QED BY <1>3, <1>6, NothingEmitted DEF WalkMeaning

\* Its value is passed on.
LEMMA EvalParenMeaning ==
  ASSUME Translating, EvalParen
  PROVE  WalkMeaning'
PROOF
  <1>1. PICK n : n = Top.node
    OBVIOUS
  <1>2. PICK m : m = n.inner
    OBVIOUS
  <1>3. PICK v : v = ret
    OBVIOUS
  <1>4. /\ frames # <<>> /\ n.kind = "Paren" /\ KeepWalk /\ ir' = ir
        /\ ret # NoValue /\ ret' = v /\ frames' = Popped
    BY <1>1, <1>3 DEF EvalParen, At, Return
  <1>5. v \in Operand /\ Denotes(v, Part(Top)) /\ ir \in Seq(Instr)
    BY <1>1, <1>3, <1>4, TopMeaning
  <1>6. Denotes(v, m)
    BY <1>1, <1>2, <1>4, <1>5, PartOfKinds
  <1>7. UNCHANGED <<cu, pascal_scopes>> /\ Longer /\ CodeInv'
    BY <1>4, NothingEmitted
  <1>8. \A rho : \A e : Knows(rho, e)' => Knows(rho, e)
    BY <1>5, <1>7, KnownStays
  <1>9. \A e \in Envs : Source!Eval(e)[n] = Source!Eval(e)[m]
    BY <1>1, <1>2, <1>4, InnerMeaning
  <1>10. Denotes(v, n)'
    BY <1>6, <1>7, <1>8, <1>9, DenotesNow DEF Denotes
  <1>11. n.kind \in ExprKinds
    BY <1>4 DEF ExprKinds, FactorKinds
  <1> QED BY <1>1, <1>4, <1>5, <1>7, <1>10, <1>11, ValueGiven DEF WalkMeaning

\* Its bits are inverted.
LEMMA EvalNegationMeaning ==
  ASSUME Translating, EvalNegation
  PROVE  WalkMeaning'
PROOF
  <1>1. PICK n : n = Top.node
    OBVIOUS
  <1>2. PICK m : m = n.inner
    OBVIOUS
  <1>3. PICK args : args = <<ret, Const(ret.ty, -1)>>
    OBVIOUS
  <1>4. PICK v : v = BuiltVal("xor", args)
    OBVIOUS
  <1>5. /\ frames # <<>> /\ n.kind = "Negation" /\ ret # NoValue
        /\ ReturnBuilt("xor", args)
    BY <1>1, <1>3 DEF EvalNegation, At
  <1>6. Accepted("xor", args) /\ ir' = BuiltIr("xor", args) /\ frames' = Popped /\ ret' = v
        /\ KeepWalk
    <2>1. ~Throw("assert")
      BY NothingThrown
    <2> QED BY <1>4, <1>5, <2>1 DEF ReturnBuilt, Return
  <1>7. WellTyped("xor", args) /\ "xor" \in PureOps
    <2>1. WellTyped("xor", args)
      BY <1>1, <1>3, <1>6, NegationTypes DEF Translating
    <2> QED BY <2>1 DEF PureOps, ArithOps
  <1>8. IInv /\ ir \in Seq(Instr) /\ ret \in Operand /\ Denotes(ret, Part(Top))
    BY <1>1, <1>5, TopMeaning
  <1>9. /\ args \in Seq(Operand) /\ DOMAIN args = 1..2
        /\ args[1] = ret /\ args[2] = Const(ret.ty, -1)
    BY <1>3, <1>8 DEF Const, Operand, Value
  <1>10. v \in Operand
    <2>1. Computed(ret, Len(ir))
      BY <1>5, <1>8, ReturnedIsOperand
    <2>2. args \in Args("xor") /\ \A k \in DOMAIN args : Computed(args[k], Len(ir))
      BY <1>3, <1>8, <2>1 DEF Args, Const, Operand, Value, Computed, IsConst
    <2> QED BY <1>4, <1>7, <1>8, <2>2, BuiltFacts
  <1>11. PICK q : q = Len(ir) + 1
    OBVIOUS
  <1>12. UNCHANGED <<cu, pascal_scopes>> /\ BuiltIr("xor", args) \in Seq(Instr)
    BY <1>6 DEF KeepWalk, Translating, Walking, IInv, TypeOK
  <1>13. /\ Longer
         /\ \A rho : \A e : Knows(rho, e)' =>
              ValIn(rho, v) = Apply("xor", args[1].ty, [a \in DOMAIN args |-> ValIn(rho, args[a])])
         /\ ir' = ir \/ (ir'[q].op = "xor" /\ \E i \in Instr : ir' = Append(ir, i))
    <2>1. PICK op : op = "xor"
      OBVIOUS
    <2> QED BY <1>4, <1>6, <1>7, <1>8, <1>9, <1>11, <1>12, <2>1, BuiltComputes
  <1>14. CodeInv'
    <2>1. ir' = ir \/ (RightCode(q)' /\ \E i \in Instr : ir' = Append(ir, i))
      BY <1>13 DEF RightCode, DivOps
    <2> QED BY <1>8, <1>11, <1>12, <2>1, CodeStays DEF Translating
  <1>15. \A rho : \A e : Knows(rho, e)' => Knows(rho, e)
    BY <1>8, <1>12, <1>13, KnownStays
  <1>16. Denotes(ret, m)
    BY <1>1, <1>2, <1>5, <1>8, PartOfKinds
  <1>17. ASSUME NEW rho, NEW e \in Envs, Knows(rho, e)'
         PROVE  ValIn(rho, v) = Source!Eval(e)[n]
    <2>1. PICK x : x = Source!Eval(e)[m]
      OBVIOUS
    <2>2. ValIn(rho, ret) = x
      BY <1>15, <1>16, <1>17, <2>1 DEF Denotes
    <2>3. PICK vals : vals = [a \in DOMAIN args |-> ValIn(rho, args[a])]
      OBVIOUS
    <2>4. vals[1] = x /\ vals[2] = -1
      BY <1>9, <2>2, <2>3 DEF ValIn, Const, IsConst
    <2>5. ValIn(rho, v) = Apply("xor", args[1].ty, vals)
      BY <1>13, <1>17, <2>3
    <2>6. Apply("xor", args[1].ty, vals) = IF x = Undef THEN Undef ELSE -1 - x
      <3>1. Undef # -1
        BY IrAssumption
      <3>2. \A ty, l, r : Compute("xor", ty, l, r) = -1 - l
        BY Zenon DEF Compute
      <3> QED BY <2>4, <3>1, <3>2 DEF Apply
    <2>7. Source!Eval(e)[n] = IF x = Undef THEN Undef ELSE -1 - x
      BY <1>1, <1>2, <1>5, <2>1, InnerMeaning
    <2> QED BY <2>5, <2>6, <2>7
  <1>18. Denotes(v, n)'
    BY <1>12, <1>17, DenotesNow
  <1>19. n.kind \in ExprKinds
    BY <1>5 DEF ExprKinds, FactorKinds
  <1> QED BY <1>1, <1>5, <1>6, <1>10, <1>13, <1>14, <1>18, <1>19, ValueGiven DEF WalkMeaning

-----------------------------------------------------------------------------
(* Term, SimpleExpr and Expr.                                              *)

\* The chain at the top, its operands and its values.
LEMMA LoopMeaning ==
  ASSUME Translating, frames # <<>>, NEW n, n = Top.node, n.kind \in ChainKinds
  PROVE  /\ n \in Evaluable /\ n.kind \in ExprKinds /\ Sinks(n) /\ NodeType[n] \in BaseType
         /\ IInv /\ DeclsDone /\ ir \in Seq(Instr) /\ Top.next \in Nat
         /\ Len(n.ops) \in Nat
         /\ n.start \in Node /\ n.start.kind \in ExprKinds
         /\ NodeType[n.start] \in BaseType /\ Sinks(n.start)
         /\ \A k \in 1..Len(n.ops) :
              LET m == n.ops[k].rhs
              IN /\ n.ops[k].op \in IntegerOps
                 /\ m \in Node /\ m.kind \in ExprKinds /\ m \in Evaluable
                 /\ NodeType[m] = NodeType[n] /\ Sinks(m)
         /\ Top.acc # NoValue =>
              /\ Top.acc \in Operand
              /\ DenotesPart(Top.acc, n, IF ret # NoValue THEN Top.next - 2 ELSE Top.next - 1)
PROOF
  <1>1. n.kind \in ExprKinds
    BY DEF ExprKinds
  <1>2. /\ n \in Evaluable /\ Sinks(n) /\ NodeType[n] \in BaseType /\ n \in Node
        /\ IInv /\ DeclsDone /\ ir \in Seq(Instr) /\ Top.next \in Nat
    BY <1>1, TopMeaning
  <1>3. /\ n.start \in Node /\ Len(n.ops) \in Nat
        /\ \A k \in 1..Len(n.ops) : n.ops[k].rhs \in Node
        /\ n.start.kind \in ExprKinds
        /\ \A k \in 1..Len(n.ops) : n.ops[k].rhs.kind \in ExprKinds
    BY <1>2, ChainNodes, PartsAreExpressions
  <1>4. /\ NodeType[n.start] = NodeType[n]
        /\ \A k \in 1..Len(n.ops) :
             n.ops[k].op \in IntegerOps /\ NodeType[n.ops[k].rhs] = NodeType[n]
    <2>1. PICK t : t = OfChain(n, NodeType)
      OBVIOUS
    <2> QED BY <1>2, <2>1, ChainUniform
  <1>5. \A m \in Node : m.kind \in ExprKinds => m \in Evaluable
    BY DEF Evaluable, Factor, Chain, Of, ExprKinds
  <1>6. ASSUME NEW e \in Envs
        PROVE  /\ Source!Eval(e)[n.start] = Undef => Source!Eval(e)[n] = Undef
               /\ \A k \in 1..Len(n.ops) :
                    Source!Eval(e)[n.ops[k].rhs] = Undef => Source!Eval(e)[n] = Undef
    <2>1. PICK w : w = Source!Eval(e)
      OBVIOUS
    <2>2. PICK p : p = Source!OfOperators(n, w)
      OBVIOUS
    <2>3. /\ p[0] = w[n.start]
          /\ \A k \in 1..Len(n.ops) :
               p[k] = Source!Strict(n.ops[k].op, p[k - 1], w[n.ops[k].rhs])
          /\ \A k \in 0..Len(n.ops) : p[k] = Undef => w[n] = Undef
      BY <1>2, <2>1, <2>2, ChainNow
    <2>4. 0 \in 0..Len(n.ops) /\ \A k \in 1..Len(n.ops) : k \in 0..Len(n.ops)
      BY <1>3
    <2>5. ASSUME NEW k \in 1..Len(n.ops), w[n.ops[k].rhs] = Undef
          PROVE  w[n] = Undef
      <3>1. p[k] = Undef
        BY <2>3, <2>5 DEF Source!Strict
      <3> QED BY <2>3, <2>4, <3>1
    <2> QED BY <2>1, <2>3, <2>4, <2>5
  <1>7. Sinks(n.start)
    <2>1. \A e \in Envs : Source!Eval(e)[n.start] = Undef => Source!Eval(e)[n] = Undef
      BY <1>6
    <2> QED BY <1>2, <2>1, SinksInside
  <1>8. \A k \in 1..Len(n.ops) : Sinks(n.ops[k].rhs)
    <2> TAKE k \in 1..Len(n.ops)
    <2>1. \A e \in Envs : Source!Eval(e)[n.ops[k].rhs] = Undef => Source!Eval(e)[n] = Undef
      BY <1>6
    <2> QED BY <1>2, <2>1, SinksInside
  <1>9. Top.acc # NoValue =>
          /\ Top.acc \in Operand
          /\ DenotesPart(Top.acc, n, IF ret # NoValue THEN Top.next - 2 ELSE Top.next - 1)
    <2>1. /\ Len(frames) \in DOMAIN frames /\ Top = frames[Len(frames)]
          /\ Top.acc \in Values /\ Len(frames) \in Nat
      BY <1>2, TopFacts DEF Top
    <2>2. FrameRight(Len(frames))
      BY <2>1 DEF Translating, HoldInv
    <2>3. Pending(Len(frames)) <=> ret # NoValue
      BY <2>1 DEF Pending
    <2>4. Top.acc # NoValue =>
            DenotesPart(Top.acc, n, IF Pending(Len(frames)) THEN Top.next - 2 ELSE Top.next - 1)
      BY <2>1, <2>2 DEF FrameRight
    <2> QED BY <2>1, <2>3, <2>4 DEF Values
  <1> QED BY <1>1, <1>2, <1>3, <1>4, <1>5, <1>7, <1>8, <1>9

\* What o denotes of a chain after the step.
LEMMA DenotesPartNow ==
  ASSUME UNCHANGED <<cu, pascal_scopes>>, NEW v, NEW n, NEW j,
         \A rho : \A e \in Envs :
           Knows(rho, e)' => ValIn(rho, v) = Source!OfOperators(n, Source!Eval(e))[j]
  PROVE  DenotesPart(v, n, j)'
PROOF
  BY SameScopes DEF DenotesPart

\* The first operand is called.
LEMMA CallStartMeaning ==
  ASSUME Translating, CallStart
  PROVE  WalkMeaning'
PROOF
  <1>1. PICK n : n = Top.node
    OBVIOUS
  <1>2. PICK m : m = n.start
    OBVIOUS
  <1>3. /\ frames # <<>> /\ n.kind \in ChainKinds /\ KeepWalk /\ ir' = ir
        /\ ret' = ret /\ Top.next = 0 /\ frames' = Calling(m, NoValue)
    BY <1>1, <1>2 DEF CallStart, At
  <1>4. ret = NoValue /\ Top.acc = NoValue
    BY <1>1, <1>3, TopMeaning
  <1>5. m \in Node /\ m.kind \in ExprKinds /\ NodeType[m] \in BaseType /\ Sinks(m)
    BY <1>1, <1>2, <1>3, LoopMeaning
  <1>6. n.kind # "StmtSeq"
    BY <1>3 DEF ChainKinds
  <1>7. StackInv' /\ HoldInv'
    BY <1>1, <1>3, <1>4, <1>5, <1>6, CallMade
  <1> QED BY <1>3, <1>7, NothingEmitted DEF WalkMeaning

\* It is taken.
LEMMA TakeStartMeaning ==
  ASSUME Translating, TakeStart
  PROVE  WalkMeaning'
PROOF
  <1>1. PICK n : n = Top.node
    OBVIOUS
  <1>2. PICK v : v = ret
    OBVIOUS
  <1>3. /\ frames # <<>> /\ n.kind \in ChainKinds /\ KeepWalk /\ ir' = ir
        /\ ret # NoValue /\ ret' = NoValue /\ Top.next = 1
        /\ frames' = [frames EXCEPT ![Len(frames)].acc = v]
    BY <1>1, <1>2 DEF TakeStart, At
  <1>4. v \in Operand /\ Denotes(v, Part(Top)) /\ ir \in Seq(Instr)
    BY <1>1, <1>2, <1>3, TopMeaning
  <1>5. Denotes(v, n.start)
    BY <1>1, <1>3, <1>4, PartOfKinds
  <1>6. UNCHANGED <<cu, pascal_scopes>> /\ Longer /\ CodeInv'
    BY <1>3, NothingEmitted
  <1>7. \A rho : \A e : Knows(rho, e)' => Knows(rho, e)
    BY <1>4, <1>6, KnownStays
  <1>8. ASSUME NEW e \in Envs
        PROVE  Source!OfOperators(n, Source!Eval(e))[0] = Source!Eval(e)[n.start]
    <2>1. PICK w : w = Source!Eval(e)
      OBVIOUS
    <2>2. PICK p : p = Source!OfOperators(n, w)
      OBVIOUS
    <2>3. n \in Evaluable
      BY <1>1, <1>3, LoopMeaning
    <2>4. p[0] = w[n.start]
      BY <1>3, <2>1, <2>2, <2>3, ChainNow
    <2> QED BY <2>1, <2>2, <2>4
  <1>9. PICK j : j = Top.next - 1
    OBVIOUS
  <1>10. j = 0
    BY <1>3, <1>9
  <1>11. DenotesPart(v, n, j)'
    <2>1. \A rho : \A e \in Envs :
            Knows(rho, e)' => ValIn(rho, v) = Source!OfOperators(n, Source!Eval(e))[j]
      BY <1>5, <1>7, <1>8, <1>10 DEF Denotes
    <2> QED BY <1>6, <2>1, DenotesPartNow
  <1> QED BY <1>1, <1>3, <1>4, <1>6, <1>9, <1>11, ValueTaken DEF WalkMeaning

\* The operand of an operator is called.
LEMMA CallRhsMeaning ==
  ASSUME Translating, CallRhs
  PROVE  WalkMeaning'
PROOF
  <1>1. PICK n : n = Top.node
    OBVIOUS
  <1>2. PICK i : i = Top.next
    OBVIOUS
  <1>3. PICK m : m = n.ops[i].rhs
    OBVIOUS
  <1>4. /\ frames # <<>> /\ n.kind \in ChainKinds /\ Top.acc # NoValue /\ ret = NoValue
        /\ i <= Len(n.ops)
        /\ \/ Throw("NotImplemented")
           \/ frames' = Calling(m, Top.acc) /\ ir' = ir /\ ret' = ret /\ KeepWalk
    BY <1>1, <1>2, <1>3 DEF CallRhs, InChain, At
  <1>5. frames' = Calling(m, Top.acc) /\ ir' = ir /\ ret' = ret /\ KeepWalk
    <2>1. ~Throw("NotImplemented")
      BY NothingThrown DEF Exceptions
    <2> QED BY <1>4, <2>1
  <1>6. i \in 1..Len(n.ops)
    <2>1. i \in Nat /\ Len(n.ops) \in Nat /\ IInv
      BY <1>1, <1>2, <1>4, LoopMeaning
    <2>2. HoldsLeft(Top)
      BY <1>4, <2>1, TopFacts
    <2>3. i > 0
      BY <1>1, <1>2, <1>4, <2>2 DEF HoldsLeft
    <2> QED BY <1>4, <2>1, <2>3
  <1>7. m \in Node /\ m.kind \in ExprKinds /\ NodeType[m] \in BaseType /\ Sinks(m)
    BY <1>1, <1>3, <1>4, <1>6, LoopMeaning
  <1>8. n.kind # "StmtSeq"
    BY <1>4 DEF ChainKinds
  <1>9. PICK acc : acc = Top.acc
    OBVIOUS
  <1>10. StackInv' /\ HoldInv'
    BY <1>1, <1>4, <1>5, <1>7, <1>8, <1>9, CallMade
  <1> QED BY <1>5, <1>10, NothingEmitted DEF WalkMeaning

\* The value of the chain is returned.
LEMMA ChainReturnMeaning ==
  ASSUME Translating, ChainReturn
  PROVE  WalkMeaning'
PROOF
  <1>1. PICK n : n = Top.node
    OBVIOUS
  <1>2. PICK v : v = Top.acc
    OBVIOUS
  <1>3. /\ frames # <<>> /\ n.kind \in ChainKinds /\ v # NoValue /\ ret = NoValue
        /\ Top.next = Len(n.ops) + 1
        /\ frames' = Popped /\ ret' = v /\ ir' = ir /\ KeepWalk
    BY <1>1, <1>2 DEF ChainReturn, InChain, At, Return
  <1>4. /\ n \in Evaluable /\ n.kind \in ExprKinds /\ Len(n.ops) \in Nat /\ ir \in Seq(Instr)
        /\ v \in Operand /\ DenotesPart(v, n, Top.next - 1)
    BY <1>1, <1>2, <1>3, LoopMeaning
  <1>5. DenotesPart(v, n, Len(n.ops))
    <2>1. Top.next - 1 = Len(n.ops)
      BY <1>3, <1>4
    <2> QED BY <1>4, <2>1
  <1>6. UNCHANGED <<cu, pascal_scopes>> /\ Longer /\ CodeInv'
    BY <1>3, NothingEmitted
  <1>7. \A rho : \A e : Knows(rho, e)' => Knows(rho, e)
    BY <1>4, <1>6, KnownStays
  <1>8. ASSUME NEW e \in Envs
        PROVE  Source!OfOperators(n, Source!Eval(e))[Len(n.ops)] = Source!Eval(e)[n]
    <2>1. PICK w : w = Source!Eval(e)
      OBVIOUS
    <2>2. PICK p : p = Source!OfOperators(n, w)
      OBVIOUS
    <2>3. p[Len(n.ops)] = w[n]
      BY <1>3, <1>4, <2>1, <2>2, ChainNow
    <2> QED BY <2>1, <2>2, <2>3
  <1>9. Denotes(v, n)'
    <2>1. \A rho : \A e \in Envs : Knows(rho, e)' => ValIn(rho, v) = Source!Eval(e)[n]
      BY <1>5, <1>7, <1>8 DEF DenotesPart
    <2> QED BY <1>6, <2>1, DenotesNow
  <1> QED BY <1>1, <1>3, <1>4, <1>6, <1>9, ValueGiven DEF WalkMeaning

\* What the instruction of an operator computes of its operands.
LEMMA OperatorNow ==
  ASSUME Translating, frames # <<>>, NEW n, n = Top.node, n.kind \in ChainKinds,
         ret # NoValue, Top.acc # NoValue, NEW j \in 1..Len(n.ops), j = Top.next - 1,
         NEW op, op = n.ops[j].op, NEW rho, NEW e \in Envs, Knows(rho, e),
         NEW ty, ty = Top.acc.ty,
         NEW vals, vals[1] = ValIn(rho, Top.acc), vals[2] = ValIn(rho, ret)
  PROVE  /\ Apply(Opcode(op), ty, vals) = Source!OfOperators(n, Source!Eval(e))[j]
         /\ Source!OfOperators(n, Source!Eval(e))[j] = Undef => Source!Eval(e)[n] = Undef
PROOF
  <1>1. PICK m : m = n.ops[j].rhs
    OBVIOUS
  <1>2. /\ n \in Evaluable /\ NodeType[n] \in BaseType /\ IInv /\ DeclsDone
        /\ Len(n.ops) \in Nat
        /\ op \in IntegerOps /\ m \in Evaluable /\ NodeType[m] = NodeType[n]
    BY <1>1, LoopMeaning
  <1>3. Top.next \in Nat /\ Top.next # 1 /\ Top.next - 2 = j - 1
        /\ j - 1 \in 0..Len(n.ops) /\ j \in 0..Len(n.ops)
    <2>1. Top.next \in Nat
      BY TopMeaning
    <2> QED BY <1>2, <2>1
  <1>4. PICK w : w = Source!Eval(e)
    OBVIOUS
  <1>5. PICK p : p = Source!OfOperators(n, w)
    OBVIOUS
  <1>6. /\ p \in [0..Len(n.ops) -> Vals] /\ p[j] = Source!Strict(op, p[j - 1], w[m])
        /\ p[j] = Undef => w[n] = Undef
    <2>1. /\ p \in [0..Len(n.ops) -> Vals]
          /\ \A k \in 1..Len(n.ops) :
               p[k] = Source!Strict(n.ops[k].op, p[k - 1], w[n.ops[k].rhs])
          /\ \A k \in 0..Len(n.ops) : p[k] = Undef => w[n] = Undef
      BY <1>2, <1>4, <1>5, ChainNow
    <2> QED BY <1>1, <1>3, <2>1
  <1>7. p[j - 1] \in Vals /\ w[m] \in Vals
    <2>1. w[m] \in Vals
      BY <1>2, <1>4, EvalNow
    <2> QED BY <1>3, <1>6, <2>1
  <1>8. vals[1] = p[j - 1]
    <2>1. DenotesPart(Top.acc, n, Top.next - 2)
      BY LoopMeaning
    <2>2. DenotesPart(Top.acc, n, j - 1)
      BY <1>3, <2>1
    <2> QED BY <1>4, <1>5, <2>2 DEF DenotesPart
  <1>9. vals[2] = w[m]
    <2>1. Denotes(ret, Part(Top))
      BY TopMeaning
    <2>2. Part(Top) = m
      BY <1>1, <1>3, PartOfKinds
    <2> QED BY <1>4, <2>1, <2>2 DEF Denotes
  <1>10. ty = "i32" \/ Undef \in {p[j - 1], w[m]}
    <2>1. CASE NodeType[n] = "Integer"
      <3>1. PICK t : t = OfChain(n, NodeType)
        OBVIOUS
      <3>2. Carries(Top.acc, t[j - 1])
        <4>1. Carries(Top.acc, t[Top.next - 2])
          BY <3>1, LoopNow DEF Translating
        <4> QED BY <1>3, <4>1
      <3>3. t[j - 1] = NodeType[n]
        <4>1. n \in Node
          BY <1>2, InsideIsEvaluable
        <4> QED BY <1>2, <1>3, <3>1, <4>1, ChainUniform
      <3> QED BY <2>1, <3>2, <3>3 DEF Carries, IrType, LlvmType
    <2>2. CASE NodeType[n] # "Integer"
      <3>1. NodeType[m] \in {"Char", "String"}
        BY <1>2, <2>2 DEF BaseType
      <3> QED BY <1>2, <1>4, <3>1, NarrowUndef
    <2> QED BY <2>1, <2>2
  <1>11. Apply(Opcode(op), ty, vals) = p[j]
    BY <1>2, <1>6, <1>7, <1>8, <1>9, <1>10, OperatorComputes
  <1> QED BY <1>4, <1>5, <1>6, <1>11

\* An operator is applied.
LEMMA TakeRhsMeaning ==
  ASSUME Translating, TakeRhs
  PROVE  WalkMeaning'
PROOF
  <1>1. PICK n : n = Top.node
    OBVIOUS
  <1>2. PICK j : j = Top.next - 1
    OBVIOUS
  <1>3. PICK op : op = n.ops[j].op
    OBVIOUS
  <1>4. PICK args : args = Operands(op, Top.acc, ret)
    OBVIOUS
  <1>5. PICK code : code = Opcode(op)
    OBVIOUS
  <1>6. PICK v : v = BuiltVal(code, args)
    OBVIOUS
  <1>7. /\ frames # <<>> /\ n.kind \in ChainKinds /\ Top.next > 1 /\ ret # NoValue
        /\ \/ Throw("NotImplemented")
           \/ Throw("assert")
           \/ /\ Accepted(code, args) /\ ir' = BuiltIr(code, args)
              /\ frames' = [frames EXCEPT ![Len(frames)].acc = v]
              /\ ret' = NoValue /\ KeepWalk
    BY <1>1, <1>2, <1>3, <1>4, <1>5, <1>6 DEF TakeRhs, At
  <1>8. /\ Accepted(code, args) /\ ir' = BuiltIr(code, args)
        /\ frames' = [frames EXCEPT ![Len(frames)].acc = v]
        /\ ret' = NoValue /\ KeepWalk
    <2>1. ~Throw("NotImplemented") /\ ~Throw("assert")
      BY NothingThrown DEF Exceptions
    <2> QED BY <1>7, <2>1
  <1>9. /\ IInv /\ ir \in Seq(Instr) /\ Sinks(n) /\ Len(n.ops) \in Nat /\ Top.next \in Nat
        /\ \A k \in 1..Len(n.ops) : n.ops[k].op \in IntegerOps
    BY <1>1, <1>7, LoopMeaning
  <1>10. j \in 1..Len(n.ops) /\ Top.acc # NoValue
    <2>1. HoldsLeft(Top)
      BY <1>7, <1>9, TopFacts
    <2>2. Top.acc # NoValue /\ Top.next <= Len(n.ops) + 1
      BY <1>1, <1>7, <2>1 DEF HoldsLeft
    <2> QED BY <1>2, <1>7, <1>9, <2>2
  <1>11. op \in IntegerOps /\ op \in (MultOp \cup AddOp \cup RelOp) \ {"In", "RealDiv"}
    <2>1. op \in IntegerOps
      BY <1>3, <1>9, <1>10
    <2> QED BY <2>1 DEF IntegerOps, MultOp, AddOp, RelOp
  <1>12. Top.acc \in Operand /\ ret \in Operand
    BY <1>1, <1>7, <1>10, LoopMeaning, TopMeaning
  <1>13. args = <<Top.acc, ret>>
    BY <1>4, <1>11, Zenon DEF Operands, IntegerOps
  <1>14. /\ args \in Seq(Operand) /\ DOMAIN args = 1..2
         /\ args[1] = Top.acc /\ args[2] = ret
    BY <1>12, <1>13
  <1>15. code \in PureOps /\ v \in Operand
    <2>1. Computed(ret, Len(ir)) /\ Computed(Top.acc, Len(ir))
      BY <1>7, <1>9, ReturnedIsOperand, TopFacts, HeldFacts
    <2>2. /\ code \in PureOps /\ args \in Args(code)
          /\ \A k \in DOMAIN args : Computed(args[k], Len(ir))
      BY <1>4, <1>5, <1>11, <1>12, <2>1, OperandsFacts
    <2> QED BY <1>6, <1>9, <2>2, BuiltFacts
  <1>16. WellTyped(code, args)
    <2>1. op # "RealDiv"
      BY <1>11 DEF IntegerOps
    <2>2. PICK rhs, t : rhs = n.ops[j].rhs /\ t = OfChain(n, NodeType)
      OBVIOUS
    <2>3. Accepted(code, args) <=> WellTyped(code, args)
      BY <1>1, <1>2, <1>3, <1>4, <1>5, <2>1, <2>2, TakeRhsTypes DEF Translating
    <2> QED BY <1>8, <2>3
  <1>17. PICK q : q = Len(ir) + 1
    OBVIOUS
  <1>18. UNCHANGED <<cu, pascal_scopes>> /\ ir' \in Seq(Instr)
    BY <1>8 DEF KeepWalk, Translating, Walking, IInv, TypeOK
  <1>19. PICK ty : ty = args[1].ty
    OBVIOUS
  <1>20. /\ Longer
         /\ \A rho : \A e : Knows(rho, e)' =>
              ValIn(rho, v) = Apply(code, ty, [a \in DOMAIN args |-> ValIn(rho, args[a])])
         /\ ir' = ir \/ /\ ir'[q].op = code
                        /\ \E i \in Instr : ir' = Append(ir, i)
                        /\ Done(ir', q) = Emitted
                        /\ \A rho : \A e :
                             Consistent(ir', InnerScope, rho, e, q - 1) <=> Knows(rho, e)
                        /\ \A rho : Computes(ir', rho, q) =
                             Apply(code, ty, [a \in DOMAIN args |-> ValIn(rho, args[a])])
    <2>1. BuiltIr(code, args) \in Seq(Instr) /\ args \in Seq(Operand) /\ code \in PureOps
      BY <1>8, <1>14, <1>15, <1>18
    <2>2. ir \in Seq(Instr) /\ UNCHANGED <<cu, pascal_scopes>> /\ ir' = BuiltIr(code, args)
      BY <1>8, <1>9, <1>18
    <2>3. /\ Longer
          /\ \A rho : \A e : Knows(rho, e)' =>
               ValIn(rho, v) =
                 Apply(code, args[1].ty, [a \in DOMAIN args |-> ValIn(rho, args[a])])
          /\ ir' = ir \/ /\ q \in Nat \ {0} /\ ir'[q].op = code
                         /\ \E i \in Instr : ir' = Append(ir, i)
                         /\ Done(ir', q) = Emitted
                         /\ \A rho : \A e :
                              Consistent(ir', InnerScope, rho, e, q - 1) <=> Knows(rho, e)
                         /\ \A rho : Computes(ir', rho, q) =
                              Apply(code, args[1].ty, [a \in DOMAIN args |-> ValIn(rho, args[a])])
      BY <1>6, <1>16, <1>17, <2>1, <2>2, BuiltComputes
    <2> QED BY <1>19, <2>3
  <1>21. ASSUME NEW rho, NEW e \in Envs, Knows(rho, e)
         PROVE  /\ Apply(code, ty, [a \in DOMAIN args |-> ValIn(rho, args[a])])
                     = Source!OfOperators(n, Source!Eval(e))[j]
                /\ Source!OfOperators(n, Source!Eval(e))[j] = Undef => Source!Eval(e)[n] = Undef
    <2>1. PICK vals : vals = [a \in DOMAIN args |-> ValIn(rho, args[a])]
      OBVIOUS
    <2>2. vals[1] = ValIn(rho, Top.acc) /\ vals[2] = ValIn(rho, ret)
      BY <1>14, <2>1
    <2>3. ty = Top.acc.ty
      BY <1>14, <1>19
    <2> QED BY <1>1, <1>2, <1>3, <1>5, <1>7, <1>10, <1>21, <2>1, <2>2, <2>3, OperatorNow
  <1>22. \A rho : \A e : Knows(rho, e)' => Knows(rho, e)
    BY <1>9, <1>18, <1>20, KnownStays
  <1>23. DenotesPart(v, n, j)'
    <2>1. \A rho : \A e \in Envs :
            Knows(rho, e)' => ValIn(rho, v) = Source!OfOperators(n, Source!Eval(e))[j]
      BY <1>20, <1>21, <1>22
    <2> QED BY <1>18, <2>1, DenotesPartNow
  <1>24. CodeInv'
    <2>1. CASE ir' = ir
      BY <1>9, <1>17, <1>18, <2>1, CodeStays DEF Translating
    <2>2. CASE ir' # ir
      <3>1. code \notin {"store", "call", "ret"}
        BY <1>15 DEF PureOps, ArithOps, DivOps, CmpOps
      <3>2. RightDivision(q)'
        <4>1. Steps' = Steps /\ Envs' = Envs /\ InnerScope' = InnerScope
          BY <1>18, SameScopes
        <4>2. Done(ir', q) < Len(Steps)
          BY <1>9, <1>20, <2>2 DEF Sinks
        <4>3. ASSUME NEW rho, NEW e \in Envs, Consistent(ir', InnerScope, rho, e, q - 1),
                     Computes(ir', rho, q) = Undef
              PROVE  Source!Eval(e)[ExprOf(Steps[Done(ir', q) + 1])] = Undef
          <5>1. Knows(rho, e)
            BY <1>20, <2>2, <4>3
          <5>2. Source!Eval(e)[n] = Undef
            BY <1>20, <1>21, <2>2, <4>3, <5>1
          <5>3. Done(ir', q) = Emitted
            BY <1>20, <2>2
          <5> QED BY <1>9, <5>2, <5>3 DEF Sinks
        <4> QED BY <4>1, <4>2, <4>3 DEF RightDivision
      <3>3. RightCode(q)'
        BY <1>20, <2>2, <3>1, <3>2 DEF RightCode
      <3> QED BY <1>9, <1>17, <1>18, <1>20, <2>2, <3>3, CodeStays DEF Translating
    <2> QED BY <2>1, <2>2
  <1> QED BY <1>1, <1>2, <1>7, <1>8, <1>15, <1>20, <1>23, <1>24, ValueTaken DEF WalkMeaning

-----------------------------------------------------------------------------
(* All steps of the compiler together.                                     *)

\* A step of the walk goes on, throws, or is the last one.
LEMMA StagesOfWalk ==
  ASSUME Statements \/ Factors \/ Chains
  PROVE  Finish \/ KeepWalk \/ \E e \in Exceptions \cup {"assert"} : Throw(e)
PROOF
  <1>1. CASE Statements
    BY <1>1 DEF Statements, VisitStmtSeq, VisitIgnored, AssignmentEval, AssignmentStore,
                ProcCallEval, ProcCallReject, ProcCallEmit, VisitWriteStr, Exceptions
  <1>2. CASE Factors
    BY <1>2 DEF Factors, EvalNumber, EvalBool, EvalUnsupported, EvalDesignator, CallInner,
                EvalParen, EvalNegation, ReturnBuilt, Exceptions
  <1>3. CASE Chains
    BY <1>3 DEF Chains, CallStart, TakeStart, CallRhs, TakeRhs, ChainReturn, Exceptions
  <1> QED BY <1>1, <1>2, <1>3

\* A step of the walk over a program of the language.
LEMMA WalkStep ==
  ASSUME Translating, Statements \/ Factors \/ Chains
  PROVE  MeaningInv'
PROOF
  <1>1. CASE Finish
    <2>1. stage' = "lowered"
      BY <1>1 DEF Finish
    <2> QED BY <1>1, <2>1, FinishMeaning DEF MeaningInv
  <1>2. CASE ~Finish
    <2>1. stage' = "stmts"
      <3>1. KeepWalk \/ \E e \in Exceptions \cup {"assert"} : Throw(e)
        BY <1>2, StagesOfWalk
      <3>2. KeepWalk
        BY <3>1, NothingThrown
      <3> QED BY <3>2 DEF KeepWalk, Translating
    <2>2. WalkMeaning'
      <3>1. CASE Statements
        BY <1>2, <3>1, SequenceMeaning, IgnoredMeaning, AssignmentEvalMeaning,
           AssignmentStoreMeaning, ProcCallEvalMeaning, ProcCallEmitMeaning, OtherCallsMeaning
           DEF Statements
      <3>2. CASE Factors
        BY <3>2, EvalNumberMeaning, OtherFactorsMeaning, EvalDesignatorMeaning,
           CallInnerMeaning, EvalParenMeaning, EvalNegationMeaning DEF Factors
      <3>3. CASE Chains
        BY <3>3, CallStartMeaning, TakeStartMeaning, CallRhsMeaning, TakeRhsMeaning,
           ChainReturnMeaning DEF Chains
      <3> QED BY <3>1, <3>2, <3>3
    <2> QED BY <2>1, <2>2 DEF MeaningInv, WalkMeaning
  <1> QED BY <1>1, <1>2

\* The declarations emit allocas only, with which no statement is executed.
LEMMA BodyStarts ==
  ASSUME IInv, WalkShape, StartBody, \A k \in DOMAIN ir : ir[k].op = "alloca"
  PROVE  MeaningInv'
PROOF
  <1>1. /\ stage' = "stmts" /\ frames' = <<Frame(Body(cu))>> /\ ir' = ir /\ ret' = ret
        /\ cu' = cu /\ pascal_scopes' = pascal_scopes
    BY DEF StartBody
  <1>2. ret = NoValue
    BY DEF StartBody, WalkShape
  <1>3. CodeInv'
    BY <1>1 DEF CodeInv, RightCode, DivOps
  <1>4. /\ DOMAIN frames' = 1..1 /\ Len(frames') = 1 /\ frames' # <<>>
        /\ frames'[1] = Frame(Body(cu)) /\ Top' = Frame(Body(cu))
    BY <1>1 DEF Top
  <1>5. Frame(Body(cu)).node = Body(cu) /\ Frame(Body(cu)).next = 0
    BY DEF Frame
  <1>6. /\ Body(cu) \in Stmt /\ Body(cu).kind = "StmtSeq" /\ LiesAt(Steps, Body(cu), 0)
        /\ Body(cu) \in Node /\ Steps' = Steps
    BY <1>1, BodyIsAll DEF IInv, TypeOK, Stmt, Of, Steps
  <1>7. HoldInv'
    BY <1>1, <1>2, <1>4, <1>5, <1>6 DEF HoldInv, FrameRight, ExprKinds, FactorKinds, ChainKinds
  <1>8. Emitted' = 0
    <2>1. ir \in Seq(Instr) /\ DOMAIN ir = 1..Len(ir)
      BY DEF IInv, TypeOK
    <2>2. {i \in 1..Len(ir) : Effect(ir[i])} = {}
      BY <2>1 DEF Effect
    <2> QED BY <1>1, <2>2, FS_EmptySet DEF Emitted, Done
  <1>9. PICK o \in [Nat -> Nat] : \A k \in Nat : o[k] = 0
    <2>1. [k \in Nat |-> 0] \in [Nat -> Nat]
      OBVIOUS
    <2> QED BY <2>1
  <1>10. Len(Body(cu).stmts) \in Nat /\ SoFar(Body(cu), 0) = 0
    BY <1>6, SoFarFacts
  <1>11. Placed(o)'
    <2>1. o[1] = 0
      BY <1>9
    <2>2. Emitted' = o[Len(frames')] + SoFar(Top'.node, Top'.next)
      BY <1>4, <1>5, <1>8, <1>10, <2>1
    <2>3. 0 <= Len(Body(cu).stmts)
      BY <1>10
    <2> QED BY <1>4, <1>5, <1>6, <2>1, <2>2, <2>3 DEF Placed
  <1> QED BY <1>1, <1>3, <1>7, <1>11 DEF MeaningInv, StackInv

\* A step of the declarations.
LEMMA DeclarationStep ==
  ASSUME IInv, WalkShape, MeaningInv, Declarations
  PROVE  MeaningInv'
PROOF
  <1>1. ir \in Seq(Instr)
    BY DEF IInv, TypeOK
  <1>2. CASE StartBody
    <2>1. \A k \in DOMAIN ir : ir[k].op = "alloca"
      BY <1>2 DEF StartBody, MeaningInv
    <2> QED BY <1>2, <2>1, BodyStarts
  <1>3. CASE DeclareName
    <2>1. /\ stage = "decls" /\ stage' = stage
          /\ ir' = Emit("alloca", LlvmType(decl.type), <<>>)
      BY <1>3 DEF DeclareName, InDecl
    <2>2. \A k \in DOMAIN ir : ir[k].op = "alloca"
      BY <2>1 DEF MeaningInv
    <2>3. \A k \in DOMAIN ir' : ir'[k].op = "alloca"
      BY <1>1, <2>1, <2>2 DEF Emit
    <2> QED BY <2>1, <2>3 DEF MeaningInv
  <1>4. CASE StartMain \/ ResolveType \/ RejectBlock \/ RejectName
    <2>1. /\ stage \in {"toplevel", "decls"} /\ ir' = ir
          /\ stage' \notin {"stmts", "lowered"}
      <3>1. CASE StartMain
        BY <3>1 DEF StartMain
      <3>2. CASE ResolveType
        BY <3>2 DEF ResolveType, InDecl, Throw, TypeError
      <3>3. CASE RejectBlock \/ RejectName
        BY <3>3 DEF RejectBlock, RejectName, InDecl, Throw
      <3> QED BY <1>4, <3>1, <3>2, <3>3
    <2> QED BY <2>1 DEF MeaningInv
  <1> QED BY <1>2, <1>3, <1>4 DEF Declarations

\* Where nothing changes.
LEMMA MeaningStays ==
  ASSUME MeaningInv, UNCHANGED vars
  PROVE  MeaningInv'
PROOF
  <1>1. UNCHANGED <<cu, stage, pascal_scopes, ir, frames, ret>>
    BY DEF vars
  <1>2. /\ Steps' = Steps /\ Envs' = Envs /\ InnerScope' = InnerScope /\ NodeType' = NodeType
        /\ Top' = Top /\ Emitted' = Emitted
    BY <1>1, SameScopes DEF Top, Emitted
  <1>3. CodeInv => CodeInv'
    BY <1>1, <1>2 DEF CodeInv, RightCode, RightStore, RightCall, RightDivision, Means
  <1>4. StackInv => StackInv'
    BY <1>1, <1>2 DEF StackInv, Placed
  <1>5. HoldInv => HoldInv'
    <2>1. ret # NoValue /\ Denotes(ret, Part(Top)) => Denotes(ret, Part(Top))'
      BY <1>1, <1>2 DEF Denotes, Knows, Part
    <2>2. \A k \in DOMAIN frames : FrameRight(k) => FrameRight(k)'
      BY <1>1, <1>2 DEF FrameRight, DenotesPart, Knows, Sinks, Pending
    <2> QED BY <1>1, <2>1, <2>2 DEF HoldInv
  <1>6. DeclsDone => DeclsDone'
    BY <1>1, DeclsKept
  <1> QED BY <1>1, <1>3, <1>4, <1>5, <1>6 DEF MeaningInv

\* The code means the program, at every moment of its translation.
LEMMA NextMeaning ==
  ASSUME IInv, IInv', WalkShape, WalkShape', WriteIntIsThere, ClashesShow,
         VerdictInv, VerdictInv', Supported(cu), MeaningInv, [Next]_vars
  PROVE  MeaningInv'
PROOF
  <1>1. CASE Declarations
    BY <1>1, DeclarationStep
  <1>2. CASE Statements \/ Factors \/ Chains
    <2>1. stage = "stmts"
      <3>1. CASE Statements
        BY <3>1 DEF Statements, VisitStmtSeq, VisitIgnored, AssignmentEval, AssignmentStore,
                    ProcCallEval, ProcCallReject, ProcCallEmit, VisitWriteStr, Finish, At
      <3>2. CASE Factors
        BY <3>2 DEF Factors, EvalNumber, EvalBool, EvalUnsupported, EvalDesignator, CallInner,
                    EvalParen, EvalNegation, At
      <3>3. CASE Chains
        BY <3>3 DEF Chains, CallStart, TakeStart, CallRhs, TakeRhs, ChainReturn, InChain, At
      <3> QED BY <1>2, <3>1, <3>2, <3>3
    <2>2. StmtsSoFar /\ CodeInv /\ StackInv /\ HoldInv
      BY <2>1 DEF VerdictInv, MeaningInv
    <2>3. Translating
      BY <2>1, <2>2 DEF Translating, Walking
    <2> QED BY <1>2, <2>3, WalkStep
  <1>3. CASE UNCHANGED vars
    BY <1>3, MeaningStays
  <1> QED BY <1>1, <1>2, <1>3 DEF Next

-----------------------------------------------------------------------------
(***************************************************************************)
(* The run.  Between two steps of the interpreter the registers follow     *)
(* from the values of the variables, which are what the slots hold.        *)
(***************************************************************************)

\* The variables of the source program are the names declared.
LEMMA NamesDeclared == SourceNames = DeclaredNames(cu)
PROOF
  <1>1. ASSUME NEW x \in SourceNames
        PROVE  x \in DeclaredNames(cu)
    <2>1. PICK d \in DOMAIN VarDecls(cu) : x \in ToSet(VarDecls(cu)[d].idents)
      BY DEF SourceNames
    <2>2. PICK j \in DOMAIN VarDecls(cu)[d].idents : x = VarDecls(cu)[d].idents[j]
      BY <2>1 DEF ToSet
    <2>3. <<d, j>> \in NamePlaces(cu) /\ NameAt(cu, <<d, j>>) = x
      BY <2>1, <2>2 DEF NamePlaces, NameAt
    <2> QED BY <2>3 DEF DeclaredNames
  <1>2. ASSUME NEW x \in DeclaredNames(cu)
        PROVE  x \in SourceNames
    <2>1. PICK p \in NamePlaces(cu) : x = NameAt(cu, p)
      BY DEF DeclaredNames
    <2>2. PICK d \in DOMAIN VarDecls(cu) : p \in {d} \X DOMAIN VarDecls(cu)[d].idents
      BY <2>1 DEF NamePlaces
    <2>3. x \in ToSet(VarDecls(cu)[d].idents)
      BY <2>1, <2>2 DEF NameAt, ToSet
    <2> QED BY <2>3 DEF SourceNames
  <1> QED BY <1>1, <1>2

\* What a variable holds is in the slot its name leads to.
LEMMA VariablesNow ==
  ASSUME IInv, DeclsDone
  PROVE  /\ DOMAIN InnerScope = Variables
         /\ DOMAIN VarTypes(cu) = Variables
         /\ SourceEnv = [x \in Variables |->
                           IF InnerScope[x].alloc \in DOMAIN mem
                           THEN mem[InnerScope[x].alloc] ELSE Undef]
PROOF
  <1>1. DOMAIN InnerScope = Variables /\ DOMAIN VarTypes(cu) = Variables
    BY DEF DeclsDone, Variables
  <1>2. SourceNames = Variables
    BY <1>1, NamesDeclared DEF VarTypes
  <1>3. \A x \in Variables : IsVariable(x) /\ lookup_decl(x) = InnerScope[x]
    BY <1>1, NodeTypes, LookupFacts
  <1> QED BY <1>1, <1>2, <1>3 DEF SourceEnv

\* As many statements have been executed as the code executed so far stands for.
Position == Done(ir, Len(regs))

\* The source program is at that statement.
LEMMA SourcePosition ==
  /\ Cardinality(Executed({"store", "call"})) = Position
  /\ Source!Effects[Source!Body(cu)] = Steps
PROOF
  <1>1. Executed({"store", "call"}) = {i \in 1..Len(regs) : Effect(ir[i])}
    BY DEF Executed, Effect
  <1> QED BY <1>1, SameEffects, SameTrees DEF Position, Done, Steps

\* The context of a step of the interpreter, in a program of the language.
Running ==
  /\ ExecInv /\ process = "running" /\ Len(regs) < Len(ir) /\ stage = "lowered"
  /\ UNCHANGED vars
  /\ Supported(cu) /\ CodeInv /\ DeclsDone
  /\ SourceEnv \in Envs /\ Consistent(ir, InnerScope, regs, SourceEnv, Len(regs))

\* One register more changes nothing for the instructions before.
LEMMA RegistersGrow ==
  ASSUME ExecInv, Len(regs) < Len(ir), NEW v, NEW rho, rho = Append(regs, v)
  PROVE  /\ Len(regs) \in Nat /\ Len(rho) = Len(regs) + 1 /\ rho[Len(regs) + 1] = v
         /\ \A e : Consistent(ir, InnerScope, rho, e, Len(regs))
                     <=> Consistent(ir, InnerScope, regs, e, Len(regs))
         /\ Computes(ir, rho, Len(regs) + 1) = Computes(ir, regs, Len(regs) + 1)
PROOF
  <1>1. PICK k : k = Len(regs)
    OBVIOUS
  <1>2. /\ regs \in Seq(Value) /\ ir \in Seq(Instr) /\ k \in Nat /\ k + 1 \in DOMAIN ir
        /\ DOMAIN ir = 1..Len(ir) /\ Len(ir) \in Nat
    BY <1>1 DEF ExecInv, ExecTypeOK, IInv, TypeOK
  <1>3. /\ \A i \in 1..k : rho[i] = regs[i]
        /\ rho[k + 1] = v /\ Len(rho) = k + 1
    BY <1>1, <1>2
  <1>4. ASSUME NEW i \in 1..k + 1, NEW a \in DOMAIN ir[i].args
        PROVE  ValIn(rho, ir[i].args[a]) = ValIn(regs, ir[i].args[a])
    <2>1. i \in DOMAIN ir /\ ir[i].args \in Seq(Operand)
      <3>1. i \in 1..Len(ir)
        BY <1>2
      <3>2. ir[i] \in Instr
        BY <1>2, <3>1
      <3> QED BY <1>2, <3>1, <3>2 DEF Instr
    <2>2. PICK o \in Operand : o = ir[i].args[a]
      BY <2>1
    <2>3. Computed(o, i - 1)
      BY <2>1, <2>2 DEF ExecInv, IInv, ValuesComputedBeforeUse
    <2>4. IsConst(o) \/ o.reg \in 1..k
      BY <1>2, <2>2, <2>3 DEF Computed, IsConst, Operand
    <2>5. ValIn(rho, o) = ValIn(regs, o)
      BY <1>3, <2>4 DEF ValIn
    <2> QED BY <2>2, <2>5
  <1>5. \A i \in 1..k + 1 : Computes(ir, rho, i) = Computes(ir, regs, i)
    BY <1>4 DEF Computes
  <1>6. \A e : \A i \in 1..k :
          Follows(ir, InnerScope, rho, e, i) <=> Follows(ir, InnerScope, regs, e, i)
    <2>1. \A i \in 1..k : i \in 1..k + 1
      BY <1>2
    <2> QED BY <1>3, <1>5, <2>1 DEF Follows
  <1>7. k + 1 \in 1..k + 1
    BY <1>2
  <1> QED BY <1>1, <1>2, <1>3, <1>5, <1>6, <1>7 DEF Consistent

\* What a run keeps: the registers follow from the variables.
RunRight == SourceEnv \in Envs /\ Consistent(ir, InnerScope, regs, SourceEnv, Len(regs))

\* How far the source program is.
LEMMA StatusNow ==
  /\ process = "compiling" => SourceStatus = "submitted"
  /\ process = "running" => SourceStatus = "running"
  /\ process = "exited" => SourceStatus = "ended"
  /\ process = "aborted" => SourceStatus = IF stage = "lowered" THEN "failed" ELSE "refused"
PROOF
  BY Zenon DEF SourceStatus

\* And after a step.
LEMMA StatusThen ==
  /\ process' = "compiling" => SourceStatus' = "submitted"
  /\ process' = "running" => SourceStatus' = "running"
  /\ process' = "exited" => SourceStatus' = "ended"
  /\ process' = "aborted" => SourceStatus' = IF stage' = "lowered" THEN "failed" ELSE "refused"
PROOF
  BY Zenon DEF SourceStatus

\* The memory after a step says what the variables hold.
LEMMA VariablesThen ==
  ASSUME IInv, DeclsDone, UNCHANGED vars
  PROVE  SourceEnv' = [x \in Variables |->
                         IF InnerScope[x].alloc \in DOMAIN mem'
                         THEN mem'[InnerScope[x].alloc] ELSE Undef]
PROOF
  <1>1. cu' = cu /\ pascal_scopes' = pascal_scopes
    BY DEF vars
  <1>2. SourceNames' = Variables
    BY <1>1, VariablesNow, NamesDeclared DEF SourceNames, VarTypes
  <1>3. \A x \in Variables : IsVariable(x) /\ lookup_decl(x) = InnerScope[x]
    BY VariablesNow, NodeTypes, LookupFacts
  <1>4. ASSUME NEW x
        PROVE  /\ IsVariable(x)' <=> IsVariable(x)
               /\ lookup_decl(x)' = lookup_decl(x)
    BY <1>1 DEF IsVariable, Declared, Hits, lookup_decl
  <1> QED BY <1>2, <1>3, <1>4 DEF SourceEnv

\* After an instruction that completes.
LEMMA Advance ==
  ASSUME Running, NEW v, regs' = Append(regs, v)
  PROVE  /\ ir' = ir /\ cu' = cu /\ stage' = stage /\ InnerScope' = InnerScope
         /\ Envs' = Envs /\ Steps' = Steps
         /\ Position \in Nat
         /\ Position' = IF Effect(Instruction) THEN Position + 1 ELSE Position
         /\ /\ SourceEnv' \in Envs
            /\ ~Effect(Instruction) =>
                 /\ SourceEnv' = SourceEnv
                 /\ Follows(ir, InnerScope, regs', SourceEnv, Len(regs) + 1)
            => RunRight'
PROOF
  <1>1. /\ ir' = ir /\ cu' = cu /\ stage' = stage /\ pascal_scopes' = pascal_scopes
        /\ ExecInv /\ Len(regs) < Len(ir)
    BY DEF Running, vars
  <1>2. InnerScope' = InnerScope /\ Envs' = Envs /\ Steps' = Steps
    BY <1>1, SameScopes
  <1>3. PICK rho : rho = Append(regs, v)
    OBVIOUS
  <1>4. /\ Len(regs) \in Nat /\ Len(regs') = Len(regs) + 1
        /\ \A e : Consistent(ir, InnerScope, rho, e, Len(regs))
                    <=> Consistent(ir, InnerScope, regs, e, Len(regs))
    BY <1>1, <1>3, RegistersGrow
  <1>5. PICK q \in Nat \ {0} : q = Len(regs) + 1
    BY <1>4
  <1>6. q - 1 = Len(regs) /\ Instruction = ir[q] /\ Len(regs') = q
    BY <1>4, <1>5 DEF Instruction
  <1>7. Position = Done(ir, q - 1) /\ Position' = Done(ir, q)
    BY <1>1, <1>6 DEF Position
  <1>8. /\ Done(ir, q - 1) \in Nat
        /\ Done(ir, q) = IF Effect(ir[q]) THEN Done(ir, q - 1) + 1 ELSE Done(ir, q - 1)
    BY <1>4, <1>6, Counting
  <1>9. ASSUME SourceEnv' \in Envs,
               ~Effect(Instruction) => /\ SourceEnv' = SourceEnv
                                       /\ Follows(ir, InnerScope, regs', SourceEnv, q)
        PROVE  RunRight'
    <2>1. PICK e : e = SourceEnv'
      OBVIOUS
    <2>2. Consistent(ir, InnerScope, rho, e, q)
      <3>1. CASE Effect(ir[q])
        BY <3>1, ConsistentStep
      <3>2. CASE ~Effect(ir[q])
        <4>1. e = SourceEnv /\ Follows(ir, InnerScope, rho, e, q)
          BY <1>3, <1>6, <1>9, <2>1, <3>2
        <4>2. Consistent(ir, InnerScope, rho, e, q - 1)
          BY <1>4, <1>6, <4>1 DEF Running
        <4> QED BY <3>2, <4>1, <4>2, ConsistentStep
      <3> QED BY <3>1, <3>2
    <2> QED BY <1>1, <1>2, <1>3, <1>6, <1>9, <2>1, <2>2 DEF RunRight
  <1> QED BY <1>1, <1>2, <1>5, <1>6, <1>7, <1>8, <1>9

\* An instruction that executes no statement leaves the source program alone.
LEMMA NoStatement ==
  ASSUME Running, NEW v, regs' = Append(regs, v), ~Effect(Instruction),
         SourceEnv' = SourceEnv, UNCHANGED <<process, out>>,
         Follows(ir, InnerScope, regs', SourceEnv, Len(regs) + 1)
  PROVE  RunRight' /\ UNCHANGED Source!srcVars
PROOF
  <1>1. /\ cu' = cu /\ stage' = stage /\ RunRight'
        /\ Position' = Position
    BY Advance DEF Running
  <1>2. Cardinality(Executed({"store", "call"}))' = Cardinality(Executed({"store", "call"}))
    <2>1. Executed({"store", "call"})' = {i \in 1..Len(regs') : Effect(ir'[i])}
      BY DEF Executed, Effect
    <2>2. Cardinality(Executed({"store", "call"}))' = Position'
      BY <2>1 DEF Position, Done
    <2> QED BY <1>1, <2>2, SourcePosition
  <1>3. SourceStatus' = SourceStatus
    BY <1>1, StatusNow, StatusThen DEF Running
  <1> QED BY <1>1, <1>2, <1>3 DEF Source!srcVars

\* A slot is made.
LEMMA AllocaRuns ==
  ASSUME Running, ExecAlloca
  PROVE  RunRight' /\ UNCHANGED Source!srcVars
PROOF
  <1>1. /\ Instruction.op = "alloca" /\ regs' = Append(regs, Len(regs) + 1)
        /\ UNCHANGED <<process, out>>
        /\ mem' = [s \in DOMAIN mem \cup {Len(regs) + 1} |->
                     IF s \in DOMAIN mem THEN mem[s] ELSE Undef]
    BY DEF ExecAlloca, Executing, Completes, NewSlot
  <1>2. SourceEnv' = SourceEnv
    BY <1>1, VariablesNow, VariablesThen DEF Running, ExecInv
  <1>3. ~Effect(Instruction)
    BY <1>1 DEF Effect
  <1>4. Follows(ir, InnerScope, regs', SourceEnv, Len(regs) + 1)
    BY <1>1 DEF Follows, Instruction, PureOps, ArithOps, DivOps, CmpOps
  <1> QED BY <1>1, <1>2, <1>3, <1>4, NoStatement

\* The slot an instruction addresses.
LEMMA AddressIs ==
  ASSUME Running, NEW a \in DOMAIN Instruction.args, NEW x \in Variables,
         Instruction.args[a].reg = InnerScope[x].alloc
  PROVE  ValueOf(Instruction.args[a]) = InnerScope[x].alloc
PROOF
  <1>1. PICK s : s = InnerScope[x].alloc
    OBVIOUS
  <1>2. s \in DOMAIN ir /\ ir[s].op = "alloca" /\ ir \in Seq(Instr)
    BY <1>1 DEF Running, ExecInv, IInv, AccessesGoToSlots, TypeOK
  <1>3. s <= Len(regs) /\ Len(regs) \in Nat
    BY <1>1, InstructionFacts DEF Running
  <1>4. s \in 1..Len(regs)
    BY <1>2, <1>3
  <1>5. regs[s] = s
    BY <1>2, <1>4 DEF Running, ExecInv, SlotsNamed
  <1> QED BY <1>1, <1>4, <1>5 DEF ValueOf, IsConst

\* A variable is loaded.
LEMMA LoadRuns ==
  ASSUME Running, ExecLoad
  PROVE  RunRight' /\ UNCHANGED Source!srcVars
PROOF
  <1>1. PICK v : v = mem[ValueOf(Instruction.args[1])]
    OBVIOUS
  <1>2. /\ Instruction.op = "load" /\ regs' = Append(regs, v)
        /\ UNCHANGED <<process, mem, out>>
    BY <1>1 DEF ExecLoad, Executing, Completes
  <1>3. SourceEnv' = SourceEnv
    BY <1>2, VariablesNow, VariablesThen DEF Running, ExecInv
  <1>4. ~Effect(Instruction)
    BY <1>2 DEF Effect
  <1>5. 1 \in DOMAIN Instruction.args
    BY <1>2, InstructionFacts DEF Running, ArgCount
  <1>6. ASSUME NEW x \in DOMAIN InnerScope, InnerScope[x].item = "var",
               InnerScope[x].alloc = Instruction.args[1].reg
        PROVE  v = SourceEnv[x]
    <2>1. x \in Variables
      BY <1>6 DEF Variables
    <2>2. ValueOf(Instruction.args[1]) = InnerScope[x].alloc
      BY <1>5, <1>6, <2>1, AddressIs
    <2>3. ValueOf(Instruction.args[1]) \in DOMAIN mem
      BY <1>2, InstructionFacts DEF Running
    <2> QED BY <1>1, <2>1, <2>2, <2>3, VariablesNow DEF Running, ExecInv
  <1>7. regs'[Len(regs) + 1] = v
    BY <1>2, RegistersGrow DEF Running
  <1>8. Follows(ir, InnerScope, regs', SourceEnv, Len(regs) + 1)
    BY <1>2, <1>6, <1>7 DEF Follows, Instruction, PureOps, ArithOps, DivOps, CmpOps
  <1> QED BY <1>2, <1>3, <1>4, <1>8, NoStatement

\* What an instruction without effect computes.
LEMMA ResultIs == Result = Computes(ir, regs, Len(regs) + 1)
PROOF
  BY DEF Result, Computes, ValueOf, ValIn, Instruction

\* A value is computed.
LEMMA PureRuns ==
  ASSUME Running, ExecPure
  PROVE  RunRight' /\ UNCHANGED Source!srcVars
PROOF
  <1>1. PICK v : v = Result
    OBVIOUS
  <1>2. /\ Instruction.op \in PureOps /\ regs' = Append(regs, v)
        /\ UNCHANGED <<process, mem, out>>
    BY <1>1 DEF ExecPure, Executing, Completes
  <1>3. SourceEnv' = SourceEnv
    BY <1>2, VariablesNow, VariablesThen DEF Running, ExecInv
  <1>4. ~Effect(Instruction) /\ Instruction.op # "load"
    BY <1>2 DEF Effect, PureOps, ArithOps, DivOps, CmpOps
  <1>5. PICK rho : rho = Append(regs, v)
    OBVIOUS
  <1>6. /\ rho[Len(regs) + 1] = v
        /\ Computes(ir, rho, Len(regs) + 1) = Computes(ir, regs, Len(regs) + 1)
    BY <1>5, RegistersGrow DEF Running
  <1>7. Follows(ir, InnerScope, rho, SourceEnv, Len(regs) + 1)
    BY <1>1, <1>4, <1>6, ResultIs DEF Follows, Instruction
  <1> QED BY <1>2, <1>3, <1>4, <1>5, <1>7, NoStatement

\* The statement whose turn it is.
LEMMA CurrentStatement ==
  ASSUME Running, Position < Len(Steps), NEW s, s = Steps[Position + 1]
  PROVE  /\ SupportedStmt(s, VarTypes(cu)) /\ s \in Node
         /\ s.kind \in {"Assignment", "ProcCall"}
         /\ Source!Current = s /\ Source!Active(s.kind)
PROOF
  <1>1. Steps \in Seq(Stmt) /\ Len(Steps) \in Nat
    BY BodyIsAll DEF Running, ExecInv, IInv, TypeOK
  <1>2. Position + 1 \in DOMAIN Steps
    <2>1. Len(regs) \in Nat
      BY DEF Running, ExecInv, ExecTypeOK
    <2>2. Position \in Nat
      BY <2>1, Counting DEF Position
    <2> QED BY <1>1, <2>2
  <1>3. s \in Stmt
    BY <1>1, <1>2
  <1>4. SupportedStmt(s, VarTypes(cu))
    BY <1>2 DEF Running, Supported, Steps
  <1>5. s.kind \in {"Assignment", "ProcCall"}
    BY <1>4 DEF SupportedStmt
  <1>6. Source!Current = s
    BY SourcePosition DEF Source!Current
  <1>7. Source!Active(s.kind)
    BY <1>6, SourcePosition, StatusNow DEF Source!Active, Running
  <1> QED BY <1>3, <1>4, <1>5, <1>6, <1>7 DEF Stmt, Of

\* A statement has been executed.
LEMMA StatementExecuted ==
  ASSUME Running, NEW v, regs' = Append(regs, v), Effect(Instruction), UNCHANGED process
  PROVE  /\ Done(ir, Len(regs) + 1) = Position + 1
         /\ Cardinality(Executed({"store", "call"}))'
              = Cardinality(Executed({"store", "call"})) + 1
         /\ UNCHANGED <<cu, SourceStatus>>
         /\ SourceEnv' \in Envs => RunRight'
PROOF
  <1>1. /\ ir' = ir /\ cu' = cu /\ stage' = stage
        /\ Position' = Position + 1
        /\ SourceEnv' \in Envs => RunRight'
    BY Advance
  <1>2. Cardinality(Executed({"store", "call"}))' = Position'
    <2>1. Executed({"store", "call"})' = {i \in 1..Len(regs') : Effect(ir'[i])}
      BY DEF Executed, Effect
    <2> QED BY <2>1 DEF Position, Done
  <1>3. SourceStatus' = SourceStatus
    BY <1>1, StatusNow, StatusThen DEF Running
  <1>4. Len(regs') = Len(regs) + 1
    <2>1. regs \in Seq(Value)
      BY DEF Running, ExecInv, ExecTypeOK
    <2> QED BY <2>1
  <1>5. Done(ir, Len(regs) + 1) = Position + 1
    BY <1>1, <1>4 DEF Position
  <1> QED BY <1>1, <1>2, <1>3, <1>5, SourcePosition

\* The slots of the variables are different ones.
LEMMA OneVariable ==
  ASSUME IInv, DeclsDone, UNCHANGED vars, NEW x \in Variables, NEW w,
         InnerScope[x].alloc \in DOMAIN mem, mem' = [mem EXCEPT ![InnerScope[x].alloc] = w]
  PROVE  SourceEnv' = [SourceEnv EXCEPT ![x] = w]
PROOF
  <1>1. \A y \in Variables \ {x} : InnerScope[y].alloc # InnerScope[x].alloc
    BY DEF IInv, AccessesGoToSlots
  <1>2. PICK slot : slot = [y \in Variables |-> InnerScope[y].alloc]
    OBVIOUS
  <1>3. DOMAIN mem' = DOMAIN mem
    OBVIOUS
  <1>4. SourceEnv = [y \in Variables |-> IF slot[y] \in DOMAIN mem THEN mem[slot[y]] ELSE Undef]
    BY <1>2, VariablesNow
  <1>5. SourceEnv' = [y \in Variables |->
                        IF slot[y] \in DOMAIN mem THEN mem'[slot[y]] ELSE Undef]
    BY <1>2, <1>3, VariablesThen
  <1>6. /\ mem'[slot[x]] = w /\ slot[x] \in DOMAIN mem
        /\ \A y \in Variables \ {x} : slot[y] \in DOMAIN mem => mem'[slot[y]] = mem[slot[y]]
    BY <1>1, <1>2
  <1> QED BY <1>4, <1>5, <1>6

\* A store executes the assignment.
LEMMA StoreRuns ==
  ASSUME Running, ExecStore
  PROVE  RunRight' /\ Source!Assign
PROOF
  <1>1. /\ Instruction.op = "store" /\ regs' = Append(regs, Undef)
        /\ UNCHANGED <<process, out>>
        /\ mem' = Stored(ValueOf(Instruction.args[2]), Instruction.args[1].ty,
                         ValueOf(Instruction.args[1]))
    BY DEF ExecStore, Executing, Completes
  <1>2. Effect(Instruction)
    BY <1>1 DEF Effect
  <1>3. PICK q : q = Len(regs) + 1
    OBVIOUS
  <1>4. /\ Instruction = ir[q] /\ q \in DOMAIN ir /\ q - 1 = Len(regs)
        /\ 1 \in DOMAIN Instruction.args /\ 2 \in DOMAIN Instruction.args
    BY <1>1, <1>3, InstructionFacts DEF Running, Instruction, ArgCount
  <1>5. Done(ir, q) = Position + 1
    BY <1>1, <1>2, <1>3, StatementExecuted
  <1>6. PICK s : s = Steps[Position + 1]
    OBVIOUS
  <1>7. PICK x : x = s.target.ident
    OBVIOUS
  <1>8. /\ Position + 1 <= Len(Steps) /\ s.kind = "Assignment" /\ x \in Variables
        /\ Instruction.args[2].reg = InnerScope[x].alloc
        /\ Instruction.args[1].ty = LlvmType(InnerScope[x].type)
        /\ Means(Len(regs), Instruction.args[1], s.expr)
    <2>1. RightStore(q)
      BY <1>1, <1>4 DEF Running, CodeInv, RightCode
    <2>2. Variables = DOMAIN InnerScope
      BY VariablesNow DEF Running, ExecInv
    <2> QED BY <1>4, <1>5, <1>6, <1>7, <2>1, <2>2 DEF RightStore
  <1>9. /\ SupportedStmt(s, VarTypes(cu)) /\ s \in Node
        /\ Source!Current = s /\ Source!Active("Assignment")
    <2>1. Position < Len(Steps)
      <3>1. Position \in Nat
        BY <1>1, Advance
      <3>2. Len(Steps) \in Nat
        BY BodyIsAll DEF Running, ExecInv, IInv, TypeOK
      <3> QED BY <1>8, <3>1, <3>2
    <2> QED BY <1>6, <1>8, <2>1, CurrentStatement
  <1>10. PICK w : w = Source!Eval(SourceEnv)[s.expr]
    OBVIOUS
  <1>11. ValueOf(Instruction.args[1]) = w
    BY <1>8, <1>10 DEF Means, Running, ValueOf, ValIn
  <1>12. /\ InnerScope[x].alloc \in DOMAIN mem
         /\ mem' = [mem EXCEPT ![InnerScope[x].alloc] = w]
    <2>1. ValueOf(Instruction.args[2]) = InnerScope[x].alloc
      BY <1>4, <1>8, AddressIs
    <2>2. ValueOf(Instruction.args[2]) \in DOMAIN mem
      BY <1>1, InstructionFacts DEF Running
    <2>3. Instruction.args[1].ty = ir[InnerScope[x].alloc].ty
      BY <1>8 DEF Running, ExecInv, IInv, AccessesGoToSlots
    <2> QED BY <1>1, <1>11, <2>1, <2>2, <2>3 DEF Stored
  <1>13. SourceEnv' = [SourceEnv EXCEPT ![x] = w]
    BY <1>8, <1>12, OneVariable DEF Running, ExecInv
  <1>14. w \in Vals /\ (VarTypes(cu)[x] # "Integer" => w = Undef)
    <2>1. s.expr \in Evaluable
      <3>1. s.expr \in Node /\ s.expr.kind \in ExprKinds
        BY <1>8, <1>9, StatementNodes, PartsAreExpressions
      <3> QED BY <3>1 DEF Evaluable, Factor, Chain, Of, ExprKinds
    <2>2. w \in Vals
      <3>1. PICK v : v = Source!Eval(SourceEnv)
        OBVIOUS
      <3>2. v[s.expr] \in Vals
        BY <2>1, <3>1, EvalNow DEF Running
      <3> QED BY <1>10, <3>1, <3>2
    <2>3. NodeType[s.expr] = VarTypes(cu)[x] /\ VarTypes(cu)[x] \in BaseType
      <3>1. NodeType[s.expr] = VarTypes(cu)[x]
        BY <1>7, <1>8, <1>9 DEF SupportedStmt, NodeType
      <3>2. x \in DOMAIN VarTypes(cu)
        BY <1>8, VariablesNow DEF Running, ExecInv
      <3> QED BY <3>1, <3>2, NodeTypes DEF Running, ExecInv
    <2>4. VarTypes(cu)[x] # "Integer" => w = Undef
      BY <1>10, <2>1, <2>3, NarrowUndef DEF Running, ExecInv, BaseType
    <2> QED BY <2>2, <2>4
  <1>15. SourceEnv' \in Envs
    BY <1>13, <1>14 DEF Running, Envs
  <1>16. RunRight' /\ UNCHANGED <<cu, SourceStatus>>
         /\ Cardinality(Executed({"store", "call"}))'
              = Cardinality(Executed({"store", "call"})) + 1
    BY <1>1, <1>2, <1>15, StatementExecuted
  <1>17. SourceEnv' = [SourceEnv EXCEPT ![Source!Current.target.ident]
                         = Source!Eval(SourceEnv)[Source!Current.expr]]
    BY <1>7, <1>9, <1>10, <1>13
  <1> QED BY <1>1, <1>9, <1>16, <1>17 DEF Source!Assign

\* A call executes the statement that writes.
LEMMA CallRuns ==
  ASSUME Running, lle_X_write_int
  PROVE  RunRight' /\ Source!Write
PROOF
  <1>1. /\ Instruction.op = "call" /\ regs' = Append(regs, Undef)
        /\ UNCHANGED <<process, mem>>
        /\ out' = Append(out, Printed(Instruction.args[1].ty, ValueOf(Instruction.args[1])))
    BY DEF lle_X_write_int, Executing, Completes
  <1>2. Effect(Instruction)
    BY <1>1 DEF Effect
  <1>3. PICK q : q = Len(regs) + 1
    OBVIOUS
  <1>4. Instruction = ir[q] /\ q \in DOMAIN ir /\ q - 1 = Len(regs)
    BY <1>3, InstructionFacts DEF Running, Instruction
  <1>5. Done(ir, q) = Position + 1
    BY <1>1, <1>2, <1>3, StatementExecuted
  <1>6. PICK s : s = Steps[Position + 1]
    OBVIOUS
  <1>7. /\ Position + 1 <= Len(Steps) /\ s.kind = "ProcCall"
        /\ Instruction.args[1].ty = "i32"
        /\ Means(Len(regs), Instruction.args[1], s.params[1])
    <2>1. RightCall(q)
      BY <1>1, <1>4 DEF Running, CodeInv, RightCode
    <2> QED BY <1>4, <1>5, <1>6, <2>1 DEF RightCall
  <1>8. Source!Current = s /\ Source!Active("ProcCall")
    <2>1. Position < Len(Steps)
      <3>1. Position \in Nat
        BY <1>1, Advance
      <3>2. Len(Steps) \in Nat
        BY BodyIsAll DEF Running, ExecInv, IInv, TypeOK
      <3> QED BY <1>7, <3>1, <3>2
    <2> QED BY <1>6, <1>7, <2>1, CurrentStatement
  <1>9. ValueOf(Instruction.args[1]) = Source!Eval(SourceEnv)[s.params[1]]
    BY <1>7 DEF Means, Running, ValueOf, ValIn
  <1>10. out' = Append(out, Source!Eval(SourceEnv)[s.params[1]])
    BY <1>1, <1>7, <1>9 DEF Printed
  <1>11. SourceEnv' = SourceEnv
    BY <1>1, VariablesNow, VariablesThen DEF Running, ExecInv
  <1>12. SourceEnv' \in Envs
    BY <1>11 DEF Running
  <1>13. RunRight' /\ UNCHANGED <<cu, SourceStatus>>
         /\ Cardinality(Executed({"store", "call"}))'
              = Cardinality(Executed({"store", "call"})) + 1
    BY <1>1, <1>2, <1>12, StatementExecuted
  <1> QED BY <1>8, <1>10, <1>11, <1>13 DEF Source!Write

\* A division stops the process where the statement has no value.
LEMMA TrapRuns ==
  ASSUME Running, Trap
  PROVE  Source!Fail
PROOF
  <1>1. /\ Instruction.op \in DivOps /\ Result = Undef /\ process' = "aborted"
        /\ UNCHANGED <<regs, mem, out>>
    BY DEF Trap, Executing
  <1>2. PICK q : q = Len(regs) + 1
    OBVIOUS
  <1>3. Instruction = ir[q] /\ q \in DOMAIN ir /\ q - 1 = Len(regs) /\ q \in Nat \ {0}
    BY <1>2, InstructionFacts DEF Running, Instruction
  <1>4. Done(ir, q) = Position
    <2>1. ~Effect(ir[q])
      BY <1>1, <1>3 DEF Effect, DivOps
    <2> QED BY <1>3, <2>1, Counting DEF Position
  <1>5. PICK s : s = Steps[Position + 1]
    OBVIOUS
  <1>6. Position < Len(Steps) /\ Source!Eval(SourceEnv)[ExprOf(s)] = Undef
    <2>1. RightDivision(q)
      BY <1>1, <1>3 DEF Running, CodeInv, RightCode
    <2>2. Computes(ir, regs, q) = Undef
      BY <1>1, <1>2, ResultIs
    <2>3. Consistent(ir, InnerScope, regs, SourceEnv, q - 1)
      BY <1>3 DEF Running
    <2> QED BY <1>4, <1>5, <2>1, <2>2, <2>3 DEF RightDivision, Running
  <1>7. /\ s.kind \in {"Assignment", "ProcCall"}
        /\ Source!Current = s /\ Source!Active(s.kind)
    BY <1>5, <1>6, CurrentStatement
  <1>8. \/ Source!Active("Assignment") /\ Source!Eval(SourceEnv)[Source!Current.expr] = Undef
        \/ Source!Active("ProcCall") /\ Source!Eval(SourceEnv)[Source!Current.params[1]] = Undef
    BY <1>6, <1>7 DEF ExprOf
  <1>9. SourceStatus' = "failed" /\ cu' = cu /\ ir' = ir
    BY <1>1, StatusThen DEF Running, vars
  <1>10. SourceEnv' = SourceEnv
    BY <1>1, VariablesNow, VariablesThen DEF Running, ExecInv
  <1>11. Cardinality(Executed({"store", "call"}))' = Cardinality(Executed({"store", "call"}))
    BY <1>1, <1>9 DEF Executed
  <1> QED BY <1>1, <1>8, <1>9, <1>10, <1>11 DEF Source!Fail

\* main returns when the statements have been executed.
LEMMA RetRuns ==
  ASSUME Running, ExecRet
  PROVE  Source!End
PROOF
  <1>1. /\ Instruction.op = "ret" /\ process' = "exited" /\ regs' = Append(regs, Undef)
        /\ UNCHANGED <<mem, out>>
    BY DEF ExecRet, Executing
  <1>2. ~Effect(Instruction)
    BY <1>1 DEF Effect
  <1>3. PICK q : q = Len(regs) + 1
    OBVIOUS
  <1>4. Instruction = ir[q] /\ q \in DOMAIN ir /\ q - 1 = Len(regs) /\ q \in Nat \ {0}
    BY <1>3, InstructionFacts DEF Running, Instruction
  <1>5. Position = Len(Steps)
    <2>1. Done(ir, q) = Len(Steps)
      BY <1>1, <1>4 DEF Running, CodeInv, RightCode
    <2> QED BY <1>2, <1>4, <2>1, Counting DEF Position
  <1>6. Position' = Position /\ ir' = ir /\ cu' = cu
    BY <1>1, <1>2, Advance
  <1>7. SourceStatus = "running" /\ SourceStatus' = "ended"
    BY <1>1, StatusNow, StatusThen DEF Running
  <1>8. SourceEnv' = SourceEnv
    BY <1>1, VariablesNow, VariablesThen DEF Running, ExecInv
  <1>9. Cardinality(Executed({"store", "call"}))' = Cardinality(Executed({"store", "call"}))
    <2>1. Executed({"store", "call"})' = {i \in 1..Len(regs') : Effect(ir'[i])}
      BY DEF Executed, Effect
    <2>2. Cardinality(Executed({"store", "call"}))' = Position'
      BY <2>1 DEF Position, Done
    <2> QED BY <1>6, <2>2, SourcePosition
  <1> QED BY <1>1, <1>5, <1>6, <1>7, <1>8, <1>9, SourcePosition DEF Source!End

\* While nothing is stored no variable has a value.
LEMMA NothingStored ==
  /\ DOMAIN mem = {} => SourceEnv = [x \in SourceNames |-> Undef]
  /\ DOMAIN mem' = {} => SourceEnv' = [x \in SourceNames' |-> Undef]
PROOF
  BY DEF SourceEnv

\* Until the program runs, nothing of it is executed.
LEMMA NotYetRunning ==
  ASSUME ExecInv, process = "compiling", UNCHANGED <<regs, mem>>, cu' = cu
  PROVE  /\ Len(regs) = 0 /\ DOMAIN mem = {}
         /\ Cardinality(Executed({"store", "call"}))' = Cardinality(Executed({"store", "call"}))
         /\ SourceEnv' = SourceEnv
PROOF
  <1>1. Len(regs) = 0 /\ Len(regs') = 0
    BY DEF ExecInv
  <1>2. \A ops : Executed(ops) = {} /\ Executed(ops)' = {}
    BY <1>1 DEF Executed
  <1>3. DOMAIN mem = {}
    BY <1>2 DEF ExecInv, ExecTypeOK
  <1>4. SourceNames' = SourceNames
    BY DEF SourceNames
  <1> QED BY <1>1, <1>2, <1>3, <1>4, NothingStored

\* The source program does not see it being compiled,
LEMMA CompileStutters ==
  ASSUME ExecInv, Compile
  PROVE  UNCHANGED Source!srcVars
PROOF
  <1>1. process = "compiling" /\ UNCHANGED <<process, regs, mem, out>>
    BY DEF Compile, execVars
  <1>2. cu' = cu
    BY ProgramKept DEF Compile
  <1>3. SourceStatus' = SourceStatus
    BY <1>1, StatusNow, StatusThen
  <1> QED BY <1>1, <1>2, <1>3, NotYetRunning DEF Source!srcVars

\* The programs that the source semantics speaks of, in terms of this module.
LEMMA LanguageIs ==
  InLanguage <=> (Verdict(cu) = "ok" => Supported(cu)) /\ ClashesShow
PROOF
  BY SameVerdict, SameLanguage DEF InLanguage, ClashesShow

\* is refused where the compiler refuses it,
LEMMA AbortRefuses ==
  ASSUME ExecInv, InLanguage, VerdictAsSpecified, Abort
  PROVE  Source!Refuse
PROOF
  <1>1. /\ process = "compiling" /\ process' = "aborted" /\ UNCHANGED <<regs, mem, out>>
        /\ stage \in Terminal /\ stage # "lowered" /\ cu' = cu /\ stage' = stage
    BY DEF Abort, vars
  <1>2. Source!Verdict(cu) # "ok"
    <2>1. Verdict(cu) = VerdictShown
      BY <1>1, LanguageIs DEF VerdictAsSpecified
    <2>2. VerdictShown # "ok"
      BY <1>1 DEF VerdictShown, Terminal, Exceptions
    <2> QED BY <2>1, <2>2, SameVerdict
  <1>3. SourceStatus = "submitted" /\ SourceStatus' = "refused"
    BY <1>1, StatusNow, StatusThen
  <1> QED BY <1>1, <1>2, <1>3, NotYetRunning DEF Source!Refuse

\* and starts with its compiled code.
LEMMA RunStarts ==
  ASSUME ExecInv, Supported(cu), DeclsDone, RunFunction
  PROVE  Source!Start /\ RunRight'
PROOF
  <1>1. /\ process = "compiling" /\ process' = "running" /\ UNCHANGED <<regs, mem, out>>
        /\ cu' = cu /\ ir' = ir /\ pascal_scopes' = pascal_scopes
    BY DEF RunFunction, vars
  <1>2. /\ Len(regs) = 0 /\ DOMAIN mem = {} /\ SourceEnv' = SourceEnv
        /\ Cardinality(Executed({"store", "call"}))' = Cardinality(Executed({"store", "call"}))
    BY <1>1, NotYetRunning
  <1>3. SourceStatus = "submitted" /\ SourceStatus' = "running"
    BY <1>1, StatusNow, StatusThen
  <1>4. Source!Start
    BY <1>1, <1>2, <1>3, SameLanguage DEF Source!Start
  <1>5. SourceEnv' \in Envs'
    <2>1. SourceEnv = [x \in DOMAIN VarTypes(cu) |-> Undef]
      BY <1>2, NothingStored, NamesDeclared DEF VarTypes
    <2>2. SourceEnv \in Envs
      BY <2>1 DEF Envs, Vals
    <2> QED BY <1>1, <1>2, <2>2, SameScopes
  <1>6. Consistent(ir, InnerScope, regs, SourceEnv, Len(regs))'
    BY <1>1, <1>2 DEF Consistent
  <1> QED BY <1>4, <1>5, <1>6 DEF RunRight

\* What the run of a program keeps.
RunInv ==
  /\ process = "running" => stage = "lowered"
  /\ process = "running" /\ Supported(cu) => RunRight

\* A step of the interpreter is one of the source program, or none.
LEMMA RunRefines ==
  ASSUME Running, Run
  PROVE  /\ Source!Next \/ UNCHANGED Source!srcVars
         /\ process' = "running" => RunRight'
PROOF
  <1>1. CASE ExecAlloca
    BY <1>1, AllocaRuns
  <1>2. CASE ExecLoad
    BY <1>2, LoadRuns
  <1>3. CASE ExecStore
    BY <1>3, StoreRuns DEF Source!Next
  <1>4. CASE lle_X_write_int
    BY <1>4, CallRuns DEF Source!Next
  <1>5. CASE ExecPure
    BY <1>5, PureRuns
  <1>6. CASE Trap
    <2>1. process' = "aborted"
      BY <1>6 DEF Trap
    <2> QED BY <1>6, <2>1, TrapRuns DEF Source!Next
  <1>7. CASE ExecRet
    <2>1. process' = "exited"
      BY <1>7 DEF ExecRet
    <2> QED BY <1>7, <2>1, RetRuns DEF Source!Next
  <1> QED BY <1>1, <1>2, <1>3, <1>4, <1>5, <1>6, <1>7 DEF Run

\* Every step of the process is one of the source program, or none.
LEMMA StepRefines ==
  ASSUME ExecInv, VerdictAsSpecified, Supported(cu) => MeaningInv, RunInv, [ExecNext]_allVars
  PROVE  /\ [InLanguage => Source!Next]_(Source!srcVars)
         /\ RunInv'
PROOF
  <1>1. CASE Compile
    <2>1. process' = "compiling"
      BY <1>1 DEF Compile, execVars
    <2> QED BY <1>1, <2>1, CompileStutters DEF RunInv
  <1>2. CASE Abort
    <2>1. process' = "aborted"
      BY <1>2 DEF Abort
    <2> QED BY <1>2, <2>1, AbortRefuses DEF RunInv, Source!Next
  <1>3. CASE RunFunction
    <2>1. /\ process' = "running" /\ stage = "lowered" /\ stage' = stage /\ cu' = cu
      BY <1>3 DEF RunFunction, vars
    <2>2. Supported(cu) => DeclsDone
      BY <2>1 DEF MeaningInv
    <2>3. Supported(cu) => Source!Start /\ RunRight'
      BY <1>3, <2>2, RunStarts
    <2>4. InLanguage => Supported(cu)
      <3>1. stage \in Terminal /\ VerdictShown = "ok"
        BY <2>1 DEF VerdictShown, Terminal
      <3> QED BY <3>1, LanguageIs DEF VerdictAsSpecified
    <2> QED BY <2>1, <2>3, <2>4 DEF RunInv, Source!Next
  <1>4. CASE Run
    <2>1. process = "running" /\ Len(regs) < Len(ir) /\ UNCHANGED vars
      BY <1>4, Zenon DEF Run, Executing, ExecAlloca, ExecLoad, ExecStore, lle_X_write_int,
                         ExecPure, Trap, ExecRet
    <2>2. stage = "lowered" /\ stage' = stage /\ cu' = cu
      BY <2>1 DEF RunInv, vars
    <2>3. Supported(cu) => Running
      BY <2>1, <2>2 DEF Running, RunInv, RunRight, MeaningInv
    <2>4. Supported(cu) => /\ Source!Next \/ UNCHANGED Source!srcVars
                           /\ process' = "running" => RunRight'
      BY <1>4, <2>3, RunRefines
    <2>5. InLanguage => Supported(cu)
      <3>1. stage \in Terminal /\ VerdictShown = "ok"
        BY <2>2 DEF VerdictShown, Terminal
      <3> QED BY <3>1, LanguageIs DEF VerdictAsSpecified
    <2> QED BY <2>2, <2>4, <2>5 DEF RunInv
  <1>5. CASE UNCHANGED allVars
    <2>1. /\ UNCHANGED <<process, regs, mem, out>> /\ stage' = stage /\ cu' = cu
          /\ ir' = ir /\ pascal_scopes' = pascal_scopes
      BY <1>5 DEF allVars, vars, execVars
    <2>2. SourceEnv' = SourceEnv
      <3>1. SourceNames' = SourceNames
        BY <2>1 DEF SourceNames
      <3>2. ASSUME NEW x
            PROVE  (IsVariable(x)' <=> IsVariable(x)) /\ lookup_decl(x)' = lookup_decl(x)
        BY <2>1 DEF IsVariable, Declared, Hits, lookup_decl
      <3> QED BY <2>1, <3>1, <3>2 DEF SourceEnv
    <2>3. RunRight => RunRight'
      BY <2>1, <2>2, SameScopes DEF RunRight
    <2>4. Cardinality(Executed({"store", "call"}))' = Cardinality(Executed({"store", "call"}))
      BY <2>1 DEF Executed
    <2>5. SourceStatus' = SourceStatus
      BY <2>1 DEF SourceStatus
    <2> QED BY <2>1, <2>2, <2>3, <2>4, <2>5 DEF RunInv, Source!srcVars
  <1> QED BY <1>1, <1>2, <1>3, <1>4, <1>5 DEF ExecNext

\* The source program begins where the process does.
LEMMA InitRefines ==
  ASSUME ExecInit
  PROVE  Source!Init /\ RunInv
PROOF
  <1>1. /\ cu \in Units /\ process = "compiling" /\ regs = <<>> /\ out = <<>>
        /\ DOMAIN mem = {}
    BY DEF ExecInit, Init
  <1>2. Executed({"store", "call"}) = {}
    BY <1>1 DEF Executed
  <1>3. Cardinality(Executed({"store", "call"})) = 0
    BY <1>2, FS_EmptySet
  <1>4. SourceEnv = [x \in Source!DeclaredNames(cu) |-> Undef]
    BY <1>1, NothingStored, NamesDeclared, SameDeclarations
  <1>5. SourceStatus = "submitted"
    BY <1>1, StatusNow
  <1> QED BY <1>1, <1>3, <1>4, <1>5 DEF Source!Init, RunInv

-----------------------------------------------------------------------------
(* The theorems.                                                           *)

\* Whatever program of the language is lowered, the code means the program at
\* every moment: a store or a call of write_int emitted has the value of the
\* statement it stands for under whatever values of the variables, and the
\* statements come in the order of the source.
THEOREM CodeMeansProgram == Spec => [](Supported(cu) => MeaningInv)
PROOF
  <1>1. Init => (Supported(cu) => MeaningInv)
    BY DEF Init, MeaningInv
  <1>2. /\ LinearInv /\ LinearInv' /\ WriteIntIsThere
        /\ (ClashesShow => VerdictInv) /\ (ClashesShow => VerdictInv)'
        /\ (Supported(cu) => MeaningInv) /\ [Next]_vars
        => (Supported(cu) => MeaningInv)'
    <2> SUFFICES ASSUME LinearInv, LinearInv', WriteIntIsThere,
                        ClashesShow => VerdictInv, (ClashesShow => VerdictInv)',
                        Supported(cu) => MeaningInv, [Next]_vars, Supported(cu)'
                 PROVE  MeaningInv'
      OBVIOUS
    <2>1. cu' = cu
      BY ProgramKept
    <2>2. Supported(cu)
      BY <2>1
    <2>3. ClashesShow /\ ClashesShow'
      BY <2>1, <2>2 DEF ClashesShow, Supported
    <2>4. IInv /\ IInv' /\ WalkShape /\ WalkShape'
      BY DEF LinearInv
    <2> QED BY <2>2, <2>3, <2>4, NextMeaning
  <1> QED BY <1>1, <1>2, LinearInvariant, WriteIntIsThereAlways, VerdictInvariant, PTL DEF Spec

\* Every program of the language implemented runs as it is written, and every
\* program with an error is refused: whatever the process does is what the
\* source program may do next, or nothing that it knows of.
THEOREM CompilerIsCorrect == ExecSpec => RunsAsWritten
PROOF
  <1>1. ExecSpec => Spec
    <2>1. ExecInit => Init
      BY DEF ExecInit
    <2>2. [ExecNext]_allVars => [Next]_vars
      <3>1. CASE Compile
        BY <3>1 DEF Compile
      <3>2. CASE Abort \/ RunFunction \/ UNCHANGED allVars
        BY <3>2 DEF Abort, RunFunction, allVars
      <3>3. CASE Run
        <4>1. UNCHANGED vars
          BY <3>3, Zenon DEF Run, Executing, ExecAlloca, ExecLoad, ExecStore, lle_X_write_int,
                             ExecPure, Trap, ExecRet
        <4> QED BY <4>1
      <3> QED BY <3>1, <3>2, <3>3 DEF ExecNext
    <2> QED BY <2>1, <2>2, PTL DEF ExecSpec, Spec
  <1>2. ExecInit => Source!Init /\ RunInv
    BY InitRefines
  <1>3. /\ ExecInv /\ VerdictAsSpecified /\ (Supported(cu) => MeaningInv) /\ RunInv
        /\ [ExecNext]_allVars
        => RunInv' /\ [InLanguage => Source!Next]_(Source!srcVars)
    BY StepRefines
  <1> QED BY <1>1, <1>2, <1>3, ExecInvariant, VerdictIsRight, CodeMeansProgram, PTL
          DEF ExecSpec, RunsAsWritten
=============================================================================

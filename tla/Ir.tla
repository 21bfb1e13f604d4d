--------------------------------- MODULE Ir ---------------------------------
(***************************************************************************)
(* LLVM as far as the compiler uses it: the values and instructions that   *)
(* IRBuilder makes, what it checks, what it folds, and what an instruction *)
(* computes.  The library is not part of the repository; this module is    *)
(* the contract that lowerer.cpp relies on.                                *)
(*                                                                         *)
(* Integers are signed and wrap.  Half gives the number of non-negative    *)
(* values of each integer type (1, 2^7 and 2^31 for i1, i8 and i32), so    *)
(* that a model may use narrow ones and a proof need not know them.        *)
(***************************************************************************)
EXTENDS Integers, Sequences

CONSTANTS
  Half,        \* Half[ty]: the values of ty are -Half[ty] .. Half[ty]-1
  Undef,       \* a value the program does not determine
  LlvmAsserts  \* whether libLLVM was built with assertions

IntTypes == {"i1", "i8", "i32"}
Types    == IntTypes \cup {"ptr"}

ASSUME IrAssumption ==
  /\ Half \in [IntTypes -> Nat \ {0}]
  /\ Undef \notin Int
  /\ LlvmAsserts \in BOOLEAN

Value == Int \cup {Undef}

(***************************************************************************)
(* An operand is a constant (reg = 0) or the result of the instruction     *)
(* number reg of the only basic block.  NoValue stands for "none yet".     *)
(***************************************************************************)
Operand == [reg : Nat, ty : Types, val : Value]

Const(ty, v) == [reg |-> 0, ty |-> ty, val |-> v]
Reg(i, ty)   == [reg |-> i, ty |-> ty, val |-> Undef]
NoValue      == [reg |-> 0, ty |-> "void", val |-> Undef]

DivOps   == {"sdiv", "srem"}
ArithOps == {"add", "sub", "mul", "xor"} \cup DivOps
CmpOps   == {"eq", "ne", "slt", "sle", "sgt", "sge"}
PureOps  == ArithOps \cup CmpOps \cup {"select"}
Opcodes  == PureOps \cup {"alloca", "load", "store", "call", "ret"}

\* Of an alloca, ty is the type of the slot; its result is a pointer.
Instr == [op : Opcodes, ty : Types \cup {"void"}, args : Seq(Operand)]

ResultType(instr) == IF instr.op = "alloca" THEN "ptr" ELSE instr.ty

Wrap(ty, x) == ((x + Half[ty]) % (2 * Half[ty])) - Half[ty]

Magnitude(x) == IF x < 0 THEN -x ELSE x

\* sdiv and srem truncate towards zero.
Quotient(l, r) ==
  LET q == Magnitude(l) \div Magnitude(r) IN IF (l < 0) # (r < 0) THEN -q ELSE q

Bit(b) == IF b THEN -1 ELSE 0   \* the signed reading of an i1

(***************************************************************************)
(* What a pure instruction computes.  A division by zero, and the one that *)
(* overflows, determine nothing.  The only xor the compiler builds has all *)
(* ones on the right (CreateNot).                                          *)
(***************************************************************************)
Divides(ty, l, r) == r # 0 /\ ~(r = -1 /\ l = -Half[ty])

Compute(op, ty, l, r) ==
  CASE op = "add"  -> Wrap(ty, l + r)
    [] op = "sub"  -> Wrap(ty, l - r)
    [] op = "mul"  -> Wrap(ty, l * r)
    [] op = "sdiv" -> IF Divides(ty, l, r) THEN Quotient(l, r) ELSE Undef
    [] op = "srem" -> IF Divides(ty, l, r) THEN l - r * Quotient(l, r) ELSE Undef
    [] op = "xor"  -> -1 - l
    [] op = "eq"   -> Bit(l = r)
    [] op = "ne"   -> Bit(l # r)
    [] op = "slt"  -> Bit(l < r)
    [] op = "sle"  -> Bit(l <= r)
    [] op = "sgt"  -> Bit(l > r)
    [] op = "sge"  -> Bit(l >= r)

\* vals[k] is the value of the k-th operand, all of them of type ty but a
\* select's condition.
Apply(op, ty, vals) ==
  IF op = "select"
  THEN IF vals[1] = Undef THEN Undef ELSE IF vals[1] # 0 THEN vals[2] ELSE vals[3]
  ELSE IF Undef \in {vals[1], vals[2]} THEN Undef
  ELSE Compute(op, ty, vals[1], vals[2])

IsConst(o) == o.reg = 0

AllConst(args) == \A k \in DOMAIN args : IsConst(args[k])

(***************************************************************************)
(* The type checks of a build with assertions.  A store is accepted for    *)
(* any value: a pointer does not say what it points to.                    *)
(***************************************************************************)
WellTyped(op, args) ==
  /\ op \in ArithOps => args[1].ty = args[2].ty /\ args[1].ty \in IntTypes
  /\ op \in CmpOps   => args[1].ty = args[2].ty
  /\ op = "select"   => \A k \in 1..3 : args[k].ty = "i1"
  /\ op = "call"     => args[1].ty = "i32"

(***************************************************************************)
(* The constant folder's answer when every operand is a constant: poison,  *)
(* which is Undef here, where the instruction would determine nothing; so  *)
(* also for an ill-typed combination that a build without assertions lets  *)
(* through.                                                                *)
(***************************************************************************)
Folded(op, args) ==
  IF WellTyped(op, args)
  THEN Apply(op, args[1].ty, [k \in DOMAIN args |-> args[k].val])
  ELSE Undef
=============================================================================

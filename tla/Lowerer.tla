------------------------------- MODULE Lowerer -------------------------------
(***************************************************************************)
(* ast/visitors/lowerer.cpp: the walk over the tree that emits LLVM IR.    *)
(*                                                                         *)
(* The walk is recursive C++; here its call stack is the variable frames,  *)
(* one frame per active visit or eval, and ret is the llvm::Value* that    *)
(* the eval which just returned hands to its caller.  An exception ends    *)
(* the walk: the Lowerer is destroyed, stage keeps the exception's class.  *)
(***************************************************************************)
EXTENDS Ast, Ir, FiniteSets

VARIABLES
  cu,             \* the unit being lowered, an argument of the constructor
  stage,          \* where visit_toplevel is, or how the constructor ended
  decl,           \* process_var_decl: which declaration, name, and its type
  pascal_scopes,  \* innermost last; each maps identifiers to items
  functions,      \* the functions of module_uptr_
  ir,             \* the instructions of main's basic block
  frames,         \* the call stack of the walk over the statements
  ret             \* the value an eval has returned, until its caller takes it

vars == <<cu, stage, decl, pascal_scopes, functions, ir, frames, ret>>

TypeKind == {"Integer", "Char", "String"}

Exceptions == {"NotImplemented", "SemanticProblem", "RuntimeProblem"}

\* "assert" is an assertion of LLVM that fails: the process aborts.
Terminal == Exceptions \cup {"lowered", "assert"}

Stages == {"toplevel", "decls", "stmts"} \cup Terminal

(***************************************************************************)
(* An item of a scope is a type or a variable.  alloc is the number of the *)
(* alloca instruction that makes the variable's slot.                      *)
(***************************************************************************)
Item == [item : {"type"}, type : TypeKind]
          \cup [item : {"var"}, type : TypeKind, alloc : Nat]

IsScope(scope) == scope \in [DOMAIN scope -> Item] /\ DOMAIN scope \subseteq Ident

BuiltinScope ==
  [t \in TypeKind |-> [item |-> "type", type |-> t]]

EmptyScope == [x \in {} |-> [item |-> "type", type |-> "Integer"]]

ASSUME BuiltinsAreIdents == TypeKind \subseteq Ident

\* make_number refuses what an int cannot hold.
ASSUME LiteralsFit == MaxLiteral < Half["i32"]

LlvmType(type) ==
  CASE type = "Integer" -> "i32" [] type = "Char" -> "i8" [] type = "String" -> "ptr"

(***************************************************************************)
(* Lookup.  lookup_decl walks the scopes from the innermost and stops at   *)
(* the first hit; make_type_from_ast_type walks them from the outermost    *)
(* and keeps the last one.  Both find the innermost declaration.           *)
(***************************************************************************)
Hits(x) == {s \in DOMAIN pascal_scopes : x \in DOMAIN pascal_scopes[s]}

Declared(x) == Hits(x) # {}

\* A slip: the search begins at the wrong end.
OutermostDecl(x) ==
  pascal_scopes[CHOOSE s \in Hits(x) : \A t \in Hits(x) : s <= t][x]

lookup_decl(x) ==
  pascal_scopes[CHOOSE s \in Hits(x) : \A t \in Hits(x) : t <= s][x]

IsVariable(x) == Declared(x) /\ lookup_decl(x).item = "var"

\* The exception make_type_from_ast_type throws, or "none".
TypeError(type) ==
  IF type.kind # "Named" THEN "NotImplemented"
  ELSE IF Declared(type.name) /\ lookup_decl(type.name).item = "type" THEN "none"
  ELSE "SemanticProblem"

-----------------------------------------------------------------------------
(* The IRBuilder: appending an instruction, or folding it away.            *)

Emit(op, ty, args) == Append(ir, [op |-> op, ty |-> ty, args |-> args])

\* The type of a pure operation's result, the code after it and its value.
BuiltType(op, args) ==
  IF op \in CmpOps THEN "i1" ELSE IF op = "select" THEN args[2].ty ELSE args[1].ty

BuiltIr(op, args) ==
  IF AllConst(args) THEN ir ELSE Emit(op, BuiltType(op, args), args)

BuiltVal(op, args) ==
  IF AllConst(args)
  THEN Const(BuiltType(op, args), Folded(op, args))
  ELSE Reg(Len(ir) + 1, BuiltType(op, args))

Accepted(op, args) == LlvmAsserts => WellTyped(op, args)

SlotOf(x) == Reg(lookup_decl(x).alloc, "ptr")

-----------------------------------------------------------------------------
(* The call stack.                                                         *)

\* next counts the children already called; acc is the local "value".
Frame(n) == [node |-> n, next |-> 0, acc |-> NoValue]

FrameSet == [node : Node, next : Nat, acc : Operand \cup {NoValue}]

Top == frames[Len(frames)]

At(kinds) == stage = "stmts" /\ frames # <<>> /\ Top.node.kind \in kinds

Popped == SubSeq(frames, 1, Len(frames) - 1)

\* A slip: what the caller holds is lost.
CallingForgetful(n, acc) ==
  Append([frames EXCEPT ![Len(frames)] =
            [node |-> Top.node, next |-> Top.next + 1, acc |-> NoValue]], Frame(n))

\* Call a child; acc is what the caller keeps meanwhile.
Calling(n, acc) ==
  Append([frames EXCEPT ![Len(frames)] =
            [node |-> Top.node, next |-> Top.next + 1, acc |-> acc]], Frame(n))

Return(v) ==
  /\ frames' = Popped
  /\ ret' = v

Throw(exception) ==
  /\ stage' = exception
  /\ UNCHANGED <<cu, decl, pascal_scopes, functions, ir, frames, ret>>

\* Nothing but the walk's own state and the code changes.
KeepWalk == UNCHANGED <<cu, stage, decl, pascal_scopes, functions>>

-----------------------------------------------------------------------------
(* The declarations.                                                       *)

Init ==
  /\ cu \in Units
  /\ stage = "toplevel"
  /\ decl = [at |-> 1, name |-> 0, type |-> "Integer"]
  /\ pascal_scopes = <<BuiltinScope, EmptyScope>>
  /\ functions = {}
  /\ ir = <<>>
  /\ frames = <<>>
  /\ ret = NoValue

Unsupported == Subprograms(cu) # <<>> \/ Constants(cu) # <<>>

RejectBlock ==
  /\ stage = "toplevel"
  /\ Unsupported
  /\ Throw("NotImplemented")

\* What a slip would create instead.
OnlyMain     == {"main"}
OnlyWriteInt == {"write_int"}

ModuleFunctions == {"main", "write_int"}

\* process_type_def does nothing.
StartMain ==
  /\ stage = "toplevel"
  /\ ~Unsupported
  /\ stage' = "decls"
  /\ functions' = ModuleFunctions
  /\ UNCHANGED <<cu, decl, pascal_scopes, ir, frames, ret>>

InDecl == stage = "decls" /\ decl.at <= Len(VarDecls(cu))

\* The type is resolved once, before any name of the list is declared.
ResolveType ==
  /\ InDecl
  /\ decl.name = 0
  /\ LET type == VarDecls(cu)[decl.at].type
     IN IF TypeError(type) # "none"
        THEN Throw(TypeError(type))
        ELSE /\ decl' = [decl EXCEPT !.name = 1, !.type = lookup_decl(type.name).type]
             /\ UNCHANGED <<cu, stage, pascal_scopes, functions, ir, frames, ret>>

DeclName == VarDecls(cu)[decl.at].idents[decl.name]

InnerScope == pascal_scopes[Len(pascal_scopes)]

\* A slip: the name is bound without looking.
NeverInUse == FALSE

InUse == DeclName \in DOMAIN InnerScope

\* A slip: one alloca for all names of the list.
AllocOfFirstName == Len(ir) + 2 - decl.name

\* The number of the alloca that is emitted next.
codegen_alloc_value_of_type == Len(ir) + 1

Bind(scope, x, item) ==
  [y \in DOMAIN scope \cup {x} |-> IF y = x THEN item ELSE scope[y]]

RejectName ==
  /\ InDecl
  /\ decl.name > 0
  /\ InUse
  /\ Throw("SemanticProblem")

DeclareName ==
  /\ InDecl
  /\ decl.name > 0
  /\ ~InUse
  /\ ir' = Emit("alloca", LlvmType(decl.type), <<>>)
  /\ pascal_scopes' =
       [pascal_scopes EXCEPT ![Len(pascal_scopes)] =
          Bind(@, DeclName, [item |-> "var", type |-> decl.type,
                             alloc |-> codegen_alloc_value_of_type])]
  /\ decl' = IF decl.name < Len(VarDecls(cu)[decl.at].idents)
             THEN [decl EXCEPT !.name = @ + 1]
             ELSE [decl EXCEPT !.name = 0, !.at = @ + 1]
  /\ UNCHANGED <<cu, stage, functions, frames, ret>>

StartBody ==
  /\ stage = "decls"
  /\ decl.at > Len(VarDecls(cu))
  /\ stage' = "stmts"
  /\ frames' = <<Frame(Body(cu))>>
  /\ UNCHANGED <<cu, decl, pascal_scopes, functions, ir, ret>>

-----------------------------------------------------------------------------
(* Statements.  A statement frame never holds a value: acc is NoValue.     *)

\* A slip: the last statement is left out.
VisitStmtSeqShort ==
  /\ At({"StmtSeq"})
  /\ frames' = IF Top.next + 1 < Len(Top.node.stmts)
               THEN Calling(Top.node.stmts[Top.next + 1], NoValue)
               ELSE Popped
  /\ UNCHANGED <<ir, ret>> /\ KeepWalk

VisitStmtSeq ==
  /\ At({"StmtSeq"})
  /\ frames' = IF Top.next < Len(Top.node.stmts)
               THEN Calling(Top.node.stmts[Top.next + 1], NoValue)
               ELSE Popped
  /\ UNCHANGED <<ir, ret>> /\ KeepWalk

\* If, case, while, repeat, for, New/Dispose and the empty statement.
VisitIgnored ==
  /\ At(IgnoredKinds)
  /\ frames' = Popped
  /\ UNCHANGED <<ir, ret>> /\ KeepWalk

AssignmentEval ==
  /\ At({"Assignment"})
  /\ Top.next = 0
  /\ frames' = Calling(Top.node.expr, NoValue)
  /\ UNCHANGED <<ir, ret>> /\ KeepWalk

\* The items of the designator are not looked at.
AssignmentStore ==
  /\ At({"Assignment"})
  /\ ret # NoValue
  /\ LET x == Top.node.target.ident
     IN IF IsVariable(x)
        THEN /\ ir' = Emit("store", "void", <<ret, SlotOf(x)>>)
             /\ Return(NoValue)
             /\ KeepWalk
        ELSE Throw("SemanticProblem")

ProcCallEval ==
  /\ At({"ProcCall"})
  /\ Top.next = 0
  /\ Top.node.proc = "write_int"
  /\ Len(Top.node.params) = 1
  /\ frames' = Calling(Top.node.params[1], NoValue)
  /\ UNCHANGED <<ir, ret>> /\ KeepWalk

ProcCallReject ==
  /\ At({"ProcCall"})
  /\ Top.next = 0
  /\ IF Top.node.proc \in {"write_int", "write_str"}
     THEN Len(Top.node.params) # 1 /\ Throw("SemanticProblem")
     ELSE Throw("NotImplemented")

ProcCallEmit ==
  /\ At({"ProcCall"})
  /\ ret # NoValue
  /\ IF "write_int" \notin functions THEN Throw("RuntimeProblem")
     ELSE IF ~Accepted("call", <<ret>>) THEN Throw("assert")
     ELSE /\ ir' = Emit("call", "void", <<ret>>)
          /\ Return(NoValue)
          /\ KeepWalk

\* The parameter of write_str is counted and never evaluated.
VisitWriteStr ==
  /\ At({"ProcCall"})
  /\ Top.node.proc = "write_str"
  /\ Len(Top.node.params) = 1
  /\ frames' = Popped
  /\ UNCHANGED <<ir, ret>> /\ KeepWalk

Finish ==
  /\ stage = "stmts"
  /\ frames = <<>>
  /\ ir' = Emit("ret", "void", <<Const("i32", 0)>>)
  /\ stage' = "lowered"
  /\ UNCHANGED <<cu, decl, pascal_scopes, functions, frames, ret>>

-----------------------------------------------------------------------------
(* Factors.                                                                *)

EvalNumber ==
  /\ At({"Number"})
  /\ Return(Const("i32", Top.node.int))
  /\ UNCHANGED ir /\ KeepWalk

EvalBool ==
  /\ At({"Bool"})
  /\ Return(Const("i1", Bit(Top.node.bool)))
  /\ UNCHANGED ir /\ KeepWalk

EvalUnsupported ==
  /\ At({"String", "Nil", "FuncCall"})
  /\ Throw("NotImplemented")

\* A slip: the load is made and not inserted into the block.
EvalDesignatorDetached ==
  /\ At({"Designator"})
  /\ LET x == Top.node.ident
     IN IF ~IsVariable(x) THEN Throw("SemanticProblem")
        ELSE IF Top.node.items # <<>> THEN Throw("NotImplemented")
        ELSE /\ Return(Reg(Len(ir) + 1, LlvmType(lookup_decl(x).type)))
             /\ UNCHANGED ir /\ KeepWalk

EvalDesignator ==
  /\ At({"Designator"})
  /\ LET x == Top.node.ident
     IN IF ~IsVariable(x) THEN Throw("SemanticProblem")
        ELSE IF Top.node.items # <<>> THEN Throw("NotImplemented")
        ELSE LET ty == LlvmType(lookup_decl(x).type)
             IN /\ ir' = Emit("load", ty, <<SlotOf(x)>>)
                /\ Return(Reg(Len(ir) + 1, ty))
                /\ KeepWalk

CallInner ==
  /\ At({"Paren", "Negation"})
  /\ Top.next = 0
  /\ frames' = Calling(Top.node.inner, NoValue)
  /\ UNCHANGED <<ir, ret>> /\ KeepWalk

EvalParen ==
  /\ At({"Paren"})
  /\ ret # NoValue
  /\ Return(ret)
  /\ UNCHANGED ir /\ KeepWalk

\* The instruction built last becomes the value that is returned, or LLVM
\* aborts on the types of its operands.
ReturnBuilt(op, args) ==
  IF Accepted(op, args)
  THEN /\ ir' = BuiltIr(op, args)
       /\ Return(BuiltVal(op, args))
       /\ KeepWalk
  ELSE Throw("assert")

EvalNegation ==
  /\ At({"Negation"})
  /\ ret # NoValue
  /\ ReturnBuilt("xor", <<ret, Const(ret.ty, -1)>>)

-----------------------------------------------------------------------------
(* Term, SimpleExpr and Expr: one loop.  The sign of a SimpleExpr is not   *)
(* looked at.                                                              *)

Opcode(op) ==
  CASE op = "Plus"    -> "add"  [] op = "Minus"        -> "sub"
    [] op = "Or"      -> "select"
    [] op = "And"     -> "select"
    [] op = "IntDiv"  -> "sdiv" [] op = "Modulo"       -> "srem"
    [] op = "Multiply" -> "mul"
    [] op = "Equal"   -> "eq"   [] op = "NotEqual"     -> "ne"
    [] op = "Less"    -> "slt"  [] op = "LessEqual"    -> "sle"
    [] op = "Greater" -> "sgt"  [] op = "GreaterEqual" -> "sge"

\* Slips: "or" keeps its left value twice; operands in the wrong order.
OperandsDoubled(op, l, r) ==
  CASE op = "And" -> <<l, r, Const(r.ty, 0)>>
    [] op = "Or"  -> <<l, l, r>>
    [] OTHER      -> <<l, r>>

OperandsSwapped(op, l, r) ==
  CASE op = "And" -> <<l, r, Const(r.ty, 0)>>
    [] op = "Or"  -> <<l, Const(r.ty, -1), r>>
    [] OTHER      -> <<r, l>>

\* CreateLogicalAnd and CreateLogicalOr build selects.
Operands(op, l, r) ==
  CASE op = "And" -> <<l, r, Const(r.ty, 0)>>
    [] op = "Or"  -> <<l, Const(r.ty, -1), r>>
    [] OTHER      -> <<l, r>>

CallStart ==
  /\ At(ChainKinds)
  /\ Top.next = 0
  /\ frames' = Calling(Top.node.start, NoValue)
  /\ UNCHANGED <<ir, ret>> /\ KeepWalk

TakeStart ==
  /\ At(ChainKinds)
  /\ Top.next = 1
  /\ ret # NoValue
  /\ frames' = [frames EXCEPT ![Len(frames)].acc = ret]
  /\ ret' = NoValue
  /\ UNCHANGED ir /\ KeepWalk

InChain == At(ChainKinds) /\ Top.acc # NoValue /\ ret = NoValue

\* "in" is refused before its right-hand side is evaluated ...
CallRhs ==
  /\ InChain
  /\ Top.next <= Len(Top.node.ops)
  /\ LET op == Top.node.ops[Top.next]
     IN IF op.op = "In" THEN Throw("NotImplemented")
        ELSE /\ frames' = Calling(op.rhs, Top.acc)
             /\ UNCHANGED <<ir, ret>> /\ KeepWalk

\* ... and "/" after it.
TakeRhs ==
  /\ At(ChainKinds)
  /\ Top.next > 1
  /\ ret # NoValue
  /\ LET op   == Top.node.ops[Top.next - 1].op
         args == Operands(op, Top.acc, ret)
     IN IF op = "RealDiv" THEN Throw("NotImplemented")
        ELSE IF ~Accepted(Opcode(op), args) THEN Throw("assert")
        ELSE /\ ir' = BuiltIr(Opcode(op), args)
             /\ frames' = [frames EXCEPT ![Len(frames)].acc = BuiltVal(Opcode(op), args)]
             /\ ret' = NoValue
             /\ KeepWalk

\* A slip: off by one in the end of the loop.
ChainReturnEarly ==
  /\ InChain
  /\ Top.next = Len(Top.node.ops)
  /\ Return(Top.acc)
  /\ UNCHANGED ir /\ KeepWalk

ChainReturn ==
  /\ InChain
  /\ Top.next = Len(Top.node.ops) + 1
  /\ Return(Top.acc)
  /\ UNCHANGED ir /\ KeepWalk

-----------------------------------------------------------------------------
Declarations ==
  RejectBlock \/ StartMain \/ ResolveType \/ RejectName \/ DeclareName \/ StartBody

Statements ==
  \/ VisitStmtSeq \/ VisitIgnored \/ AssignmentEval \/ AssignmentStore
  \/ ProcCallEval \/ ProcCallReject \/ ProcCallEmit \/ VisitWriteStr \/ Finish

Factors ==
  \/ EvalNumber \/ EvalBool \/ EvalUnsupported \/ EvalDesignator
  \/ CallInner \/ EvalParen \/ EvalNegation

Chains == CallStart \/ TakeStart \/ CallRhs \/ TakeRhs \/ ChainReturn

Next == Declarations \/ Statements \/ Factors \/ Chains

Spec == Init /\ [][Next]_vars

\* One thread of control runs the constructor and nothing suspends it.
FairSpec == Spec /\ WF_vars(Next)

-----------------------------------------------------------------------------
(* Properties.                                                             *)

\* Each variable ranges over the values its C++ counterpart can have.
TypeOK ==
  /\ cu \in Units
  /\ stage \in Stages
  /\ decl \in [at : Nat \ {0}, name : Nat, type : TypeKind]
  /\ pascal_scopes = <<pascal_scopes[1], pascal_scopes[2]>>
  /\ IsScope(pascal_scopes[1]) /\ IsScope(pascal_scopes[2])
  /\ functions \subseteq {"main", "write_int"}
  /\ stage \in {"decls", "stmts", "lowered"} => "main" \in functions
  /\ ir \in Seq(Instr)
  /\ frames \in Seq(FrameSet)
  /\ ret \in Operand \cup {NoValue}

Held == {ret} \cup {frames[k].acc : k \in DOMAIN frames}

\* The llvm::Value* o is a constant or what one of the first n instructions
\* computes, and has the type that instruction gives it.
Computed(o, n) == IsConst(o) \/ (o.reg <= n /\ ResultType(ir[o.reg]) = o.ty)

\* The code is well-formed at every moment of the walk: an operand of an
\* instruction is the result of an earlier one, of the type the use expects,
\* and so is every llvm::Value* the recursive evals keep in local variables
\* while code for other operands is emitted (or folded away) after them.
ValuesComputedBeforeUse ==
  /\ \A k \in DOMAIN ir : \A a \in DOMAIN ir[k].args : Computed(ir[k].args[a], k - 1)
  /\ \A o \in Held : Computed(o, Len(ir))

Variables == {x \in DOMAIN InnerScope : InnerScope[x].item = "var"}

\* Every variable owns one alloca, of its type, and no two names share one;
\* a load reads such a slot at the slot's type, and a store addresses one.
AccessesGoToSlots ==
  /\ \A x \in Variables :
       LET slot == InnerScope[x].alloc
       IN /\ slot \in DOMAIN ir
          /\ ir[slot].op = "alloca" /\ ir[slot].ty = LlvmType(InnerScope[x].type)
          /\ \A y \in Variables \ {x} : InnerScope[y].alloc # slot
  /\ \A k \in DOMAIN ir :
       /\ ir[k].op = "load"  => \E x \in Variables :
            ir[k].args[1].reg = InnerScope[x].alloc /\ ir[k].ty = LlvmType(InnerScope[x].type)
       /\ ir[k].op = "store" => \E x \in Variables : ir[k].args[2].reg = InnerScope[x].alloc

\* That the two invariants above hold needs three facts more.  No declaration
\* reaches the scope of the builtin types, so that a variable is always found
\* in the scope whose slots exist; the loop over the names of a declaration
\* stays inside the list; and an eval that waits for the right operand of an
\* operator holds the left one.
BuiltinsUntouched == pascal_scopes[1] = BuiltinScope

NameInList == decl.at <= Len(VarDecls(cu)) => decl.name <= Len(VarDecls(cu)[decl.at].idents)

HoldsLeft(f) ==
  f.node.kind \in ChainKinds =>
    /\ f.acc # NoValue => f.next > 0
    /\ f.next > 1 => /\ f.acc # NoValue
                     /\ f.next <= Len(f.node.ops) + 1
                     /\ f.node.ops[f.next - 1].op # "In"

\* The inductive invariant of LowererProofs.
IInv ==
  /\ TypeOK
  /\ BuiltinsUntouched /\ NameInList /\ \A k \in DOMAIN frames : HoldsLeft(frames[k])
  /\ ValuesComputedBeforeUse
  /\ AccessesGoToSlots

Results == {k \in DOMAIN ir : ir[k].op \in PureOps \cup {"load"}}

\* The places of operands, as pairs of an instruction and an argument.
UsesOf(r) == {p \in (DOMAIN ir) \X (1..3) :
                p[2] \in DOMAIN ir[p[1]].args /\ ir[p[1]].args[p[2]].reg = r}

HoldersOf(r) == {k \in DOMAIN frames : frames[k].acc.reg = r}
                  \cup {k \in {0} : ret.reg = r}

\* What an expression computes is consumed by exactly one instruction, or is
\* still held by exactly one active eval: no operand is evaluated twice, none
\* is lost, and no two evals keep the same llvm::Value*.
ValuesUsedExactlyOnce ==
  \A r \in Results : Cardinality(UsesOf(r)) + Cardinality(HoldersOf(r)) = 1

\* The internal error of visit_write_int (write_int not declared) cannot occur.
WriteIntIsDeclared == stage # "RuntimeProblem"

\* The types an addition has operands of, in a program that went through the
\* type check that sema.hpp and the comment on pascal_scopes_ speak of.
AdditionOnlyOfNumbers ==
  \A k \in DOMAIN ir : ir[k].op = "add" =>
    \A a \in DOMAIN ir[k].args : ir[k].args[a].ty \in {"i8", "i32"}

\* What an identifier means never changes once it is declared in a scope, and
\* code already emitted is never altered, whatever is declared or thrown later.
DeclarationsAndCodeAreFinal ==
  [][/\ \A s \in DOMAIN pascal_scopes : \A x \in DOMAIN pascal_scopes[s] :
          x \in DOMAIN pascal_scopes'[s] /\ pascal_scopes'[s][x] = pascal_scopes[s][x]
     /\ Len(ir) <= Len(ir') /\ \A k \in DOMAIN ir : ir'[k] = ir[k]]_vars

\* The constructor returns or throws (or LLVM aborts): the recursion over the
\* tree never waits for a value nobody returns, and never loops.
WalkEnds == <>(stage \in Terminal)
=============================================================================

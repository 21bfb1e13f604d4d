------------------------------- MODULE Pascal -------------------------------
(***************************************************************************)
(* What the compiler owes its user: a program with an error is refused,    *)
(* and a program of the language implemented runs one statement after      *)
(* another.  Nothing here knows of frames, instructions, registers or      *)
(* slots.                                                                  *)
(***************************************************************************)
EXTENDS Language

CONSTANTS
  MaxInt,   \* integers are -MaxInt-1 .. MaxInt
  Unknown   \* a value the source program does not determine

-----------------------------------------------------------------------------
(* Arithmetic, by what characterises it.                                   *)

Integer == -MaxInt - 1 .. MaxInt

\* The integer congruent to x.
Wrapped(x) == CHOOSE y \in Integer : (x - y) % (2 * (MaxInt + 1)) = 0

\* The quotient and remainder of l by r: l = q*r + m, m nearer to zero than r
\* and of the sign of l.
IsDivision(l, r, q, m) ==
  /\ l = q * r + m
  /\ -m < r \/ -m < -r
  /\ m < r \/ m < -r
  /\ m > 0 => l > 0
  /\ m < 0 => l < 0

QuotientOf(l, r)  == CHOOSE q \in Integer : IsDivision(l, r, q, l - q * r)

ArithmeticOf(op, l, r) ==
  CASE op = "Plus"     -> Wrapped(l + r)
    [] op = "Minus"    -> Wrapped(l - r)
    [] op = "Multiply" -> Wrapped(l * r)
    [] op \in {"IntDiv", "Modulo"} ->
         IF r = 0 \/ (r = -1 /\ l = -MaxInt - 1) THEN Unknown
         ELSE IF op = "IntDiv" THEN QuotientOf(l, r) ELSE l - QuotientOf(l, r) * r
    [] OTHER -> Unknown

Strict(op, l, r) == IF Unknown \in {l, r} THEN Unknown ELSE ArithmeticOf(op, l, r)

\* The value of the first operand, and of it with one operator more each.
OfOperators(n, value) ==
  LET prefix[k \in 0..Len(n.ops)] ==
        IF k = 0 THEN value[n.start]
        ELSE Strict(n.ops[k].op, prefix[k - 1], value[n.ops[k].rhs])
  IN prefix

\* The value of a supported expression, from those of the ones inside it.
ValueFrom(n, env, value) ==
  CASE n.kind = "Number"     -> n.int
    [] n.kind = "Designator" -> IF n.ident \in DOMAIN env THEN env[n.ident] ELSE Unknown
    [] n.kind = "Paren"      -> value[n.inner]
    [] n.kind = "Negation"   -> IF value[n.inner] = Unknown THEN Unknown ELSE -1 - value[n.inner]
    [] n.kind \in ChainKinds -> OfOperators(n, value)[Len(n.ops)]
    [] OTHER                 -> Unknown

\* Its value where the variables have values env.
Eval(env) == LET value[n \in Factor \cup Chain] == ValueFrom(n, env, value) IN value

-----------------------------------------------------------------------------
VARIABLES
  unit,     \* the program
  status,   \* "submitted", "running", or one of the ends
  pos,      \* how many statements have been executed
  env,      \* the value of each variable
  out       \* what was written

srcVars == <<unit, status, pos, env, out>>

Init ==
  /\ unit \in Units
  /\ status = "submitted"
  /\ pos = 0
  /\ env = [x \in DeclaredNames(unit) |-> Unknown]
  /\ out = <<>>

Refuse ==
  /\ status = "submitted"
  /\ Verdict(unit) # "ok"
  /\ status' = "refused"
  /\ UNCHANGED <<unit, pos, env, out>>

Start ==
  /\ status = "submitted"
  /\ Supported(unit)
  /\ status' = "running"
  /\ UNCHANGED <<unit, pos, env, out>>

Current == Effects[Body(unit)][pos + 1]

Active(kind) ==
  /\ status = "running"
  /\ pos < Len(Effects[Body(unit)])
  /\ Current.kind = kind

Assign ==
  /\ Active("Assignment")
  /\ env' = [env EXCEPT ![Current.target.ident] = Eval(env)[Current.expr]]
  /\ pos' = pos + 1
  /\ UNCHANGED <<unit, status, out>>

Write ==
  /\ Active("ProcCall")
  /\ out' = Append(out, Eval(env)[Current.params[1]])
  /\ pos' = pos + 1
  /\ UNCHANGED <<unit, status, env>>

\* A statement whose value the program does not determine may fail.
Fail ==
  /\ \/ Active("Assignment") /\ Eval(env)[Current.expr] = Unknown
     \/ Active("ProcCall") /\ Eval(env)[Current.params[1]] = Unknown
  /\ status' = "failed"
  /\ UNCHANGED <<unit, pos, env, out>>

End ==
  /\ status = "running"
  /\ pos = Len(Effects[Body(unit)])
  /\ status' = "ended"
  /\ UNCHANGED <<unit, pos, env, out>>

Next == Refuse \/ Start \/ Assign \/ Write \/ Fail \/ End

Spec == Init /\ [][Next]_srcVars /\ WF_srcVars(Next)
=============================================================================

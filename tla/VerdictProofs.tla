--------------------------- MODULE VerdictProofs ---------------------------
(***************************************************************************)
(* The verdict of the compiler on a program is the one of the static       *)
(* semantics: a theorem about every program.                               *)
(*                                                                         *)
(* The static semantics is recursive over the tree.  An induction is done  *)
(* by the least member of the set of counterexamples, which needs no       *)
(* theorem that takes a predicate as its argument.                         *)
(***************************************************************************)
EXTENDS Checking, LowererProofs, WellFoundedInduction

-----------------------------------------------------------------------------
(* Recursive definitions.                                                  *)

\* A set of natural numbers has a least member.
LEMMA LeastMember ==
  ASSUME NEW S \in SUBSET Nat, S # {}
  PROVE  \E m \in S : \A k \in S : m <= k
PROOF
  <1>1. PICK m \in S : \A k \in S : ~ (<<k, m>> \in OpToRel(<, Nat))
    BY NatLessThanWellFounded, WFMin, Zenon
  <1>2. \A k \in S : ~(k < m)
    BY <1>1 DEF OpToRel
  <1> QED BY <1>2

\* g satisfies the equation where the rank is below k.
Solves(g, k, S, rank, F) == \A n \in S : rank[n] < k => g[n] = F[<<n, g>>]

\* f[n] == F[<<n, f>>] is a recursion over S with values in V: it descends.
Recursive(S, V, rank, F) ==
  /\ V # {}
  /\ \A n \in S : rank[n] \in Nat
  /\ \A n \in S : \A g \in [S -> V] : F[<<n, g>>] \in V
  /\ \A n \in S : \A g, h \in [S -> V] :
       (\A m \in S : rank[m] < rank[n] => g[m] = h[m]) => F[<<n, g>>] = F[<<n, h>>]

\* Two functions that satisfy it up to a rank are equal there ...
LEMMA SolutionsAgree ==
  ASSUME NEW S, NEW V, NEW rank, NEW F, Recursive(S, V, rank, F)
  PROVE  \A k \in Nat : \A g, h \in [S -> V] :
           Solves(g, k, S, rank, F) /\ Solves(h, k, S, rank, F)
             => \A n \in S : rank[n] < k => g[n] = h[n]
PROOF
  <1> SUFFICES ASSUME NEW k \in Nat, NEW g \in [S -> V], NEW h \in [S -> V],
                      Solves(g, k, S, rank, F), Solves(h, k, S, rank, F)
               PROVE  \A n \in S : rank[n] < k => g[n] = h[n]
    OBVIOUS
  <1> USE DEF Recursive
  <1> DEFINE B == {j \in Nat : \E n \in S : rank[n] = j /\ rank[n] < k /\ g[n] # h[n]}
  <1>1. CASE B = {}
    BY <1>1
  <1>2. CASE B # {}
    <2>1. PICK j \in B : \A i \in B : j <= i
      BY <1>2, LeastMember
    <2>2. PICK n \in S : rank[n] = j /\ rank[n] < k /\ g[n] # h[n]
      BY <2>1
    <2>3. \A m \in S : rank[m] < rank[n] => g[m] = h[m]
      BY <2>1, <2>2
    <2>4. F[<<n, g>>] = F[<<n, h>>]
      BY <2>3
    <2> QED BY <2>2, <2>4 DEF Solves
  <1> QED BY <1>1, <1>2

\* ... one exists for every rank ...
LEMMA SolutionsExist ==
  ASSUME NEW S, NEW V, NEW rank, NEW F, Recursive(S, V, rank, F)
  PROVE  \A k \in Nat : \E g \in [S -> V] : Solves(g, k, S, rank, F)
PROOF
  <1> USE DEF Recursive
  <1> DEFINE B == {k \in Nat : ~ \E g \in [S -> V] : Solves(g, k, S, rank, F)}
  <1>1. CASE B = {}
    BY <1>1
  <1>2. CASE B # {}
    <2>1. PICK k \in B : \A i \in B : k <= i
      BY <1>2, LeastMember
    <2>2. PICK v \in V : TRUE
      OBVIOUS
    <2>3. [n \in S |-> v] \in [S -> V] /\ Solves([n \in S |-> v], 0, S, rank, F)
      BY <2>2 DEF Solves
    <2>4. k # 0
      BY <2>3
    <2>5. k - 1 \in Nat /\ k - 1 \notin B
      BY <2>1, <2>4
    <2>6. PICK g \in [S -> V] : Solves(g, k - 1, S, rank, F)
      BY <2>5
    <2> DEFINE h == [n \in S |-> IF rank[n] = k - 1 THEN F[<<n, g>>] ELSE g[n]]
    <2>7. h \in [S -> V]
      OBVIOUS
    <2>8. ASSUME NEW n \in S, rank[n] < k
          PROVE  h[n] = F[<<n, h>>]
      <3>1. \A m \in S : rank[m] < rank[n] => g[m] = h[m]
        BY <2>8
      <3>2. F[<<n, g>>] = F[<<n, h>>]
        BY <3>1, <2>7
      <3>3. rank[n] # k - 1 => g[n] = F[<<n, g>>]
        BY <2>6, <2>8, <2>4 DEF Solves
      <3> QED BY <3>2, <3>3
    <2> QED BY <2>1, <2>7, <2>8 DEF Solves
  <1> QED BY <1>1, <1>2

\* ... and so one for all of them: what is defined by the recursion satisfies
\* its equation.
LEMMA Recursion ==
  ASSUME NEW S, NEW V, NEW rank, NEW F, Recursive(S, V, rank, F)
  PROVE  \E f \in [S -> V] : \A n \in S : f[n] = F[<<n, f>>]
PROOF
  <1> DEFINE sol(k) == CHOOSE g : g \in [S -> V] /\ Solves(g, k, S, rank, F)
             f == [n \in S |-> sol(rank[n] + 1)[n]]
  <1>1. \A k \in Nat : sol(k) \in [S -> V] /\ Solves(sol(k), k, S, rank, F)
    BY SolutionsExist
  <1>0. \A k \in Nat : \A g, h \in [S -> V] :
           Solves(g, k, S, rank, F) /\ Solves(h, k, S, rank, F)
             => \A n \in S : rank[n] < k => g[n] = h[n]
    BY SolutionsAgree
  <1> USE DEF Recursive
  <1>2. f \in [S -> V]
    BY <1>1
  <1>3. ASSUME NEW n \in S
        PROVE  f[n] = F[<<n, f>>]
    <2> DEFINE g == sol(rank[n] + 1)
    <2>0. rank[n] + 1 \in Nat /\ rank[n] < rank[n] + 1 /\ rank[n] \in Nat
      OBVIOUS
    <2>1. g \in [S -> V] /\ Solves(g, rank[n] + 1, S, rank, F)
      BY <1>1, <2>0
    <2>2. ASSUME NEW m \in S, rank[m] < rank[n]
          PROVE  f[m] = g[m]
      <3> DEFINE e == sol(rank[m] + 1)
      <3>1. rank[m] + 1 \in Nat /\ rank[m] < rank[m] + 1 /\ rank[m] \in Nat
        OBVIOUS
      <3>2. e \in [S -> V] /\ Solves(e, rank[m] + 1, S, rank, F)
        BY <1>1, <3>1
      <3>3. Solves(g, rank[m] + 1, S, rank, F)
        BY <2>1, <2>2, <2>0, <3>1 DEF Solves
      <3>4. f[m] = e[m]
        OBVIOUS
      <3> HIDE DEF e, g, f
      <3>5. \A x \in S : rank[x] < rank[m] + 1 => g[x] = e[x]
        BY <2>1, <3>1, <3>2, <3>3, <1>0
      <3> QED BY <3>1, <3>4, <3>5
    <2>3. f[n] = g[n]
      OBVIOUS
    <2> HIDE DEF g, f
    <2>4. F[<<n, f>>] = F[<<n, g>>]
      BY <1>2, <2>1, <2>2
    <2>5. g[n] = F[<<n, g>>]
      BY <2>0, <2>1 DEF Solves
    <2> QED BY <2>3, <2>4, <2>5
  <1> HIDE DEF f
  <1> QED BY <1>2, <1>3

-----------------------------------------------------------------------------
(* The static semantics satisfies its equations.                           *)

Verdicts == BaseType \cup {"Boolean", "ok"} \cup Errors

\* The types of the nodes inside n decide what is said of it.
SameInside(n, g, h) == \A m \in SubNodes(n) : g[m] = h[m]

\* The lists of a node are sequences.
LEMMA ListsAreSequences ==
  ASSUME NEW n \in Node
  PROVE  /\ n.kind \in ChainKinds => DOMAIN n.ops = 1..Len(n.ops)
         /\ n.kind = "ProcCall" => DOMAIN n.params = 1..Len(n.params)
         /\ n.kind = "StmtSeq" => DOMAIN n.stmts = 1..Len(n.stmts) /\ Len(n.stmts) > 0
PROOF
  <1>1. CASE n.kind \in ChainKinds
    <2>1. IsChain(n)
      BY <1>1, ShapeOfKind
    <2> QED BY <1>1, <2>1 DEF IsChain, ChainKinds
  <1>2. CASE n.kind \in {"ProcCall", "StmtSeq"}
    <2>1. IsStmt(n)
      BY <1>2, ShapeOfKind DEF StmtKinds
    <2> QED BY <1>2, <2>1 DEF IsStmt, ChainKinds
  <1> QED BY <1>1, <1>2

\* The nodes inside of a node.
LEMMA InnerNodes ==
  ASSUME NEW n \in Node
  PROVE  /\ n.kind \in {"Paren", "Negation"} => n.inner \in SubNodes(n)
         /\ n.kind \in ChainKinds => /\ n.start \in SubNodes(n)
                                     /\ \A k \in 1..Len(n.ops) : n.ops[k].rhs \in SubNodes(n)
         /\ n.kind = "Assignment" => n.expr \in SubNodes(n)
         /\ n.kind = "ProcCall" => \A k \in 1..Len(n.params) : n.params[k] \in SubNodes(n)
         /\ n.kind = "StmtSeq" => \A k \in 1..Len(n.stmts) : n.stmts[k] \in SubNodes(n)
PROOF
  <1>1. CASE n.kind \in {"Paren", "Negation"}
    BY <1>1 DEF SubNodes, ChainKinds
  <1>2. CASE n.kind \in ChainKinds
    <2>1. DOMAIN n.ops = 1..Len(n.ops)
      BY <1>2, ListsAreSequences
    <2> QED BY <1>2, <2>1 DEF SubNodes, ChainKinds
  <1>3. CASE n.kind = "Assignment"
    BY <1>3 DEF SubNodes, ChainKinds
  <1>4. CASE n.kind = "ProcCall"
    <2>1. DOMAIN n.params = 1..Len(n.params)
      BY <1>4, ListsAreSequences
    <2> QED BY <1>4, <2>1 DEF SubNodes, ChainKinds
  <1>5. CASE n.kind = "StmtSeq"
    <2>1. DOMAIN n.stmts = 1..Len(n.stmts)
      BY <1>5, ListsAreSequences
    <2> QED BY <1>5, <2>1 DEF SubNodes, ChainKinds
  <1> QED BY <1>1, <1>2, <1>3, <1>4, <1>5 DEF ChainKinds

\* The nodes inside a node are nodes of a smaller height.
LEMMA InsideIsLower ==
  ASSUME NEW n \in Node
  PROVE  \A m \in SubNodes(n) : m \in Node /\ Height[m] < Height[n]
PROOF
  <1> SUFFICES SubNodes(n) \subseteq Node
    BY TreesAreFinite
  <1>1. CASE n.kind \in {"Paren", "Negation"}
    BY <1>1, FactorNodes DEF SubNodes, ChainKinds
  <1>2. CASE n.kind \in ChainKinds
    <2>1. SubNodes(n) = {n.start} \cup {n.ops[k].rhs : k \in 1..Len(n.ops)}
      BY <1>2, ListsAreSequences DEF SubNodes, ChainKinds
    <2> QED BY <1>2, <2>1, ChainNodes
  <1>3. CASE n.kind = "Assignment"
    BY <1>3, StatementNodes DEF SubNodes, ChainKinds
  <1>4. CASE n.kind = "ProcCall"
    <2>1. SubNodes(n) = {n.params[k] : k \in 1..Len(n.params)}
      BY <1>4, ListsAreSequences DEF SubNodes, ChainKinds
    <2> QED BY <1>4, <2>1, StatementNodes
  <1>5. CASE n.kind = "StmtSeq"
    <2>1. SubNodes(n) = {n.stmts[k] : k \in 1..Len(n.stmts)}
      BY <1>5, ListsAreSequences DEF SubNodes, ChainKinds
    <2> QED BY <1>5, <2>1, StatementNodes
  <1>6. CASE n.kind \notin {"Paren", "Negation", "Assignment", "ProcCall", "StmtSeq"}
                             \cup ChainKinds
    <2>1. SubNodes(n) = {}
      BY <1>6, Zenon DEF SubNodes, ChainKinds
    <2> QED BY <2>1
  <1> QED BY <1>1, <1>2, <1>3, <1>4, <1>5, <1>6

\* What an operator yields is a type or an error.
LEMMA ChainedIsVerdict ==
  ASSUME NEW V, Verdicts \subseteq V, NEW op, NEW l \in V, NEW r \in V
  PROVE  Chained(op, l, r) \in V
PROOF
  <1>1. ResultOf(op, l, r) \in V
    <2>1. ResultOf(op, l, r) \in {l, "Boolean", "NotImplemented", "TypeClash"}
      BY Zenon DEF ResultOf
    <2> QED BY <2>1 DEF Verdicts, Errors
  <1>2. "NotImplemented" \in V
    BY DEF Verdicts, Errors
  <1> QED BY <1>1, <1>2 DEF Chained

\* The recursion along the operators of a chain, as a functional.
ChainFunctional(n, type, V) ==
  [x \in (0..Len(n.ops)) \X [0..Len(n.ops) -> V] |->
     IF x[1] = 0 THEN type[n.start]
     ELSE Chained(n.ops[x[1]].op, x[2][x[1] - 1], type[n.ops[x[1]].rhs])]

\* It descends.
LEMMA ChainDescends ==
  ASSUME NEW n \in Node, n.kind \in ChainKinds, NEW V, Verdicts \subseteq V,
         NEW type \in [Node -> V]
  PROVE  Recursive(0..Len(n.ops), V, [k \in 0..Len(n.ops) |-> k],
                   ChainFunctional(n, type, V))
PROOF
  <1> DEFINE S == 0..Len(n.ops)
             F == ChainFunctional(n, type, V)
             rank == [k \in S |-> k]
  <1>1. /\ n.start \in Node /\ Len(n.ops) \in Nat
        /\ \A k \in 1..Len(n.ops) : n.ops[k].rhs \in Node
    BY ChainNodes
  <1>2. V # {} /\ \A k \in S : rank[k] = k /\ k \in Nat
    BY <1>1 DEF Verdicts
  <1>3. \A k \in S : \A g \in [S -> V] :
          F[<<k, g>>] = IF k = 0 THEN type[n.start]
                        ELSE Chained(n.ops[k].op, g[k - 1], type[n.ops[k].rhs])
    BY DEF ChainFunctional
  <1> HIDE DEF F, rank
  <1>4. ASSUME NEW k \in S, NEW g \in [S -> V]
        PROVE  F[<<k, g>>] \in V
    <2>1. CASE k = 0
      BY <1>1, <1>3, <2>1
    <2>2. CASE k # 0
      <3>1. k \in 1..Len(n.ops) /\ k - 1 \in S
        BY <1>1, <2>2
      <3>2. g[k - 1] \in V /\ type[n.ops[k].rhs] \in V
        BY <1>1, <3>1
      <3> QED BY <1>3, <2>2, <3>2, ChainedIsVerdict
    <2> QED BY <2>1, <2>2
  <1>5. ASSUME NEW k \in S, NEW g \in [S -> V], NEW h \in [S -> V],
               \A m \in S : rank[m] < rank[k] => g[m] = h[m]
        PROVE  F[<<k, g>>] = F[<<k, h>>]
    <2>1. CASE k = 0
      BY <1>3, <2>1
    <2>2. CASE k # 0
      <3>1. k - 1 \in S /\ k - 1 < k
        BY <1>1, <2>2
      <3>2. g[k - 1] = h[k - 1]
        BY <1>2, <1>5, <3>1
      <3> QED BY <1>3, <3>2
    <2> QED BY <2>1, <2>2
  <1> QED BY <1>2, <1>4, <1>5 DEF Recursive, F, rank

\* The types along a chain of operators satisfy the equations that define them.
LEMMA ChainEquations ==
  ASSUME NEW n \in Node, n.kind \in ChainKinds, NEW V, Verdicts \subseteq V,
         NEW type \in [Node -> V]
  PROVE  /\ OfChain(n, type) \in [0..Len(n.ops) -> V]
         /\ OfChain(n, type)[0] = type[n.start]
         /\ \A k \in 1..Len(n.ops) :
              OfChain(n, type)[k] =
                Chained(n.ops[k].op, OfChain(n, type)[k - 1], type[n.ops[k].rhs])
PROOF
  <1> DEFINE S == 0..Len(n.ops)
             F == ChainFunctional(n, type, V)
             body(f) == [k \in S |-> IF k = 0 THEN type[n.start]
                                     ELSE Chained(n.ops[k].op, f[k - 1], type[n.ops[k].rhs])]
  <1>1. PICK f \in [S -> V] : \A k \in S : f[k] = F[<<k, f>>]
    <2> DEFINE rank == [k \in S |-> k]
    <2>1. Recursive(S, V, rank, F)
      BY ChainDescends
    <2> HIDE DEF S, F, rank
    <2> QED BY <2>1, Recursion
  <1>2. \A g \in [S -> V] : \A k \in S : F[<<k, g>>] = body(g)[k]
    BY DEF ChainFunctional
  <1>3. f = body(f)
    <2>1. \A k \in S : f[k] = body(f)[k]
      BY <1>1, <1>2
    <2> QED BY <2>1
  <1>4. OfChain(n, type) = body(OfChain(n, type))
    BY <1>3 DEF OfChain
  <1> HIDE DEF F
  <1>5. Len(n.ops) \in Nat
    BY ChainNodes
  <1> DEFINE g == OfChain(n, type)
  <1>6. /\ DOMAIN g = S /\ g[0] = type[n.start]
        /\ \A k \in 1..Len(n.ops) :
             g[k] = Chained(n.ops[k].op, g[k - 1], type[n.ops[k].rhs])
    <2>1. DOMAIN g = S /\ \A k \in S : g[k] = body(g)[k]
      BY <1>4
    <2>2. 0 \in S /\ \A k \in 1..Len(n.ops) : k \in S /\ k # 0
      BY <1>5
    <2> QED BY <2>1, <2>2
  <1> HIDE DEF g
  <1> DEFINE B == {k \in S : g[k] \notin V}
  <1>7. CASE B = {}
    BY <1>4, <1>6, <1>7 DEF g
  <1>8. CASE B # {}
    <2>1. B \in SUBSET Nat
      BY <1>5
    <2>2. PICK k \in B : \A j \in B : k <= j
      BY <1>8, <2>1, LeastMember
    <2>3. k # 0
      BY <1>6, <2>2, ChainNodes
    <2>4. k \in 1..Len(n.ops) /\ k - 1 \in S /\ k - 1 \notin B
      BY <1>5, <2>2, <2>3
    <2>5. g[k - 1] \in V /\ type[n.ops[k].rhs] \in V
      BY <2>4, ChainNodes
    <2> QED BY <1>6, <2>2, <2>4, <2>5, ChainedIsVerdict
  <1> QED BY <1>7, <1>8

\* In particular where the nodes have a type or an error.
LEMMA ChainTypes ==
  ASSUME NEW n \in Node, n.kind \in ChainKinds, NEW type \in [Node -> Verdicts]
  PROVE  /\ OfChain(n, type) \in [0..Len(n.ops) -> Verdicts]
         /\ OfChain(n, type)[0] = type[n.start]
         /\ \A k \in 1..Len(n.ops) :
              OfChain(n, type)[k] =
                Chained(n.ops[k].op, OfChain(n, type)[k - 1], type[n.ops[k].rhs])
PROOF
  <1>1. Verdicts \subseteq Verdicts
    OBVIOUS
  <1> QED BY <1>1, ChainEquations, ZenonT(60)

\* Once there is an error in a chain, it stays to the end.
LEMMA ErrorsStick ==
  ASSUME NEW n \in Node, n.kind \in ChainKinds, NEW type \in [Node -> Verdicts],
         NEW k \in 0..Len(n.ops), OfChain(n, type)[k] \in Errors
  PROVE  OfChain(n, type)[Len(n.ops)] = OfChain(n, type)[k]
PROOF
  <1> DEFINE g == OfChain(n, type)
             B == {j \in k..Len(n.ops) : g[j] # g[k]}
  <1>1. Len(n.ops) \in Nat /\ k \in Nat
    BY ChainNodes
  <1>2. CASE B = {}
    BY <1>1, <1>2
  <1>3. CASE B # {}
    <2>1. B \in SUBSET Nat
      BY <1>1
    <2>2. PICK j \in B : \A i \in B : j <= i
      BY <1>3, <2>1, LeastMember
    <2>3. j # k
      BY <2>2
    <2>4. j \in 1..Len(n.ops) /\ j - 1 \in k..Len(n.ops) /\ j - 1 \notin B
      BY <1>1, <2>2, <2>3
    <2>5. g[j - 1] = g[k]
      BY <2>4
    <2>6. g[j] = Chained(n.ops[j].op, g[j - 1], type[n.ops[j].rhs])
      BY <2>4, ChainTypes
    <2> QED BY <2>2, <2>5, <2>6 DEF Chained
  <1> QED BY <1>2, <1>3

\* Only the types of the operands decide the types along a chain.
LEMMA ChainIsLocal ==
  ASSUME NEW n \in Node, n.kind \in ChainKinds,
         NEW V, Verdicts \subseteq V, NEW g \in [Node -> V], NEW h \in [Node -> V],
         SameInside(n, g, h)
  PROVE  \A k \in 0..Len(n.ops) : OfChain(n, g)[k] = OfChain(n, h)[k]
PROOF
  <1> DEFINE B == {j \in 0..Len(n.ops) : OfChain(n, g)[j] # OfChain(n, h)[j]}
  <1>1. /\ Len(n.ops) \in Nat /\ g[n.start] = h[n.start]
        /\ \A k \in 1..Len(n.ops) : g[n.ops[k].rhs] = h[n.ops[k].rhs]
    BY ChainNodes, InnerNodes DEF SameInside
  <1>4. \A f \in [Node -> V] :
          /\ OfChain(n, f) \in [0..Len(n.ops) -> V]
          /\ OfChain(n, f)[0] = f[n.start]
          /\ \A k \in 1..Len(n.ops) :
               OfChain(n, f)[k] = Chained(n.ops[k].op, OfChain(n, f)[k - 1], f[n.ops[k].rhs])
    BY ChainEquations, Zenon
  <1>5. /\ OfChain(n, g)[0] = OfChain(n, h)[0]
        /\ \A k \in 1..Len(n.ops) :
             OfChain(n, g)[k - 1] = OfChain(n, h)[k - 1] => OfChain(n, g)[k] = OfChain(n, h)[k]
    BY <1>1, <1>4
  <1>2. CASE B = {}
    BY <1>2
  <1>3. CASE B # {}
    <2>1. B \in SUBSET Nat
      BY <1>1
    <2>2. PICK j \in B : \A i \in B : j <= i
      BY <1>3, <2>1, LeastMember
    <2>3. j # 0
      BY <1>1, <1>5, <2>2
    <2>4. j \in 1..Len(n.ops) /\ j - 1 \in 0..Len(n.ops) /\ j - 1 \notin B
      BY <1>1, <2>2, <2>3
    <2>5. OfChain(n, g)[j - 1] = OfChain(n, h)[j - 1]
      BY <2>4
    <2> QED BY <1>1, <2>2, <2>4, <2>5, <1>5
  <1> QED BY <1>2, <1>3

\* The first statement of a sequence that is not right.
LEMMA FirstFailingFacts ==
  ASSUME NEW n \in Node, n.kind = "StmtSeq", NEW type, Failing(n, type) # {}
  PROVE  /\ FirstFailing(n, type) \in 1..Len(n.stmts)
         /\ type[n.stmts[FirstFailing(n, type)]] # "ok"
         /\ \A j \in 1..Len(n.stmts) :
              type[n.stmts[j]] # "ok" => FirstFailing(n, type) <= j
PROOF
  <1>1. DOMAIN n.stmts = 1..Len(n.stmts) /\ Len(n.stmts) \in Nat
    BY ListsAreSequences, StatementNodes
  <1>2. Failing(n, type) \in SUBSET Nat
    BY <1>1 DEF Failing
  <1>3. \E k \in Failing(n, type) : \A j \in Failing(n, type) : k <= j
    BY <1>2, LeastMember
  <1>4. /\ FirstFailing(n, type) \in Failing(n, type)
        /\ \A j \in Failing(n, type) : FirstFailing(n, type) <= j
    BY <1>3 DEF FirstFailing
  <1> QED BY <1>1, <1>4 DEF Failing

\* The type of a node, kind by kind.
LEMMA TypeOfKinds ==
  ASSUME NEW n, NEW types, NEW type
  PROVE  /\ n.kind = "Number" => TypeOf(n, types, type) = "Integer"
         /\ n.kind = "Bool" => TypeOf(n, types, type) = "Boolean"
         /\ n.kind \in {"String", "Nil", "FuncCall"}
              => TypeOf(n, types, type) = "NotImplemented"
         /\ n.kind = "Designator" =>
              TypeOf(n, types, type) =
                IF n.ident \notin DOMAIN types THEN "SemanticProblem"
                ELSE IF n.items # <<>> THEN "NotImplemented" ELSE types[n.ident]
         /\ n.kind = "Paren" => TypeOf(n, types, type) = type[n.inner]
         /\ n.kind = "Negation" =>
              TypeOf(n, types, type) =
                IF type[n.inner] = "String" THEN "TypeClash" ELSE type[n.inner]
         /\ n.kind \in ChainKinds => TypeOf(n, types, type) = OfChain(n, type)[Len(n.ops)]
         /\ n.kind = "Assignment" =>
              TypeOf(n, types, type) =
                IF type[n.expr] \in Errors THEN type[n.expr]
                ELSE IF n.target.ident \in DOMAIN types THEN "ok" ELSE "SemanticProblem"
         /\ n.kind = "ProcCall" => TypeOf(n, types, type) = OfCall(n, type)
         /\ n.kind = "StmtSeq" =>
              TypeOf(n, types, type) =
                IF Failing(n, type) = {} THEN "ok"
                ELSE type[n.stmts[FirstFailing(n, type)]]
         /\ n.kind \notin {"Number", "Bool", "String", "Nil", "FuncCall", "Designator",
                           "Paren", "Negation", "Assignment", "ProcCall", "StmtSeq"}
                            \cup ChainKinds
              => TypeOf(n, types, type) = "ok"
PROOF
  <1>1. CASE n.kind \in ChainKinds
    BY <1>1, Zenon DEF TypeOf, ChainKinds
  <1>2. CASE n.kind \notin ChainKinds
    BY <1>2, Zenon DEF TypeOf, ChainKinds
  <1> QED BY <1>1, <1>2

\* The type of a node is a type, "ok" or an error.
LEMMA TypeIsVerdict ==
  ASSUME NEW n \in Node, NEW D, NEW types \in [D -> BaseType],
         NEW type \in [Node -> Verdicts]
  PROVE  TypeOf(n, types, type) \in Verdicts
PROOF
  <1>1. {"Integer", "Boolean", "ok", "NotImplemented", "SemanticProblem", "TypeClash"}
          \subseteq Verdicts /\ BaseType \subseteq Verdicts
    BY DEF Verdicts, Errors, BaseType
  <1>2. CASE n.kind \in ChainKinds
    <2>1. OfChain(n, type)[Len(n.ops)] \in Verdicts
      BY <1>2, ChainTypes, ChainNodes
    <2> QED BY <1>2, <2>1, TypeOfKinds
  <1>3. CASE n.kind = "StmtSeq"
    <2>1. CASE Failing(n, type) = {}
      BY <1>1, <1>3, <2>1, TypeOfKinds
    <2>2. CASE Failing(n, type) # {}
      <3>1. FirstFailing(n, type) \in 1..Len(n.stmts)
        BY <1>3, <2>2, FirstFailingFacts
      <3>2. n.stmts[FirstFailing(n, type)] \in Node
        BY <1>3, <3>1, StatementNodes
      <3> QED BY <1>3, <2>2, <3>2, TypeOfKinds
    <2> QED BY <2>1, <2>2
  <1>4. CASE n.kind = "ProcCall"
    <2>1. OfCall(n, type) \in Verdicts
      <3>1. Len(n.params) = 1 => type[n.params[1]] \in Verdicts
        BY <1>4, StatementNodes
      <3> QED BY <1>1, <3>1 DEF OfCall
    <2> QED BY <1>4, <2>1, TypeOfKinds
  <1>5. CASE n.kind \in {"Number", "Bool", "String", "Nil", "FuncCall"}
    BY <1>1, <1>5, TypeOfKinds
  <1>6. CASE n.kind = "Designator"
    BY <1>1, <1>6, TypeOfKinds
  <1>7. CASE n.kind \in {"Paren", "Negation"}
    <2>1. type[n.inner] \in Verdicts
      BY <1>7, FactorNodes
    <2> QED BY <1>1, <1>7, <2>1, TypeOfKinds
  <1>8. CASE n.kind = "Assignment"
    <2>1. type[n.expr] \in Verdicts
      BY <1>8, StatementNodes
    <2> QED BY <1>1, <1>8, <2>1, TypeOfKinds
  <1>9. CASE n.kind \notin {"Number", "Bool", "String", "Nil", "FuncCall", "Designator",
                            "Paren", "Negation", "Assignment", "ProcCall", "StmtSeq"}
                             \cup ChainKinds
    BY <1>1, <1>9, TypeOfKinds
  <1> QED BY <1>2, <1>3, <1>4, <1>5, <1>6, <1>7, <1>8, <1>9

\* It depends on the types of the nodes inside alone.
LEMMA TypeIsLocal ==
  ASSUME NEW n \in Node, NEW types, NEW V, Verdicts \subseteq V,
         NEW g \in [Node -> V], NEW h \in [Node -> V], SameInside(n, g, h)
  PROVE  TypeOf(n, types, g) = TypeOf(n, types, h)
PROOF
  <1>1. \A m \in SubNodes(n) : g[m] = h[m]
    BY DEF SameInside
  <1>2. CASE n.kind \in ChainKinds
    <2>1. \A k \in 0..Len(n.ops) : OfChain(n, g)[k] = OfChain(n, h)[k]
      BY <1>2, ChainIsLocal
    <2> QED BY <1>2, <2>1, ChainNodes, TypeOfKinds
  <1>3. CASE n.kind = "StmtSeq"
    <2>1. \A k \in 1..Len(n.stmts) : g[n.stmts[k]] = h[n.stmts[k]]
      BY <1>1, <1>3, InnerNodes
    <2>2. Failing(n, g) = Failing(n, h)
      BY <1>3, <2>1, ListsAreSequences DEF Failing
    <2>3. CASE Failing(n, g) = {}
      <3>1. TypeOf(n, types, g) = "ok"
        BY <1>3, <2>3, TypeOfKinds
      <3>2. Failing(n, h) = {}
        BY <2>2, <2>3
      <3>3. TypeOf(n, types, h) = "ok"
        BY <1>3, <3>2, TypeOfKinds
      <3> QED BY <3>1, <3>3
    <2>4. CASE Failing(n, g) # {}
      <3>1. /\ FirstFailing(n, g) \in 1..Len(n.stmts)
            /\ g[n.stmts[FirstFailing(n, g)]] # "ok"
            /\ \A j \in 1..Len(n.stmts) : g[n.stmts[j]] # "ok" => FirstFailing(n, g) <= j
        BY <1>3, <2>4, FirstFailingFacts
      <3>2. /\ FirstFailing(n, h) \in 1..Len(n.stmts)
            /\ h[n.stmts[FirstFailing(n, h)]] # "ok"
            /\ \A j \in 1..Len(n.stmts) : h[n.stmts[j]] # "ok" => FirstFailing(n, h) <= j
        BY <1>3, <2>2, <2>4, FirstFailingFacts
      <3>3. FirstFailing(n, g) = FirstFailing(n, h)
        BY <1>3, <2>1, <3>1, <3>2, StatementNodes
      <3> QED BY <1>3, <2>1, <2>2, <2>4, <3>1, <3>3, TypeOfKinds
    <2> QED BY <2>3, <2>4
  <1>4. CASE n.kind = "ProcCall"
    <2>1. Len(n.params) = 1 => g[n.params[1]] = h[n.params[1]]
      BY <1>1, <1>4, InnerNodes
    <2>2. OfCall(n, g) = OfCall(n, h)
      BY <2>1 DEF OfCall
    <2> QED BY <1>4, <2>2, TypeOfKinds
  <1>5. CASE n.kind \in {"Number", "Bool", "String", "Nil", "FuncCall"}
    BY <1>5, TypeOfKinds
  <1>6. CASE n.kind = "Designator"
    BY <1>6, TypeOfKinds
  <1>7. CASE n.kind \in {"Paren", "Negation"}
    <2>1. g[n.inner] = h[n.inner]
      BY <1>1, <1>7, InnerNodes
    <2> QED BY <1>7, <2>1, TypeOfKinds
  <1>8. CASE n.kind = "Assignment"
    <2>1. g[n.expr] = h[n.expr]
      BY <1>1, <1>8, InnerNodes
    <2> QED BY <1>8, <2>1, TypeOfKinds
  <1>9. CASE n.kind \notin {"Number", "Bool", "String", "Nil", "FuncCall", "Designator",
                            "Paren", "Negation", "Assignment", "ProcCall", "StmtSeq"}
                             \cup ChainKinds
    BY <1>9, TypeOfKinds
  <1> QED BY <1>2, <1>3, <1>4, <1>5, <1>6, <1>7, <1>8, <1>9

\* The recursion over the tree, as a functional.
TypeFunctional(types) ==
  [x \in Node \X [Node -> Verdicts] |-> TypeOf(x[1], types, x[2])]

\* It descends.
LEMMA TypesDescend ==
  ASSUME NEW D, NEW types \in [D -> BaseType]
  PROVE  Recursive(Node, Verdicts, Height, TypeFunctional(types))
PROOF
  <1> DEFINE F == TypeFunctional(types)
  <1>1. \A n \in Node : \A g \in [Node -> Verdicts] : F[<<n, g>>] = TypeOf(n, types, g)
    BY DEF TypeFunctional
  <1> HIDE DEF F
  <1>2. \A n \in Node : \A g \in [Node -> Verdicts] : F[<<n, g>>] \in Verdicts
    BY <1>1, TypeIsVerdict
  <1>3. ASSUME NEW n \in Node, NEW g \in [Node -> Verdicts], NEW h \in [Node -> Verdicts],
               \A m \in Node : Height[m] < Height[n] => g[m] = h[m]
        PROVE  F[<<n, g>>] = F[<<n, h>>]
    <2>1. SameInside(n, g, h)
      BY <1>3, InsideIsLower DEF SameInside
    <2>2. Verdicts \subseteq Verdicts
      OBVIOUS
    <2>3. TypeOf(n, types, g) = TypeOf(n, types, h)
      BY <2>1, <2>2, TypeIsLocal
    <2> QED BY <1>1, <2>3
  <1>4. Verdicts # {} /\ \A n \in Node : Height[n] \in Nat
    BY TreesAreFinite DEF Verdicts
  <1> QED BY <1>2, <1>3, <1>4 DEF Recursive, F

\* The static semantics is defined for every node, by its equations.
LEMMA StaticEquations ==
  ASSUME NEW D, NEW types \in [D -> BaseType]
  PROVE  /\ Static(types) \in [Node -> Verdicts]
         /\ \A n \in Node : Static(types)[n] = TypeOf(n, types, Static(types))
PROOF
  <1> DEFINE F == TypeFunctional(types)
             body(f) == [n \in Node |-> TypeOf(n, types, f)]
  <1>1. PICK f \in [Node -> Verdicts] : \A n \in Node : f[n] = F[<<n, f>>]
    <2>1. Recursive(Node, Verdicts, Height, F)
      BY TypesDescend
    <2> HIDE DEF F
    <2> QED BY <2>1, Recursion
  <1>2. \A n \in Node : \A g \in [Node -> Verdicts] : F[<<n, g>>] = TypeOf(n, types, g)
    BY DEF TypeFunctional
  <1>3. f = body(f)
    <2>1. \A n \in Node : f[n] = body(f)[n]
      BY <1>1, <1>2
    <2> QED BY <2>1
  <1>4. Static(types) = body(Static(types))
    BY <1>3 DEF Static
  <1> DEFINE g == Static(types)
             h == [n \in Node |-> IF g[n] \in Verdicts THEN g[n] ELSE "ok"]
             V == Verdicts \cup {g[n] : n \in Node}
             B == {Height[n] : n \in {m \in Node : g[m] \notin Verdicts}}
  <1>5. DOMAIN g = Node /\ \A n \in Node : g[n] = TypeOf(n, types, g)
    BY <1>4
  <1>6. g = [n \in Node |-> TypeOf(n, types, g)]
    BY <1>4
  <1> HIDE DEF F, g
  <1>7. CASE B = {}
    <2>1. \A n \in Node : g[n] \in Verdicts
      BY <1>7
    <2> QED BY <1>5, <1>6, <2>1 DEF g
  <1>8. CASE B # {}
    <2>1. B \in SUBSET Nat
      BY TreesAreFinite
    <2>2. PICK k \in B : \A i \in B : k <= i
      BY <1>8, <2>1, LeastMember
    <2>3. PICK n \in Node : g[n] \notin Verdicts /\ Height[n] = k
      BY <2>2
    <2>4. g \in [Node -> V] /\ h \in [Node -> V] /\ h \in [Node -> Verdicts]
      BY <1>6 DEF Verdicts
    <2>5. \A m \in Node : Height[m] < Height[n] => g[m] = h[m]
      <3> SUFFICES ASSUME NEW m \in Node, Height[m] < Height[n]
                   PROVE  g[m] \in Verdicts
        OBVIOUS
      <3>1. Height[m] \notin B
        BY <2>1, <2>2, <2>3
      <3> QED BY <3>1
    <2>6. SameInside(n, g, h)
      BY <2>5, InsideIsLower DEF SameInside
    <2>7. TypeOf(n, types, g) = TypeOf(n, types, h)
      <3> HIDE DEF h, V
      <3>1. Verdicts \subseteq V
        BY DEF V
      <3> QED BY <2>4, <2>6, <3>1, TypeIsLocal
    <2>8. TypeOf(n, types, h) \in Verdicts
      <3> HIDE DEF h
      <3> QED BY <2>4, TypeIsVerdict
    <2> QED BY <1>5, <2>3, <2>7, <2>8
  <1> QED BY <1>7, <1>8

-----------------------------------------------------------------------------
(***************************************************************************)
(* The inductive invariant.                                                *)
(***************************************************************************)

\* The walk over the declarations has gone by the place p.
Passed(p) == Before(p, <<decl.at, decl.name>>)

NothingDeclared ==
  /\ decl.at = 1 /\ decl.name = 0
  /\ pascal_scopes = <<BuiltinScope, EmptyScope>>

\* No problem lies behind; the names behind, and no others, are in the scope.
DeclsSoFar ==
  /\ ~Unsupported
  /\ \A q \in DeclProblems(cu) : ~Passed(q[1])
  /\ DOMAIN InnerScope = {NameAt(cu, p) : p \in {q \in NamePlaces(cu) : Passed(q)}}
  /\ \A p \in NamePlaces(cu) : Passed(p) =>
       /\ InnerScope[NameAt(cu, p)].item = "var"
       /\ InnerScope[NameAt(cu, p)].type = VarDecls(cu)[p[1]].type.name
  /\ decl.name > 0 => decl.type = VarDecls(cu)[decl.at].type.name

DeclsDone ==
  /\ ~Unsupported
  /\ DeclProblems(cu) = {}
  /\ DOMAIN InnerScope = DOMAIN VarTypes(cu)
  /\ \A x \in DOMAIN InnerScope :
       InnerScope[x].item = "var" /\ InnerScope[x].type = VarTypes(cu)[x]

\* What the static semantics says of each node of the program.
NodeType == Static(VarTypes(cu))

\* The value v is one of that type.
IrType(type) == IF type = "Boolean" THEN "i1" ELSE LlvmType(type)

Carries(v, type) == type \in BaseType \cup {"Boolean"} /\ v.ty = IrType(type)

\* The part of its node that a frame has called last.
Part(f) ==
  CASE f.node.kind = "Assignment" -> f.node.expr
    [] f.node.kind = "ProcCall"   -> f.node.params[1]
    [] f.node.kind \in {"Paren", "Negation"} -> f.node.inner
    [] f.node.kind = "StmtSeq"    -> f.node.stmts[f.next]
    [] f.node.kind \in ChainKinds ->
         IF f.next = 1 THEN f.node.start ELSE f.node.ops[f.next - 1].rhs

\* Of that part the frame does not know yet how it ended.
Pending(k) == k < Len(frames) \/ ret # NoValue

\* The parts of the node that have been visited are right, and what a loop
\* over operators keeps is the value of the operands it has taken.
RightSoFar(k) ==
  LET f == frames[k]
      n == frames[k].node
  IN /\ n.kind = "StmtSeq" =>
          \A j \in 1..Len(n.stmts) :
            j < f.next \/ (j = f.next /\ k = Len(frames)) => NodeType[n.stmts[j]] = "ok"
     /\ n.kind = "ProcCall" /\ f.next > 0 => Len(n.params) = 1
     /\ n.kind \in ChainKinds /\ f.acc # NoValue =>
          Carries(f.acc, OfChain(n, NodeType)[IF Pending(k) THEN f.next - 2 ELSE f.next - 1])

\* The frame above visits the part called last; a statement is the part of a
\* sequence.
Called(k) ==
  /\ frames[k + 1].node = Part(frames[k])
  /\ frames[k].node.kind # "StmtSeq" => frames[k + 1].node.kind \in ExprKinds

\* An error in a node that is being visited is the one the program has.
Surfaces(k) ==
  NodeType[frames[k].node] \in Errors => NodeType[Body(cu)] = NodeType[frames[k].node]

StmtsSoFar ==
  /\ DeclsDone
  /\ IF frames = <<>> THEN NodeType[Body(cu)] = "ok" ELSE frames[1].node = Body(cu)
  /\ \A k \in DOMAIN frames : Surfaces(k) /\ RightSoFar(k) /\ (k < Len(frames) => Called(k))
  /\ ret # NoValue => Carries(ret, NodeType[Part(Top)])

VerdictInv ==
  /\ stage = "toplevel" => NothingDeclared
  /\ stage = "decls" => DeclsSoFar
  /\ stage = "stmts" => StmtsSoFar
  /\ stage \in Terminal => VerdictShown = Verdict(cu)

-----------------------------------------------------------------------------
(* The places of the declarations and their problems.                      *)

\* The declarations of a unit and their names are counted.
LEMMA DeclCounts ==
  ASSUME NEW u \in Units
  PROVE  /\ Len(VarDecls(u)) \in Nat /\ DOMAIN VarDecls(u) = 1..Len(VarDecls(u))
         /\ \A d \in 1..Len(VarDecls(u)) :
              /\ Len(VarDecls(u)[d].idents) \in Nat
              /\ DOMAIN VarDecls(u)[d].idents = 1..Len(VarDecls(u)[d].idents)
PROOF
  <1>1. VarDecls(u) \in Seq(VarDecl) /\ \A d \in VarDecl : d.idents \in Seq(Ident)
    BY UnitParts
  <1>2. /\ Len(VarDecls(u)) \in Nat /\ DOMAIN VarDecls(u) = 1..Len(VarDecls(u))
        /\ \A d \in 1..Len(VarDecls(u)) : VarDecls(u)[d] \in VarDecl
    BY <1>1, SeqElements
  <1>3. \A d \in 1..Len(VarDecls(u)) :
          /\ Len(VarDecls(u)[d].idents) \in Nat
          /\ DOMAIN VarDecls(u)[d].idents = 1..Len(VarDecls(u)[d].idents)
    BY <1>1, <1>2, SeqElements
  <1> QED BY <1>2, <1>3

\* A place is a declaration and a position in its list of names.
LEMMA Places ==
  ASSUME NEW u \in Units
  PROVE  /\ \A p \in NamePlaces(u) : \E d \in 1..Len(VarDecls(u)) :
              \E k \in 1..Len(VarDecls(u)[d].idents) :
                p = <<d, k>> /\ p[1] = d /\ p[2] = k /\ d \in Nat /\ k \in Nat \ {0}
         /\ \A d \in 1..Len(VarDecls(u)) : \A k \in 1..Len(VarDecls(u)[d].idents) :
              <<d, k>> \in NamePlaces(u) /\ NameAt(u, <<d, k>>) = VarDecls(u)[d].idents[k]
PROOF
  <1>1. /\ Len(VarDecls(u)) \in Nat /\ DOMAIN VarDecls(u) = 1..Len(VarDecls(u))
        /\ \A d \in 1..Len(VarDecls(u)) :
              /\ Len(VarDecls(u)[d].idents) \in Nat
              /\ DOMAIN VarDecls(u)[d].idents = 1..Len(VarDecls(u)[d].idents)
    BY DeclCounts
  <1>2. \A p : p \in NamePlaces(u) <=>
                 \E d \in 1..Len(VarDecls(u)) :
                   p \in {d} \X (1..Len(VarDecls(u)[d].idents))
    BY <1>1 DEF NamePlaces
  <1>3. ASSUME NEW p \in NamePlaces(u)
        PROVE  \E d \in 1..Len(VarDecls(u)) : \E k \in 1..Len(VarDecls(u)[d].idents) :
                 p = <<d, k>> /\ p[1] = d /\ p[2] = k /\ d \in Nat /\ k \in Nat \ {0}
    <2>1. PICK d \in 1..Len(VarDecls(u)) : p \in {d} \X (1..Len(VarDecls(u)[d].idents))
      BY <1>2, <1>3
    <2>2. PICK k \in 1..Len(VarDecls(u)[d].idents) : p = <<d, k>>
      BY <2>1
    <2>3. d \in Nat /\ k \in Nat \ {0}
      BY <1>1, <2>1, <2>2
    <2> QED BY <2>2, <2>3
  <1>4. ASSUME NEW d \in 1..Len(VarDecls(u)), NEW k \in 1..Len(VarDecls(u)[d].idents)
        PROVE  <<d, k>> \in NamePlaces(u) /\ NameAt(u, <<d, k>>) = VarDecls(u)[d].idents[k]
    <2>1. <<d, k>> \in {d} \X (1..Len(VarDecls(u)[d].idents))
      OBVIOUS
    <2> QED BY <1>2, <2>1 DEF NameAt
  <1> QED BY <1>3, <1>4

\* A problem is one of a type, at position 0, or of a name.
LEMMA Problems ==
  ASSUME NEW u \in Units
  PROVE  /\ \A q \in DeclProblems(u) :
              \/ \E d \in 1..Len(VarDecls(u)) :
                   /\ q = <<<<d, 0>>, TypeProblem(u, d)>>
                   /\ q[1] = <<d, 0>> /\ q[2] = TypeProblem(u, d) /\ TypeProblem(u, d) # "ok"
              \/ /\ q[1] \in NamePlaces(u) /\ Duplicate(u, q[1])
                 /\ q = <<q[1], "SemanticProblem">> /\ q[2] = "SemanticProblem"
         /\ \A d \in 1..Len(VarDecls(u)) :
              TypeProblem(u, d) # "ok" => <<<<d, 0>>, TypeProblem(u, d)>> \in DeclProblems(u)
         /\ \A p \in NamePlaces(u) :
              Duplicate(u, p) => <<p, "SemanticProblem">> \in DeclProblems(u)
PROOF
  <1> HIDE DEF Duplicate, TypeProblem
  <1> QED BY DEF DeclProblems

\* Where a problem shows that no other is before, it is the first one.
LEMMA FirstOfProblems ==
  ASSUME NEW u \in Units, NEW q \in DeclProblems(u),
         \A r \in DeclProblems(u) : ~Before(r[1], q[1])
  PROVE  FirstProblem(DeclProblems(u)) = q[2]
PROOF
  <1> DEFINE P == DeclProblems(u)
             c == CHOOSE p \in P : \A r \in P : ~Before(r[1], p[1])
  <1>1. c \in P /\ \A r \in P : ~Before(r[1], c[1])
    OBVIOUS
  <1>2. FirstProblem(P) = c[2]
    BY DEF FirstProblem
  <1> HIDE DEF c, P
  <1>3. ~Before(q[1], c[1]) /\ ~Before(c[1], q[1])
    BY <1>1 DEF P
  <1>4. \A r \in P : \E d \in Nat : \E k \in Nat :
          /\ r[1] = <<d, k>> /\ r[1][1] = d /\ r[1][2] = k
          /\ k = 0 => r[2] = TypeProblem(u, d)
          /\ k # 0 => r[2] = "SemanticProblem"
    <2> SUFFICES ASSUME NEW r \in P
                 PROVE  \E d \in Nat : \E k \in Nat :
                          /\ r[1] = <<d, k>> /\ r[1][1] = d /\ r[1][2] = k
                          /\ k = 0 => r[2] = TypeProblem(u, d)
                          /\ k # 0 => r[2] = "SemanticProblem"
      OBVIOUS
    <2>1. CASE r[1] \in NamePlaces(u) /\ r[2] = "SemanticProblem"
      <3>1. PICK d \in Nat, k \in Nat \ {0} : r[1] = <<d, k>> /\ r[1][1] = d /\ r[1][2] = k
        BY <2>1, Places
      <3> QED BY <2>1, <3>1
    <2>2. CASE \E d \in 1..Len(VarDecls(u)) :
                 r[1] = <<d, 0>> /\ r[2] = TypeProblem(u, d)
      <3>1. PICK d \in 1..Len(VarDecls(u)) : r[1] = <<d, 0>> /\ r[2] = TypeProblem(u, d)
        BY <2>2
      <3>2. d \in Nat
        BY DeclCounts
      <3> QED BY <3>1, <3>2
    <2> QED BY <2>1, <2>2, Problems DEF P
  <1>5. PICK d \in Nat, k \in Nat :
          /\ q[1] = <<d, k>> /\ q[1][1] = d /\ q[1][2] = k
          /\ k = 0 => q[2] = TypeProblem(u, d)
          /\ k # 0 => q[2] = "SemanticProblem"
    BY <1>4 DEF P
  <1>6. PICK e \in Nat, j \in Nat :
          /\ c[1] = <<e, j>> /\ c[1][1] = e /\ c[1][2] = j
          /\ j = 0 => c[2] = TypeProblem(u, e)
          /\ j # 0 => c[2] = "SemanticProblem"
    BY <1>1, <1>4
  <1>7. d = e /\ k = j
    BY <1>3, <1>5, <1>6 DEF Before
  <1> QED BY <1>2, <1>5, <1>6, <1>7 DEF P

\* A declaration found wrong where none before is: the compiler says so.
LEMMA VerdictOfDecls ==
  ASSUME NEW u \in Units, Constants(u) = <<>>, Subprograms(u) = <<>>,
         NEW q \in DeclProblems(u), \A r \in DeclProblems(u) : ~Before(r[1], q[1])
  PROVE  Verdict(u) = q[2]
PROOF
  BY FirstOfProblems DEF Verdict

\* What a name means: the variable of that name, or else the builtin type.
LEMMA Meaning ==
  ASSUME IInv, NEW x
  PROVE  /\ x \in DOMAIN InnerScope => Declared(x) /\ lookup_decl(x) = InnerScope[x]
         /\ x \notin DOMAIN InnerScope =>
              /\ Declared(x) <=> x \in TypeKind
              /\ x \in TypeKind => lookup_decl(x) = [item |-> "type", type |-> x]
PROOF
  <1>1. pascal_scopes = <<pascal_scopes[1], pascal_scopes[2]>> /\ pascal_scopes[1] = BuiltinScope
    BY DEF IInv, TypeOK, BuiltinsUntouched
  <1>2. DOMAIN pascal_scopes = {1, 2} /\ InnerScope = pascal_scopes[2]
    BY <1>1, ScopesAreTwo DEF InnerScope
  <1>3. Hits(x) \subseteq {1, 2}
    BY <1>2 DEF Hits
  <1>4. CASE x \in DOMAIN InnerScope
    <2>1. 2 \in Hits(x)
      BY <1>2, <1>4 DEF Hits
    <2>2. \A s \in Hits(x) : (\A t \in Hits(x) : t <= s) => s = 2
      BY <1>3, <2>1
    <2>3. (CHOOSE s \in Hits(x) : \A t \in Hits(x) : t <= s) = 2
      BY <1>3, <2>1, <2>2
    <2> QED BY <1>2, <1>4, <2>1, <2>3 DEF lookup_decl, Declared
  <1>5. CASE x \notin DOMAIN InnerScope
    <2>1. Hits(x) = {k \in {1} : x \in TypeKind}
      BY <1>1, <1>2, <1>5 DEF Hits, BuiltinScope
    <2>2. x \in TypeKind => lookup_decl(x) = BuiltinScope[x]
      BY <1>1, <2>1 DEF lookup_decl
    <2> QED BY <1>5, <2>1, <2>2 DEF Declared, BuiltinScope
  <1> QED BY <1>4, <1>5

-----------------------------------------------------------------------------
(* The steps of the declarations.                                          *)

\* An exception, or a failed assertion, that says what the semantics says.
LEMMA ThrownVerdict ==
  ASSUME NEW e \in {"NotImplemented", "SemanticProblem", "assert"}, Throw(e),
         Verdict(cu) = IF e = "assert" THEN "TypeClash" ELSE e
  PROVE  VerdictInv'
PROOF
  <1>1. stage' = e /\ cu' = cu
    BY DEF Throw
  <1>2. VerdictShown' = IF e = "assert" THEN "TypeClash" ELSE e
    BY <1>1, Zenon DEF VerdictShown
  <1>3. stage' \notin {"toplevel", "decls", "stmts"}
    BY <1>1
  <1> QED BY <1>1, <1>2, <1>3 DEF VerdictInv

\* The constructor refuses a type that the semantics refuses.
LEMMA TypesChecked ==
  ASSUME IInv, DeclsSoFar, InDecl, decl.name = 0,
         NEW type, type = VarDecls(cu)[decl.at].type
  PROVE  /\ TypeProblem(cu, decl.at) = IF TypeError(type) = "none" THEN "ok" ELSE TypeError(type)
         /\ TypeError(type) \in {"none", "NotImplemented", "SemanticProblem"}
         /\ TypeError(type) = "none" => lookup_decl(type.name).type = type.name
PROOF
  <1> DEFINE d == decl.at
             x == type.name
             earlier == \E p \in NamePlaces(cu) : p[1] < d /\ NameAt(cu, p) = x
  <1>1. cu \in Units /\ d \in Nat \ {0}
    BY DEF IInv, TypeOK
  <1>2. TypeProblem(cu, d) = IF type.kind # "Named" THEN "NotImplemented"
                             ELSE IF x \notin BaseType \/ earlier THEN "SemanticProblem"
                             ELSE "ok"
    BY DEF TypeProblem
  <1>3. TypeError(type) = IF type.kind # "Named" THEN "NotImplemented"
                          ELSE IF Declared(x) /\ lookup_decl(x).item = "type" THEN "none"
                          ELSE "SemanticProblem"
    BY DEF TypeError
  <1>4. \A p \in NamePlaces(cu) : Passed(p) <=> p[1] < d
    <2> SUFFICES ASSUME NEW p \in NamePlaces(cu)
                 PROVE  Passed(p) <=> p[1] < d
      OBVIOUS
    <2>1. PICK e \in Nat, k \in Nat \ {0} : p = <<e, k>> /\ p[1] = e /\ p[2] = k
      BY <1>1, Places
    <2> QED BY <1>1, <2>1 DEF Passed, Before
  <1>5. x \in DOMAIN InnerScope <=> earlier
    BY <1>4 DEF DeclsSoFar
  <1>6. CASE x \in DOMAIN InnerScope
    <2>1. PICK p \in NamePlaces(cu) : Passed(p) /\ NameAt(cu, p) = x
      BY <1>6 DEF DeclsSoFar
    <2>2. InnerScope[x].item = "var"
      BY <2>1 DEF DeclsSoFar
    <2>3. Declared(x) /\ lookup_decl(x).item # "type"
      BY <1>6, <2>2, Meaning
    <2> HIDE DEF earlier
    <2> QED BY <1>2, <1>3, <1>5, <1>6, <2>3
  <1>7. CASE x \notin DOMAIN InnerScope
    <2>1. /\ Declared(x) <=> x \in TypeKind
          /\ x \in TypeKind => lookup_decl(x) = [item |-> "type", type |-> x]
      BY <1>7, Meaning
    <2>2. TypeKind = BaseType
      BY DEF TypeKind, BaseType
    <2> HIDE DEF earlier
    <2> QED BY <1>2, <1>3, <1>5, <1>7, <2>1, <2>2
  <1> QED BY <1>6, <1>7

\* Resolving the type of a declaration.
LEMMA ResolveTypeVerdict ==
  ASSUME IInv, VerdictInv, ResolveType
  PROVE  VerdictInv'
PROOF
  <1> DEFINE d == decl.at
             type == VarDecls(cu)[d].type
             here == <<d, 0>>
  <1>1. InDecl /\ decl.name = 0 /\ stage = "decls"
    BY DEF ResolveType, InDecl
  <1>2. /\ cu \in Units /\ d \in 1..Len(VarDecls(cu)) /\ d \in Nat
        /\ Constants(cu) = <<>> /\ Subprograms(cu) = <<>> /\ DeclsSoFar
    BY <1>1, DeclCounts DEF IInv, TypeOK, InDecl, VerdictInv, DeclsSoFar, Unsupported
  <1>3. /\ TypeProblem(cu, d) = IF TypeError(type) = "none" THEN "ok" ELSE TypeError(type)
        /\ TypeError(type) \in {"none", "NotImplemented", "SemanticProblem"}
        /\ TypeError(type) = "none" => lookup_decl(type.name).type = type.name
    BY <1>1, <1>2, TypesChecked
  <1>4. \A q \in DeclProblems(cu) : ~Before(q[1], here)
    BY <1>1, <1>2 DEF DeclsSoFar, Passed
  <1>5. CASE TypeError(type) # "none"
    <2>1. Throw(TypeError(type))
      BY <1>5, Zenon DEF ResolveType
    <2>2. <<here, TypeProblem(cu, d)>> \in DeclProblems(cu)
      BY <1>2, <1>3, <1>5, Problems
    <2>3. Verdict(cu) = TypeProblem(cu, d)
      <3> DEFINE q == <<here, TypeProblem(cu, d)>>
      <3>1. q[1] = here /\ q[2] = TypeProblem(cu, d)
        OBVIOUS
      <3> HIDE DEF q
      <3> QED BY <1>2, <1>4, <2>2, <3>1, VerdictOfDecls DEF q
    <2> QED BY <1>3, <1>5, <2>1, <2>3, ThrownVerdict
  <1>6. CASE TypeError(type) = "none"
    <2>1. /\ decl' = [decl EXCEPT !.name = 1, !.type = lookup_decl(type.name).type]
          /\ UNCHANGED <<cu, stage, pascal_scopes>>
      BY <1>6 DEF ResolveType
    <2>2. decl'.at = d /\ decl'.name = 1 /\ decl'.type = type.name
      <3>1. decl \in [at : Nat \ {0}, name : Nat, type : TypeKind]
        BY DEF IInv, TypeOK
      <3> QED BY <1>3, <1>6, <2>1, <3>1
    <2>3. \A p \in NamePlaces(cu) : Passed(p)' <=> Passed(p)
      <3> SUFFICES ASSUME NEW p \in NamePlaces(cu)
                   PROVE  Passed(p)' <=> Passed(p)
        OBVIOUS
      <3>1. PICK e \in Nat, k \in Nat \ {0} : p = <<e, k>> /\ p[1] = e /\ p[2] = k
        BY <1>2, Places
      <3> QED BY <1>1, <1>2, <2>2, <3>1 DEF Passed, Before
    <2>4. ASSUME NEW q \in DeclProblems(cu)
          PROVE  ~Passed(q[1])'
      <3>1. CASE q[1] \in NamePlaces(cu)
        BY <1>2, <2>3, <3>1 DEF DeclsSoFar
      <3>2. CASE \E e \in 1..Len(VarDecls(cu)) : q[1] = <<e, 0>> /\ TypeProblem(cu, e) # "ok"
        <4>1. PICK e \in 1..Len(VarDecls(cu)) : q[1] = <<e, 0>> /\ TypeProblem(cu, e) # "ok"
          BY <3>2
        <4>2. e # d /\ e \in Nat
          BY <1>2, <1>3, <1>6, <4>1, DeclCounts
        <4>3. ~Passed(q[1])
          BY <1>2 DEF DeclsSoFar
        <4> QED BY <1>1, <1>2, <2>2, <4>1, <4>2, <4>3 DEF Passed, Before
      <3> QED BY <1>2, <3>1, <3>2, Problems
    <2>5. InnerScope' = InnerScope
      BY <2>1 DEF InnerScope
    <2>6. DeclsSoFar'
      BY <1>2, <2>1, <2>2, <2>3, <2>4, <2>5 DEF DeclsSoFar, Unsupported
    <2> QED BY <1>1, <2>1, <2>6 DEF VerdictInv, Terminal, Exceptions
  <1> QED BY <1>5, <1>6

\* The place at which a name is declared.
LEMMA DeclPlace ==
  ASSUME IInv, InDecl, decl.name > 0
  PROVE  /\ cu \in Units /\ decl.at \in Nat \ {0} /\ decl.name \in Nat \ {0}
         /\ decl.at \in 1..Len(VarDecls(cu))
         /\ decl.name \in 1..Len(VarDecls(cu)[decl.at].idents)
         /\ Len(VarDecls(cu)[decl.at].idents) \in Nat
         /\ <<decl.at, decl.name>> \in NamePlaces(cu)
         /\ NameAt(cu, <<decl.at, decl.name>>) = DeclName
PROOF
  <1>1. /\ cu \in Units /\ decl.at \in Nat \ {0} /\ decl.name \in Nat \ {0}
        /\ decl.name <= Len(VarDecls(cu)[decl.at].idents)
        /\ Len(VarDecls(cu)[decl.at].idents) \in Nat
    BY DeclFacts DEF IInv, TypeOK
  <1>2. decl.at \in 1..Len(VarDecls(cu))
    BY <1>1, DeclCounts DEF InDecl
  <1>3. decl.name \in 1..Len(VarDecls(cu)[decl.at].idents)
    BY <1>1
  <1> QED BY <1>1, <1>2, <1>3, Places DEF DeclName

\* A name that is taken is a duplicate, and one that is not is none.
LEMMA DuplicatesFound ==
  ASSUME IInv, DeclsSoFar, InDecl, decl.name > 0
  PROVE  InUse <=> Duplicate(cu, <<decl.at, decl.name>>)
PROOF
  <1> DEFINE here == <<decl.at, decl.name>>
  <1>1. here \in NamePlaces(cu) /\ NameAt(cu, here) = DeclName
    BY DeclPlace
  <1>2. InUse <=> \E q \in NamePlaces(cu) : Passed(q) /\ NameAt(cu, q) = DeclName
    BY DEF InUse, DeclsSoFar
  <1> HIDE DEF here
  <1>3. Duplicate(cu, here) <=>
          \E q \in NamePlaces(cu) : Before(q, here) /\ NameAt(cu, q) = DeclName
    BY <1>1 DEF Duplicate
  <1> QED BY <1>2, <1>3 DEF Passed, here

\* Refusing a name.
LEMMA RejectNameVerdict ==
  ASSUME IInv, VerdictInv, RejectName
  PROVE  VerdictInv'
PROOF
  <1> DEFINE here == <<decl.at, decl.name>>
             q == <<here, "SemanticProblem">>
  <1>1. InDecl /\ decl.name > 0 /\ InUse /\ Throw("SemanticProblem") /\ DeclsSoFar
    BY DEF RejectName, InDecl, VerdictInv
  <1>2. here \in NamePlaces(cu) /\ cu \in Units
    BY <1>1, DeclPlace
  <1>3. Duplicate(cu, here)
    BY <1>1, DuplicatesFound
  <1> HIDE DEF here
  <1>4. q \in DeclProblems(cu) /\ q[1] = here /\ q[2] = "SemanticProblem"
    BY <1>2, <1>3, Problems
  <1>5. \A r \in DeclProblems(cu) : ~Before(r[1], here)
    BY <1>1 DEF DeclsSoFar, Passed, here
  <1>6. Constants(cu) = <<>> /\ Subprograms(cu) = <<>>
    BY <1>1 DEF DeclsSoFar, Unsupported
  <1> HIDE DEF q
  <1>7. Verdict(cu) = "SemanticProblem"
    BY <1>2, <1>4, <1>5, <1>6, VerdictOfDecls
  <1> QED BY <1>1, <1>7, ThrownVerdict

\* Which places the walk has gone by after it has declared a name.
LEMMA PassedNext ==
  ASSUME IInv, DeclareName
  PROVE  /\ \A p \in NamePlaces(cu) : Passed(p)' <=> Passed(p) \/ p = <<decl.at, decl.name>>
         /\ \A e \in 1..Len(VarDecls(cu)) : Passed(<<e, 0>>)' => Passed(<<e, 0>>)
         /\ decl'.name > 0 => decl'.at = decl.at /\ decl'.type = decl.type
PROOF
  <1>1. InDecl /\ decl.name > 0
    BY DEF DeclareName
  <1> DEFINE n == Len(VarDecls(cu)[decl.at].idents)
  <1>2. /\ cu \in Units /\ decl.at \in Nat \ {0} /\ decl.name \in 1..n /\ n \in Nat
        /\ decl.name \in Nat \ {0}
    BY <1>1, DeclPlace
  <1>3. decl \in [at : Nat \ {0}, name : Nat, type : TypeKind]
    BY DEF IInv, TypeOK
  <1>4. IF decl.name < n
        THEN decl'.at = decl.at /\ decl'.name = decl.name + 1 /\ decl'.type = decl.type
        ELSE decl'.at = decl.at + 1 /\ decl'.name = 0
    BY <1>3 DEF DeclareName
  <1>5. ASSUME NEW p \in NamePlaces(cu)
        PROVE  Passed(p)' <=> Passed(p) \/ p = <<decl.at, decl.name>>
    <2>1. PICK e \in 1..Len(VarDecls(cu)) : \E k \in 1..Len(VarDecls(cu)[e].idents) :
            p = <<e, k>> /\ p[1] = e /\ p[2] = k /\ e \in Nat /\ k \in Nat \ {0}
      BY <1>2, Places
    <2>2. PICK k \in 1..Len(VarDecls(cu)[e].idents) :
            p = <<e, k>> /\ p[1] = e /\ p[2] = k /\ e \in Nat /\ k \in Nat \ {0}
      BY <2>1
    <2>3. e = decl.at => k <= n
      BY <1>2, <2>2
    <2>4. p = <<decl.at, decl.name>> <=> e = decl.at /\ k = decl.name
      BY <2>2
    <2> HIDE DEF n
    <2> QED BY <1>2, <1>4, <2>2, <2>3, <2>4 DEF Passed, Before
  <1>6. ASSUME NEW e \in 1..Len(VarDecls(cu)), Passed(<<e, 0>>)'
        PROVE  Passed(<<e, 0>>)
    <2>1. e \in Nat
      BY <1>2, DeclCounts
    <2> HIDE DEF n
    <2> QED BY <1>2, <1>4, <1>6, <2>1 DEF Passed, Before
  <1> QED BY <1>2, <1>4, <1>5, <1>6

\* Declaring a name.
LEMMA DeclareNameVerdict ==
  ASSUME IInv, VerdictInv, DeclareName
  PROVE  VerdictInv'
PROOF
  <1> DEFINE here == <<decl.at, decl.name>>
             item == [item |-> "var", type |-> decl.type, alloc |-> Len(ir) + 1]
  <1>1. /\ InDecl /\ decl.name > 0 /\ ~InUse /\ stage = "decls" /\ DeclsSoFar
        /\ UNCHANGED <<cu, stage>>
    BY DEF DeclareName, InDecl, VerdictInv
  <1>2. /\ here \in NamePlaces(cu) /\ cu \in Units /\ NameAt(cu, here) = DeclName
        /\ here[1] = decl.at
    BY <1>1, DeclPlace
  <1>3. ~Duplicate(cu, here)
    BY <1>1, DuplicatesFound
  <1>4. /\ \A p \in NamePlaces(cu) : Passed(p)' <=> Passed(p) \/ p = here
        /\ \A e \in 1..Len(VarDecls(cu)) : Passed(<<e, 0>>)' => Passed(<<e, 0>>)
        /\ decl'.name > 0 => decl'.at = decl.at /\ decl'.type = decl.type
    BY PassedNext
  <1> HIDE DEF here
  <1>5. InnerScope' = Bind(InnerScope, DeclName, item)
    BY BindFacts
  <1>6. /\ DOMAIN InnerScope' = DOMAIN InnerScope \cup {DeclName}
        /\ InnerScope'[DeclName].item = "var" /\ InnerScope'[DeclName].type = decl.type
        /\ \A x \in DOMAIN InnerScope : x # DeclName => InnerScope'[x] = InnerScope[x]
    BY <1>5 DEF Bind
  <1>7. DeclName \notin DOMAIN InnerScope
    BY <1>1 DEF InUse
  <1>8. \A q \in DeclProblems(cu) : ~Passed(q[1])'
    <2> SUFFICES ASSUME NEW q \in DeclProblems(cu)
                 PROVE  ~Passed(q[1])'
      OBVIOUS
    <2>1. ~Passed(q[1])
      BY <1>1 DEF DeclsSoFar
    <2>2. CASE q[1] \in NamePlaces(cu) /\ Duplicate(cu, q[1])
      BY <1>3, <1>4, <2>1, <2>2
    <2>3. CASE \E e \in 1..Len(VarDecls(cu)) : q[1] = <<e, 0>>
      BY <1>4, <2>1, <2>3
    <2> QED BY <1>2, <2>2, <2>3, Problems
  <1>9. DOMAIN InnerScope' = {NameAt(cu, p) : p \in {q \in NamePlaces(cu) : Passed(q)'}}
    <2>1. DOMAIN InnerScope = {NameAt(cu, p) : p \in {q \in NamePlaces(cu) : Passed(q)}}
      BY <1>1 DEF DeclsSoFar
    <2>2. {q \in NamePlaces(cu) : Passed(q)'} = {q \in NamePlaces(cu) : Passed(q)} \cup {here}
      BY <1>2, <1>4
    <2> QED BY <1>2, <1>6, <2>1, <2>2
  <1>10. ASSUME NEW p \in NamePlaces(cu), Passed(p)'
         PROVE  /\ InnerScope'[NameAt(cu, p)].item = "var"
                /\ InnerScope'[NameAt(cu, p)].type = VarDecls(cu)[p[1]].type.name
    <2>1. CASE p = here
      <3>1. decl.type = VarDecls(cu)[decl.at].type.name
        BY <1>1 DEF DeclsSoFar
      <3> QED BY <1>2, <1>6, <2>1, <3>1
    <2>2. CASE p # here
      <3>1. Passed(p)
        BY <1>4, <1>10, <2>2
      <3>2. NameAt(cu, p) \in DOMAIN InnerScope
        BY <1>1, <3>1 DEF DeclsSoFar
      <3>3. NameAt(cu, p) # DeclName
        BY <1>7, <3>2
      <3>4. InnerScope'[NameAt(cu, p)] = InnerScope[NameAt(cu, p)]
        BY <1>6, <3>2, <3>3
      <3> QED BY <1>1, <3>1, <3>4 DEF DeclsSoFar
    <2> QED BY <2>1, <2>2
  <1>11. decl'.name > 0 => decl'.type = VarDecls(cu)[decl'.at].type.name
    BY <1>1, <1>4 DEF DeclsSoFar
  <1>12. DeclsSoFar'
    <2>1. cu' = cu /\ ~Unsupported
      BY <1>1 DEF DeclsSoFar
    <2> QED BY <1>8, <1>9, <1>10, <1>11, <2>1 DEF DeclsSoFar, Unsupported
  <1> QED BY <1>1, <1>12 DEF VerdictInv, Terminal, Exceptions

\* When all declarations have been visited none has a problem.
LEMMA DeclsEnd ==
  ASSUME IInv, DeclsSoFar, decl.at > Len(VarDecls(cu))
  PROVE  DeclsDone
PROOF
  <1>1. cu \in Units /\ decl.at \in Nat \ {0} /\ Len(VarDecls(cu)) \in Nat
    BY DeclCounts DEF IInv, TypeOK
  <1>2. ASSUME NEW p \in NamePlaces(cu)
        PROVE  Passed(p)
    <2>1. PICK e \in 1..Len(VarDecls(cu)) : p[1] = e /\ e \in Nat
      BY <1>1, Places
    <2> QED BY <1>1, <2>1 DEF Passed, Before
  <1>3. ASSUME NEW e \in 1..Len(VarDecls(cu))
        PROVE  Passed(<<e, 0>>)
    BY <1>1 DEF Passed, Before
  <1>4. DeclProblems(cu) = {}
    <2> SUFFICES ASSUME NEW q \in DeclProblems(cu)
                 PROVE  FALSE
      OBVIOUS
    <2>1. ~Passed(q[1])
      BY DEF DeclsSoFar
    <2> QED BY <1>1, <1>2, <1>3, <2>1, Problems
  <1>5. DOMAIN InnerScope = DeclaredNames(cu)
    <2>1. {q \in NamePlaces(cu) : Passed(q)} = NamePlaces(cu)
      BY <1>2
    <2> QED BY <2>1 DEF DeclsSoFar, DeclaredNames
  <1>6. DOMAIN VarTypes(cu) = DeclaredNames(cu)
    BY DEF VarTypes
  <1>7. ASSUME NEW x \in DOMAIN InnerScope
        PROVE  InnerScope[x].item = "var" /\ InnerScope[x].type = VarTypes(cu)[x]
    <2> DEFINE p == CHOOSE q \in NamePlaces(cu) : NameAt(cu, q) = x
    <2>1. \E q \in NamePlaces(cu) : NameAt(cu, q) = x
      BY <1>5, <1>7 DEF DeclaredNames
    <2>2. p \in NamePlaces(cu) /\ NameAt(cu, p) = x
      BY <2>1
    <2>3. VarTypes(cu)[x] = VarDecls(cu)[p[1]].type.name
      BY <1>5, <1>7 DEF VarTypes
    <2> HIDE DEF p
    <2> QED BY <1>2, <2>2, <2>3 DEF DeclsSoFar
  <1> QED BY <1>4, <1>5, <1>6, <1>7 DEF DeclsDone, DeclsSoFar

\* The walk over the statements begins with nothing visited.
LEMMA StartBodyVerdict ==
  ASSUME IInv, WalkShape, VerdictInv, StartBody
  PROVE  VerdictInv'
PROOF
  <1>1. /\ stage = "decls" /\ decl.at > Len(VarDecls(cu)) /\ stage' = "stmts"
        /\ frames' = <<Frame(Body(cu))>>
        /\ UNCHANGED <<cu, decl, pascal_scopes, functions, ir, ret>>
    BY DEF StartBody
  <1>2. DeclsDone
    BY <1>1, DeclsEnd DEF VerdictInv
  <1>3. DeclsDone'
    BY <1>1, <1>2 DEF DeclsDone, Unsupported, InnerScope
  <1>4. ret' = NoValue
    BY <1>1 DEF WalkShape
  <1>5. /\ Len(frames') = 1 /\ DOMAIN frames' = {1} /\ frames' # <<>>
        /\ frames'[1] = Frame(Body(cu))
    BY <1>1
  <1>6. frames'[1].node = Body(cu) /\ frames'[1].next = 0 /\ frames'[1].acc = NoValue
    BY <1>5 DEF Frame
  <1>7. Surfaces(1)' /\ RightSoFar(1)'
    BY <1>1, <1>5, <1>6 DEF Surfaces, RightSoFar
  <1>8. \A k \in DOMAIN frames' : Surfaces(k)' /\ RightSoFar(k)' /\ ~(k < Len(frames'))
    BY <1>5, <1>7
  <1>9. StmtsSoFar'
    BY <1>1, <1>3, <1>4, <1>5, <1>6, <1>8 DEF StmtsSoFar
  <1> QED BY <1>1, <1>9 DEF VerdictInv, Terminal, Exceptions

\* The declarations: the inductive step.
LEMMA DeclarationsVerdict ==
  ASSUME IInv, WalkShape, VerdictInv, Declarations
  PROVE  VerdictInv'
PROOF
  <1>1. CASE RejectBlock
    <2>1. Throw("NotImplemented") /\ Unsupported
      BY <1>1 DEF RejectBlock
    <2>2. Verdict(cu) = "NotImplemented"
      BY <2>1 DEF Verdict, Unsupported
    <2> QED BY <2>1, <2>2, ThrownVerdict
  <1>2. CASE StartMain
    <2>1. /\ stage = "toplevel" /\ ~Unsupported /\ stage' = "decls"
          /\ UNCHANGED <<cu, decl, pascal_scopes>>
      BY <1>2 DEF StartMain
    <2>2. decl.at = 1 /\ decl.name = 0 /\ InnerScope = EmptyScope /\ cu \in Units
      <3>1. decl.at = 1 /\ decl.name = 0 /\ pascal_scopes = <<BuiltinScope, EmptyScope>>
        BY <2>1 DEF VerdictInv, NothingDeclared
      <3>2. Len(pascal_scopes) = 2 /\ pascal_scopes[2] = EmptyScope
        BY <3>1
      <3> QED BY <3>1, <3>2 DEF InnerScope, IInv, TypeOK
    <2>3. \A p \in NamePlaces(cu) : ~Passed(p)
      <3> SUFFICES ASSUME NEW p \in NamePlaces(cu)
                   PROVE  ~Passed(p)
        OBVIOUS
      <3>1. PICK e \in 1..Len(VarDecls(cu)), k \in Nat \ {0} :
              p[1] = e /\ p[2] = k /\ e \in Nat
        BY <2>2, Places
      <3> QED BY <2>2, <3>1 DEF Passed, Before
    <2>4. \A e \in 1..Len(VarDecls(cu)) : ~Passed(<<e, 0>>)
      BY <2>2, DeclCounts DEF Passed, Before
    <2>5. \A q \in DeclProblems(cu) : ~Passed(q[1])
      BY <2>2, <2>3, <2>4, Problems
    <2>6. DOMAIN InnerScope = {}
      BY <2>2 DEF EmptyScope
    <2>7. DeclsSoFar
      BY <2>1, <2>2, <2>3, <2>5, <2>6 DEF DeclsSoFar
    <2>8. DeclsSoFar'
      BY <2>1, <2>7 DEF DeclsSoFar, Passed, InnerScope, Unsupported
    <2> QED BY <2>1, <2>8 DEF VerdictInv, Terminal, Exceptions
  <1>3. CASE ResolveType
    BY <1>3, ResolveTypeVerdict
  <1>4. CASE RejectName
    BY <1>4, RejectNameVerdict
  <1>5. CASE DeclareName
    BY <1>5, DeclareNameVerdict
  <1>6. CASE StartBody
    BY <1>6, StartBodyVerdict
  <1> QED BY <1>1, <1>2, <1>3, <1>4, <1>5, <1>6 DEF Declarations

-----------------------------------------------------------------------------
(* The statements: types, parts and the call stack.                        *)

\* The static semantics of the program, with the variables as declared.
LEMMA NodeTypes ==
  ASSUME IInv, DeclsDone
  PROVE  /\ NodeType \in [Node -> Verdicts]
         /\ \A n \in Node : NodeType[n] = TypeOf(n, VarTypes(cu), NodeType)
         /\ \A x : IsVariable(x) <=> x \in DOMAIN VarTypes(cu)
         /\ \A x \in DOMAIN VarTypes(cu) :
              lookup_decl(x).type = VarTypes(cu)[x] /\ VarTypes(cu)[x] \in BaseType
PROOF
  <1>1. /\ DOMAIN InnerScope = DOMAIN VarTypes(cu)
        /\ \A x \in DOMAIN InnerScope :
             InnerScope[x].item = "var" /\ InnerScope[x].type = VarTypes(cu)[x]
    BY DEF DeclsDone
  <1>2. \A x : IsVariable(x) <=> x \in DOMAIN VarTypes(cu)
    <2> TAKE x
    <2>1. CASE x \in DOMAIN InnerScope
      BY <1>1, <2>1, Meaning DEF IsVariable
    <2>2. CASE x \notin DOMAIN InnerScope
      BY <1>1, <2>2, Meaning DEF IsVariable
    <2> QED BY <2>1, <2>2
  <1>3. ASSUME NEW x \in DOMAIN VarTypes(cu)
        PROVE  lookup_decl(x).type = VarTypes(cu)[x] /\ VarTypes(cu)[x] \in BaseType
    <2>1. IsVariable(x)
      BY <1>2, <1>3
    <2>2. lookup_decl(x) = InnerScope[x] /\ lookup_decl(x).type \in TypeKind
      BY <2>1, LookupFacts
    <2>3. TypeKind = BaseType
      BY DEF TypeKind, BaseType
    <2> QED BY <1>1, <1>3, <2>2, <2>3
  <1>4. VarTypes(cu) \in [DOMAIN VarTypes(cu) -> BaseType]
    <2>1. VarTypes(cu) = [x \in DOMAIN VarTypes(cu) |-> VarTypes(cu)[x]]
      BY DEF VarTypes
    <2> QED BY <1>3, <2>1
  <1>5. /\ NodeType \in [Node -> Verdicts]
        /\ \A n \in Node : NodeType[n] = TypeOf(n, VarTypes(cu), NodeType)
    BY <1>4, StaticEquations DEF NodeType
  <1> QED BY <1>2, <1>3, <1>5

\* What an expression is made of are expressions.
LEMMA PartsAreExpressions ==
  ASSUME NEW n \in Node
  PROVE  /\ n.kind = "Assignment" => n.expr.kind \in ExprKinds
         /\ n.kind = "ProcCall" => \A k \in 1..Len(n.params) : n.params[k].kind \in ExprKinds
         /\ n.kind \in {"Paren", "Negation"} => n.inner.kind \in ExprKinds
         /\ n.kind \in ChainKinds =>
              /\ n.start.kind \in ExprKinds
              /\ \A k \in 1..Len(n.ops) : n.ops[k].rhs.kind \in ExprKinds
PROOF
  <1>1. /\ \A m \in Expr \cup SimpleExpr \cup Term \cup Factor : m.kind \in ExprKinds
        /\ Expr \cup SimpleExpr \cup Term \cup Factor \subseteq Node
    BY DEF Expr, SimpleExpr, Term, Factor, Of, ExprKinds, ChainKinds
  <1>2. CASE n.kind = "Assignment"
    <2>1. n \in [kind : {"Assignment"}, target : Designator, expr : Expr]
      BY <1>2, ShapeOfKind DEF IsStmt, StmtKinds
    <2> QED BY <1>1, <1>2, <2>1 DEF ChainKinds
  <1>3. CASE n.kind = "ProcCall"
    <2>1. n \in [kind : {"ProcCall"}, proc : Ident, params : Seq(Expr)]
      BY <1>3, ShapeOfKind DEF IsStmt, StmtKinds
    <2>2. \A k \in 1..Len(n.params) : n.params[k] \in Expr
      BY <2>1, SeqElements
    <2> QED BY <1>1, <1>3, <2>2 DEF ChainKinds
  <1>4. CASE n.kind \in {"Paren", "Negation"}
    <2>1. n.inner \in Expr \cup Factor
      BY <1>4, ShapeOfKind DEF IsFactor, FactorKinds, FuncCall
    <2> QED BY <1>1, <1>4, <2>1 DEF ChainKinds
  <1>5. CASE n.kind \in ChainKinds
    <2> DEFINE E == SimpleExpr \cup Term \cup Factor
    <2>1. IsChain(n)
      BY <1>5, ShapeOfKind
    <2>2. n.start \in E
      BY <2>1 DEF IsChain
    <2>3. \E O, S : S \subseteq E /\ n.ops \in Seq([op : O, rhs : S])
      BY <2>1 DEF IsChain
    <2>4. \A k \in 1..Len(n.ops) : n.ops[k].rhs \in E
      <3>1. PICK O, S : S \subseteq E /\ n.ops \in Seq([op : O, rhs : S])
        BY <2>3
      <3>2. \A k \in 1..Len(n.ops) : n.ops[k] \in [op : O, rhs : S]
        BY <3>1, SeqElements
      <3> QED BY <3>1, <3>2
    <2> QED BY <1>1, <1>5, <2>2, <2>4 DEF ChainKinds
  <1> QED BY <1>2, <1>3, <1>4, <1>5

\* The part called last, kind by kind.
LEMMA PartOfKinds ==
  ASSUME NEW f
  PROVE  /\ f.node.kind = "Assignment" => Part(f) = f.node.expr
         /\ f.node.kind = "ProcCall" => Part(f) = f.node.params[1]
         /\ f.node.kind \in {"Paren", "Negation"} => Part(f) = f.node.inner
         /\ f.node.kind = "StmtSeq" => Part(f) = f.node.stmts[f.next]
         /\ f.node.kind \in ChainKinds =>
              Part(f) = IF f.next = 1 THEN f.node.start ELSE f.node.ops[f.next - 1].rhs
PROOF
  BY Zenon DEF Part, ChainKinds

\* What the declarations say is not changed by the walk over the statements.
LEMMA DeclsKept ==
  ASSUME DeclsDone, UNCHANGED <<cu, pascal_scopes>>
  PROVE  DeclsDone' /\ NodeType' = NodeType
PROOF
  BY DEF DeclsDone, NodeType, InnerScope, Unsupported

\* An error at the top is the program's.
LEMMA ErrorSurfaces ==
  ASSUME IInv, StmtsSoFar, frames # <<>>, NodeType[Top.node] \in Errors
  PROVE  Verdict(cu) = NodeType[Top.node]
PROOF
  <1>1. Surfaces(Len(frames))
    BY TopFacts DEF StmtsSoFar
  <1>2. NodeType[Body(cu)] = NodeType[Top.node]
    BY <1>1 DEF Surfaces, Top
  <1> QED BY <1>2 DEF StmtsSoFar, DeclsDone, Verdict, Unsupported, NodeType

\* An error in the node being visited is the program's.
LEMMA ThrownAtTop ==
  ASSUME IInv, StmtsSoFar, frames # <<>>,
         NEW e \in {"NotImplemented", "SemanticProblem", "assert"}, Throw(e),
         NodeType[Top.node] = IF e = "assert" THEN "TypeClash" ELSE e
  PROVE  VerdictInv'
PROOF
  <1>1. NodeType[Top.node] \in Errors
    BY DEF Errors
  <1>2. Verdict(cu) = NodeType[Top.node]
    BY <1>1, ErrorSurfaces
  <1> QED BY <1>2, ThrownVerdict

\* A visit that returns: a statement is right, an expression carries its type.
LEMMA ReturnedVerdict ==
  ASSUME IInv, WalkShape', StmtsSoFar, frames # <<>>, KeepWalk, frames' = Popped,
         IF ret' = NoValue
         THEN Top.node.kind \notin ExprKinds /\ NodeType[Top.node] = "ok"
         ELSE Carries(ret', NodeType[Top.node])
  PROVE  StmtsSoFar'
PROOF
  <1>a. PICK L : L = Len(frames)
    OBVIOUS
  <1>1. /\ DOMAIN frames' = 1..L - 1 /\ DOMAIN frames = 1..L
        /\ L \in Nat \ {0} /\ Len(frames) = L /\ Len(frames') = L - 1
        /\ \A k \in 1..L - 1 : frames'[k] = frames[k]
    BY <1>a, PoppedFrames, TopFacts
  <1>2. DeclsDone' /\ NodeType' = NodeType /\ cu' = cu
    BY DeclsKept DEF StmtsSoFar, KeepWalk
  <1>3. /\ frames[1].node = Body(cu)
        /\ \A k \in 1..L : Surfaces(k) /\ RightSoFar(k) /\ (k < L => Called(k))
    BY <1>1 DEF StmtsSoFar
  <1>4. IF frames' = <<>> THEN NodeType'[Body(cu')] = "ok" ELSE frames'[1].node = Body(cu')
    <2>1. CASE L = 1
      <3>1. Top.node = Body(cu) /\ frames' = <<>>
        BY <1>1, <1>3, <2>1 DEF Top
      <3>2. ret' = NoValue
        BY <3>1 DEF WalkShape
      <3> QED BY <1>2, <3>1, <3>2
    <2>2. CASE L > 1
      <3>1. frames' # <<>> /\ frames'[1] = frames[1]
        BY <1>1, <2>2
      <3> QED BY <1>2, <1>3, <3>1
    <2> QED BY <1>1, <2>1, <2>2
  <1>5. ASSUME NEW k \in 1..L - 1
        PROVE  Surfaces(k)' /\ RightSoFar(k)' /\ (k < L - 1 => Called(k)')
    <2>1. k \in 1..L /\ k < L /\ frames'[k] = frames[k] /\ k \in Int
          /\ (k < L - 1 => frames'[k + 1] = frames[k + 1])
      BY <1>1
    <2>2. Surfaces(k) /\ RightSoFar(k) /\ Called(k)
      BY <1>3, <2>1
    <2>3. Surfaces(k)'
      BY <1>2, <2>1, <2>2 DEF Surfaces
    <2>4. k < L - 1 => Called(k)'
      BY <2>1, <2>2 DEF Called
    <2>5. k = L - 1 => Part(frames[k]) = Top.node
      BY <1>1, <2>1, <2>2 DEF Called, Top
    <2>6. k = L - 1 /\ ret' = NoValue =>
            frames[k].node.kind = "StmtSeq" /\ NodeType[Part(frames[k])] = "ok"
      BY <2>1, <2>2, <2>5 DEF Called, Top
    <2>7. k = L - 1 /\ ret' # NoValue => frames[k].node.kind # "StmtSeq"
      <3>1. k = L - 1 /\ ret' # NoValue => Awaits(frames'[k])
        BY <1>1 DEF WalkShape, Top
      <3> QED BY <2>1, <3>1 DEF Awaits, ChainKinds
    <2>8. \A j \in 1..Len(frames[k].node.stmts) :
            frames[k].node.kind = "StmtSeq" /\ j = frames[k].next /\ k = L - 1 =>
              NodeType[frames[k].node.stmts[j]] = "ok"
      BY <2>6, <2>7, PartOfKinds
    <2>9. frames[k].node.kind \in ChainKinds => Pending(k)' /\ Pending(k)
      <3>1. frames[k].node.kind \in ChainKinds => frames[k].node.kind # "StmtSeq"
        BY DEF ChainKinds
      <3>2. k = L - 1 \/ k < L - 1
        BY <1>1, <2>1
      <3> QED BY <1>1, <2>1, <2>6, <3>1, <3>2 DEF Pending
    <2>10. RightSoFar(k)'
      BY <1>1, <1>2, <2>1, <2>2, <2>8, <2>9 DEF RightSoFar
    <2> QED BY <2>3, <2>4, <2>10
  <1>6. ret' # NoValue => Carries(ret', NodeType'[Part(Top')])
    <2> SUFFICES ASSUME ret' # NoValue
                 PROVE  Carries(ret', NodeType'[Part(Top')])
      OBVIOUS
    <2>1. L > 1 /\ Top' = frames[L - 1]
      BY <1>1 DEF WalkShape, Top
    <2>2. Called(L - 1)
      BY <1>1, <1>3, <2>1
    <2>3. Part(Top') = Top.node
      BY <1>1, <2>1, <2>2 DEF Called, Top
    <2> QED BY <1>2, <2>3
  <1> QED BY <1>1, <1>2, <1>4, <1>5, <1>6 DEF StmtsSoFar

\* A visit that calls another: an error of what it calls is an error of it.
LEMMA CalledVerdict ==
  ASSUME IInv, StmtsSoFar, frames # <<>>, KeepWalk, ret = NoValue, ret' = NoValue,
         NEW n \in Node, NEW acc \in {Top.acc, NoValue}, frames' = Calling(n, acc),
         NEW f, f = [node |-> Top.node, next |-> Top.next + 1, acc |-> acc],
         n = Part(f), Top.node.kind # "StmtSeq" => n.kind \in ExprKinds,
         Top.node.kind = "ProcCall" => Len(Top.node.params) = 1,
         NodeType[n] \in Errors => NodeType[Top.node] = NodeType[n]
  PROVE  StmtsSoFar'
PROOF
  <1>a. PICK L : L = Len(frames)
    OBVIOUS
  <1>0. acc \in Held \cup {NoValue}
    BY TopFacts
  <1>1. /\ DOMAIN frames' = 1..L + 1 /\ DOMAIN frames = 1..L
        /\ L \in Nat \ {0} /\ Len(frames) = L /\ Len(frames') = L + 1
        /\ \A k \in 1..L - 1 : frames'[k] = frames[k]
        /\ frames'[L] = f /\ frames'[L + 1] = Frame(n)
    BY <1>a, <1>0, CallingFrames, TopFacts
  <1>2. DeclsDone' /\ NodeType' = NodeType /\ cu' = cu
    BY DeclsKept DEF StmtsSoFar, KeepWalk
  <1>3. /\ frames[1].node = Body(cu)
        /\ \A k \in 1..L : Surfaces(k) /\ RightSoFar(k) /\ (k < L => Called(k))
    BY <1>1 DEF StmtsSoFar
  <1>4. /\ f.node = Top.node /\ f.next = Top.next + 1 /\ f.acc = acc /\ Top = frames[L]
        /\ Top.next \in Nat
    BY <1>a, TopFacts DEF Top
  <1>5. \A k \in 1..L : frames'[k].node = frames[k].node
    BY <1>1, <1>4
  <1>6. frames' # <<>> /\ frames'[1].node = Body(cu')
    BY <1>1, <1>2, <1>3, <1>5
  <1>7. ASSUME NEW k \in 1..L - 1
        PROVE  Surfaces(k)' /\ RightSoFar(k)' /\ Called(k)'
    <2>1. /\ k \in 1..L /\ k < L /\ frames'[k] = frames[k]
          /\ k + 1 \in 1..L /\ frames'[k + 1].node = frames[k + 1].node
      BY <1>1, <1>5
    <2>2. Surfaces(k) /\ RightSoFar(k) /\ Called(k)
      BY <1>3, <2>1
    <2>3. Pending(k) /\ Pending(k)' /\ k # L /\ k # L + 1
      BY <1>1, <2>1 DEF Pending
    <2>4. Surfaces(k)' /\ Called(k)'
      BY <1>2, <2>1, <2>2 DEF Surfaces, Called
    <2>5. RightSoFar(k)'
      <3>1. k # Len(frames) /\ k # Len(frames')
        BY <1>1, <2>3
      <3> QED BY <1>2, <2>1, <2>2, <2>3, <3>1 DEF RightSoFar
    <2> QED BY <2>4, <2>5
  <1>8. Surfaces(L)' /\ RightSoFar(L)' /\ Called(L)'
    <2>1. Surfaces(L) /\ RightSoFar(L)
      BY <1>1, <1>3
    <2>2. ~Pending(L) /\ Pending(L)'
      BY <1>1 DEF Pending
    <2>3. Surfaces(L)'
      BY <1>1, <1>2, <1>4, <2>1 DEF Surfaces
    <2>4. Called(L)'
      BY <1>1, <1>4 DEF Called, Frame
    <2>5. Top.node.kind = "StmtSeq" =>
            \A j \in 1..Len(Top.node.stmts) :
              j < f.next \/ (j = f.next /\ L = L + 1) => NodeType[Top.node.stmts[j]] = "ok"
      BY <1>1, <1>4, <2>1 DEF RightSoFar
    <2>6. Top.node.kind \in ChainKinds /\ acc # NoValue =>
            Carries(acc, OfChain(Top.node, NodeType)[f.next - 2])
      <3>1. f.next - 2 = Top.next - 1
        BY <1>4
      <3> QED BY <1>4, <2>1, <2>2, <3>1 DEF RightSoFar
    <2>7. RightSoFar(L)'
      <3>1. frames'[L] = f /\ Len(frames') = L + 1
        BY <1>1
      <3>2. Top.node.kind = "ProcCall" => Len(Top.node.params) = 1
        OBVIOUS
      <3>3. /\ frames'[L].node = Top.node /\ frames'[L].next = f.next
            /\ frames'[L].acc = acc /\ NodeType' = NodeType
        BY <1>2, <1>4, <3>1, Zenon
      <3>4. Top.node.kind = "StmtSeq" =>
              \A j \in 1..Len(Top.node.stmts) :
                j < f.next \/ (j = f.next /\ L = Len(frames')) =>
                  NodeType[Top.node.stmts[j]] = "ok"
        BY <2>5, <3>1, Zenon
      <3>5. Top.node.kind \in ChainKinds /\ acc # NoValue =>
              Carries(acc, OfChain(Top.node, NodeType)
                             [IF Pending(L)' THEN f.next - 2 ELSE f.next - 1])
        BY <2>2, <2>6, Zenon
      <3> QED BY <3>2, <3>3, <3>4, <3>5 DEF RightSoFar
    <2> QED BY <2>3, <2>4, <2>7
  <1>9. Surfaces(L + 1)' /\ RightSoFar(L + 1)'
    <2>1. Frame(n).node = n /\ Frame(n).next = 0 /\ Frame(n).acc = NoValue
      BY DEF Frame
    <2>2. Surfaces(L)
      BY <1>1, <1>3
    <2>3. NodeType[n] \in Errors => NodeType[Body(cu)] = NodeType[n]
      BY <1>4, <2>2 DEF Surfaces
    <2>4. \A j \in Int : j > 0 => ~(j < 0) /\ j # 0
      OBVIOUS
    <2> QED BY <1>1, <1>2, <2>1, <2>3, <2>4 DEF Surfaces, RightSoFar
  <1>10. \A k \in 1..L + 1 : Surfaces(k)' /\ RightSoFar(k)' /\ (k < L + 1 => Called(k)')
    <2>1. \A k \in 1..L + 1 : k \in 1..L - 1 \/ k = L \/ k = L + 1
      BY <1>1
    <2>2. ~(L + 1 < L + 1)
      BY <1>1
    <2> QED BY <1>7, <1>8, <1>9, <2>1, <2>2
  <1> QED BY <1>1, <1>2, <1>6, <1>10 DEF StmtsSoFar

\* A loop that takes an operand.
LEMMA TakenVerdict ==
  ASSUME IInv, StmtsSoFar, frames # <<>>, KeepWalk, ret' = NoValue,
         NEW v \in Operand, frames' = [frames EXCEPT ![Len(frames)].acc = v],
         Top.node.kind \in ChainKinds,
         Carries(v, OfChain(Top.node, NodeType)[Top.next - 1])
  PROVE  StmtsSoFar'
PROOF
  <1>a. PICK L : L = Len(frames)
    OBVIOUS
  <1>1. /\ DOMAIN frames' = 1..L /\ DOMAIN frames = 1..L
        /\ L \in Nat \ {0} /\ Len(frames) = L /\ Len(frames') = L
        /\ \A k \in 1..L - 1 : frames'[k] = frames[k]
        /\ frames'[L].node = Top.node /\ frames'[L].next = Top.next /\ frames'[L].acc = v
        /\ Top = frames[L]
    BY <1>a, TakingFrames, TopFacts DEF Top
  <1>2. DeclsDone' /\ NodeType' = NodeType /\ cu' = cu
    BY DeclsKept DEF StmtsSoFar, KeepWalk
  <1>3. /\ frames[1].node = Body(cu)
        /\ \A k \in 1..L : Surfaces(k) /\ RightSoFar(k) /\ (k < L => Called(k))
    BY <1>1 DEF StmtsSoFar
  <1>4. \A k \in 1..L : frames'[k].node = frames[k].node
    BY <1>1
  <1>5. frames' # <<>> /\ frames'[1].node = Body(cu')
    BY <1>1, <1>2, <1>3, <1>4
  <1>6. ASSUME NEW k \in 1..L - 1
        PROVE  Surfaces(k)' /\ RightSoFar(k)' /\ Called(k)'
    <2>1. /\ k \in 1..L /\ k < L /\ frames'[k] = frames[k] /\ k # L
          /\ k + 1 \in 1..L /\ frames'[k + 1].node = frames[k + 1].node
      BY <1>1, <1>4
    <2>2. Surfaces(k) /\ RightSoFar(k) /\ Called(k)
      BY <1>3, <2>1
    <2>3. Pending(k) /\ Pending(k)'
      BY <1>1, <2>1 DEF Pending
    <2> QED BY <1>1, <1>2, <2>1, <2>2, <2>3 DEF Surfaces, Called, RightSoFar
  <1>7. Surfaces(L)' /\ RightSoFar(L)'
    <2>1. Surfaces(L) /\ ~Pending(L)'
      BY <1>1, <1>3 DEF Pending
    <2>2. Top.node.kind # "StmtSeq" /\ Top.node.kind # "ProcCall"
      BY DEF ChainKinds
    <2> QED BY <1>1, <1>2, <2>1, <2>2 DEF Surfaces, RightSoFar
  <1>8. \A k \in 1..L : Surfaces(k)' /\ RightSoFar(k)' /\ (k < L => Called(k)')
    <2>1. \A k \in 1..L : k \in 1..L - 1 \/ (k = L /\ ~(k < L))
      BY <1>1
    <2> QED BY <1>6, <1>7, <2>1
  <1> QED BY <1>1, <1>2, <1>5, <1>8 DEF StmtsSoFar

-----------------------------------------------------------------------------
(* The types of the operators, in the semantics and in LLVM.               *)

\* The types of the language are those of LLVM, one for one.
LEMMA TypesMatch ==
  ASSUME NEW s, NEW t, NEW l, NEW r, Carries(l, s), Carries(r, t)
  PROVE  /\ l.ty = r.ty <=> s = t
         /\ l.ty \in IntTypes <=> s # "String"
         /\ l.ty = "i1" <=> s = "Boolean"
         /\ l.ty = "i32" <=> s = "Integer"
         /\ s \notin Errors /\ s # "ok"
PROOF
  <1>1. /\ LlvmType("Integer") = "i32" /\ LlvmType("Char") = "i8" /\ LlvmType("String") = "ptr"
    BY DEF LlvmType
  <1> QED BY <1>1 DEF Carries, IrType, BaseType, IntTypes, Errors

\* An operator other than "in" and "/": LLVM accepts the operands which the
\* semantics accepts, and its result has the type the semantics says.
LEMMA OperatorTypes ==
  ASSUME NEW op \in (MultOp \cup AddOp \cup RelOp) \ {"In", "RealDiv"},
         NEW s, NEW t, NEW l, NEW r, Carries(l, s), Carries(r, t)
  PROVE  IF WellTyped(Opcode(op), Operands(op, l, r))
         THEN Carries(BuiltVal(Opcode(op), Operands(op, l, r)), ResultOf(op, s, t))
         ELSE ResultOf(op, s, t) = "TypeClash"
PROOF
  <1> DEFINE args == Operands(op, l, r)
             code == Opcode(op)
  <1>1. BuiltVal(code, args).ty = BuiltType(code, args)
    BY DEF BuiltVal, Const, Reg
  <1>2. /\ l.ty = r.ty <=> s = t
        /\ l.ty \in IntTypes <=> s # "String"
        /\ l.ty = "i1" <=> s = "Boolean"
    BY TypesMatch
  <1>3. Const(r.ty, 0).ty = r.ty /\ Const(r.ty, -1).ty = r.ty
    BY DEF Const
  <1>4. CASE op \in {"And", "Or"}
    <2>1. code = "select"
      BY <1>4, Zenon DEF Opcode
    <2>2. /\ \A k \in 1..3 : args[k].ty \in {l.ty, r.ty}
          /\ args[1].ty = l.ty /\ args[2].ty = r.ty
      BY <1>3, <1>4 DEF Operands
    <2>3. ResultOf(op, s, t) = IF s = t /\ s = "Boolean" THEN "Boolean" ELSE "TypeClash"
      BY <1>4, Zenon DEF ResultOf, RelOp
    <2>4. WellTyped(code, args) <=> l.ty = "i1" /\ r.ty = "i1"
      BY <2>1, <2>2 DEF WellTyped, ArithOps, CmpOps, DivOps
    <2>5. BuiltType(code, args) = r.ty
      BY <2>1, <2>2 DEF BuiltType, CmpOps
    <2> HIDE DEF args, code
    <2> QED BY <1>1, <1>2, <2>3, <2>4, <2>5 DEF Carries, IrType, args, code
  <1>5. CASE op \in RelOp
    <2>1. code \in CmpOps
      BY <1>5, Zenon DEF Opcode, CmpOps, RelOp
    <2>2. args[1] = l /\ args[2] = r
      BY <1>5 DEF Operands, RelOp
    <2>3. ResultOf(op, s, t) = IF s = t THEN "Boolean" ELSE "TypeClash"
      BY <1>5, Zenon DEF ResultOf, RelOp
    <2>4. WellTyped(code, args) <=> l.ty = r.ty
      BY <2>1, <2>2 DEF WellTyped, ArithOps, CmpOps, DivOps
    <2>5. BuiltType(code, args) = "i1"
      BY <2>1 DEF BuiltType
    <2> HIDE DEF args, code
    <2> QED BY <1>1, <1>2, <2>3, <2>4, <2>5 DEF Carries, IrType, args, code
  <1>6. CASE op \in {"Multiply", "IntDiv", "Modulo", "Plus", "Minus"}
    <2>1. code \in ArithOps
      BY <1>6, Zenon DEF Opcode, ArithOps, DivOps
    <2>2. args[1] = l /\ args[2] = r
      BY <1>6 DEF Operands
    <2>3. ResultOf(op, s, t) = IF s = t /\ s # "String" THEN s ELSE "TypeClash"
      BY <1>6, Zenon DEF ResultOf, RelOp
    <2>4. WellTyped(code, args) <=> l.ty = r.ty /\ l.ty \in IntTypes
      BY <2>1, <2>2 DEF WellTyped, ArithOps, CmpOps, DivOps
    <2>5. BuiltType(code, args) = l.ty
      BY <2>1, <2>2 DEF BuiltType, ArithOps, CmpOps, DivOps
    <2> HIDE DEF args, code
    <2> QED BY <1>1, <1>2, <2>3, <2>4, <2>5 DEF Carries, IrType, args, code
  <1>7. op \in {"And", "Or"} \cup RelOp \cup {"Multiply", "IntDiv", "Modulo", "Plus", "Minus"}
    BY DEF MultOp, AddOp
  <1> QED BY <1>4, <1>5, <1>6, <1>7

-----------------------------------------------------------------------------
(* The steps of the statements.                                            *)

\* The context of a step of the walk.
Walking ==
  /\ IInv /\ IInv' /\ WalkShape /\ WalkShape' /\ WriteIntIsThere
  /\ StmtsSoFar /\ ClashesShow

\* The frame at the top, its node and its type.
LEMMA TopNow ==
  ASSUME Walking, frames # <<>>, NEW n, n = Top.node
  PROVE  /\ n \in Node /\ NodeType \in [Node -> Verdicts]
         /\ NodeType[n] = TypeOf(n, VarTypes(cu), NodeType)
         /\ RightSoFar(Len(frames)) /\ Top = frames[Len(frames)]
         /\ Pending(Len(frames)) <=> ret # NoValue
         /\ ret # NoValue => Awaits(Top) /\ Carries(ret, NodeType[Part(Top)])
         /\ ~Awaits(Top) => ret = NoValue
         /\ Top.next \in Nat /\ HoldsLeft(Top)
PROOF
  <1>1. /\ n \in Node /\ Len(frames) \in DOMAIN frames /\ Top.next \in Nat /\ HoldsLeft(Top)
        /\ Len(frames) \in Nat
    BY TopFacts DEF Walking
  <1>2. /\ NodeType \in [Node -> Verdicts]
        /\ NodeType[n] = TypeOf(n, VarTypes(cu), NodeType)
    BY <1>1, NodeTypes DEF Walking, StmtsSoFar
  <1>3. RightSoFar(Len(frames))
    BY <1>1 DEF Walking, StmtsSoFar
  <1>4. Pending(Len(frames)) <=> ret # NoValue
    BY <1>1 DEF Pending
  <1>5. ret # NoValue => Awaits(Top) /\ Carries(ret, NodeType[Part(Top)])
    BY DEF Walking, WalkShape, StmtsSoFar
  <1> QED BY <1>1, <1>2, <1>3, <1>4, <1>5 DEF Top

\* A clash of types at the top is one that shows.
LEMMA ClashAtTop ==
  ASSUME Walking, frames # <<>>, NodeType[Top.node] = "TypeClash"
  PROVE  LlvmAsserts
PROOF
  <1>1. NodeType[Top.node] \in Errors
    BY DEF Errors
  <1>2. Verdict(cu) = "TypeClash"
    BY <1>1, ErrorSurfaces DEF Walking
  <1> QED BY <1>2 DEF Walking, ClashesShow

\* A sequence of statements.
LEMMA StmtSeqVerdict ==
  ASSUME Walking, VisitStmtSeq
  PROVE  StmtsSoFar'
PROOF
  <1> DEFINE n == Top.node
  <1>1. /\ stage = "stmts" /\ frames # <<>> /\ n.kind = "StmtSeq" /\ KeepWalk /\ ret' = ret
        /\ IF Top.next < Len(n.stmts) THEN frames' = Calling(n.stmts[Top.next + 1], NoValue)
           ELSE frames' = Popped
    BY DEF VisitStmtSeq, At
  <1>2. ret = NoValue
    BY <1>1, TopNow DEF Awaits, ChainKinds
  <1>3. /\ n \in Node /\ Top.next \in Nat /\ Len(n.stmts) \in Nat
        /\ \A k \in 1..Len(n.stmts) : n.stmts[k] \in Node
        /\ NodeType \in [Node -> Verdicts]
    BY <1>1, TopNow, StatementNodes
  <1>4. \A j \in 1..Len(n.stmts) : j <= Top.next => NodeType[n.stmts[j]] = "ok"
    <2>1. RightSoFar(Len(frames)) /\ Top = frames[Len(frames)]
      BY <1>1, TopNow
    <2>2. \A j \in 1..Len(n.stmts) : j <= Top.next => j < Top.next \/ j = Top.next
      BY <1>3
    <2> QED BY <1>1, <2>1, <2>2 DEF RightSoFar
  <1>5. NodeType[n] = IF Failing(n, NodeType) = {} THEN "ok"
                      ELSE NodeType[n.stmts[FirstFailing(n, NodeType)]]
    BY <1>1, TopNow, TypeOfKinds
  <1>6. CASE Top.next < Len(n.stmts)
    <2> DEFINE i == Top.next + 1
               m == n.stmts[i]
               f == [node |-> n, next |-> i, acc |-> NoValue]
    <2>1. i \in 1..Len(n.stmts) /\ m \in Node
      BY <1>3, <1>6
    <2>2. Part(f) = m
      BY <1>1, PartOfKinds
    <2>3. ASSUME NodeType[m] \in Errors
          PROVE  NodeType[n] = NodeType[m]
      <3>1. NodeType[m] # "ok"
        BY <2>3 DEF Errors
      <3>2. i \in Failing(n, NodeType)
        BY <1>1, <1>3, <2>1, <3>1, ListsAreSequences DEF Failing
      <3>3. /\ FirstFailing(n, NodeType) \in 1..Len(n.stmts)
            /\ NodeType[n.stmts[FirstFailing(n, NodeType)]] # "ok"
            /\ FirstFailing(n, NodeType) <= i
        BY <1>1, <1>3, <2>1, <3>1, <3>2, FirstFailingFacts
      <3>4. FirstFailing(n, NodeType) = i
        BY <1>3, <1>4, <3>3
      <3> QED BY <1>5, <3>2, <3>4
    <2>4. n.kind # "ProcCall"
      BY <1>1
    <2> QED BY <1>1, <1>2, <1>6, <2>1, <2>2, <2>3, <2>4, CalledVerdict DEF Walking
  <1>7. CASE ~(Top.next < Len(n.stmts))
    <2>1. Failing(n, NodeType) = {}
      BY <1>1, <1>3, <1>4, <1>7, ListsAreSequences DEF Failing
    <2>2. n.kind \notin ExprKinds
      BY <1>1 DEF ExprKinds, FactorKinds, ChainKinds
    <2> QED BY <1>1, <1>2, <1>5, <1>7, <2>1, <2>2, ReturnedVerdict DEF Walking
  <1> QED BY <1>6, <1>7

\* The statements that the compiler passes over, of which nothing is said.
LEMMA IgnoredVerdict ==
  ASSUME Walking, VisitIgnored
  PROVE  StmtsSoFar'
PROOF
  <1>1. /\ stage = "stmts" /\ frames # <<>> /\ Top.node.kind \in IgnoredKinds /\ KeepWalk
        /\ ret' = ret /\ frames' = Popped
    BY DEF VisitIgnored, At
  <1>2. ret = NoValue
    BY <1>1, TopNow DEF Awaits, ChainKinds, IgnoredKinds
  <1>3. NodeType[Top.node] = "ok"
    BY <1>1, TopNow, TypeOfKinds DEF IgnoredKinds, ChainKinds
  <1>4. Top.node.kind \notin ExprKinds
    BY <1>1 DEF IgnoredKinds, ExprKinds, FactorKinds, ChainKinds
  <1> QED BY <1>1, <1>2, <1>3, <1>4, ReturnedVerdict DEF Walking

\* An assignment whose right-hand side is called.
LEMMA AssignmentEvalVerdict ==
  ASSUME Walking, AssignmentEval
  PROVE  StmtsSoFar'
PROOF
  <1> DEFINE n == Top.node
             f == [node |-> n, next |-> Top.next + 1, acc |-> NoValue]
  <1>1. /\ stage = "stmts" /\ frames # <<>> /\ n.kind = "Assignment" /\ KeepWalk /\ ret' = ret
        /\ Top.next = 0 /\ frames' = Calling(n.expr, NoValue)
    BY DEF AssignmentEval, At
  <1>2. ret = NoValue
    BY <1>1, TopNow DEF Awaits
  <1>3. n \in Node /\ n.expr \in Node /\ n.expr.kind \in ExprKinds
    BY <1>1, TopNow, StatementNodes, PartsAreExpressions
  <1>4. Part(f) = n.expr
    BY <1>1, PartOfKinds
  <1>5. NodeType[n.expr] \in Errors => NodeType[n] = NodeType[n.expr]
    BY <1>1, TopNow, TypeOfKinds
  <1> QED BY <1>1, <1>2, <1>3, <1>4, <1>5, CalledVerdict DEF Walking

\* An assignment that is completed or refused.
LEMMA AssignmentStoreVerdict ==
  ASSUME Walking, AssignmentStore
  PROVE  VerdictInv'
PROOF
  <1> DEFINE n == Top.node
             x == n.target.ident
  <1>1. stage = "stmts" /\ frames # <<>> /\ n.kind = "Assignment" /\ ret # NoValue
    BY DEF AssignmentStore, At
  <1>2. Part(Top) = n.expr /\ Carries(ret, NodeType[n.expr])
    BY <1>1, TopNow, PartOfKinds
  <1>3. NodeType[n.expr] \notin Errors
    BY <1>2, TypesMatch
  <1>4. NodeType[n] = IF x \in DOMAIN VarTypes(cu) THEN "ok" ELSE "SemanticProblem"
    BY <1>1, <1>3, TopNow, TypeOfKinds
  <1>5. IsVariable(x) <=> x \in DOMAIN VarTypes(cu)
    BY NodeTypes DEF Walking, StmtsSoFar
  <1>6. CASE IsVariable(x)
    <2>1. KeepWalk /\ frames' = Popped /\ ret' = NoValue
      BY <1>6 DEF AssignmentStore, Return
    <2>2. n.kind \notin ExprKinds
      BY <1>1 DEF ExprKinds, FactorKinds, ChainKinds
    <2>3. StmtsSoFar'
      BY <1>1, <1>4, <1>5, <1>6, <2>1, <2>2, ReturnedVerdict DEF Walking
    <2> QED BY <1>1, <2>1, <2>3 DEF VerdictInv, KeepWalk, Terminal, Exceptions
  <1>7. CASE ~IsVariable(x)
    <2>1. Throw("SemanticProblem")
      BY <1>7 DEF AssignmentStore
    <2> QED BY <1>1, <1>4, <1>5, <1>7, <2>1, ThrownAtTop DEF Walking
  <1> QED BY <1>6, <1>7

\* A call of write_int whose argument is called.
LEMMA ProcCallEvalVerdict ==
  ASSUME Walking, ProcCallEval
  PROVE  StmtsSoFar'
PROOF
  <1> DEFINE n == Top.node
             f == [node |-> n, next |-> Top.next + 1, acc |-> NoValue]
  <1>1. /\ stage = "stmts" /\ frames # <<>> /\ n.kind = "ProcCall" /\ KeepWalk /\ ret' = ret
        /\ Top.next = 0 /\ n.proc = "write_int" /\ Len(n.params) = 1
        /\ frames' = Calling(n.params[1], NoValue)
    BY DEF ProcCallEval, At
  <1>2. ret = NoValue
    BY <1>1, TopNow DEF Awaits
  <1>3. n \in Node /\ n.params[1] \in Node /\ n.params[1].kind \in ExprKinds
    BY <1>1, TopNow, StatementNodes, PartsAreExpressions
  <1>4. Part(f) = n.params[1]
    BY <1>1, PartOfKinds
  <1>5. NodeType[n.params[1]] \in Errors => NodeType[n] = NodeType[n.params[1]]
    BY <1>1, TopNow, TypeOfKinds DEF OfCall
  <1> QED BY <1>1, <1>2, <1>3, <1>4, <1>5, CalledVerdict DEF Walking

\* A call that is refused for its name or its number of arguments.
LEMMA ProcCallRejectVerdict ==
  ASSUME Walking, ProcCallReject
  PROVE  VerdictInv'
PROOF
  <1> DEFINE n == Top.node
  <1>1. /\ stage = "stmts" /\ frames # <<>> /\ n.kind = "ProcCall"
        /\ IF n.proc \in {"write_int", "write_str"}
           THEN Len(n.params) # 1 /\ Throw("SemanticProblem")
           ELSE Throw("NotImplemented")
    BY DEF ProcCallReject, At
  <1>2. NodeType[n] = OfCall(n, NodeType)
    BY <1>1, TopNow, TypeOfKinds
  <1>3. CASE n.proc \in {"write_int", "write_str"}
    <2>1. NodeType[n] = "SemanticProblem" /\ Throw("SemanticProblem")
      BY <1>1, <1>2, <1>3 DEF OfCall
    <2> QED BY <1>1, <2>1, ThrownAtTop DEF Walking
  <1>4. CASE n.proc \notin {"write_int", "write_str"}
    <2>1. NodeType[n] = "NotImplemented" /\ Throw("NotImplemented")
      BY <1>1, <1>2, <1>4 DEF OfCall
    <2> QED BY <1>1, <2>1, ThrownAtTop DEF Walking
  <1> QED BY <1>3, <1>4

\* The argument of write_int is accepted exactly if it is an integer.
LEMMA ProcCallTypes ==
  ASSUME Walking, ProcCallEmit, NEW n, n = Top.node
  PROVE  /\ NodeType[n.params[1]] \notin Errors
         /\ NodeType[n] = IF ret.ty = "i32" THEN "ok" ELSE "TypeClash"
         /\ Accepted("call", <<ret>>) <=> ret.ty = "i32"
PROOF
  <1> DEFINE arg == n.params[1]
  <1>1. stage = "stmts" /\ frames # <<>> /\ n.kind = "ProcCall" /\ ret # NoValue
    BY DEF ProcCallEmit, At
  <1>2. Part(Top) = arg /\ Carries(ret, NodeType[arg])
    BY <1>1, TopNow, PartOfKinds
  <1>3. n.proc = "write_int" /\ Len(n.params) = 1
    <2>1. Awaits(Top) /\ RightSoFar(Len(frames)) /\ Top = frames[Len(frames)]
      BY <1>1, TopNow
    <2> QED BY <1>1, <2>1 DEF Awaits, RightSoFar
  <1>4. NodeType[arg] \notin Errors /\ (ret.ty = "i32" <=> NodeType[arg] = "Integer")
    BY <1>2, TypesMatch
  <1>5. NodeType[n] = IF ret.ty = "i32" THEN "ok" ELSE "TypeClash"
    <2>1. NodeType[n] = OfCall(n, NodeType)
      BY <1>1, TopNow, TypeOfKinds
    <2> QED BY <1>3, <1>4, <2>1 DEF OfCall
  <1>6. WellTyped("call", <<ret>>) <=> ret.ty = "i32"
    BY DEF WellTyped, ArithOps, CmpOps, DivOps
  <1>7. ret.ty # "i32" => LlvmAsserts
    BY <1>1, <1>5, ClashAtTop
  <1> QED BY <1>4, <1>5, <1>6, <1>7 DEF Accepted

\* A call of write_int that is emitted, or on which LLVM aborts.
LEMMA ProcCallEmitVerdict ==
  ASSUME Walking, ProcCallEmit
  PROVE  VerdictInv'
PROOF
  <1> DEFINE n == Top.node
             arg == n.params[1]
  <1>1. stage = "stmts" /\ frames # <<>> /\ n.kind = "ProcCall" /\ ret # NoValue
    BY DEF ProcCallEmit, At
  <1>2. NodeType[arg] \notin Errors /\ NodeType[n] = IF ret.ty = "i32" THEN "ok" ELSE "TypeClash"
    BY ProcCallTypes
  <1>3. Accepted("call", <<ret>>) <=> ret.ty = "i32"
    BY ProcCallTypes
  <1>4. "write_int" \in functions
    BY <1>1 DEF Walking, WriteIntIsThere
  <1>5. CASE ret.ty = "i32"
    <2>1. KeepWalk /\ frames' = Popped /\ ret' = NoValue
      BY <1>3, <1>4, <1>5 DEF ProcCallEmit, Return
    <2>2. n.kind \notin ExprKinds
      BY <1>1 DEF ExprKinds, FactorKinds, ChainKinds
    <2>3. StmtsSoFar'
      BY <1>1, <1>2, <1>5, <2>1, <2>2, ReturnedVerdict DEF Walking
    <2> QED BY <1>1, <2>1, <2>3 DEF VerdictInv, KeepWalk, Terminal, Exceptions
  <1>6. CASE ret.ty # "i32"
    <2>1. Throw("assert")
      BY <1>3, <1>4, <1>6 DEF ProcCallEmit
    <2> QED BY <1>1, <1>2, <1>6, <2>1, ThrownAtTop DEF Walking
  <1> QED BY <1>5, <1>6

\* A call of write_str.
LEMMA WriteStrVerdict ==
  ASSUME Walking, VisitWriteStr
  PROVE  StmtsSoFar'
PROOF
  <1> DEFINE n == Top.node
  <1>1. /\ stage = "stmts" /\ frames # <<>> /\ n.kind = "ProcCall" /\ KeepWalk /\ ret' = ret
        /\ n.proc = "write_str" /\ Len(n.params) = 1 /\ frames' = Popped
    BY DEF VisitWriteStr, At
  <1>2. ret = NoValue
    BY <1>1, TopNow DEF Awaits
  <1>3. NodeType[n] = "ok"
    BY <1>1, TopNow, TypeOfKinds DEF OfCall
  <1>4. n.kind \notin ExprKinds
    BY <1>1 DEF ExprKinds, FactorKinds, ChainKinds
  <1> QED BY <1>1, <1>2, <1>3, <1>4, ReturnedVerdict DEF Walking

\* The end of the walk.
LEMMA FinishVerdict ==
  ASSUME Walking, Finish
  PROVE  VerdictInv'
PROOF
  <1>1. frames = <<>> /\ stage' = "lowered" /\ cu' = cu
    BY DEF Finish
  <1>2. NodeType[Body(cu)] = "ok" /\ DeclsDone
    BY <1>1 DEF Walking, StmtsSoFar
  <1>3. Verdict(cu) = "ok"
    BY <1>2 DEF Verdict, DeclsDone, Unsupported, NodeType
  <1>4. VerdictShown' = "ok"
    BY <1>1, Zenon DEF VerdictShown
  <1> QED BY <1>1, <1>3, <1>4 DEF VerdictInv

\* A step that changes neither the stage nor what the walk has read keeps the
\* invariant when it keeps the part of it about the statements.
LEMMA WalkedOn ==
  ASSUME stage = "stmts", KeepWalk, StmtsSoFar'
  PROVE  VerdictInv'
PROOF
  BY DEF VerdictInv, KeepWalk, Terminal, Exceptions

\* The statements: the inductive step.
LEMMA StatementsVerdict ==
  ASSUME Walking, Statements
  PROVE  VerdictInv'
PROOF
  <1>1. CASE VisitStmtSeq
    BY <1>1, StmtSeqVerdict, WalkedOn DEF VisitStmtSeq, At
  <1>2. CASE VisitIgnored
    BY <1>2, IgnoredVerdict, WalkedOn DEF VisitIgnored, At
  <1>3. CASE AssignmentEval
    BY <1>3, AssignmentEvalVerdict, WalkedOn DEF AssignmentEval, At
  <1>4. CASE AssignmentStore
    BY <1>4, AssignmentStoreVerdict
  <1>5. CASE ProcCallEval
    BY <1>5, ProcCallEvalVerdict, WalkedOn DEF ProcCallEval, At
  <1>6. CASE ProcCallReject
    BY <1>6, ProcCallRejectVerdict
  <1>7. CASE ProcCallEmit
    BY <1>7, ProcCallEmitVerdict
  <1>8. CASE VisitWriteStr
    BY <1>8, WriteStrVerdict, WalkedOn DEF VisitWriteStr, At
  <1>9. CASE Finish
    BY <1>9, FinishVerdict
  <1> QED BY <1>1, <1>2, <1>3, <1>4, <1>5, <1>6, <1>7, <1>8, <1>9 DEF Statements

-----------------------------------------------------------------------------
(* The steps of the factors.                                               *)

\* An expression returns a value of its type.
LEMMA ValueReturned ==
  ASSUME Walking, frames # <<>>, KeepWalk, frames' = Popped, stage = "stmts",
         Carries(ret', NodeType[Top.node])
  PROVE  VerdictInv'
PROOF
  <1>1. ret' # NoValue
    <2>1. ret'.ty # "void"
      BY DEF Carries, IrType, LlvmType, BaseType
    <2> QED BY <2>1 DEF NoValue
  <1>2. StmtsSoFar'
    BY <1>1, ReturnedVerdict DEF Walking
  <1> QED BY <1>2, WalkedOn

\* A variable that is read, or refused.
LEMMA DesignatorVerdict ==
  ASSUME Walking, EvalDesignator
  PROVE  VerdictInv'
PROOF
  <1> DEFINE n == Top.node
             x == n.ident
             ty == LlvmType(lookup_decl(x).type)
  <1>1. stage = "stmts" /\ frames # <<>> /\ n.kind = "Designator"
    BY DEF EvalDesignator, At
  <1>2. NodeType[n] = IF x \notin DOMAIN VarTypes(cu) THEN "SemanticProblem"
                      ELSE IF n.items # <<>> THEN "NotImplemented" ELSE VarTypes(cu)[x]
    BY <1>1, TopNow, TypeOfKinds
  <1>3. /\ IsVariable(x) <=> x \in DOMAIN VarTypes(cu)
        /\ x \in DOMAIN VarTypes(cu) =>
             lookup_decl(x).type = VarTypes(cu)[x] /\ VarTypes(cu)[x] \in BaseType
    BY NodeTypes DEF Walking, StmtsSoFar
  <1>4. CASE ~IsVariable(x)
    <2>1. Throw("SemanticProblem")
      BY <1>4 DEF EvalDesignator
    <2> QED BY <1>1, <1>2, <1>3, <1>4, <2>1, ThrownAtTop DEF Walking
  <1>5. CASE IsVariable(x) /\ n.items # <<>>
    <2>1. Throw("NotImplemented")
      BY <1>5 DEF EvalDesignator
    <2> QED BY <1>1, <1>2, <1>3, <1>5, <2>1, ThrownAtTop DEF Walking
  <1>6. CASE IsVariable(x) /\ n.items = <<>>
    <2>1. KeepWalk /\ frames' = Popped /\ ret' = Reg(Len(ir) + 1, ty)
      BY <1>6 DEF EvalDesignator, Return
    <2>2. ret'.ty = ty
      BY <2>1 DEF Reg
    <2>3. Carries(ret', NodeType[n])
      BY <1>2, <1>3, <1>6, <2>2 DEF Carries, IrType, BaseType
    <2> QED BY <1>1, <2>1, <2>3, ValueReturned
  <1> QED BY <1>4, <1>5, <1>6

\* The parentheses and "not" call what is inside.
LEMMA CallInnerVerdict ==
  ASSUME Walking, CallInner
  PROVE  VerdictInv'
PROOF
  <1> DEFINE n == Top.node
             f == [node |-> n, next |-> Top.next + 1, acc |-> NoValue]
  <1>1. /\ stage = "stmts" /\ frames # <<>> /\ n.kind \in {"Paren", "Negation"} /\ KeepWalk
        /\ ret' = ret /\ Top.next = 0 /\ frames' = Calling(n.inner, NoValue)
    BY DEF CallInner, At
  <1>2. ret = NoValue
    BY <1>1, TopNow DEF Awaits
  <1>3. n \in Node /\ n.inner \in Node /\ n.inner.kind \in ExprKinds
    BY <1>1, TopNow, FactorNodes, PartsAreExpressions
  <1>4. Part(f) = n.inner
    BY <1>1, PartOfKinds
  <1>5. NodeType[n.inner] \in Errors => NodeType[n] = NodeType[n.inner]
    BY <1>1, TopNow, TypeOfKinds DEF Errors
  <1>6. StmtsSoFar'
    BY <1>1, <1>2, <1>3, <1>4, <1>5, CalledVerdict DEF Walking
  <1> QED BY <1>1, <1>6, WalkedOn

\* What "not" is applied to is accepted exactly if it is no string.
LEMMA NegationTypes ==
  ASSUME Walking, EvalNegation, NEW n, n = Top.node, NEW args, args = <<ret, Const(ret.ty, -1)>>
  PROVE  /\ NodeType[n] = IF ret.ty \in IntTypes THEN NodeType[n.inner] ELSE "TypeClash"
         /\ Carries(ret, NodeType[n.inner])
         /\ WellTyped("xor", args) <=> ret.ty \in IntTypes
         /\ Accepted("xor", args) <=> ret.ty \in IntTypes
PROOF
  <1>1. stage = "stmts" /\ frames # <<>> /\ n.kind = "Negation" /\ ret # NoValue
    BY DEF EvalNegation, At
  <1>2. Part(Top) = n.inner /\ Carries(ret, NodeType[n.inner])
    BY <1>1, TopNow, PartOfKinds
  <1>3. ret.ty \in IntTypes <=> NodeType[n.inner] # "String"
    BY <1>2, TypesMatch
  <1>4. NodeType[n] = IF ret.ty \in IntTypes THEN NodeType[n.inner] ELSE "TypeClash"
    BY <1>1, <1>3, TopNow, TypeOfKinds
  <1>5. WellTyped("xor", args) <=> ret.ty \in IntTypes
    BY DEF WellTyped, ArithOps, CmpOps, DivOps, Const
  <1>6. ret.ty \notin IntTypes => LlvmAsserts
    BY <1>1, <1>4, ClashAtTop
  <1> QED BY <1>2, <1>4, <1>5, <1>6 DEF Accepted

\* "not" builds its instruction, or LLVM aborts on a string.
LEMMA NegationVerdict ==
  ASSUME Walking, EvalNegation
  PROVE  VerdictInv'
PROOF
  <1> DEFINE n == Top.node
             args == <<ret, Const(ret.ty, -1)>>
  <1>1. /\ stage = "stmts" /\ frames # <<>> /\ n.kind = "Negation" /\ ret # NoValue
        /\ ReturnBuilt("xor", args)
    BY DEF EvalNegation, At
  <1>2. /\ NodeType[n] = IF ret.ty \in IntTypes THEN NodeType[n.inner] ELSE "TypeClash"
        /\ Carries(ret, NodeType[n.inner])
        /\ Accepted("xor", args) <=> ret.ty \in IntTypes
    BY NegationTypes
  <1>3. CASE ret.ty \in IntTypes
    <2>1. KeepWalk /\ frames' = Popped /\ ret' = BuiltVal("xor", args)
      BY <1>1, <1>2, <1>3 DEF ReturnBuilt, Return
    <2>2. ret'.ty = ret.ty
      BY <2>1 DEF BuiltVal, BuiltType, Const, Reg, CmpOps
    <2>3. Carries(ret', NodeType[n])
      BY <1>2, <1>3, <2>2 DEF Carries
    <2> QED BY <1>1, <2>1, <2>3, ValueReturned
  <1>4. CASE ret.ty \notin IntTypes
    <2>1. Throw("assert")
      BY <1>1, <1>2, <1>4 DEF ReturnBuilt
    <2> QED BY <1>1, <1>2, <1>4, <2>1, ThrownAtTop DEF Walking
  <1> QED BY <1>3, <1>4

\* The factors: the inductive step.
LEMMA FactorsVerdict ==
  ASSUME Walking, Factors
  PROVE  VerdictInv'
PROOF
  <1> DEFINE n == Top.node
  <1>1. CASE EvalNumber
    <2>1. /\ stage = "stmts" /\ frames # <<>> /\ n.kind = "Number" /\ KeepWalk
          /\ frames' = Popped /\ ret' = Const("i32", n.int)
      BY <1>1 DEF EvalNumber, At, Return
    <2>2. NodeType[n] = "Integer"
      BY <2>1, TopNow, TypeOfKinds
    <2>3. Carries(ret', NodeType[n])
      BY <2>1, <2>2 DEF Carries, IrType, LlvmType, BaseType, Const
    <2> QED BY <2>1, <2>3, ValueReturned
  <1>2. CASE EvalBool
    <2>1. /\ stage = "stmts" /\ frames # <<>> /\ n.kind = "Bool" /\ KeepWalk
          /\ frames' = Popped /\ ret' = Const("i1", Bit(n.bool))
      BY <1>2 DEF EvalBool, At, Return
    <2>2. NodeType[n] = "Boolean"
      BY <2>1, TopNow, TypeOfKinds
    <2>3. Carries(ret', NodeType[n])
      BY <2>1, <2>2 DEF Carries, IrType, BaseType, Const
    <2> QED BY <2>1, <2>3, ValueReturned
  <1>3. CASE EvalUnsupported
    <2>1. /\ frames # <<>> /\ n.kind \in {"String", "Nil", "FuncCall"}
          /\ Throw("NotImplemented")
      BY <1>3 DEF EvalUnsupported, At
    <2>2. NodeType[n] = "NotImplemented"
      BY <2>1, TopNow, TypeOfKinds
    <2> QED BY <2>1, <2>2, ThrownAtTop DEF Walking
  <1>4. CASE EvalDesignator
    BY <1>4, DesignatorVerdict
  <1>5. CASE CallInner
    BY <1>5, CallInnerVerdict
  <1>6. CASE EvalParen
    <2>1. /\ stage = "stmts" /\ frames # <<>> /\ n.kind = "Paren" /\ KeepWalk
          /\ frames' = Popped /\ ret' = ret /\ ret # NoValue
      BY <1>6 DEF EvalParen, At, Return
    <2>2. Carries(ret, NodeType[n.inner])
      BY <2>1, TopNow, PartOfKinds
    <2>3. NodeType[n] = NodeType[n.inner]
      BY <2>1, TopNow, TypeOfKinds
    <2> QED BY <2>1, <2>2, <2>3, ValueReturned
  <1>7. CASE EvalNegation
    BY <1>7, NegationVerdict
  <1> QED BY <1>1, <1>2, <1>3, <1>4, <1>5, <1>6, <1>7 DEF Factors

-----------------------------------------------------------------------------
(* The steps of the loops over operators.                                  *)

\* The loop at the top of the stack: its types, and that of what it keeps.
LEMMA LoopNow ==
  ASSUME Walking, frames # <<>>, NEW n, n = Top.node, n.kind \in ChainKinds,
         NEW t, t = OfChain(n, NodeType)
  PROVE  /\ n \in Node /\ n.start \in Node /\ Len(n.ops) \in Nat
         /\ \A k \in 1..Len(n.ops) : n.ops[k].rhs \in Node
         /\ NodeType[n] = t[Len(n.ops)]
         /\ t[0] = NodeType[n.start]
         /\ \A k \in 1..Len(n.ops) :
              t[k] = Chained(n.ops[k].op, t[k - 1], NodeType[n.ops[k].rhs])
         /\ \A k \in 0..Len(n.ops) : t[k] \in Errors => NodeType[n] = t[k]
         /\ Top.acc # NoValue =>
              Carries(Top.acc, t[IF ret # NoValue THEN Top.next - 2 ELSE Top.next - 1])
PROOF
  <1>1. /\ n \in Node /\ NodeType \in [Node -> Verdicts]
        /\ NodeType[n] = TypeOf(n, VarTypes(cu), NodeType)
        /\ RightSoFar(Len(frames)) /\ Top = frames[Len(frames)]
        /\ Pending(Len(frames)) <=> ret # NoValue
    BY TopNow
  <1>2. /\ n.start \in Node /\ Len(n.ops) \in Nat
        /\ \A k \in 1..Len(n.ops) : n.ops[k].rhs \in Node
    BY <1>1, ChainNodes
  <1>3. NodeType[n] = t[Len(n.ops)]
    BY <1>1, TypeOfKinds
  <1>4. /\ t[0] = NodeType[n.start]
        /\ \A k \in 1..Len(n.ops) :
             t[k] = Chained(n.ops[k].op, t[k - 1], NodeType[n.ops[k].rhs])
    BY <1>1, ChainTypes
  <1>5. \A k \in 0..Len(n.ops) : t[k] \in Errors => NodeType[n] = t[k]
    BY <1>1, <1>3, ErrorsStick
  <1>6. Top.acc # NoValue =>
          Carries(Top.acc, t[IF ret # NoValue THEN Top.next - 2 ELSE Top.next - 1])
    BY <1>1 DEF RightSoFar
  <1> QED BY <1>1, <1>2, <1>3, <1>4, <1>5, <1>6

\* The first operand is called.
LEMMA CallStartVerdict ==
  ASSUME Walking, CallStart
  PROVE  VerdictInv'
PROOF
  <1> DEFINE n == Top.node
             f == [node |-> n, next |-> Top.next + 1, acc |-> NoValue]
  <1>1. /\ stage = "stmts" /\ frames # <<>> /\ n.kind \in ChainKinds /\ KeepWalk
        /\ ret' = ret /\ Top.next = 0 /\ frames' = Calling(n.start, NoValue)
    BY DEF CallStart, At
  <1>2. ret = NoValue
    BY <1>1, TopNow DEF Awaits
  <1>3. n \in Node /\ n.start \in Node /\ Len(n.ops) \in Nat
    BY <1>1, LoopNow
  <1>4. n.start.kind \in ExprKinds
    BY <1>1, <1>3, PartsAreExpressions
  <1>5. Part(f) = n.start
    BY <1>1, PartOfKinds
  <1>6. NodeType[n.start] \in Errors => NodeType[n] = NodeType[n.start]
    <2>1. 0 \in 0..Len(n.ops)
      BY <1>3
    <2> QED BY <1>1, <2>1, LoopNow
  <1>7. n.kind # "ProcCall"
    BY <1>1 DEF ChainKinds
  <1>8. StmtsSoFar'
    BY <1>1, <1>2, <1>3, <1>4, <1>5, <1>6, <1>7, CalledVerdict DEF Walking
  <1> QED BY <1>1, <1>8, WalkedOn

\* The first operand is taken.
LEMMA TakeStartVerdict ==
  ASSUME Walking, TakeStart
  PROVE  VerdictInv'
PROOF
  <1> DEFINE n == Top.node
  <1>1. /\ stage = "stmts" /\ frames # <<>> /\ n.kind \in ChainKinds /\ KeepWalk
        /\ ret # NoValue /\ ret' = NoValue /\ Top.next = 1
        /\ frames' = [frames EXCEPT ![Len(frames)].acc = ret]
    BY DEF TakeStart, At
  <1>2. Part(Top) = n.start
    BY <1>1, PartOfKinds
  <1>3. Carries(ret, NodeType[n.start])
    BY <1>1, <1>2, TopNow
  <1>4. Carries(ret, OfChain(n, NodeType)[Top.next - 1])
    <2>1. OfChain(n, NodeType)[0] = NodeType[n.start] /\ Top.next - 1 = 0
      BY <1>1, LoopNow
    <2> QED BY <1>3, <2>1
  <1>5. ret \in Operand
    BY <1>1, ReturnedIsOperand DEF Walking
  <1>6. StmtsSoFar'
    BY <1>1, <1>4, <1>5, TakenVerdict DEF Walking
  <1> QED BY <1>1, <1>6, WalkedOn

\* A further operand is called, or "in" is refused.
LEMMA CallRhsVerdict ==
  ASSUME Walking, CallRhs
  PROVE  VerdictInv'
PROOF
  <1> DEFINE n == Top.node
             i == Top.next
             op == n.ops[i]
             t == OfChain(n, NodeType)
             f == [node |-> n, next |-> i + 1, acc |-> Top.acc]
  <1>1. /\ stage = "stmts" /\ frames # <<>> /\ n.kind \in ChainKinds
        /\ Top.acc # NoValue /\ ret = NoValue /\ i <= Len(n.ops)
        /\ IF op.op = "In" THEN Throw("NotImplemented")
           ELSE frames' = Calling(op.rhs, Top.acc) /\ ret' = ret /\ KeepWalk
    BY DEF CallRhs, InChain, At
  <1>2. i \in 1..Len(n.ops) /\ i - 1 \in 0..Len(n.ops) /\ i \in 0..Len(n.ops)
    <2>1. i \in Nat /\ i > 0
      BY <1>1, TopNow DEF HoldsLeft
    <2> QED BY <1>1, <2>1, LoopNow
  <1>3. t[i - 1] \notin Errors
    BY <1>1, LoopNow, TypesMatch
  <1>4. t[i] = Chained(op.op, t[i - 1], NodeType[op.rhs]) /\ n \in Node /\ op.rhs \in Node
        /\ (t[i] \in Errors => NodeType[n] = t[i])
    <2>1. n \in Node /\ op.rhs \in Node
      BY <1>1, <1>2, LoopNow
    <2>2. t[i] = Chained(op.op, t[i - 1], NodeType[op.rhs])
      <3>1. \A k \in 1..Len(n.ops) :
              t[k] = Chained(n.ops[k].op, t[k - 1], NodeType[n.ops[k].rhs])
        BY <1>1, LoopNow
      <3> QED BY <1>2, <3>1, Zenon
    <2>3. t[i] \in Errors => NodeType[n] = t[i]
      BY <1>1, <1>2, LoopNow
    <2> QED BY <2>1, <2>2, <2>3, Zenon
  <1>5. CASE op.op = "In"
    <2>1. t[i] = "NotImplemented"
      BY <1>3, <1>4, <1>5 DEF Chained
    <2>2. NodeType[n] = "NotImplemented"
      BY <1>4, <2>1 DEF Errors
    <2> QED BY <1>1, <1>5, <2>2, ThrownAtTop DEF Walking
  <1>6. CASE op.op # "In"
    <2>1. frames' = Calling(op.rhs, Top.acc) /\ ret' = ret /\ KeepWalk
      BY <1>1, <1>6
    <2>2. op.rhs.kind \in ExprKinds
      BY <1>1, <1>2, <1>4, PartsAreExpressions
    <2>3. Part(f) = op.rhs
      <3>1. i + 1 # 1 /\ (i + 1) - 1 = i
        BY <1>2
      <3> QED BY <1>1, <3>1, PartOfKinds
    <2>4. NodeType[op.rhs] \in Errors => NodeType[n] = NodeType[op.rhs]
      BY <1>3, <1>4, <1>6 DEF Chained
    <2>5. n.kind # "ProcCall"
      BY <1>1 DEF ChainKinds
    <2>6. StmtsSoFar'
      BY <1>1, <1>4, <2>1, <2>2, <2>3, <2>4, <2>5, CalledVerdict DEF Walking
    <2> QED BY <1>1, <2>1, <2>6, WalkedOn
  <1> QED BY <1>5, <1>6

\* What is combined is accepted exactly if its types are the operator's.
LEMMA TakeRhsTypes ==
  ASSUME Walking, TakeRhs, NEW n, n = Top.node, NEW i, i = Top.next - 1,
         NEW op, op = n.ops[i].op, NEW rhs, rhs = n.ops[i].rhs,
         NEW t, t = OfChain(n, NodeType), NEW args, args = Operands(op, Top.acc, ret)
  PROVE  /\ i \in 1..Len(n.ops) /\ Top.acc # NoValue /\ op # "In"
         /\ Part(Top) = rhs
         /\ t[i] = ResultOf(op, t[i - 1], NodeType[rhs])
         /\ t[i] \in Errors => NodeType[n] = t[i]
         /\ op # "RealDiv" =>
              /\ op \in (MultOp \cup AddOp \cup RelOp) \ {"In", "RealDiv"}
              /\ IF WellTyped(Opcode(op), args)
                 THEN Carries(BuiltVal(Opcode(op), args), t[i])
                 ELSE t[i] = "TypeClash"
              /\ Accepted(Opcode(op), args) <=> WellTyped(Opcode(op), args)
PROOF
  <1>1. /\ stage = "stmts" /\ frames # <<>> /\ n.kind \in ChainKinds
        /\ Top.next > 1 /\ ret # NoValue
    BY DEF TakeRhs, At
  <1>2. /\ Top.acc # NoValue /\ op # "In" /\ i \in 1..Len(n.ops) /\ i \in 0..Len(n.ops)
        /\ Top.next # 1 /\ i - 1 = Top.next - 2
    <2>1. Top.next \in Nat /\ HoldsLeft(Top)
      BY <1>1, TopNow
    <2>2. Top.acc # NoValue /\ op # "In" /\ Top.next <= Len(n.ops) + 1
      BY <1>1, <2>1 DEF HoldsLeft
    <2>3. Len(n.ops) \in Nat
      BY <1>1, LoopNow
    <2> QED BY <1>1, <2>1, <2>2, <2>3
  <1>3. Carries(Top.acc, t[i - 1])
    BY <1>1, <1>2, LoopNow
  <1>4. Part(Top) = rhs
    BY <1>1, <1>2, PartOfKinds
  <1>5. Carries(ret, NodeType[rhs])
    BY <1>1, <1>4, TopNow
  <1>6. t[i - 1] \notin Errors /\ NodeType[rhs] \notin Errors
    BY <1>3, <1>5, TypesMatch
  <1>7. /\ t[i] = Chained(op, t[i - 1], NodeType[rhs])
        /\ t[i] \in Errors => NodeType[n] = t[i]
    <2>1. /\ \A k \in 1..Len(n.ops) :
               t[k] = Chained(n.ops[k].op, t[k - 1], NodeType[n.ops[k].rhs])
          /\ \A k \in 0..Len(n.ops) : t[k] \in Errors => NodeType[n] = t[k]
      BY <1>1, LoopNow
    <2> QED BY <1>2, <2>1
  <1>8. t[i] = ResultOf(op, t[i - 1], NodeType[rhs])
    BY <1>2, <1>6, <1>7 DEF Chained
  <1>9. ASSUME op # "RealDiv"
        PROVE  /\ op \in (MultOp \cup AddOp \cup RelOp) \ {"In", "RealDiv"}
               /\ IF WellTyped(Opcode(op), args)
                  THEN Carries(BuiltVal(Opcode(op), args), t[i])
                  ELSE t[i] = "TypeClash"
               /\ Accepted(Opcode(op), args) <=> WellTyped(Opcode(op), args)
    <2>1. op \in (MultOp \cup AddOp \cup RelOp) \ {"In", "RealDiv"}
      <3>1. n \in Node
        BY <1>1, LoopNow
      <3> QED BY <1>1, <1>2, <1>9, <3>1, ChainNodes
    <2>2. IF WellTyped(Opcode(op), args)
          THEN Carries(BuiltVal(Opcode(op), args), t[i])
          ELSE t[i] = "TypeClash"
      <3>1. \A l, r, s, u :
              Carries(l, s) /\ Carries(r, u) =>
                IF WellTyped(Opcode(op), Operands(op, l, r))
                THEN Carries(BuiltVal(Opcode(op), Operands(op, l, r)), ResultOf(op, s, u))
                ELSE ResultOf(op, s, u) = "TypeClash"
        BY <2>1, OperatorTypes
      <3>2. IF WellTyped(Opcode(op), args)
            THEN Carries(BuiltVal(Opcode(op), args), ResultOf(op, t[i - 1], NodeType[rhs]))
            ELSE ResultOf(op, t[i - 1], NodeType[rhs]) = "TypeClash"
        <4>1. PICK s : s = t[i - 1]
          OBVIOUS
        <4>2. PICK u : u = NodeType[rhs]
          OBVIOUS
        <4>3. Carries(Top.acc, s) /\ Carries(ret, u)
          BY <1>3, <1>5, <4>1, <4>2
        <4>4. PICK l : l = Top.acc
          OBVIOUS
        <4>5. PICK r : r = ret
          OBVIOUS
        <4>6. args = Operands(op, l, r) /\ Carries(l, s) /\ Carries(r, u)
          BY <4>3, <4>4, <4>5
        <4>7. IF WellTyped(Opcode(op), Operands(op, l, r))
              THEN Carries(BuiltVal(Opcode(op), Operands(op, l, r)), ResultOf(op, s, u))
              ELSE ResultOf(op, s, u) = "TypeClash"
          BY <3>1, <4>6
        <4> QED BY <4>1, <4>2, <4>6, <4>7
      <3> QED BY <1>8, <3>2
    <2>3. ~WellTyped(Opcode(op), args) => LlvmAsserts
      <3>1. ~WellTyped(Opcode(op), args) => t[i] = "TypeClash"
        BY <2>2, Zenon
      <3>2. t[i] = "TypeClash" => NodeType[n] = "TypeClash"
        BY <1>7 DEF Errors
      <3> QED BY <1>1, <3>1, <3>2, ClashAtTop
    <2> QED BY <2>1, <2>2, <2>3 DEF Accepted
  <1> QED BY <1>2, <1>4, <1>7, <1>8, <1>9

\* A further operand is taken: "/" is refused, LLVM aborts on a clash of
\* types, or the instruction is built.
LEMMA TakeRhsVerdict ==
  ASSUME Walking, TakeRhs
  PROVE  VerdictInv'
PROOF
  <1>1. PICK n : n = Top.node
    OBVIOUS
  <1>2. PICK i : i = Top.next - 1
    OBVIOUS
  <1>3. PICK op, rhs : op = n.ops[i].op /\ rhs = n.ops[i].rhs
    OBVIOUS
  <1>4. PICK t : t = OfChain(n, NodeType)
    OBVIOUS
  <1>5. PICK args : args = Operands(op, Top.acc, ret)
    OBVIOUS
  <1>6. /\ stage = "stmts" /\ frames # <<>> /\ n.kind \in ChainKinds
        /\ Top.next > 1 /\ ret # NoValue
    BY <1>1 DEF TakeRhs, At
  <1>7. /\ i \in 1..Len(n.ops) /\ Top.acc # NoValue /\ op # "In"
        /\ t[i] = ResultOf(op, t[i - 1], NodeType[rhs])
        /\ t[i] \in Errors => NodeType[n] = t[i]
        /\ op # "RealDiv" =>
             /\ op \in (MultOp \cup AddOp \cup RelOp) \ {"In", "RealDiv"}
             /\ IF WellTyped(Opcode(op), args)
                THEN Carries(BuiltVal(Opcode(op), args), t[i])
                ELSE t[i] = "TypeClash"
             /\ Accepted(Opcode(op), args) <=> WellTyped(Opcode(op), args)
    BY <1>1, <1>2, <1>3, <1>4, <1>5, TakeRhsTypes
  <1>8. CASE op = "RealDiv"
    <2>1. Throw("NotImplemented")
      BY <1>1, <1>2, <1>3, <1>8 DEF TakeRhs
    <2>2. ResultOf(op, t[i - 1], NodeType[rhs]) = "NotImplemented"
      BY <1>8, Zenon DEF ResultOf, RelOp
    <2>3. NodeType[n] = "NotImplemented"
      BY <1>7, <2>2 DEF Errors
    <2> QED BY <1>1, <1>6, <2>1, <2>3, ThrownAtTop DEF Walking
  <1>9. CASE op # "RealDiv" /\ ~WellTyped(Opcode(op), args)
    <2>1. Throw("assert")
      BY <1>1, <1>2, <1>3, <1>5, <1>7, <1>9 DEF TakeRhs
    <2>2. NodeType[n] = "TypeClash"
      BY <1>7, <1>9 DEF Errors
    <2> QED BY <1>1, <1>6, <2>1, <2>2, ThrownAtTop DEF Walking
  <1>10. CASE op # "RealDiv" /\ WellTyped(Opcode(op), args)
    <2>1. PICK v : v = BuiltVal(Opcode(op), args)
      OBVIOUS
    <2>2. /\ frames' = [frames EXCEPT ![Len(frames)].acc = v]
          /\ ret' = NoValue /\ KeepWalk
      BY <1>1, <1>2, <1>3, <1>5, <1>7, <1>10, <2>1 DEF TakeRhs
    <2>3. v \in Operand
      <3>1. ret \in Operand /\ Computed(ret, Len(ir))
        BY <1>6, ReturnedIsOperand DEF Walking
      <3>2. Top.acc \in Values /\ Top.acc \in Held
        BY <1>6, TopFacts DEF Walking
      <3>3. Top.acc \in Operand /\ Computed(Top.acc, Len(ir))
        BY <1>7, <3>2, HeldFacts DEF Values, Walking
      <3>4. /\ Opcode(op) \in PureOps /\ args \in Args(Opcode(op))
            /\ \A k \in DOMAIN args : Computed(args[k], Len(ir))
        BY <1>5, <1>7, <1>10, <3>1, <3>3, OperandsFacts
      <3> QED BY <2>1, <3>4, BuiltFacts DEF Walking
    <2>4. Carries(v, t[Top.next - 1])
      BY <1>2, <1>7, <1>10, <2>1
    <2>5. StmtsSoFar'
      BY <1>1, <1>4, <1>6, <2>2, <2>3, <2>4, TakenVerdict DEF Walking
    <2> QED BY <1>6, <2>2, <2>5, WalkedOn
  <1> QED BY <1>8, <1>9, <1>10

\* The loop returns what it has computed.
LEMMA ChainReturnVerdict ==
  ASSUME Walking, ChainReturn
  PROVE  VerdictInv'
PROOF
  <1> DEFINE n == Top.node
             t == OfChain(n, NodeType)
  <1>1. /\ stage = "stmts" /\ frames # <<>> /\ n.kind \in ChainKinds
        /\ Top.acc # NoValue /\ ret = NoValue /\ Top.next = Len(n.ops) + 1
        /\ frames' = Popped /\ ret' = Top.acc /\ KeepWalk
    BY DEF ChainReturn, InChain, At, Return
  <1>2. Carries(Top.acc, t[Top.next - 1]) /\ NodeType[n] = t[Len(n.ops)] /\ Len(n.ops) \in Nat
    BY <1>1, LoopNow
  <1>3. Top.next - 1 = Len(n.ops)
    BY <1>1, <1>2
  <1>4. Carries(ret', NodeType[n])
    BY <1>1, <1>2, <1>3
  <1> QED BY <1>1, <1>4, ValueReturned

\* The loops: the inductive step.
LEMMA ChainsVerdict ==
  ASSUME Walking, Chains
  PROVE  VerdictInv'
PROOF
  <1>1. CASE CallStart
    BY <1>1, CallStartVerdict
  <1>2. CASE TakeStart
    BY <1>2, TakeStartVerdict
  <1>3. CASE CallRhs
    BY <1>3, CallRhsVerdict
  <1>4. CASE TakeRhs
    BY <1>4, TakeRhsVerdict
  <1>5. CASE ChainReturn
    BY <1>5, ChainReturnVerdict
  <1> QED BY <1>1, <1>2, <1>3, <1>4, <1>5 DEF Chains

-----------------------------------------------------------------------------
(* The theorem.                                                            *)

\* The program stays the same.
LEMMA ProgramKept ==
  ASSUME [Next]_vars
  PROVE  cu' = cu
PROOF
  <1>1. CASE Declarations
    BY <1>1 DEF Declarations, RejectBlock, StartMain, ResolveType, RejectName, DeclareName,
                StartBody, Throw
  <1>2. CASE Statements
    BY <1>2 DEF Statements, VisitStmtSeq, VisitIgnored, AssignmentEval, AssignmentStore,
                ProcCallEval, ProcCallReject, ProcCallEmit, VisitWriteStr, Finish,
                Throw, KeepWalk
  <1>3. CASE Factors
    BY <1>3 DEF Factors, EvalNumber, EvalBool, EvalUnsupported, EvalDesignator, CallInner,
                EvalParen, EvalNegation, ReturnBuilt, Throw, KeepWalk
  <1>4. CASE Chains
    BY <1>4 DEF Chains, CallStart, TakeStart, CallRhs, TakeRhs, ChainReturn, Throw, KeepWalk
  <1>5. CASE UNCHANGED vars
    BY <1>5 DEF vars
  <1> QED BY <1>1, <1>2, <1>3, <1>4, <1>5 DEF Next

\* Every step keeps the invariant, where a clash of types shows.
LEMMA NextVerdict ==
  ASSUME LinearInv, LinearInv', WriteIntIsThere, ClashesShow, VerdictInv, [Next]_vars
  PROVE  VerdictInv'
PROOF
  <1>1. IInv /\ IInv' /\ WalkShape /\ WalkShape'
    BY DEF LinearInv
  <1>2. stage = "stmts" => Walking
    BY <1>1 DEF Walking, VerdictInv
  <1>3. CASE Declarations
    BY <1>1, <1>3, DeclarationsVerdict
  <1>4. CASE Statements
    <2>1. stage = "stmts"
      BY <1>4 DEF Statements, VisitStmtSeq, VisitIgnored, AssignmentEval, AssignmentStore,
                  ProcCallEval, ProcCallReject, ProcCallEmit, VisitWriteStr, Finish, At
    <2> QED BY <1>2, <1>4, <2>1, StatementsVerdict
  <1>5. CASE Factors
    <2>1. stage = "stmts"
      BY <1>5 DEF Factors, EvalNumber, EvalBool, EvalUnsupported, EvalDesignator, CallInner,
                  EvalParen, EvalNegation, At
    <2> QED BY <1>2, <1>5, <2>1, FactorsVerdict
  <1>6. CASE Chains
    <2>1. stage = "stmts"
      BY <1>6 DEF Chains, CallStart, TakeStart, CallRhs, TakeRhs, ChainReturn, InChain, At
    <2> QED BY <1>2, <1>6, <2>1, ChainsVerdict
  <1>7. CASE UNCHANGED vars
    BY <1>7 DEF vars, VerdictInv, NothingDeclared, DeclsSoFar, Passed, InnerScope, Unsupported,
                StmtsSoFar, DeclsDone, NodeType, Surfaces, RightSoFar, Called, Pending, Top,
                VerdictShown
  <1> QED BY <1>3, <1>4, <1>5, <1>6, <1>7 DEF Next

\* The invariant holds throughout.
LEMMA VerdictInvariant == Spec => [](ClashesShow => VerdictInv)
PROOF
  <1>1. Init => (ClashesShow => VerdictInv)
    BY DEF Init, VerdictInv, NothingDeclared, Terminal, Exceptions
  <1>2. LinearInv /\ LinearInv' /\ WriteIntIsThere /\ (ClashesShow => VerdictInv) /\ [Next]_vars
          => (ClashesShow => VerdictInv)'
    <2>1. [Next]_vars /\ ClashesShow' => ClashesShow
      BY ProgramKept DEF ClashesShow
    <2> QED BY <2>1, NextVerdict
  <1> QED BY <1>1, <1>2, LinearInvariant, WriteIntIsThereAlways, PTL DEF Spec

\* For every program, and every way to declare its variables: the compiler
\* accepts it exactly if the static semantics of the language finds no error
\* in it, and otherwise throws the exception of the error that comes first.  Where
\* two types clash an LLVM with assertions aborts; only without them, and only
\* for a program whose first error is such a clash, nothing is said.
THEOREM VerdictIsRight == Spec => []VerdictAsSpecified
PROOF
  <1>1. (ClashesShow => VerdictInv) => VerdictAsSpecified
    BY DEF VerdictInv, VerdictAsSpecified
  <1> QED BY <1>1, VerdictInvariant, PTL
=============================================================================

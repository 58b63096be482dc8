----------------------------- MODULE CircuitProofs -----------------------------
(***************************************************************************)
(* Lemmas that the proofs about the solvers share: about encoded circuits, *)
(* their evaluation, interface literals and clauses, for every circuit     *)
(* that is well-formed, and about what the SAT solver decides.  Induction  *)
(* is used in the form of the least number of a set.                       *)
(***************************************************************************)
EXTENDS CircuitAbstraction, QbfSemantics, SatSolver, FiniteSetTheorems, WellFoundedInduction,
        TLAPS

-----------------------------------------------------------------------------
(***************************************************************************)
(* Induction and recursion over the natural numbers.                       *)
(***************************************************************************)
NatLess == {p \in Nat \X Nat : p[1] < p[2]}

\* Every non-empty set of natural numbers has a least element.
LEMMA LeastNumber ==
  ASSUME NEW T \in SUBSET Nat, T # {}
  PROVE  \E x \in T : \A y \in T : x <= y
  <1>1. IsWellFoundedOn(NatLess, Nat)
    BY NatLessThanWellFounded DEF OpToRel, NatLess
  <1>2. PICK x \in T : \A y \in T : ~(<<y, x>> \in NatLess)
    BY <1>1, WFMin
  <1>3. \A y \in T : x \in Nat /\ y \in Nat
    OBVIOUS
  <1>4. \A y \in T : ~(y < x)
    BY <1>2, <1>3 DEF NatLess
  <1> QED
    BY <1>3, <1>4

\* A set that contains 0 and with every number the next one contains them all.
LEMMA Induction ==
  ASSUME NEW S, 0 \in S, \A n \in Nat : n \in S => n + 1 \in S
  PROVE  \A n \in Nat : n \in S
  <1> SUFFICES ASSUME Nat \ S # {} PROVE FALSE
    OBVIOUS
  <1>1. PICK x \in Nat \ S : \A y \in Nat \ S : x <= y
    BY LeastNumber
  <1>2. x # 0 /\ x - 1 \in Nat
    BY <1>1
  <1>3. x - 1 \in S
    BY <1>1, <1>2
  <1> QED
    BY <1>1, <1>2, <1>3

\* h starts with `base' and goes on by the steps.
Iterates(h, S, base, step) ==
  /\ h \in [Nat -> S] /\ h[0] = base
  /\ \A n \in Nat : h[n + 1] = step[n + 1][h[n]]

\* Primitive recursion with a step that is given as a function defines a function.
LEMMA PrimitiveRecursion ==
  ASSUME NEW S, NEW base \in S, NEW step \in [Nat -> [S -> S]]
  PROVE  \E h : Iterates(h, S, base, step)
  <1> DEFINE Run(g, n) == /\ g \in [0 .. n -> S] /\ g[0] = base
                          /\ \A k \in 1 .. n : g[k] = step[k][g[k - 1]]
             Runs == {n \in Nat : \E g : Run(g, n)}
             run(n) == CHOOSE g : Run(g, n)
             h == [n \in Nat |-> run(n)[n]]
  <1>1. \A n \in Nat : n \in Runs
    <2>1. 0 \in Runs
      <3>1. Run([k \in 0 .. 0 |-> base], 0)
        OBVIOUS
      <3> QED
        BY <3>1
    <2>2. ASSUME NEW n \in Nat, n \in Runs
          PROVE  n + 1 \in Runs
      <3>1. PICK g : Run(g, n)
        BY <2>2
      <3> DEFINE more == [k \in 0 .. n + 1 |-> IF k = n + 1 THEN step[n + 1][g[n]] ELSE g[k]]
      <3>2. step[n + 1][g[n]] \in S
        BY <3>1
      <3>3. \A k \in 0 .. n : more[k] = g[k]
        OBVIOUS
      <3>4. more \in [0 .. n + 1 -> S] /\ more[0] = base
        BY <3>1, <3>2
      <3>5. ASSUME NEW k \in 1 .. n + 1
            PROVE  more[k] = step[k][more[k - 1]]
        <4>1. k - 1 \in 0 .. n
          OBVIOUS
        <4>2. CASE k = n + 1
          <5>1. more[n + 1] = step[n + 1][g[n]] /\ more[n] = g[n] /\ (n + 1) - 1 = n
            BY <3>3
          <5> HIDE DEF more
          <5> QED
            BY <4>2, <5>1
        <4>3. CASE k \in 1 .. n
          BY <3>1, <3>3, <4>1, <4>3
        <4> QED
          BY <4>2, <4>3
      <3> HIDE DEF more
      <3>6. Run(more, n + 1)
        BY <3>4, <3>5
      <3> QED
        BY <3>6
    <2> HIDE DEF Runs
    <2> QED
      BY <2>1, <2>2, Induction
  <1>2. ASSUME NEW n \in Nat
        PROVE  Run(run(n), n)
    BY <1>1
  <1>3. ASSUME NEW n \in Nat, NEW g1, NEW g2, NEW m \in Nat, n <= m, Run(g1, n), Run(g2, m)
        PROVE  g1[n] = g2[n]
    <2> DEFINE Same == {k \in Nat : k <= n => g1[k] = g2[k]}
    <2>1. 0 \in Same
      BY <1>3
    <2>2. ASSUME NEW k \in Nat, k \in Same
          PROVE  k + 1 \in Same
      <3> SUFFICES ASSUME k + 1 <= n
                   PROVE  g1[k + 1] = g2[k + 1]
        OBVIOUS
      <3>1. k + 1 \in 1 .. n /\ k + 1 \in 1 .. m /\ (k + 1) - 1 = k
        BY <1>3
      <3>2. g1[k + 1] = step[k + 1][g1[k]] /\ g2[k + 1] = step[k + 1][g2[k]]
        BY <1>3, <3>1
      <3> QED
        BY <2>2, <3>1, <3>2
    <2>3. n \in Same
      <3> HIDE DEF Same
      <3> QED
        BY <2>1, <2>2, Induction
    <2> QED
      BY <2>3
  <1> HIDE DEF run
  <1>4. h \in [Nat -> S] /\ h[0] = base
    BY <1>2
  <1>5. \A n \in Nat : h[n + 1] = step[n + 1][h[n]]
    <2> TAKE n \in Nat
    <2>1. Run(run(n), n) /\ Run(run(n + 1), n + 1)
      BY <1>2
    <2>2. run(n)[n] = run(n + 1)[n]
      <3> HIDE DEF Run
      <3> QED
        BY <1>3, <2>1
    <2>3. run(n + 1)[n + 1] = step[n + 1][run(n + 1)[n]]
      BY <2>1
    <2> QED
      BY <2>2, <2>3
  <1> QED
    BY <1>4, <1>5 DEF Iterates

\* A function on 1 .. N may be defined by recursion: rule[i] makes its value at i, and
\* looks at smaller arguments only.
LooksBelow(rule, N, A) ==
  \A i \in 1 .. N : \A f, g \in [1 .. N -> A] :
    (\A j \in 1 .. i - 1 : f[j] = g[j]) => rule[i][f] = rule[i][g]
Obeys(g, rule, N, A) == g \in [1 .. N -> A] /\ \A i \in 1 .. N : g[i] = rule[i][g]

\* Such a recursion has a solution.
LEMMA RecursiveFunction ==
  ASSUME NEW N \in Nat, NEW A, NEW start \in [1 .. N -> A],
         NEW rule \in [1 .. N -> [[1 .. N -> A] -> A]], LooksBelow(rule, N, A)
  PROVE  \E g : Obeys(g, rule, N, A)
  <1> DEFINE F == [1 .. N -> A]
             set(n, f) == IF n \in 1 .. N THEN [f EXCEPT ![n] = rule[n][f]] ELSE f
             step == [n \in Nat |-> [f \in F |-> set(n, f)]]
  <1>1. \A n \in Nat, f \in F : set(n, f) \in F /\ step[n][f] = set(n, f)
    OBVIOUS
  <1>2. step \in [Nat -> [F -> F]]
    BY <1>1
  <1> HIDE DEF step
  <1>3. PICK h : Iterates(h, F, start, step)
    <2>1. start \in F
      OBVIOUS
    <2> HIDE DEF F
    <2> QED
      BY <1>2, <2>1, PrimitiveRecursion
  <1>4. \A n \in Nat : h[n] \in F /\ h[n + 1] = set(n + 1, h[n])
    <2> HIDE DEF F, set
    <2>1. h \in [Nat -> F] /\ \A n \in Nat : h[n + 1] = step[n + 1][h[n]]
      BY <1>3 DEF Iterates
    <2>2. \A n \in Nat : h[n] \in F /\ n + 1 \in Nat
      BY <2>1
    <2> QED
      BY <1>1, <2>1, <2>2
  <1> HIDE DEF F, set
  \* An argument keeps the value that it was given.
  <1>5. ASSUME NEW i \in 1 .. N, NEW m \in Nat
        PROVE  h[i + m][i] = h[i][i]
    <2> DEFINE T == {k \in Nat : h[i + k][i] = h[i][i]}
    <2>1. 0 \in T
      OBVIOUS
    <2>2. ASSUME NEW k \in Nat, k \in T
          PROVE  k + 1 \in T
      <3>1. i + k \in Nat /\ (i + k) + 1 = i + (k + 1) /\ (i + k) + 1 # i
        OBVIOUS
      <3>2. h[i + k] \in [1 .. N -> A] /\ h[(i + k) + 1] = set((i + k) + 1, h[i + k])
        BY <1>4, <3>1 DEF F
      <3>3. h[(i + k) + 1][i] = h[i + k][i]
        BY <3>1, <3>2 DEF set
      <3> QED
        BY <2>2, <3>1, <3>3
    <2> HIDE DEF T
    <2>3. m \in T
      BY <2>1, <2>2, Induction
    <2> QED
      BY <2>3 DEF T
  <1>6. \A k \in Nat : \A i \in 1 .. N : i <= k => h[k][i] = h[i][i]
    <2> TAKE k \in Nat
    <2> TAKE i \in 1 .. N
    <2> HAVE i <= k
    <2>1. k - i \in Nat /\ i + (k - i) = k
      OBVIOUS
    <2> QED
      BY <1>5, <2>1
  <1>7. ASSUME NEW i \in 1 .. N
        PROVE  h[N][i] = rule[i][h[N]]
    <2>1. i - 1 \in Nat /\ (i - 1) + 1 = i
      OBVIOUS
    <2>2. h[i - 1] \in F /\ h[N] \in F /\ h[i] = set(i, h[i - 1])
      BY <1>4, <2>1
    <2>3. h[i][i] = rule[i][h[i - 1]]
      BY <2>2 DEF set, F
    <2>4. \A j \in 1 .. i - 1 : h[i - 1][j] = h[N][j]
      <3> TAKE j \in 1 .. i - 1
      <3>1. j \in 1 .. N /\ j <= i - 1 /\ j <= N
        OBVIOUS
      <3>2. h[i - 1][j] = h[j][j]
        BY <1>6, <2>1, <3>1
      <3>3. h[N][j] = h[j][j]
        BY <1>6, <3>1
      <3> QED
        BY <3>2, <3>3
    <2>5. rule[i][h[i - 1]] = rule[i][h[N]]
      BY <2>2, <2>4 DEF F, LooksBelow
    <2>6. h[N][i] = h[i][i]
      BY <1>6
    <2> QED
      BY <2>3, <2>5, <2>6
  <1>8. Obeys(h[N], rule, N, A)
    BY <1>4, <1>7 DEF F, Obeys
  <1> QED
    BY <1>8

-----------------------------------------------------------------------------
(***************************************************************************)
(* What the proofs use of a circuit being well-formed.                     *)
(***************************************************************************)
Shape(c) ==
  /\ CircuitType(c) /\ NodesInOrder(c) /\ ScopeTree(c)
  /\ \A i \in Nodes(c) : IsScopeNode(c, i) => Len(c.node[i].inputs) = 1

\* What the encoding guarantees (QbfSemantics) includes that shape.
LEMMA WellFormedShape ==
  ASSUME NEW c, WellFormed(c)
  PROVE  Shape(c)
  BY DEF WellFormed, Shape

\* Annotations do not change it.
LEMMA AnnotatedShape ==
  ASSUME NEW c, Shape(c)
  PROVE  Shape(Annotate(c))
  <1>1. Annotate(c).node = c.node /\ Annotate(c).scope = c.scope /\ Annotate(c).output = c.output
    BY DEF Annotate
  <1> HIDE DEF Annotate
  <1> QED
    BY <1>1 DEF Shape, CircuitType, NodesInOrder, ScopeTree, Nodes, MaxNum, Scopes, IsVar,
                IsScopeNode, Children

\* Nodes are numbers, and a gate has inputs with smaller ones.
LEMMA NodeNumbers ==
  ASSUME NEW c, Shape(c)
  PROVE  /\ MaxNum(c) \in Nat /\ Nodes(c) \subseteq Nat \ {0} /\ DOMAIN c.node = Nodes(c)
         /\ \A i \in Nodes(c) : /\ c.node[i].type \in {"var", "and", "or", "scope"}
                                /\ c.node[i].inputs \in Seq(Int)
                                /\ Inputs(c, i) \subseteq Nodes(c)
                                /\ \A l \in Range(c.node[i].inputs) : LitVar(l) \in Nodes(c)
  <1>1. MaxNum(c) \in Nat /\ DOMAIN c.node = Nodes(c)
    BY DEF Shape, CircuitType, MaxNum, Nodes
  <1>2. \A i \in Nodes(c) : /\ c.node[i].type \in {"var", "and", "or", "scope"}
                           /\ c.node[i].inputs \in Seq(Int)
    <2> DEFINE R == [type : {"var", "and", "or", "scope"}, scope : {0} \cup Scopes(c),
                     inputs : Seq(Int)]
    <2>1. c.node \in Seq(R)
      BY DEF Shape, CircuitType
    <2>2. \A i \in Nodes(c) : c.node[i] \in R
      <3> HIDE DEF R
      <3> QED
        BY <2>1 DEF Nodes, MaxNum
    <2> QED
      BY <2>2
  <1>3. \A i \in Nodes(c) : \A l \in Range(c.node[i].inputs) : LitVar(l) \in Nodes(c)
    BY <1>1 DEF Shape, NodesInOrder, Nodes
  <1> QED
    BY <1>1, <1>2, <1>3 DEF Nodes, Inputs

-----------------------------------------------------------------------------
(***************************************************************************)
(* Interface literals: b-literals are numbered like the nodes, t-literals  *)
(* behind them.                                                            *)
(***************************************************************************)
\* The analysis of a gate hands over the gate itself or some of its inputs.
LEMMA AnalyzedNodes ==
  ASSUME NEW c, Shape(c), NEW s, NEW g \in Nodes(c)
  PROVE  /\ AnalyzeGate(c, s, g).b \subseteq Nodes(c)
         /\ AnalyzeGate(c, s, g).t \subseteq Nodes(c)
  <1>1. Inputs(c, g) \subseteq Nodes(c)
    BY NodeNumbers
  <1> QED
    BY <1>1 DEF AnalyzeGate

\* b-literals are node numbers, t-literals are made from node numbers.
LEMMA InterfaceNumbers ==
  ASSUME NEW c, Shape(c), NEW s
  PROVE  /\ BLits(c, s) \subseteq Nodes(c)
         /\ TLits(c, s) \subseteq {TLit(c, i) : i \in Nodes(c)}
  <1>1. RelevantGates(c, s) \subseteq Nodes(c) /\ RelevantScopeNodes(c, s) \subseteq Nodes(c)
    BY DEF RelevantGates, RelevantScopeNodes, RelevantNodes
  <1>2. \A g \in RelevantGates(c, s) : /\ AnalyzeGate(c, s, g).b \subseteq Nodes(c)
                                       /\ AnalyzeGate(c, s, g).t \subseteq Nodes(c)
    BY <1>1, AnalyzedNodes
  <1> DEFINE b == UNION {AnalyzeGate(c, s, g).b : g \in RelevantGates(c, s)}
             t == UNION {AnalyzeGate(c, s, g).t : g \in RelevantGates(c, s)}
             opened == {BLit(i) : i \in {k \in RelevantScopeNodes(c, s) :
                                           c.scope[c.node[k].scope].prev = s}}
             own == {k \in RelevantScopeNodes(c, s) : c.node[k].scope = s}
  <1>3. b \subseteq Nodes(c) /\ t \subseteq Nodes(c)
    BY <1>2
  <1>4. opened \subseteq Nodes(c) /\ own \subseteq Nodes(c)
    BY <1>1 DEF BLit
  <1>5. BLits(c, s) = b \cup opened
    BY DEF BLits
  <1>6. TLits(c, s) = {TLit(c, i) : i \in t \cup own}
    BY DEF TLits
  <1> HIDE DEF b, t, opened, own
  <1> QED
    BY <1>3, <1>4, <1>5, <1>6

\* A b-literal stands for a gate or a scope node, never for a variable.
LEMMA BLitsAreNoVariables ==
  ASSUME NEW c, Shape(c), NEW s
  PROVE  \A b \in BLits(c, s) : b \in Nodes(c) /\ ~IsVar(c, b)
  <1>1. \A g \in RelevantGates(c, s) : \A b \in AnalyzeGate(c, s, g).b : IsGate(c, b)
    BY DEF AnalyzeGate, RelevantGates
  <1>2. \A k \in RelevantScopeNodes(c, s) : IsScopeNode(c, k)
    BY DEF RelevantScopeNodes
  <1>3. \A b \in BLits(c, s) : IsGate(c, b) \/ IsScopeNode(c, b)
    BY <1>1, <1>2 DEF BLits, BLit
  <1> QED
    BY <1>3, InterfaceNumbers DEF IsGate, IsScopeNode, IsVar

-----------------------------------------------------------------------------
(***************************************************************************)
(* Clauses of the instances.  0 would end a clause, what is numbered       *)
(* behind the t-literals is left to the solvers for labels, and no clause  *)
(* negates a t-literal.                                                    *)
(***************************************************************************)
ClauseLits(c) == {l \in Int : l # 0 /\ -MaxNum(c) <= l /\ l <= 2 * MaxNum(c)}

\* Nodes, inputs and t-literals give such literals.
LEMMA NodeLits ==
  ASSUME NEW c, Shape(c), NEW q, NEW T
  PROVE  /\ \A i \in Nodes(c) : /\ BLit(i) \in ClauseLits(c) /\ -BLit(i) \in ClauseLits(c)
                                /\ TLitIfShared(c, T, i) \subseteq ClauseLits(c)
         /\ \A i \in Nodes(c) : \A l \in Range(c.node[i].inputs) :
              LitVar(l) \in Nodes(c) /\ TransformedInput(c, q, l) \in ClauseLits(c)
  <1> DEFINE N == MaxNum(c)
  <1>1. N \in Nat /\ Nodes(c) = 1 .. N
    BY NodeNumbers DEF Nodes
  <1>2. ClauseLits(c) = {l \in Int : l # 0 /\ -N <= l /\ l <= 2 * N}
    BY DEF ClauseLits
  <1>3. ASSUME NEW i \in Nodes(c)
        PROVE  /\ BLit(i) \in ClauseLits(c) /\ -BLit(i) \in ClauseLits(c)
               /\ TLitIfShared(c, T, i) \subseteq ClauseLits(c)
    <2>1. TLitIfShared(c, T, i) \subseteq {i + N} /\ BLit(i) = i
      BY DEF TLitIfShared, TLit, BLit
    <2> HIDE DEF N
    <2> QED
      BY <1>1, <1>2, <2>1
  <1>4. ASSUME NEW i \in Nodes(c), NEW l \in Range(c.node[i].inputs)
        PROVE  LitVar(l) \in Nodes(c) /\ TransformedInput(c, q, l) \in ClauseLits(c)
    <2>1. LitVar(l) \in Nodes(c)
      BY NodeNumbers
    <2>2. c.node[i].inputs \in Seq(Int)
      BY NodeNumbers
    <2>3. l \in Int
      BY <2>2 DEF Range
    <2>4. TransformedInput(c, q, l) \in {l, -l}
      BY DEF TransformedInput
    <2> HIDE DEF N
    <2> QED
      BY <1>1, <1>2, <2>1, <2>3, <2>4 DEF LitVar
  <1> QED
    BY <1>3, <1>4

\* One input of an inlined OR gate adds literals to the open clause.
LEMMA AppendedLits ==
  ASSUME NEW c, Shape(c), NEW s, NEW q, NEW T, NEW g \in Nodes(c),
         NEW l \in Range(c.node[g].inputs), NEW nested, nested \subseteq ClauseLits(c)
  PROVE  AppendedInput(c, s, q, T, g, l, nested) \subseteq ClauseLits(c)
  <1>1. LitVar(l) \in Nodes(c) /\ TransformedInput(c, q, l) \in ClauseLits(c)
    BY NodeLits
  <1>2. /\ -BLit(g) \in ClauseLits(c)
        /\ BLit(LitVar(l)) \in ClauseLits(c) /\ -BLit(LitVar(l)) \in ClauseLits(c)
        /\ TLitIfShared(c, T, LitVar(l)) \subseteq ClauseLits(c)
    BY <1>1, NodeLits
  <1>3. IsVar(c, LitVar(l)) \/ IsScopeNode(c, LitVar(l)) \/ IsGate(c, LitVar(l))
    BY <1>1, NodeNumbers DEF IsVar, IsScopeNode, IsGate
  <1> QED
    BY <1>1, <1>2, <1>3 DEF AppendedInput

\* The recursion of AppendOrGate has a solution: what an inlined OR gate leaves in the open
\* clause comes from its inputs.
LEMMA AppendUnfolds ==
  ASSUME NEW c, Shape(c), NEW s, NEW q, NEW B, NEW T, NEW gate \in Nodes(c)
  PROVE  AppendOrGate(c, s, q, B, T, gate) =
           IF OnlyInner(c, s, gate) THEN {-BLit(gate)}
           ELSE (UNION {AppendedInput(c, s, q, T, gate, l, AppendOrGate(c, s, q, B, T, LitVar(l))) :
                          l \in Range(c.node[gate].inputs)})
                \cup TLitIfShared(c, T, gate)
                \cup (IF BLit(gate) \in B THEN {-BLit(gate)} ELSE {})
  <1> DEFINE A == SUBSET ClauseLits(c)
             N == MaxNum(c)
             R(g, f) ==
               IF OnlyInner(c, s, g) THEN {-BLit(g)}
               ELSE (UNION {AppendedInput(c, s, q, T, g, l, f[LitVar(l)]) :
                              l \in Range(c.node[g].inputs)})
                    \cup TLitIfShared(c, T, g)
                    \cup (IF BLit(g) \in B THEN {-BLit(g)} ELSE {})
             Eq(f) == [g \in Nodes(c) |-> R(g, f)]
             open == CHOOSE f : f = Eq(f)
             rule == [g \in Nodes(c) |-> [f \in [Nodes(c) -> A] |-> R(g, f)]]
             none == [g \in Nodes(c) |-> {}]
  <1>1. N \in Nat /\ Nodes(c) = 1 .. N
    BY NodeNumbers DEF Nodes
  <1>2. \A g : AppendOrGate(c, s, q, B, T, g) = open[g]
    BY DEF AppendOrGate
  <1>3. \A g \in Nodes(c) : \A l \in Range(c.node[g].inputs) : LitVar(l) \in Nodes(c)
    BY NodeNumbers
  <1>4. ASSUME NEW g \in Nodes(c), NEW f \in [Nodes(c) -> A]
        PROVE  R(g, f) \in A
    <2>1. \A l \in Range(c.node[g].inputs) : f[LitVar(l)] \in A
      BY <1>3
    <2>2. \A l \in Range(c.node[g].inputs) : AppendedInput(c, s, q, T, g, l, f[LitVar(l)]) \in A
      BY <2>1, AppendedLits
    <2>3. -BLit(g) \in ClauseLits(c) /\ TLitIfShared(c, T, g) \subseteq ClauseLits(c)
      BY NodeLits
    <2> QED
      BY <2>2, <2>3
  <1>5. none \in [1 .. N -> A]
    BY <1>1
  <1>6. rule \in [1 .. N -> [[1 .. N -> A] -> A]]
    <2> HIDE DEF A, R
    <2> QED
      BY <1>1, <1>4
  <1>7. LooksBelow(rule, N, A)
    <2>1. ASSUME NEW g \in 1 .. N, NEW f1 \in [1 .. N -> A], NEW f2 \in [1 .. N -> A],
                 \A j \in 1 .. g - 1 : f1[j] = f2[j]
          PROVE  rule[g][f1] = rule[g][f2]
      <3>1. \A l \in Range(c.node[g].inputs) : f1[LitVar(l)] = f2[LitVar(l)]
        BY <1>1, <2>1 DEF Shape, NodesInOrder
      <3>2. {AppendedInput(c, s, q, T, g, l, f1[LitVar(l)]) : l \in Range(c.node[g].inputs)}
              = {AppendedInput(c, s, q, T, g, l, f2[LitVar(l)]) : l \in Range(c.node[g].inputs)}
        BY <3>1
      <3>3. R(g, f1) = R(g, f2)
        BY <3>2
      <3> HIDE DEF R, A
      <3> QED
        BY <1>1, <3>3
    <2> HIDE DEF rule, A
    <2> QED
      BY <2>1 DEF LooksBelow
  <1>8. PICK f : Obeys(f, rule, N, A)
    <2> HIDE DEF rule, N, A, none
    <2> QED
      BY <1>1, <1>5, <1>6, <1>7, RecursiveFunction
  <1>9. f \in [Nodes(c) -> A]
    BY <1>1, <1>8 DEF Obeys
  <1>10. \A g \in Nodes(c) : f[g] = R(g, f)
    <2> HIDE DEF R, A
    <2> QED
      BY <1>1, <1>8, <1>9 DEF Obeys
  <1>11. open = Eq(open)
    <2>1. f = Eq(f)
      <3> HIDE DEF R, A
      <3> QED
        BY <1>9, <1>10
    <2> HIDE DEF Eq
    <2> QED
      BY <2>1
  <1> HIDE DEF open, rule
  <1>12. open[gate] = R(gate, open)
    <2> HIDE DEF R
    <2> QED
      BY <1>11
  <1>13. {AppendedInput(c, s, q, T, gate, l, open[LitVar(l)]) : l \in Range(c.node[gate].inputs)}
           = {AppendedInput(c, s, q, T, gate, l, AppendOrGate(c, s, q, B, T, LitVar(l))) :
                l \in Range(c.node[gate].inputs)}
    BY <1>2
  <1> QED
    BY <1>2, <1>12, <1>13

\* What an inlined OR gate leaves in the open clause.
LEMMA AppendLits ==
  ASSUME NEW c, Shape(c), NEW s, NEW q, NEW B, NEW T, NEW gate \in Nodes(c)
  PROVE  AppendOrGate(c, s, q, B, T, gate) \subseteq ClauseLits(c)
  <1> DEFINE open(g) == AppendOrGate(c, s, q, B, T, g)
             bad == {g \in Nodes(c) : ~(open(g) \subseteq ClauseLits(c))}
  <1> SUFFICES ASSUME bad # {}
               PROVE  FALSE
    OBVIOUS
  <1>1. bad \in SUBSET Nat
    BY NodeNumbers
  <1>2. PICK g \in bad : \A j \in bad : g <= j
    BY <1>1, LeastNumber
  <1>3. ASSUME NEW l \in Range(c.node[g].inputs)
        PROVE  open(LitVar(l)) \subseteq ClauseLits(c)
    <2>1. LitVar(l) \in 1 .. g - 1 /\ LitVar(l) \in Nodes(c) /\ g \in Nat
      BY <1>1, NodeNumbers DEF Shape, NodesInOrder
    <2> QED
      BY <1>2, <2>1
  <1> HIDE DEF open
  <1>4. \A l \in Range(c.node[g].inputs) :
          AppendedInput(c, s, q, T, g, l, open(LitVar(l))) \subseteq ClauseLits(c)
    BY <1>3, AppendedLits
  <1>5. -BLit(g) \in ClauseLits(c) /\ TLitIfShared(c, T, g) \subseteq ClauseLits(c)
    BY NodeLits
  <1>6. open(g) = IF OnlyInner(c, s, g) THEN {-BLit(g)}
                  ELSE (UNION {AppendedInput(c, s, q, T, g, l, open(LitVar(l))) :
                                 l \in Range(c.node[g].inputs)})
                       \cup TLitIfShared(c, T, g)
                       \cup (IF BLit(g) \in B THEN {-BLit(g)} ELSE {})
    BY AppendUnfolds DEF open
  <1>7. open(g) \subseteq ClauseLits(c)
    BY <1>4, <1>5, <1>6
  <1> QED
    BY <1>2, <1>7

\* The clauses of one node.
LEMMA NodeClauseLits ==
  ASSUME NEW c, Shape(c), NEW s, NEW q, NEW B, NEW T, NEW i \in Nodes(c)
  PROVE  /\ \A cl \in EncodeOrGate(c, s, q, T, i) : cl \subseteq ClauseLits(c)
         /\ \A cl \in EncodeAndGate(c, s, q, B, T, i) : cl \subseteq ClauseLits(c)
         /\ IsScopeNode(c, i) =>
              \A cl \in EncodeNodeScope(c, s, q, B, T, i) : cl \subseteq ClauseLits(c)
  <1>1. /\ BLit(i) \in ClauseLits(c) /\ -BLit(i) \in ClauseLits(c)
        /\ TLitIfShared(c, T, i) \subseteq ClauseLits(c)
    BY NodeLits
  <1>2. ASSUME NEW l \in Range(c.node[i].inputs)
        PROVE  /\ LitVar(l) \in Nodes(c) /\ TransformedInput(c, q, l) \in ClauseLits(c)
               /\ BLit(LitVar(l)) \in ClauseLits(c) /\ -BLit(LitVar(l)) \in ClauseLits(c)
               /\ TLitIfShared(c, T, LitVar(l)) \subseteq ClauseLits(c)
               /\ IsVar(c, LitVar(l)) \/ IsScopeNode(c, LitVar(l)) \/ IsGate(c, LitVar(l))
               /\ AppendOrGate(c, s, q, B, T, LitVar(l)) \subseteq ClauseLits(c)
    <2>1. LitVar(l) \in Nodes(c) /\ TransformedInput(c, q, l) \in ClauseLits(c)
      BY NodeLits
    <2> QED
      BY <2>1, NodeLits, NodeNumbers, AppendLits DEF IsVar, IsScopeNode, IsGate
  <1>3. \A cl \in EncodeOrGate(c, s, q, T, i) : cl \subseteq ClauseLits(c)
    <2>1. \A l \in Range(c.node[i].inputs) : OrInput(c, s, q, T, l) \subseteq ClauseLits(c)
      BY <1>2 DEF OrInput
    <2> QED
      BY <1>1, <2>1 DEF EncodeOrGate
  <1>4. \A cl \in EncodeAndGate(c, s, q, B, T, i) : cl \subseteq ClauseLits(c)
    <2>1. \A l \in Range(c.node[i].inputs) : \A cl \in AndInput(c, s, q, B, T, l) :
            cl \subseteq ClauseLits(c)
      BY <1>2 DEF AndInput
    <2> QED
      BY <1>1, <2>1 DEF EncodeAndGate
  <1>5. ASSUME IsScopeNode(c, i)
        PROVE  \A cl \in EncodeNodeScope(c, s, q, B, T, i) : cl \subseteq ClauseLits(c)
    <2>1. c.node[i].inputs \in Seq(Int) /\ Len(c.node[i].inputs) = 1
      BY <1>5, NodeNumbers DEF Shape
    <2>2. c.node[i].inputs[1] \in Range(c.node[i].inputs)
      BY <2>1 DEF Range
    <2> QED
      BY <1>1, <1>2, <2>2 DEF EncodeNodeScope
  <1> QED
    BY <1>3, <1>4, <1>5

\* The clauses of an instance, and of a dual one.
LEMMA EncodingLits ==
  ASSUME NEW c, Shape(c), NEW s, NEW q, NEW B, NEW T
  PROVE  \A cl \in BuildSatInstance(c, s, q, B, T) : cl \subseteq ClauseLits(c)
  <1>1. ASSUME NEW i \in RelevantScopeNodes(c, s), NEW cl \in EncodeNodeScope(c, s, q, B, T, i)
        PROVE  cl \subseteq ClauseLits(c)
    BY <1>1, NodeClauseLits DEF RelevantScopeNodes, RelevantNodes
  <1>2. ASSUME NEW g \in RelevantGates(c, s), NEW cl \in EncodeGate(c, s, q, B, T, g)
        PROVE  cl \subseteq ClauseLits(c)
    BY <1>2, NodeClauseLits DEF RelevantGates, RelevantNodes, EncodeGate
  <1>3. ASSUME NEW cl \in FixOutputValue(c, s, q, B, T)
        PROVE  cl \subseteq ClauseLits(c)
    <2>1. c.output \in Nodes(c)
      BY DEF Shape, CircuitType
    <2> QED
      BY <2>1, <1>3, NodeLits, AppendLits DEF FixOutputValue
  <1> QED
    BY <1>1, <1>2, <1>3 DEF BuildSatInstance

-----------------------------------------------------------------------------
(***************************************************************************)
(* Evaluation.  V is a set of values that is closed under negation.        *)
(***************************************************************************)
LEMMA MinIsLeast ==
  ASSUME NEW T \in SUBSET Nat, T # {}
  PROVE  Min(T) \in T /\ \A y \in T : Min(T) <= y
  BY LeastNumber DEF Min

Values(V) == V \in SUBSET Int /\ 0 \in V /\ \A v \in V : -v \in V

\* Evaluating a gate (circuit_evaluate_max) stays within a set of values that is closed
\* under negation, for instance the scopes and their negatives.
LEMMA GateValueType ==
  ASSUME NEW c, Shape(c), NEW V, Values(V), NEW value \in [Nodes(c) -> V],
         NEW i \in Nodes(c), IsGate(c, i), NEW max \in V
  PROVE  FreshGateValue(c, value, i, max) \in V
  <1> DEFINE polarity == IF c.node[i].type = "and" THEN 1 ELSE -1
             inputs   == c.node[i].inputs
             occ      == [j \in DOMAIN inputs |-> InputValue(value, inputs[j], max)]
             seen     == IF Conflict(c, i) THEN 1 .. 1 ELSE DOMAIN inputs
             decisive == {j \in seen : polarity * occ[j] < 0}
  <1>1. inputs \in Seq(Int) /\ DOMAIN inputs \in SUBSET Nat
    BY NodeNumbers
  <1>2. \A j \in DOMAIN inputs : LitVar(inputs[j]) \in Nodes(c)
    BY NodeNumbers DEF Range
  <1>3. \A j \in DOMAIN inputs : value[LitVar(inputs[j])] \in V
    BY <1>2
  <1>4. \A j \in DOMAIN inputs : occ[j] \in V
    BY <1>3 DEF InputValue, Signed, Values
  <1>5. seen \subseteq DOMAIN inputs
    <2>1. CASE Conflict(c, i)
      <3>1. Range(inputs) # {}
        BY <2>1 DEF Conflict
      <3>2. DOMAIN inputs # {}
        BY <3>1 DEF Range
      <3>3. 1 \in DOMAIN inputs
        <4> HIDE DEF inputs
        <4> QED
          BY <1>1, <3>2
      <3> QED
        BY <2>1, <3>3
    <2> QED
      BY <2>1
  <1>6. decisive # {} => occ[Min(decisive)] \in V
    <2>1. decisive \in SUBSET DOMAIN inputs /\ decisive \in SUBSET Nat
      BY <1>1, <1>5
    <2> HIDE DEF decisive, occ, inputs
    <2> QED
      BY <1>4, <2>1, MinIsLeast
  <1>7. polarity * max \in V /\ -polarity * max \in V
    BY DEF Values
  <1>8. FreshGateValue(c, value, i, max) =
          CASE decisive # {} -> occ[Min(decisive)]
            [] decisive = {} /\ Conflict(c, i) -> -polarity * max
            [] decisive = {} /\ ~Conflict(c, i) ->
                 IF 0 \in Range(occ) THEN 0 ELSE polarity * max
    BY DEF FreshGateValue
  <1> HIDE DEF decisive, occ, polarity
  <1> QED
    BY <1>6, <1>7, <1>8 DEF Values

\* The same for a node of any kind.
LEMMA NodeValueType ==
  ASSUME NEW c, Shape(c), NEW V, Values(V), NEW value \in [Nodes(c) -> V],
         NEW i \in Nodes(c), NEW max \in V
  PROVE  NodeValue(c, value, i, max) \in V
  <1>1. CASE IsVar(c, i)
    BY <1>1 DEF NodeValue, IsVar, IsScopeNode
  <1>2. CASE IsScopeNode(c, i)
    <2>1. c.node[i].inputs \in Seq(Int) /\ Len(c.node[i].inputs) = 1
      BY <1>2, NodeNumbers DEF Shape
    <2>2. c.node[i].inputs[1] \in Range(c.node[i].inputs)
      BY <2>1 DEF Range
    <2>3. LitVar(c.node[i].inputs[1]) \in Nodes(c)
      BY <2>2, NodeNumbers
    <2> QED
      BY <1>2, <2>3 DEF NodeValue, IsVar, IsScopeNode
  <1>3. CASE IsGate(c, i)
    BY <1>3, GateValueType DEF NodeValue, IsVar, IsScopeNode, IsGate
  <1>4. c.node[i].type \in {"var", "and", "or", "scope"}
    BY NodeNumbers
  <1> QED
    BY <1>1, <1>2, <1>3, <1>4 DEF IsVar, IsScopeNode, IsGate

\* upto[n] are the values after the first n nodes.
Evaluates(upto, c, V, value, max) ==
  /\ upto \in [Nat -> [Nodes(c) -> V]] /\ upto[0] = value
  /\ \A n \in Nat : upto[n + 1] = Evaluated(c, upto[n], n + 1, max)
  /\ EvaluateMax(c, value, max) = upto[MaxNum(c)]

\* Evaluation computes the nodes one after the other, from values that it was given or the
\* bound, with some sign.
LEMMA EvaluationSteps ==
  ASSUME NEW c, Shape(c), NEW V, Values(V), NEW value \in [Nodes(c) -> V], NEW max \in V
  PROVE  \E upto : Evaluates(upto, c, V, value, max)
  <1> DEFINE A == [Nodes(c) -> V]
             step == [n \in Nat |-> [v \in A |-> Evaluated(c, v, n, max)]]
             Up(g) == [n \in Nat |-> IF n = 0 THEN value ELSE Evaluated(c, g[n - 1], n, max)]
             upto == CHOOSE g : g = Up(g)
  <1>1. ASSUME NEW v \in A, NEW n \in Nat
        PROVE  Evaluated(c, v, n, max) \in A
    <2>1. CASE n \in Nodes(c)
      BY <2>1, NodeValueType DEF Evaluated
    <2>2. CASE n \notin Nodes(c)
      BY <2>2 DEF Evaluated
    <2> QED
      BY <2>1, <2>2
  <1>2. step \in [Nat -> [A -> A]]
    BY <1>1
  <1>3. \A v \in A, n \in Nat : step[n][v] = Evaluated(c, v, n, max)
    OBVIOUS
  <1>0. value \in A
    OBVIOUS
  <1> HIDE DEF A, step
  <1>4. PICK h : Iterates(h, A, value, step)
    BY <1>0, <1>2, PrimitiveRecursion
  <1>5. h = Up(h)
    <2>1. ASSUME NEW n \in Nat, n # 0
          PROVE  h[n] = Evaluated(c, h[n - 1], n, max)
      <3>1. n - 1 \in Nat /\ (n - 1) + 1 = n
        BY <2>1
      <3> QED
        BY <1>3, <1>4, <3>1 DEF Iterates
    <2> QED
      BY <1>4, <2>1 DEF Iterates
  <1>6. upto = Up(upto)
    BY <1>5
  <1> HIDE DEF upto
  <1>7. upto[0] = value /\ \A n \in Nat : upto[n + 1] = Evaluated(c, upto[n], n + 1, max)
    <2>1. upto[0] = value
      BY <1>6
    <2>2. ASSUME NEW n \in Nat
          PROVE  upto[n + 1] = Evaluated(c, upto[n], n + 1, max)
      <3>1. n + 1 \in Nat /\ n + 1 # 0 /\ (n + 1) - 1 = n
        OBVIOUS
      <3> QED
        BY <1>6, <3>1
    <2> QED
      BY <2>1, <2>2
  <1>8. \A n \in Nat : upto[n] \in A
    <2> DEFINE T == {n \in Nat : upto[n] \in A}
    <2>1. 0 \in T
      BY <1>7 DEF A
    <2>2. ASSUME NEW n \in Nat, n \in T
          PROVE  n + 1 \in T
      <3>1. upto[n + 1] = Evaluated(c, upto[n], n + 1, max) /\ upto[n] \in A
        BY <1>7, <2>2
      <3> QED
        BY <1>1, <3>1
    <2>3. \A n \in Nat : n \in T
      <3> HIDE DEF T
      <3> QED
        BY <2>1, <2>2, Induction
    <2> QED
      BY <2>3
  <1>9. EvaluateMax(c, value, max) = upto[MaxNum(c)]
    BY DEF EvaluateMax, upto
  <1>10. upto \in [Nat -> A]
    <2>1. DOMAIN upto = Nat /\ upto = [n \in Nat |-> upto[n]]
      BY <1>6
    <2> QED
      BY <1>8, <2>1
  <1> QED
    BY <1>7, <1>9, <1>10 DEF A, Evaluates

\* In particular it gives no other values.
LEMMA EvaluationType ==
  ASSUME NEW c, Shape(c), NEW V, Values(V), NEW value \in [Nodes(c) -> V], NEW max \in V
  PROVE  EvaluateMax(c, value, max) \in [Nodes(c) -> V]
  <1>1. PICK upto : Evaluates(upto, c, V, value, max)
    BY EvaluationSteps
  <1>2. MaxNum(c) \in Nat
    BY NodeNumbers
  <1> QED
    BY <1>1, <1>2 DEF Evaluates

-----------------------------------------------------------------------------
(***************************************************************************)
(* Satisfiability.  The recursion of SatSolver is compared with what it is *)
(* to decide: whether some set of literals without opposites meets every   *)
(* clause.                                                                 *)
(***************************************************************************)
NoOpposites(lits) == lits \subseteq Int /\ lits \cap Opposite(lits) = {}
Meets(lits, clauses) == NoOpposites(lits) /\ \A cl \in clauses : cl \cap lits # {}
HasModel(clauses) == \E lits : Meets(lits, clauses)

\* Finitely many literals, and zero is none.
FiniteClauses(clauses) == IsFiniteSet(UNION clauses) /\ UNION clauses \subseteq Int \ {0}

\* What is left under some literals can be met exactly if the whole can with them.
LEMMA MeetsUnder ==
  ASSUME NEW clauses, NEW lits, NoOpposites(lits)
  PROVE  HasModel(Under(clauses, lits)) <=> \E all : lits \subseteq all /\ Meets(all, clauses)
  <1>1. ASSUME NEW all, lits \subseteq all, Meets(all, clauses)
        PROVE  Meets(all, Under(clauses, lits))
    <2>1. \A x \in Opposite(lits) : x \notin all
      BY <1>1 DEF Meets, NoOpposites, Opposite
    <2>2. \A cl \in clauses : (cl \ Opposite(lits)) \cap all # {}
      BY <1>1, <2>1 DEF Meets
    <2> QED
      BY <1>1, <2>2 DEF Meets, Under
  <1>2. ASSUME NEW rest, Meets(rest, Under(clauses, lits)),
               NEW all, all = (rest \ Opposite(lits)) \cup lits
        PROVE  Meets(all, clauses)
    <2>1. all \subseteq Int /\ rest \subseteq Int /\ lits \subseteq Int
      BY <1>2 DEF Meets, NoOpposites
    <2>2. ASSUME NEW x \in all, -x \in all
          PROVE  FALSE
      <3>1. x \in Int /\ -(-x) = x
        BY <2>1, <2>2
      <3>2. x \in lits => -x \in Opposite(lits)
        BY DEF Opposite
      <3>3. -x \in lits => x \in Opposite(lits)
        BY <3>1 DEF Opposite
      <3>4. x \in lits => -x \notin lits
        BY <3>3 DEF NoOpposites
      <3>5. x \in rest => -x \notin rest
        BY <1>2, <3>1 DEF Meets, NoOpposites, Opposite
      <3> QED
        BY <1>2, <2>2, <3>2, <3>3, <3>4, <3>5
    <2>3. NoOpposites(all)
      BY <2>1, <2>2 DEF NoOpposites, Opposite
    <2>4. ASSUME NEW cl \in clauses
          PROVE  cl \cap all # {}
      <3>1. CASE cl \cap lits # {}
        BY <1>2, <3>1
      <3>2. CASE cl \cap lits = {}
        <4>1. cl \ Opposite(lits) \in Under(clauses, lits)
          BY <3>2 DEF Under
        <4>2. (cl \ Opposite(lits)) \cap rest # {}
          BY <1>2, <4>1 DEF Meets
        <4> QED
          BY <1>2, <4>2
      <3> QED
        BY <3>1, <3>2
    <2> QED
      BY <2>3, <2>4 DEF Meets
  <1>3. ASSUME HasModel(Under(clauses, lits))
        PROVE  \E all : lits \subseteq all /\ Meets(all, clauses)
    <2>1. PICK rest : Meets(rest, Under(clauses, lits))
      BY <1>3 DEF HasModel
    <2>2. lits \subseteq (rest \ Opposite(lits)) \cup lits
      OBVIOUS
    <2> QED
      BY <1>2, <2>1, <2>2
  <1> QED
    BY <1>1, <1>3 DEF HasModel

\* Literals of unit clauses and those that occur in one polarity only can be set, unless they
\* contradict each other.
LEMMA EasyLiterals ==
  ASSUME NEW clauses, FiniteClauses(clauses),
         NEW easy, easy = Units(clauses) \cup Pure(UNION clauses)
  PROVE  HasModel(clauses) <=> NoOpposites(easy) /\ HasModel(Under(clauses, easy))
  <1>1. easy \subseteq UNION clauses /\ UNION clauses \subseteq Int \ {0}
    BY DEF FiniteClauses, Units, Pure
  <1>2. ASSUME NEW e \in easy, -e \in UNION clauses
        PROVE  {e} \in clauses
    <2>1. e \in Int /\ e = -(-e)
      <3>1. e \in Int
        BY <1>1, <1>2
      <3> QED
        BY <3>1
    <2>2. e \in Opposite(UNION clauses)
      BY <1>2, <2>1 DEF Opposite
    <2>3. e \in Units(clauses)
      BY <2>2, <1>2 DEF Pure
    <2>4. PICK cl \in clauses : e \in cl /\ Cardinality(cl) = 1
      BY <2>3 DEF Units
    <2>5. IsFiniteSet(cl)
      BY FS_Subset, <2>4 DEF FiniteClauses
    <2>6. cl = {e}
      BY <2>4, <2>5, FS_Singleton
    <2> QED
      BY <2>4, <2>6
  <1>3. ASSUME NEW all, Meets(all, clauses)
        PROVE  /\ NoOpposites(easy)
               /\ Meets((all \ Opposite(easy)) \cup easy, clauses)
    <2>1. \A e \in easy : -e \in UNION clauses => e \in all
      BY <1>2, <1>3 DEF Meets
    <2>2. all \subseteq Int /\ \A x \in all : -x \notin all
      <3>1. all \subseteq Int /\ all \cap Opposite(all) = {}
        BY <1>3 DEF Meets, NoOpposites
      <3> QED
        BY <3>1 DEF Opposite
    <2>3. ASSUME NEW e \in easy, -e \in easy
          PROVE  FALSE
      <3>1. e \in Int /\ -(-e) = e
        <4>1. e \in Int
          BY <1>1
        <4> QED
          BY <4>1
      <3>2. e \in all /\ -e \in all
        BY <1>1, <2>1, <2>3, <3>1
      <3> QED
        BY <2>2, <3>2
    <2>4. NoOpposites(easy)
      BY <1>1, <2>3 DEF NoOpposites, Opposite
    <2> DEFINE set == (all \ Opposite(easy)) \cup easy
    <2>5. ASSUME NEW x \in set, -x \in set
          PROVE  FALSE
      <3>1. x \in Int /\ -(-x) = x
        BY <1>1, <2>2, <2>5
      <3>2. x \in easy => -x \in Opposite(easy)
        BY DEF Opposite
      <3>3. -x \in easy => x \in Opposite(easy)
        BY <3>1 DEF Opposite
      <3> QED
        BY <2>2, <2>3, <2>5, <3>2, <3>3
    <2>6. NoOpposites(set)
      <3>1. set \subseteq Int
        BY <1>1, <2>2
      <3> QED
        BY <2>5, <3>1 DEF NoOpposites, Opposite
    <2>7. ASSUME NEW cl \in clauses
          PROVE  cl \cap set # {}
      <3>1. PICK x \in cl : x \in all
        BY <1>3 DEF Meets
      <3>2. CASE x \in Opposite(easy)
        <4>1. PICK e \in easy : x = -e
          BY <3>2 DEF Opposite
        <4>2. e \in all
          BY <2>1, <4>1
        <4> QED
          BY <2>2, <3>1, <4>1, <4>2
      <3> QED
        BY <3>1, <3>2
    <2> QED
      BY <2>4, <2>6, <2>7 DEF Meets
  <1>4. ASSUME NoOpposites(easy), HasModel(clauses)
        PROVE  HasModel(Under(clauses, easy))
    <2>1. PICK all : Meets(all, clauses)
      BY <1>4 DEF HasModel
    <2>2. PICK set : set = (all \ Opposite(easy)) \cup easy
      OBVIOUS
    <2>3. easy \subseteq set /\ Meets(set, clauses)
      BY <1>3, <2>1, <2>2
    <2> QED
      BY <1>4, <2>3, MeetsUnder
  <1> QED
    BY <1>3, <1>4, MeetsUnder DEF HasModel

\* Otherwise some literal or its opposite holds.
LEMMA SplitLiteral ==
  ASSUME NEW clauses, NEW l \in Int \ {0}
  PROVE  HasModel(clauses) <=> HasModel(Under(clauses, {l})) \/ HasModel(Under(clauses, {-l}))
  <1>1. NoOpposites({l}) /\ NoOpposites({-l})
    BY DEF NoOpposites, Opposite
  <1>2. ASSUME NEW all, Meets(all, clauses), l \notin all, -l \notin all
        PROVE  Meets(all \cup {l}, clauses)
    BY <1>2 DEF Meets, NoOpposites, Opposite
  <1>3. ASSUME HasModel(clauses)
        PROVE  \E all : ({l} \subseteq all \/ {-l} \subseteq all) /\ Meets(all, clauses)
    <2>1. PICK all : Meets(all, clauses)
      BY <1>3 DEF HasModel
    <2> QED
      BY <1>2, <2>1
  <1> QED
    BY <1>1, <1>3, MeetsUnder DEF HasModel

\* What is left under a literal that occurs, or whose opposite does, has fewer literals.
LEMMA FewerLiterals ==
  ASSUME NEW clauses, FiniteClauses(clauses), NEW lits, lits \subseteq Int,
         NEW l \in lits, l \in UNION clauses \/ -l \in UNION clauses
  PROVE  /\ FiniteClauses(Under(clauses, lits))
         /\ Cardinality(UNION Under(clauses, lits)) < Cardinality(UNION clauses)
  <1>1. UNION Under(clauses, lits) \subseteq UNION clauses
    BY DEF Under
  <1>2. l \notin UNION Under(clauses, lits) /\ -l \notin UNION Under(clauses, lits)
    <2>1. -l \in Opposite(lits)
      BY DEF Opposite
    <2> QED
      BY <2>1 DEF Under
  <1>3. IsFiniteSet(UNION clauses) /\ UNION Under(clauses, lits) # UNION clauses
    BY <1>2 DEF FiniteClauses
  <1>4. FiniteClauses(Under(clauses, lits))
    BY <1>1, <1>3, FS_Subset DEF FiniteClauses
  <1>5. /\ Cardinality(UNION clauses) \in Nat
        /\ Cardinality(UNION Under(clauses, lits)) \in Nat
    BY <1>3, <1>4, FS_CardinalityType DEF FiniteClauses
  <1>6. /\ Cardinality(UNION Under(clauses, lits)) <= Cardinality(UNION clauses)
        /\ Cardinality(UNION Under(clauses, lits)) # Cardinality(UNION clauses)
    BY <1>1, <1>3, FS_Subset
  <1> QED
    BY <1>4, <1>5, <1>6

\* The recursion of SatSolver: one step, over what is known of fewer literals.
Fails(clauses, lits, g) == lits \cap Opposite(lits) # {} \/ g[Under(clauses, lits)]
NoModel(clauses, g) ==
  \/ {} \in clauses
  \/ clauses # {} /\ \E easy \in {Units(clauses) \cup Pure(UNION clauses)} :
       IF easy # {} THEN Fails(clauses, easy, g)
       ELSE \E l \in {CHOOSE k \in UNION clauses : TRUE} :
              Fails(clauses, {l}, g) /\ Fails(clauses, {-l}, g)
Instances == SUBSET SUBSET Int

\* What is left is an instance, too.
LEMMA UnderIsInstance ==
  ASSUME NEW clauses \in Instances, NEW lits
  PROVE  Under(clauses, lits) \in Instances
  <1>1. \A cl \in clauses : cl \ Opposite(lits) \in SUBSET Int
    BY DEF Instances
  <1> QED
    BY <1>1 DEF Under, Instances

\* It has a solution, the least one: more that is refuted refutes more.
LEMMA RefutationExists ==
  \E g : g = [clauses \in Instances |-> NoModel(clauses, g)]
  <1> DEFINE among(X) == [clauses \in Instances |-> clauses \in X]
             Closed == {X \in SUBSET Instances :
                          \A clauses \in Instances : NoModel(clauses, among(X)) => clauses \in X}
             least == {clauses \in Instances : \A X \in Closed : clauses \in X}
  <1>1. ASSUME NEW X, NEW Y, X \subseteq Y, NEW clauses \in Instances, NoModel(clauses, among(X))
        PROVE  NoModel(clauses, among(Y))
    <2>1. ASSUME NEW lits \in SUBSET Int, Fails(clauses, lits, among(X))
          PROVE  Fails(clauses, lits, among(Y))
      <3>1. Under(clauses, lits) \in Instances
        BY UnderIsInstance
      <3> QED
        BY <1>1, <2>1, <3>1 DEF Fails
    <2>2. CASE {} \in clauses
      BY <2>2 DEF NoModel
    <2>3. CASE {} \notin clauses
      <3> DEFINE easy == Units(clauses) \cup Pure(UNION clauses)
                 l == CHOOSE k \in UNION clauses : TRUE
      <3>1. /\ clauses # {}
            /\ IF easy # {} THEN Fails(clauses, easy, among(X))
               ELSE Fails(clauses, {l}, among(X)) /\ Fails(clauses, {-l}, among(X))
        BY <1>1, <2>3 DEF NoModel
      <3>2. UNION clauses \subseteq Int
        BY DEF Instances
      <3>3. easy \in SUBSET Int
        BY <3>2 DEF Units, Pure
      <3>4. l \in Int
        BY <2>3, <3>1, <3>2
      <3>5. {l} \in SUBSET Int /\ {-l} \in SUBSET Int
        BY <3>4
      <3> HIDE DEF easy, l
      <3>6. IF easy # {} THEN Fails(clauses, easy, among(Y))
            ELSE Fails(clauses, {l}, among(Y)) /\ Fails(clauses, {-l}, among(Y))
        BY <2>1, <3>1, <3>3, <3>5
      <3> QED
        BY <3>1, <3>6 DEF NoModel, easy, l
    <2> QED
      BY <2>2, <2>3
  <1> HIDE DEF among
  <1>2. \A clauses \in Instances : NoModel(clauses, among(least)) => clauses \in least
    <2> SUFFICES ASSUME NEW clauses \in Instances, NoModel(clauses, among(least)),
                        NEW X \in Closed
                 PROVE  clauses \in X
      OBVIOUS
    <2>1. least \subseteq X
      OBVIOUS
    <2>2. NoModel(clauses, among(X))
      <3> HIDE DEF least, Closed
      <3> QED
        BY <1>1, <2>1
    <2> QED
      BY <2>2
  <1>3. \A clauses \in least : NoModel(clauses, among(least))
    <2> DEFINE next == {clauses \in Instances : NoModel(clauses, among(least))}
    <2>1. next \subseteq least
      BY <1>2
    <2>2. \A clauses \in Instances : NoModel(clauses, among(next)) => NoModel(clauses, among(least))
      <3> HIDE DEF next, least
      <3> QED
        BY <1>1, <2>1
    <2>3. next \in Closed
      <3> HIDE DEF least
      <3> QED
        BY <2>2
    <2> QED
      BY <2>3
  <1>4. \A clauses \in Instances : clauses \in least <=> NoModel(clauses, among(least))
    <2> HIDE DEF least
    <2> QED
      BY <1>2, <1>3
  <1>5. among(least) = [clauses \in Instances |-> NoModel(clauses, among(least))]
    <2> HIDE DEF least
    <2>1. among(least) = [clauses \in Instances |-> clauses \in least]
      BY DEF among
    <2>2. ASSUME NEW clauses \in Instances
          PROVE  (clauses \in least) = NoModel(clauses, among(least))
      <3>1. NoModel(clauses, among(least)) \in BOOLEAN
        BY DEF NoModel
      <3>2. (clauses \in least) \in BOOLEAN
        OBVIOUS
      <3>3. clauses \in least <=> NoModel(clauses, among(least))
        BY <1>4
      <3> QED
        BY <3>1, <3>2, <3>3
    <2> QED
      BY <2>1, <2>2
  <1> QED
    BY <1>5

\* So the recursion decides satisfiability.
LEMMA RefutationDecides ==
  ASSUME NEW g, g = [clauses \in Instances |-> NoModel(clauses, g)],
         NEW clauses \in Instances, FiniteClauses(clauses)
  PROVE  g[clauses] <=> ~HasModel(clauses)
  <1> DEFINE Wrong(n) == \E cls \in Instances : /\ FiniteClauses(cls)
                                               /\ Cardinality(UNION cls) = n
                                               /\ ~(g[cls] <=> ~HasModel(cls))
             wrong == {n \in Nat : Wrong(n)}
  <1> SUFFICES ASSUME wrong # {}
               PROVE  FALSE
    BY FS_CardinalityType DEF FiniteClauses
  <1>1. PICK n \in wrong : \A k \in wrong : n <= k
    BY LeastNumber
  <1>2. PICK cls \in Instances : /\ FiniteClauses(cls) /\ Cardinality(UNION cls) = n
                                 /\ ~(g[cls] <=> ~HasModel(cls))
    BY <1>1
  <1>3. ASSUME NEW lits, lits \subseteq Int, NoOpposites(lits),
               NEW l \in lits, l \in UNION cls \/ -l \in UNION cls
        PROVE  Fails(cls, lits, g) <=> ~HasModel(Under(cls, lits))
    <2>1. Under(cls, lits) \in Instances
      BY UnderIsInstance
    <2>2. /\ FiniteClauses(Under(cls, lits))
          /\ Cardinality(UNION Under(cls, lits)) < n
      BY <1>2, <1>3, FewerLiterals
    <2>3. Cardinality(UNION Under(cls, lits)) \in Nat
      BY <2>2, FS_CardinalityType DEF FiniteClauses
    <2>4. \A k \in Nat : k < n => k \notin wrong
      <3> HIDE DEF wrong
      <3>1. n \in Nat
        BY DEF wrong
      <3> QED
        BY <1>1, <3>1
    <2>5. g[Under(cls, lits)] <=> ~HasModel(Under(cls, lits))
      BY <2>1, <2>2, <2>3, <2>4
    <2> QED
      BY <1>3, <2>5 DEF Fails, NoOpposites
  <1>4. g[cls] <=> NoModel(cls, g)
    BY <1>2
  <1>5. CASE {} \in cls
    <2>1. ~HasModel(cls)
      BY <1>5 DEF HasModel, Meets
    <2> QED
      BY <1>2, <1>4, <1>5, <2>1 DEF NoModel
  <1>6. CASE cls = {}
    <2>1. Meets({}, cls)
      BY <1>6 DEF Meets, NoOpposites, Opposite
    <2>2. ~NoModel(cls, g)
      BY <1>6 DEF NoModel
    <2> QED
      BY <1>2, <1>4, <2>1, <2>2 DEF HasModel
  <1>7. CASE {} \notin cls /\ cls # {}
    <2> DEFINE easy == Units(cls) \cup Pure(UNION cls)
               l == CHOOSE k \in UNION cls : TRUE
    <2>1. g[cls] <=> IF easy # {} THEN Fails(cls, easy, g)
                     ELSE Fails(cls, {l}, g) /\ Fails(cls, {-l}, g)
      BY <1>4, <1>7 DEF NoModel
    <2>2. easy \subseteq UNION cls /\ UNION cls \subseteq Int \ {0}
      BY <1>2 DEF FiniteClauses, Units, Pure
    <2>3. l \in UNION cls
      BY <1>7
    <2>4. HasModel(cls) <=> NoOpposites(easy) /\ HasModel(Under(cls, easy))
      BY <1>2, EasyLiterals
    <2>5. HasModel(cls) <=> HasModel(Under(cls, {l})) \/ HasModel(Under(cls, {-l}))
      BY <2>2, <2>3, SplitLiteral
    <2> HIDE DEF easy, l
    <2>6. CASE easy # {} /\ ~NoOpposites(easy)
      <3>1. Fails(cls, easy, g)
        BY <2>2, <2>6 DEF Fails, NoOpposites
      <3> QED
        BY <1>2, <2>1, <2>4, <2>6, <3>1
    <2>7. CASE easy # {} /\ NoOpposites(easy)
      <3>1. PICK e \in easy : TRUE
        BY <2>7
      <3>2. Fails(cls, easy, g) <=> ~HasModel(Under(cls, easy))
        BY <1>3, <2>2, <2>7, <3>1
      <3> QED
        BY <1>2, <2>1, <2>4, <2>7, <3>2
    <2>8. CASE easy = {}
      <3>1. l \in Int /\ l # 0 /\ -(-l) = l
        <4>1. l \in Int /\ l # 0
          BY <2>2, <2>3
        <4> QED
          BY <4>1
      <3>2. NoOpposites({l}) /\ NoOpposites({-l})
        BY <3>1 DEF NoOpposites, Opposite
      <3>3. Fails(cls, {l}, g) <=> ~HasModel(Under(cls, {l}))
        BY <1>3, <2>3, <3>1, <3>2
      <3>4. Fails(cls, {-l}, g) <=> ~HasModel(Under(cls, {-l}))
        BY <1>3, <2>3, <3>1, <3>2
      <3> QED
        BY <1>2, <2>1, <2>5, <2>8, <3>3, <3>4
    <2> QED
      BY <2>6, <2>7, <2>8
  <1> QED
    BY <1>5, <1>6, <1>7

\* Satisfiable says whether an assignment that extends what is assumed meets the clauses.
LEMMA SatisfiableIsSat ==
  ASSUME NEW clauses \in Instances, FiniteClauses(clauses),
         NEW assumed, NoOpposites(assumed)
  PROVE  Satisfiable(clauses, assumed) <=> \E all : assumed \subseteq all /\ Meets(all, clauses)
  <1> DEFINE left == Under(clauses, assumed)
             Eq(g) == [cls \in SUBSET SUBSET Int |->
               LET fails(lits) == lits \cap Opposite(lits) # {} \/ g[Under(cls, lits)]
               IN  \/ {} \in cls
                   \/ cls # {} /\ \E easy \in {Units(cls) \cup Pure(UNION cls)} :
                        IF easy # {} THEN fails(easy)
                        ELSE \E l \in {CHOOSE k \in UNION cls : TRUE} : fails({l}) /\ fails({-l})]
             inconsistent == CHOOSE g : g = Eq(g)
  <1>1. \A g : Eq(g) = [cls \in Instances |-> NoModel(cls, g)]
    BY DEF NoModel, Fails, Instances
  <1>2. Inconsistent(left) <=> {} \in left \/ inconsistent[left]
    BY DEF Inconsistent
  <1> HIDE DEF Eq
  <1>3. \E g : g = Eq(g)
    BY <1>1, RefutationExists
  <1>4. inconsistent = Eq(inconsistent)
    BY <1>3
  <1> HIDE DEF inconsistent
  <1>5. inconsistent = [cls \in Instances |-> NoModel(cls, inconsistent)]
    BY <1>1, <1>4
  <1>6. left \in Instances
    BY UnderIsInstance
  <1>7. FiniteClauses(left)
    <2>1. UNION left \subseteq UNION clauses
      BY DEF Under
    <2> QED
      BY <2>1, FS_Subset DEF FiniteClauses
  <1>8. inconsistent[left] <=> ~HasModel(left)
    <2> HIDE DEF left
    <2> QED
      BY <1>5, <1>6, <1>7, RefutationDecides
  <1>9. {} \in left => ~HasModel(left)
    BY DEF HasModel, Meets
  <1> QED
    BY <1>2, <1>8, <1>9, MeetsUnder DEF Satisfiable

\* A satisfiable call has a model, and a model is what a satisfying assignment says of the
\* named variables.
LEMMA ModelsExist ==
  ASSUME NEW clauses \in Instances, FiniteClauses(clauses),
         NEW assumed, NoOpposites(assumed), Satisfiable(clauses, assumed),
         NEW named, named \subseteq Nat \ {0}
  PROVE  SatModels(clauses, assumed, named) # {}
  <1>1. PICK all : assumed \subseteq all /\ Meets(all, clauses)
    BY SatisfiableIsSat
  <1> DEFINE free == named \ Atoms(assumed)
             pos == free \cap all
             chosen == {IF a \in pos THEN a ELSE -a : a \in free}
             m == assumed \cup chosen
             more == all \cup m
  <1>2. /\ all \subseteq Int /\ \A x \in all : -x \notin all
    <2>1. all \subseteq Int /\ all \cap Opposite(all) = {}
      BY <1>1 DEF Meets, NoOpposites
    <2> QED
      BY <2>1 DEF Opposite
  <1>3. \A a \in free : a \in Nat /\ a # 0 /\ -(-a) = a
    <2>1. \A a \in free : a \in Nat /\ a # 0
      OBVIOUS
    <2> HIDE DEF free
    <2> QED
      BY <2>1
  <1>4. \A x \in more : x \in all \/ \E a \in free : a \notin all /\ x = -a
    BY <1>1
  <1>5. ASSUME NEW x \in more, -x \in more
        PROVE  FALSE
    <2> HIDE DEF more, free
    <2>1. CASE x \in all /\ -x \in all
      BY <1>2, <2>1
    <2>2. CASE x \in all /\ \E a \in free : a \notin all /\ -x = -a
      <3>1. PICK a \in free : a \notin all /\ -x = -a
        BY <2>2
      <3>2. x \in Int /\ a \in Int
        BY <1>2, <1>3, <2>2
      <3> QED
        BY <2>2, <3>1, <3>2
    <2>3. CASE (\E a \in free : a \notin all /\ x = -a) /\ -x \in all
      <3>1. PICK a \in free : a \notin all /\ x = -a
        BY <2>3
      <3> QED
        BY <1>3, <2>3, <3>1
    <2>4. CASE /\ \E a \in free : a \notin all /\ x = -a
               /\ \E b \in free : b \notin all /\ -x = -b
      <3>1. PICK a \in free, b \in free : x = -a /\ -x = -b
        BY <2>4
      <3>2. a \in Nat /\ b \in Nat /\ a # 0 /\ b # 0
        BY <1>3
      <3> QED
        BY <3>1, <3>2
    <2> QED
      BY <1>4, <1>5, <2>1, <2>2, <2>3, <2>4
  <1>6. more \subseteq Int
    <2>1. \A a \in free : -a \in Int
      <3> HIDE DEF free
      <3> QED
        BY <1>3
    <2> HIDE DEF more, free
    <2> QED
      BY <1>2, <1>4, <2>1
  <1>7. NoOpposites(more) /\ NoOpposites(m)
    <2>1. NoOpposites(more)
      <3> HIDE DEF more
      <3> QED
        BY <1>5, <1>6 DEF NoOpposites, Opposite
    <2>2. m \subseteq more
      OBVIOUS
    <2> HIDE DEF m, more
    <2> QED
      BY <2>1, <2>2 DEF NoOpposites, Opposite
  <1>8. m \subseteq more /\ Meets(more, clauses)
    <2>1. \A cl \in clauses : cl \cap all # {}
      BY <1>1 DEF Meets
    <2>2. \A cl \in clauses : cl \cap more # {}
      BY <2>1
    <2> QED
      BY <1>7, <2>2 DEF Meets
  <1>9. Satisfiable(clauses, m)
    <2> HIDE DEF m, more
    <2> QED
      BY <1>7, <1>8, SatisfiableIsSat
  <1>10. pos \in SUBSET free
    OBVIOUS
  <1> QED
    BY <1>9, <1>10 DEF SatModels

-----------------------------------------------------------------------------
(***************************************************************************)
(* An instance and its dual.  Whatever satisfies them both under the same  *)
(* variables and opposite t-literals, never are the two b-literals of one  *)
(* gate on: the owner of the scope and the opponent cannot both have the   *)
(* gate decided for them.                                                  *)
(***************************************************************************)
\* The gates that an instance has clauses for.
HasClauses(c, s, g) ==
  g \in RelevantGates(c, s) /\ ~OnlyInner(c, s, g) /\ ~(CurrentMax(c, s, g) < c.depth[s])

\* Two sets of literals that agree on the scope's variables and disagree on t-literals.
Dualised(c, s, T, a, n) ==
  /\ \A i \in Nodes(c) : OwnVariable(c, s, i) => ~(i \in a /\ -i \in n) /\ ~(-i \in a /\ i \in n)
  /\ \A t \in T : ~(t \in a /\ t \in n)

\* Depths are numbers.
DepthsInt(c, s) == c.depth[s] \in Int /\ \A i \in Nodes(c) : CurrentMax(c, s, i) \in Int

\* The clauses of a gate that is an AND for the player, once its b-literal is on.
LEMMA AndIsMet ==
  ASSUME NEW c, NEW s, NEW q, NEW B, NEW T, NEW a, Meets(a, BuildSatInstance(c, s, q, B, T)),
         NEW g \in Nodes(c), HasClauses(c, s, g), GateTypeFor(c, g, q) = "and", g \in a
  PROVE  /\ \A l \in Range(c.node[g].inputs) : \A cl \in AndInput(c, s, q, B, T, l) : cl \cap a # {}
         /\ \A t \in TLitIfShared(c, T, g) : t \in a
  <1>1. EncodeAndGate(c, s, q, B, T, g) \subseteq BuildSatInstance(c, s, q, B, T)
    BY DEF HasClauses, EncodeGate, BuildSatInstance
  <1>2. -g \notin a
    BY DEF Meets, NoOpposites, Opposite
  <1> DEFINE thens == (UNION {AndInput(c, s, q, B, T, l) : l \in Range(c.node[g].inputs)})
                      \cup {{t} : t \in TLitIfShared(c, T, g)}
  <1>3. \A then \in thens : {-g} \cup then \in EncodeAndGate(c, s, q, B, T, g)
    BY DEF EncodeAndGate, BLit
  <1>4. \A then \in thens : then \cap a # {}
    <2> HIDE DEF thens
    <2> TAKE then \in thens
    <2>1. ({-g} \cup then) \cap a # {}
      BY <1>1, <1>3 DEF Meets
    <2> QED
      BY <1>2, <2>1
  <1>5. \A t \in TLitIfShared(c, T, g) : {t} \in thens
    OBVIOUS
  <1>6. \A l \in Range(c.node[g].inputs) : \A cl \in AndInput(c, s, q, B, T, l) : cl \in thens
    OBVIOUS
  <1> HIDE DEF thens
  <1> QED
    BY <1>4, <1>5, <1>6

\* Nor are the two sides of one input of a gate, if its own b-literals are not both on.
LEMMA InputsApart ==
  ASSUME NEW c, Shape(c), NEW s, DepthsInt(c, s), NEW q \in {"exists", "forall"},
         NEW B, NEW T, NEW a, NEW n, Dualised(c, s, T, a, n),
         NEW g \in Nodes(c), NEW l \in Range(c.node[g].inputs), ~IsScopeNode(c, LitVar(l)),
         \A cl \in AndInput(c, s, q, B, T, l) : cl \cap a # {},
         HasClauses(c, s, LitVar(l)) => ~(LitVar(l) \in a /\ LitVar(l) \in n)
  PROVE  OrInput(c, s, Dual(q), T, l) \cap n = {}
  <1> DEFINE i == LitVar(l)
  <1> SUFFICES ASSUME NEW x \in OrInput(c, s, Dual(q), T, l), x \in n
               PROVE  FALSE
    OBVIOUS
  <1>1. i \in Nodes(c) /\ l \in Int
    <2>1. c.node[g].inputs \in Seq(Int) /\ LitVar(l) \in Nodes(c)
      BY NodeNumbers
    <2> QED
      BY <2>1 DEF Range
  <1>2. NodeIsRelevant(c, s, i) /\ ~OnlyInner(c, s, i)
    BY DEF OrInput
  <1>3. CASE IsVar(c, i)
    <2>1. ~IsGate(c, i)
      BY <1>3 DEF IsGate, IsVar
    <2>2. OwnVariable(c, s, i) /\ x = TransformedInput(c, Dual(q), l)
      BY <1>2, <1>3, <2>1 DEF OrInput
    <2>3. AndInput(c, s, q, B, T, l) = {{TransformedInput(c, q, l)}}
      BY <1>2, <1>3, <2>1, <2>2 DEF AndInput
    <2>4. TransformedInput(c, q, l) \in a
      BY <2>3
    <2>5. /\ {TransformedInput(c, q, l), TransformedInput(c, Dual(q), l)} = {l, -l}
          /\ TransformedInput(c, q, l) # TransformedInput(c, Dual(q), l)
      <3>1. l # -l
        BY <1>1, NodeNumbers DEF LitVar
      <3> QED
        BY <1>3, <3>1 DEF TransformedInput, Dual
    <2>6. i \in {l, -l} /\ {l, -l} = {i, -i}
      BY <1>1 DEF LitVar
    <2>7. \/ TransformedInput(c, q, l) = i /\ x = -i
          \/ TransformedInput(c, q, l) = -i /\ x = i
      BY <2>2, <2>5, <2>6
    <2> QED
      BY <1>1, <2>2, <2>4, <2>7 DEF Dualised
  <1>4. CASE IsGate(c, i) /\ CurrentMax(c, s, i) < c.depth[s]
    <2>1. ~IsVar(c, i)
      BY <1>4 DEF IsGate, IsVar
    <2>2. x \in TLitIfShared(c, T, i)
      BY <1>2, <1>4, <2>1 DEF OrInput
    <2>3. ~(CurrentMax(c, s, i) > c.depth[s])
      BY <1>1, <1>4 DEF DepthsInt
    <2>4. AndInput(c, s, q, B, T, l) = {{t} : t \in TLitIfShared(c, T, i)}
      BY <1>2, <1>4, <2>1, <2>3 DEF AndInput
    <2>5. {x} \cap a # {} /\ x \in T
      BY <2>2, <2>4 DEF TLitIfShared
    <2> QED
      BY <2>5 DEF Dualised
  <1>5. CASE IsGate(c, i) /\ ~(CurrentMax(c, s, i) < c.depth[s])
    <2>1. ~IsVar(c, i)
      BY <1>5 DEF IsGate, IsVar
    <2>2. x = i /\ (GateTypeFor(c, i, Dual(q)) = "or" \/ CurrentMax(c, s, i) = c.depth[s])
      BY <1>2, <1>5, <2>1 DEF OrInput, BLit
    <2>3. GateTypeFor(c, i, Dual(q)) = "or" => GateTypeFor(c, i, q) = "and"
      BY <1>5 DEF GateTypeFor, Dual, DualGate, IsGate
    <2>4. ~(CurrentMax(c, s, i) > c.depth[s] /\ GateTypeFor(c, i, q) = "or")
      BY <1>1, <2>2, <2>3 DEF DepthsInt
    <2>5. {i} \in AndInput(c, s, q, B, T, l)
      BY <1>2, <1>5, <2>1, <2>4 DEF AndInput, BLit
    <2>6. i \in a
      BY <2>5
    <2>7. HasClauses(c, s, i)
      BY <1>1, <1>2, <1>5 DEF HasClauses, RelevantGates, RelevantNodes
    <2> QED
      BY <2>2, <2>6, <2>7
  <1> QED
    BY <1>1, <1>3, <1>4, <1>5, NodeNumbers DEF IsVar, IsGate, IsScopeNode

\* A gate that is an AND for the one player is not on for both.
LEMMA AndNotBoth ==
  ASSUME NEW c, Shape(c), \A i \in Nodes(c) : ~IsScopeNode(c, i),
         NEW s, DepthsInt(c, s), NEW q \in {"exists", "forall"}, NEW B, NEW T,
         NEW a, Meets(a, BuildSatInstance(c, s, q, B, T)),
         NEW n, Meets(n, BuildSatInstance(c, s, Dual(q), B, T)), Dualised(c, s, T, a, n),
         NEW g \in Nodes(c), HasClauses(c, s, g), GateTypeFor(c, g, q) = "and",
         \A i \in Inputs(c, g) : HasClauses(c, s, i) => ~(i \in a /\ i \in n)
  PROVE  ~(g \in a /\ g \in n)
  <1> SUFFICES ASSUME g \in a, g \in n
               PROVE  FALSE
    OBVIOUS
  <1>1. /\ \A l \in Range(c.node[g].inputs) : \A cl \in AndInput(c, s, q, B, T, l) : cl \cap a # {}
        /\ \A t \in TLitIfShared(c, T, g) : t \in a
    BY AndIsMet
  <1>2. GateTypeFor(c, g, Dual(q)) # "and"
    BY DEF GateTypeFor, Dual, DualGate, HasClauses, RelevantGates, IsGate
  <1>3. EncodeOrGate(c, s, Dual(q), T, g) \subseteq BuildSatInstance(c, s, Dual(q), B, T)
    BY <1>2 DEF HasClauses, EncodeGate, BuildSatInstance
  <1>4. -g \notin n
    BY DEF Meets, NoOpposites, Opposite
  <1>5. PICK x \in n : \/ \E l \in Range(c.node[g].inputs) : x \in OrInput(c, s, Dual(q), T, l)
                       \/ x \in TLitIfShared(c, T, g)
    BY <1>3, <1>4 DEF Meets, EncodeOrGate, BLit
  <1>6. ASSUME NEW l \in Range(c.node[g].inputs)
        PROVE  x \notin OrInput(c, s, Dual(q), T, l)
    <2>1. LitVar(l) \in Nodes(c) /\ LitVar(l) \in Inputs(c, g)
      BY NodeNumbers DEF Inputs
    <2> QED
      BY <1>1, <2>1, InputsApart
  <1>7. x \notin TLitIfShared(c, T, g)
    BY <1>1 DEF Dualised, TLitIfShared
  <1> QED
    BY <1>5, <1>6, <1>7

\* No gate is, whatever it is for either.
LEMMA NotBoth ==
  ASSUME NEW c, Shape(c), \A i \in Nodes(c) : ~IsScopeNode(c, i),
         NEW s, DepthsInt(c, s), NEW q \in {"exists", "forall"}, NEW B, NEW T,
         NEW a, Meets(a, BuildSatInstance(c, s, q, B, T)),
         NEW n, Meets(n, BuildSatInstance(c, s, Dual(q), B, T)), Dualised(c, s, T, a, n)
  PROVE  \A g \in Nodes(c) : HasClauses(c, s, g) => ~(g \in a /\ g \in n)
  <1> DEFINE bad == {g \in Nodes(c) : HasClauses(c, s, g) /\ g \in a /\ g \in n}
  <1> SUFFICES ASSUME bad # {}
               PROVE  FALSE
    OBVIOUS
  <1>1. bad \in SUBSET Nat
    BY NodeNumbers
  <1>2. PICK g \in bad : \A j \in bad : g <= j
    BY <1>1, LeastNumber
  <1>3. g \in Nodes(c) /\ HasClauses(c, s, g) /\ g \in a /\ g \in n
    BY <1>2
  <1>4. \A i \in Inputs(c, g) : HasClauses(c, s, i) => ~(i \in a /\ i \in n)
    <2>1. \A i \in Inputs(c, g) : i \in Nodes(c) /\ i \in 1 .. g - 1 /\ g \in Nat
      BY <1>1, <1>3, NodeNumbers DEF Shape, NodesInOrder, Inputs
    <2> QED
      BY <1>2, <2>1
  <1>5. GateTypeFor(c, g, q) = "and" \/ GateTypeFor(c, g, Dual(q)) = "and"
    BY <1>3 DEF GateTypeFor, Dual, DualGate, HasClauses, RelevantGates, IsGate
  <1>6. Dual(q) \in {"exists", "forall"} /\ Dual(Dual(q)) = q
    BY DEF Dual
  <1>7. Dualised(c, s, T, n, a)
    BY DEF Dualised
  <1>8. CASE GateTypeFor(c, g, q) = "and"
    BY <1>3, <1>4, <1>8, AndNotBoth
  <1>9. CASE GateTypeFor(c, g, Dual(q)) = "and"
    <2>1. \A i \in Inputs(c, g) : HasClauses(c, s, i) => ~(i \in n /\ i \in a)
      BY <1>4
    <2>2. Meets(a, BuildSatInstance(c, s, Dual(Dual(q)), B, T))
      BY <1>6
    <2> QED
      BY <1>3, <1>6, <1>7, <1>9, <2>1, <2>2, AndNotBoth
  <1> QED
    BY <1>5, <1>8, <1>9

\* Without inner scopes an input adds to an inlined OR gate what it adds to any OR gate.
LEMMA AppendedIsInput ==
  ASSUME NEW c, Shape(c), NEW s, DepthsInt(c, s), NEW q, NEW T, NEW g, NEW nested, NEW l,
         LitVar(l) \in Nodes(c), ~IsScopeNode(c, LitVar(l)),
         ~OnlyInner(c, s, LitVar(l)), ~(CurrentMax(c, s, LitVar(l)) > c.depth[s])
  PROVE  AppendedInput(c, s, q, T, g, l, nested) \subseteq OrInput(c, s, q, T, l)
  <1> DEFINE i == LitVar(l)
  <1>1. ~(IsVar(c, i) /\ IsGate(c, i))
    BY DEF IsVar, IsGate
  <1>2. \/ CurrentMax(c, s, i) < c.depth[s] /\ CurrentMax(c, s, i) # c.depth[s]
        \/ CurrentMax(c, s, i) = c.depth[s] /\ ~(CurrentMax(c, s, i) < c.depth[s])
    BY DEF DepthsInt
  <1>3. CASE ~NodeIsRelevant(c, s, i)
    BY <1>3 DEF AppendedInput
  <1>4. CASE NodeIsRelevant(c, s, i) /\ IsVar(c, i)
    BY <1>1, <1>4 DEF AppendedInput, OrInput
  <1>5. CASE NodeIsRelevant(c, s, i) /\ IsGate(c, i)
    <2>1. AppendedInput(c, s, q, T, g, l, nested) =
            IF CurrentMax(c, s, i) < c.depth[s] THEN TLitIfShared(c, T, i) ELSE {BLit(i)}
      BY <1>1, <1>2, <1>5 DEF AppendedInput
    <2>2. OrInput(c, s, q, T, l) =
            IF CurrentMax(c, s, i) < c.depth[s] THEN TLitIfShared(c, T, i) ELSE {BLit(i)}
      BY <1>1, <1>2, <1>5 DEF OrInput
    <2> QED
      BY <2>1, <2>2
  <1>6. IsVar(c, i) \/ IsGate(c, i)
    BY NodeNumbers DEF IsVar, IsGate, IsScopeNode
  <1> QED
    BY <1>3, <1>4, <1>5, <1>6

\* The output gate is on for the one player, and an OR of which nothing is on for the other.
LEMMA AndOutputNotBoth ==
  ASSUME NEW c, Shape(c), \A i \in Nodes(c) : ~IsScopeNode(c, i),
         NEW s, DepthsInt(c, s), NEW q \in {"exists", "forall"}, NEW B, NEW T,
         NEW a, Meets(a, BuildSatInstance(c, s, q, B, T)),
         NEW n, Meets(n, BuildSatInstance(c, s, Dual(q), B, T)), Dualised(c, s, T, a, n),
         \A i \in Nodes(c) : ~OnlyInner(c, s, i) /\ ~(CurrentMax(c, s, i) > c.depth[s]),
         HasClauses(c, s, c.output), c.output \notin B, GateTypeFor(c, c.output, q) = "and"
  PROVE  FALSE
  <1> DEFINE g == c.output
             left(l) == AppendOrGate(c, s, Dual(q), B, T, LitVar(l))
  <1>1. g \in Nodes(c) /\ GateTypeFor(c, g, Dual(q)) # "and"
    BY DEF GateTypeFor, Dual, DualGate, HasClauses, RelevantGates, IsGate, Shape, CircuitType
  <1>2. g \in a
    <2>1. {g} \in BuildSatInstance(c, s, q, B, T)
      BY DEF BuildSatInstance, FixOutputValue, BLit
    <2> QED
      BY <2>1 DEF Meets
  <1>3. AppendOrGate(c, s, Dual(q), B, T, g) \cap n # {}
    <2>1. AppendOrGate(c, s, Dual(q), B, T, g) \in BuildSatInstance(c, s, Dual(q), B, T)
      BY <1>1 DEF BuildSatInstance, FixOutputValue
    <2> QED
      BY <2>1 DEF Meets
  <1>4. AppendOrGate(c, s, Dual(q), B, T, g) =
          (UNION {AppendedInput(c, s, Dual(q), T, g, l, left(l)) : l \in Range(c.node[g].inputs)})
          \cup TLitIfShared(c, T, g)
    BY <1>1, AppendUnfolds DEF BLit
  <1> HIDE DEF left
  <1>5. PICK x \in n : \/ \E l \in Range(c.node[g].inputs) :
                            x \in AppendedInput(c, s, Dual(q), T, g, l, left(l))
                       \/ x \in TLitIfShared(c, T, g)
    BY <1>3, <1>4
  <1>6. /\ \A l \in Range(c.node[g].inputs) : \A cl \in AndInput(c, s, q, B, T, l) : cl \cap a # {}
        /\ \A t \in TLitIfShared(c, T, g) : t \in a
    BY <1>1, <1>2, AndIsMet
  <1>7. ASSUME NEW l \in Range(c.node[g].inputs)
        PROVE  x \notin AppendedInput(c, s, Dual(q), T, g, l, left(l))
    <2>1. LitVar(l) \in Nodes(c)
      BY <1>1, NodeNumbers
    <2>2. AppendedInput(c, s, Dual(q), T, g, l, left(l)) \subseteq OrInput(c, s, Dual(q), T, l)
      BY <2>1, AppendedIsInput
    <2>3. HasClauses(c, s, LitVar(l)) => ~(LitVar(l) \in a /\ LitVar(l) \in n)
      BY <2>1, NotBoth
    <2> HIDE DEF g
    <2>4. OrInput(c, s, Dual(q), T, l) \cap n = {}
      BY <1>1, <1>6, <2>1, <2>3, InputsApart
    <2> QED
      BY <2>2, <2>4
  <1>8. x \notin TLitIfShared(c, T, g)
    BY <1>6 DEF Dualised, TLitIfShared
  <1> QED
    BY <1>5, <1>7, <1>8

\* In the innermost scope an instance and its dual exclude each other.
LEMMA OutputNotBoth ==
  ASSUME NEW c, Shape(c), \A i \in Nodes(c) : ~IsScopeNode(c, i),
         NEW s, DepthsInt(c, s), NEW q \in {"exists", "forall"}, NEW B, NEW T,
         NEW a, Meets(a, BuildSatInstance(c, s, q, B, T)),
         NEW n, Meets(n, BuildSatInstance(c, s, Dual(q), B, T)), Dualised(c, s, T, a, n),
         \A i \in Nodes(c) : ~OnlyInner(c, s, i) /\ ~(CurrentMax(c, s, i) > c.depth[s]),
         HasClauses(c, s, c.output), c.output \notin B
  PROVE  FALSE
  <1>1. GateTypeFor(c, c.output, q) = "and" \/ GateTypeFor(c, c.output, Dual(q)) = "and"
    BY DEF GateTypeFor, Dual, DualGate, HasClauses, RelevantGates, IsGate
  <1>2. Dual(q) \in {"exists", "forall"} /\ Dual(Dual(q)) = q
    BY DEF Dual
  <1>3. Dualised(c, s, T, n, a) /\ Meets(a, BuildSatInstance(c, s, Dual(Dual(q)), B, T))
    BY <1>2 DEF Dualised
  <1>4. CASE GateTypeFor(c, c.output, q) = "and"
    BY <1>4, AndOutputNotBoth
  <1>5. CASE GateTypeFor(c, c.output, Dual(q)) = "and"
    BY <1>2, <1>3, <1>5, AndOutputNotBoth
  <1> QED
    BY <1>1, <1>4, <1>5
=============================================================================

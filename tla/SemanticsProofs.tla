----------------------------- MODULE SemanticsProofs -----------------------------
(***************************************************************************)
(* Lemmas about the semantics of encoded circuits (QbfSemantics), and how  *)
(* the encodings of a scope (CircuitAbstraction) relate to it: whenever    *)
(* the formula is not lost for a player, a model of the player's encoding  *)
(* can be read off the assignment, and what an instance refutes that       *)
(* accepts these models is lost (LabelledSays).                            *)
(***************************************************************************)
EXTENDS CircuitProofs

-----------------------------------------------------------------------------
(***************************************************************************)
(* The reference: what a partial assignment decides of a node.             *)
(***************************************************************************)
\* What is used of nodes besides their order.
NodeShapes(c) ==
  \A i \in Nodes(c) :
    /\ IsVar(c, i) => c.node[i].inputs = <<>> /\ c.node[i].scope \in Scopes(c)
    /\ IsScopeNode(c, i) => ~IsVar(c, LitVar(c.node[i].inputs[1]))

Truths == {-1, 0, 1}

\* A node's value from the values `in' of its inputs.
FromInputs(c, i, a, in) ==
  CASE IsVar(c, i) -> IF i \in a THEN 1 ELSE IF -i \in a THEN -1 ELSE 0
    [] c.node[i].type = "and" ->
         IF -1 \in in \/ Conflict(c, i) THEN -1 ELSE IF 0 \in in THEN 0 ELSE 1
    [] c.node[i].type = "or" ->
         IF 1 \in in \/ Conflict(c, i) THEN 1 ELSE IF 0 \in in THEN 0 ELSE -1
    [] IsScopeNode(c, i) -> Min(in)

InputTruths(c, i, val) == {Signed(l, val[LitVar(l)]) : l \in Range(c.node[i].inputs)}

\* The cases one by one.
LEMMA FromInputsCases ==
  ASSUME NEW c, NEW i, NEW a, NEW in
  PROVE  /\ c.node[i].type = "var" =>
              FromInputs(c, i, a, in) = IF i \in a THEN 1 ELSE IF -i \in a THEN -1 ELSE 0
         /\ c.node[i].type = "and" =>
              FromInputs(c, i, a, in) =
                IF -1 \in in \/ Conflict(c, i) THEN -1 ELSE IF 0 \in in THEN 0 ELSE 1
         /\ c.node[i].type = "or" =>
              FromInputs(c, i, a, in) =
                IF 1 \in in \/ Conflict(c, i) THEN 1 ELSE IF 0 \in in THEN 0 ELSE -1
         /\ c.node[i].type = "scope" => FromInputs(c, i, a, in) = Min(in)
  BY DEF FromInputs, IsVar, IsScopeNode

\* Values of inputs give a value.
LEMMA FromInputsType ==
  ASSUME NEW c, Shape(c), NEW a, NEW i \in Nodes(c), NEW val \in [Nodes(c) -> Truths]
  PROVE  FromInputs(c, i, a, InputTruths(c, i, val)) \in Truths
  <1>1. CASE IsScopeNode(c, i)
    <2>1. c.node[i].inputs \in Seq(Int) /\ Len(c.node[i].inputs) = 1
      BY <1>1, NodeNumbers DEF Shape
    <2>2. Range(c.node[i].inputs) = {c.node[i].inputs[1]}
      BY <2>1 DEF Range
    <2>3. c.node[i].inputs[1] \in Range(c.node[i].inputs)
      BY <2>2
    <2>4. LitVar(c.node[i].inputs[1]) \in Nodes(c)
      BY <2>3, NodeNumbers
    <2>5. PICK x \in Truths : InputTruths(c, i, val) = {x}
      BY <2>2, <2>4 DEF InputTruths, Truths, Signed
    <2>6. Min({x}) = x
      BY <2>5 DEF Min, Truths
    <2> QED
      BY <1>1, <2>5, <2>6 DEF FromInputs, IsScopeNode, IsVar
  <1>2. CASE ~IsScopeNode(c, i)
    <2>1. c.node[i].type \in {"var", "and", "or"}
      BY <1>2, NodeNumbers DEF IsScopeNode
    <2> QED
      BY <1>2, <2>1 DEF FromInputs, Truths, IsVar, IsScopeNode
  <1> QED
    BY <1>1, <1>2

\* DecidedValue is defined by recursion over the nodes: its equation has a solution.
LEMMA Decided ==
  ASSUME NEW c, Shape(c), NEW a
  PROVE  \E val \in [Nodes(c) -> Truths] :
           \A i \in Nodes(c) : /\ DecidedValue(c, i, a) = val[i]
                               /\ val[i] = FromInputs(c, i, a, InputTruths(c, i, val))
  <1> DEFINE Eq(g) == [i \in Nodes(c) |->
               LET in == {Signed(l, g[LitVar(l)]) : l \in Range(c.node[i].inputs)}
               IN  CASE IsVar(c, i) -> IF i \in a THEN 1 ELSE IF -i \in a THEN -1 ELSE 0
                     [] c.node[i].type = "and" ->
                          IF -1 \in in \/ Conflict(c, i) THEN -1 ELSE IF 0 \in in THEN 0 ELSE 1
                     [] c.node[i].type = "or" ->
                          IF 1 \in in \/ Conflict(c, i) THEN 1 ELSE IF 0 \in in THEN 0 ELSE -1
                     [] IsScopeNode(c, i) -> Min(in)]
             val == CHOOSE g : g = Eq(g)
             A == [Nodes(c) -> Truths]
             rule == [i \in Nodes(c) |-> [f \in A |-> FromInputs(c, i, a, InputTruths(c, i, f))]]
             none == [i \in Nodes(c) |-> 0]
             N == MaxNum(c)
  <1>1. \A g : Eq(g) = [i \in Nodes(c) |-> FromInputs(c, i, a, InputTruths(c, i, g))]
    BY DEF FromInputs, InputTruths
  <1>2. N \in Nat /\ Nodes(c) = 1 .. N
    BY NodeNumbers DEF Nodes
  <1>3. none \in [1 .. N -> Truths]
    BY <1>2 DEF Truths
  <1>4. rule \in [1 .. N -> [[1 .. N -> Truths] -> Truths]]
    BY <1>2, FromInputsType
  <1>5. LooksBelow(rule, N, Truths)
    <2>1. ASSUME NEW i \in 1 .. N, NEW f \in [1 .. N -> Truths], NEW g \in [1 .. N -> Truths],
                 \A j \in 1 .. i - 1 : f[j] = g[j]
          PROVE  rule[i][f] = rule[i][g]
      <3>1. \A l \in Range(c.node[i].inputs) : f[LitVar(l)] = g[LitVar(l)]
        BY <1>2, <2>1 DEF Shape, NodesInOrder
      <3>2. InputTruths(c, i, f) = InputTruths(c, i, g)
        BY <3>1 DEF InputTruths
      <3> QED
        BY <1>2, <3>2
    <2> HIDE DEF rule
    <2> QED
      BY <2>1 DEF LooksBelow
  <1> HIDE DEF none
  <1>6. PICK g : Obeys(g, rule, N, Truths)
    <2> HIDE DEF rule, N
    <2> QED
      BY <1>3, <1>4, <1>5, <1>2, RecursiveFunction
  <1>7. g \in A
    BY <1>6, <1>2 DEF Obeys
  <1>8. ASSUME NEW i \in Nodes(c)
         PROVE  g[i] = FromInputs(c, i, a, InputTruths(c, i, g))
    BY <1>6, <1>2, <1>7 DEF Obeys
  <1> HIDE DEF A, rule
  <1>9. g = Eq(g)
    <2>1. g = [i \in Nodes(c) |-> FromInputs(c, i, a, InputTruths(c, i, g))]
      BY <1>7, <1>8 DEF A
    <2> HIDE DEF Eq
    <2> QED
      BY <1>1, <2>1
  <1>10. val = Eq(val)
    BY <1>9
  <1>11. \A i \in Nodes(c) : DecidedValue(c, i, a) = val[i]
    BY DEF DecidedValue
  <1> HIDE DEF val, Eq
  <1>12. val = [i \in Nodes(c) |-> FromInputs(c, i, a, InputTruths(c, i, val))]
    BY <1>1, <1>10
  <1>13. ASSUME NEW i \in Nodes(c), \A j \in Nodes(c) : j < i => val[j] = g[j]
         PROVE  val[i] = g[i]
    <2>1. ASSUME NEW l \in Range(c.node[i].inputs)
          PROVE  val[LitVar(l)] = g[LitVar(l)]
      <3>1. LitVar(l) \in 1 .. i - 1 /\ LitVar(l) \in Nodes(c) /\ i \in Nat
        BY <1>2, NodeNumbers DEF Shape, NodesInOrder
      <3> QED
        BY <1>13, <3>1
    <2>2. InputTruths(c, i, val) = InputTruths(c, i, g)
      BY <2>1 DEF InputTruths
    <2> QED
      BY <1>8, <1>12, <2>2
  <1>14. \A i \in Nodes(c) : val[i] = g[i]
    <2> DEFINE T == {i \in Nodes(c) : val[i] # g[i]}
    <2> SUFFICES ASSUME T # {}
                 PROVE  FALSE
      OBVIOUS
    <2>1. T \in SUBSET Nat
      BY <1>2
    <2>2. PICK i \in T : \A j \in T : i <= j
      BY <2>1, LeastNumber
    <2>3. \A j \in Nodes(c) : j < i => val[j] = g[j]
      BY <2>1, <2>2
    <2> QED
      BY <1>13, <2>2, <2>3
  <1> QED
    BY <1>7, <1>11, <1>12, <1>14 DEF A

\* So every node is decided by its inputs.
InputsDecided(c, i, a) ==
  {Signed(l, DecidedValue(c, LitVar(l), a)) : l \in Range(c.node[i].inputs)}

\* The equation, node by node.
LEMMA DecidedNode ==
  ASSUME NEW c, Shape(c), NEW a, NEW i \in Nodes(c)
  PROVE  /\ DecidedValue(c, i, a) \in Truths
         /\ DecidedValue(c, i, a) = FromInputs(c, i, a, InputsDecided(c, i, a))
  <1>1. PICK val \in [Nodes(c) -> Truths] :
          \A j \in Nodes(c) : /\ DecidedValue(c, j, a) = val[j]
                              /\ val[j] = FromInputs(c, j, a, InputTruths(c, j, val))
    BY Decided
  <1>2. \A l \in Range(c.node[i].inputs) : DecidedValue(c, LitVar(l), a) = val[LitVar(l)]
    BY <1>1, NodeNumbers
  <1>3. InputsDecided(c, i, a) = InputTruths(c, i, val)
    BY <1>2 DEF InputsDecided, InputTruths
  <1> QED
    BY <1>1, <1>3

\* A scope node has the value of the subformula below it.
LEMMA DecidedScopeNode ==
  ASSUME NEW c, Shape(c), NodeShapes(c), NEW a, NEW i \in Nodes(c), IsScopeNode(c, i),
         NEW sub, sub = LitVar(c.node[i].inputs[1])
  PROVE  /\ sub \in Nodes(c) /\ sub < i /\ ~IsVar(c, sub)
         /\ DecidedValue(c, i, a) = DecidedValue(c, sub, a)
  <1> PICK l : l = c.node[i].inputs[1]
    OBVIOUS
  <1>1. c.node[i].inputs \in Seq(Int) /\ Len(c.node[i].inputs) = 1
    BY NodeNumbers DEF Shape
  <1>2. Range(c.node[i].inputs) = {l}
    BY <1>1 DEF Range
  <1>3. sub \in Nodes(c) /\ sub \in 1 .. i - 1 /\ (l < 0 => IsVar(c, sub))
    BY <1>2, NodeNumbers DEF Shape, NodesInOrder
  <1>4. ~IsVar(c, sub)
    BY DEF NodeShapes
  <1>5. l \in Int
    BY <1>1
  <1>6. InputsDecided(c, i, a) = {DecidedValue(c, sub, a)}
    BY <1>2, <1>3, <1>4, <1>5 DEF InputsDecided, Signed
  <1>7. DecidedValue(c, sub, a) \in Truths
    BY <1>3, DecidedNode
  <1>8. Min({DecidedValue(c, sub, a)}) = DecidedValue(c, sub, a)
    BY <1>7 DEF Min, Truths
  <1>9. DecidedValue(c, i, a) = Min(InputsDecided(c, i, a))
    <2>1. DecidedValue(c, i, a) = FromInputs(c, i, a, InputsDecided(c, i, a))
      BY DecidedNode
    <2> QED
      BY <2>1 DEF FromInputs, IsVar, IsScopeNode
  <1>10. sub < i
    BY <1>3, NodeNumbers
  <1> QED
    BY <1>3, <1>4, <1>6, <1>8, <1>9, <1>10

\* No variable is assigned twice.
Consistent(a) == \A l \in a : -l \notin a

\* More of an assignment decides more, and the same way.
LEMMA DecidedMore ==
  ASSUME NEW c, Shape(c), NodeShapes(c), NEW a, NEW b, a \subseteq b, Consistent(b),
         NEW i \in Nodes(c), DecidedValue(c, i, a) # 0
  PROVE  DecidedValue(c, i, b) = DecidedValue(c, i, a)
  <1> DEFINE T == {j \in Nodes(c) : /\ DecidedValue(c, j, a) # 0
                                    /\ DecidedValue(c, j, b) # DecidedValue(c, j, a)}
  <1> SUFFICES ASSUME T # {}
               PROVE  FALSE
    OBVIOUS
  <1>1. T \in SUBSET Nat
    BY NodeNumbers
  <1>2. PICK k \in T : \A j \in T : k <= j
    BY <1>1, LeastNumber
  <1>3. k \in Nodes(c) /\ k \in Nat /\ \A j \in Nodes(c) : j < k => j \notin T /\ j \in Nat
    BY <1>1, <1>2, NodeNumbers
  <1> DEFINE ina == InputsDecided(c, k, a)
             inb == InputsDecided(c, k, b)
             da == DecidedValue(c, k, a)
             db == DecidedValue(c, k, b)
  <1>4. da = FromInputs(c, k, a, ina) /\ da \in Truths /\ db = FromInputs(c, k, b, inb)
    BY <1>3, DecidedNode
  <1>5. da # 0 /\ db # da
    BY <1>2
  <1>6. ASSUME NEW l \in Range(c.node[k].inputs)
        PROVE  /\ LitVar(l) \in Nodes(c) /\ LitVar(l) < k
               /\ DecidedValue(c, LitVar(l), a) \in Truths
               /\ DecidedValue(c, LitVar(l), b) \in Truths
               /\ \/ DecidedValue(c, LitVar(l), a) = 0
                  \/ DecidedValue(c, LitVar(l), b) = DecidedValue(c, LitVar(l), a)
    <2>1. LitVar(l) \in 1 .. k - 1 /\ LitVar(l) \in Nodes(c)
      BY <1>3, NodeNumbers DEF Shape, NodesInOrder
    <2>2. LitVar(l) < k
      BY <1>3, <2>1
    <2>3. LitVar(l) \notin T
      BY <1>3, <2>1, <2>2
    <2> QED
      BY <2>1, <2>2, <2>3, DecidedNode
  <1>7. /\ -1 \in ina => -1 \in inb
        /\ 1 \in ina => 1 \in inb
        /\ 0 \notin ina => inb = ina
    BY <1>6 DEF InputsDecided, Truths, Signed
  <1>8. ina \subseteq Truths /\ inb \subseteq Truths
    BY <1>6 DEF InputsDecided, Truths, Signed
  <1>9. c.node[k].type \in {"var", "and", "or", "scope"}
    BY <1>3, NodeNumbers
  <1> HIDE DEF ina, inb, da, db, T
  <1>10. CASE c.node[k].type = "var"
    <2>1. /\ da = IF k \in a THEN 1 ELSE IF -k \in a THEN -1 ELSE 0
          /\ db = IF k \in b THEN 1 ELSE IF -k \in b THEN -1 ELSE 0
      BY <1>4, <1>10, FromInputsCases
    <2>2. k \in b => -k \notin b
      BY DEF Consistent
    <2> QED
      BY <1>5, <2>1, <2>2
  <1>11. CASE c.node[k].type = "and"
    <2>1. /\ da = IF -1 \in ina \/ Conflict(c, k) THEN -1 ELSE IF 0 \in ina THEN 0 ELSE 1
          /\ db = IF -1 \in inb \/ Conflict(c, k) THEN -1 ELSE IF 0 \in inb THEN 0 ELSE 1
      BY <1>4, <1>11, FromInputsCases
    <2> QED
      BY <1>5, <1>7, <2>1
  <1>12. CASE c.node[k].type = "or"
    <2>1. /\ da = IF 1 \in ina \/ Conflict(c, k) THEN 1 ELSE IF 0 \in ina THEN 0 ELSE -1
          /\ db = IF 1 \in inb \/ Conflict(c, k) THEN 1 ELSE IF 0 \in inb THEN 0 ELSE -1
      BY <1>4, <1>12, FromInputsCases
    <2> QED
      BY <1>5, <1>7, <2>1
  <1>13. CASE c.node[k].type = "scope"
    <2> PICK sub : sub = LitVar(c.node[k].inputs[1])
      OBVIOUS
    <2>1. sub \in Nodes(c) /\ sub < k /\ da = DecidedValue(c, sub, a)
          /\ db = DecidedValue(c, sub, b)
      BY <1>3, <1>13, DecidedScopeNode DEF da, db, IsScopeNode
    <2>2. sub \notin T
      BY <1>3, <2>1
    <2> QED
      BY <1>5, <2>1, <2>2 DEF T
  <1> QED
    BY <1>9, <1>10, <1>11, <1>12, <1>13

-----------------------------------------------------------------------------
(***************************************************************************)
(* Truth.  Without quantified subformulas a node is true or not under one  *)
(* assignment, and what is decided of it says which.                       *)
(***************************************************************************)
NoScopeNodes(c) == \A i \in Nodes(c) : ~IsScopeNode(c, i)
LiteralHolds(c, l, a) == IF l < 0 THEN ~NodeHolds(c, -l, a) ELSE NodeHolds(c, l, a)

\* A node's truth from that of its inputs, f[j][a].
TruthFrom(c, f, i, a) ==
  LET lit(l) == IF l < 0 THEN ~f[-l][a] ELSE f[l][a]
  IN  CASE IsVar(c, i) -> i \in a
        [] c.node[i].type = "and" -> \A l \in Range(c.node[i].inputs) : lit(l)
        [] c.node[i].type = "or" -> \E l \in Range(c.node[i].inputs) : lit(l)

\* The recursion of NodeHolds has a solution.
LEMMA HoldsEquation ==
  ASSUME NEW c, Shape(c), NoScopeNodes(c)
  PROVE  \E g \in [Nodes(c) -> [SUBSET Literals(c) -> BOOLEAN]] :
           \A i \in Nodes(c) : \A a \in SUBSET Literals(c) :
             NodeHolds(c, i, a) = g[i][a] /\ g[i][a] = TruthFrom(c, g, i, a)
  <1> DEFINE D == SUBSET Literals(c)
             Eq(h) == [i \in Nodes(c) |-> [a \in D |->
               LET lit(l) == IF l < 0 THEN ~h[-l][a] ELSE h[l][a]
                   in     == Range(c.node[i].inputs)
                   own    == c.node[i].scope
               IN  CASE IsVar(c, i) -> i \in a
                     [] c.node[i].type = "and" -> \A l \in in : lit(l)
                     [] c.node[i].type = "or" -> \E l \in in : lit(l)
                     [] IsScopeNode(c, i) /\ c.scope[own].qtype = "exists" ->
                          \E l \in in, x \in Assignments(ScopeVars(c, own)) :
                            h[LitVar(l)][a \cup x]
                     [] IsScopeNode(c, i) /\ c.scope[own].qtype = "forall" ->
                          \A l \in in, x \in Assignments(ScopeVars(c, own)) :
                            h[LitVar(l)][a \cup x]]]
             holds == CHOOSE h : h = Eq(h)
             N == MaxNum(c)
             A == [D -> BOOLEAN]
             rule == [i \in Nodes(c) |-> [f \in [Nodes(c) -> A] |->
                        [a \in D |-> TruthFrom(c, f, i, a)]]]
             none == [i \in Nodes(c) |-> [a \in D |-> FALSE]]
  <1>1. N \in Nat /\ Nodes(c) = 1 .. N
    BY NodeNumbers DEF Nodes
  <1>2. none \in [1 .. N -> A]
    BY <1>1
  <1>3. ASSUME NEW i \in Nodes(c), NEW l \in Range(c.node[i].inputs)
        PROVE  /\ l \in Int /\ LitVar(l) \in Nodes(c) /\ LitVar(l) \in 1 .. i - 1
               /\ LitVar(l) = IF l < 0 THEN -l ELSE l
    BY NodeNumbers DEF Shape, NodesInOrder, LitVar, Range
  <1>4. ASSUME NEW i \in Nodes(c), NEW f \in [Nodes(c) -> A], NEW a \in D
        PROVE  TruthFrom(c, f, i, a) \in BOOLEAN
    <2>1. c.node[i].type \in {"var", "and", "or"}
      BY NodeNumbers DEF NoScopeNodes, IsScopeNode
    <2>2. CASE c.node[i].type = "var"
      BY <2>2 DEF TruthFrom, IsVar
    <2>3. CASE c.node[i].type = "and"
      BY <2>3 DEF TruthFrom, IsVar
    <2>4. CASE c.node[i].type = "or"
      BY <2>4 DEF TruthFrom, IsVar
    <2> QED
      BY <2>1, <2>2, <2>3, <2>4
  <1>5. rule \in [1 .. N -> [[1 .. N -> A] -> A]]
    BY <1>1, <1>4
  <1>6. LooksBelow(rule, N, A)
    <2>1. ASSUME NEW i \in 1 .. N, NEW f \in [1 .. N -> A], NEW g \in [1 .. N -> A],
                 \A j \in 1 .. i - 1 : f[j] = g[j]
          PROVE  rule[i][f] = rule[i][g]
      <3>1. \A l \in Range(c.node[i].inputs) :
              f[IF l < 0 THEN -l ELSE l] = g[IF l < 0 THEN -l ELSE l]
        BY <1>1, <1>3, <2>1
      <3>2. \A a \in D : TruthFrom(c, f, i, a) = TruthFrom(c, g, i, a)
        <4> TAKE a \in D
        <4>1. \A l \in Range(c.node[i].inputs) :
                (IF l < 0 THEN ~f[-l][a] ELSE f[l][a]) = (IF l < 0 THEN ~g[-l][a] ELSE g[l][a])
          BY <3>1
        <4> QED
          BY <4>1 DEF TruthFrom
      <3> HIDE DEF A, D
      <3> QED
        BY <1>1, <3>2
    <2> HIDE DEF rule
    <2> QED
      BY <2>1 DEF LooksBelow
  <1> HIDE DEF none
  <1>7. PICK g : Obeys(g, rule, N, A)
    <2> HIDE DEF rule, N, A
    <2> QED
      BY <1>2, <1>5, <1>6, <1>1, RecursiveFunction
  <1>8. g \in [Nodes(c) -> A]
    BY <1>7, <1>1 DEF Obeys
  <1>9. ASSUME NEW i \in Nodes(c)
        PROVE  g[i] = [a \in D |-> TruthFrom(c, g, i, a)]
    <2>1. g[i] = rule[i][g]
      BY <1>7, <1>1 DEF Obeys
    <2> HIDE DEF A, D
    <2> QED
      BY <1>8, <2>1
  <1>10. ASSUME NEW i \in Nodes(c), NEW f
         PROVE  Eq(f)[i] = [a \in D |-> TruthFrom(c, f, i, a)]
    <2>1. c.node[i].type \in {"var", "and", "or"}
      BY NodeNumbers DEF NoScopeNodes, IsScopeNode
    <2>2. CASE c.node[i].type = "var"
      BY <2>2 DEF TruthFrom, IsVar, IsScopeNode
    <2>3. CASE c.node[i].type = "and"
      BY <2>3 DEF TruthFrom, IsVar, IsScopeNode
    <2>4. CASE c.node[i].type = "or"
      BY <2>4 DEF TruthFrom, IsVar, IsScopeNode
    <2> QED
      BY <2>1, <2>2, <2>3, <2>4
  <1>11. g = Eq(g)
    <2>1. \A i \in Nodes(c) : g[i] = Eq(g)[i]
      BY <1>9, <1>10
    <2>2. Eq(g) = [i \in Nodes(c) |-> Eq(g)[i]]
      OBVIOUS
    <2> HIDE DEF Eq, A
    <2> QED
      BY <1>8, <2>1, <2>2
  <1>12. holds = Eq(holds)
    <2> HIDE DEF Eq
    <2> QED
      BY <1>11
  <1>13. \A i \in Nodes(c), a \in D : NodeHolds(c, i, a) = holds[i][a]
    BY DEF NodeHolds
  <1> HIDE DEF holds, Eq, rule
  <1>14. \A i \in Nodes(c) : holds[i] = [a \in D |-> TruthFrom(c, holds, i, a)]
    BY <1>10, <1>12
  <1>15. \A i \in Nodes(c) : holds[i] = g[i]
    <2> DEFINE T == {i \in Nodes(c) : holds[i] # g[i]}
    <2> SUFFICES ASSUME T # {}
                 PROVE  FALSE
      OBVIOUS
    <2>1. T \in SUBSET Nat
      BY <1>1
    <2>2. PICK i \in T : \A j \in T : i <= j
      BY <2>1, LeastNumber
    <2>3. ASSUME NEW l \in Range(c.node[i].inputs)
          PROVE  holds[IF l < 0 THEN -l ELSE l] = g[IF l < 0 THEN -l ELSE l]
      <3>1. LitVar(l) \in Nodes(c) /\ LitVar(l) < i /\ LitVar(l) \in Nat /\ i \in Nat
        BY <1>1, <1>3
      <3> QED
        BY <1>3, <2>2, <3>1
    <2>4. \A a \in D : TruthFrom(c, holds, i, a) = TruthFrom(c, g, i, a)
      <3> TAKE a \in D
      <3>1. \A l \in Range(c.node[i].inputs) :
              (IF l < 0 THEN ~holds[-l][a] ELSE holds[l][a])
                = (IF l < 0 THEN ~g[-l][a] ELSE g[l][a])
        BY <2>3
      <3> QED
        BY <3>1 DEF TruthFrom
    <2> HIDE DEF D
    <2>5. [a \in D |-> TruthFrom(c, holds, i, a)] = [a \in D |-> TruthFrom(c, g, i, a)]
      BY <2>4
    <2>6. i \in Nodes(c) /\ holds[i] # g[i]
      BY <2>2
    <2> QED
      BY <1>9, <1>14, <2>5, <2>6
  <1> QED
    <2>1. \A i \in Nodes(c) : \A a \in D : g[i][a] = TruthFrom(c, g, i, a)
      BY <1>9
    <2> QED
      BY <1>8, <1>13, <1>15, <2>1

\* The equation, node by node.
LEMMA HoldsNode ==
  ASSUME NEW c, Shape(c), NoScopeNodes(c), NEW i \in Nodes(c), NEW a, a \subseteq Literals(c)
  PROVE  /\ NodeHolds(c, i, a) \in BOOLEAN
         /\ IsVar(c, i) => NodeHolds(c, i, a) = (i \in a)
         /\ c.node[i].type = "and" =>
              NodeHolds(c, i, a) = \A l \in Range(c.node[i].inputs) : LiteralHolds(c, l, a)
         /\ c.node[i].type = "or" =>
              NodeHolds(c, i, a) = \E l \in Range(c.node[i].inputs) : LiteralHolds(c, l, a)
  <1>1. PICK g \in [Nodes(c) -> [SUBSET Literals(c) -> BOOLEAN]] :
           \A k \in Nodes(c) : \A b \in SUBSET Literals(c) :
             NodeHolds(c, k, b) = g[k][b] /\ g[k][b] = TruthFrom(c, g, k, b)
    BY HoldsEquation
  <1>2. ASSUME NEW l \in Range(c.node[i].inputs)
        PROVE  LiteralHolds(c, l, a) = IF l < 0 THEN ~g[-l][a] ELSE g[l][a]
    <2>1. LitVar(l) \in Nodes(c)
      BY NodeNumbers
    <2> QED
      BY <1>1, <2>1 DEF LiteralHolds, LitVar
  <1>3. NodeHolds(c, i, a) = TruthFrom(c, g, i, a) /\ g[i][a] \in BOOLEAN
    BY <1>1
  <1>4. c.node[i].type = "and" =>
              NodeHolds(c, i, a) = \A l \in Range(c.node[i].inputs) : LiteralHolds(c, l, a)
    BY <1>2, <1>3 DEF TruthFrom, IsVar
  <1>5. c.node[i].type = "or" =>
              NodeHolds(c, i, a) = \E l \in Range(c.node[i].inputs) : LiteralHolds(c, l, a)
    BY <1>2, <1>3 DEF TruthFrom, IsVar
  <1>6. IsVar(c, i) => NodeHolds(c, i, a) = (i \in a)
    BY <1>3 DEF TruthFrom, IsVar
  <1>7. NodeHolds(c, i, a) \in BOOLEAN
    BY <1>1
  <1> QED
    BY <1>4, <1>5, <1>6, <1>7

\* If everything is decided, a node is true exactly if it is decided to be.
LEMMA HoldsIfDecided ==
  ASSUME NEW c, Shape(c), NoScopeNodes(c), NEW a, a \subseteq Literals(c),
         \A i \in Nodes(c) : DecidedValue(c, i, a) # 0
  PROVE  \A i \in Nodes(c) : NodeHolds(c, i, a) <=> DecidedValue(c, i, a) = 1
  <1> DEFINE Dec(i) == DecidedValue(c, i, a)
             T == {i \in Nodes(c) : ~(NodeHolds(c, i, a) <=> Dec(i) = 1)}
  <1> SUFFICES ASSUME T # {}
               PROVE  FALSE
    OBVIOUS
  <1>1. T \in SUBSET Nat
    BY NodeNumbers
  <1>2. PICK k \in T : \A j \in T : k <= j
    BY <1>1, LeastNumber
  <1>3. k \in Nodes(c) /\ k \in Nat /\ \A j \in Nodes(c) : j < k => j \notin T /\ j \in Nat
    BY <1>1, <1>2, NodeNumbers
  <1>4. \A i \in Nodes(c) : Dec(i) \in {-1, 1} /\ NodeHolds(c, i, a) \in BOOLEAN
    <2>1. \A i \in Nodes(c) : Dec(i) \in {-1, 1}
      BY DecidedNode DEF Truths
    <2>2. \A i \in Nodes(c) : NodeHolds(c, i, a) \in BOOLEAN
      BY HoldsNode
    <2> QED
      BY <2>1, <2>2
  <1> DEFINE V(l) == Signed(l, Dec(LitVar(l)))
             in == InputsDecided(c, k, a)
             ins == Range(c.node[k].inputs)
  <1>5. ASSUME NEW l \in ins
        PROVE  /\ l \in Int /\ l # 0 /\ V(l) \in {-1, 1} /\ V(-l) = -V(l)
               /\ LiteralHolds(c, l, a) <=> V(l) = 1
    <2>1. LitVar(l) \in 1 .. k - 1 /\ LitVar(l) \in Nodes(c) /\ l \in Int
      BY <1>3, NodeNumbers DEF Shape, NodesInOrder, LitVar, Range
    <2>2. LitVar(l) \in Nat \ {0} /\ LitVar(l) < k
      BY <1>3, <2>1
    <2>3. NodeHolds(c, LitVar(l), a) <=> Dec(LitVar(l)) = 1
      BY <1>3, <2>1, <2>2
    <2>4. l # 0 /\ LitVar(-l) = LitVar(l) /\ (l < 0 => LitVar(l) = -l) /\ (l > 0 => LitVar(l) = l)
      BY <2>1, <2>2 DEF LitVar
    <2>5. Dec(LitVar(l)) \in {-1, 1}
      BY <1>4, <2>1
    <2> HIDE DEF Dec
    <2> QED
      BY <2>1, <2>3, <2>4, <2>5 DEF LiteralHolds, Signed
  <1>6. in = {V(l) : l \in ins}
    BY DEF InputsDecided
  <1>7. Dec(k) = FromInputs(c, k, a, in)
    BY <1>3, DecidedNode
  <1>8. 0 \notin in
    BY <1>5, <1>6
  <1>9. Conflict(c, k) => \E l \in ins : V(l) = 1
    BY <1>5 DEF Conflict
  <1>10. Conflict(c, k) => \E l \in ins : V(l) = -1
    BY <1>5 DEF Conflict
  <1>11. k \in T /\ c.node[k].type \in {"var", "and", "or"}
    BY <1>2, NodeNumbers DEF NoScopeNodes, IsScopeNode
  <1>12. Dec(k) \in {-1, 1} /\ NodeHolds(c, k, a) \in BOOLEAN
    BY <1>3, <1>4
  <1> HIDE DEF Dec, V
  <1>13. CASE c.node[k].type = "var"
    <2>1. Dec(k) = IF k \in a THEN 1 ELSE IF -k \in a THEN -1 ELSE 0
      BY <1>7, <1>13, FromInputsCases
    <2>2. NodeHolds(c, k, a) <=> k \in a
      BY <1>3, <1>13, HoldsNode DEF IsVar
    <2> QED
      BY <1>11, <1>12, <2>1, <2>2
  <1>14. CASE c.node[k].type = "and"
    <2>1. Dec(k) = IF -1 \in in \/ Conflict(c, k) THEN -1 ELSE IF 0 \in in THEN 0 ELSE 1
      BY <1>7, <1>14, FromInputsCases
    <2>2. NodeHolds(c, k, a) <=> \A l \in ins : LiteralHolds(c, l, a)
      BY <1>3, <1>14, HoldsNode
    <2>3. (\A l \in ins : V(l) = 1) <=> -1 \notin in
      BY <1>5, <1>6
    <2> QED
      BY <1>5, <1>8, <1>10, <1>11, <2>1, <2>2, <2>3
  <1>15. CASE c.node[k].type = "or"
    <2>1. Dec(k) = IF 1 \in in \/ Conflict(c, k) THEN 1 ELSE IF 0 \in in THEN 0 ELSE -1
      BY <1>7, <1>15, FromInputsCases
    <2>2. NodeHolds(c, k, a) <=> \E l \in ins : LiteralHolds(c, l, a)
      BY <1>3, <1>15, HoldsNode
    <2>3. (\E l \in ins : V(l) = 1) <=> 1 \in in
      BY <1>6
    <2> QED
      BY <1>5, <1>8, <1>9, <1>11, <2>1, <2>2, <2>3
  <1> QED
    BY <1>11, <1>13, <1>14, <1>15

-----------------------------------------------------------------------------
(***************************************************************************)
(* Assignments.                                                            *)
(***************************************************************************)
\* The assignments of some variables.
LEMMA IsAssignment ==
  ASSUME NEW V, V \subseteq Nat \ {0}, NEW a
  PROVE  a \in Assignments(V) <=>
           /\ \A l \in a : l \in Int /\ LitVar(l) \in V /\ -l \notin a
           /\ \A v \in V : v \in a \/ -v \in a
  <1>1. ASSUME a \in Assignments(V)
        PROVE  /\ \A l \in a : l \in Int /\ LitVar(l) \in V /\ -l \notin a
               /\ \A v \in V : v \in a \/ -v \in a
    <2>1. PICK T \in SUBSET V : a = {IF v \in T THEN v ELSE -v : v \in V}
      BY <1>1 DEF Assignments
    <2> QED
      BY <2>1 DEF LitVar
  <1>2. ASSUME \A l \in a : l \in Int /\ LitVar(l) \in V /\ -l \notin a,
               \A v \in V : v \in a \/ -v \in a
        PROVE  a \in Assignments(V)
    <2> DEFINE T == V \cap a
    <2>1. a = {IF v \in T THEN v ELSE -v : v \in V}
      <3>1. ASSUME NEW l \in a
            PROVE  \E v \in V : l = IF v \in T THEN v ELSE -v
        <4>1. l \in Int /\ LitVar(l) \in V /\ LitVar(l) \in Nat \ {0} /\ -l \notin a
          BY <1>2
        <4>2. l = IF LitVar(l) \in T THEN LitVar(l) ELSE -LitVar(l)
          BY <4>1 DEF LitVar
        <4> QED
          BY <4>1, <4>2
      <3>2. \A v \in V : (IF v \in T THEN v ELSE -v) \in a
        BY <1>2
      <3> QED
        BY <3>1, <3>2
    <2> QED
      BY <2>1 DEF Assignments
  <1> QED
    BY <1>1, <1>2

\* Assignments of different variables can be joined.
LEMMA JoinedAssignments ==
  ASSUME NEW V, NEW W, V \subseteq Nat \ {0}, W \subseteq Nat \ {0}, V \cap W = {},
         NEW a \in Assignments(V), NEW x \in Assignments(W)
  PROVE  a \cup x \in Assignments(V \cup W) /\ Consistent(a \cup x)
  <1>1. /\ \A l \in a : l \in Int /\ LitVar(l) \in V /\ -l \notin a
        /\ \A v \in V : v \in a \/ -v \in a
    BY IsAssignment
  <1>2. /\ \A l \in x : l \in Int /\ LitVar(l) \in W /\ -l \notin x
        /\ \A v \in W : v \in x \/ -v \in x
    BY IsAssignment
  <1>3. \A l \in Int : LitVar(-l) = LitVar(l)
    BY DEF LitVar
  <1>4. \A l \in a \cup x : l \in Int /\ LitVar(l) \in V \cup W /\ -l \notin a \cup x
    BY <1>1, <1>2, <1>3
  <1>5. \A v \in V \cup W : v \in a \cup x \/ -v \in a \cup x
    BY <1>1, <1>2
  <1>6. a \cup x \in Assignments(V \cup W)
    <2> SUFFICES ASSUME NEW U, U = V \cup W, NEW b, b = a \cup x
                 PROVE  b \in Assignments(U)
      OBVIOUS
    <2>1. U \subseteq Nat \ {0}
      OBVIOUS
    <2>2. \A l \in b : l \in Int /\ LitVar(l) \in U /\ -l \notin b
      BY <1>4
    <2>3. \A v \in U : v \in b \/ -v \in b
      BY <1>5
    <2>4. b \in Assignments(U) <=>
           /\ \A l \in b : l \in Int /\ LitVar(l) \in U /\ -l \notin b
           /\ \A v \in U : v \in b \/ -v \in b
      BY ONLY <2>1, IsAssignment
    <2> QED
      BY ONLY <2>2, <2>3, <2>4
  <1>7. Consistent(a \cup x)
    BY <1>4 DEF Consistent
  <1> QED
    BY <1>6, <1>7

\* Every set of variables has one.
LEMMA AssignmentsExist ==
  ASSUME NEW V
  PROVE  Assignments(V) # {}
  BY DEF Assignments

\* Assignments of nodes consist of literals of the circuit.
LEMMA AssignedLiterals ==
  ASSUME NEW c, Shape(c), NEW V, V \subseteq Nodes(c), NEW a \in Assignments(V)
  PROVE  a \subseteq Literals(c)
  <1>1. V \subseteq Nat \ {0}
    BY NodeNumbers
  <1>2. \A l \in a : l \in Int /\ LitVar(l) \in Nodes(c)
    BY <1>1, IsAssignment
  <1> QED
    BY <1>2 DEF Literals, LitVar

-----------------------------------------------------------------------------
(***************************************************************************)
(* Prenex circuits, annotated: every node is relevant for every scope, a   *)
(* scope's depth is its number, a node depends on what its inputs depend   *)
(* on, and the output on everything.                                       *)
(***************************************************************************)
Deepest(c, i) == Max(c.influences[i])

Flat(c) ==
  /\ Shape(c) /\ NodeShapes(c) /\ NoScopeNodes(c)
  /\ \A s \in Scopes(c) :
       /\ c.depth[s] = s /\ c.max_depth[s] = 0 /\ InPrefix(c, s)
       /\ Children(c, s) = IF s + 1 \in Scopes(c) THEN {s + 1} ELSE {}
  /\ \A i \in Nodes(c) :
       /\ c.influences[i] \subseteq Scopes(c) /\ c.influences[i] # {}
       /\ IsVar(c, i) => c.influences[i] = {c.node[i].scope}
       /\ \A j \in Inputs(c, i) : c.influences[j] \subseteq c.influences[i]
  /\ c.output \in Nodes(c) /\ IsGate(c, c.output)
  /\ \A s \in Scopes(c) : s <= Deepest(c, c.output)

\* The largest of some numbers below a bound.
LEMMA MaxIsGreatest ==
  ASSUME NEW n \in Nat, NEW T, T \subseteq 1 .. n, T # {}
  PROVE  Max(T) \in T /\ \A x \in T : x <= Max(T)
  <1> DEFINE Below == {n - x : x \in T}
  <1>1. Below \in SUBSET Nat /\ Below # {}
    <2>1. \A x \in T : n - x \in Nat
      <3>1. \A x \in T : x \in 1 .. n
        OBVIOUS
      <3> QED
        BY <3>1
    <2>2. PICK x \in T : TRUE
      OBVIOUS
    <2>3. n - x \in Below
      OBVIOUS
    <2> QED
      BY <2>1, <2>3
  <1>2. PICK r \in Below : \A y \in Below : r <= y
    BY <1>1, LeastNumber
  <1>3. PICK x \in T : r = n - x
    BY <1>2
  <1>4. \A y \in T : x >= y
    <2> TAKE y \in T
    <2>1. n - x <= n - y
      BY <1>2, <1>3
    <2> QED
      BY <2>1
  <1>5. Max(T) \in T /\ \A y \in T : Max(T) >= y
    BY <1>3, <1>4 DEF Max
  <1> QED
    BY <1>5

\* Scopes are numbers, without gaps.
LEMMA ScopeNumbers ==
  ASSUME NEW c, Shape(c)
  PROVE  /\ Len(c.scope) \in Nat /\ Scopes(c) = 1 .. Len(c.scope)
         /\ \A t \in Scopes(c) : t \in Nat /\ 1 .. t \subseteq Scopes(c)
  <1>1. \E Rec : c.scope \in Seq(Rec)
    BY DEF Shape, CircuitType
  <1>2. Len(c.scope) \in Nat /\ Scopes(c) = 1 .. Len(c.scope)
    BY <1>1 DEF Scopes
  <1> QED
    BY <1>2

\* The innermost scope of a node is that of one of its inputs or further in.
LEMMA FlatDeepest ==
  ASSUME NEW c, Flat(c), NEW i \in Nodes(c)
  PROVE  /\ Deepest(c, i) \in Scopes(c) /\ Deepest(c, i) \in Nat
         /\ Deepest(c, i) \in c.influences[i]
         /\ \A s \in c.influences[i] : s \in Nat /\ s <= Deepest(c, i)
         /\ IsVar(c, i) => Deepest(c, i) = c.node[i].scope
         /\ \A j \in Inputs(c, i) : j \in Nodes(c) /\ Deepest(c, j) <= Deepest(c, i)
  <1>1. Len(c.scope) \in Nat /\ Scopes(c) = 1 .. Len(c.scope)
    BY ScopeNumbers DEF Flat
  <1>2. ASSUME NEW j \in Nodes(c)
        PROVE  /\ Deepest(c, j) \in c.influences[j] /\ c.influences[j] \subseteq Scopes(c)
               /\ \A s \in c.influences[j] : s <= Deepest(c, j)
    <2>1. c.influences[j] \subseteq 1 .. Len(c.scope) /\ c.influences[j] # {}
      BY <1>1 DEF Flat
    <2> QED
      BY <1>1, <2>1, MaxIsGreatest DEF Deepest
  <1>3. /\ Inputs(c, i) \subseteq Nodes(c)
        /\ \A j \in Inputs(c, i) : c.influences[j] \subseteq c.influences[i]
    BY NodeNumbers DEF Flat
  <1>4. IsVar(c, i) => c.influences[i] = {c.node[i].scope}
    BY DEF Flat
  <1> QED
    BY <1>1, <1>2, <1>3, <1>4

\* So there is nothing to project, and the tests of the encoding are about numbers.
LEMMA FlatNode ==
  ASSUME NEW c, Flat(c), NEW s \in Scopes(c), NEW i \in Nodes(c)
  PROVE  /\ s \in Nat /\ c.depth[s] = s /\ NodeIsRelevant(c, s, i)
         /\ CurrentMax(c, s, i) = Deepest(c, i)
         /\ OnlyInner(c, s, i) => \A t \in c.influences[i] : t > s
         /\ OwnVariable(c, s, i) <=> IsVar(c, i) /\ Deepest(c, i) = s
         /\ IsVar(c, i) => (OnlyInner(c, s, i) <=> Deepest(c, i) > s)
         /\ OnlyInner(c, s, i) => Deepest(c, i) > s
  <1>1. Len(c.scope) \in Nat /\ Scopes(c) = 1 .. Len(c.scope)
    BY ScopeNumbers DEF Flat
  <1>2. c.depth[s] = s /\ c.max_depth[s] = 0 /\ InPrefix(c, s)
    BY DEF Flat
  <1>3. NodeIsRelevant(c, s, i) /\ CurrentMax(c, s, i) = Deepest(c, i)
    BY <1>2 DEF NodeIsRelevant, CurrentMax, Deepest
  <1>4. c.influences[i] \in SUBSET Nat /\ c.influences[i] # {}
    BY <1>1 DEF Flat
  <1>5. /\ Min(c.influences[i]) \in c.influences[i]
        /\ \A t \in c.influences[i] : Min(c.influences[i]) <= t
    BY <1>4, MinIsLeast
  <1>6. OnlyInner(c, s, i) <=> Min(c.influences[i]) > s
    BY <1>2 DEF OnlyInner
  <1>7. OnlyInner(c, s, i) => \A t \in c.influences[i] : t > s
    BY <1>1, <1>4, <1>5, <1>6
  <1>8. Deepest(c, i) \in c.influences[i]
    BY FlatDeepest
  <1>9. IsVar(c, i) => c.influences[i] = {Deepest(c, i)}
    BY <1>8 DEF Flat
  <1>10. OwnVariable(c, s, i) <=> IsVar(c, i) /\ s \in c.influences[i]
    BY <1>2 DEF OwnVariable
  <1> QED
    BY <1>1, <1>2, <1>3, <1>5, <1>6, <1>7, <1>8, <1>9, <1>10

-----------------------------------------------------------------------------
(***************************************************************************)
(* What is decided, from the point of view of the player of a quantifier:  *)
(* 1 is good for that player, -1 for the opponent.                         *)
(***************************************************************************)
Players == {"exists", "forall"}
ForPlayer(q, v) == IF q = "forall" THEN -v ELSE v
DecidedFor(c, q, i, a) == ForPlayer(q, DecidedValue(c, i, a))
InputFor(c, q, l, a) == ForPlayer(q, Signed(l, DecidedValue(c, LitVar(l), a)))

\* Only variables are negated.
LEMMA InputLiteral ==
  ASSUME NEW c, Shape(c), NEW i \in Nodes(c), NEW l \in Range(c.node[i].inputs)
  PROVE  /\ l \in Int /\ LitVar(l) \in Nodes(c) /\ LitVar(l) \in Inputs(c, i)
         /\ LitVar(l) \in Nat \ {0} /\ LitVar(l) < i
         /\ l < 0 => l = -LitVar(l) /\ IsVar(c, LitVar(l))
         /\ ~(l < 0) => l = LitVar(l)
  <1>1. LitVar(l) \in 1 .. i - 1 /\ (l < 0 => IsVar(c, LitVar(l)))
    BY DEF Shape, NodesInOrder
  <1>2. c.node[i].inputs \in Seq(Int) /\ LitVar(l) \in Nodes(c) /\ i \in Nat
    BY NodeNumbers
  <1>3. l \in Int
    BY <1>2 DEF Range
  <1>4. LitVar(l) \in Inputs(c, i)
    BY DEF Inputs
  <1>5. IF l < 0 THEN l = -LitVar(l) ELSE l = LitVar(l)
    BY <1>3 DEF LitVar
  <1> QED
    BY <1>1, <1>2, <1>3, <1>4, <1>5

\* For the player a gate is an AND or an OR.
LEMMA GateFor ==
  ASSUME NEW c, Shape(c), NEW i \in Nodes(c), IsGate(c, i), NEW q \in Players, NEW a
  PROVE  LET v == DecidedFor(c, q, i, a)
             in(l) == InputFor(c, q, l, a)
             ins == Range(c.node[i].inputs)
         IN  /\ v \in Truths /\ \A l \in ins : in(l) \in Truths
             /\ GateTypeFor(c, i, q) \in {"and", "or"}
             /\ GateTypeFor(c, i, q) = "or" =>
                  /\ v = 1 <=> Conflict(c, i) \/ \E l \in ins : in(l) = 1
                  /\ v = -1 <=> ~Conflict(c, i) /\ \A l \in ins : in(l) = -1
             /\ GateTypeFor(c, i, q) = "and" =>
                  /\ v = -1 <=> Conflict(c, i) \/ \E l \in ins : in(l) = -1
                  /\ v = 1 <=> ~Conflict(c, i) /\ \A l \in ins : in(l) = 1
  <1> DEFINE v == DecidedFor(c, q, i, a)
             in(l) == InputFor(c, q, l, a)
             ins == Range(c.node[i].inputs)
             d == DecidedValue(c, i, a)
             sd(l) == Signed(l, DecidedValue(c, LitVar(l), a))
             all == InputsDecided(c, i, a)
  <1>1. d \in Truths /\ d = FromInputs(c, i, a, all)
    BY DecidedNode
  <1>2. \A l \in ins : sd(l) \in Truths
    <2> TAKE l \in ins
    <2>1. DecidedValue(c, LitVar(l), a) \in Truths
      BY DecidedNode, InputLiteral
    <2> QED
      BY <2>1 DEF Signed, Truths
  <1>3. all = {sd(l) : l \in ins}
    BY DEF InputsDecided
  <1>4. v = ForPlayer(q, d) /\ \A l \in ins : in(l) = ForPlayer(q, sd(l))
    BY DEF DecidedFor, InputFor
  <1>5. /\ c.node[i].type = "and" =>
             d = IF -1 \in all \/ Conflict(c, i) THEN -1 ELSE IF 0 \in all THEN 0 ELSE 1
        /\ c.node[i].type = "or" =>
             d = IF 1 \in all \/ Conflict(c, i) THEN 1 ELSE IF 0 \in all THEN 0 ELSE -1
        /\ c.node[i].type \in {"and", "or"}
    BY <1>1, FromInputsCases DEF IsGate
  <1>6. /\ c.node[i].type = "and" =>
             /\ d = -1 <=> Conflict(c, i) \/ \E l \in ins : sd(l) = -1
             /\ d = 1 <=> ~Conflict(c, i) /\ \A l \in ins : sd(l) = 1
        /\ c.node[i].type = "or" =>
             /\ d = 1 <=> Conflict(c, i) \/ \E l \in ins : sd(l) = 1
             /\ d = -1 <=> ~Conflict(c, i) /\ \A l \in ins : sd(l) = -1
    <2> HIDE DEF d, sd, ins, all
    <2> QED
      BY <1>2, <1>3, <1>5 DEF Truths
  <1> HIDE DEF v, in, ins, d, sd, all
  <1>7. v \in Truths /\ \A l \in ins : in(l) \in Truths
    BY <1>1, <1>2, <1>4 DEF Truths, ForPlayer
  <1>8. CASE q = "exists"
    <2>1. v = d /\ \A l \in ins : in(l) = sd(l)
      BY <1>4, <1>8 DEF ForPlayer
    <2>2. GateTypeFor(c, i, q) = c.node[i].type
      BY <1>8 DEF GateTypeFor
    <2> QED
      BY <1>5, <1>6, <1>7, <2>1, <2>2 DEF v, in, ins
  <1>9. CASE q = "forall"
    <2>1. v = -d /\ \A l \in ins : in(l) = -sd(l)
      BY <1>4, <1>9 DEF ForPlayer
    <2>2. GateTypeFor(c, i, q) = IF c.node[i].type = "and" THEN "or" ELSE "and"
      BY <1>9 DEF GateTypeFor, DualGate
    <2>3. /\ v = 1 <=> d = -1
          /\ v = -1 <=> d = 1
          /\ \A l \in ins : (in(l) = 1 <=> sd(l) = -1) /\ (in(l) = -1 <=> sd(l) = 1)
      BY <1>1, <1>2, <2>1 DEF Truths
    <2> QED
      BY <1>5, <1>6, <1>7, <2>2, <2>3 DEF v, in, ins
  <1> QED
    BY <1>8, <1>9 DEF Players

\* The same from the point of view of an input.
LEMMA InputDecided ==
  ASSUME NEW c, Shape(c), NodeShapes(c), NEW i \in Nodes(c), NEW l \in Range(c.node[i].inputs),
         NEW q \in Players, NEW a
  PROVE  /\ InputFor(c, q, l, a) \in Truths
         /\ InputFor(c, q, l, a) = 0 <=> DecidedValue(c, LitVar(l), a) = 0
         /\ ~IsVar(c, LitVar(l)) => InputFor(c, q, l, a) = DecidedFor(c, q, LitVar(l), a)
         /\ \A b : a \subseteq b /\ Consistent(b) /\ InputFor(c, q, l, a) # 0 =>
                     InputFor(c, q, l, b) = InputFor(c, q, l, a)
  <1>1. LitVar(l) \in Nodes(c) /\ (l < 0 => IsVar(c, LitVar(l)))
    BY InputLiteral
  <1>2. DecidedValue(c, LitVar(l), a) \in Truths
    BY <1>1, DecidedNode
  <1>3. /\ InputFor(c, q, l, a) \in Truths
        /\ InputFor(c, q, l, a) = 0 <=> DecidedValue(c, LitVar(l), a) = 0
    BY <1>2 DEF InputFor, ForPlayer, Signed, Truths
  <1>4. ~IsVar(c, LitVar(l)) => InputFor(c, q, l, a) = DecidedFor(c, q, LitVar(l), a)
    BY <1>1 DEF InputFor, DecidedFor, Signed
  <1>5. ASSUME NEW b, a \subseteq b, Consistent(b), InputFor(c, q, l, a) # 0
        PROVE  InputFor(c, q, l, b) = InputFor(c, q, l, a)
    <2>1. DecidedValue(c, LitVar(l), b) = DecidedValue(c, LitVar(l), a)
      BY <1>1, <1>3, <1>5, DecidedMore
    <2> QED
      BY <2>1 DEF InputFor
  <1> QED
    BY <1>3, <1>4, <1>5

\* What is decided for a player stays.
LEMMA DecidedForMore ==
  ASSUME NEW c, Shape(c), NodeShapes(c), NEW q \in Players, NEW i \in Nodes(c),
         NEW a, NEW b, a \subseteq b, Consistent(b)
  PROVE  /\ DecidedFor(c, q, i, a) \in Truths
         /\ DecidedFor(c, q, i, a) = 0 <=> DecidedValue(c, i, a) = 0
         /\ DecidedFor(c, q, i, a) # 0 => DecidedFor(c, q, i, b) = DecidedFor(c, q, i, a)
  <1>1. DecidedValue(c, i, a) \in Truths
    BY DecidedNode
  <1>2. /\ DecidedFor(c, q, i, a) \in Truths
        /\ DecidedFor(c, q, i, a) = 0 <=> DecidedValue(c, i, a) = 0
    BY <1>1 DEF DecidedFor, ForPlayer, Truths
  <1>3. DecidedValue(c, i, a) # 0 => DecidedValue(c, i, b) = DecidedValue(c, i, a)
    BY DecidedMore
  <1> QED
    BY <1>2, <1>3 DEF DecidedFor

\* The variables of the scopes before scope k.
OuterVars(c, k) == UNION {ScopeVars(c, t) : t \in 1 .. k - 1}

\* They are nodes, and with those of scope k they are the variables before the next.
LEMMA OuterVariables ==
  ASSUME NEW c, Flat(c), NEW k \in Nat \ {0}
  PROVE  /\ OuterVars(c, k) \subseteq Nodes(c) /\ OuterVars(c, k) \subseteq Nat \ {0}
         /\ ScopeVars(c, k) \subseteq Nodes(c) /\ ScopeVars(c, k) \subseteq Nat \ {0}
         /\ OuterVars(c, k) \cap ScopeVars(c, k) = {}
         /\ OuterVars(c, k) \cup ScopeVars(c, k) = OuterVars(c, k + 1)
         /\ \A i \in OuterVars(c, k) : IsVar(c, i) /\ c.node[i].scope < k
         /\ \A i \in Nodes(c) : IsVar(c, i) /\ Deepest(c, i) < k => i \in OuterVars(c, k)
  <1>1. Nodes(c) \subseteq Nat \ {0}
    BY NodeNumbers DEF Flat
  <1>2. \A t : ScopeVars(c, t) \subseteq Nodes(c)
    BY DEF ScopeVars
  <1>3. \A i \in OuterVars(c, k) : \E t \in 1 .. k - 1 : i \in ScopeVars(c, t)
    BY DEF OuterVars
  <1>4. \A i \in OuterVars(c, k) : IsVar(c, i) /\ c.node[i].scope < k /\ c.node[i].scope # k
    BY <1>3 DEF ScopeVars
  <1>5. OuterVars(c, k) \cap ScopeVars(c, k) = {}
    BY <1>4 DEF ScopeVars
  <1>6. OuterVars(c, k) \cup ScopeVars(c, k) = OuterVars(c, k + 1)
    <2>1. 1 .. (k + 1) - 1 = (1 .. k - 1) \cup {k}
      OBVIOUS
    <2> QED
      BY <2>1 DEF OuterVars
  <1>7. ASSUME NEW i \in Nodes(c), IsVar(c, i), Deepest(c, i) < k
        PROVE  i \in OuterVars(c, k)
    <2>1. c.node[i].scope \in Scopes(c) /\ c.node[i].scope < k
      BY <1>7, FlatDeepest
    <2>2. c.node[i].scope \in 1 .. k - 1
      BY <2>1, ScopeNumbers DEF Flat
    <2> QED
      BY <1>7, <2>2 DEF OuterVars, ScopeVars
  <1>8. OuterVars(c, k) \subseteq Nodes(c) /\ ScopeVars(c, k) \subseteq Nodes(c)
    BY <1>2 DEF OuterVars
  <1>9. /\ OuterVars(c, k) \subseteq Nat \ {0}
        /\ ScopeVars(c, k) \subseteq Nat \ {0}
    BY ONLY <1>1, <1>8
  <1> QED
    BY <1>4, <1>5, <1>6, <1>7, <1>8, <1>9

\* Whatever depends on the scopes before k only is decided by an assignment of them.
LEMMA DecidedEarly ==
  ASSUME NEW c, Flat(c), NEW k \in Nat \ {0}, NEW a \in Assignments(OuterVars(c, k)),
         NEW i \in Nodes(c), Deepest(c, i) < k
  PROVE  DecidedValue(c, i, a) # 0
  <1>1. Shape(c) /\ NodeShapes(c) /\ NoScopeNodes(c)
    BY DEF Flat
  <1> DEFINE bad == {j \in Nodes(c) : Deepest(c, j) < k /\ DecidedValue(c, j, a) = 0}
  <1>2. bad = {}
    <2> SUFFICES ASSUME bad # {}
                 PROVE  FALSE
      OBVIOUS
    <2>1. bad \in SUBSET Nat
      BY <1>1, NodeNumbers
    <2>2. PICK g \in bad : \A j \in bad : g <= j
      BY <2>1, LeastNumber
    <2>3. g \in Nodes(c) /\ Deepest(c, g) < k /\ DecidedValue(c, g, a) = 0 /\ g \in Nat
      BY <2>1, <2>2
    <2>4. CASE IsVar(c, g)
      <3>1. g \in OuterVars(c, k)
        BY <2>3, <2>4, OuterVariables
      <3>2. g \in a \/ -g \in a
        BY <3>1, OuterVariables, IsAssignment
      <3>3. DecidedValue(c, g, a) = IF g \in a THEN 1 ELSE IF -g \in a THEN -1 ELSE 0
        BY <1>1, <2>3, <2>4, DecidedNode, FromInputsCases DEF IsVar
      <3> QED
        BY <2>3, <3>2, <3>3
    <2>5. CASE IsGate(c, g)
      <3>1. ASSUME NEW l \in Range(c.node[g].inputs)
            PROVE  InputFor(c, "exists", l, a) \in {-1, 1}
        <4>1. LitVar(l) \in Nodes(c) /\ LitVar(l) < g /\ LitVar(l) \in Nat
              /\ LitVar(l) \in Inputs(c, g)
          BY <1>1, <2>3, InputLiteral
        <4>2. Deepest(c, LitVar(l)) < k
          BY <2>3, <4>1, FlatDeepest
        <4>3. DecidedValue(c, LitVar(l), a) # 0
          BY <2>2, <2>3, <4>1, <4>2
        <4> QED
          BY <1>1, <2>3, <4>3, InputDecided DEF Players, Truths
      <3>2. DecidedFor(c, "exists", g, a) # 0
        BY <1>1, <2>3, <2>5, <3>1, GateFor DEF Players
      <3> QED
        BY <2>3, <3>2 DEF DecidedFor, ForPlayer
    <2> QED
      BY <1>1, <2>3, <2>4, <2>5, NodeNumbers DEF IsVar, IsGate, IsScopeNode, NoScopeNodes
  <1> QED
    BY <1>2

\* A gate with an input and its negation has an input that is not bad for the player.
LEMMA ConflictInput ==
  ASSUME NEW c, Shape(c), NodeShapes(c), NEW i \in Nodes(c), Conflict(c, i),
         NEW q \in Players, NEW a
  PROVE  \E l \in Range(c.node[i].inputs) : InputFor(c, q, l, a) # -1
  <1>1. PICK l \in Range(c.node[i].inputs) : -l \in Range(c.node[i].inputs)
    BY DEF Conflict
  <1>2. l \in Int /\ LitVar(l) \in Nat \ {0} /\ LitVar(l) \in Nodes(c)
    BY InputLiteral
  <1>3. l # 0 /\ LitVar(-l) = LitVar(l)
    BY <1>2 DEF LitVar
  <1>4. DecidedValue(c, LitVar(l), a) \in Truths
    BY <1>2, DecidedNode
  <1> DEFINE v == DecidedValue(c, LitVar(l), a)
  <1>5. Signed(l, v) = -Signed(-l, v) /\ Signed(l, v) \in Truths
    BY <1>2, <1>3, <1>4 DEF Signed, Truths
  <1>6. InputFor(c, q, l, a) # -1 \/ InputFor(c, q, -l, a) # -1
    BY <1>3, <1>5 DEF InputFor, ForPlayer, Truths
  <1> QED
    BY <1>1, <1>6

-----------------------------------------------------------------------------
(***************************************************************************)
(* What the literals of a scope stand for.  A gate is secured for a player *)
(* up to scope k if the variables before k decide it the player's way, as  *)
(* far as its inputs that depend on nothing else are concerned: an AND is  *)
(* not lost, an OR has such an input (a variable, or one of its gates if   *)
(* none of them depends on scope k or later) that is won.                  *)
(***************************************************************************)
Counted(c, k, i) ==
  {l \in Range(c.node[i].inputs) :
     /\ Deepest(c, LitVar(l)) < k
     /\ IsVar(c, LitVar(l)) \/ \A j \in Inputs(c, i) : IsVar(c, j) \/ Deepest(c, j) < k}
Secured(c, q, k, i, a) ==
  IF GateTypeFor(c, i, q) = "or" THEN \E l \in Counted(c, k, i) : InputFor(c, q, l, a) = 1
  ELSE DecidedFor(c, q, i, a) # -1

\* If the gate itself depends on nothing else, it is secured if it is won.
LEMMA SecuredEarly ==
  ASSUME NEW c, Flat(c), NEW q \in Players, NEW k \in Nat \ {0},
         NEW a \in Assignments(OuterVars(c, k)),
         NEW i \in Nodes(c), IsGate(c, i), Deepest(c, i) < k
  PROVE  Secured(c, q, k, i, a) <=> DecidedFor(c, q, i, a) = 1
  <1>1. Shape(c) /\ NodeShapes(c) /\ NoScopeNodes(c)
    BY DEF Flat
  <1>2. DecidedFor(c, q, i, a) \in Truths \ {0}
    BY <1>1, DecidedEarly, DecidedNode DEF DecidedFor, ForPlayer, Truths
  <1>3. \A j \in Inputs(c, i) : j \in Nodes(c) /\ Deepest(c, j) < k
    <2> TAKE j \in Inputs(c, i)
    <2>1. j \in Nodes(c) /\ Deepest(c, j) <= Deepest(c, i)
      BY FlatDeepest
    <2>2. Deepest(c, j) \in Nat /\ Deepest(c, i) \in Nat
      BY <2>1, FlatDeepest
    <2> QED
      BY <2>1, <2>2
  <1>4. Counted(c, k, i) = Range(c.node[i].inputs)
    BY <1>3 DEF Counted, Inputs
  <1>5. ASSUME NEW l \in Range(c.node[i].inputs)
        PROVE  InputFor(c, q, l, a) \in {-1, 1}
    <2>1. LitVar(l) \in Inputs(c, i) /\ LitVar(l) \in Nodes(c)
      BY <1>1, InputLiteral
    <2>2. DecidedValue(c, LitVar(l), a) # 0
      BY <1>3, <2>1, DecidedEarly
    <2> QED
      BY <1>1, <2>2, InputDecided DEF Truths
  <1>6. Conflict(c, i) => \E l \in Range(c.node[i].inputs) : InputFor(c, q, l, a) = 1
    BY <1>1, <1>5, ConflictInput
  <1>7. /\ GateTypeFor(c, i, q) \in {"and", "or"}
        /\ GateTypeFor(c, i, q) = "or" =>
             (DecidedFor(c, q, i, a) = 1
                <=> Conflict(c, i) \/ \E l \in Range(c.node[i].inputs) : InputFor(c, q, l, a) = 1)
    BY <1>1, GateFor
  <1>8. CASE GateTypeFor(c, i, q) = "or"
    BY <1>4, <1>6, <1>7, <1>8 DEF Secured
  <1>9. CASE GateTypeFor(c, i, q) = "and"
    BY <1>2, <1>9 DEF Secured, Truths
  <1> QED
    BY <1>7, <1>8, <1>9

\* What the analysis of the gates takes up from the scopes around scope s.
TakesUp(c, s, T) ==
  \A g \in Nodes(c) : IsGate(c, g) /\ Deepest(c, g) >= s =>
    /\ (\E j \in Inputs(c, g) : IsVar(c, j) /\ Deepest(c, j) < s) => TLit(c, g) \in T
    /\ \A j \in Inputs(c, g) : IsGate(c, j) /\ Deepest(c, j) < s =>
         \/ TLit(c, j) \in T
         \/ TLit(c, g) \in T /\ \A m \in Inputs(c, g) : IsVar(c, m) \/ Deepest(c, m) < s

\* Assignments a of the scopes before s and x of s, and what they make of the literals of s:
\* b-literals are secured up to s, t-literals before s.
Moves(c, s, q, T, a, x) ==
  /\ Flat(c) /\ s \in Scopes(c) /\ q \in Players /\ TakesUp(c, s, T)
  /\ a \in Assignments(OuterVars(c, s)) /\ x \in Assignments(ScopeVars(c, s))

Gates(c) == {i \in Nodes(c) : IsGate(c, i)}
Canonical(c, q, s, T, a, x) ==
  x \cup {IF Secured(c, q, s + 1, i, a \cup x) THEN i ELSE -i : i \in Gates(c)}
    \cup {IF Secured(c, q, s, i, a) THEN TLit(c, i) ELSE -TLit(c, i) :
            i \in {j \in Gates(c) : TLit(c, j) \in T}}

\* Both assignments together are one of the scopes before s + 1.
LEMMA MovesTogether ==
  ASSUME NEW c, NEW s, NEW q, NEW T, NEW a, NEW x, Moves(c, s, q, T, a, x)
  PROVE  /\ a \cup x \in Assignments(OuterVars(c, s + 1)) /\ Consistent(a \cup x)
         /\ a \subseteq a \cup x /\ s \in Nat \ {0} /\ s + 1 \in Nat \ {0}
         /\ \A l \in a : l \in Int /\ LitVar(l) \in OuterVars(c, s)
         /\ \A l \in x : l \in Int /\ LitVar(l) \in ScopeVars(c, s) /\ -l \notin x
         /\ \A v \in ScopeVars(c, s) : v \in x \/ -v \in x
  <1>1. Flat(c) /\ s \in Scopes(c) /\ a \in Assignments(OuterVars(c, s))
        /\ x \in Assignments(ScopeVars(c, s))
    BY DEF Moves
  <1>2. s \in Nat \ {0}
    BY <1>1, ScopeNumbers DEF Flat
  <1>3. /\ OuterVars(c, s) \subseteq Nat \ {0} /\ ScopeVars(c, s) \subseteq Nat \ {0}
        /\ OuterVars(c, s) \cap ScopeVars(c, s) = {}
        /\ OuterVars(c, s) \cup ScopeVars(c, s) = OuterVars(c, s + 1)
    BY <1>1, <1>2, OuterVariables
  <1>4. a \cup x \in Assignments(OuterVars(c, s) \cup ScopeVars(c, s)) /\ Consistent(a \cup x)
    BY <1>1, <1>3, JoinedAssignments
  <1>5. \A l \in a : l \in Int /\ LitVar(l) \in OuterVars(c, s)
    BY <1>1, <1>3, IsAssignment
  <1>6. /\ \A l \in x : l \in Int /\ LitVar(l) \in ScopeVars(c, s) /\ -l \notin x
        /\ \A v \in ScopeVars(c, s) : v \in x \/ -v \in x
    BY <1>1, <1>3, IsAssignment
  <1>7. a \cup x \in Assignments(OuterVars(c, s + 1)) /\ a \subseteq a \cup x
    BY <1>3, <1>4
  <1>8. s + 1 \in Nat \ {0}
    BY <1>2
  <1> QED
    BY <1>2, <1>4, <1>5, <1>6, <1>7, <1>8, Zenon

\* What the literals in M say of the scope's variables, the gates and the t-literals.
Says(c, s, q, T, a, x, M) ==
  /\ x \subseteq M
  /\ \A i \in Gates(c) : IF Secured(c, q, s + 1, i, a \cup x) THEN i \in M ELSE -i \in M
  /\ \A i \in Gates(c) : TLit(c, i) \in T =>
       IF Secured(c, q, s, i, a) THEN TLit(c, i) \in M ELSE -TLit(c, i) \in M
  /\ NoOpposites(M)
  /\ \A l \in M : /\ LitVar(l) \in ScopeVars(c, s) => l \in x
                  /\ LitVar(l) > MaxNum(c) => \E i \in Gates(c) :
                       /\ LitVar(l) = TLit(c, i) /\ TLit(c, i) \in T
                       /\ l > 0 <=> Secured(c, q, s, i, a)

\* Own variables, gates and t-literals have different numbers.
LEMMA CanonicalLits ==
  ASSUME NEW c, NEW s, NEW q, NEW T, NEW a, NEW x, Moves(c, s, q, T, a, x),
         NEW M, M = Canonical(c, q, s, T, a, x)
  PROVE  Says(c, s, q, T, a, x, M)
  <1>1. MaxNum(c) \in Nat /\ Nodes(c) \subseteq Nat \ {0} /\ Nodes(c) = 1 .. MaxNum(c)
    BY NodeNumbers DEF Moves, Flat, Nodes
  <1>2. x \subseteq M
    BY DEF Canonical
  <1>3. \A i \in Gates(c) : IF Secured(c, q, s + 1, i, a \cup x) THEN i \in M ELSE -i \in M
    BY DEF Canonical
  <1>4. \A i \in Gates(c) : TLit(c, i) \in T =>
          IF Secured(c, q, s, i, a) THEN TLit(c, i) \in M ELSE -TLit(c, i) \in M
    BY DEF Canonical
  <1>5. \A l \in x : l \in Int /\ LitVar(l) \in ScopeVars(c, s) /\ -l \notin x
    BY MovesTogether
  <1>6. \A i \in Gates(c) : i \in Nat /\ i > 0 /\ i <= MaxNum(c) /\ i \notin ScopeVars(c, s)
                            /\ TLit(c, i) = i + MaxNum(c)
    BY <1>1 DEF Gates, ScopeVars, IsGate, IsVar, TLit
  <1> DEFINE out(i) == Secured(c, q, s + 1, i, a \cup x)
             got(i) == Secured(c, q, s, i, a)
  <1>7. ASSUME NEW l \in M
        PROVE  \/ l \in x
               \/ \E i \in Gates(c) : l = IF out(i) THEN i ELSE -i
               \/ \E i \in Gates(c) : /\ TLit(c, i) \in T
                                      /\ l = IF got(i) THEN TLit(c, i) ELSE -TLit(c, i)
    BY DEF Canonical
  <1>8. ScopeVars(c, s) \subseteq 1 .. MaxNum(c)
    BY <1>1 DEF ScopeVars
  <1> HIDE DEF out, got
  <1>9. ASSUME NEW l \in M
        PROVE  \/ l \in x /\ l \in Int /\ LitVar(l) \in ScopeVars(c, s) /\ LitVar(l) <= MaxNum(c)
                  /\ -l \notin x
               \/ \E i \in Gates(c) : LitVar(l) = i /\ l = (IF out(i) THEN i ELSE -i)
                    /\ l \in Int /\ LitVar(l) <= MaxNum(c) /\ LitVar(l) \notin ScopeVars(c, s)
               \/ \E i \in Gates(c) : LitVar(l) = TLit(c, i) /\ TLit(c, i) \in T
                    /\ l = (IF got(i) THEN TLit(c, i) ELSE -TLit(c, i))
                    /\ l \in Int /\ LitVar(l) > MaxNum(c) /\ LitVar(l) \notin ScopeVars(c, s)
    <2>1. CASE l \in x
      BY <1>1, <1>5, <1>8, <2>1
    <2>2. CASE \E i \in Gates(c) : l = IF out(i) THEN i ELSE -i
      BY <1>1, <1>6, <2>2 DEF LitVar
    <2>3. CASE \E i \in Gates(c) : /\ TLit(c, i) \in T
                                   /\ l = IF got(i) THEN TLit(c, i) ELSE -TLit(c, i)
      <3>1. PICK i \in Gates(c) : /\ TLit(c, i) \in T
                                  /\ l = IF got(i) THEN TLit(c, i) ELSE -TLit(c, i)
        BY <2>3
      <3>2. TLit(c, i) \in Nat /\ TLit(c, i) > MaxNum(c)
        BY <1>1, <1>6
      <3>3. l \in Int /\ LitVar(l) = TLit(c, i)
        BY <3>1, <3>2 DEF LitVar
      <3>4. TLit(c, i) \notin ScopeVars(c, s)
        BY <1>1, <1>8, <3>2
      <3> QED
        BY <3>1, <3>2, <3>3, <3>4
    <2> QED
      BY <1>7, <2>1, <2>2, <2>3
  <1>10. \A l \in M : l \in Int /\ LitVar(l) \in Int
    <2>1. \A l \in M : l \in Int
      BY <1>9
    <2> QED
      BY <2>1 DEF LitVar
  <1>11. \A l \in M : l \in Int /\ -l \notin M
    <2> SUFFICES ASSUME NEW l \in M
                 PROVE  l \in Int /\ -l \notin M
      OBVIOUS
    <2>1. l \in Int
      BY <1>9
    <2>2. SUFFICES ASSUME -l \in M
                   PROVE  FALSE
      BY <2>1
    <2>3. LitVar(-l) = LitVar(l)
      BY <2>1 DEF LitVar
    <2>4. CASE LitVar(l) \in ScopeVars(c, s)
      BY <1>9, <2>2, <2>3, <2>4
    <2>5. CASE LitVar(l) \notin ScopeVars(c, s) /\ LitVar(l) <= MaxNum(c)
      <3>1. PICK i \in Gates(c) : LitVar(l) = i /\ l = IF out(i) THEN i ELSE -i
        BY <1>1, <1>9, <1>10, <2>5
      <3>2. PICK j \in Gates(c) : LitVar(-l) = j /\ -l = IF out(j) THEN j ELSE -j
        BY <1>1, <1>9, <1>10, <2>2, <2>3, <2>5
      <3> QED
        BY <1>6, <2>3, <3>1, <3>2
    <2>6. CASE LitVar(l) \notin ScopeVars(c, s) /\ ~(LitVar(l) <= MaxNum(c))
      <3>1. PICK i \in Gates(c) : /\ LitVar(l) = TLit(c, i)
                                  /\ l = IF got(i) THEN TLit(c, i) ELSE -TLit(c, i)
        BY <1>9, <2>6
      <3>2. PICK j \in Gates(c) : /\ LitVar(-l) = TLit(c, j)
                                  /\ -l = IF got(j) THEN TLit(c, j) ELSE -TLit(c, j)
        BY <1>9, <2>2, <2>3, <2>6
      <3>3. i = j
        BY <1>1, <1>6, <2>3, <3>1, <3>2
      <3> QED
        BY <1>1, <1>6, <3>1, <3>2, <3>3
    <2> QED
      BY <2>4, <2>5, <2>6
  <1>12. NoOpposites(M)
    BY <1>11 DEF NoOpposites, Opposite
  <1>13. ASSUME NEW l \in M
         PROVE  /\ LitVar(l) \in ScopeVars(c, s) => l \in x
                /\ LitVar(l) > MaxNum(c) => \E i \in Gates(c) :
                     LitVar(l) = TLit(c, i) /\ TLit(c, i) \in T /\ (l > 0 <=> got(i))
    <2>1. LitVar(l) \in ScopeVars(c, s) => l \in x
      BY <1>9
    <2>2. ASSUME LitVar(l) > MaxNum(c)
          PROVE  \E i \in Gates(c) :
                   LitVar(l) = TLit(c, i) /\ TLit(c, i) \in T /\ (l > 0 <=> got(i))
      <3>1. LitVar(l) \in Int
        BY <1>11 DEF LitVar
      <3>2. PICK i \in Gates(c) : LitVar(l) = TLit(c, i) /\ TLit(c, i) \in T
                    /\ l = (IF got(i) THEN TLit(c, i) ELSE -TLit(c, i))
        BY <1>1, <1>9, <2>2, <3>1
      <3>3. TLit(c, i) \in Nat /\ TLit(c, i) > 0
        BY <1>1, <1>6
      <3>4. l > 0 <=> got(i)
        BY <3>2, <3>3
      <3> QED
        BY <3>2, <3>4
    <2> QED
      BY <2>1, <2>2
  <1> QED
    BY <1>2, <1>3, <1>4, <1>12, <1>13 DEF got, Says

\* An input that is won, and depends on nothing beyond s, has its literal.
HasLiteral(c, s, q, T, a, l, M) ==
  LET i == LitVar(l)
  IN  /\ IsVar(c, i) /\ Deepest(c, i) = s => TransformedInput(c, q, l) \in M
      /\ IsGate(c, i) => i \in M
      /\ Deepest(c, i) < s => InputFor(c, q, l, a) = 1
      /\ IsGate(c, i) /\ Deepest(c, i) < s /\ TLit(c, i) \in T => TLit(c, i) \in M

\* The cases one by one.
LEMMA WonInput ==
  ASSUME NEW c, NEW s, NEW q, NEW T, NEW a, NEW x, Moves(c, s, q, T, a, x),
         NEW M, M = Canonical(c, q, s, T, a, x),
         NEW g \in Nodes(c), NEW l \in Range(c.node[g].inputs), NEW i, i = LitVar(l),
         Deepest(c, i) <= s, InputFor(c, q, l, a \cup x) = 1
  PROVE  HasLiteral(c, s, q, T, a, l, M)
  <1>1. Flat(c) /\ s \in Scopes(c) /\ q \in Players /\ Shape(c) /\ NodeShapes(c)
        /\ a \in Assignments(OuterVars(c, s))
    BY DEF Moves, Flat
  <1>2. i \in Nodes(c) /\ l \in Int /\ (l < 0 => l = -i) /\ (~(l < 0) => l = i) /\ i \in Nat \ {0}
        /\ (l < 0 => IsVar(c, i))
    BY <1>1, InputLiteral
  <1>3. /\ a \cup x \in Assignments(OuterVars(c, s + 1)) /\ Consistent(a \cup x)
        /\ a \subseteq a \cup x /\ s \in Nat \ {0} /\ s + 1 \in Nat \ {0}
        /\ \A k \in a : k \in Int /\ LitVar(k) \in OuterVars(c, s)
    BY MovesTogether
  <1>4. Deepest(c, i) \in Nat
    BY <1>1, <1>2, FlatDeepest
  <1>5. /\ x \subseteq M
        /\ \A k \in Gates(c) : Secured(c, q, s + 1, k, a \cup x) => k \in M
        /\ \A k \in Gates(c) : TLit(c, k) \in T /\ Secured(c, q, s, k, a) => TLit(c, k) \in M
    <2>1. Says(c, s, q, T, a, x, M)
      BY CanonicalLits
    <2> QED
      BY ONLY <2>1 DEF Says
  <1>6. ASSUME IsVar(c, i), Deepest(c, i) = s
        PROVE  TransformedInput(c, q, l) \in M
    <2>1. DecidedValue(c, i, a \cup x) =
            IF i \in a \cup x THEN 1 ELSE IF -i \in a \cup x THEN -1 ELSE 0
      BY <1>1, <1>2, <1>6, DecidedNode, FromInputsCases DEF IsVar
    <2>2. i \notin OuterVars(c, s)
      BY <1>1, <1>3, <1>6, FlatDeepest, OuterVariables
    <2>3. i \notin a /\ -i \notin a
      BY <1>2, <1>3, <2>2 DEF LitVar
    <2>4. CASE q = "exists"
      <3>1. Signed(l, DecidedValue(c, i, a \cup x)) = 1
        BY <2>4 DEF InputFor, ForPlayer
      <3>2. l \in x
        BY <1>2, <2>1, <2>3, <3>1 DEF Signed
      <3> QED
        BY <1>5, <2>4, <3>2 DEF TransformedInput
    <2>5. CASE q = "forall"
      <3>1. -Signed(l, DecidedValue(c, i, a \cup x)) = 1
        BY <2>5 DEF InputFor, ForPlayer
      <3>2. -l \in x
        BY <1>2, <2>1, <2>3, <3>1 DEF Signed
      <3> QED
        BY <1>5, <1>6, <2>5, <3>2 DEF TransformedInput
    <2> QED
      BY <1>1, <2>4, <2>5 DEF Players
  <1>7. ASSUME Deepest(c, i) < s
        PROVE  InputFor(c, q, l, a) = 1
    <2>1. DecidedValue(c, i, a) # 0
      BY <1>1, <1>2, <1>3, <1>7, DecidedEarly
    <2>2. InputFor(c, q, l, a) # 0
      BY <1>1, <2>1, InputDecided
    <2> QED
      BY <1>1, <1>3, <2>2, InputDecided
  <1>8. ASSUME IsGate(c, i)
        PROVE  i \in M
    <2>1. DecidedFor(c, q, i, a \cup x) = 1
      BY <1>1, <1>8, InputDecided DEF IsGate, IsVar
    <2>2. Secured(c, q, s + 1, i, a \cup x)
      BY <1>1, <1>2, <1>3, <1>4, <1>8, <2>1, SecuredEarly
    <2> QED
      BY <1>2, <1>5, <1>8, <2>2 DEF Gates
  <1>9. ASSUME IsGate(c, i), Deepest(c, i) < s, TLit(c, i) \in T
        PROVE  TLit(c, i) \in M
    <2>1. DecidedFor(c, q, i, a) = 1
      BY <1>1, <1>7, <1>9, InputDecided DEF IsGate, IsVar
    <2>2. Secured(c, q, s, i, a)
      BY <1>1, <1>2, <1>3, <1>9, <2>1, SecuredEarly
    <2> QED
      BY <1>2, <1>5, <1>9, <2>2 DEF Gates
  <1> QED
    BY <1>6, <1>7, <1>8, <1>9 DEF HasLiteral

\* If it is an input of an OR for the player, it is among what the clause of the OR holds.
LEMMA WonOfOr ==
  ASSUME NEW c, NEW s, NEW q, NEW T, NEW a, NEW x, Moves(c, s, q, T, a, x),
         NEW M, M = Canonical(c, q, s, T, a, x),
         NEW g \in Nodes(c), IsGate(c, g), Deepest(c, g) >= s, GateTypeFor(c, g, q) = "or",
         NEW l \in Range(c.node[g].inputs), NEW i, i = LitVar(l),
         Deepest(c, i) <= s, InputFor(c, q, l, a \cup x) = 1
  PROVE  \/ TLitIfShared(c, T, g) \cap M # {}
         \/ Deepest(c, i) < s /\ TLitIfShared(c, T, i) \cap M # {} /\ IsGate(c, i)
         \/ Deepest(c, i) = s /\ IsVar(c, i) /\ TransformedInput(c, q, l) \in M
         \/ Deepest(c, i) = s /\ IsGate(c, i) /\ i \in M
  <1>1. /\ Flat(c) /\ s \in Scopes(c) /\ TakesUp(c, s, T)
        /\ Shape(c) /\ NodeShapes(c) /\ NoScopeNodes(c)
    BY DEF Moves, Flat
  <1>2. i \in Nodes(c) /\ i \in Inputs(c, g)
    BY <1>1, InputLiteral
  <1>3. Deepest(c, i) \in Nat /\ s \in Nat
    BY <1>1, <1>2, FlatDeepest, MovesTogether
  <1>4. \A k \in Gates(c) : TLit(c, k) \in T /\ Secured(c, q, s, k, a) => TLit(c, k) \in M
    <2>1. Says(c, s, q, T, a, x, M)
      BY CanonicalLits
    <2> QED
      BY ONLY <2>1 DEF Says
  <1>5. /\ IsVar(c, i) /\ Deepest(c, i) = s => TransformedInput(c, q, l) \in M
        /\ IsGate(c, i) => i \in M
        /\ Deepest(c, i) < s => InputFor(c, q, l, a) = 1
        /\ IsGate(c, i) /\ Deepest(c, i) < s /\ TLit(c, i) \in T => TLit(c, i) \in M
    <2>1. HasLiteral(c, s, q, T, a, l, M)
      BY WonInput
    <2> QED
      BY <2>1 DEF HasLiteral
  <1>6. IsVar(c, i) \/ IsGate(c, i)
    BY <1>1, <1>2, NodeNumbers DEF IsVar, IsGate, IsScopeNode, NoScopeNodes
  <1>7. ASSUME Deepest(c, i) < s, l \in Counted(c, s, g), TLit(c, g) \in T
        PROVE  TLitIfShared(c, T, g) \cap M # {}
    <2>1. Secured(c, q, s, g, a)
      BY <1>5, <1>7 DEF Secured
    <2> QED
      BY <1>4, <1>7, <2>1 DEF TLitIfShared, Gates
  <1>8. CASE Deepest(c, i) < s /\ IsVar(c, i)
    <2>1. TLit(c, g) \in T
      BY <1>1, <1>2, <1>8 DEF TakesUp
    <2>2. l \in Counted(c, s, g)
      BY <1>8 DEF Counted
    <2> QED
      BY <1>7, <1>8, <2>1, <2>2
  <1>9. CASE Deepest(c, i) < s /\ IsGate(c, i)
    <2>1. \/ TLit(c, i) \in T
          \/ TLit(c, g) \in T /\ \A m \in Inputs(c, g) : IsVar(c, m) \/ Deepest(c, m) < s
      BY <1>1, <1>2, <1>9 DEF TakesUp
    <2>2. CASE TLit(c, i) \in T
      BY <1>5, <1>9, <2>2 DEF TLitIfShared
    <2>3. CASE TLit(c, g) \in T /\ \A m \in Inputs(c, g) : IsVar(c, m) \/ Deepest(c, m) < s
      <3>1. l \in Counted(c, s, g)
        BY <1>9, <2>3 DEF Counted
      <3> QED
        BY <1>7, <1>9, <2>3, <3>1
    <2> QED
      BY <2>1, <2>2, <2>3
  <1>10. CASE Deepest(c, i) = s
    BY <1>5, <1>6, <1>10
  <1> QED
    BY <1>3, <1>6, <1>8, <1>9, <1>10

-----------------------------------------------------------------------------
(***************************************************************************)
(* The clauses.                                                            *)
(***************************************************************************)
\* What an input adds to a clause, when every node is relevant.
LEMMA FlatInput ==
  ASSUME NEW c, Flat(c), NEW s \in Scopes(c), NEW q, NEW T, NEW g, NEW nested,
         NEW l, NEW i, i = LitVar(l), i \in Nodes(c)
  PROVE  LET or == OrInput(c, s, q, T, l)
             appended == AppendedInput(c, s, q, T, g, l, nested)
         IN  /\ IsVar(c, i) /\ Deepest(c, i) = s =>
                  or = {TransformedInput(c, q, l)} /\ appended = {TransformedInput(c, q, l)}
             /\ IsGate(c, i) /\ Deepest(c, i) < s =>
                  or = TLitIfShared(c, T, i) /\ appended = TLitIfShared(c, T, i)
             /\ IsGate(c, i) /\ Deepest(c, i) = s => or = {i} /\ appended = {i}
             /\ OnlyInner(c, s, i) => appended = {-g}
             /\ IsGate(c, i) /\ ~OnlyInner(c, s, i) /\ Deepest(c, i) > s =>
                  appended = IF GateTypeFor(c, i, q) = "or" THEN nested ELSE {i}
  <1>1. /\ s \in Nat /\ c.depth[s] = s /\ NodeIsRelevant(c, s, i)
        /\ CurrentMax(c, s, i) = Deepest(c, i)
        /\ OwnVariable(c, s, i) <=> IsVar(c, i) /\ Deepest(c, i) = s
        /\ OnlyInner(c, s, i) => Deepest(c, i) > s
    BY FlatNode
  <1>2. Deepest(c, i) \in Nat
    BY FlatDeepest
  <1>3. IsGate(c, i) => ~IsVar(c, i) /\ ~IsScopeNode(c, i)
    BY DEF IsGate, IsVar, IsScopeNode
  <1>4. IsVar(c, i) => ~IsGate(c, i) /\ ~IsScopeNode(c, i)
    BY DEF IsGate, IsVar, IsScopeNode
  <1>5. ASSUME IsVar(c, i), Deepest(c, i) = s
        PROVE  /\ OrInput(c, s, q, T, l) = {TransformedInput(c, q, l)}
               /\ AppendedInput(c, s, q, T, g, l, nested) = {TransformedInput(c, q, l)}
    BY <1>1, <1>2, <1>4, <1>5 DEF OrInput, AppendedInput
  <1>6. ASSUME IsGate(c, i), Deepest(c, i) < s
        PROVE  /\ OrInput(c, s, q, T, l) = TLitIfShared(c, T, i)
               /\ AppendedInput(c, s, q, T, g, l, nested) = TLitIfShared(c, T, i)
    BY <1>1, <1>2, <1>3, <1>6 DEF OrInput, AppendedInput
  <1>7. ASSUME IsGate(c, i), Deepest(c, i) = s
        PROVE  /\ OrInput(c, s, q, T, l) = {i}
               /\ AppendedInput(c, s, q, T, g, l, nested) = {i}
    BY <1>1, <1>2, <1>3, <1>7 DEF OrInput, AppendedInput, BLit
  <1>8. ASSUME OnlyInner(c, s, i)
        PROVE  AppendedInput(c, s, q, T, g, l, nested) = {-g}
    BY <1>1, <1>8 DEF AppendedInput, BLit
  <1>9. ASSUME IsGate(c, i), ~OnlyInner(c, s, i), Deepest(c, i) > s
        PROVE  AppendedInput(c, s, q, T, g, l, nested) =
                 IF GateTypeFor(c, i, q) = "or" THEN nested ELSE {i}
    BY <1>1, <1>2, <1>3, <1>9 DEF AppendedInput, BLit
  <1> QED
    BY <1>5, <1>6, <1>7, <1>8, <1>9

\* An OR that is secured up to s has an input that is in its clause.
LEMMA SecuredOr ==
  ASSUME NEW c, NEW s, NEW q, NEW T, NEW a, NEW x, Moves(c, s, q, T, a, x),
         NEW M, M = Canonical(c, q, s, T, a, x),
         NEW g \in Nodes(c), IsGate(c, g), Deepest(c, g) >= s, GateTypeFor(c, g, q) = "or",
         NEW l \in Range(c.node[g].inputs),
         Deepest(c, LitVar(l)) <= s, InputFor(c, q, l, a \cup x) = 1, NEW nested
  PROVE  \/ TLitIfShared(c, T, g) \cap M # {}
         \/ /\ OrInput(c, s, q, T, l) \cap M # {}
            /\ AppendedInput(c, s, q, T, g, l, nested) \cap M # {}
  <1>1. Flat(c) /\ s \in Scopes(c) /\ Shape(c)
    BY DEF Moves, Flat
  <1> DEFINE i == LitVar(l)
  <1>2. i \in Nodes(c)
    BY <1>1, InputLiteral
  <1>3. \/ TLitIfShared(c, T, g) \cap M # {}
        \/ Deepest(c, i) < s /\ TLitIfShared(c, T, i) \cap M # {} /\ IsGate(c, i)
        \/ Deepest(c, i) = s /\ IsVar(c, i) /\ TransformedInput(c, q, l) \in M
        \/ Deepest(c, i) = s /\ IsGate(c, i) /\ i \in M
    BY WonOfOr
  <1> DEFINE or == OrInput(c, s, q, T, l)
             appended == AppendedInput(c, s, q, T, g, l, nested)
  <1>4. /\ IsVar(c, i) /\ Deepest(c, i) = s =>
             or = {TransformedInput(c, q, l)} /\ appended = {TransformedInput(c, q, l)}
        /\ IsGate(c, i) /\ Deepest(c, i) < s =>
             or = TLitIfShared(c, T, i) /\ appended = TLitIfShared(c, T, i)
        /\ IsGate(c, i) /\ Deepest(c, i) = s => or = {i} /\ appended = {i}
    BY <1>1, <1>2, FlatInput
  <1> HIDE DEF i, or, appended
  <1>5. TLitIfShared(c, T, g) \cap M # {} \/ (or \cap M # {} /\ appended \cap M # {})
    BY ONLY <1>3, <1>4
  <1> QED
    BY <1>5 DEF or, appended

\* The clause of an OR.
LEMMA OrClauseMet ==
  ASSUME NEW c, NEW s, NEW q, NEW T, NEW a, NEW x, Moves(c, s, q, T, a, x),
         NEW M, M = Canonical(c, q, s, T, a, x),
         NEW g \in Nodes(c), IsGate(c, g), Deepest(c, g) >= s, GateTypeFor(c, g, q) = "or",
         NEW cl \in EncodeOrGate(c, s, q, T, g)
  PROVE  cl \cap M # {}
  <1>1. cl = (UNION {OrInput(c, s, q, T, l) : l \in Range(c.node[g].inputs)})
               \cup TLitIfShared(c, T, g) \cup {-g}
    BY DEF EncodeOrGate, BLit
  <1>2. CASE ~Secured(c, q, s + 1, g, a \cup x)
    <2>1. Says(c, s, q, T, a, x, M)
      BY CanonicalLits
    <2>2. -g \in M
      BY <1>2, <2>1 DEF Says, Gates
    <2> QED
      BY <1>1, <2>2
  <1>3. CASE Secured(c, q, s + 1, g, a \cup x)
    <2>1. PICK l \in Counted(c, s + 1, g) : InputFor(c, q, l, a \cup x) = 1
      BY <1>3 DEF Secured
    <2>2. l \in Range(c.node[g].inputs) /\ Deepest(c, LitVar(l)) < s + 1
      BY <2>1 DEF Counted
    <2>3. s \in Nat /\ Deepest(c, LitVar(l)) \in Nat
      BY <2>2, MovesTogether, FlatDeepest, InputLiteral DEF Moves, Flat
    <2>4. Deepest(c, LitVar(l)) <= s
      BY <2>2, <2>3
    <2>5. TLitIfShared(c, T, g) \cap M # {} \/ OrInput(c, s, q, T, l) \cap M # {}
      BY <2>1, <2>2, <2>4, SecuredOr
    <2> QED
      BY <1>1, <2>2, <2>5
  <1> QED
    BY <1>2, <1>3

\* An OR for the player that is not lost, and is inlined.
OpenOr(c, s, q, b, i) ==
  IsGate(c, i) /\ Deepest(c, i) >= s /\ GateTypeFor(c, i, q) = "or" /\ DecidedFor(c, q, i, b) # -1

\* It leaves something in the open clause, if the ORs among its inputs do.
LEMMA AppendedOnce ==
  ASSUME NEW c, NEW s, NEW q, NEW B, NEW T, NEW a, NEW x, Moves(c, s, q, T, a, x),
         NEW M, M = Canonical(c, q, s, T, a, x),
         NEW g \in Nodes(c), OpenOr(c, s, q, a \cup x, g),
         \A i \in Inputs(c, g) :
           OpenOr(c, s, q, a \cup x, i) => AppendOrGate(c, s, q, B, T, i) \cap M # {}
  PROVE  AppendOrGate(c, s, q, B, T, g) \cap M # {}
  <1>1. Flat(c) /\ s \in Scopes(c) /\ Shape(c) /\ NodeShapes(c) /\ NoScopeNodes(c) /\ q \in Players
    BY DEF Moves, Flat
  <1>2. s \in Nat /\ a \cup x \in Assignments(OuterVars(c, s + 1)) /\ s + 1 \in Nat \ {0}
    BY MovesTogether
  <1>3. Says(c, s, q, T, a, x, M)
    BY CanonicalLits
  <1>9. /\ IsGate(c, g) /\ Deepest(c, g) >= s /\ GateTypeFor(c, g, q) = "or"
        /\ DecidedFor(c, q, g, a \cup x) # -1
    BY DEF OpenOr
  <1> DEFINE open(k) == AppendOrGate(c, s, q, B, T, k)
             added(l) == AppendedInput(c, s, q, T, g, l, open(LitVar(l)))
  <1>4. open(g) = IF OnlyInner(c, s, g) THEN {-g}
                  ELSE (UNION {added(l) : l \in Range(c.node[g].inputs)})
                       \cup TLitIfShared(c, T, g) \cup (IF g \in B THEN {-g} ELSE {})
    BY <1>1, AppendUnfolds DEF BLit
  <1> HIDE DEF open
  <1>5. \A l \in Range(c.node[g].inputs) :
          LitVar(l) \in Nodes(c) /\ LitVar(l) \in Inputs(c, g) /\ Deepest(c, LitVar(l)) \in Nat
    BY <1>1, InputLiteral, FlatDeepest
  <1>6. CASE OnlyInner(c, s, g)
    <2>1. Counted(c, s + 1, g) = {}
      <3>1. ASSUME NEW l \in Range(c.node[g].inputs)
            PROVE  ~(Deepest(c, LitVar(l)) < s + 1)
        <4>1. Deepest(c, LitVar(l)) \in c.influences[LitVar(l)]
          BY <1>1, <1>5, FlatDeepest
        <4>2. Deepest(c, LitVar(l)) \in c.influences[g]
          BY <1>1, <1>5, <4>1 DEF Flat
        <4>3. Deepest(c, LitVar(l)) > s
          BY <1>1, <1>6, <4>2, FlatNode
        <4> QED
          BY <1>2, <1>5, <4>3
      <3> QED
        BY <3>1 DEF Counted
    <2>2. ~Secured(c, q, s + 1, g, a \cup x)
      BY <1>9, <2>1 DEF Secured
    <2>3. -g \in M
      BY <1>3, <1>9, <2>2 DEF Says, Gates
    <2> QED
      BY <1>4, <1>6, <2>3 DEF open
  <1>7. CASE ~OnlyInner(c, s, g) /\ Secured(c, q, s + 1, g, a \cup x)
    <2>1. PICK l \in Counted(c, s + 1, g) : InputFor(c, q, l, a \cup x) = 1
      BY <1>7, <1>9 DEF Secured
    <2>2. l \in Range(c.node[g].inputs) /\ Deepest(c, LitVar(l)) < s + 1
      BY <2>1 DEF Counted
    <2>3. Deepest(c, LitVar(l)) <= s
      BY <1>2, <1>5, <2>2
    <2>4. TLitIfShared(c, T, g) \cap M # {} \/ added(l) \cap M # {}
      BY <1>9, <2>1, <2>2, <2>3, SecuredOr
    <2> QED
      BY <1>4, <1>7, <2>2, <2>4 DEF open
  <1>8. CASE ~OnlyInner(c, s, g) /\ ~Secured(c, q, s + 1, g, a \cup x)
    <2>1. -g \in M
      BY <1>3, <1>8, <1>9 DEF Says, Gates
    <2>2. PICK l \in Range(c.node[g].inputs) : InputFor(c, q, l, a \cup x) # -1
      <3>1. /\ DecidedFor(c, q, g, a \cup x) = -1
                 <=> /\ ~Conflict(c, g)
                     /\ \A l \in Range(c.node[g].inputs) : InputFor(c, q, l, a \cup x) = -1
        BY <1>1, <1>9, GateFor
      <3> QED
        BY <1>1, <1>9, <3>1, ConflictInput
    <2> DEFINE i == LitVar(l)
    <2>3. i \in Nodes(c) /\ i \in Inputs(c, g) /\ Deepest(c, i) \in Nat
      BY <1>5
    <2>4. IsVar(c, i) \/ IsGate(c, i)
      BY <1>1, <2>3, NodeNumbers DEF IsVar, IsGate, IsScopeNode, NoScopeNodes
    <2>5. SUFFICES \/ TLitIfShared(c, T, g) \cap M # {}
                   \/ added(l) \cap M # {}
      BY <1>4, <1>8 DEF open
    <2>6. CASE Deepest(c, i) <= s
      <3>1. DecidedValue(c, i, a \cup x) # 0
        BY <1>1, <1>2, <2>3, <2>6, DecidedEarly
      <3>2. InputFor(c, q, l, a \cup x) = 1
        BY <1>1, <2>2, <3>1, InputDecided DEF Truths
      <3> QED
        BY <1>9, <2>6, <3>2, SecuredOr
    <2>7. CASE Deepest(c, i) > s /\ OnlyInner(c, s, i)
      <3>1. added(l) = {-g}
        BY <1>1, <2>3, <2>7, FlatInput
      <3> QED
        BY <2>1, <3>1
    <2>8. CASE Deepest(c, i) > s /\ ~OnlyInner(c, s, i)
      <3>1. IsGate(c, i)
        BY <1>1, <2>3, <2>4, <2>8, FlatNode
      <3>2. added(l) = IF GateTypeFor(c, i, q) = "or" THEN open(i) ELSE {i}
        BY <1>1, <2>3, <2>8, <3>1, FlatInput
      <3>3. DecidedFor(c, q, i, a \cup x) # -1
        BY <1>1, <2>2, <3>1, InputDecided DEF IsGate, IsVar
      <3>4. CASE GateTypeFor(c, i, q) = "or"
        <4>1. OpenOr(c, s, q, a \cup x, i)
          BY <1>2, <2>3, <2>8, <3>1, <3>3, <3>4 DEF OpenOr
        <4>2. AppendOrGate(c, s, q, B, T, i) \cap M # {}
          BY <2>3, <4>1
        <4> QED
          BY <3>2, <3>4, <4>2 DEF open
      <3>5. CASE GateTypeFor(c, i, q) # "or"
        <4>1. Secured(c, q, s + 1, i, a \cup x)
          BY <3>3, <3>5 DEF Secured
        <4>2. i \in M
          BY <1>3, <2>3, <3>1, <4>1 DEF Says, Gates
        <4> QED
          BY <3>2, <3>5, <4>2
      <3> QED
        BY <3>4, <3>5
    <2> QED
      BY <1>2, <2>3, <2>6, <2>7, <2>8
  <1> QED
    BY <1>6, <1>7, <1>8

\* So an inlined OR that is not lost leaves something in the open clause.
LEMMA AppendedMet ==
  ASSUME NEW c, NEW s, NEW q, NEW B, NEW T, NEW a, NEW x, Moves(c, s, q, T, a, x),
         NEW M, M = Canonical(c, q, s, T, a, x),
         NEW g \in Nodes(c), OpenOr(c, s, q, a \cup x, g)
  PROVE  AppendOrGate(c, s, q, B, T, g) \cap M # {}
  <1> DEFINE Open(k) == OpenOr(c, s, q, a \cup x, k)
             Met(k) == AppendOrGate(c, s, q, B, T, k) \cap M # {}
             bad == {k \in Nodes(c) : Open(k) /\ ~Met(k)}
  <1>1. Shape(c)
    BY DEF Moves, Flat
  <1>2. bad = {}
    <2> SUFFICES ASSUME bad # {}
                 PROVE  FALSE
      OBVIOUS
    <2>1. bad \in SUBSET Nat
      BY <1>1, NodeNumbers
    <2>2. PICK k \in bad : \A j \in bad : k <= j
      BY <2>1, LeastNumber
    <2>3. k \in Nodes(c) /\ Open(k) /\ ~Met(k) /\ k \in Nat
      BY <2>1, <2>2
    <2>4. \A j \in Inputs(c, k) : Open(j) => Met(j)
      <3>1. \A j \in Inputs(c, k) : j \in Nodes(c) /\ j \in 1 .. k - 1
        BY <1>1, <2>3, NodeNumbers DEF Shape, NodesInOrder, Inputs
      <3>2. \A j \in Inputs(c, k) : j \notin bad
        <4> HIDE DEF bad
        <4> QED
          BY <2>1, <2>2, <2>3, <3>1
      <3> QED
        BY <3>1, <3>2
    <2>5. \A i \in Inputs(c, k) :
            OpenOr(c, s, q, a \cup x, i) => AppendOrGate(c, s, q, B, T, i) \cap M # {}
      BY <2>4
    <2>6. k \in Nodes(c) /\ OpenOr(c, s, q, a \cup x, k)
      BY <2>3
    <2> HIDE DEF bad, Met, Open
    <2>7. AppendOrGate(c, s, q, B, T, k) \cap M # {}
      BY <2>5, <2>6, AppendedOnce
    <2> QED
      BY <2>3, <2>7 DEF Met
  <1> QED
    BY <1>2

\* The clauses of an AND.
LEMMA AndClauseMet ==
  ASSUME NEW c, NEW s, NEW q, NEW B, NEW T, NEW a, NEW x, Moves(c, s, q, T, a, x),
         NEW M, M = Canonical(c, q, s, T, a, x),
         NEW g \in Nodes(c), IsGate(c, g), Deepest(c, g) >= s, GateTypeFor(c, g, q) = "and",
         NEW cl \in EncodeAndGate(c, s, q, B, T, g)
  PROVE  cl \cap M # {}
  <1>1. Flat(c) /\ s \in Scopes(c) /\ Shape(c) /\ NodeShapes(c) /\ NoScopeNodes(c) /\ q \in Players
    BY DEF Moves, Flat
  <1>2. s \in Nat /\ a \cup x \in Assignments(OuterVars(c, s + 1)) /\ s + 1 \in Nat \ {0}
        /\ a \subseteq a \cup x /\ Consistent(a \cup x)
    BY MovesTogether
  <1>3. Says(c, s, q, T, a, x, M)
    BY CanonicalLits
  <1>4. CASE ~Secured(c, q, s + 1, g, a \cup x)
    <2>1. -g \in M
      BY <1>3, <1>4 DEF Says, Gates
    <2>2. -g \in cl
      BY DEF EncodeAndGate, BLit
    <2> QED
      BY <2>1, <2>2
  <1>5. CASE Secured(c, q, s + 1, g, a \cup x)
    <2>1. DecidedFor(c, q, g, a \cup x) # -1
      BY <1>5 DEF Secured
    <2>2. ~Conflict(c, g) /\ \A l \in Range(c.node[g].inputs) : InputFor(c, q, l, a \cup x) # -1
      BY <1>1, <2>1, GateFor
    <2>3. PICK then \in (UNION {AndInput(c, s, q, B, T, l) : l \in Range(c.node[g].inputs)})
                        \cup {{t} : t \in TLitIfShared(c, T, g)} : cl = {-g} \cup then
      BY DEF EncodeAndGate, BLit
    <2>4. CASE then \in {{t} : t \in TLitIfShared(c, T, g)}
      <3>1. then = {TLit(c, g)} /\ TLit(c, g) \in T
        BY <2>4 DEF TLitIfShared
      <3>2. DecidedFor(c, q, g, a) # -1
        BY <1>1, <1>2, <2>1, DecidedForMore
      <3>3. Secured(c, q, s, g, a)
        BY <3>2 DEF Secured
      <3>4. TLit(c, g) \in M
        BY <1>3, <3>1, <3>3 DEF Says, Gates
      <3> QED
        BY <2>3, <3>1, <3>4
    <2>5. ASSUME NEW l \in Range(c.node[g].inputs), then \in AndInput(c, s, q, B, T, l)
          PROVE  then \cap M # {}
      <3> DEFINE i == LitVar(l)
      <3>1. i \in Nodes(c) /\ Deepest(c, i) \in Nat
        BY <1>1, InputLiteral, FlatDeepest
      <3>2. \/ IsVar(c, i) /\ ~IsGate(c, i) /\ ~IsScopeNode(c, i)
            \/ IsGate(c, i) /\ ~IsVar(c, i) /\ ~IsScopeNode(c, i)
        <4>1. c.node[i].type \in {"var", "and", "or", "scope"} /\ ~IsScopeNode(c, i)
          BY <1>1, <3>1, NodeNumbers DEF NoScopeNodes
        <4> HIDE DEF i
        <4> QED
          BY <4>1 DEF IsVar, IsGate, IsScopeNode
      <3>3. /\ c.depth[s] = s /\ CurrentMax(c, s, i) = Deepest(c, i)
            /\ OwnVariable(c, s, i) <=> IsVar(c, i) /\ Deepest(c, i) = s
            /\ IsVar(c, i) => (OnlyInner(c, s, i) <=> Deepest(c, i) > s)
            /\ OnlyInner(c, s, i) => Deepest(c, i) > s
        BY <1>1, <3>1, FlatNode
      <3>4. Deepest(c, i) <= s => InputFor(c, q, l, a \cup x) = 1
        <4> SUFFICES ASSUME Deepest(c, i) <= s
                     PROVE  InputFor(c, q, l, a \cup x) = 1
          OBVIOUS
        <4>1. DecidedValue(c, i, a \cup x) # 0
          BY <1>1, <1>2, <3>1, DecidedEarly
        <4> QED
          BY <1>1, <2>2, <4>1, InputDecided DEF Truths
      <3>5. Deepest(c, i) <= s => HasLiteral(c, s, q, T, a, l, M)
        BY <3>4, WonInput
      <3>6. CASE IsVar(c, i)
        <4>1. Deepest(c, i) = s /\ then = {TransformedInput(c, q, l)}
          BY <2>5, <3>2, <3>3, <3>6 DEF AndInput
        <4>2. TransformedInput(c, q, l) \in M
          BY <1>2, <3>5, <3>6, <4>1 DEF HasLiteral
        <4> QED
          BY <4>1, <4>2
      <3>7. CASE IsGate(c, i) /\ Deepest(c, i) < s
        <4>1. then = {TLit(c, i)} /\ TLit(c, i) \in T
          <5> DEFINE shared == {{t} : t \in TLitIfShared(c, T, i)}
          <5>1. shared \subseteq {{t} : t \in {TLit(c, i)} \cap T}
            BY DEF TLitIfShared
          <5> HIDE DEF shared
          <5>2. AndInput(c, s, q, B, T, l) \in {{}, shared}
            BY <1>2, <3>1, <3>2, <3>3, <3>7 DEF AndInput, shared
          <5> HIDE DEF i
          <5> QED
            BY <2>5, <5>1, <5>2
        <4>2. TLit(c, i) \in M
          BY <1>2, <3>1, <3>5, <3>7, <4>1 DEF HasLiteral
        <4> QED
          BY <4>1, <4>2
      <3>8. CASE IsGate(c, i) /\ Deepest(c, i) = s
        <4>1. then = {i}
          BY <1>2, <2>5, <3>2, <3>3, <3>8 DEF AndInput, BLit
        <4>2. i \in M
          BY <1>2, <3>5, <3>8 DEF HasLiteral
        <4> QED
          BY <4>1, <4>2
      <3>9. CASE IsGate(c, i) /\ Deepest(c, i) > s
        <4>1. DecidedFor(c, q, i, a \cup x) # -1
          BY <1>1, <2>2, <3>9, InputDecided DEF IsGate, IsVar
        <4>2. CASE GateTypeFor(c, i, q) = "or"
          <5>1. then = AppendOrGate(c, s, q, B, T, i)
            BY <1>2, <2>5, <3>1, <3>2, <3>3, <3>9, <4>2 DEF AndInput
          <5>2. OpenOr(c, s, q, a \cup x, i)
            BY <1>2, <3>1, <3>9, <4>1, <4>2 DEF OpenOr
          <5> QED
            BY <3>1, <5>1, <5>2, AppendedMet
        <4>3. CASE GateTypeFor(c, i, q) # "or"
          <5>1. then = {i}
            BY <1>2, <2>5, <3>1, <3>2, <3>3, <3>9, <4>3 DEF AndInput, BLit
          <5>2. Secured(c, q, s + 1, i, a \cup x)
            BY <4>1, <4>3 DEF Secured
          <5>3. i \in M
            BY <1>3, <3>1, <3>9, <5>2 DEF Says, Gates
          <5> QED
            BY <5>1, <5>3
        <4> QED
          BY <4>2, <4>3
      <3> QED
        BY <1>2, <3>1, <3>2, <3>6, <3>7, <3>8, <3>9
    <2> QED
      BY <2>3, <2>4, <2>5
  <1> QED
    BY <1>4, <1>5

\* The assignments and what they make of the literals meet the encoding, if the output is
\* not lost: the encoding excludes no assignment under which the player may yet win.
LEMMA CanonicalMeets ==
  ASSUME NEW c, NEW s, NEW q, NEW B, NEW T, NEW a, NEW x, Moves(c, s, q, T, a, x),
         NEW M, M = Canonical(c, q, s, T, a, x), DecidedFor(c, q, c.output, a \cup x) # -1
  PROVE  Meets(M, BuildSatInstance(c, s, q, B, T))
  <1>1. Flat(c) /\ s \in Scopes(c) /\ Shape(c) /\ NodeShapes(c) /\ NoScopeNodes(c) /\ q \in Players
    BY DEF Moves, Flat
  <1>2. Says(c, s, q, T, a, x, M)
    BY CanonicalLits
  <1>3. s \in Nat
    BY MovesTogether
  <1>4. \A g \in Nodes(c) : IsGate(c, g) => GateTypeFor(c, g, q) \in {"and", "or"}
    BY <1>1, GateFor
  <1>5. RelevantScopeNodes(c, s) = {}
    BY <1>1 DEF RelevantScopeNodes, RelevantNodes, NoScopeNodes
  <1>6. ASSUME NEW g \in RelevantGates(c, s), NEW cl \in EncodeGate(c, s, q, B, T, g)
        PROVE  cl \cap M # {}
    <2>1. g \in Nodes(c) /\ IsGate(c, g)
      BY DEF RelevantGates, RelevantNodes
    <2>2. c.depth[s] = s /\ CurrentMax(c, s, g) = Deepest(c, g) /\ Deepest(c, g) \in Nat
      BY <1>1, <2>1, FlatNode, FlatDeepest
    <2>3. Deepest(c, g) >= s
      BY <1>3, <1>6, <2>2 DEF EncodeGate
    <2>4. cl \in IF GateTypeFor(c, g, q) = "and" THEN EncodeAndGate(c, s, q, B, T, g)
                 ELSE EncodeOrGate(c, s, q, T, g)
      BY <1>6 DEF EncodeGate
    <2>5. CASE GateTypeFor(c, g, q) = "and"
      BY <2>1, <2>3, <2>4, <2>5, AndClauseMet
    <2>6. CASE GateTypeFor(c, g, q) = "or"
      BY <2>1, <2>3, <2>4, <2>6, OrClauseMet
    <2> QED
      BY <1>4, <2>1, <2>5, <2>6
  <1>7. ASSUME NEW cl \in FixOutputValue(c, s, q, B, T)
        PROVE  cl \cap M # {}
    <2>1. c.output \in Nodes(c) /\ IsGate(c, c.output) /\ s <= Deepest(c, c.output)
          /\ Deepest(c, c.output) \in Nat
      BY <1>1, FlatDeepest DEF Flat
    <2>2. CASE GateTypeFor(c, c.output, q) = "and"
      <3>1. cl = {c.output}
        BY <2>2 DEF FixOutputValue, BLit
      <3>2. Secured(c, q, s + 1, c.output, a \cup x)
        BY <2>2 DEF Secured
      <3>3. c.output \in M
        BY <1>2, <2>1, <3>2 DEF Says, Gates
      <3> QED
        BY <3>1, <3>3
    <2>3. CASE GateTypeFor(c, c.output, q) = "or"
      <3>1. cl = AppendOrGate(c, s, q, B, T, c.output)
        BY <2>3 DEF FixOutputValue
      <3>2. OpenOr(c, s, q, a \cup x, c.output)
        BY <1>3, <2>1, <2>3 DEF OpenOr
      <3> QED
        BY <2>1, <3>1, <3>2, AppendedMet
    <2> QED
      BY <1>4, <2>1, <2>2, <2>3
  <1>8. \A cl \in BuildSatInstance(c, s, q, B, T) : cl \cap M # {}
    BY <1>5, <1>6, <1>7 DEF BuildSatInstance
  <1> QED
    BY <1>2, <1>8 DEF Meets, Says

-----------------------------------------------------------------------------
(***************************************************************************)
(* The prefix of a prenex circuit: its truth from a scope on.              *)
(***************************************************************************)
\* What is left to be true when scope s was assigned.
After(c, s, b) ==
  IF s + 1 \in Scopes(c) THEN PrefixHolds(c, s + 1, b) ELSE NodeHolds(c, c.output, b)

\* One scope, from what is true afterwards.
Level(c, s, next) ==
  [a \in SUBSET Literals(c) |->
     IF c.scope[s].qtype = "exists"
     THEN \E x \in Assignments(ScopeVars(c, s)) : next[a \cup x]
     ELSE \A x \in Assignments(ScopeVars(c, s)) : next[a \cup x]]

\* The recursion of PrefixHolds has a solution.
LEMMA PrefixLevels ==
  ASSUME NEW c, Flat(c)
  PROVE  \E h \in [Scopes(c) -> [SUBSET Literals(c) -> BOOLEAN]] :
           \A s \in Scopes(c) :
             /\ h[s] = Level(c, s, IF s + 1 \in Scopes(c) THEN h[s + 1]
                                   ELSE [b \in SUBSET Literals(c) |-> NodeHolds(c, c.output, b)])
             /\ \A a \in SUBSET Literals(c) : PrefixHolds(c, s, a) = h[s][a]
  <1> DEFINE D == SUBSET Literals(c)
             A == [D -> BOOLEAN]
             N == Len(c.scope)
             leaf == [b \in D |-> NodeHolds(c, c.output, b)]
             rule == [r \in 1 .. N |-> [f \in [1 .. N -> A] |->
                        Level(c, N + 1 - r, IF r = 1 THEN leaf ELSE f[r - 1])]]
             none == [r \in 1 .. N |-> [a \in D |-> FALSE]]
             inner(s) == {t \in Children(c, s) : InPrefix(c, t)}
             Eq(h) == [s \in Scopes(c) |-> [a \in D |->
               LET rest(b) == IF inner(s) = {} THEN NodeHolds(c, c.output, b)
                              ELSE \A t \in inner(s) : h[t][b]
               IN  IF c.scope[s].qtype = "exists"
                   THEN \E x \in Assignments(ScopeVars(c, s)) : rest(a \cup x)
                   ELSE \A x \in Assignments(ScopeVars(c, s)) : rest(a \cup x)]]
             holds == CHOOSE h : h = Eq(h)
  <1>1. N \in Nat /\ Scopes(c) = 1 .. N
    BY ScopeNumbers DEF Flat
  <1>2. \A s : \A x \in Assignments(ScopeVars(c, s)) : x \subseteq Literals(c)
    <2>1. \A s : ScopeVars(c, s) \subseteq Nodes(c)
      BY DEF ScopeVars
    <2> QED
      BY <2>1, AssignedLiterals DEF Flat
  <1>3. leaf \in A
    BY HoldsNode DEF Flat
  <1>4. \A s : \A f \in A : Level(c, s, f) \in A
    BY <1>2 DEF Level
  <1> HIDE DEF A, leaf
  <1>5. rule \in [1 .. N -> [[1 .. N -> A] -> A]]
    <2>1. ASSUME NEW r \in 1 .. N, NEW f \in [1 .. N -> A]
          PROVE  Level(c, N + 1 - r, IF r = 1 THEN leaf ELSE f[r - 1]) \in A
      <3>1. (IF r = 1 THEN leaf ELSE f[r - 1]) \in A
        BY <1>1, <1>3
      <3> QED
        BY <1>4, <3>1
    <2> QED
      BY <2>1
  <1>6. LooksBelow(rule, N, A)
    <2>1. ASSUME NEW r \in 1 .. N, NEW f \in [1 .. N -> A], NEW g \in [1 .. N -> A],
                 \A j \in 1 .. r - 1 : f[j] = g[j]
          PROVE  rule[r][f] = rule[r][g]
      <3>1. (IF r = 1 THEN leaf ELSE f[r - 1]) = (IF r = 1 THEN leaf ELSE g[r - 1])
        BY <1>1, <2>1
      <3> QED
        BY <3>1
    <2> HIDE DEF rule
    <2> QED
      BY <2>1 DEF LooksBelow
  <1>7. none \in [1 .. N -> A]
    BY DEF A
  <1> HIDE DEF none
  <1>8. PICK g : Obeys(g, rule, N, A)
    <2> HIDE DEF rule, N, D
    <2> QED
      BY <1>1, <1>5, <1>6, <1>7, RecursiveFunction
  <1> DEFINE h == [s \in Scopes(c) |-> g[N + 1 - s]]
             Next(f, s) == IF s + 1 \in Scopes(c) THEN f[s + 1] ELSE leaf
  <1>9. h \in [Scopes(c) -> A]
    <2>1. g \in [1 .. N -> A]
      BY <1>8 DEF Obeys
    <2>2. \A s \in Scopes(c) : N + 1 - s \in 1 .. N
      BY <1>1
    <2> QED
      BY <2>1, <2>2
  <1>10. \A s \in Scopes(c) : h[s] = Level(c, s, Next(h, s))
    <2> TAKE s \in Scopes(c)
    <2> DEFINE r == N + 1 - s
    <2>1. r \in 1 .. N /\ N + 1 - r = s /\ (r = 1 <=> s + 1 \notin Scopes(c))
          /\ r - 1 = N + 1 - (s + 1)
      BY <1>1
    <2>2. h[s] = Level(c, s, IF r = 1 THEN leaf ELSE g[r - 1])
      BY <1>8, <2>1 DEF Obeys
    <2>3. (IF r = 1 THEN leaf ELSE g[r - 1]) = Next(h, s)
      BY <2>1
    <2> QED
      BY <2>2, <2>3
  <1> HIDE DEF h, rule
  <1>11. ASSUME NEW f, NEW s \in Scopes(c)
         PROVE  Eq(f)[s] = Level(c, s, Next(f, s))
    <2>1. \A t \in Children(c, s) : InPrefix(c, t)
      BY DEF Flat
    <2>2. inner(s) = IF s + 1 \in Scopes(c) THEN {s + 1} ELSE {}
      BY <2>1 DEF Flat
    <2> HIDE DEF inner
    <2>3. \A a \in D : \A x \in Assignments(ScopeVars(c, s)) :
            (IF inner(s) = {} THEN NodeHolds(c, c.output, a \cup x)
             ELSE \A t \in inner(s) : f[t][a \cup x]) <=> Next(f, s)[a \cup x]
      <3>1. \A a \in D : \A x \in Assignments(ScopeVars(c, s)) : a \cup x \in D
        BY <1>2
      <3> QED
        BY <2>2, <3>1 DEF leaf
    <2> HIDE DEF Next
    <2> QED
      BY <2>3 DEF Level
  <1>12. h = Eq(h)
    <2>1. \A s \in Scopes(c) : h[s] = Eq(h)[s]
      BY <1>10, <1>11
    <2>2. Eq(h) = [s \in Scopes(c) |-> Eq(h)[s]]
      OBVIOUS
    <2> HIDE DEF Eq, A
    <2> QED
      BY <1>9, <2>1, <2>2
  <1>13. holds = Eq(holds)
    <2> HIDE DEF Eq
    <2> QED
      BY <1>12
  <1>14. \A s \in Scopes(c), a \in D : PrefixHolds(c, s, a) = holds[s][a]
    BY DEF PrefixHolds
  <1> HIDE DEF holds, Eq
  <1>15. \A s \in Scopes(c) : holds[s] = h[s]
    <2> DEFINE T == {r \in 1 .. N : holds[N + 1 - r] # h[N + 1 - r]}
    <2>1. T = {}
      <3> SUFFICES ASSUME T # {}
                   PROVE  FALSE
        OBVIOUS
      <3>1. T \in SUBSET Nat
        OBVIOUS
      <3>2. PICK r \in T : \A j \in T : r <= j
        BY <3>1, LeastNumber
      <3> DEFINE s == N + 1 - r
      <3>3. r \in 1 .. N /\ s \in Scopes(c) /\ holds[s] # h[s]
        BY <1>1, <3>2
      <3>4. s + 1 \in Scopes(c) => holds[s + 1] = h[s + 1]
        <4> SUFFICES ASSUME s + 1 \in Scopes(c)
                     PROVE  holds[s + 1] = h[s + 1]
          OBVIOUS
        <4>1. r - 1 \in 1 .. N /\ N + 1 - (r - 1) = s + 1 /\ ~(r <= r - 1)
          BY <1>1, <3>3
        <4>2. r - 1 \notin T
          BY <3>2, <4>1
        <4> QED
          BY <4>1, <4>2
      <3>5. Next(holds, s) = Next(h, s)
        BY <3>4
      <3> HIDE DEF Next
      <3> QED
        BY <1>10, <1>11, <1>13, <3>3, <3>5
    <2>2. \A s \in Scopes(c) : N + 1 - s \in 1 .. N /\ N + 1 - (N + 1 - s) = s
      BY <1>1
    <2> QED
      BY <2>1, <2>2
  <1> QED
    BY <1>9, <1>10, <1>14, <1>15 DEF A, leaf

\* A scope of the prefix, and what is true after it.
LEMMA PrefixScope ==
  ASSUME NEW c, Flat(c), NEW s \in Scopes(c), NEW a, a \subseteq Literals(c)
  PROVE  /\ PrefixHolds(c, s, a) \in BOOLEAN /\ After(c, s, a) \in BOOLEAN
         /\ c.scope[s].qtype = "exists" =>
              PrefixHolds(c, s, a) = \E x \in Assignments(ScopeVars(c, s)) : After(c, s, a \cup x)
         /\ c.scope[s].qtype # "exists" =>
              PrefixHolds(c, s, a) = \A x \in Assignments(ScopeVars(c, s)) : After(c, s, a \cup x)
  <1> DEFINE D == SUBSET Literals(c)
             leaf == [b \in D |-> NodeHolds(c, c.output, b)]
  <1>1. PICK h \in [Scopes(c) -> [D -> BOOLEAN]] :
          \A t \in Scopes(c) :
             /\ h[t] = Level(c, t, IF t + 1 \in Scopes(c) THEN h[t + 1] ELSE leaf)
             /\ \A b \in D : PrefixHolds(c, t, b) = h[t][b]
    BY PrefixLevels
  <1> DEFINE next == IF s + 1 \in Scopes(c) THEN h[s + 1] ELSE leaf
  <1>2. \A b \in D : After(c, s, b) = next[b]
    BY <1>1 DEF After
  <1>3. \A b \in D : NodeHolds(c, c.output, b) \in BOOLEAN
    BY HoldsNode DEF Flat
  <1>4. \A b \in D : After(c, s, b) \in BOOLEAN
    <2> TAKE b \in D
    <2>1. CASE s + 1 \in Scopes(c)
      <3>1. After(c, s, b) = h[s + 1][b]
        BY <1>2, <2>1
      <3>2. h[s + 1] \in [D -> BOOLEAN]
        BY <1>1, <2>1
      <3> HIDE DEF D, next
      <3> QED
        BY <3>1, <3>2
    <2>2. CASE s + 1 \notin Scopes(c)
      BY <1>3, <2>2 DEF After
    <2> QED
      BY <2>1, <2>2
  <1>5. \A x \in Assignments(ScopeVars(c, s)) : a \cup x \in D
    <2>1. ScopeVars(c, s) \subseteq Nodes(c)
      BY DEF ScopeVars
    <2> QED
      BY <2>1, AssignedLiterals DEF Flat
  <1>6. PrefixHolds(c, s, a) = Level(c, s, next)[a] /\ PrefixHolds(c, s, a) \in BOOLEAN
    <2>1. a \in D /\ PrefixHolds(c, s, a) = h[s][a]
      BY <1>1
    <2>2. h[s] = Level(c, s, next)
      BY <1>1
    <2>3. h[s] \in [D -> BOOLEAN]
      BY <1>1
    <2> HIDE DEF D, next
    <2> QED
      BY <2>1, <2>2, <2>3
  <1> HIDE DEF next
  <1>7. Level(c, s, next)[a] =
          IF c.scope[s].qtype = "exists"
          THEN \E x \in Assignments(ScopeVars(c, s)) : next[a \cup x]
          ELSE \A x \in Assignments(ScopeVars(c, s)) : next[a \cup x]
    BY DEF Level
  <1> QED
    BY <1>2, <1>4, <1>5, <1>6, <1>7

\* Some assignment of a scope leads to the truth value that its prefix has.
LEMMA SomeAssignment ==
  ASSUME NEW c, Flat(c), NEW s \in Scopes(c), NEW a, a \subseteq Literals(c)
  PROVE  \E x \in Assignments(ScopeVars(c, s)) : After(c, s, a \cup x) = PrefixHolds(c, s, a)
  <1>1. \A x \in Assignments(ScopeVars(c, s)) : After(c, s, a \cup x) \in BOOLEAN
    <2>1. ScopeVars(c, s) \subseteq Nodes(c)
      BY DEF ScopeVars
    <2>2. \A x \in Assignments(ScopeVars(c, s)) : a \cup x \subseteq Literals(c)
      BY <2>1, AssignedLiterals DEF Flat
    <2> QED
      BY <2>2, PrefixScope
  <1>2. PICK x0 : x0 \in Assignments(ScopeVars(c, s))
    BY AssignmentsExist
  <1>3. /\ PrefixHolds(c, s, a) \in BOOLEAN
        /\ c.scope[s].qtype = "exists" =>
             PrefixHolds(c, s, a) = \E x \in Assignments(ScopeVars(c, s)) : After(c, s, a \cup x)
        /\ c.scope[s].qtype # "exists" =>
             PrefixHolds(c, s, a) = \A x \in Assignments(ScopeVars(c, s)) : After(c, s, a \cup x)
    BY PrefixScope
  <1> QED
    BY ONLY <1>1, <1>2, <1>3

\* As long as the prefix can still be won by a player, the output is not decided against the
\* player: what was assigned so far loses nothing that the formula does not lose.
NotYetLost(c, q, s) ==
  \A b \in Assignments(OuterVars(c, s + 1)) :
    (After(c, s, b) <=> q = "exists") => DecidedFor(c, q, c.output, b) # -1

\* At the innermost scope everything is decided.
LEMMA LeafNotLost ==
  ASSUME NEW c, Flat(c), NEW q \in Players, NEW s \in Scopes(c), s + 1 \notin Scopes(c)
  PROVE  NotYetLost(c, q, s)
  <1> SUFFICES ASSUME NEW b \in Assignments(OuterVars(c, s + 1)),
                      After(c, s, b) <=> q = "exists"
               PROVE  DecidedFor(c, q, c.output, b) # -1
    BY DEF NotYetLost
  <1>1. s \in Nat /\ s + 1 \in Nat \ {0} /\ \A t \in Scopes(c) : t \in Nat /\ t < s + 1
    <2>1. Len(c.scope) \in Nat /\ Scopes(c) = 1 .. Len(c.scope)
      BY ScopeNumbers DEF Flat
    <2> QED
      BY <2>1
  <1>2. \A i \in Nodes(c) : Deepest(c, i) < s + 1
    BY <1>1, FlatDeepest
  <1>3. \A i \in Nodes(c) : DecidedValue(c, i, b) # 0
    BY <1>1, <1>2, DecidedEarly
  <1>4. b \subseteq Literals(c)
    BY <1>1, OuterVariables, AssignedLiterals DEF Flat
  <1>5. c.output \in Nodes(c) /\ Shape(c) /\ NoScopeNodes(c)
    BY DEF Flat
  <1>6. NodeHolds(c, c.output, b) <=> DecidedValue(c, c.output, b) = 1
    BY <1>3, <1>4, <1>5, HoldsIfDecided
  <1>7. After(c, s, b) = NodeHolds(c, c.output, b)
    BY DEF After
  <1>8. DecidedValue(c, c.output, b) \in Truths
    BY <1>5, DecidedNode
  <1> QED
    BY <1>6, <1>7, <1>8 DEF DecidedFor, ForPlayer, Players, Truths

\* An outer scope loses nothing if the next one does not.
LEMMA OuterNotLost ==
  ASSUME NEW c, Flat(c), NEW q \in Players, NEW s \in Scopes(c), s + 1 \in Scopes(c),
         NotYetLost(c, q, s + 1)
  PROVE  NotYetLost(c, q, s)
  <1> SUFFICES ASSUME NEW b \in Assignments(OuterVars(c, s + 1)),
                      After(c, s, b) <=> q = "exists"
               PROVE  DecidedFor(c, q, c.output, b) # -1
    BY DEF NotYetLost
  <1> PICK k : k = s + 1
    OBVIOUS
  <1>1. k \in Nat \ {0} /\ k \in Scopes(c)
    BY ScopeNumbers DEF Flat
  <1>2. OuterVars(c, k) \subseteq Nodes(c)
    BY <1>1, OuterVariables
  <1>3. b \subseteq Literals(c)
    BY <1>2, AssignedLiterals DEF Flat
  <1>4. PICK x \in Assignments(ScopeVars(c, k)) : After(c, k, b \cup x) = PrefixHolds(c, k, b)
    BY <1>1, <1>3, SomeAssignment
  <1>5. After(c, s, b) = PrefixHolds(c, k, b)
    BY <1>1 DEF After
  <1>6. b \cup x \in Assignments(OuterVars(c, k + 1)) /\ Consistent(b \cup x)
    <2>1. /\ OuterVars(c, k) \subseteq Nat \ {0} /\ ScopeVars(c, k) \subseteq Nat \ {0}
          /\ OuterVars(c, k) \cap ScopeVars(c, k) = {}
          /\ OuterVars(c, k) \cup ScopeVars(c, k) = OuterVars(c, k + 1)
      BY <1>1, OuterVariables
    <2>2. b \cup x \in Assignments(OuterVars(c, k) \cup ScopeVars(c, k)) /\ Consistent(b \cup x)
      BY <2>1, JoinedAssignments
    <2> QED
      BY <2>1, <2>2
  <1>7. DecidedFor(c, q, c.output, b \cup x) # -1
    BY <1>4, <1>5, <1>6 DEF NotYetLost
  <1>8. Shape(c) /\ NodeShapes(c) /\ c.output \in Nodes(c)
    BY DEF Flat
  <1>9. DecidedFor(c, q, c.output, b) # 0 =>
          DecidedFor(c, q, c.output, b \cup x) = DecidedFor(c, q, c.output, b)
    BY <1>6, <1>8, DecidedForMore
  <1> QED
    BY ONLY <1>7, <1>9

\* So it holds in every scope.
LEMMA NotLost ==
  ASSUME NEW c, Flat(c), NEW q \in Players
  PROVE  \A s \in Scopes(c) : NotYetLost(c, q, s)
  <1> DEFINE N == Len(c.scope)
             D == {d \in Nat : d < N => NotYetLost(c, q, N - d)}
  <1>1. N \in Nat /\ Scopes(c) = 1 .. N
    BY ScopeNumbers DEF Flat
  <1>2. 0 \in D
    <2>1. N \in Scopes(c) => N + 1 \notin Scopes(c)
      BY <1>1
    <2>2. 0 < N => N \in Scopes(c) /\ N - 0 = N
      BY <1>1
    <2> QED
      BY <1>1, <2>1, <2>2, LeafNotLost
  <1>3. ASSUME NEW d \in Nat, d \in D
        PROVE  d + 1 \in D
    <2> SUFFICES ASSUME d + 1 < N
                 PROVE  NotYetLost(c, q, N - (d + 1))
      BY <1>3
    <2> PICK s : s = N - (d + 1)
      OBVIOUS
    <2>1. d < N /\ s + 1 = N - d /\ s \in Scopes(c) /\ s + 1 \in Scopes(c)
      BY <1>1
    <2>2. NotYetLost(c, q, s + 1)
      BY <1>3, <2>1
    <2> HIDE DEF D, N
    <2> QED
      BY <2>1, <2>2, OuterNotLost
  <1>4. \A d \in Nat : d \in D
    <2> HIDE DEF D
    <2> QED
      BY <1>2, <1>3, Induction
  <1>5. \A s \in Scopes(c) : N - s \in Nat /\ N - s < N /\ N - (N - s) = s
    BY <1>1
  <1> QED
    BY <1>4, <1>5

-----------------------------------------------------------------------------
(***************************************************************************)
(* From one scope to the next: what the interface literals of a scope and  *)
(* of the one below it have to do with each other, and what a refutation   *)
(* of a scope's instance says.                                             *)
(***************************************************************************)
\* A gate whose t-literal the next scope has although this scope makes no promise of it:
\* nothing of it ends in this scope.
PassedOn(c, s, i) ==
  /\ Deepest(c, i) # s
  /\ Deepest(c, i) > s => \A j \in Inputs(c, i) : Deepest(c, j) = s =>
       ~IsVar(c, j) /\ \E m \in Inputs(c, i) : ~IsVar(c, m) /\ Deepest(c, m) > s

\* Inputs that count when nothing ends in the scope counted before.
LEMMA CountedBefore ==
  ASSUME NEW c, Flat(c), NEW s \in Scopes(c), NEW i \in Nodes(c),
         PassedOn(c, s, i), Deepest(c, i) > s, NEW l \in Counted(c, s + 1, i)
  PROVE  l \in Counted(c, s, i)
  <1> PICK j : j = LitVar(l)
    OBVIOUS
  <1>1. l \in Range(c.node[i].inputs) /\ j \in Inputs(c, i)
    BY DEF Counted, Inputs
  <1>2. /\ Deepest(c, j) < s + 1
        /\ IsVar(c, j) \/ \A m \in Inputs(c, i) : IsVar(c, m) \/ Deepest(c, m) < s + 1
    BY DEF Counted
  <1>3. s \in Nat /\ \A m \in Inputs(c, i) : Deepest(c, m) \in Nat
    <2>1. s \in Nat
      BY ScopeNumbers DEF Flat
    <2>2. \A m \in Inputs(c, i) : m \in Nodes(c)
      BY FlatDeepest
    <2> QED
      BY <2>1, <2>2, FlatDeepest
  <1>4. Deepest(c, j) # s
    BY <1>1, <1>2, <1>3 DEF PassedOn
  <1>5. Deepest(c, j) < s
    BY <1>1, <1>2, <1>3, <1>4
  <1>6. IsVar(c, j) \/ \A m \in Inputs(c, i) : IsVar(c, m) \/ Deepest(c, m) < s
    <2> SUFFICES ASSUME ~IsVar(c, j), NEW m \in Inputs(c, i), ~IsVar(c, m)
                 PROVE  Deepest(c, m) < s
      OBVIOUS
    <2>1. \A n \in Inputs(c, i) : IsVar(c, n) \/ Deepest(c, n) < s + 1
      BY <1>2
    <2>2. Deepest(c, m) # s
      BY <1>3, <2>1 DEF PassedOn
    <2> QED
      BY <1>3, <2>1, <2>2
  <1> QED
    BY <1>1, <1>5, <1>6 DEF Counted

\* What the next scope finds secured of such a gate was secured before.
LEMMA PassThrough ==
  ASSUME NEW c, NEW s, NEW q, NEW T, NEW a, NEW x, Moves(c, s, q, T, a, x),
         NEW i \in Nodes(c), IsGate(c, i), PassedOn(c, s, i), Secured(c, q, s + 1, i, a \cup x)
  PROVE  Secured(c, q, s, i, a)
  <1>1. /\ a \cup x \in Assignments(OuterVars(c, s + 1)) /\ Consistent(a \cup x)
        /\ a \subseteq a \cup x /\ s \in Nat \ {0} /\ s + 1 \in Nat \ {0}
    BY MovesTogether
  <1>2. /\ Flat(c) /\ s \in Scopes(c) /\ q \in Players /\ a \in Assignments(OuterVars(c, s))
        /\ Shape(c) /\ NodeShapes(c)
    BY DEF Moves, Flat
  <1>3. /\ DecidedFor(c, q, i, a) \in Truths
        /\ DecidedFor(c, q, i, a) = 0 <=> DecidedValue(c, i, a) = 0
        /\ DecidedFor(c, q, i, a) # 0 => DecidedFor(c, q, i, a \cup x) = DecidedFor(c, q, i, a)
    BY <1>1, <1>2, DecidedForMore
  <1>4. Deepest(c, i) \in Nat /\ Deepest(c, i) # s
    BY <1>2, FlatDeepest DEF PassedOn
  <1>5. CASE Deepest(c, i) < s
    <2>1. Secured(c, q, s, i, a) <=> DecidedFor(c, q, i, a) = 1
      BY <1>1, <1>2, <1>5, SecuredEarly
    <2>2. Deepest(c, i) < s + 1
      BY <1>1, <1>4, <1>5
    <2>3. Secured(c, q, s + 1, i, a \cup x) <=> DecidedFor(c, q, i, a \cup x) = 1
      BY <1>1, <1>2, <2>2, SecuredEarly
    <2>4. DecidedValue(c, i, a) # 0
      BY <1>1, <1>2, <1>5, DecidedEarly
    <2> QED
      BY ONLY <1>3, <2>1, <2>3, <2>4, Secured(c, q, s + 1, i, a \cup x)
  <1>6. CASE Deepest(c, i) > s /\ GateTypeFor(c, i, q) # "or"
    BY <1>3, <1>6 DEF Secured, Truths
  <1>7. CASE Deepest(c, i) > s /\ GateTypeFor(c, i, q) = "or"
    <2>1. PICK l \in Counted(c, s + 1, i) : InputFor(c, q, l, a \cup x) = 1
      BY <1>7 DEF Secured
    <2>2. l \in Counted(c, s, i)
      BY <1>2, <1>7, CountedBefore
    <2> PICK j : j = LitVar(l)
      OBVIOUS
    <2>3. l \in Range(c.node[i].inputs) /\ Deepest(c, j) < s
      BY <2>2 DEF Counted
    <2>4. j \in Nodes(c)
      BY <1>2, <2>3, InputLiteral
    <2>5. DecidedValue(c, j, a) # 0
      BY <1>1, <1>2, <2>3, <2>4, DecidedEarly
    <2>6. /\ InputFor(c, q, l, a) = 0 <=> DecidedValue(c, LitVar(l), a) = 0
          /\ \A b : a \subseteq b /\ Consistent(b) /\ InputFor(c, q, l, a) # 0 =>
               InputFor(c, q, l, b) = InputFor(c, q, l, a)
      BY <1>2, <2>3, InputDecided
    <2>7. InputFor(c, q, l, a) = 1
      BY <1>1, <2>1, <2>5, <2>6
    <2> QED
      BY <1>7, <2>2, <2>7 DEF Secured
  <1> QED
    BY <1>1, <1>4, <1>5, <1>6, <1>7

\* t-literals of the next scope as the literals of this one that stand for the same: its
\* promises, and its own t-literals for what is passed on.
Translated(c, B, E) == {IF TLitToVarId(c, t) \in B THEN TLitToVarId(c, t) ELSE t : t \in E}

\* If one of them is secured up to the next scope, its literal is met.
LEMMA TranslatedMet ==
  ASSUME NEW c, NEW s, NEW q, NEW B, NEW T, NEW a, NEW x, Moves(c, s, q, T, a, x),
         NEW M, M = Canonical(c, q, s, T, a, x),
         NEW E, NEW t \in E, NEW i, i = TLitToVarId(c, t), t = TLit(c, i), i \in Gates(c),
         i \notin B => t \in T /\ PassedOn(c, s, i),
         Secured(c, q, s + 1, i, a \cup x)
  PROVE  Translated(c, B, E) \cap M # {}
  <1>1. Says(c, s, q, T, a, x, M)
    BY CanonicalLits
  <1>2. i \in Nodes(c) /\ IsGate(c, i)
    BY DEF Gates
  <1>3. CASE i \in B
    <2>1. i \in M
      BY <1>1 DEF Says
    <2>2. i \in Translated(c, B, E)
      BY <1>3 DEF Translated
    <2> QED
      BY <2>1, <2>2
  <1>4. CASE i \notin B
    <2>1. Secured(c, q, s, i, a)
      BY <1>2, <1>4, PassThrough
    <2>2. t \in M
      BY <1>1, <1>4, <2>1 DEF Says
    <2>3. t \in Translated(c, B, E)
      BY <1>4 DEF Translated
    <2> QED
      BY <2>2, <2>3
  <1> QED
    BY <1>3, <1>4

\* A refuted instance whose clauses the assignments meet, and that negates no t-literal:
\* some t-literal that was assumed to be off, and was needed off, is secured.
LEMMA RefutedSays ==
  ASSUME NEW c, NEW s, NEW q, NEW T, NEW a, NEW x, Moves(c, s, q, T, a, x),
         NEW M, M = Canonical(c, q, s, T, a, x),
         NEW clauses \in Instances, FiniteClauses(clauses),
         \A cl \in clauses : cl \cap M # {} /\ \A l \in cl : l >= -MaxNum(c),
         \A t \in T : \E i \in Gates(c) : t = TLit(c, i),
         NEW own, own \subseteq x, NEW on, on \subseteq T,
         NEW failed, failed \subseteq Opposite(T), failed \cap Opposite(on) = {},
         ~Satisfiable(clauses, own \cup on \cup failed)
  PROVE  \E t \in Opposite(failed) : t \in T /\ Secured(c, q, s, TLitToVarId(c, t), a)
  <1> SUFFICES ASSUME \A t \in Opposite(failed) :
                        t \in T => ~Secured(c, q, s, TLitToVarId(c, t), a)
               PROVE  FALSE
    OBVIOUS
  <1> DEFINE all == (M \ Opposite(on)) \cup on
  <1>1. Says(c, s, q, T, a, x, M)
    BY CanonicalLits
  <1>2. NoOpposites(M) /\ x \subseteq M
    BY <1>1 DEF Says
  <1>3. MaxNum(c) \in Nat /\ \A i \in Gates(c) : i \in Nat \ {0} /\ i <= MaxNum(c) /\ i \in Nodes(c)
    BY NodeNumbers DEF Moves, Flat, Gates, Nodes
  <1>4. \A t \in T : /\ t \in Int /\ t > MaxNum(c) /\ -(-t) = t
                     /\ TLitToVarId(c, t) \in Gates(c) /\ TLit(c, TLitToVarId(c, t)) = t
    BY <1>3 DEF TLit, TLitToVarId
  <1>5. \A l \in x : l \in Int /\ -MaxNum(c) <= l /\ l <= MaxNum(c)
    <2>1. \A l \in x : l \in Int /\ LitVar(l) \in ScopeVars(c, s)
      BY MovesTogether
    <2>2. \A i \in ScopeVars(c, s) : i \in Nodes(c)
      BY DEF ScopeVars
    <2> QED
      BY <1>3, <2>1, <2>2 DEF LitVar, Nodes
  <1>6. own \subseteq all
    <2>1. \A l \in own : l \in M /\ l \in Int /\ -MaxNum(c) <= l
      BY <1>2, <1>5
    <2>2. \A l \in Opposite(on) : l \in Int /\ l < -MaxNum(c)
      BY <1>3, <1>4 DEF Opposite
    <2> QED
      BY <1>3, <2>1, <2>2
  <1>7. failed \subseteq M
    <2> SUFFICES ASSUME NEW l \in failed
                 PROVE  l \in M
      OBVIOUS
    <2>1. PICK t \in T : l = -t
      BY DEF Opposite
    <2>2. t \in Opposite(failed)
      BY <1>4, <2>1 DEF Opposite
    <2>3. ~Secured(c, q, s, TLitToVarId(c, t), a)
      BY <2>2
    <2>4. -TLit(c, TLitToVarId(c, t)) \in M
      BY <1>1, <1>4, <2>3 DEF Says
    <2> QED
      BY <1>4, <2>1, <2>4
  <1>8. NoOpposites(all)
    <2>1. all \subseteq Int
      BY <1>2, <1>4 DEF NoOpposites
    <2>2. ASSUME NEW l \in all, -l \in all
          PROVE  FALSE
      <3>1. l \in Int /\ -(-l) = l
        BY <2>1
      <3>2. CASE l \in on
        <4>1. -l \in Opposite(on)
          BY <3>2 DEF Opposite
        <4>2. -l \notin on
          BY <1>3, <1>4, <3>2
        <4> QED
          BY <2>2, <4>1, <4>2
      <3>3. CASE -l \in on
        <4>1. l \in Opposite(on)
          BY <3>1, <3>3 DEF Opposite
        <4>2. l \notin on
          BY <1>3, <1>4, <3>1, <3>3
        <4> QED
          BY <4>1, <4>2
      <3>4. CASE l \notin on /\ -l \notin on
        <4>1. l \in M /\ -l \in M
          BY <2>2, <3>4
        <4> QED
          BY <1>2, <3>1, <4>1 DEF NoOpposites, Opposite
      <3> QED
        BY <3>2, <3>3, <3>4
    <2> HIDE DEF all
    <2> QED
      BY <2>1, <2>2 DEF NoOpposites, Opposite
  <1>9. \A cl \in clauses : cl \cap all # {}
    <2> TAKE cl \in clauses
    <2>1. PICK l \in cl : l \in M
      OBVIOUS
    <2>2. l \notin Opposite(on)
      <3>1. l >= -MaxNum(c)
        OBVIOUS
      <3>2. \A m \in Opposite(on) : m \in Int /\ ~(m >= -MaxNum(c))
        BY <1>3, <1>4 DEF Opposite
      <3> QED
        BY <3>1, <3>2
    <2> QED
      BY <2>1, <2>2
  <1>10. own \cup on \cup failed \subseteq all
    BY <1>6, <1>7
  <1>11. NoOpposites(own \cup on \cup failed)
    <2> HIDE DEF all
    <2> QED
      BY <1>8, <1>10 DEF NoOpposites, Opposite
  <1>12. Meets(all, clauses)
    BY <1>8, <1>9 DEF Meets
  <1> HIDE DEF all
  <1> QED
    BY <1>10, <1>11, <1>12, SatisfiableIsSat

\* A model can be changed to what is assumed where no clause depends on it.
LEMMA PatchedModel ==
  ASSUME NEW clauses \in Instances, FiniteClauses(clauses),
         NEW M, NoOpposites(M), \A cl \in clauses : cl \cap M # {},
         NEW assumed, NoOpposites(assumed),
         \A l \in assumed : l \in M \/ \A cl \in clauses : -l \notin cl
  PROVE  Satisfiable(clauses, assumed)
  <1> DEFINE all == (M \ Opposite(assumed)) \cup assumed
  <1>1. /\ M \subseteq Int /\ \A l \in M : -l \notin M
        /\ assumed \subseteq Int /\ \A l \in assumed : -l \notin assumed
    <2>1. \A l \in Int : -(-l) = l
      OBVIOUS
    <2> QED
      BY <2>1 DEF NoOpposites, Opposite
  <1>2. NoOpposites(all)
    <2>1. all \subseteq Int
      BY <1>1
    <2>2. ASSUME NEW l \in all, -l \in all
          PROVE  FALSE
      <3>1. l \in Int /\ -(-l) = l
        BY <2>1
      <3>2. CASE l \in assumed
        <4>1. -l \in Opposite(assumed) /\ -l \notin assumed
          BY <1>1, <3>2 DEF Opposite
        <4> QED
          BY <2>2, <4>1
      <3>3. CASE -l \in assumed
        <4>1. l \in Opposite(assumed) /\ l \notin assumed
          BY <1>1, <3>1, <3>3 DEF Opposite
        <4> QED
          BY <4>1
      <3>4. CASE l \notin assumed /\ -l \notin assumed
        BY <1>1, <2>2, <3>4
      <3> QED
        BY <3>2, <3>3, <3>4
    <2> HIDE DEF all
    <2> QED
      BY <2>1, <2>2 DEF NoOpposites, Opposite
  <1>3. \A cl \in clauses : cl \cap all # {}
    <2> TAKE cl \in clauses
    <2>1. PICK l \in cl : l \in M
      OBVIOUS
    <2>2. l \notin Opposite(assumed)
      <3> SUFFICES ASSUME l \in Opposite(assumed)
                   PROVE  FALSE
        OBVIOUS
      <3>1. PICK k \in assumed : l = -k
        BY DEF Opposite
      <3> QED
        BY <1>1, <2>1, <3>1
    <2> QED
      BY <2>1, <2>2
  <1>4. Meets(all, clauses) /\ assumed \subseteq all
    BY <1>2, <1>3 DEF Meets
  <1> HIDE DEF all
  <1> QED
    BY <1>4, SatisfiableIsSat

\* The same of an instance that guards clauses by labels, numbers behind the t-literals: some
\* are on, whether they were assumed or not, the others off.  A scope's own literals count if
\* some clause is against them.  What it takes for a refutation to say something:
Refutation(c, s, q, T, a, x, clauses, labels, own, on, failed) ==
  /\ Moves(c, s, q, T, a, x) /\ clauses \in Instances /\ FiniteClauses(clauses)
  /\ \A t \in T : (\E i \in Gates(c) : t = TLit(c, i)) /\ \A cl \in clauses : -t \notin cl
  /\ \A l \in labels : l \in Nat /\ l > 2 * MaxNum(c)
  /\ \A cl \in clauses : \/ \E l \in cl : l < -(2 * MaxNum(c)) /\ -l \notin labels
                         \/ cl \cap labels # {} \/ cl \cap Canonical(c, q, s, T, a, x) # {}
  /\ NoOpposites(own)
  /\ \A l \in own : LitVar(l) <= MaxNum(c) /\ (l \in x \/ \A cl \in clauses : -l \notin cl)
  /\ on \subseteq T /\ failed \subseteq Opposite(T) /\ failed \cap Opposite(on) = {}
  /\ \E asked \in SUBSET labels : ~Satisfiable(clauses, own \cup on \cup failed \cup asked)
\* One of the failed t-literals is secured.
LEMMA LabelledSays ==
  ASSUME NEW c, NEW s, NEW q, NEW T, NEW a, NEW x, NEW clauses, NEW labels, NEW own, NEW on,
         NEW failed, Refutation(c, s, q, T, a, x, clauses, labels, own, on, failed)
  PROVE  \E t \in Opposite(failed) : t \in T /\ Secured(c, q, s, TLitToVarId(c, t), a)
  <1>m. \A l \in x : l \in Int /\ LitVar(l) \in ScopeVars(c, s)
    <2>1. Moves(c, s, q, T, a, x)
      BY DEF Refutation
    <2> QED
      BY <2>1, MovesTogether
  <1> SUFFICES ASSUME NEW M, M = Canonical(c, q, s, T, a, x), Moves(c, s, q, T, a, x),
                      clauses \in Instances, FiniteClauses(clauses),
                      \A t \in T : /\ \E i \in Gates(c) : t = TLit(c, i)
                                   /\ \A cl \in clauses : -t \notin cl,
                      \A l \in labels : l \in Nat /\ l > 2 * MaxNum(c),
                      \A cl \in clauses : \/ \E l \in cl : l < -(2 * MaxNum(c)) /\ -l \notin labels
                                          \/ cl \cap labels # {} \/ cl \cap M # {},
                      NoOpposites(own),
                      \A l \in own : /\ LitVar(l) <= MaxNum(c)
                                     /\ l \in x \/ \A cl \in clauses : -l \notin cl,
                      on \subseteq T, failed \subseteq Opposite(T), failed \cap Opposite(on) = {},
                      NEW asked, asked \subseteq labels,
                      ~Satisfiable(clauses, own \cup on \cup failed \cup asked)
               PROVE  \E t \in Opposite(failed) : t \in T /\ Secured(c, q, s, TLitToVarId(c, t), a)
    BY DEF Refutation
  <1> SUFFICES ASSUME \A t \in Opposite(failed) :
                        t \in T => ~Secured(c, q, s, TLitToVarId(c, t), a)
               PROVE  FALSE
    OBVIOUS
  <1> DEFINE N == MaxNum(c)
             behind == {l \in Int : l > 2 * N}
             off == {-l : l \in behind \ labels}
             all == M \cup labels \cup off
             assumed == own \cup on \cup failed \cup asked
  <1>1. Says(c, s, q, T, a, x, M)
    BY CanonicalLits
  <1>2. NoOpposites(M) /\ x \subseteq M
    BY <1>1 DEF Says
  <1>3. N \in Nat /\ \A i \in Gates(c) : i \in Nat \ {0} /\ i <= N /\ i \in Nodes(c)
    BY NodeNumbers DEF Moves, Flat, Gates, Nodes
  <1>4. \A t \in T : /\ t \in Int /\ t > N /\ t <= 2 * N /\ -(-t) = t
                     /\ TLitToVarId(c, t) \in Gates(c) /\ TLit(c, TLitToVarId(c, t)) = t
    BY <1>3 DEF TLit, TLitToVarId
  <1>5. \A l \in M : l \in Int /\ -(2 * N) <= l /\ l <= 2 * N
    <2>1. \A l \in x : l \in Int /\ LitVar(l) \in ScopeVars(c, s)
      BY <1>m
    <2>2. \A i \in ScopeVars(c, s) : i \in Nodes(c) /\ i \in 1 .. N
      BY <1>3 DEF ScopeVars, Nodes
    <2>3. \A l \in x : l \in Int /\ -N <= l /\ l <= N
      BY <1>3, <2>1, <2>2 DEF LitVar
    <2>4. \A l \in M : \/ l \in x \/ \E i \in Gates(c) : l \in {i, -i}
                       \/ \E i \in Gates(c) : l \in {TLit(c, i), -TLit(c, i)}
      BY DEF Canonical
    <2>5. \A i \in Gates(c) : TLit(c, i) \in Nat /\ TLit(c, i) <= 2 * N
      BY <1>3 DEF TLit
    <2> HIDE DEF N
    <2> QED
      BY <1>3, <2>3, <2>4, <2>5
  <1>6. failed \subseteq M
    <2> SUFFICES ASSUME NEW l \in failed
                 PROVE  l \in M
      OBVIOUS
    <2>1. PICK t \in T : l = -t
      BY DEF Opposite
    <2>2. t \in Opposite(failed)
      BY <1>4, <2>1 DEF Opposite
    <2>3. ~Secured(c, q, s, TLitToVarId(c, t), a)
      BY <2>2
    <2>4. -TLit(c, TLitToVarId(c, t)) \in M
      BY <1>1, <1>4, <2>3 DEF Says
    <2> QED
      BY <1>4, <2>1, <2>4
  <1>7. /\ \A l \in labels : l \in Int /\ l > 2 * N
        /\ \A l \in off : l \in Int /\ l < -(2 * N) /\ -l \notin labels
    <2>1. \A l \in labels : l \in Int /\ l > 2 * N
      OBVIOUS
    <2>2. ASSUME NEW l \in off
          PROVE  l \in Int /\ l < -(2 * N) /\ -l \notin labels
      <3>1. PICK k : k \in Int /\ k > 2 * N /\ k \notin labels /\ l = -k
        OBVIOUS
      <3>2. -l = k /\ l \in Int
        BY <3>1
      <3> HIDE DEF N, off
      <3> QED
        BY <1>3, <3>1, <3>2
    <2> QED
      BY <2>1, <2>2
  <1> HIDE DEF off, behind
  <1>8. NoOpposites(all)
    <2>1. all \subseteq Int
      BY <1>5, <1>7
    <2>2. \A l \in M : -l \notin M
      BY <1>2 DEF NoOpposites, Opposite
    <2>3. ASSUME NEW l \in all, -l \in all
          PROVE  FALSE
      <3>1. PICK k : k = -l
        OBVIOUS
      <3>2. l \in Int /\ k \in Int /\ l = -k
        BY <2>1, <3>1
      <3>3. k \in M \cup labels \cup off /\ l \in M \cup labels \cup off
        BY <2>3, <3>1
      <3> HIDE DEF all, N
      <3>4. CASE l \in M
        <4>1. k \notin M /\ k \notin labels /\ k \notin off
          BY <1>3, <1>5, <1>7, <2>2, <3>1, <3>2, <3>4
        <4> QED
          BY <3>3, <4>1
      <3>5. CASE l \in labels
        <4>1. k \notin M /\ k \notin labels /\ k \notin off
          BY <1>3, <1>5, <1>7, <3>1, <3>2, <3>5
        <4> QED
          BY <3>3, <4>1
      <3>6. CASE l \in off
        <4>1. k \notin M /\ k \notin labels /\ k \notin off
          BY <1>3, <1>5, <1>7, <3>1, <3>2, <3>6
        <4> QED
          BY <3>3, <4>1
      <3> QED
        BY <3>3, <3>4, <3>5, <3>6
    <2> HIDE DEF all
    <2> QED
      BY <2>1, <2>3 DEF NoOpposites, Opposite
  <1>9. \A cl \in clauses : cl \cap all # {}
    <2> TAKE cl \in clauses
    <2>1. cl \subseteq Int
      BY DEF Instances
    <2>2. CASE \E l \in cl : l < -(2 * N) /\ -l \notin labels
      <3>1. PICK l \in cl : l < -(2 * N) /\ -l \notin labels
        BY <2>2
      <3>2. PICK k : k = -l
        OBVIOUS
      <3>3. l \in Int /\ k \in Int /\ k > 2 * N /\ l = -k /\ k \notin labels
        BY <1>3, <2>1, <3>1, <3>2
      <3>4. l \in off
        BY <3>3 DEF off, behind
      <3> QED
        BY <3>4
    <2>3. CASE cl \cap labels # {} \/ cl \cap M # {}
      BY <2>3
    <2> QED
      BY <2>2, <2>3
  <1>10. \A l \in assumed : l \in all \/ \A cl \in clauses : -l \notin cl
    BY <1>2, <1>6
  <1>11. NoOpposites(assumed)
    <2>1. \A l \in own : l \in Int /\ -l \notin own /\ -N <= l /\ l <= N
      <3>1. \A l \in own : l \in Int /\ -l \notin own
        BY DEF NoOpposites, Opposite
      <3>2. \A l \in own : LitVar(l) <= N
        OBVIOUS
      <3> QED
        BY <1>3, <3>1, <3>2 DEF LitVar
    <2>2. \A l \in on : l \in Int /\ l > N /\ l <= 2 * N
      BY <1>4
    <2>3. \A l \in failed : l \in Int /\ l < -N /\ -(2 * N) <= l /\ -l \notin on
      <3>1. ASSUME NEW l \in failed
            PROVE  l \in Int /\ l < -N /\ -(2 * N) <= l /\ -l \notin on
        <4>1. PICK t \in T : l = -t
          BY DEF Opposite
        <4>2. l \notin Opposite(on)
          OBVIOUS
        <4>3. t \in Int /\ t > N /\ t <= 2 * N /\ -l = t
          BY <1>4, <4>1
        <4>4. t \notin on
          BY <4>1, <4>2 DEF Opposite
        <4> HIDE DEF N
        <4> QED
          BY <1>3, <4>1, <4>3, <4>4
      <3> QED
        BY <3>1
    <2>4. \A l \in asked : l \in Int /\ l > 2 * N
      BY <1>7
    <2>5. assumed \subseteq Int
      BY <2>1, <2>2, <2>3, <2>4
    <2>6. ASSUME NEW l \in assumed, -l \in assumed
          PROVE  FALSE
      <3>1. PICK k : k = -l
        OBVIOUS
      <3>2. l \in Int /\ k \in Int /\ l = -k
        BY <2>5, <3>1
      <3>3. /\ k \in own \cup on \cup failed \cup asked
            /\ l \in own \cup on \cup failed \cup asked
        BY <2>6, <3>1
      <3> HIDE DEF assumed, N
      <3>4. CASE l \in own
        <4>1. k \notin own /\ k \notin on /\ k \notin failed /\ k \notin asked
          BY <1>3, <2>1, <2>2, <2>3, <2>4, <3>1, <3>2, <3>4
        <4> QED
          BY <3>3, <4>1
      <3>5. CASE l \in on
        <4>1. k \notin own /\ k \notin on /\ k \notin failed /\ k \notin asked
          BY <1>3, <2>1, <2>2, <2>3, <2>4, <3>1, <3>2, <3>5
        <4> QED
          BY <3>3, <4>1
      <3>6. CASE l \in failed
        <4>1. k \notin own /\ k \notin on /\ k \notin failed /\ k \notin asked
          BY <1>3, <2>1, <2>2, <2>3, <2>4, <3>1, <3>2, <3>6
        <4> QED
          BY <3>3, <4>1
      <3>7. CASE l \in asked
        <4>1. k \notin own /\ k \notin on /\ k \notin failed /\ k \notin asked
          BY <1>3, <2>1, <2>2, <2>3, <2>4, <3>1, <3>2, <3>7
        <4> QED
          BY <3>3, <4>1
      <3> QED
        BY <3>3, <3>4, <3>5, <3>6, <3>7
    <2> HIDE DEF assumed
    <2> QED
      BY <2>5, <2>6 DEF NoOpposites, Opposite
  <1> HIDE DEF all, assumed
  <1>12. Satisfiable(clauses, assumed)
    BY <1>8, <1>9, <1>10, <1>11, PatchedModel
  <1> QED
    BY <1>12 DEF assumed

-----------------------------------------------------------------------------
(***************************************************************************)
(* Influences: non-empty sets of scopes.                                   *)
(***************************************************************************)
\* What a node adds to the influences of its inputs.
OwnInfluence(c, i) ==
  CASE IsVar(c, i) -> {Depth(c)[c.node[i].scope]}
    [] IsScopeNode(c, i) /\ c.scope[c.node[i].scope].prev = TopLevel -> {Depth(c)[TopLevel]}
    [] OTHER -> {}

\* A node's influences from those of its inputs.
InfluenceFrom(c, i, f) ==
  LET all == (UNION {f[j] : j \in Inputs(c, i)}) \cup OwnInfluence(c, i)
  IN  IF all = {} THEN {Depth(c)[TopLevel]} ELSE all

\* The recursion of Influences has a solution: what a node depends on comes from its inputs.
LEMMA InfluencesOfInputs ==
  ASSUME NEW c, Shape(c)
  PROVE  Influences(c) = [i \in Nodes(c) |-> InfluenceFrom(c, i, Influences(c))]
  <1> DEFINE Eq(g) == [i \in Nodes(c) |->
               LET below == UNION {g[j] : j \in Inputs(c, i)}
                   own   == CASE IsVar(c, i) -> {Depth(c)[c.node[i].scope]}
                              [] IsScopeNode(c, i) /\ c.scope[c.node[i].scope].prev = TopLevel
                                   -> {Depth(c)[TopLevel]}
                              [] OTHER -> {}
               IN  IF below \cup own = {} THEN {Depth(c)[TopLevel]} ELSE below \cup own]
             inf == CHOOSE g : g = Eq(g)
             Own == (UNION {OwnInfluence(c, i) : i \in Nodes(c)}) \cup {Depth(c)[TopLevel]}
             D == SUBSET Own
             A == [Nodes(c) -> D]
             rule == [i \in Nodes(c) |-> [f \in A |-> InfluenceFrom(c, i, f)]]
             none == [i \in Nodes(c) |-> {}]
             N == MaxNum(c)
  <1>1. \A g : Eq(g) = [i \in Nodes(c) |-> InfluenceFrom(c, i, g)]
    BY DEF InfluenceFrom, OwnInfluence
  <1>2. N \in Nat /\ Nodes(c) = 1 .. N /\ \A i \in Nodes(c) : Inputs(c, i) \subseteq 1 .. i - 1
    <2>1. N \in Nat /\ Nodes(c) = 1 .. N
      BY NodeNumbers DEF Nodes
    <2>2. \A i \in Nodes(c) : Inputs(c, i) \subseteq 1 .. i - 1
      BY DEF Shape, NodesInOrder, Inputs
    <2> QED
      BY <2>1, <2>2
  <1>3. none \in [1 .. N -> D]
    BY <1>2
  <1>4. rule \in [1 .. N -> [[1 .. N -> D] -> D]]
    <2>1. ASSUME NEW i \in Nodes(c), NEW f \in A
          PROVE  InfluenceFrom(c, i, f) \in D
      <3>1. \A j \in Inputs(c, i) : f[j] \subseteq Own
        BY <1>2
      <3>2. OwnInfluence(c, i) \subseteq Own /\ Depth(c)[TopLevel] \in Own
        OBVIOUS
      <3> HIDE DEF Own
      <3> QED
        BY <3>1, <3>2 DEF InfluenceFrom
    <2> HIDE DEF D
    <2> QED
      BY <1>2, <2>1
  <1>5. LooksBelow(rule, N, D)
    <2>1. ASSUME NEW i \in 1 .. N, NEW f \in [1 .. N -> D], NEW g \in [1 .. N -> D],
                 \A j \in 1 .. i - 1 : f[j] = g[j]
          PROVE  rule[i][f] = rule[i][g]
      <3>1. \A j \in Inputs(c, i) : f[j] = g[j]
        BY <1>2, <2>1
      <3>2. InfluenceFrom(c, i, f) = InfluenceFrom(c, i, g)
        <4>1. {f[j] : j \in Inputs(c, i)} = {g[j] : j \in Inputs(c, i)}
          BY <3>1
        <4> QED
          BY <4>1 DEF InfluenceFrom
      <3> HIDE DEF D
      <3> QED
        BY <1>2, <3>2
    <2> HIDE DEF rule
    <2> QED
      BY <2>1 DEF LooksBelow
  <1> HIDE DEF none
  <1>6. PICK g : Obeys(g, rule, N, D)
    <2> HIDE DEF rule, N, D
    <2> QED
      BY <1>2, <1>3, <1>4, <1>5, RecursiveFunction
  <1> HIDE DEF D
  <1>7. g = [i \in Nodes(c) |-> InfluenceFrom(c, i, g)]
    BY <1>2, <1>6 DEF Obeys
  <1> HIDE DEF Eq
  <1>8. inf = Eq(inf)
    BY <1>1, <1>7
  <1>9. Influences(c) = inf
    BY DEF Influences, Eq
  <1> QED
    BY <1>1, <1>8, <1>9

\* Influences are scope depths, at least one for every node.
LEMMA InfluencesType ==
  ASSUME NEW c, Shape(c), NodeShapes(c), NEW D, \A s \in Scopes(c) : Depth(c)[s] \in D
  PROVE  \A i \in Nodes(c) : Influences(c)[i] \subseteq D /\ Influences(c)[i] # {}
  <1> DEFINE T == {i \in Nodes(c) : ~(Influences(c)[i] \subseteq D /\ Influences(c)[i] # {})}
  <1> SUFFICES ASSUME T # {}
               PROVE  FALSE
    OBVIOUS
  <1>1. T \in SUBSET Nat
    BY NodeNumbers
  <1>2. PICK i \in T : \A j \in T : i <= j
    BY <1>1, LeastNumber
  <1>3. i \in Nodes(c) /\ Influences(c)[i] = InfluenceFrom(c, i, Influences(c))
    BY InfluencesOfInputs
  <1>4. \A j \in Inputs(c, i) : Influences(c)[j] \subseteq D
    <2>1. \A j \in Inputs(c, i) : j \in Nodes(c) /\ j \in 1 .. i - 1 /\ i \in Nat
      BY <1>3, NodeNumbers DEF Shape, NodesInOrder, Inputs
    <2> QED
      BY <1>2, <2>1
  <1>5. TopLevel \in Scopes(c)
    BY DEF Shape, ScopeTree
  <1>6. OwnInfluence(c, i) \subseteq D /\ {Depth(c)[TopLevel]} \subseteq D
    BY <1>3, <1>5 DEF OwnInfluence, NodeShapes
  <1>7. Influences(c)[i] \subseteq D /\ Influences(c)[i] # {}
    BY <1>3, <1>4, <1>6 DEF InfluenceFrom
  <1> QED
    BY <1>2, <1>7

\* The recursion of WellFormed has a solution: the nodes below a node are those below its
\* inputs, and itself; and all are below the output.
LEMMA AllBelowOutput ==
  ASSUME NEW c, WellFormed(c)
  PROVE  \E below : /\ below[c.output] = Nodes(c)
                    /\ \A i \in Nodes(c) : below[i] = {i} \cup UNION {below[j] : j \in Inputs(c, i)}
  <1> DEFINE From(i, g) == {i} \cup UNION {g[j] : j \in Inputs(c, i)}
             Eq(g) == [i \in Nodes(c) |-> From(i, g)]
             below == CHOOSE g : g = Eq(g)
             N == MaxNum(c)
             D == SUBSET Nodes(c)
             rule == [i \in Nodes(c) |-> [f \in [Nodes(c) -> D] |-> From(i, f)]]
             none == [i \in Nodes(c) |-> {}]
  <1>1. Shape(c)
    BY WellFormedShape
  <1>2. N \in Nat /\ Nodes(c) = 1 .. N
    BY <1>1, NodeNumbers DEF Nodes
  <1>3. \A i \in Nodes(c) : Inputs(c, i) \subseteq 1 .. i - 1 /\ Inputs(c, i) \subseteq Nodes(c)
    <2>1. \A i \in Nodes(c) : Inputs(c, i) \subseteq 1 .. i - 1
      BY <1>1 DEF Shape, NodesInOrder, Inputs
    <2> QED
      BY <1>1, <2>1, NodeNumbers
  <1>4. below[c.output] = Nodes(c)
    BY DEF WellFormed
  <1>5. none \in [1 .. N -> D]
    BY <1>2
  <1>6. rule \in [1 .. N -> [[1 .. N -> D] -> D]]
    <2>1. ASSUME NEW i \in Nodes(c), NEW f \in [Nodes(c) -> D]
          PROVE  From(i, f) \in D
      BY <1>3
    <2> HIDE DEF D, From
    <2> QED
      BY <1>2, <2>1
  <1>7. LooksBelow(rule, N, D)
    <2>1. ASSUME NEW i \in 1 .. N, NEW f \in [1 .. N -> D], NEW g \in [1 .. N -> D],
                 \A j \in 1 .. i - 1 : f[j] = g[j]
          PROVE  rule[i][f] = rule[i][g]
      <3>1. \A j \in Inputs(c, i) : f[j] = g[j]
        BY <1>2, <1>3, <2>1
      <3>2. From(i, f) = From(i, g)
        BY <3>1
      <3> HIDE DEF D, From
      <3> QED
        BY <1>2, <3>2
    <2> HIDE DEF rule
    <2> QED
      BY <2>1 DEF LooksBelow
  <1> HIDE DEF none
  <1>8. PICK g : Obeys(g, rule, N, D)
    <2> HIDE DEF rule, N, D
    <2> QED
      BY <1>2, <1>5, <1>6, <1>7, RecursiveFunction
  <1> HIDE DEF D, From
  <1>9. g = Eq(g)
    BY <1>2, <1>8 DEF Obeys
  <1> HIDE DEF Eq
  <1>10. below = Eq(below)
    BY <1>9
  <1> HIDE DEF below
  <1>11. \A i \in Nodes(c) : below[i] = From(i, below)
    BY <1>10 DEF Eq
  <1> QED
    BY <1>4, <1>11 DEF From

-----------------------------------------------------------------------------
(***************************************************************************)
(* A well-formed circuit without quantified subformulas is, annotated, one *)
(* of those that these lemmas are about.                                   *)
(***************************************************************************)
PrenexCircuit(c) == WellFormed(c) /\ \A s \in Scopes(c) : InPrefix(c, s)

\* The scopes follow each other.
LEMMA PrenexTree ==
  ASSUME NEW c, PrenexCircuit(c), NEW s \in Scopes(c)
  PROVE  /\ c.scope[s].prev = s - 1
         /\ Children(c, s) = IF s + 1 \in Scopes(c) THEN {s + 1} ELSE {}
  <1>1. Shape(c) /\ ScopeTree(c)
    BY WellFormedShape DEF PrenexCircuit, Shape
  <1>2. Len(c.scope) \in Nat /\ Scopes(c) = 1 .. Len(c.scope)
    BY <1>1, ScopeNumbers
  <1>3. c.scope[TopLevel].prev = 0 /\ TopLevel = 1
    BY <1>1 DEF ScopeTree, TopLevel
  <1>4. \A t \in Scopes(c) \ {1} :
          c.scope[t].prev \in 1 .. t - 1 /\ c.scope[c.scope[t].prev].next = <<t>>
    BY <1>1, <1>3 DEF ScopeTree, PrenexCircuit, WellFormed
  <1>5. \A t \in Scopes(c) : Children(c, t) \subseteq {u \in Scopes(c) : c.scope[u].prev = t}
    <2> TAKE t \in Scopes(c)
    <2>1. c.scope[t] \in [qtype : {"exists", "forall"}, prev : {0} \cup Scopes(c),
                          node : {0} \cup Nodes(c), next : Seq(Scopes(c))]
      <3>1. PICK Record : Record = [qtype : {"exists", "forall"}, prev : {0} \cup Scopes(c),
                                    node : {0} \cup Nodes(c), next : Seq(Scopes(c))]
        OBVIOUS
      <3>2. c.scope \in Seq(Record)
        BY <1>1, <3>1 DEF Shape, CircuitType
      <3>3. t \in 1 .. Len(c.scope)
        BY <1>2
      <3>4. c.scope[t] \in Record
        BY <3>2, <3>3
      <3> QED
        BY <3>1, <3>4
    <2>2. PICK next : next = c.scope[t].next
      OBVIOUS
    <2>3. next \in Seq(Scopes(c))
      BY <2>1, <2>2
    <2>4. \A i \in DOMAIN next : next[i] \in Scopes(c)
      BY <2>3
    <2>5. \A i \in DOMAIN next : c.scope[next[i]].prev = t
      BY <1>1, <2>2 DEF ScopeTree
    <2> QED
      BY <2>2, <2>4, <2>5 DEF Children, Range
  <1>6. \A t \in Scopes(c) \ {1} : Children(c, c.scope[t].prev) = {t}
    BY <1>4 DEF Children, Range
  <1> DEFINE bad == {t \in Scopes(c) : c.scope[t].prev # t - 1}
  <1>7. bad = {}
    <2> SUFFICES ASSUME bad # {}
                 PROVE  FALSE
      OBVIOUS
    <2>1. bad \in SUBSET Nat
      BY <1>2
    <2>2. PICK t \in bad : \A u \in bad : t <= u
      BY <2>1, LeastNumber
    <2>3. t \in Scopes(c) \ {1} /\ c.scope[t].prev # t - 1
      BY <1>3, <2>2
    <2>4. PICK p : p = c.scope[t].prev
      OBVIOUS
    <2>5. t \in 1 .. Len(c.scope) /\ p \in 1 .. t - 1 /\ p # t - 1
      BY <1>2, <1>4, <2>3, <2>4
    <2>6. p + 1 \in 1 .. Len(c.scope) /\ p + 1 # 1 /\ p + 1 # t /\ ~(t <= p + 1) /\ p + 1 - 1 = p
      BY <1>2, <2>5
    <2>7. p + 1 \in Scopes(c) \ {1} /\ c.scope[p + 1].prev = p
      <3>1. PICK u : u = p + 1
        OBVIOUS
      <3>2. u \in 1 .. Len(c.scope) /\ u # 1 /\ u - 1 = p /\ ~(t <= u)
        <4>1. p \in Nat /\ t \in Nat /\ u \in Nat
          BY <1>2, <2>5, <3>1
        <4> QED
          BY <2>6, <3>1, <4>1
      <3>3. u \in Scopes(c)
        BY <1>2, <3>2
      <3>4. u \notin bad
        BY <2>2, <3>2
      <3> QED
        BY <3>1, <3>2, <3>3, <3>4
    <2>8. Children(c, p) = {t} /\ Children(c, p) = {p + 1}
      BY <1>6, <2>3, <2>4, <2>7
    <2> QED
      BY <2>6, <2>8
  <1>8. \A t \in Scopes(c) : c.scope[t].prev = t - 1
    BY <1>7
  <1>9. CASE s + 1 \in Scopes(c)
    <2>1. s + 1 \in Scopes(c) \ {1} /\ c.scope[s + 1].prev = s
      BY <1>2, <1>8, <1>9
    <2> QED
      BY <1>6, <1>8, <1>9, <2>1
  <1>10. CASE s + 1 \notin Scopes(c)
    <2>1. \A u \in Scopes(c) : c.scope[u].prev # s
      BY <1>2, <1>8, <1>10
    <2> QED
      BY <1>5, <1>8, <1>10, <2>1
  <1> QED
    BY <1>9, <1>10

\* The scopes around s are those with smaller numbers: the recursion of Enclosing.
LEMMA PrenexEnclosing ==
  ASSUME NEW c, PrenexCircuit(c), NEW s \in Scopes(c)
  PROVE  Enclosing(c, s) = 1 .. s - 1
  <1> DEFINE D == {0} \cup Scopes(c)
             Up(g) == [t \in D |-> IF t = 0 THEN {} ELSE {t} \cup g[c.scope[t].prev]]
             up == CHOOSE g : g = Up(g)
             all == [t \in D |-> 1 .. t]
  <1>1. Len(c.scope) \in Nat /\ Scopes(c) = 1 .. Len(c.scope)
    BY WellFormedShape, ScopeNumbers DEF PrenexCircuit
  <1>2. \A t \in Scopes(c) : c.scope[t].prev = t - 1
    BY PrenexTree
  <1>3. \A t \in D : t \in Nat /\ (t # 0 => t - 1 \in D /\ t \in Scopes(c))
    BY <1>1
  <1>4. all = Up(all)
    <2>1. ASSUME NEW t \in D
          PROVE  1 .. t = IF t = 0 THEN {} ELSE {t} \cup all[c.scope[t].prev]
      <3>1. CASE t = 0
        BY <3>1
      <3>2. CASE t # 0
        <4>1. t \in Nat \ {0} /\ all[c.scope[t].prev] = 1 .. t - 1
          BY <1>2, <1>3, <3>2
        <4>2. 1 .. t = {t} \cup 1 .. t - 1
          BY <4>1
        <4> QED
          BY <3>2, <4>1, <4>2
      <3> QED
        BY <3>1, <3>2
    <2> QED
      BY <2>1
  <1>5. up = Up(up)
    BY <1>4
  <1>6. Enclosing(c, s) = up[c.scope[s].prev]
    BY DEF Enclosing
  <1> HIDE DEF up
  <1>7. \A t \in D : up[t] = IF t = 0 THEN {} ELSE {t} \cup up[t - 1]
    <2>1. \A t \in D : up[t] = IF t = 0 THEN {} ELSE {t} \cup up[c.scope[t].prev]
      BY <1>5
    <2> QED
      BY <1>2, <1>3, <2>1
  <1> DEFINE T == {t \in D : up[t] # 1 .. t}
  <1>8. T = {}
    <2> SUFFICES ASSUME T # {}
                 PROVE  FALSE
      OBVIOUS
    <2>1. T \in SUBSET Nat
      BY <1>3
    <2>2. PICK t \in T : \A r \in T : t <= r
      BY <2>1, LeastNumber
    <2>3. t \in D /\ t \in Nat /\ up[t] # 1 .. t
      BY <1>3, <2>2
    <2>4. t # 0
      <3>1. 0 \in D /\ 1 .. 0 = {}
        BY SMT
      <3>2. up[0] = {}
        BY <1>7, <3>1
      <3> QED
        BY <2>3, <3>1, <3>2
    <2>5. t - 1 \in D /\ t - 1 \in Nat /\ ~(t <= t - 1)
      BY <1>3, <2>3, <2>4
    <2>6. up[t - 1] = 1 .. t - 1
      BY <2>2, <2>5
    <2>7. 1 .. t = {t} \cup 1 .. t - 1
      BY <2>3, <2>4
    <2> QED
      BY <1>7, <2>3, <2>4, <2>6, <2>7
  <1>9. s - 1 \in D
    <2>1. s \in D /\ s # 0
      BY <1>1
    <2> QED
      BY <1>3, <2>1
  <1> QED
    BY <1>2, <1>6, <1>8, <1>9

\* No node of it opens a scope.
LEMMA PrenexNodes ==
  ASSUME NEW c, PrenexCircuit(c)
  PROVE  NodeShapes(c) /\ NoScopeNodes(c)
  <1>1. Shape(c)
    BY WellFormedShape DEF PrenexCircuit
  <1>2. \A i \in Nodes(c) :
          /\ IsVar(c, i) => c.node[i].inputs = <<>> /\ c.node[i].scope \in Scopes(c)
          /\ IsScopeNode(c, i) => /\ ~IsVar(c, LitVar(c.node[i].inputs[1]))
                                  /\ c.node[i].scope \in Scopes(c)
                                  /\ c.scope[c.node[i].scope].node = i
    BY DEF PrenexCircuit, WellFormed
  <1>3. \A i \in Nodes(c) : i # 0
    BY <1>1, NodeNumbers
  <1> QED
    BY <1>2, <1>3 DEF NodeShapes, NoScopeNodes, PrenexCircuit, InPrefix

\* The output depends on whatever any node depends on.
LEMMA OutputDepends ==
  ASSUME NEW c, PrenexCircuit(c), NEW i \in Nodes(c)
  PROVE  Influences(c)[i] \subseteq Influences(c)[c.output]
  <1>1. Shape(c)
    BY WellFormedShape DEF PrenexCircuit
  <1>2. PICK below : /\ below[c.output] = Nodes(c)
                     /\ \A k \in Nodes(c) :
                          below[k] = {k} \cup UNION {below[j] : j \in Inputs(c, k)}
    BY AllBelowOutput DEF PrenexCircuit
  <1> DEFINE less(k) == \A j \in below[k] : Influences(c)[j] \subseteq Influences(c)[k]
             bad == {k \in Nodes(c) : ~less(k)}
  <1>3. bad = {}
    <2> SUFFICES ASSUME bad # {}
                 PROVE  FALSE
      OBVIOUS
    <2>1. bad \in SUBSET Nat
      BY <1>1, NodeNumbers
    <2>2. PICK k \in bad : \A j \in bad : k <= j
      BY <2>1, LeastNumber
    <2>3. k \in Nodes(c) /\ ~less(k)
      BY <2>2
    <2>4. Influences(c)[k] = InfluenceFrom(c, k, Influences(c))
      BY <1>1, <2>3, InfluencesOfInputs
    <2>5. ASSUME NEW j \in Inputs(c, k)
          PROVE  less(j) /\ Influences(c)[j] \subseteq Influences(c)[k]
      <3>1. j \in Nodes(c) /\ j \in 1 .. k - 1 /\ k \in Nat
        BY <1>1, <2>1, <2>3, NodeNumbers DEF Shape, NodesInOrder, Inputs
      <3>2. less(j)
        <4> HIDE DEF less
        <4> QED
          BY <2>2, <3>1
      <3>3. Influences(c)[j] \subseteq UNION {Influences(c)[m] : m \in Inputs(c, k)}
        OBVIOUS
      <3>4. Influences(c)[j] \subseteq Influences(c)[k]
        BY <2>4, <3>3 DEF InfluenceFrom
      <3> QED
        BY <3>2, <3>4
    <2>6. below[k] = {k} \cup UNION {below[j] : j \in Inputs(c, k)}
      BY <1>2, <2>3
    <2>7. less(k)
      BY <2>5, <2>6
    <2> QED
      BY <2>3, <2>7
  <1>4. c.output \in Nodes(c)
    BY <1>1 DEF Shape, CircuitType
  <1>5. less(c.output)
    BY <1>3, <1>4
  <1> QED
    BY <1>2, <1>5

\* Depths are numbers, and a variable depends on its own scope.
LEMMA PrenexAnnotated ==
  ASSUME NEW c, PrenexCircuit(c)
  PROVE  /\ \A s \in Scopes(c) : Depth(c)[s] = s /\ MaxDepth(c)[s] = 0
         /\ \A i \in Nodes(c) :
              /\ Influences(c)[i] \subseteq Scopes(c) /\ Influences(c)[i] # {}
              /\ IsVar(c, i) => Influences(c)[i] = {c.node[i].scope}
              /\ \A j \in Inputs(c, i) : Influences(c)[j] \subseteq Influences(c)[i]
  <1>1. Shape(c) /\ NodeShapes(c) /\ NoScopeNodes(c)
    BY WellFormedShape, PrenexNodes DEF PrenexCircuit
  <1>2. ASSUME NEW s \in Scopes(c)
        PROVE  Depth(c)[s] = s /\ MaxDepth(c)[s] = 0
    <2>1. s \in Nat \ {0} /\ Enclosing(c, s) = 1 .. s - 1
      BY <1>1, PrenexEnclosing, ScopeNumbers
    <2>2. Cardinality(1 .. s - 1) = s - 1
      BY <2>1, FS_Interval
    <2>3. Depth(c)[s] = s
      BY <2>1, <2>2 DEF Depth
    <2>4. InPrefix(c, s)
      BY DEF PrenexCircuit
    <2> QED
      BY <2>3, <2>4 DEF MaxDepth
  <1>3. \A i \in Nodes(c) : Influences(c)[i] \subseteq Scopes(c) /\ Influences(c)[i] # {}
    BY <1>1, <1>2, InfluencesType
  <1>4. ASSUME NEW i \in Nodes(c)
        PROVE  Influences(c)[i] = InfluenceFrom(c, i, Influences(c))
    BY <1>1, InfluencesOfInputs
  <1>5. ASSUME NEW i \in Nodes(c), NEW j \in Inputs(c, i)
        PROVE  Influences(c)[j] \subseteq Influences(c)[i]
    <2>1. Influences(c)[j] \subseteq UNION {Influences(c)[m] : m \in Inputs(c, i)}
      OBVIOUS
    <2> QED
      BY <1>4, <2>1 DEF InfluenceFrom
  <1>6. ASSUME NEW i \in Nodes(c), IsVar(c, i)
        PROVE  Influences(c)[i] = {c.node[i].scope}
    <2>1. Inputs(c, i) = {} /\ c.node[i].scope \in Scopes(c)
      BY <1>1, <1>6 DEF NodeShapes, Inputs, Range
    <2>2. OwnInfluence(c, i) = {c.node[i].scope}
      <3>1. Depth(c)[c.node[i].scope] = c.node[i].scope
        BY <1>2, <2>1
      <3>2. IsVar(c, i) /\ ~IsScopeNode(c, i)
        BY <1>6 DEF IsVar, IsScopeNode
      <3> QED
        BY <3>1, <3>2 DEF OwnInfluence
    <2> QED
      BY <1>4, <2>1, <2>2 DEF InfluenceFrom
  <1> QED
    BY <1>2, <1>3, <1>5, <1>6

\* So it is flat.
LEMMA PrenexFlat ==
  ASSUME NEW c, PrenexCircuit(c), NEW ca, ca = Annotate(c)
  PROVE  Flat(ca)
  <1>1. /\ ca.node = c.node /\ ca.scope = c.scope /\ ca.output = c.output
        /\ ca.depth = Depth(c) /\ ca.max_depth = MaxDepth(c) /\ ca.influences = Influences(c)
    BY DEF Annotate
  <1>2. Scopes(ca) = Scopes(c) /\ Nodes(ca) = Nodes(c)
    BY <1>1 DEF Scopes, Nodes, MaxNum
  <1>3. /\ \A i : /\ IsVar(ca, i) <=> IsVar(c, i)
                  /\ IsScopeNode(ca, i) <=> IsScopeNode(c, i)
                  /\ IsGate(ca, i) <=> IsGate(c, i)
                  /\ Inputs(ca, i) = Inputs(c, i)
        /\ \A s : Children(ca, s) = Children(c, s) /\ (InPrefix(ca, s) <=> InPrefix(c, s))
    BY <1>1 DEF IsVar, IsScopeNode, IsGate, Inputs, Children, InPrefix
  <1>4. Shape(c) /\ Shape(ca) /\ NodeShapes(ca) /\ NoScopeNodes(ca)
    <2>1. Shape(c) /\ NodeShapes(c) /\ NoScopeNodes(c)
      BY WellFormedShape, PrenexNodes DEF PrenexCircuit
    <2> QED
      BY <1>1, <1>2, <1>3, <2>1, AnnotatedShape DEF NodeShapes, NoScopeNodes
  <1>5. \A s \in Scopes(ca) :
          /\ ca.depth[s] = s /\ ca.max_depth[s] = 0 /\ InPrefix(ca, s)
          /\ Children(ca, s) = IF s + 1 \in Scopes(ca) THEN {s + 1} ELSE {}
    BY <1>1, <1>2, <1>3, PrenexTree, PrenexAnnotated DEF PrenexCircuit
  <1>6. \A i \in Nodes(ca) :
          /\ ca.influences[i] \subseteq Scopes(ca) /\ ca.influences[i] # {}
          /\ IsVar(ca, i) => ca.influences[i] = {ca.node[i].scope}
          /\ \A j \in Inputs(ca, i) : ca.influences[j] \subseteq ca.influences[i]
    BY <1>1, <1>2, <1>3, PrenexAnnotated
  <1>7. ca.output \in Nodes(ca) /\ IsGate(ca, ca.output)
    BY <1>1, <1>2, <1>3 DEF PrenexCircuit, WellFormed, CircuitType
  <1>8. \A s \in Scopes(ca) : s <= Deepest(ca, ca.output)
    <2> TAKE s \in Scopes(ca)
    <2>1. Len(ca.scope) \in Nat /\ Scopes(ca) = 1 .. Len(ca.scope)
      BY <1>4, ScopeNumbers
    <2>2. /\ Deepest(ca, ca.output) \in Scopes(ca)
          /\ \A t \in ca.influences[ca.output] : t <= Deepest(ca, ca.output)
      BY <1>6, <1>7, <2>1, MaxIsGreatest DEF Deepest
    <2>3. CASE s = TopLevel
      BY <2>1, <2>2, <2>3 DEF TopLevel
    <2>4. CASE s # TopLevel
      <3>1. ScopeVars(c, s) # {}
        BY <1>2, <2>4 DEF PrenexCircuit, WellFormed
      <3>2. PICK i : i \in ScopeVars(c, s)
        BY <3>1
      <3>3. i \in Nodes(c) /\ IsVar(c, i) /\ c.node[i].scope = s
        BY <3>2 DEF ScopeVars
      <3>4. s \in Influences(c)[i]
        BY <3>3, PrenexAnnotated
      <3> QED
        BY <1>1, <2>2, <3>3, <3>4, OutputDepends
    <2> QED
      BY <2>3, <2>4
  <1> QED
    BY <1>4, <1>5, <1>6, <1>7, <1>8 DEF Flat

\* What the truth of a node has to do with its inputs.
Agrees(c, i, a) ==
  /\ NodeHolds(c, i, a) \in BOOLEAN
  /\ c.node[i].type = "var" => (NodeHolds(c, i, a) <=> i \in a)
  /\ c.node[i].type = "and" =>
       (NodeHolds(c, i, a) <=> \A l \in Range(c.node[i].inputs) : LiteralHolds(c, l, a))
  /\ c.node[i].type = "or" =>
       (NodeHolds(c, i, a) <=> \E l \in Range(c.node[i].inputs) : LiteralHolds(c, l, a))
LEMMA NodeAgrees ==
  ASSUME NEW c, Shape(c), NoScopeNodes(c), NEW i \in Nodes(c), NEW a, a \subseteq Literals(c)
  PROVE  Agrees(c, i, a)
  <1>1. NodeHolds(c, i, a) \in BOOLEAN
    BY HoldsNode
  <1>2. ASSUME c.node[i].type = "var"
        PROVE  NodeHolds(c, i, a) <=> i \in a
    <2>1. PICK g \in [Nodes(c) -> [SUBSET Literals(c) -> BOOLEAN]] :
             \A k \in Nodes(c) : \A b \in SUBSET Literals(c) :
               NodeHolds(c, k, b) = g[k][b] /\ g[k][b] = TruthFrom(c, g, k, b)
      BY HoldsEquation
    <2>2. NodeHolds(c, i, a) = TruthFrom(c, g, i, a)
      BY <2>1
    <2> QED
      BY <1>2, <2>2 DEF TruthFrom, IsVar
  <1>3. ASSUME c.node[i].type = "and"
        PROVE  NodeHolds(c, i, a) <=> \A l \in Range(c.node[i].inputs) : LiteralHolds(c, l, a)
    BY <1>3, HoldsNode
  <1>4. ASSUME c.node[i].type = "or"
        PROVE  NodeHolds(c, i, a) <=> \E l \in Range(c.node[i].inputs) : LiteralHolds(c, l, a)
    BY <1>4, HoldsNode
  <1> QED
    BY <1>1, <1>2, <1>3, <1>4, Zenon DEF Agrees

\* What a node means depends on the nodes only, and not on the annotations.
LEMMA SameNodesHold ==
  ASSUME NEW c, NEW ca, Shape(c), NoScopeNodes(c), Shape(ca), NoScopeNodes(ca),
         ca.node = c.node, NEW a, a \subseteq Literals(c)
  PROVE  \A i \in Nodes(c) : NodeHolds(ca, i, a) = NodeHolds(c, i, a)
  <1>1. /\ ca.node = c.node /\ Nodes(ca) = Nodes(c) /\ Literals(ca) = Literals(c)
        /\ \A i : IsVar(ca, i) = IsVar(c, i)
    BY DEF Nodes, MaxNum, Literals, IsVar
  <1>2. Shape(c) /\ NoScopeNodes(c) /\ Shape(ca) /\ NoScopeNodes(ca)
    OBVIOUS
  <1> DEFINE B == {i \in Nodes(c) : NodeHolds(ca, i, a) # NodeHolds(c, i, a)}
  <1>3. ASSUME NEW k \in B, \A j \in B : k <= j
        PROVE  FALSE
    <2>1. k \in Nodes(c) /\ NodeHolds(ca, k, a) # NodeHolds(c, k, a)
      OBVIOUS
    <2>2. ASSUME NEW l \in Range(c.node[k].inputs)
          PROVE  LiteralHolds(ca, l, a) = LiteralHolds(c, l, a)
      <3>1. /\ l \in Int /\ LitVar(l) \in Nodes(c) /\ LitVar(l) < k /\ LitVar(l) \in Nat \ {0}
            /\ l < 0 => l = -LitVar(l)
            /\ ~(l < 0) => l = LitVar(l)
        BY <1>2, <2>1, InputLiteral
      <3>2. LitVar(l) \notin B
        <4>1. k \in Nat
          BY <1>2, <2>1, NodeNumbers
        <4> HIDE DEF B
        <4> QED
          BY <1>3, <3>1, <4>1
      <3>3. NodeHolds(ca, LitVar(l), a) = NodeHolds(c, LitVar(l), a)
        BY <3>1, <3>2
      <3>4. l < 0 => -l = LitVar(l)
        BY <3>1
      <3> QED
        BY <3>1, <3>3, <3>4 DEF LiteralHolds
    <2> HIDE DEF B
    <2>3. c.node[k].type \in {"var", "and", "or"}
      BY <1>2, <2>1, NodeNumbers DEF NoScopeNodes, IsScopeNode
    <2>4. k \in Nodes(ca) /\ a \subseteq Literals(ca)
      BY <1>1, <2>1
    <2>5. Agrees(c, k, a) /\ Agrees(ca, k, a)
      BY <1>2, <2>1, <2>4, NodeAgrees
    <2>6. CASE c.node[k].type = "var"
      BY <2>1, <2>5, <2>6 DEF Agrees, IsVar
    <2>7. CASE c.node[k].type = "and"
      <3>1. /\ NodeHolds(c, k, a) <=> \A l \in Range(c.node[k].inputs) : LiteralHolds(c, l, a)
            /\ NodeHolds(ca, k, a) <=> \A l \in Range(c.node[k].inputs) : LiteralHolds(ca, l, a)
        BY <2>5, <2>7 DEF Agrees
      <3> QED
        BY <2>1, <2>2, <2>5, <3>1 DEF Agrees
    <2>8. CASE c.node[k].type = "or"
      <3>1. /\ NodeHolds(c, k, a) <=> \E l \in Range(c.node[k].inputs) : LiteralHolds(c, l, a)
            /\ NodeHolds(ca, k, a) <=> \E l \in Range(c.node[k].inputs) : LiteralHolds(ca, l, a)
        BY <2>5, <2>8 DEF Agrees
      <3> QED
        BY <2>1, <2>2, <2>5, <3>1 DEF Agrees
    <2> QED
      BY <2>3, <2>6, <2>7, <2>8
  <1>4. B \in SUBSET Nat
    BY <1>2, NodeNumbers
  <1>5. B = {}
    <2> HIDE DEF B
    <2> QED
      BY <1>3, <1>4, LeastNumber
  <1> QED
    BY <1>5

\* What reencoding computes does not change what holds.
LEMMA AnnotatedHolds ==
  ASSUME NEW c, PrenexCircuit(c), NEW ca, ca = Annotate(c), NEW a, a \subseteq Literals(c)
  PROVE  \A i \in Nodes(c) : NodeHolds(ca, i, a) = NodeHolds(c, i, a)
  <1>1. ca.node = c.node
    BY DEF Annotate
  <1>2. Shape(c) /\ NoScopeNodes(c) /\ Shape(ca) /\ NoScopeNodes(ca)
    BY WellFormedShape, PrenexNodes, PrenexFlat DEF PrenexCircuit, Flat
  <1> QED
    BY <1>1, <1>2, SameNodesHold

-----------------------------------------------------------------------------
(***************************************************************************)
(* The interfaces of a prenex circuit: what the analysis of its gates      *)
(* promises and takes up.                                                  *)
(***************************************************************************)
\* What the analysis of a gate looks at when every node is relevant.
InputVars(c, g) == {i \in Inputs(c, g) : IsVar(c, i)}
InputGates(c, g) == {i \in Inputs(c, g) : IsGate(c, i)}
OnlyGatesBefore(c, g, d) ==
  \A i \in Inputs(c, g) \ InputVars(c, g) : IsGate(c, i) /\ Deepest(c, i) < d

\* What scope s promises of a gate and what it takes up: the gate, or some of its inputs.
HandsOn(c, s, g) ==
  IF Deepest(c, g) <= s THEN {}
  ELSE (IF \E i \in InputVars(c, g) : s \in c.influences[i] THEN {g} ELSE {})
  \cup (IF ~\E i \in Inputs(c, g) : Deepest(c, i) = s THEN {}
        ELSE IF OnlyGatesBefore(c, g, s + 1) THEN {g}
        ELSE {i \in InputGates(c, g) : Deepest(c, i) = s})
TakesOver(c, s, g) ==
  IF Deepest(c, g) < s THEN {}
  ELSE (IF \E i \in InputVars(c, g) : Deepest(c, i) < s THEN {g} ELSE {})
  \cup (IF ~\E i \in Inputs(c, g) : Deepest(c, i) < s THEN {}
        ELSE IF OnlyGatesBefore(c, g, s) THEN {g}
        ELSE {i \in InputGates(c, g) : Deepest(c, i) < s})

\* Everything but the scope's own number has gone from the analysis of a gate.
LEMMA FlatAnalysis ==
  ASSUME NEW c, Flat(c), NEW s \in Scopes(c), NEW g \in Nodes(c)
  PROVE  AnalyzeGate(c, s, g).b = HandsOn(c, s, g) /\ AnalyzeGate(c, s, g).t = TakesOver(c, s, g)
  <1>1. c.depth[s] = s /\ c.max_depth[s] = 0
    BY DEF Flat
  <1>2. \A i : NodeIsRelevant(c, s, i) /\ CurrentMax(c, s, i) = Deepest(c, i)
    BY <1>1 DEF NodeIsRelevant, CurrentMax, Deepest, Flat
  <1>3. RelevantInputs(c, s, g) = Inputs(c, g)
    BY <1>2 DEF RelevantInputs
  <1>4. \A i \in Inputs(c, g) : Deepest(c, i) \in Nat
    BY FlatDeepest
  <1>5. s \in Nat
    BY ScopeNumbers DEF Flat
  <1> DEFINE in      == RelevantInputs(c, s, g)
             cm(i)   == CurrentMax(c, s, i)
             inVars  == {i \in in : IsVar(c, i)}
             gates   == {i \in Inputs(c, g) : IsGate(c, i)}
             current == \A i \in in \ inVars : IsGate(c, i) /\ cm(i) <= s
             outer   == \A i \in in \ inVars : IsGate(c, i) /\ cm(i) < s
             b == IF cm(g) <= s THEN {}
                  ELSE (IF \E i \in inVars : s \in c.influences[i] THEN {g} ELSE {})
                  \cup (CASE ~\E i \in in : cm(i) = s -> {}
                          [] (\E i \in in : cm(i) = s) /\ current -> {g}
                          [] OTHER -> {i \in gates : cm(i) = s})
             t == IF cm(g) < s THEN {}
                  ELSE (IF \E i \in inVars : Deepest(c, i) < s THEN {g} ELSE {})
                  \cup (CASE ~\E i \in in : cm(i) < s -> {}
                          [] (\E i \in in : cm(i) < s) /\ outer -> {g}
                          [] OTHER -> {i \in gates : cm(i) < s})
  <1>6. AnalyzeGate(c, s, g).b = b /\ AnalyzeGate(c, s, g).t = t
    BY <1>1 DEF AnalyzeGate, Deepest
  <1>7. in = Inputs(c, g) /\ inVars = InputVars(c, g) /\ gates = InputGates(c, g)
    BY <1>3 DEF InputVars, InputGates
  <1>8. \A i : cm(i) = Deepest(c, i)
    BY <1>2
  <1>9. current <=> OnlyGatesBefore(c, g, s + 1)
    BY <1>4, <1>5, <1>7, <1>8 DEF OnlyGatesBefore
  <1>10. outer <=> OnlyGatesBefore(c, g, s)
    BY <1>7, <1>8 DEF OnlyGatesBefore
  <1> HIDE DEF in, cm, inVars, gates, current, outer
  <1>11. b = HandsOn(c, s, g)
    BY <1>7, <1>8, <1>9 DEF HandsOn
  <1>12. t = TakesOver(c, s, g)
    BY <1>7, <1>8, <1>10 DEF TakesOver
  <1> QED
    BY <1>6, <1>11, <1>12

\* What a scope takes up of a gate, the scope around it promises of the same gate, or takes
\* up itself from further out.
LEMMA FlatPromised ==
  ASSUME NEW c, Flat(c), NEW s \in Scopes(c), s + 1 \in Scopes(c),
         NEW g \in Nodes(c), NEW t \in AnalyzeGate(c, s + 1, g).t
  PROVE  t \in AnalyzeGate(c, s, g).b \cup AnalyzeGate(c, s, g).t
  <1>1. Scopes(c) = 1 .. Len(c.scope) /\ Len(c.scope) \in Nat
    BY ScopeNumbers DEF Flat
  <1>2. s \in Nat /\ \A i \in Nodes(c) : Deepest(c, i) \in Nat
    BY <1>1, FlatDeepest
  <1>3. /\ \A i \in Inputs(c, g) : i \in Nodes(c) /\ Deepest(c, i) \in Nat
        /\ InputVars(c, g) \subseteq Inputs(c, g) /\ InputGates(c, g) \subseteq Inputs(c, g)
    BY <1>2, FlatDeepest DEF InputVars, InputGates
  <1> DEFINE b == AnalyzeGate(c, s, g).b
             outer == AnalyzeGate(c, s, g).t
             taken == AnalyzeGate(c, s + 1, g).t
  <1>4. b = HandsOn(c, s, g)
    BY FlatAnalysis
  <1>5. outer = TakesOver(c, s, g)
    BY FlatAnalysis
  <1>6. taken = TakesOver(c, s + 1, g)
    BY FlatAnalysis
  <1>7. t \in taken
    OBVIOUS
  <1> HIDE DEF b, outer, taken
  <1>8. ~(Deepest(c, g) <= s) /\ ~(Deepest(c, g) < s)
    BY <1>2, <1>6, <1>7 DEF HandsOn, TakesOver
  <1>9. \A i \in Inputs(c, g) : Deepest(c, i) < s + 1 <=> Deepest(c, i) = s \/ Deepest(c, i) < s
    BY <1>2, <1>3
  <1>10. \A i \in InputVars(c, g) : Deepest(c, i) = s => s \in c.influences[i]
    BY <1>3, FlatDeepest
  <1>11. OnlyGatesBefore(c, g, s) => OnlyGatesBefore(c, g, s + 1)
    BY <1>9 DEF OnlyGatesBefore
  <1>12. CASE t = g /\ \E i \in InputVars(c, g) : Deepest(c, i) < s + 1
    BY <1>3, <1>4, <1>5, <1>8, <1>9, <1>10, <1>12 DEF b, outer, HandsOn, TakesOver
  <1>13. CASE /\ t = g /\ OnlyGatesBefore(c, g, s + 1)
              /\ \E i \in Inputs(c, g) : Deepest(c, i) < s + 1
    <2>1. CASE \E i \in Inputs(c, g) : Deepest(c, i) = s
      BY <1>4, <1>8, <1>13, <2>1 DEF b, HandsOn, TakesOver
    <2>2. CASE ~\E i \in Inputs(c, g) : Deepest(c, i) = s
      <3>1. OnlyGatesBefore(c, g, s) /\ \E i \in Inputs(c, g) : Deepest(c, i) < s
        BY <1>9, <1>13, <2>2 DEF OnlyGatesBefore
      <3> QED
        BY <1>5, <1>8, <1>13, <3>1 DEF outer, HandsOn, TakesOver
    <2> QED
      BY <2>1, <2>2
  <1>14. CASE /\ ~OnlyGatesBefore(c, g, s + 1) /\ t \in InputGates(c, g) /\ Deepest(c, t) < s + 1
              /\ \E i \in Inputs(c, g) : Deepest(c, i) < s + 1
    <2>1. CASE Deepest(c, t) = s
      BY <1>3, <1>4, <1>8, <1>14, <2>1 DEF b, HandsOn, TakesOver
    <2>2. CASE Deepest(c, t) < s
      BY <1>3, <1>5, <1>8, <1>11, <1>14, <2>2 DEF outer, HandsOn, TakesOver
    <2> QED
      BY <1>3, <1>9, <1>14, <2>1, <2>2
  <1> QED
    BY <1>6, <1>7, <1>12, <1>13, <1>14 DEF HandsOn, TakesOver

\* Every t-literal comes from the analysis of some gate, and stands for a gate.
LEMMA FlatTLits ==
  ASSUME NEW c, Flat(c), NEW s \in Scopes(c), NEW t \in TLits(c, s),
         NEW i, i = TLitToVarId(c, t)
  PROVE  /\ i \in Gates(c) /\ t = TLit(c, i)
         /\ \E g \in Nodes(c) : IsGate(c, g) /\ i \in AnalyzeGate(c, s, g).t
  <1>1. Shape(c) /\ \A j \in Nodes(c) : ~IsScopeNode(c, j)
    BY DEF Flat, NoScopeNodes
  <1>3. PICK g \in RelevantGates(c, s) :
          \E j \in AnalyzeGate(c, s, g).t : t = TLit(c, j)
    BY <1>1 DEF TLits, RelevantScopeNodes, RelevantNodes
  <1>4. PICK j \in AnalyzeGate(c, s, g).t : t = TLit(c, j)
    BY <1>3
  <1>5. g \in Nodes(c) /\ IsGate(c, g)
    BY <1>3 DEF RelevantGates, RelevantNodes
  <1>6. j \in {g} \cup InputGates(c, g)
    <2> DEFINE t0 == AnalyzeGate(c, s, g).t
    <2>1. t0 = TakesOver(c, s, g)
      BY <1>1, <1>5, FlatAnalysis
    <2>2. j \in t0
      BY <1>4
    <2> HIDE DEF t0
    <2> QED
      BY <2>1, <2>2 DEF TakesOver
  <1>7. j \in Gates(c)
    BY <1>1, <1>5, <1>6, NodeNumbers DEF Gates, InputGates
  <1>8. i = j
    <2>1. j \in Nat /\ MaxNum(c) \in Nat
      BY <1>1, <1>7, NodeNumbers DEF Gates
    <2> QED
      BY <1>4, <2>1 DEF TLit, TLitToVarId
  <1> QED
    BY <1>4, <1>5, <1>7, <1>8

\* The gate that a scope's t-literals come from has its t-literal.
LEMMA FlatTaken ==
  ASSUME NEW c, Flat(c), NEW s \in Scopes(c), NEW g \in Nodes(c), IsGate(c, g)
  PROVE  /\ \A i \in AnalyzeGate(c, s, g).t : TLit(c, i) \in TLits(c, s)
         /\ AnalyzeGate(c, s, g).b \subseteq BLits(c, s)
  <1>1. g \in RelevantGates(c, s)
    BY DEF RelevantGates, RelevantNodes, NodeIsRelevant, Flat
  <1> QED
    BY <1>1 DEF TLits, BLits

\* So the t-literals of the next scope are a scope's b-literals and its own t-literals.
LEMMA FlatOutside ==
  ASSUME NEW c, Flat(c), NEW s \in Scopes(c), s + 1 \in Scopes(c),
         NEW t \in TLits(c, s + 1), TLitToVarId(c, t) \notin BLits(c, s)
  PROVE  t \in TLits(c, s)
  <1>1. PICK i : i = TLitToVarId(c, t)
    OBVIOUS
  <1>2. t = TLit(c, i)
    BY <1>1, FlatTLits
  <1>3. PICK g \in Nodes(c) : IsGate(c, g) /\ i \in AnalyzeGate(c, s + 1, g).t
    BY <1>1, FlatTLits
  <1>4. i \in AnalyzeGate(c, s, g).b \cup AnalyzeGate(c, s, g).t
    BY <1>3, FlatPromised
  <1> QED
    BY <1>1, <1>2, <1>3, <1>4, FlatTaken

\* A scope takes up whatever its gates depend on from further out.
LEMMA FlatTakesUp ==
  ASSUME NEW c, Flat(c), NEW s \in Scopes(c)
  PROVE  TakesUp(c, s, TLits(c, s))
  <1> SUFFICES ASSUME NEW g \in Nodes(c), IsGate(c, g), Deepest(c, g) >= s
               PROVE  /\ (\E j \in Inputs(c, g) :
                            IsVar(c, j) /\ Deepest(c, j) < s)
                           => TLit(c, g) \in TLits(c, s)
                      /\ \A j \in Inputs(c, g) :
                           IsGate(c, j) /\ Deepest(c, j) < s =>
                             \/ TLit(c, j) \in TLits(c, s)
                             \/ /\ TLit(c, g) \in TLits(c, s)
                                /\ \A m \in Inputs(c, g) :
                                     IsVar(c, m) \/ Deepest(c, m) < s
    BY DEF TakesUp
  <1>1. Shape(c)
    BY DEF Flat
  <1> DEFINE t == AnalyzeGate(c, s, g).t
  <1>3. t = TakesOver(c, s, g)
    BY <1>1, FlatAnalysis
  <1>4. \A i \in t : TLit(c, i) \in TLits(c, s)
    BY FlatTaken
  <1>5. ~(Deepest(c, g) < s)
    <2>1. Deepest(c, g) \in Nat /\ s \in Nat
      BY <1>1, FlatDeepest, ScopeNumbers
    <2> QED
      BY <2>1
  <1> HIDE DEF t
  <1>6. ASSUME NEW j \in Inputs(c, g), IsVar(c, j), Deepest(c, j) < s
        PROVE  TLit(c, g) \in TLits(c, s)
    <2>1. g \in t
      BY <1>3, <1>5, <1>6 DEF InputVars, HandsOn, TakesOver
    <2> QED
      BY <1>4, <2>1
  <1>7. ASSUME NEW j \in Inputs(c, g), IsGate(c, j), Deepest(c, j) < s
        PROVE  \/ TLit(c, j) \in TLits(c, s)
               \/ /\ TLit(c, g) \in TLits(c, s)
                  /\ \A m \in Inputs(c, g) : IsVar(c, m) \/ Deepest(c, m) < s
    <2>1. CASE OnlyGatesBefore(c, g, s)
      <3>1. g \in t
        BY <1>3, <1>5, <1>7, <2>1 DEF HandsOn, TakesOver
      <3>2. \A m \in Inputs(c, g) : IsVar(c, m) \/ Deepest(c, m) < s
        BY <2>1 DEF OnlyGatesBefore, InputVars
      <3> QED
        BY <1>4, <3>1, <3>2
    <2>2. CASE ~OnlyGatesBefore(c, g, s)
      <3>1. j \in t
        BY <1>3, <1>5, <1>7, <2>2 DEF InputGates, HandsOn, TakesOver
      <3> QED
        BY <1>4, <3>1
    <2> QED
      BY <2>1, <2>2
  <1> QED
    BY <1>6, <1>7

\* What the next scope takes up without a promise of this scope: this scope has it, too, and
\* nothing of it ends here.
LEMMA FlatPassesOn ==
  ASSUME NEW c, Flat(c), NEW s \in Scopes(c), s + 1 \in Scopes(c),
         NEW t \in TLits(c, s + 1), NEW i, i = TLitToVarId(c, t), i \notin BLits(c, s)
  PROVE  t \in TLits(c, s) /\ PassedOn(c, s, i)
  <1>1. t \in TLits(c, s)
    BY FlatOutside
  <1>2. Shape(c) /\ Flat(c)
    BY DEF Flat
  <1>3. s \in Nat
    BY <1>2, ScopeNumbers
  <1>5. i \in Nodes(c) /\ IsGate(c, i)
    BY <1>3, FlatTLits DEF Gates
  <1>6. PICK g \in Nodes(c) : IsGate(c, g) /\ i \in AnalyzeGate(c, s + 1, g).t
    BY <1>3, FlatTLits
  <1>7. \A j \in Nodes(c) : Deepest(c, j) \in Nat
    BY <1>2, FlatDeepest
  <1>8. /\ i \notin AnalyzeGate(c, s, g).b
        /\ i \notin AnalyzeGate(c, s, i).b
    BY <1>5, <1>6, FlatTaken
  <1> DEFINE gb == AnalyzeGate(c, s, g).b
             ib == AnalyzeGate(c, s, i).b
             gt == AnalyzeGate(c, s + 1, g).t
  <1>9. gb = HandsOn(c, s, g)
    BY <1>2, FlatAnalysis
  <1>10. ib = HandsOn(c, s, i)
    BY <1>2, <1>5, FlatAnalysis
  <1>11. gt = TakesOver(c, s + 1, g)
    BY <1>2, <1>3, FlatAnalysis
  <1>12. i \in gt /\ i \notin gb /\ i \notin ib
    BY <1>6, <1>8
  <1> HIDE DEF gb, ib, gt
  <1>13. ~(Deepest(c, g) < s + 1) /\ ~(Deepest(c, g) <= s)
    <2>1. ~(Deepest(c, g) < s + 1)
      BY <1>11, <1>12 DEF HandsOn, TakesOver
    <2> QED
      BY <1>3, <1>7, <2>1
  <1>14. Deepest(c, i) # s
    <2> SUFFICES ASSUME Deepest(c, i) = s
                 PROVE  FALSE
      OBVIOUS
    <2>1. i # g
      BY <1>3, <1>13
    <2>2. i \in InputGates(c, g) /\ ~OnlyGatesBefore(c, g, s + 1)
      BY <1>11, <1>12, <2>1 DEF HandsOn, TakesOver
    <2>3. i \in gb
      BY <1>9, <1>13, <2>2 DEF InputGates, HandsOn, TakesOver
    <2> QED
      BY <1>12, <2>3
  <1>15. ASSUME Deepest(c, i) > s, NEW j \in Inputs(c, i), Deepest(c, j) = s
         PROVE  /\ ~IsVar(c, j)
                /\ \E m \in Inputs(c, i) : ~IsVar(c, m) /\ Deepest(c, m) > s
    <2>1. ~(Deepest(c, i) <= s)
      BY <1>3, <1>5, <1>7, <1>15
    <2>2. ~IsVar(c, j)
      <3> SUFFICES ASSUME IsVar(c, j)
                   PROVE  FALSE
        OBVIOUS
      <3>1. s \in c.influences[j]
        BY <1>2, <1>5, <1>15, FlatDeepest
      <3> QED
        BY <1>10, <1>12, <1>15, <2>1, <3>1 DEF InputVars, HandsOn, TakesOver
    <2>3. ~OnlyGatesBefore(c, i, s + 1)
      BY <1>10, <1>12, <1>15, <2>1 DEF HandsOn, TakesOver
    <2>4. PICK m \in Inputs(c, i) \ InputVars(c, i) :
            ~(IsGate(c, m) /\ Deepest(c, m) < s + 1)
      BY <2>3 DEF OnlyGatesBefore
    <2>5. m \in Nodes(c) /\ ~IsVar(c, m)
      BY <1>2, <1>5, <2>4, NodeNumbers DEF InputVars
    <2>6. IsGate(c, m)
      <3>1. c.node[m].type \in {"var", "and", "or", "scope"} /\ ~IsScopeNode(c, m)
        BY <1>2, <2>5, NodeNumbers DEF Flat, NoScopeNodes
      <3> QED
        BY <2>5, <3>1 DEF IsVar, IsGate, IsScopeNode
    <2>7. Deepest(c, m) > s
      BY <1>3, <1>7, <2>4, <2>5, <2>6
    <2> QED
      BY <2>2, <2>5, <2>7
  <1> QED
    BY <1>1, <1>14, <1>15 DEF PassedOn

-----------------------------------------------------------------------------
\* No clause has the variable.
Silent(clauses, v) == \A cl \in clauses : v \notin cl /\ -v \notin cl

\* Only the clause of the OR gate that reads a variable has the variable, if it is the only one
\* that reads it, and is not inlined in another gate.
LEMMA OneReader ==
  ASSUME NEW c, Flat(c), NEW s \in Scopes(c), NEW q, NEW B, NEW T,
         NEW v \in Nodes(c), IsVar(c, v), NEW k \in Nodes(c), k # c.output, Deepest(c, k) <= s,
         GateTypeFor(c, k, q) = "or", \A j \in Nodes(c) : v \in Inputs(c, j) => j = k
  PROVE  Silent(BuildSatInstance(c, s, q, B, T) \ EncodeOrGate(c, s, q, T, k), v)
  <1> DEFINE Clear(cl) == v \notin cl /\ -v \notin cl
             open(g) == AppendOrGate(c, s, q, B, T, g)
             N == MaxNum(c)
  <1>1. /\ Shape(c) /\ N \in Nat /\ v \in 1 .. N /\ Nodes(c) = 1 .. N
        /\ \A i \in Nodes(c) : i \in Nat \ {0} /\ ~IsScopeNode(c, i)
    BY NodeNumbers DEF Flat, NoScopeNodes, Nodes
  <1>2. ASSUME NEW i \in Nodes(c)
        PROVE  /\ Clear(TLitIfShared(c, T, i)) /\ (i # v => Clear({i}) /\ Clear({-i}))
    BY <1>1 DEF TLitIfShared, TLit
  <1>3. ASSUME NEW g \in Nodes(c), g # k, NEW l \in Range(c.node[g].inputs), NEW i, i = LitVar(l)
        PROVE  /\ i \in Nodes(c) /\ i \in Inputs(c, g) /\ i < g /\ ~IsScopeNode(c, i)
               /\ IsVar(c, i) \/ IsGate(c, i)
               /\ Clear({TransformedInput(c, q, l)})
               /\ CurrentMax(c, s, i) > c.depth[s] => i # k
    <2>1. /\ l \in Int /\ i \in Nodes(c) /\ i \in Inputs(c, g) /\ i < g /\ (l = i \/ l = -i)
      BY <1>1, <1>3, InputLiteral
    <2>2. i # v
      BY <1>3, <2>1
    <2>3. TransformedInput(c, q, l) \in {i, -i}
      BY <1>1, <2>1 DEF TransformedInput
    <2>4. IsVar(c, i) \/ IsGate(c, i)
      BY <1>1, <2>1, NodeNumbers DEF IsVar, IsGate, IsScopeNode
    <2>5. CurrentMax(c, s, i) > c.depth[s] => i # k
      BY <2>1, FlatNode, FlatDeepest
    <2> QED
      BY <1>1, <1>2, <2>1, <2>2, <2>3, <2>4, <2>5
  <1>4. \A i \in Nodes(c) : IsGate(c, i) => Clear({i}) /\ Clear({-i})
    BY <1>2 DEF IsVar, IsGate
  <1> HIDE DEF N, open
  <1>5. \A g \in Nodes(c) : IsGate(c, g) /\ g # k => Clear(open(g))
    <2> DEFINE bad == {g \in Nodes(c) : IsGate(c, g) /\ g # k /\ ~Clear(open(g))}
    <2> HIDE DEF Clear
    <2> SUFFICES ASSUME bad # {}
                 PROVE  FALSE
      OBVIOUS
    <2>1. bad \in SUBSET Nat
      BY <1>1
    <2>2. PICK g \in bad : \A j \in bad : g <= j
      BY <2>1, LeastNumber
    <2>3. g \in Nodes(c) /\ IsGate(c, g) /\ g # k
      BY <2>2
    <2>4. ASSUME NEW l \in Range(c.node[g].inputs)
          PROVE  Clear(AppendedInput(c, s, q, T, g, l, open(LitVar(l))))
      <3> PICK i : i = LitVar(l)
        OBVIOUS
      <3>1. /\ i \in Nodes(c) /\ i < g /\ ~IsScopeNode(c, i) /\ (IsVar(c, i) \/ IsGate(c, i))
            /\ Clear({TransformedInput(c, q, l)}) /\ (CurrentMax(c, s, i) > c.depth[s] => i # k)
        BY <1>3, <2>3
      <3>2. /\ Clear({-g}) /\ (IsGate(c, i) => Clear({i})) /\ Clear(TLitIfShared(c, T, i)) /\ Clear({})
        BY <1>2, <1>4, <2>3, <3>1 DEF Clear
      <3>3. IsGate(c, i) /\ i # k => Clear(open(i))
        <4>1. i \notin bad
          BY <1>1, <2>2, <2>3, <3>1
        <4> QED
          BY <3>1, <4>1
      <3>4. /\ CurrentMax(c, s, i) \in Int /\ c.depth[s] \in Int
        BY <3>1, FlatNode, FlatDeepest
      <3> QED
        BY <3>1, <3>2, <3>3, <3>4 DEF AppendedInput, BLit
    <2>5. open(g) = IF OnlyInner(c, s, g) THEN {-BLit(g)}
                    ELSE (UNION {AppendedInput(c, s, q, T, g, l, open(LitVar(l))) :
                                   l \in Range(c.node[g].inputs)})
                         \cup TLitIfShared(c, T, g)
                         \cup (IF BLit(g) \in B THEN {-BLit(g)} ELSE {})
      BY <1>1, <2>3, AppendUnfolds DEF open
    <2>6. Clear({-BLit(g)}) /\ Clear(TLitIfShared(c, T, g))
      BY <1>2, <1>4, <2>3 DEF BLit
    <2>7. Clear(open(g))
      BY <2>4, <2>5, <2>6 DEF Clear
    <2> QED
      BY <2>2, <2>7
  <1>6. ASSUME NEW g \in Nodes(c), IsGate(c, g), g # k
        PROVE  /\ \A cl \in EncodeOrGate(c, s, q, T, g) : Clear(cl)
               /\ \A cl \in EncodeAndGate(c, s, q, B, T, g) : Clear(cl)
    <2> HIDE DEF Clear
    <2>1. Clear({-BLit(g)}) /\ Clear(TLitIfShared(c, T, g)) /\ Clear({})
      BY <1>2, <1>4, <1>6 DEF BLit, Clear
    <2>2. ASSUME NEW l \in Range(c.node[g].inputs)
          PROVE  Clear(OrInput(c, s, q, T, l)) /\ \A cl \in AndInput(c, s, q, B, T, l) : Clear(cl)
      <3> PICK i : i = LitVar(l)
        OBVIOUS
      <3>1. /\ i \in Nodes(c) /\ i < g /\ ~IsScopeNode(c, i) /\ (IsVar(c, i) \/ IsGate(c, i))
            /\ Clear({TransformedInput(c, q, l)}) /\ (CurrentMax(c, s, i) > c.depth[s] => i # k)
        BY <1>3, <1>6
      <3>2. /\ (IsGate(c, i) => Clear({i})) /\ Clear(TLitIfShared(c, T, i))
        BY <1>2, <1>4, <3>1
      <3>3. \A t \in TLitIfShared(c, T, i) : Clear({t})
        BY <3>2 DEF Clear
      <3>4. IsGate(c, i) /\ CurrentMax(c, s, i) > c.depth[s] => Clear(AppendOrGate(c, s, q, B, T, i))
        BY <1>5, <3>1 DEF open
      <3>5. Clear(OrInput(c, s, q, T, l))
        BY <2>1, <3>1, <3>2 DEF OrInput, BLit
      <3>6. \A cl \in AndInput(c, s, q, B, T, l) : Clear(cl)
        BY <3>1, <3>2, <3>3, <3>4 DEF AndInput, BLit
      <3> QED
        BY <3>5, <3>6
    <2>3. \A cl \in EncodeOrGate(c, s, q, T, g) : Clear(cl)
      BY <2>1, <2>2 DEF EncodeOrGate, Clear
    <2>4. \A cl \in EncodeAndGate(c, s, q, B, T, g) : Clear(cl)
      BY <2>1, <2>2 DEF EncodeAndGate, Clear
    <2> QED
      BY <2>3, <2>4
  <1>7. RelevantScopeNodes(c, s) = {}
    BY <1>1 DEF RelevantScopeNodes, RelevantNodes
  <1>8. ASSUME NEW g \in RelevantGates(c, s), NEW cl \in EncodeGate(c, s, q, B, T, g),
               cl \notin EncodeOrGate(c, s, q, T, k)
        PROVE  Clear(cl)
    <2>1. g \in Nodes(c) /\ IsGate(c, g)
      BY DEF RelevantGates, RelevantNodes
    <2>2. \/ GateTypeFor(c, g, q) = "and" /\ cl \in EncodeAndGate(c, s, q, B, T, g)
          \/ GateTypeFor(c, g, q) # "and" /\ cl \in EncodeOrGate(c, s, q, T, g)
      BY DEF EncodeGate
    <2>3. g # k
      BY <1>8, <2>2
    <2> QED
      BY <1>6, <2>1, <2>2, <2>3
  <1>9. ASSUME NEW cl \in FixOutputValue(c, s, q, B, T)
        PROVE  Clear(cl)
    <2>1. c.output \in Nodes(c) /\ IsGate(c, c.output)
      BY DEF Flat
    <2>2. Clear({BLit(c.output)}) /\ Clear(AppendOrGate(c, s, q, B, T, c.output))
      BY <1>4, <1>5, <2>1 DEF BLit, open
    <2> QED
      BY <2>2 DEF FixOutputValue
  <1> QED
    BY <1>7, <1>8, <1>9 DEF BuildSatInstance, Silent

==============================================================================

---------------------------- MODULE InterfaceProofs ----------------------------
(***************************************************************************)
(* Proofs about the values and the abstractions of a prenex circuit:       *)
(* circuit_evaluate_max is sound for the assignment of the scope it is     *)
(* called for and those around it, and along a chain of scopes the values  *)
(* that b-literal minimisation reads are never left over from an earlier   *)
(* or an inner proposal; the analysis of the gates under one depth         *)
(* promises exactly what the analysis under the next depth takes up        *)
(* (analyze_gate_interface, build_circuit_abstraction), and without        *)
(* minimisation the dual instance refutes every assignment that was found  *)
(* good (circuit_abstraction_dual_propagation).                            *)
(***************************************************************************)
EXTENDS SolverProofs, SemanticsProofs, FiniteSetTheorems

-----------------------------------------------------------------------------
(***************************************************************************)
(* Evaluation.  path[k] is what the scopes up to k have assigned; a value  *)
(* is sound if the scopes up to the one that it names decide it.           *)
(***************************************************************************)
Growing(path, n) ==
  /\ n \in Nat /\ \A k \in 1 .. n : Consistent(path[k])
  /\ \A k, m \in 1 .. n : k <= m => path[k] \subseteq path[m]

Sound(c, val, path, i) ==
  /\ val[i] > 0 => DecidedValue(c, i, path[val[i]]) = 1
  /\ val[i] < 0 => DecidedValue(c, i, path[-val[i]]) = -1

\* Where a fresh value comes from: one input, a contradiction, or all inputs together.
LEMMA FreshCases ==
  ASSUME NEW c, Shape(c), NEW n \in Nat, NEW val \in [Nodes(c) -> -n .. n],
         NEW i \in Nodes(c), IsGate(c, i), NEW max \in 1 .. n,
         NEW p, p = IF c.node[i].type = "and" THEN 1 ELSE -1,
         NEW fresh, fresh = FreshGateValue(c, val, i, max)
  PROVE  \/ fresh = 0
         \/ \E l \in Range(c.node[i].inputs) :
              fresh = InputValue(val, l, max) /\ p * fresh < 0
         \/ Conflict(c, i) /\ fresh = -p * max
         \/ /\ ~Conflict(c, i) /\ fresh = p * max
            /\ \A l \in Range(c.node[i].inputs) : p * InputValue(val, l, max) > 0
  <1> DEFINE inputs   == c.node[i].inputs
             occ      == [j \in DOMAIN inputs |-> InputValue(val, inputs[j], max)]
             seen     == IF Conflict(c, i) THEN 1 .. 1 ELSE DOMAIN inputs
             decisive == {j \in seen : p * occ[j] < 0}
  <1>1. inputs \in Seq(Int) /\ DOMAIN inputs \in SUBSET Nat
    BY NodeNumbers
  <1>2. \A j \in DOMAIN inputs : inputs[j] \in Range(inputs) /\ LitVar(inputs[j]) \in Nodes(c)
    BY NodeNumbers DEF Range
  <1>3. \A j \in DOMAIN inputs : occ[j] \in Int
    BY <1>2 DEF InputValue, Signed
  <1>4. seen \subseteq DOMAIN inputs
    <2>1. CASE Conflict(c, i)
      <3>1. Range(inputs) # {}
        BY <2>1 DEF Conflict
      <3>2. DOMAIN inputs # {}
        BY <3>1 DEF Range
      <3>3. 1 \in DOMAIN inputs
        <4> HIDE DEF inputs
        <4> QED
          BY <1>1, <3>2
      <3> QED
        BY <2>1, <3>3
    <2> QED
      BY <2>1
  <1>5. fresh = CASE decisive # {} -> occ[Min(decisive)]
                  [] decisive = {} /\ Conflict(c, i) -> -p * max
                  [] decisive = {} /\ ~Conflict(c, i) -> IF 0 \in Range(occ) THEN 0 ELSE p * max
    BY DEF FreshGateValue
  <1>6. p \in {-1, 1}
    OBVIOUS
  <1>7. CASE decisive # {}
    <2>1. decisive \in SUBSET DOMAIN inputs /\ decisive \in SUBSET Nat
      BY <1>1, <1>4
    <2>2. Min(decisive) \in decisive
      <3> HIDE DEF decisive
      <3> QED
        BY <1>7, <2>1, MinIsLeast
    <2>3. PICK j \in DOMAIN inputs : j = Min(decisive) /\ p * occ[j] < 0
      BY <2>1, <2>2
    <2>4. fresh = occ[j]
      BY <1>5, <1>7, <2>3
    <2> QED
      BY <1>2, <2>3, <2>4
  <1>8. CASE decisive = {} /\ Conflict(c, i)
    BY <1>5, <1>8
  <1>9. CASE decisive = {} /\ ~Conflict(c, i) /\ fresh # 0
    <2>1. 0 \notin Range(occ) /\ fresh = p * max
      BY <1>5, <1>9
    <2>2. ASSUME NEW l \in Range(inputs)
          PROVE  p * InputValue(val, l, max) > 0
      <3>1. PICK j \in DOMAIN inputs : l = inputs[j]
        BY DEF Range
      <3>2. occ[j] # 0 /\ occ[j] = InputValue(val, l, max) /\ occ[j] \in Int
        BY <1>3, <2>1, <3>1 DEF Range
      <3>3. ~(p * occ[j] < 0)
        BY <1>9
      <3> HIDE DEF occ
      <3> QED
        BY <1>6, <3>2, <3>3
    <2> QED
      BY <1>9, <2>1, <2>2
  <1> QED
    BY <1>7, <1>8, <1>9

\* An input counts with what decides it.
LEMMA InputSound ==
  ASSUME NEW c, Shape(c), NEW n \in Nat, NEW val \in [Nodes(c) -> -n .. n], NEW path,
         NEW i \in Nodes(c), NEW l \in Range(c.node[i].inputs), NEW max \in 1 .. n,
         Sound(c, val, path, LitVar(l)),
         NEW occ, occ = InputValue(val, l, max)
  PROVE  /\ occ \in -max .. max
         /\ occ > 0 => Signed(l, DecidedValue(c, LitVar(l), path[occ])) = 1
         /\ occ < 0 => Signed(l, DecidedValue(c, LitVar(l), path[-occ])) = -1
  <1>1. LitVar(l) \in Nodes(c) /\ val[LitVar(l)] \in -n .. n
    BY NodeNumbers
  <1>2. \/ occ = 0
        \/ occ = Signed(l, val[LitVar(l)]) /\ occ \in -max .. max
    BY <1>1 DEF InputValue, Signed
  <1>3. CASE l < 0 /\ occ # 0
    BY <1>1, <1>2, <1>3 DEF Sound, Signed
  <1>4. CASE ~(l < 0) /\ occ # 0
    BY <1>1, <1>2, <1>4 DEF Sound, Signed
  <1> QED
    BY <1>2, <1>3, <1>4

\* What an input was decided to be under a part of the path, it is under all of it.
LEMMA InputStays ==
  ASSUME NEW c, Shape(c), NodeShapes(c), NEW n, NEW path, Growing(path, n),
         NEW i \in Nodes(c), NEW l \in Range(c.node[i].inputs),
         NEW k \in 1 .. n, NEW max \in 1 .. n, k <= max,
         Signed(l, DecidedValue(c, LitVar(l), path[k])) # 0
  PROVE  Signed(l, DecidedValue(c, LitVar(l), path[max]))
           = Signed(l, DecidedValue(c, LitVar(l), path[k]))
  <1>1. LitVar(l) \in Nodes(c)
    BY NodeNumbers
  <1>2. DecidedValue(c, LitVar(l), path[k]) # 0
    BY DEF Signed
  <1>3. path[k] \subseteq path[max] /\ Consistent(path[max])
    BY DEF Growing
  <1>4. DecidedValue(c, LitVar(l), path[max]) = DecidedValue(c, LitVar(l), path[k])
    BY <1>1, <1>2, <1>3, DecidedMore
  <1> QED
    BY <1>4

\* The freshly computed value of a gate is sound if those of its inputs are.
LEMMA FreshSound ==
  ASSUME NEW c, Shape(c), NodeShapes(c), NEW n, NEW path, Growing(path, n),
         NEW val \in [Nodes(c) -> -n .. n], NEW i \in Nodes(c), IsGate(c, i),
         NEW max \in 1 .. n,
         \A l \in Range(c.node[i].inputs) : Sound(c, val, path, LitVar(l)),
         NEW fresh, fresh = FreshGateValue(c, val, i, max)
  PROVE  /\ fresh \in -max .. max
         /\ fresh > 0 => DecidedValue(c, i, path[fresh]) = 1
         /\ fresh < 0 => DecidedValue(c, i, path[-fresh]) = -1
  <1> PICK p : p = IF c.node[i].type = "and" THEN 1 ELSE -1
    OBVIOUS
  <1>1. n \in Nat
    BY DEF Growing
  <1>2. \/ fresh = 0
        \/ \E l \in Range(c.node[i].inputs) :
             fresh = InputValue(val, l, max) /\ p * fresh < 0
        \/ Conflict(c, i) /\ fresh = -p * max
        \/ /\ ~Conflict(c, i) /\ fresh = p * max
           /\ \A l \in Range(c.node[i].inputs) : p * InputValue(val, l, max) > 0
    BY <1>1, FreshCases
  <1>3. \A a : DecidedValue(c, i, a) = FromInputs(c, i, a, InputsDecided(c, i, a))
    BY DecidedNode
  <1>4. ASSUME NEW a
        PROVE  /\ c.node[i].type = "and" =>
                    DecidedValue(c, i, a) =
                      IF -1 \in InputsDecided(c, i, a) \/ Conflict(c, i) THEN -1
                      ELSE IF 0 \in InputsDecided(c, i, a) THEN 0 ELSE 1
               /\ c.node[i].type = "or" =>
                    DecidedValue(c, i, a) =
                      IF 1 \in InputsDecided(c, i, a) \/ Conflict(c, i) THEN 1
                      ELSE IF 0 \in InputsDecided(c, i, a) THEN 0 ELSE -1
    BY <1>3, FromInputsCases
  <1>5. c.node[i].type = "and" \/ c.node[i].type = "or"
    BY DEF IsGate
  <1>6. CASE fresh = 0
    BY <1>6
  <1>7. ASSUME NEW l \in Range(c.node[i].inputs),
               fresh = InputValue(val, l, max), p * fresh < 0
        PROVE  /\ fresh \in -max .. max
               /\ fresh > 0 => DecidedValue(c, i, path[fresh]) = 1
               /\ fresh < 0 => DecidedValue(c, i, path[-fresh]) = -1
    <2>1. /\ fresh \in -max .. max
          /\ fresh > 0 => Signed(l, DecidedValue(c, LitVar(l), path[fresh])) = 1
          /\ fresh < 0 => Signed(l, DecidedValue(c, LitVar(l), path[-fresh])) = -1
      BY <1>1, <1>7, InputSound
    <2>2. /\ fresh > 0 => 1 \in InputsDecided(c, i, path[fresh])
          /\ fresh < 0 => -1 \in InputsDecided(c, i, path[-fresh])
      BY <2>1 DEF InputsDecided
    <2>3. /\ c.node[i].type = "and" => fresh < 0
          /\ c.node[i].type = "or" => fresh > 0
      BY <1>7, <2>1
    <2> QED
      BY <1>4, <1>5, <2>1, <2>2, <2>3
  <1>8. CASE Conflict(c, i) /\ fresh = -p * max
    <2>1. /\ c.node[i].type = "and" => fresh = -max
          /\ c.node[i].type = "or" => fresh = max
      BY <1>8
    <2>2. max > 0 /\ max \in Nat /\ -(-max) = max
      BY <1>1
    <2> QED
      BY <1>4, <1>5, <1>8, <2>1, <2>2
  <1>9. CASE /\ ~Conflict(c, i) /\ fresh = p * max
             /\ \A l \in Range(c.node[i].inputs) : p * InputValue(val, l, max) > 0
    <2>1. max > 0 /\ max \in Nat /\ -(-max) = max
      BY <1>1
    <2>2. ASSUME NEW l \in Range(c.node[i].inputs)
          PROVE  Signed(l, DecidedValue(c, LitVar(l), path[max])) = p
      <3> PICK occ : occ = InputValue(val, l, max)
        OBVIOUS
      <3>1. /\ occ \in -max .. max
            /\ occ > 0 => Signed(l, DecidedValue(c, LitVar(l), path[occ])) = 1
            /\ occ < 0 => Signed(l, DecidedValue(c, LitVar(l), path[-occ])) = -1
        BY <1>1, InputSound
      <3>2. p * occ > 0
        BY <1>9
      <3>3. CASE p = 1
        <4>1. occ \in 1 .. n /\ occ <= max /\ occ > 0
          BY <1>1, <2>1, <3>1, <3>2, <3>3
        <4> QED
          BY <3>1, <3>3, <4>1, InputStays
      <3>4. CASE p = -1
        <4>1. -occ \in 1 .. n /\ -occ <= max /\ occ < 0
          BY <1>1, <2>1, <3>1, <3>2, <3>4
        <4> QED
          BY <3>1, <3>4, <4>1, InputStays
      <3> QED
        BY <3>3, <3>4
    <2>3. InputsDecided(c, i, path[max]) \subseteq {p}
      BY <2>2 DEF InputsDecided
    <2>4. CASE c.node[i].type = "and"
      <3>1. p = 1 /\ fresh = max
        BY <1>9, <2>1, <2>4
      <3>2. -1 \notin InputsDecided(c, i, path[max]) /\ 0 \notin InputsDecided(c, i, path[max])
        BY <2>3, <3>1
      <3> QED
        BY <1>4, <1>9, <2>1, <2>4, <3>1, <3>2
    <2>5. CASE c.node[i].type = "or"
      <3>1. p = -1 /\ fresh = -max
        BY <1>9, <2>1, <2>5
      <3>2. 1 \notin InputsDecided(c, i, path[max]) /\ 0 \notin InputsDecided(c, i, path[max])
        BY <2>3, <3>1
      <3> QED
        BY <1>4, <1>9, <2>1, <2>5, <3>1, <3>2
    <2> QED
      BY <1>5, <2>4, <2>5
  <1> QED
    BY <1>2, <1>6, <1>7, <1>8, <1>9

\* Before and after a node is evaluated.
Ready(c, val, path, i, max) ==
  /\ \A l \in Range(c.node[i].inputs) :
       /\ Sound(c, val, path, LitVar(l))
       /\ ~IsVar(c, LitVar(l)) => val[LitVar(l)] \in -max .. max
  /\ IsVar(c, i) \/ val[i] \in -(max - 1) .. max - 1 => Sound(c, val, path, i)

Right(c, val, after, path, i, max) ==
  /\ Sound(c, after, path, i)
  /\ IF IsVar(c, i) THEN after[i] = val[i] ELSE after[i] \in -max .. max

\* Evaluating one node: it keeps its value only where the bound does not forget it.
LEMMA NodeSound ==
  ASSUME NEW c, Shape(c), NodeShapes(c), NEW n, NEW path, Growing(path, n),
         NEW val \in [Nodes(c) -> -n .. n], NEW i \in Nodes(c), NEW max \in 1 .. n,
         Ready(c, val, path, i, max),
         NEW after, after = Evaluated(c, val, i, max)
  PROVE  Right(c, val, after, path, i, max)
  <1> PICK new : new = NodeValue(c, val, i, max)
    OBVIOUS
  <1>1. after[i] = new
    BY DEF Evaluated
  <1>2. n \in Nat /\ max > 0 /\ max \in Nat /\ val[i] \in -n .. n
    BY DEF Growing
  <1>3. c.node[i].type \in {"var", "and", "or", "scope"}
    BY NodeNumbers
  <1>4. CASE IsVar(c, i)
    <2>1. new = val[i]
      BY <1>4 DEF NodeValue, IsVar, IsScopeNode
    <2> QED
      BY <1>1, <1>4, <2>1 DEF Sound, Right, Ready
  <1>5. CASE IsScopeNode(c, i)
    <2> PICK l, sub : l = c.node[i].inputs[1] /\ sub = LitVar(l)
      OBVIOUS
    <2>1. c.node[i].inputs \in Seq(Int) /\ Len(c.node[i].inputs) = 1
      BY <1>5, NodeNumbers DEF Shape
    <2>2. l \in Range(c.node[i].inputs)
      BY <2>1 DEF Range
    <2>3. /\ sub \in Nodes(c) /\ ~IsVar(c, sub)
          /\ \A a : DecidedValue(c, i, a) = DecidedValue(c, sub, a)
      BY <1>5, DecidedScopeNode
    <2>4. Sound(c, val, path, sub) /\ val[sub] \in -max .. max
      BY <2>2, <2>3 DEF Ready
    <2>5. new = val[sub]
      BY <1>5 DEF NodeValue, IsVar, IsScopeNode
    <2>6. ~IsVar(c, i)
      BY <1>5 DEF IsVar, IsScopeNode
    <2> QED
      BY <1>1, <2>3, <2>4, <2>5, <2>6 DEF Sound, Right, Ready
  <1>6. CASE IsGate(c, i)
    <2> PICK fresh : fresh = FreshGateValue(c, val, i, max)
      OBVIOUS
    <2>1. /\ fresh \in -max .. max
          /\ fresh > 0 => DecidedValue(c, i, path[fresh]) = 1
          /\ fresh < 0 => DecidedValue(c, i, path[-fresh]) = -1
      BY <1>6, FreshSound DEF Ready
    <2>2. ~IsVar(c, i) /\ ~IsScopeNode(c, i)
      BY <1>6 DEF IsVar, IsScopeNode, IsGate
    <2>3. \/ new = fresh
          \/ new = val[i] /\ val[i] \in -(max - 1) .. max - 1
      <3> PICK orig : orig = val[i]
        OBVIOUS
      <3>1. CASE c.node[i].type = "or" /\ orig > 0 /\ orig < max
        BY <1>2, <2>2, <3>1 DEF NodeValue
      <3>2. ~(c.node[i].type = "and" /\ orig < 0 /\ orig > max)
        BY <1>2
      <3>3. CASE ~(c.node[i].type = "or" /\ orig > 0 /\ orig < max)
        <4>1. new = IF \/ orig < 0 /\ fresh < 0 /\ fresh < orig
                       \/ orig > 0 /\ fresh > 0 /\ fresh > orig
                    THEN orig ELSE fresh
          BY <2>2, <3>2, <3>3 DEF NodeValue
        <4> QED
          BY <1>2, <2>1, <4>1
      <3> QED
        BY <3>1, <3>3
    <2>4. CASE new = fresh
      BY <1>1, <2>1, <2>2, <2>4 DEF Sound, Right, Ready
    <2>5. CASE new = val[i] /\ val[i] \in -(max - 1) .. max - 1
      <3>1. val[i] \in -max .. max
        BY <1>2, <2>5
      <3> QED
        BY <1>1, <2>2, <2>5, <3>1 DEF Sound, Right, Ready
    <2> QED
      BY <2>3, <2>4, <2>5
  <1> QED
    BY <1>3, <1>4, <1>5, <1>6 DEF IsVar, IsScopeNode, IsGate

\* circuit_evaluate_max: whatever was decided at the bound or behind it may be wrong before;
\* afterwards every node is sound, and nothing but variables counts from behind the bound.
LEMMA EvaluationSound ==
  ASSUME NEW c, Shape(c), NodeShapes(c), NEW n, NEW path, Growing(path, n),
         NEW val \in [Nodes(c) -> -n .. n], NEW max \in 1 .. n,
         \A i \in Nodes(c) :
           IsVar(c, i) \/ val[i] \in -(max - 1) .. max - 1 => Sound(c, val, path, i),
         NEW after, after = EvaluateMax(c, val, max)
  PROVE  \A i \in Nodes(c) : Right(c, val, after, path, i, max)
  <1>1. n \in Nat /\ Values(-n .. n) /\ max \in -n .. n
    BY DEF Growing, Values
  <1> PICK V : V = -n .. n
    OBVIOUS
  <1>0. Values(V) /\ max \in V /\ val \in [Nodes(c) -> V]
    BY <1>1
  <1>2. PICK upto : Evaluates(upto, c, V, val, max)
    BY <1>0, EvaluationSteps
  <1>8. /\ upto \in [Nat -> [Nodes(c) -> V]] /\ upto[0] = val
        /\ \A k \in Nat : upto[k + 1] = Evaluated(c, upto[k], k + 1, max)
        /\ after = upto[MaxNum(c)]
    BY <1>2 DEF Evaluates
  <1>3. MaxNum(c) \in Nat /\ Nodes(c) = 1 .. MaxNum(c)
    BY NodeNumbers DEF Nodes
  <1> DEFINE Good(v, i) == Right(c, val, v, path, i, max)
             T == {k \in Nat : /\ \A i \in Nodes(c) : i <= k => Good(upto[k], i)
                               /\ \A i \in Nodes(c) : i > k => upto[k][i] = val[i]}
  <1>4. 0 \in T
    <2>1. \A i \in Nodes(c) : ~(i <= 0)
      BY <1>3
    <2> HIDE DEF Good
    <2> QED
      BY <1>8, <2>1
  <1>5. ASSUME NEW k \in Nat, k \in T
        PROVE  k + 1 \in T
    <2> PICK j : j = k + 1
      OBVIOUS
    <2> PICK v, w : v = upto[k] /\ w = upto[k + 1]
      OBVIOUS
    <2>1. v \in [Nodes(c) -> -n .. n] /\ w = Evaluated(c, v, j, max)
      BY <1>8
    <2>2. /\ \A i \in Nodes(c) : i <= k => Good(v, i)
          /\ \A i \in Nodes(c) : i > k => v[i] = val[i]
      BY <1>5
    <2>3. \A i \in Nodes(c) : i # k + 1 => w[i] = v[i]
      BY <2>1 DEF Evaluated
    <2>4. ASSUME j \in Nodes(c)
          PROVE  Good(w, j)
      <3>1. ASSUME NEW l \in Range(c.node[j].inputs)
            PROVE  /\ Sound(c, v, path, LitVar(l))
                   /\ ~IsVar(c, LitVar(l)) => v[LitVar(l)] \in -max .. max
        <4>1. LitVar(l) \in 1 .. j - 1 /\ LitVar(l) \in Nodes(c)
          BY <2>4, NodeNumbers DEF Shape, NodesInOrder
        <4>2. LitVar(l) <= k
          BY <4>1
        <4> QED
          BY <2>2, <4>1, <4>2 DEF Right
      <3>2. v[j] = val[j]
        BY <2>2, <2>4
      <3>3. IsVar(c, j) \/ v[j] \in -(max - 1) .. max - 1 => Sound(c, v, path, j)
        BY <2>4, <3>2 DEF Sound
      <3>4. Ready(c, v, path, j, max)
        BY <3>1, <3>3 DEF Ready
      <3>5. Right(c, v, w, path, j, max)
        BY <2>1, <2>4, <3>4, NodeSound
      <3> QED
        BY <3>2, <3>5 DEF Right
    <2>5. ASSUME NEW i \in Nodes(c), i <= k + 1
          PROVE  Good(w, i)
      <3>1. CASE i = k + 1
        BY <2>4, <3>1
      <3>2. CASE i # k + 1
        <4>1. i <= k /\ w[i] = v[i]
          BY <1>3, <2>3, <2>5, <3>2
        <4> QED
          BY <2>2, <4>1 DEF Sound, Right
      <3> QED
        BY <3>1, <3>2
    <2>6. ASSUME NEW i \in Nodes(c), i > k + 1
          PROVE  w[i] = val[i]
      <3>1. i > k /\ i # k + 1
        BY <1>3, <2>6
      <3> QED
        BY <2>2, <2>3, <3>1
    <2> HIDE DEF Good
    <2> QED
      BY <2>5, <2>6
  <1> HIDE DEF T
  <1>6. MaxNum(c) \in T
    BY <1>3, <1>4, <1>5, Induction
  <1>7. ASSUME NEW i \in Nodes(c)
        PROVE  Good(after, i)
    BY <1>3, <1>6, <1>8 DEF T
  <1> QED
    BY <1>7

-----------------------------------------------------------------------------
(***************************************************************************)
(* Assignments.  mod[t] is what scope t was last assigned, b-literals      *)
(* included; along a chain the scopes up to k are the ones around k.       *)
(***************************************************************************)
\* An assignment of scope t says nothing of the variables of other scopes.
Assignment(c, t, m) ==
  \A l \in m : /\ l \in Int /\ LitVar(l) \in Nodes(c) /\ -l \notin m
               /\ IsVar(c, LitVar(l)) => c.node[LitVar(l)].scope = t

OwnLits(c, m) == {l \in m : IsVar(c, LitVar(l))}
PathOf(c, mod) == [k \in Scopes(c) |-> UNION {OwnLits(c, mod[t]) : t \in 1 .. k}]

\* The value of a variable says what its scope was assigned.
VarFits(t, m, val, i) ==
  /\ val[i] \in {-t, 0, t}
  /\ val[i] = t => i \in m
  /\ val[i] = -t => -i \in m

Fits(c, mod, val) ==
  /\ \A t \in Scopes(c) : Assignment(c, t, mod[t])
  /\ \A i \in Nodes(c) : IsVar(c, i) => VarFits(c.node[i].scope, mod[c.node[i].scope], val, i)
  /\ \A i \in Nodes(c) : Sound(c, val, PathOf(c, mod), i)

\* The scopes around each other do not contradict each other.
LEMMA PathGrows ==
  ASSUME NEW c, Shape(c), NEW mod, \A t \in Scopes(c) : Assignment(c, t, mod[t])
  PROVE  Growing(PathOf(c, mod), Len(c.scope))
  <1> DEFINE path == PathOf(c, mod)
  <1>1. /\ Len(c.scope) \in Nat /\ Scopes(c) = 1 .. Len(c.scope)
        /\ \A t \in Scopes(c) : t \in Nat /\ 1 .. t \subseteq Scopes(c)
    BY ScopeNumbers
  <1>2. \A k \in Scopes(c) : \A l \in path[k] :
          \E t \in Scopes(c) : t \in 1 .. k /\ l \in mod[t] /\ IsVar(c, LitVar(l))
    BY <1>1 DEF PathOf, OwnLits
  <1>3. ASSUME NEW k \in Scopes(c), NEW l \in path[k], -l \in path[k]
        PROVE  FALSE
    <2>1. PICK t \in Scopes(c) : l \in mod[t] /\ IsVar(c, LitVar(l))
      BY <1>2
    <2>2. PICK u \in Scopes(c) : -l \in mod[u] /\ IsVar(c, LitVar(-l))
      BY <1>2, <1>3
    <2>6. Assignment(c, t, mod[t]) /\ Assignment(c, u, mod[u])
      OBVIOUS
    <2>3. l \in Int /\ c.node[LitVar(l)].scope = t /\ -l \notin mod[t]
      BY <2>1, <2>6 DEF Assignment
    <2>4. c.node[LitVar(-l)].scope = u
      BY <2>2, <2>6 DEF Assignment
    <2>5. LitVar(-l) = LitVar(l)
      BY <2>3 DEF LitVar
    <2> QED
      BY <2>2, <2>3, <2>4, <2>5
  <1>4. ASSUME NEW k \in Scopes(c), NEW m \in Scopes(c), k <= m
        PROVE  path[k] \subseteq path[m]
    <2>1. 1 .. k \subseteq 1 .. m
      BY <1>1, <1>4
    <2> QED
      BY <2>1 DEF PathOf
  <1> HIDE DEF path
  <1>5. Growing(path, Len(c.scope))
    BY <1>1, <1>3, <1>4 DEF Growing, Consistent
  <1> QED
    BY <1>5 DEF path

\* Variables are sound.
LEMMA VarSound ==
  ASSUME NEW c, Shape(c), NodeShapes(c), NEW mod,
         \A t \in Scopes(c) : Assignment(c, t, mod[t]),
         NEW val, NEW i \in Nodes(c), IsVar(c, i),
         NEW t, t = c.node[i].scope, VarFits(t, mod[t], val, i)
  PROVE  Sound(c, val, PathOf(c, mod), i)
  <1> DEFINE path == PathOf(c, mod)
  <1>1. t \in Scopes(c)
    BY DEF NodeShapes
  <1>2. t \in Nat /\ t \in 1 .. t /\ t > 0 /\ -(-t) = t
    BY <1>1, ScopeNumbers
  <1>3. i \in Nat \ {0} /\ LitVar(i) = i /\ LitVar(-i) = i /\ -(-i) = i
    BY NodeNumbers DEF LitVar
  <1>4. path[t] = UNION {OwnLits(c, mod[u]) : u \in 1 .. t}
    BY <1>1 DEF PathOf
  <1>5. /\ i \in mod[t] => i \in path[t]
        /\ -i \in mod[t] => -i \in path[t]
    BY <1>2, <1>3, <1>4 DEF OwnLits
  <1>6. Consistent(path[t])
    BY <1>1, PathGrows, ScopeNumbers DEF Growing
  <1>7. DecidedValue(c, i, path[t]) = IF i \in path[t] THEN 1 ELSE IF -i \in path[t] THEN -1 ELSE 0
    BY DecidedNode, FromInputsCases DEF IsVar
  <1>8. val[i] \in {-t, 0, t} /\ (val[i] = t => i \in mod[t]) /\ (val[i] = -t => -i \in mod[t])
    BY DEF VarFits
  <1> HIDE DEF path
  <1>9. CASE val[i] = t
    BY <1>2, <1>5, <1>7, <1>8, <1>9 DEF Sound, path
  <1>10. CASE val[i] = -t
    <2>1. i \notin path[t]
      BY <1>3, <1>5, <1>6, <1>8, <1>10 DEF Consistent
    <2> QED
      BY <1>2, <1>5, <1>7, <1>8, <1>10, <2>1 DEF Sound, path
  <1>11. CASE val[i] = 0
    BY <1>11 DEF Sound
  <1> QED
    BY <1>8, <1>9, <1>10, <1>11

\* Evaluating with a smaller bound, when an inner scope has objected, keeps everything sound.
LEMMA ForgettingFits ==
  ASSUME NEW c, Shape(c), NodeShapes(c), NEW mod, NEW n, n = Len(c.scope),
         NEW val \in [Nodes(c) -> -n .. n], NEW max \in 1 .. n, Fits(c, mod, val)
  PROVE  Fits(c, mod, EvaluateMax(c, val, max))
  <1> PICK path, after : path = PathOf(c, mod) /\ after = EvaluateMax(c, val, max)
    OBVIOUS
  <1>1. Growing(path, n)
    BY PathGrows DEF Fits
  <1>2. \A i \in Nodes(c) :
          IsVar(c, i) \/ val[i] \in -(max - 1) .. max - 1 => Sound(c, val, path, i)
    BY DEF Fits
  <1>3. \A i \in Nodes(c) : Right(c, val, after, path, i, max)
    BY <1>1, <1>2, EvaluationSound
  <1>4. \A i \in Nodes(c) : Sound(c, after, path, i) /\ (IsVar(c, i) => after[i] = val[i])
    BY <1>3 DEF Right
  <1> QED
    BY <1>4 DEF Fits, VarFits

\* The variables of scope s get the values that it was assigned.
SetTo(c, s, m, val) ==
  [i \in Nodes(c) |-> IF i \in ScopeVars(c, s) THEN (IF i \in m THEN s ELSE -s) ELSE val[i]]

\* Scope s is assigned m, and everything is evaluated.
Proposes(c, mod, val, s, m, mod2, after) ==
  /\ DOMAIN mod = Scopes(c) /\ val \in [Nodes(c) -> -Len(c.scope) .. Len(c.scope)]
  /\ Fits(c, mod, val) /\ s \in Scopes(c)
  /\ Assignment(c, s, m) /\ \A i \in ScopeVars(c, s) : i \in m \/ -i \in m
  /\ mod2 = [mod EXCEPT ![s] = m] /\ after = EvaluateMax(c, SetTo(c, s, m, val), s)

\* set_value_and_evaluate: whatever the scope and those below it had assigned before, all
\* values are those of the new proposal.
LEMMA ProposingFits ==
  ASSUME NEW c, Shape(c), NodeShapes(c), NEW mod, NEW val, NEW s, NEW m, NEW mod2, NEW after,
         Proposes(c, mod, val, s, m, mod2, after)
  PROVE  /\ Fits(c, mod2, after)
         /\ \A i \in Nodes(c) : ~IsVar(c, i) => after[i] \in -s .. s
  <1> PICK n, set : n = Len(c.scope) /\ set = SetTo(c, s, m, val)
    OBVIOUS
  <1>0. /\ DOMAIN mod = Scopes(c) /\ val \in [Nodes(c) -> -n .. n]
        /\ Fits(c, mod, val) /\ s \in Scopes(c)
        /\ Assignment(c, s, m) /\ \A i \in ScopeVars(c, s) : i \in m \/ -i \in m
        /\ mod2 = [mod EXCEPT ![s] = m] /\ after = EvaluateMax(c, set, s)
    BY DEF Proposes
  <1> PICK path : path = PathOf(c, mod2)
    OBVIOUS
  <1>1. /\ n \in Nat /\ Scopes(c) = 1 .. n /\ s \in Scopes(c) /\ s \in Nat
    BY <1>0, ScopeNumbers
  <1>2. mod2[s] = m /\ \A t \in Scopes(c) : t # s => mod2[t] = mod[t]
    BY <1>0, <1>1
  <1>3. \A t \in Scopes(c) : Assignment(c, t, mod2[t])
    BY <1>0, <1>2 DEF Fits
  <1>4. Growing(path, n)
    BY <1>3, PathGrows
  <1>5. set \in [Nodes(c) -> -n .. n]
    <2>1. s \in -n .. n /\ -s \in -n .. n
      BY <1>1
    <2> QED
      BY <1>0, <2>1 DEF SetTo
  <1>6. ASSUME NEW i \in Nodes(c), IsVar(c, i), NEW t, t = c.node[i].scope
        PROVE  VarFits(t, mod2[t], set, i)
    <2>1. t \in Scopes(c)
      BY <1>6 DEF NodeShapes
    <2>2. CASE t = s
      <3>1. i \in ScopeVars(c, s)
        BY <1>6, <2>2 DEF ScopeVars
      <3>2. set[i] = IF i \in m THEN s ELSE -s
        BY <3>1 DEF SetTo
      <3>3. s # -s /\ (i \in m \/ -i \in m)
        BY <1>0, <1>1, <3>1
      <3> QED
        BY <1>2, <2>2, <3>2, <3>3 DEF VarFits
    <2>3. CASE t # s
      <3>1. i \notin ScopeVars(c, s)
        BY <1>6, <2>3 DEF ScopeVars
      <3>2. set[i] = val[i]
        BY <3>1 DEF SetTo
      <3>3. VarFits(t, mod[t], val, i)
        BY <1>0, <1>6 DEF Fits
      <3> QED
        BY <1>2, <2>1, <2>3, <3>2, <3>3 DEF VarFits
    <2> QED
      BY <2>2, <2>3
  <1>7. ASSUME NEW i \in Nodes(c), IsVar(c, i)
        PROVE  Sound(c, set, path, i)
    BY <1>3, <1>6, <1>7, VarSound
  <1>8. ASSUME NEW i \in Nodes(c), ~IsVar(c, i), set[i] \in -(s - 1) .. s - 1
        PROVE  Sound(c, set, path, i)
    <2>1. i \notin ScopeVars(c, s)
      BY <1>8 DEF ScopeVars
    <2>2. set[i] = val[i] /\ val[i] \in Int
      BY <1>0, <1>1, <2>1 DEF SetTo
    <2>3. \A k \in 1 .. s - 1 : k \in Scopes(c) /\ path[k] = PathOf(c, mod)[k]
      <3> TAKE k \in 1 .. s - 1
      <3>1. k \in Scopes(c) /\ \A t \in 1 .. k : t \in Scopes(c) /\ t # s
        BY <1>1
      <3>2. \A t \in 1 .. k : mod2[t] = mod[t]
        BY <1>2, <3>1
      <3> QED
        BY <3>1, <3>2 DEF PathOf
    <2>4. Sound(c, val, PathOf(c, mod), i)
      BY <1>0 DEF Fits
    <2>5. /\ set[i] > 0 => set[i] \in 1 .. s - 1
          /\ set[i] < 0 => -set[i] \in 1 .. s - 1
      BY <1>1, <1>8, <2>2
    <2> QED
      BY <2>2, <2>3, <2>4, <2>5 DEF Sound
  <1>9. \A i \in Nodes(c) :
          IsVar(c, i) \/ set[i] \in -(s - 1) .. s - 1 => Sound(c, set, path, i)
    BY <1>7, <1>8
  <1> HIDE DEF Nodes
  <1>10. \A i \in Nodes(c) : Right(c, set, after, path, i, s)
    BY <1>0, <1>1, <1>4, <1>5, <1>9, EvaluationSound
  <1>11. \A i \in Nodes(c) : /\ Sound(c, after, path, i)
                             /\ IF IsVar(c, i) THEN after[i] = set[i] ELSE after[i] \in -s .. s
    BY <1>10 DEF Right
  <1>12. \A i \in Nodes(c) :
           IsVar(c, i) => VarFits(c.node[i].scope, mod2[c.node[i].scope], after, i)
    BY <1>6, <1>11 DEF VarFits
  <1> QED
    BY <1>3, <1>11, <1>12 DEF Fits

-----------------------------------------------------------------------------
(***************************************************************************)
(* Chains of scopes: at most one quantifier below every other, and no two  *)
(* quantified subformulas side by side.                                    *)
(***************************************************************************)
Chain == \A s \in Scopes(circuit) : NumNext(s) <= 1

\* Along a chain the scope numbers count from the outside.
LEMMA ChainTree ==
  ASSUME Shape(circuit), Chain
  PROVE  \A s \in Scopes(circuit) \ {TopLevel} : Prev(s) = s - 1
  <1>1. /\ Scopes(circuit) = 1 .. Len(circuit.scope) /\ Len(circuit.scope) \in Nat
        /\ \A s \in Scopes(circuit) \ {TopLevel} : Prev(s) \in 1 .. s - 1
    BY Tree DEF Shape, ScopeTree, Prev
  <1>2. ASSUME NEW s \in Scopes(circuit) \ {TopLevel}, NEW t \in Scopes(circuit) \ {TopLevel},
               Prev(s) = Prev(t)
        PROVE  s = t
    <2> PICK p : p = Prev(s)
      OBVIOUS
    <2>1. p \in Scopes(circuit) /\ NumNext(p) \in Nat /\ NumNext(p) <= 1
      BY Tree DEF Chain
    <2>2. PICK i \in 1 .. NumNext(p) : circuit.scope[p].next[i] = s
      BY Tree
    <2>3. PICK j \in 1 .. NumNext(p) : circuit.scope[p].next[j] = t
      BY <1>2, Tree
    <2>4. i = j
      BY <2>1
    <2> QED
      BY <2>2, <2>3, <2>4
  <1> DEFINE T == {s \in Scopes(circuit) \ {TopLevel} : Prev(s) # s - 1}
  <1> SUFFICES ASSUME T # {}
               PROVE  FALSE
    OBVIOUS
  <1>3. T \in SUBSET Nat
    BY <1>1
  <1>4. PICK s \in T : \A t \in T : s <= t
    BY <1>3, LeastNumber
  <1>5. s \in Scopes(circuit) \ {TopLevel} /\ Prev(s) \in 1 .. s - 1 /\ Prev(s) # s - 1
    BY <1>1, <1>4
  <1> PICK u : u = Prev(s) + 1
    OBVIOUS
  <1>6. u \in Scopes(circuit) \ {TopLevel} /\ u < s
    BY <1>1, <1>5 DEF TopLevel
  <1>7. u \notin T
    BY <1>1, <1>4, <1>6
  <1>8. Prev(u) = Prev(s)
    BY <1>5, <1>6, <1>7
  <1> QED
    BY <1>1, <1>2, <1>5, <1>6, <1>8

\* The scopes around s are those with smaller numbers: the recursion of Enclosing.
LEMMA ChainEnclosing ==
  ASSUME Shape(circuit), Chain, NEW s \in Scopes(circuit)
  PROVE  Enclosing(circuit, s) = 1 .. s - 1
  <1> DEFINE D == {0} \cup Scopes(circuit)
             Up(g) == [t \in D |-> IF t = 0 THEN {} ELSE {t} \cup g[circuit.scope[t].prev]]
             up == CHOOSE g : g = Up(g)
             all == [t \in D |-> 1 .. t]
  <1>1. /\ Scopes(circuit) = 1 .. Len(circuit.scope) /\ Len(circuit.scope) \in Nat
        /\ TopLevel \in Scopes(circuit) /\ TopLevel = 1
    BY Tree DEF TopLevel
  <1>2. \A t \in Scopes(circuit) : circuit.scope[t].prev = t - 1
    <2>1. circuit.scope[TopLevel].prev = 0
      BY DEF Shape, ScopeTree
    <2>2. \A t \in Scopes(circuit) \ {TopLevel} : circuit.scope[t].prev = t - 1
      BY ChainTree DEF Prev
    <2> QED
      BY <1>1, <2>1, <2>2
  <1>3. \A t \in D : t \in Nat /\ (t # 0 => t - 1 \in D /\ t \in Scopes(circuit))
    BY <1>1
  <1>4. all = Up(all)
    <2>1. ASSUME NEW t \in D
          PROVE  1 .. t = IF t = 0 THEN {} ELSE {t} \cup all[circuit.scope[t].prev]
      <3>1. CASE t = 0
        BY <3>1
      <3>2. CASE t # 0
        <4>1. t \in Nat \ {0} /\ all[circuit.scope[t].prev] = 1 .. t - 1
          BY <1>2, <1>3, <3>2
        <4>2. 1 .. t = {t} \cup 1 .. t - 1
          BY <4>1
        <4> QED
          BY <3>2, <4>1, <4>2
      <3> QED
        BY <3>1, <3>2
    <2> QED
      BY <2>1
  <1>5. up = Up(up)
    BY <1>4
  <1>6. Enclosing(circuit, s) = up[circuit.scope[s].prev]
    BY DEF Enclosing
  <1> HIDE DEF up
  <1>7. up[0] = {} /\ \A t \in D : t # 0 => up[t] = {t} \cup up[t - 1]
    <2>1. \A t \in D : up[t] = IF t = 0 THEN {} ELSE {t} \cup up[circuit.scope[t].prev]
      BY <1>5
    <2> QED
      BY <1>2, <1>3, <2>1
  <1> DEFINE T == {t \in D : up[t] # 1 .. t}
  <1>8. T = {}
    <2> SUFFICES ASSUME T # {}
                 PROVE  FALSE
      OBVIOUS
    <2>1. T \in SUBSET Nat
      BY <1>3
    <2>2. PICK t \in T : \A r \in T : t <= r
      BY <2>1, LeastNumber
    <2>3. t \in D /\ t \in Nat /\ up[t] # 1 .. t
      BY <1>3, <2>2
    <2>4. t # 0
      BY <1>7, <2>3
    <2>5. t - 1 \in D /\ t - 1 \notin T
      BY <1>3, <2>2, <2>3, <2>4
    <2>6. up[t] = {t} \cup 1 .. t - 1
      BY <1>7, <2>3, <2>4, <2>5
    <2> QED
      BY <2>3, <2>4, <2>6
  <1>9. circuit.scope[s].prev = s - 1 /\ s - 1 \in D
    BY <1>1, <1>2
  <1> QED
    BY <1>6, <1>8, <1>9

\* A scope that is not idle is called by the one above, and so on to the top level.
LEMMA CallsAbove ==
  ASSUME Shape(circuit), Chain, CallsMatch,
         NEW s \in Scopes(circuit), pc[s] # "idle", NEW t \in Scopes(circuit), t < s
  PROVE  pc[t] = "called"
  <1>1. Scopes(circuit) = 1 .. Len(circuit.scope) /\ Len(circuit.scope) \in Nat /\ TopLevel = 1
    BY Tree DEF TopLevel
  <1> DEFINE T == {u \in Scopes(circuit) : pc[u] # "idle" /\ t < u}
  <1> SUFFICES ASSUME pc[t] # "called"
               PROVE  FALSE
    OBVIOUS
  <1>2. T \in SUBSET Nat /\ T # {}
    BY <1>1
  <1>3. PICK u \in T : \A r \in T : u <= r
    BY <1>2, LeastNumber
  <1>4. u \in Scopes(circuit) \ {TopLevel} /\ pc[u] # "idle" /\ t < u
    BY <1>1, <1>3
  <1>5. pc[u - 1] = "called" /\ u - 1 \in Scopes(circuit)
    BY <1>1, <1>4, ChainTree DEF CallsMatch, CalledByParent
  <1>6. u - 1 # t
    BY <1>5
  <1>7. u - 1 \in T
    BY <1>1, <1>4, <1>5, <1>6
  <1> QED
    BY <1>1, <1>3, <1>4, <1>7

\* So there is at most one scope that calls nobody.
LEMMA OneWorks ==
  ASSUME Shape(circuit), Chain, CallsMatch, NEW s \in Scopes(circuit), NEW t \in Scopes(circuit),
         pc[s] \notin {"idle", "called"}, pc[t] \notin {"idle", "called"}
  PROVE  s = t
  <1>1. s \in Nat /\ t \in Nat
    BY Tree
  <1> QED
    BY <1>1, CallsAbove

-----------------------------------------------------------------------------
(***************************************************************************)
(* The values of the solver.                                               *)
(***************************************************************************)
\* No b-literal stands for a variable.
LEMMA BLitsAreInner ==
  ASSUME Static, NEW s \in Scopes(circuit)
  PROVE  \A b \in b_lits[s] : b \in Nodes(circuit) /\ ~IsVar(circuit, b)
  BY BLitsAreNoVariables DEF Static

\* What the SAT solver is observed to answer assigns the variables of the scope.
LEMMA ProposalAssigns ==
  ASSUME Static, TypeOK, NEW s \in Scopes(circuit), NEW mm \in Models(s),
         NEW m, m = ObservedLits(s, mm)
  PROVE  /\ Assignment(circuit, s, m)
         /\ \A i \in ScopeVars(circuit, s) : i \in m \/ -i \in m
  <1> DEFINE named == ScopeVars(circuit, s) \cup b_lits[s]
             free  == named \ Atoms(AssumedT(s))
  <1>1. PICK pos \in SUBSET free :
          mm = AssumedT(s) \cup {IF a \in pos THEN a ELSE -a : a \in free}
    BY DEF Models, SatModels
  <1>2. /\ entry[s] \subseteq t_lits[s] /\ t_lits[s] \subseteq Nat \ {0}
        /\ \A t \in t_lits[s] : t \notin Nodes(circuit)
        /\ Nodes(circuit) \subseteq Nat \ {0} /\ named \subseteq Nodes(circuit)
    BY Interfaces DEF TypeOK, ScopeVars
  <1>3. \A l \in AssumedT(s) : l \in Int /\ Abs(l) \in t_lits[s]
    BY <1>2 DEF AssumedT, Opposite, Abs
  <1>4. free = named
    BY <1>2, <1>3 DEF Atoms
  <1>5. \A a \in named : a \in Nat \ {0} /\ Abs(a) = a /\ Abs(-a) = a /\ -(-a) = a
    BY <1>2 DEF Abs
  <1> HIDE DEF named, free
  <1>6. m = {IF a \in pos THEN a ELSE -a : a \in named}
    <2>1. m = {l \in mm : Abs(l) \in named}
      BY DEF ObservedLits, named
    <2>2. \A l \in AssumedT(s) : Abs(l) \notin named
      BY <1>2, <1>3
    <2> QED
      BY <1>1, <1>4, <1>5, <2>1, <2>2
  <1>7. \A i \in ScopeVars(circuit, s) : i \in m \/ -i \in m
    BY <1>6 DEF named
  <1>8. ASSUME NEW a \in named
        PROVE  IsVar(circuit, a) => circuit.node[a].scope = s
    BY BLitsAreInner DEF named, ScopeVars
  <1>9. ASSUME NEW l \in m
        PROVE  /\ l \in Int /\ LitVar(l) \in Nodes(circuit) /\ -l \notin m
               /\ IsVar(circuit, LitVar(l)) => circuit.node[LitVar(l)].scope = s
    <2>1. PICK a \in named : l = IF a \in pos THEN a ELSE -a
      BY <1>6
    <2>2. l \in Int /\ LitVar(l) = a
      BY <1>5, <2>1 DEF LitVar
    <2>3. -l \notin m
      <3> SUFFICES ASSUME NEW b \in named, -l = IF b \in pos THEN b ELSE -b
                   PROVE  FALSE
        BY <1>6
      <3> QED
        BY <1>5, <2>1
    <2> QED
      BY <1>2, <1>8, <2>2, <2>3
  <1> QED
    BY <1>7, <1>9 DEF Assignment

\* While a proposal is being handed out, nothing counts as decided by an inner scope.
Fresh ==
  \A s \in Scopes(circuit) : pc[s] = "children" /\ index[s] = 1 =>
    \A i \in Nodes(circuit) : ~IsVar(circuit, i) => value[i] \in -s .. s

UpToDate ==
  /\ NodeShapes(circuit)
  /\ minimize /\ Chain => Fits(circuit, model, value) /\ Fresh

\* At first nothing is assigned and nothing has a value.
LEMMA InitCurrent == Init => UpToDate
  <1> SUFFICES ASSUME Init
               PROVE  UpToDate
    OBVIOUS
  <1>1. PICK c \in Circuits : circuit = Annotate(c)
    BY DEF Init
  <1>2. NodeShapes(circuit)
    <2>1. NodeShapes(c)
      BY CircuitsWellFormed DEF WellFormed, NodeShapes
    <2>2. circuit.node = c.node /\ circuit.scope = c.scope
      BY <1>1 DEF Annotate
    <2> QED
      BY <2>1, <2>2 DEF NodeShapes, Nodes, MaxNum, Scopes, IsVar, IsScopeNode
  <1>3. Shape(circuit)
    BY InitInv DEF IInv, Static
  <1>4. /\ value = [i \in Nodes(circuit) |-> 0] /\ model = [s \in Scopes(circuit) |-> {}]
        /\ index = [s \in Scopes(circuit) |-> 0]
    BY DEF Init
  <1>5. \A t \in Scopes(circuit) : Assignment(circuit, t, model[t])
    BY <1>4 DEF Assignment
  <1>6. \A i \in Nodes(circuit) : Sound(circuit, value, PathOf(circuit, model), i)
    BY <1>4 DEF Sound
  <1>7. ASSUME NEW i \in Nodes(circuit), IsVar(circuit, i), NEW t, t = circuit.node[i].scope
        PROVE  VarFits(t, model[t], value, i)
    <2>1. t \in Nat \ {0}
      BY <1>2, <1>3, <1>7, ScopeNumbers DEF NodeShapes
    <2> QED
      BY <1>4, <2>1 DEF VarFits
  <1>8. Fresh
    BY <1>4 DEF Fresh
  <1> QED
    BY <1>2, <1>5, <1>6, <1>7, <1>8 DEF UpToDate, Fits

\* A step that leaves models and values alone, and hands out no proposal.
LEMMA SameCurrent ==
  ASSUME UpToDate, UNCHANGED <<config, model, value>>,
         \A s \in Scopes(circuit) :
           pc'[s] = "children" /\ index'[s] = 1 => pc[s] = "children" /\ index[s] = 1
  PROVE  UpToDate'
  <1>1. circuit' = circuit /\ minimize' = minimize /\ model' = model /\ value' = value
    BY DEF config
  <1>2. Chain' <=> Chain
    BY <1>1 DEF Chain, NumNext
  <1>3. Fresh => Fresh'
    BY <1>1 DEF Fresh
  <1> QED
    BY <1>1, <1>2, <1>3 DEF UpToDate

\* A scope proposes.
LEMMA ProposalCurrent ==
  ASSUME IInv, UpToDate, NEW s \in Scopes(circuit), pc[s] = "solve",
         NEW mm \in Models(s), NEW m, m = ObservedLits(s, mm), UNCHANGED config,
         model' = [model EXCEPT ![s] = m], value' = SetValueAndEvaluate(s, m),
         \A t \in Scopes(circuit) \ {s} : pc'[t] = pc[t]
  PROVE  UpToDate'
  <1>1. circuit' = circuit /\ minimize' = minimize
    BY DEF config
  <1>2. Chain' <=> Chain
    BY <1>1 DEF Chain, NumNext
  <1> SUFFICES ASSUME minimize, Chain
               PROVE  Fits(circuit, model', value') /\ Fresh'
    BY <1>1, <1>2 DEF UpToDate
  <1>3. Static /\ PerScope /\ TypeOK /\ Shape(circuit) /\ NodeShapes(circuit) /\ CallsMatch
    BY Types DEF IInv, Static, UpToDate
  <1> PICK c, n, mod, val, set, mod2, after :
        /\ c = circuit /\ n = Len(circuit.scope) /\ mod = model /\ val = value
        /\ set = SetTo(circuit, s, m, value)
        /\ mod2 = [mod EXCEPT ![s] = m]
        /\ after = EvaluateMax(c, set, s)
    OBVIOUS
  <1>4. /\ Fits(c, mod2, after)
        /\ \A i \in Nodes(c) : ~IsVar(c, i) => after[i] \in -s .. s
    <2>1. Assignment(c, s, m) /\ \A i \in ScopeVars(c, s) : i \in m \/ -i \in m
      BY <1>3, ProposalAssigns
    <2>2. DOMAIN mod = Scopes(c) /\ val \in [Nodes(c) -> -n .. n] /\ Fits(c, mod, val)
      BY <1>3 DEF PerScope, TypeOK, UpToDate
    <2>3. Shape(c) /\ NodeShapes(c)
      BY <1>3
    <2>4. /\ set = SetTo(c, s, m, val) /\ mod2 = [mod EXCEPT ![s] = m]
          /\ after = EvaluateMax(c, set, s)
      OBVIOUS
    <2>5. Proposes(c, mod, val, s, m, mod2, after)
      BY <2>1, <2>2, <2>4 DEF Proposes
    <2> QED
      BY <2>3, <2>5, ProposingFits
  <1>5. model' = mod2 /\ value' = after
    BY DEF SetValueAndEvaluate, SetTo
  <1>6. Fresh'
    <2> SUFFICES ASSUME NEW t \in Scopes(circuit), pc'[t] = "children"
                 PROVE  t = s
      BY <1>1, <1>4, <1>5 DEF Fresh
    <2>1. t # s => pc[t] = "children"
      OBVIOUS
    <2> QED
      BY <1>3, <2>1, OneWorks
  <1> QED
    BY <1>4, <1>5, <1>6

\* A child objects: what was decided in the scope and below it is forgotten.
LEMMA ObjectionCurrent ==
  ASSUME IInv, UpToDate, NEW s \in Scopes(circuit), ChildObjects(s)
  PROVE  UpToDate'
  <1> PICK c : c = CurrentChild(s)
    OBVIOUS
  <1>1. pc[s] = "called" /\ pc[c] = "good"
    BY DEF ChildObjects
  <1>2. FailedBLits(s, c) \subseteq assumptions[s]
    BY <1>1, Objection
  <1>3. /\ value' = IF minimize /\ s > 1 THEN EvaluateMax(circuit, value, s - 1) ELSE value
        /\ pc' = [pc EXCEPT ![s] = "children", ![c] = "idle"]
        /\ index' = [index EXCEPT ![s] = @ + 1]
        /\ circuit' = circuit /\ minimize' = minimize /\ model' = model
    BY <1>2 DEF ChildObjects, config
  <1>4. Chain' <=> Chain
    BY <1>3 DEF Chain, NumNext
  <1> SUFFICES ASSUME minimize, Chain
               PROVE  Fits(circuit, model, value') /\ Fresh'
    BY <1>3, <1>4 DEF UpToDate
  <1>5. PerScope /\ TypeOK /\ Shape(circuit) /\ NodeShapes(circuit) /\ CallsMatch /\ Places(s)
    BY Types DEF IInv, Static, UpToDate, Round
  <1>6. /\ s \in Nat /\ index[s] \in 1 .. NumNext(s) /\ index'[s] # 1
        /\ c \in Scopes(circuit) \ {s}
    <2>1. index[s] \in Nat /\ NumNext(s) \in Nat /\ s \in Nat
      BY <1>5, Tree, Types
    <2>2. index[s] \in 1 .. NumNext(s)
      BY <1>1, <1>5, <2>1 DEF Places, InLoop
    <2>3. DOMAIN index = Scopes(circuit)
      BY <1>5 DEF PerScope
    <2> QED
      BY <1>3, <1>5, <2>1, <2>2, <2>3, Tree DEF CurrentChild
  <1>7. Fits(circuit, model, value')
    <2>1. Fits(circuit, model, value)
      BY DEF UpToDate
    <2>2. CASE s > 1
      <3> PICK d, n, mod, val : d = circuit /\ n = Len(circuit.scope) /\ mod = model /\ val = value
        OBVIOUS
      <3> PICK max : max = s - 1
        OBVIOUS
      <3>1. Shape(d) /\ NodeShapes(d) /\ n = Len(d.scope) /\ val \in [Nodes(d) -> -n .. n]
        BY <1>5 DEF TypeOK
      <3>2. max \in 1 .. n
        BY <1>5, <1>6, <2>2, Tree
      <3>3. Fits(d, mod, EvaluateMax(d, val, max))
        BY <2>1, <3>1, <3>2, ForgettingFits
      <3> QED
        BY <1>3, <2>2, <3>3
    <2>3. CASE ~(s > 1)
      BY <1>3, <2>1, <2>3
    <2> QED
      BY <2>2, <2>3
  <1>8. Fresh'
    <2> SUFFICES ASSUME NEW t \in Scopes(circuit), pc'[t] = "children", index'[t] = 1
                 PROVE  FALSE
      BY <1>3 DEF Fresh
    <2>1. t # s
      BY <1>6
    <2>2. t # c /\ pc[t] = "children"
      BY <1>3, <1>5, <1>6, <2>1 DEF TypeOK
    <2> QED
      BY <1>1, <1>5, <1>6, <2>2, OneWorks
  <1> QED
    BY <1>7, <1>8

\* Every step keeps the values current.
LEMMA NextCurrent ==
  ASSUME IInv, UpToDate, [Next]_vars
  PROVE  UpToDate'
  <1>1. PerScope /\ \A u \in Scopes(circuit) : index[u] \in Nat /\ Places(u)
    BY Types DEF IInv, Round
  <1>2. pc \in [Scopes(circuit) -> PcValues] /\ DOMAIN index = Scopes(circuit)
    BY <1>1, Types DEF PerScope
  <1>3. ASSUME NEW s \in Scopes(circuit), SolveLeaf(s) \/ SolveInner(s)
        PROVE  UpToDate'
    <2>1. PICK mm \in Models(s) : /\ model' = [model EXCEPT ![s] = ObservedLits(s, mm)]
                                  /\ value' = SetValueAndEvaluate(s, ObservedLits(s, mm))
      BY <1>3 DEF SolveLeaf, SolveInner
    <2>2. \A t \in Scopes(circuit) \ {s} : pc'[t] = pc[t]
      BY <1>2, <1>3 DEF SolveLeaf, SolveInner, DualPropagation
    <2>3. pc[s] = "solve" /\ UNCHANGED config
      BY <1>3 DEF SolveLeaf, SolveInner
    <2> PICK m : m = ObservedLits(s, mm)
      OBVIOUS
    <2> QED
      BY <2>1, <2>2, <2>3, ProposalCurrent
  <1>4. ASSUME NEW s \in Scopes(circuit), SolveUnsat(s) \/ AllAgreed(s) \/ Retry(s)
        PROVE  UpToDate'
    <2>1. \E x \in {"good", "bad", "abort", "solve"} : pc' = [pc EXCEPT ![s] = x]
      BY <1>4 DEF SolveUnsat, AllAgreed, Retry, DualPropagation
    <2>2. index' = index /\ UNCHANGED <<config, model, value>>
      BY <1>4 DEF SolveUnsat, AllAgreed, Retry
    <2>3. \A t \in Scopes(circuit) : pc'[t] = "children" => pc[t] = "children"
      BY <1>2, <2>1
    <2> QED
      BY <2>2, <2>3, SameCurrent
  <1>5. ASSUME NEW s \in Scopes(circuit), NextChild(s) \/ ChildAgrees(s)
        PROVE  UpToDate'
    <2>1. UNCHANGED <<config, model, value>>
      BY <1>5 DEF NextChild, ChildAgrees
    <2>2. index[s] >= 1
      BY <1>1, <1>5 DEF NextChild, ChildAgrees, Places, InLoop
    <2>3. \/ /\ pc' = [pc EXCEPT ![s] = "called", ![CurrentChild(s)] = "solve"]
             /\ index' = index
          \/ pc' = pc /\ index' = [index EXCEPT ![s] = @ + 1]
          \/ /\ pc' = [pc EXCEPT ![s] = "children", ![CurrentChild(s)] = "idle"]
             /\ index' = [index EXCEPT ![s] = @ + 1]
      BY <1>5 DEF NextChild, ChildAgrees
    <2>4. \A t \in Scopes(circuit) :
            pc'[t] = "children" /\ index'[t] = 1 => pc[t] = "children" /\ index[t] = 1
      BY <1>1, <1>2, <2>2, <2>3
    <2> QED
      BY <2>1, <2>4, SameCurrent
  <1>6. CASE UNCHANGED vars
    <2>1. UNCHANGED <<config, model, value>> /\ pc' = pc /\ index' = index
      BY <1>6 DEF vars, config
    <2> QED
      BY <2>1, SameCurrent
  <1> QED
    BY <1>3, <1>4, <1>5, <1>6, ObjectionCurrent DEF Next, Step, Done

\* What b-literal minimisation reads when a proposal is handed out.
LEMMA CurrentIsSound ==
  ASSUME IInv, UpToDate, Chain
  PROVE  ValuesSound
  <1> SUFFICES ASSUME minimize, NEW s \in Scopes(circuit), pc[s] = "children", index[s] = 1,
                      NEW i \in b_lits[s], value[i] # 0
               PROVE  LET decided == DecidedValue(circuit, i, PathAssignment(s))
                      IN  (value[i] > 0 /\ decided = 1) \/ (value[i] < 0 /\ decided = -1)
    BY DEF ValuesSound
  <1> PICK path : path = PathOf(circuit, model)
    OBVIOUS
  <1>1. Static /\ Shape(circuit) /\ NodeShapes(circuit) /\ Fits(circuit, model, value) /\ Fresh
    BY DEF IInv, Static, UpToDate
  <1>2. i \in Nodes(circuit) /\ ~IsVar(circuit, i)
    BY <1>1, BLitsAreInner
  <1>3. value[i] \in -s .. s /\ s \in Nat /\ 1 .. s \subseteq Scopes(circuit) /\ s \in 1 .. s
    BY <1>1, <1>2, ScopeNumbers, Tree DEF Fresh
  <1>4. Sound(circuit, value, path, i)
    BY <1>1, <1>2 DEF Fits
  <1>5. PathAssignment(s) = path[s]
    <2>1. {s} \cup Enclosing(circuit, s) = 1 .. s
      BY <1>1, <1>3, ChainEnclosing
    <2> QED
      BY <1>3, <2>1 DEF PathAssignment, PathOf, OwnLits
  <1>6. Growing(path, Len(circuit.scope))
    <2> PICK c, mod : c = circuit /\ mod = model
      OBVIOUS
    <2>1. Growing(PathOf(c, mod), Len(c.scope))
      BY <1>1, PathGrows DEF Fits
    <2> QED
      BY <2>1
  <1>7. \A k \in 1 .. s : path[k] \subseteq path[s] /\ Consistent(path[s])
    BY <1>1, <1>3, <1>6, ScopeNumbers DEF Growing
  <1>8. ASSUME NEW k \in 1 .. s, DecidedValue(circuit, i, path[k]) # 0
        PROVE  DecidedValue(circuit, i, path[s]) = DecidedValue(circuit, i, path[k])
    <2> PICK c, a, b : c = circuit /\ a = path[k] /\ b = path[s]
      OBVIOUS
    <2>1. DecidedValue(c, i, b) = DecidedValue(c, i, a)
      BY <1>1, <1>2, <1>7, <1>8, DecidedMore
    <2> QED
      BY <2>1
  <1>9. CASE value[i] > 0
    <2>1. value[i] \in 1 .. s /\ DecidedValue(circuit, i, path[value[i]]) = 1
      BY <1>3, <1>4, <1>9 DEF Sound
    <2> QED
      BY <1>5, <1>8, <1>9, <2>1
  <1>10. CASE value[i] < 0
    <2>1. -value[i] \in 1 .. s /\ DecidedValue(circuit, i, path[-value[i]]) = -1
      BY <1>3, <1>4, <1>10 DEF Sound
    <2> QED
      BY <1>5, <1>8, <1>10, <2>1
  <1> QED
    BY <1>3, <1>9, <1>10

-----------------------------------------------------------------------------
(***************************************************************************)
(* Theorem                                                                 *)
(***************************************************************************)
\* Along a chain of scopes the propagated values that b-literal minimisation reads are
\* decided by the current assignment of the scope and those around it: refine and the next
\* proposal leave nothing behind that an inner or an earlier assignment decided
\* (circuit_evaluate_max; refine, solver.c:133).  With sibling scopes this is not so.
THEOREM ValuesAreCurrent ==
  Spec => []((\A s \in Scopes(circuit) : NumNext(s) <= 1) => ValuesSound)
  <1>1. IInv /\ UpToDate /\ [Next]_vars => UpToDate'
    BY NextCurrent
  <1>2. IInv /\ UpToDate => ((\A s \in Scopes(circuit) : NumNext(s) <= 1) => ValuesSound)
    BY CurrentIsSound DEF Chain
  <1> QED
    BY InitCurrent, SolverInvariance, <1>1, <1>2, PTL DEF Spec

-----------------------------------------------------------------------------
(***************************************************************************)
(* Prenex circuits: the scopes are a chain, a scope's depth is its number, *)
(* and every node is relevant for every scope.                             *)
(***************************************************************************)
Prenex == \A s \in Scopes(circuit) : InPrefix(circuit, s)
Annotated == \E c \in Circuits : circuit = Annotate(c)

\* Without scope nodes, and every scope with at most one child.
LEMMA PrenexChain ==
  ASSUME Annotated, Shape(circuit), Prenex
  PROVE  Chain /\ NodeShapes(circuit) /\ \A i \in Nodes(circuit) : ~IsScopeNode(circuit, i)
  <1>1. PICK c \in Circuits : circuit = Annotate(c)
    BY DEF Annotated
  <1>2. circuit.node = c.node /\ circuit.scope = c.scope
    BY <1>1 DEF Annotate
  <1>3. WellFormed(c)
    BY CircuitsWellFormed
  <1>4. Scopes(circuit) = Scopes(c) /\ Nodes(circuit) = Nodes(c)
    BY <1>2 DEF Scopes, Nodes, MaxNum
  <1>5. \A i \in Nodes(circuit) :
          /\ IsVar(circuit, i) => /\ circuit.node[i].inputs = <<>>
                                  /\ circuit.node[i].scope \in Scopes(circuit)
          /\ IsScopeNode(circuit, i) => /\ ~IsVar(circuit, LitVar(circuit.node[i].inputs[1]))
                                        /\ circuit.node[i].scope \in Scopes(circuit)
                                        /\ circuit.scope[circuit.node[i].scope].node = i
    BY <1>2, <1>3, <1>4 DEF WellFormed, IsVar, IsScopeNode
  <1>6. \A s \in Scopes(circuit) \ {TopLevel} :
          InPrefix(circuit, s) => circuit.scope[circuit.scope[s].prev].next = <<s>>
    BY <1>2, <1>3, <1>4 DEF WellFormed, InPrefix
  <1>7. \A i \in Nodes(circuit) : ~IsScopeNode(circuit, i)
    BY <1>5, NodeNumbers DEF Prenex, InPrefix
  <1>8. ASSUME NEW s \in Scopes(circuit)
        PROVE  NumNext(s) <= 1
    <2>1. CASE IsLeaf(s)
      BY <2>1 DEF IsLeaf
    <2>2. CASE ~IsLeaf(s)
      <3>1. PICK t \in Children(circuit, s) : TRUE
        BY <2>2, TreeChildren
      <3>2. t \in Scopes(circuit) \ {TopLevel} /\ circuit.scope[t].prev = s
        BY <3>1, TreeChildren DEF Prev
      <3>3. circuit.scope[s].next = <<t>>
        BY <1>6, <3>2 DEF Prenex
      <3> QED
        BY <3>3 DEF NumNext
    <2> QED
      BY <2>1, <2>2
  <1> QED
    BY <1>5, <1>7, <1>8 DEF Chain, NodeShapes

\* The annotations of a prenex circuit.
LEMMA PrenexAnnotations ==
  ASSUME Annotated, Shape(circuit), Prenex
  PROVE  /\ \A s \in Scopes(circuit) : circuit.depth[s] = s /\ circuit.max_depth[s] = 0
         /\ \A i \in Nodes(circuit) :
              /\ circuit.influences[i] \subseteq Scopes(circuit) /\ circuit.influences[i] # {}
              /\ IsVar(circuit, i) => circuit.influences[i] = {circuit.node[i].scope}
  <1>1. PICK c \in Circuits : circuit = Annotate(c)
    BY DEF Annotated
  <1>2. /\ circuit.node = c.node /\ circuit.scope = c.scope /\ circuit.depth = Depth(c)
        /\ circuit.max_depth = MaxDepth(c) /\ circuit.influences = Influences(c)
    BY <1>1 DEF Annotate
  <1>3. Shape(c)
    BY CircuitsWellFormed, WellFormedShape
  <1>4. Scopes(circuit) = Scopes(c) /\ Nodes(circuit) = Nodes(c)
    BY <1>2 DEF Scopes, Nodes, MaxNum
  <1>5. Chain /\ NodeShapes(circuit) /\ \A i \in Nodes(circuit) : ~IsScopeNode(circuit, i)
    BY PrenexChain
  <1>6. NodeShapes(c)
    BY <1>2, <1>4, <1>5 DEF NodeShapes, IsVar, IsScopeNode
  <1>7. ASSUME NEW s \in Scopes(c)
        PROVE  Depth(c)[s] = s /\ MaxDepth(c)[s] = 0
    <2>1. Enclosing(c, s) = Enclosing(circuit, s)
      BY <1>2, <1>4 DEF Enclosing
    <2>2. s \in Nat \ {0} /\ Enclosing(c, s) = 1 .. s - 1
      BY <1>4, <1>5, <2>1, ChainEnclosing, Tree
    <2>3. Cardinality(1 .. s - 1) = s - 1
      BY <2>2, FS_Interval
    <2>4. Depth(c)[s] = s
      BY <2>2, <2>3 DEF Depth
    <2>5. InPrefix(c, s)
      BY <1>2, <1>4 DEF Prenex, InPrefix
    <2> QED
      BY <2>4, <2>5 DEF MaxDepth
  <1>8. \A i \in Nodes(c) : Influences(c)[i] \subseteq Scopes(c) /\ Influences(c)[i] # {}
    BY <1>3, <1>6, <1>7, InfluencesType
  <1>9. ASSUME NEW i \in Nodes(c), IsVar(c, i)
        PROVE  Influences(c)[i] = {c.node[i].scope}
    <2>1. Influences(c)[i] = InfluenceFrom(c, i, Influences(c))
      BY <1>3, InfluencesOfInputs
    <2>2. Inputs(c, i) = {} /\ c.node[i].scope \in Scopes(c)
      BY <1>6, <1>9 DEF NodeShapes, Inputs, Range
    <2>3. OwnInfluence(c, i) = {c.node[i].scope}
      <3>1. Depth(c)[c.node[i].scope] = c.node[i].scope
        BY <1>7, <2>2
      <3>2. IsVar(c, i) /\ ~IsScopeNode(c, i)
        BY <1>9 DEF IsVar, IsScopeNode
      <3> QED
        BY <3>1, <3>2 DEF OwnInfluence
    <2> QED
      BY <2>1, <2>2, <2>3 DEF InfluenceFrom
  <1> QED
    BY <1>2, <1>4, <1>7, <1>8, <1>9 DEF IsVar

-----------------------------------------------------------------------------
(***************************************************************************)
(* Two analyses of one gate.                                               *)
(***************************************************************************)
\* What the analysis of a gate looks at when every node is relevant: the depth of the
\* innermost scope that its inputs depend on.
Innermost(i) == Max(circuit.influences[i])
VarsOf(g) == {i \in Inputs(circuit, g) : IsVar(circuit, i)}
GatesOf(g) == {i \in Inputs(circuit, g) : IsGate(circuit, i)}
OnlyGatesBelow(g, d) ==
  \A i \in Inputs(circuit, g) \ VarsOf(g) : IsGate(circuit, i) /\ Innermost(i) < d

\* It is a scope that influences the node.
LEMMA InnermostScope ==
  ASSUME Annotated, Shape(circuit), Prenex, NEW i \in Nodes(circuit)
  PROVE  Innermost(i) \in Scopes(circuit) /\ Innermost(i) \in circuit.influences[i]
  <1>1. Scopes(circuit) = 1 .. Len(circuit.scope) /\ Len(circuit.scope) \in Nat
    BY Tree
  <1>2. circuit.influences[i] \subseteq Scopes(circuit) /\ circuit.influences[i] # {}
    BY PrenexAnnotations
  <1> QED
    BY <1>1, <1>2, MaxIsGreatest DEF Innermost

\* Everything but the scope's own number has gone from the analysis of a gate.
LEMMA PrenexAnalysis ==
  ASSUME Annotated, Shape(circuit), Prenex,
         NEW s \in Scopes(circuit), NEW g \in Nodes(circuit)
  PROVE  /\ AnalyzeGate(circuit, s, g).b =
              IF Innermost(g) <= s THEN {}
              ELSE (IF \E i \in VarsOf(g) : s \in circuit.influences[i] THEN {g} ELSE {})
              \cup (IF ~\E i \in Inputs(circuit, g) : Innermost(i) = s THEN {}
                    ELSE IF OnlyGatesBelow(g, s + 1) THEN {g}
                    ELSE {i \in GatesOf(g) : Innermost(i) = s})
         /\ AnalyzeGate(circuit, s, g).t =
              IF Innermost(g) < s THEN {}
              ELSE (IF \E i \in VarsOf(g) : Innermost(i) < s THEN {g} ELSE {})
              \cup (IF ~\E i \in Inputs(circuit, g) : Innermost(i) < s THEN {}
                    ELSE IF OnlyGatesBelow(g, s) THEN {g}
                    ELSE {i \in GatesOf(g) : Innermost(i) < s})
  <1>1. circuit.depth[s] = s /\ circuit.max_depth[s] = 0
    BY PrenexAnnotations
  <1>2. \A i : NodeIsRelevant(circuit, s, i) /\ CurrentMax(circuit, s, i) = Innermost(i)
    BY <1>1 DEF NodeIsRelevant, CurrentMax, Innermost, Prenex
  <1>3. RelevantInputs(circuit, s, g) = Inputs(circuit, g)
    BY <1>2 DEF RelevantInputs
  <1>4. \A i \in Inputs(circuit, g) : Innermost(i) \in Nat
    BY InnermostScope, NodeNumbers, Tree
  <1>5. s \in Nat
    BY Tree
  <1> DEFINE in      == RelevantInputs(circuit, s, g)
             cm(i)   == CurrentMax(circuit, s, i)
             inVars  == {i \in in : IsVar(circuit, i)}
             gates   == {i \in Inputs(circuit, g) : IsGate(circuit, i)}
             current == \A i \in in \ inVars : IsGate(circuit, i) /\ cm(i) <= s
             outer   == \A i \in in \ inVars : IsGate(circuit, i) /\ cm(i) < s
             b == IF cm(g) <= s THEN {}
                  ELSE (IF \E i \in inVars : s \in circuit.influences[i] THEN {g} ELSE {})
                  \cup (CASE ~\E i \in in : cm(i) = s -> {}
                          [] (\E i \in in : cm(i) = s) /\ current -> {g}
                          [] OTHER -> {i \in gates : cm(i) = s})
             t == IF cm(g) < s THEN {}
                  ELSE (IF \E i \in inVars : Max(circuit.influences[i]) < s THEN {g} ELSE {})
                  \cup (CASE ~\E i \in in : cm(i) < s -> {}
                          [] (\E i \in in : cm(i) < s) /\ outer -> {g}
                          [] OTHER -> {i \in gates : cm(i) < s})
  <1>6. AnalyzeGate(circuit, s, g).b = b /\ AnalyzeGate(circuit, s, g).t = t
    BY <1>1 DEF AnalyzeGate
  <1>7. in = Inputs(circuit, g) /\ inVars = VarsOf(g) /\ gates = GatesOf(g)
    BY <1>3 DEF VarsOf, GatesOf
  <1>8. \A i : cm(i) = Innermost(i) /\ Max(circuit.influences[i]) = Innermost(i)
    BY <1>2 DEF Innermost
  <1>9. current <=> OnlyGatesBelow(g, s + 1)
    BY <1>4, <1>5, <1>7, <1>8 DEF OnlyGatesBelow
  <1>10. outer <=> OnlyGatesBelow(g, s)
    BY <1>7, <1>8 DEF OnlyGatesBelow
  <1> HIDE DEF in, cm, inVars, gates, current, outer
  <1>11. b = IF Innermost(g) <= s THEN {}
             ELSE (IF \E i \in VarsOf(g) : s \in circuit.influences[i] THEN {g} ELSE {})
             \cup (IF ~\E i \in Inputs(circuit, g) : Innermost(i) = s THEN {}
                   ELSE IF OnlyGatesBelow(g, s + 1) THEN {g}
                   ELSE {i \in GatesOf(g) : Innermost(i) = s})
    BY <1>7, <1>8, <1>9
  <1>12. t = IF Innermost(g) < s THEN {}
             ELSE (IF \E i \in VarsOf(g) : Innermost(i) < s THEN {g} ELSE {})
             \cup (IF ~\E i \in Inputs(circuit, g) : Innermost(i) < s THEN {}
                   ELSE IF OnlyGatesBelow(g, s) THEN {g}
                   ELSE {i \in GatesOf(g) : Innermost(i) < s})
    BY <1>7, <1>8, <1>10
  <1> QED
    BY <1>6, <1>11, <1>12

\* What scope s promises of a gate, the next scope takes up from the same gate.
LEMMA PromisesAreTakenUp ==
  ASSUME Annotated, Shape(circuit), Prenex, NEW s \in Scopes(circuit),
         NEW g \in Nodes(circuit), NEW b \in AnalyzeGate(circuit, s, g).b
  PROVE  s + 1 \in Scopes(circuit) /\ b \in AnalyzeGate(circuit, s + 1, g).t
  <1>1. Scopes(circuit) = 1 .. Len(circuit.scope) /\ Len(circuit.scope) \in Nat
    BY Tree
  <1>2. \A i \in Nodes(circuit) : Innermost(i) \in Scopes(circuit)
    BY InnermostScope
  <1>3. Inputs(circuit, g) \subseteq Nodes(circuit)
    BY NodeNumbers
  <1> DEFINE promised == AnalyzeGate(circuit, s, g).b
             some     == \E i \in Inputs(circuit, g) : Innermost(i) = s
             own      == \E i \in VarsOf(g) : s \in circuit.influences[i]
  <1>4. promised = IF Innermost(g) <= s THEN {}
                   ELSE (IF own THEN {g} ELSE {})
                   \cup (IF ~some THEN {} ELSE IF OnlyGatesBelow(g, s + 1) THEN {g}
                         ELSE {i \in GatesOf(g) : Innermost(i) = s})
    BY PrenexAnalysis
  <1>5. b \in promised
    OBVIOUS
  <1> HIDE DEF promised, some, own
  <1>6. /\ ~(Innermost(g) <= s)
        /\ \/ b = g /\ own
           \/ some /\ b = g /\ OnlyGatesBelow(g, s + 1)
           \/ some /\ ~OnlyGatesBelow(g, s + 1) /\ b \in GatesOf(g) /\ Innermost(b) = s
    BY <1>4, <1>5
  <1>7. Innermost(g) > s /\ Innermost(g) \in Scopes(circuit) /\ s \in Nat
    BY <1>1, <1>2, <1>6
  <1>8. s + 1 \in Scopes(circuit) /\ ~(Innermost(g) < s + 1)
    BY <1>1, <1>7
  <1>9. \A i \in VarsOf(g) : s \in circuit.influences[i] => Innermost(i) = s
    <2> TAKE i \in VarsOf(g)
    <2>1. i \in Nodes(circuit) /\ IsVar(circuit, i)
      BY <1>3 DEF VarsOf
    <2>2. circuit.influences[i] = {circuit.node[i].scope}
      BY <2>1, PrenexAnnotations
    <2> QED
      BY <2>1, <2>2, InnermostScope
  <1>10. \A i \in Inputs(circuit, g) : Innermost(i) = s => Innermost(i) < s + 1
    BY <1>7
  <1>11. VarsOf(g) \subseteq Inputs(circuit, g) /\ GatesOf(g) \subseteq Inputs(circuit, g)
    BY DEF VarsOf, GatesOf
  <1> DEFINE taken == AnalyzeGate(circuit, s + 1, g).t
  <1>12. taken = (IF \E i \in VarsOf(g) : Innermost(i) < s + 1 THEN {g} ELSE {})
                \cup (IF ~\E i \in Inputs(circuit, g) : Innermost(i) < s + 1 THEN {}
                      ELSE IF OnlyGatesBelow(g, s + 1) THEN {g}
                      ELSE {i \in GatesOf(g) : Innermost(i) < s + 1})
    BY <1>8, PrenexAnalysis
  <1> HIDE DEF taken
  <1>13. \/ b = g /\ \E i \in VarsOf(g) : s \in circuit.influences[i]
         \/ /\ \E i \in Inputs(circuit, g) : Innermost(i) = s
            /\ \/ b = g /\ OnlyGatesBelow(g, s + 1)
               \/ ~OnlyGatesBelow(g, s + 1) /\ b \in GatesOf(g) /\ Innermost(b) = s
    BY <1>6 DEF some, own
  <1>14. CASE b = g /\ \E i \in VarsOf(g) : s \in circuit.influences[i]
    BY <1>8, <1>9, <1>10, <1>11, <1>12, <1>14 DEF taken
  <1>15. CASE /\ \E i \in Inputs(circuit, g) : Innermost(i) = s
              /\ b = g /\ OnlyGatesBelow(g, s + 1)
    BY <1>8, <1>10, <1>12, <1>15 DEF taken
  <1>16. CASE /\ \E i \in Inputs(circuit, g) : Innermost(i) = s
              /\ ~OnlyGatesBelow(g, s + 1) /\ b \in GatesOf(g) /\ Innermost(b) = s
    BY <1>8, <1>10, <1>11, <1>12, <1>16 DEF taken
  <1> QED
    BY <1>13, <1>14, <1>15, <1>16

\* So every b-literal of a prenex circuit has its t-literal in the child scope.
LEMMA PrenexInterfaces ==
  ASSUME Annotated, Static, Prenex
  PROVE  InterfacesMatch
  <1>1. Shape(circuit)
    BY DEF Static
  <1> SUFFICES ASSUME NEW s \in Scopes(circuit), NEW b \in b_lits[s]
               PROVE  \E t \in Children(circuit, s) : TLit(circuit, b) \in t_lits[t]
    BY DEF InterfacesMatch
  <1>2. b_lits[s] = BLits(circuit, s) /\ \A i \in Nodes(circuit) : ~IsScopeNode(circuit, i)
    BY <1>1, PrenexChain DEF Static
  <1>3. PICK g \in RelevantGates(circuit, s) : b \in AnalyzeGate(circuit, s, g).b
    BY <1>2 DEF BLits, RelevantScopeNodes, RelevantNodes
  <1>4. g \in Nodes(circuit) /\ IsGate(circuit, g)
    BY DEF RelevantGates, RelevantNodes
  <1> PICK u : u = s + 1
    OBVIOUS
  <1>5. u \in Scopes(circuit) /\ b \in AnalyzeGate(circuit, u, g).t
    BY <1>1, <1>3, <1>4, PromisesAreTakenUp
  <1>6. g \in RelevantGates(circuit, u)
    BY <1>4, <1>5 DEF RelevantGates, RelevantNodes, NodeIsRelevant, Prenex
  <1>7. TLit(circuit, b) \in TLits(circuit, u)
    BY <1>5, <1>6 DEF TLits
  <1>8. t_lits[u] = TLits(circuit, u)
    BY <1>5 DEF Static
  <1>9. u # TopLevel /\ Prev(u) = s
    <2>1. s \in Nat \ {0} /\ TopLevel = 1
      BY <1>1, Tree DEF TopLevel
    <2>2. u \in Scopes(circuit) \ {TopLevel}
      BY <1>5, <2>1
    <2> QED
      BY <1>1, <2>1, <2>2, PrenexChain, ChainTree
  <1>10. u \in Children(circuit, s)
    BY <1>1, <1>5, <1>9, TreeChildren
  <1> QED
    BY <1>7, <1>8, <1>10

-----------------------------------------------------------------------------
(***************************************************************************)
(* What the encodings of a prenex circuit look at.                         *)
(***************************************************************************)
\* A gate depends on all that its inputs depend on.
LEMMA InputInfluences ==
  ASSUME Annotated, Shape(circuit), NEW i \in Nodes(circuit), NEW j \in Inputs(circuit, i)
  PROVE  circuit.influences[j] \subseteq circuit.influences[i]
  <1>1. PICK c \in Circuits : circuit = Annotate(c)
    BY DEF Annotated
  <1>2. circuit.node = c.node /\ circuit.influences = Influences(c)
    BY <1>1 DEF Annotate
  <1>3. Shape(c)
    BY CircuitsWellFormed, WellFormedShape
  <1>4. i \in Nodes(c) /\ j \in Inputs(c, i)
    BY <1>2 DEF Nodes, MaxNum, Inputs
  <1>5. Influences(c)[i] = InfluenceFrom(c, i, Influences(c))
    BY <1>3, <1>4, InfluencesOfInputs
  <1>6. Influences(c)[j] \subseteq UNION {Influences(c)[k] : k \in Inputs(c, i)}
    BY <1>4
  <1>7. Influences(c)[j] \subseteq Influences(c)[i]
    BY <1>5, <1>6 DEF InfluenceFrom
  <1> QED
    BY <1>2, <1>7

\* So the output depends on all that any node depends on.
LEMMA OutputInfluences ==
  ASSUME Annotated, Shape(circuit), NEW i \in Nodes(circuit)
  PROVE  circuit.influences[i] \subseteq circuit.influences[circuit.output]
  <1>1. PICK c \in Circuits : circuit = Annotate(c)
    BY DEF Annotated
  <1>2. circuit.node = c.node /\ circuit.output = c.output
    BY <1>1 DEF Annotate
  <1>3. Nodes(circuit) = Nodes(c) /\ \A k : Inputs(circuit, k) = Inputs(c, k)
    BY <1>2 DEF Nodes, MaxNum, Inputs
  <1>4. PICK below : /\ below[c.output] = Nodes(c)
                     /\ \A k \in Nodes(c) :
                          below[k] = {k} \cup UNION {below[j] : j \in Inputs(c, k)}
    BY CircuitsWellFormed, AllBelowOutput
  <1> DEFINE less(k) == \A j \in below[k] : circuit.influences[j] \subseteq circuit.influences[k]
             bad == {k \in Nodes(circuit) : ~less(k)}
  <1>5. bad = {}
    <2> SUFFICES ASSUME bad # {}
                 PROVE  FALSE
      OBVIOUS
    <2>1. bad \in SUBSET Nat
      BY NodeNumbers
    <2>2. PICK k \in bad : \A j \in bad : k <= j
      BY <2>1, LeastNumber
    <2>3. k \in Nodes(circuit) /\ ~less(k)
      BY <2>2
    <2>4. ASSUME NEW j \in Inputs(circuit, k)
          PROVE  less(j) /\ circuit.influences[j] \subseteq circuit.influences[k]
      <3>1. j \in Nodes(circuit) /\ j \in 1 .. k - 1 /\ k \in Nat
        BY <2>1, <2>3, NodeNumbers DEF Shape, NodesInOrder, Inputs
      <3>2. less(j)
        <4> HIDE DEF less
        <4> QED
          BY <2>2, <3>1
      <3> QED
        BY <2>3, <3>2, InputInfluences
    <2>5. below[k] = {k} \cup UNION {below[j] : j \in Inputs(circuit, k)}
      BY <1>3, <1>4, <2>3
    <2>6. less(k)
      BY <2>4, <2>5
    <2> QED
      BY <2>3, <2>6
  <1>6. circuit.output \in Nodes(circuit) /\ below[circuit.output] = Nodes(circuit)
    BY <1>2, <1>3, <1>4 DEF Shape, CircuitType
  <1>7. less(circuit.output)
    BY <1>5, <1>6
  <1> QED
    BY <1>6, <1>7

\* Every node is relevant and nothing is projected.
LEMMA PrenexEncoding ==
  ASSUME Annotated, Shape(circuit), Prenex, NEW s \in Scopes(circuit)
  PROVE  /\ circuit.depth[s] = s /\ s \in Nat /\ DepthsInt(circuit, s)
         /\ \A i \in Nodes(circuit) :
              /\ NodeIsRelevant(circuit, s, i)
              /\ CurrentMax(circuit, s, i) = Innermost(i) /\ Innermost(i) \in Scopes(circuit)
              /\ OnlyInner(circuit, s, i) => \A t \in circuit.influences[i] : t > s
              /\ s \in circuit.influences[i] => s <= Innermost(i)
              /\ OwnVariable(circuit, s, i) => i \in ScopeVars(circuit, s)
  <1>1. circuit.depth[s] = s /\ circuit.max_depth[s] = 0
    BY PrenexAnnotations
  <1>2. Scopes(circuit) = 1 .. Len(circuit.scope) /\ Len(circuit.scope) \in Nat
    BY Tree
  <1>3. ASSUME NEW i \in Nodes(circuit)
        PROVE  /\ NodeIsRelevant(circuit, s, i)
               /\ CurrentMax(circuit, s, i) = Innermost(i) /\ Innermost(i) \in Scopes(circuit)
               /\ OnlyInner(circuit, s, i) => \A t \in circuit.influences[i] : t > s
               /\ s \in circuit.influences[i] => s <= Innermost(i)
               /\ OwnVariable(circuit, s, i) => i \in ScopeVars(circuit, s)
    <2>1. circuit.influences[i] \subseteq Scopes(circuit) /\ circuit.influences[i] # {}
      BY PrenexAnnotations
    <2>2. NodeIsRelevant(circuit, s, i) /\ CurrentMax(circuit, s, i) = Innermost(i)
      BY <1>1 DEF NodeIsRelevant, CurrentMax, Innermost, Prenex
    <2>3. Innermost(i) \in Scopes(circuit)
      BY InnermostScope
    <2>4. circuit.influences[i] \in SUBSET Nat
      BY <1>2, <2>1
    <2>5. OnlyInner(circuit, s, i) => \A t \in circuit.influences[i] : t > s
      <3>1. Min(circuit.influences[i]) \in Nat /\ s \in Nat
        BY <1>2, <2>1, <2>4, MinIsLeast
      <3>2. \A t \in circuit.influences[i] : Min(circuit.influences[i]) <= t /\ t \in Nat
        BY <2>1, <2>4, MinIsLeast
      <3> QED
        BY <1>1, <3>1, <3>2 DEF OnlyInner
    <2>6. s \in circuit.influences[i] => s <= Innermost(i)
      BY <1>2, <2>1, MaxIsGreatest DEF Innermost
    <2>7. OwnVariable(circuit, s, i) => i \in ScopeVars(circuit, s)
      BY <1>1, PrenexAnnotations DEF OwnVariable, ScopeVars
    <2> QED
      BY <2>2, <2>3, <2>5, <2>6, <2>7
  <1>4. s \in Nat /\ \A i \in Nodes(circuit) : CurrentMax(circuit, s, i) \in Int
    BY <1>2, <1>3
  <1> QED
    BY <1>1, <1>3, <1>4 DEF DepthsInt

\* A b-literal stands for a gate that depends on the scope, so both instances encode it.
LEMMA PromisedGate ==
  ASSUME Annotated, Static, Prenex, NEW s \in Scopes(circuit), NEW b \in b_lits[s]
  PROVE  HasClauses(circuit, s, b)
  <1>1. Shape(circuit)
    BY DEF Static
  <1>2. b_lits[s] = BLits(circuit, s) /\ \A i \in Nodes(circuit) : ~IsScopeNode(circuit, i)
    BY <1>1, PrenexChain DEF Static
  <1>3. PICK g \in RelevantGates(circuit, s) : b \in AnalyzeGate(circuit, s, g).b
    BY <1>2 DEF BLits, RelevantScopeNodes, RelevantNodes
  <1>4. g \in Nodes(circuit) /\ IsGate(circuit, g)
    BY <1>3 DEF RelevantGates, RelevantNodes
  <1> DEFINE some == \E i \in Inputs(circuit, g) : Innermost(i) = s
             own  == \E i \in VarsOf(g) : s \in circuit.influences[i]
  <1>5. AnalyzeGate(circuit, s, g).b =
          IF Innermost(g) <= s THEN {}
          ELSE (IF own THEN {g} ELSE {})
          \cup (IF ~some THEN {} ELSE IF OnlyGatesBelow(g, s + 1) THEN {g}
                ELSE {i \in GatesOf(g) : Innermost(i) = s})
    BY <1>1, <1>4, PrenexAnalysis
  <1> HIDE DEF some, own
  <1>6. \/ b = g /\ (own \/ some)
        \/ b \in GatesOf(g) /\ Innermost(b) = s
    BY <1>3, <1>5
  <1>7. /\ \A i \in Inputs(circuit, g) : i \in Nodes(circuit)
        /\ VarsOf(g) \subseteq Inputs(circuit, g) /\ GatesOf(g) \subseteq Inputs(circuit, g)
    BY <1>1, <1>4, NodeNumbers DEF VarsOf, GatesOf
  <1>8. b \in Nodes(circuit) /\ IsGate(circuit, b) /\ s \in circuit.influences[b]
    <2>1. CASE b = g /\ own
      <3>1. PICK i \in VarsOf(g) : s \in circuit.influences[i]
        BY <2>1 DEF own
      <3> QED
        BY <1>1, <1>4, <1>7, <2>1, <3>1, InputInfluences
    <2>2. CASE b = g /\ some
      <3>1. PICK i \in Inputs(circuit, g) : Innermost(i) = s
        BY <2>2 DEF some
      <3>2. s \in circuit.influences[i]
        BY <1>1, <1>7, <3>1, InnermostScope
      <3> QED
        BY <1>1, <1>4, <2>2, <3>1, <3>2, InputInfluences
    <2>3. CASE b \in GatesOf(g) /\ Innermost(b) = s
      BY <1>1, <1>7, <2>3, InnermostScope DEF GatesOf
    <2> QED
      BY <1>6, <2>1, <2>2, <2>3
  <1>9. /\ NodeIsRelevant(circuit, s, b) /\ CurrentMax(circuit, s, b) = Innermost(b)
        /\ Innermost(b) \in Scopes(circuit) /\ s <= Innermost(b) /\ circuit.depth[s] = s
        /\ OnlyInner(circuit, s, b) => s > s
        /\ s \in Nat /\ Scopes(circuit) \subseteq Nat
    BY <1>1, <1>8, PrenexEncoding, Tree
  <1> QED
    BY <1>8, <1>9 DEF HasClauses, RelevantGates, RelevantNodes

\* What a scope takes up of a gate, the scope around it promises of the same gate, or takes
\* up itself from further out.
LEMMA TakenWasPromised ==
  ASSUME Annotated, Shape(circuit), Prenex, NEW s \in Scopes(circuit), s + 1 \in Scopes(circuit),
         NEW g \in Nodes(circuit), NEW t \in AnalyzeGate(circuit, s + 1, g).t
  PROVE  t \in AnalyzeGate(circuit, s, g).b \cup AnalyzeGate(circuit, s, g).t
  <1>1. Scopes(circuit) = 1 .. Len(circuit.scope) /\ Len(circuit.scope) \in Nat
    BY Tree
  <1>2. s \in Nat /\ \A i \in Nodes(circuit) : Innermost(i) \in Nat
    BY <1>1, InnermostScope
  <1>3. /\ \A i \in Inputs(circuit, g) : i \in Nodes(circuit) /\ Innermost(i) \in Nat
        /\ VarsOf(g) \subseteq Inputs(circuit, g) /\ GatesOf(g) \subseteq Inputs(circuit, g)
    BY <1>2, NodeNumbers DEF VarsOf, GatesOf
  <1> DEFINE b == AnalyzeGate(circuit, s, g).b
             outer == AnalyzeGate(circuit, s, g).t
             taken == AnalyzeGate(circuit, s + 1, g).t
  <1>4. b = IF Innermost(g) <= s THEN {}
            ELSE (IF \E i \in VarsOf(g) : s \in circuit.influences[i] THEN {g} ELSE {})
            \cup (IF ~\E i \in Inputs(circuit, g) : Innermost(i) = s THEN {}
                  ELSE IF OnlyGatesBelow(g, s + 1) THEN {g}
                  ELSE {i \in GatesOf(g) : Innermost(i) = s})
    BY PrenexAnalysis
  <1>5. outer = IF Innermost(g) < s THEN {}
                ELSE (IF \E i \in VarsOf(g) : Innermost(i) < s THEN {g} ELSE {})
                \cup (IF ~\E i \in Inputs(circuit, g) : Innermost(i) < s THEN {}
                      ELSE IF OnlyGatesBelow(g, s) THEN {g}
                      ELSE {i \in GatesOf(g) : Innermost(i) < s})
    BY PrenexAnalysis
  <1>6. taken = IF Innermost(g) < s + 1 THEN {}
                ELSE (IF \E i \in VarsOf(g) : Innermost(i) < s + 1 THEN {g} ELSE {})
                \cup (IF ~\E i \in Inputs(circuit, g) : Innermost(i) < s + 1 THEN {}
                      ELSE IF OnlyGatesBelow(g, s + 1) THEN {g}
                      ELSE {i \in GatesOf(g) : Innermost(i) < s + 1})
    BY PrenexAnalysis
  <1>7. t \in taken
    OBVIOUS
  <1> HIDE DEF b, outer, taken
  <1>8. ~(Innermost(g) <= s) /\ ~(Innermost(g) < s)
    BY <1>2, <1>6, <1>7
  <1>9. \A i \in Inputs(circuit, g) : Innermost(i) < s + 1 <=> Innermost(i) = s \/ Innermost(i) < s
    BY <1>2, <1>3
  <1>10. \A i \in VarsOf(g) : Innermost(i) = s => s \in circuit.influences[i]
    BY <1>3, InnermostScope
  <1>11. OnlyGatesBelow(g, s) => OnlyGatesBelow(g, s + 1)
    BY <1>9 DEF OnlyGatesBelow
  <1>12. CASE t = g /\ \E i \in VarsOf(g) : Innermost(i) < s + 1
    BY <1>3, <1>4, <1>5, <1>8, <1>9, <1>10, <1>12 DEF b, outer
  <1>13. CASE /\ t = g /\ OnlyGatesBelow(g, s + 1)
              /\ \E i \in Inputs(circuit, g) : Innermost(i) < s + 1
    <2>1. CASE \E i \in Inputs(circuit, g) : Innermost(i) = s
      BY <1>4, <1>8, <1>13, <2>1 DEF b
    <2>2. CASE ~\E i \in Inputs(circuit, g) : Innermost(i) = s
      <3>1. OnlyGatesBelow(g, s) /\ \E i \in Inputs(circuit, g) : Innermost(i) < s
        BY <1>9, <1>13, <2>2 DEF OnlyGatesBelow
      <3> QED
        BY <1>5, <1>8, <1>13, <3>1 DEF outer
    <2> QED
      BY <2>1, <2>2
  <1>14. CASE /\ ~OnlyGatesBelow(g, s + 1) /\ t \in GatesOf(g) /\ Innermost(t) < s + 1
              /\ \E i \in Inputs(circuit, g) : Innermost(i) < s + 1
    <2>1. CASE Innermost(t) = s
      BY <1>3, <1>4, <1>8, <1>14, <2>1 DEF b
    <2>2. CASE Innermost(t) < s
      BY <1>3, <1>5, <1>8, <1>11, <1>14, <2>2 DEF outer
    <2> QED
      BY <1>3, <1>9, <1>14, <2>1, <2>2
  <1> QED
    BY <1>6, <1>7, <1>12, <1>13, <1>14

\* So a child's t-literals are a scope's b-literals and its own t-literals.
LEMMA TLitsFromOutside ==
  ASSUME Annotated, Static, Prenex, NEW s \in Scopes(circuit), NEW c \in Children(circuit, s),
         NEW t \in t_lits[c], TLitToVarId(circuit, t) \notin b_lits[s]
  PROVE  t \in t_lits[s]
  <1>1. Shape(circuit) /\ \A i \in Nodes(circuit) : ~IsScopeNode(circuit, i)
    BY PrenexChain DEF Static
  <1>2. c \in Scopes(circuit) \ {TopLevel} /\ Prev(c) = s
    BY <1>1, TreeChildren
  <1>3. c = s + 1 /\ c \in Scopes(circuit)
    <2>1. Prev(c) = c - 1 /\ c \in Nat
      BY <1>1, <1>2, PrenexChain, ChainTree, Tree
    <2> QED
      BY <1>2, <2>1
  <1>4. /\ t_lits[c] = TLits(circuit, c) /\ t_lits[s] = TLits(circuit, s)
        /\ b_lits[s] = BLits(circuit, s)
    BY <1>3 DEF Static
  <1>5. PICK g \in RelevantGates(circuit, c) :
          \E i \in AnalyzeGate(circuit, c, g).t : t = TLit(circuit, i)
    BY <1>1, <1>4 DEF TLits, RelevantScopeNodes, RelevantNodes
  <1>6. g \in Nodes(circuit) /\ g \in RelevantGates(circuit, s)
    BY <1>5 DEF RelevantGates, RelevantNodes, NodeIsRelevant, Prenex
  <1>7. PICK i \in AnalyzeGate(circuit, c, g).t : t = TLit(circuit, i)
    BY <1>5
  <1>8. i \in AnalyzeGate(circuit, s, g).b \cup AnalyzeGate(circuit, s, g).t
    BY <1>1, <1>3, <1>6, <1>7, TakenWasPromised
  <1>9. TLitToVarId(circuit, t) = i
    <2>1. i \in Nodes(circuit)
      BY <1>1, <1>6, <1>7, AnalyzedNodes
    <2> QED
      BY <1>7, <2>1, Interfaces
  <1>10. i \notin AnalyzeGate(circuit, s, g).b
    BY <1>4, <1>6, <1>9 DEF BLits
  <1> QED
    BY <1>4, <1>6, <1>7, <1>8, <1>10 DEF TLits

-----------------------------------------------------------------------------
(***************************************************************************)
(* Dual instances.  A scope keeps the encodings that it started with; its  *)
(* proposal satisfies the one, together with the entry, and then the dual  *)
(* one cannot be satisfied under the same variables and opposite entry.    *)
(***************************************************************************)
Encoding(s) == BuildSatInstance(circuit, s, QType(s), b_lits[s], t_lits[s])
DualEncoding(s) == BuildSatInstance(circuit, s, Dual(QType(s)), b_lits[s], t_lits[s])

\* The proposal satisfies the encoding under the scope's entry, and says something of every
\* variable of the scope and every b-literal.
Offers(s, m) ==
  /\ \E a : m \cup AssumedT(s) \subseteq a /\ Meets(a, Encoding(s))
  /\ \A i \in ScopeVars(circuit, s) \cup b_lits[s] : i \in m \/ -i \in m

\* What the children needed to agree is on in the proposal or in the entry.
Reasons(s) ==
  \A t \in local_unsat_core[s] :
    IF TLitToVarId(circuit, t) \in b_lits[s] THEN TLitToVarId(circuit, t) \in model[s]
    ELSE t \in entry[s]

\* Instances have finitely many clauses made of the circuit's literals, and keep what they
\* started with.
Encodings ==
  /\ DOMAIN negation = Scopes(circuit)
  /\ \A s \in Scopes(circuit) :
       /\ Encoding(s) \subseteq sat[s] /\ DualEncoding(s) \subseteq negation[s]
       /\ \A cl \in negation[s] : cl \subseteq ClauseLits(circuit)

\* What the SAT solver answers is such a proposal.
LEMMA ModelOffers ==
  ASSUME IInv, Bounded, NEW s \in Scopes(circuit), Encoding(s) \subseteq sat[s],
         NEW mm \in Models(s)
  PROVE  Offers(s, ObservedLits(s, mm))
  <1> DEFINE named == ScopeVars(circuit, s) \cup b_lits[s]
             free  == named \ Atoms(AssumedT(s))
             m     == ObservedLits(s, mm)
  <1>1. PICK pos \in SUBSET free :
          mm = AssumedT(s) \cup {IF a \in pos THEN a ELSE -a : a \in free}
    BY DEF Models, SatModels
  <1>2. Satisfiable(sat[s], mm)
    BY DEF Models, SatModels
  <1>3. /\ entry[s] \subseteq t_lits[s] /\ t_lits[s] \subseteq Nat \ {0}
        /\ named \subseteq Nodes(circuit) /\ Nodes(circuit) \subseteq Nat \ {0}
        /\ \A t \in t_lits[s] : t \notin Nodes(circuit)
    BY Types, Interfaces DEF IInv, ScopeVars
  <1> HIDE DEF named
  <1>4. \A l \in AssumedT(s) : l \in Int /\ Abs(l) \in t_lits[s] /\ -l \notin AssumedT(s)
    BY <1>3 DEF AssumedT, Opposite, Abs
  <1>5. free = named
    BY <1>3, <1>4 DEF Atoms
  <1>6. \A l \in mm : l \in Int /\ -l \notin mm
    <2>1. \A l \in AssumedT(s) : l \in Int /\ l # 0 /\ -l \notin AssumedT(s) /\ Abs(l) \notin named
      BY <1>3, <1>4 DEF Abs
    <2> HIDE DEF free
    <2> QED
      BY <1>1, <1>3, <1>5, <2>1 DEF Abs
  <1>7. NoOpposites(mm)
    BY <1>6 DEF NoOpposites, Opposite
  <1>8. PICK a : mm \subseteq a /\ Meets(a, sat[s])
    BY <1>2, <1>7, InstanceIsFinite, SatisfiableIsSat
  <1>9. m \cup AssumedT(s) \subseteq a /\ Meets(a, Encoding(s))
    BY <1>1, <1>8 DEF ObservedLits, Meets
  <1>10. \A i \in named : i \in m \/ -i \in m
    <2> TAKE i \in named
    <2>1. i \in mm \/ -i \in mm
      BY <1>1, <1>5
    <2>2. Abs(i) = i /\ Abs(-i) = i
      BY <1>3 DEF Abs
    <2> QED
      BY <2>1, <2>2 DEF ObservedLits, named
  <1> QED
    BY <1>9, <1>10 DEF Offers, named

\* What is assumed in the dual instance does not contradict itself, and whatever satisfies
\* the dual encoding with it is dual to the proposal.
LEMMA DualAssumptions ==
  ASSUME IInv, Annotated, Prenex, NEW s \in Scopes(circuit), NEW m,
         NEW a, m \cup AssumedT(s) \subseteq a, NoOpposites(a),
         \A i \in ScopeVars(circuit, s) : i \in m \/ -i \in m
  PROVE  /\ NoOpposites(AssignedLits(s, m) \cup AssumedTDual(s))
         /\ \A n : NoOpposites(n) /\ AssignedLits(s, m) \cup AssumedTDual(s) \subseteq n =>
                     Dualised(circuit, s, t_lits[s], a, n)
  <1>1. /\ entry[s] \subseteq t_lits[s] /\ t_lits[s] \subseteq Nat \ {0}
        /\ ScopeVars(circuit, s) \subseteq Nodes(circuit) /\ Nodes(circuit) \subseteq Nat \ {0}
        /\ \A t \in t_lits[s] : t \notin Nodes(circuit)
    BY Types, Interfaces DEF IInv, ScopeVars
  <1>2. \A l \in a : l \in Int /\ -l \notin a
    BY DEF NoOpposites, Opposite
  <1>3. \A l \in AssumedT(s) : l \in Int /\ Abs(l) \in t_lits[s] /\ l \in a
    BY <1>1 DEF AssumedT, Opposite, Abs
  <1>4. \A l \in AssumedTDual(s) : l \in Int /\ Abs(l) \in t_lits[s] /\ -l \in a
    <2> TAKE l \in AssumedTDual(s)
    <2>1. PICK k \in AssumedT(s) : l = -k
      BY DEF AssumedTDual, Opposite
    <2> QED
      BY <1>3, <2>1 DEF Abs
  <1>5. \A l \in AssignedLits(s, m) : l \in a /\ l \in Int /\ Abs(l) \in Nodes(circuit)
    BY <1>1, <1>2 DEF AssignedLits
  <1>6. NoOpposites(AssignedLits(s, m) \cup AssumedTDual(s))
    <2> DEFINE all == AssignedLits(s, m) \cup AssumedTDual(s)
    <2>1. all \subseteq Int
      BY <1>4, <1>5
    <2>2. ASSUME NEW x \in all, -x \in all
          PROVE  FALSE
      <3>1. x \in Int /\ -(-x) = x /\ Abs(-x) = Abs(x)
        BY <2>1 DEF Abs
      <3>2. CASE x \in AssignedLits(s, m) /\ -x \in AssignedLits(s, m)
        BY <1>2, <1>5, <3>2
      <3>3. CASE x \in AssumedTDual(s) /\ -x \in AssumedTDual(s)
        BY <1>2, <1>4, <3>1, <3>3
      <3>4. CASE x \in AssignedLits(s, m) /\ -x \in AssumedTDual(s)
        BY <1>1, <1>4, <1>5, <3>1, <3>4
      <3>5. CASE x \in AssumedTDual(s) /\ -x \in AssignedLits(s, m)
        BY <1>1, <1>4, <1>5, <3>1, <3>5
      <3> QED
        BY <2>2, <3>2, <3>3, <3>4, <3>5
    <2> HIDE DEF all
    <2> QED
      BY <2>1, <2>2 DEF NoOpposites, Opposite, all
  <1>7. ASSUME NEW n, NoOpposites(n), AssignedLits(s, m) \cup AssumedTDual(s) \subseteq n
        PROVE  Dualised(circuit, s, t_lits[s], a, n)
    <2>1. \A l \in n : l \in Int /\ -l \notin n
      BY <1>7 DEF NoOpposites, Opposite
    <2>2. ASSUME NEW i \in Nodes(circuit), OwnVariable(circuit, s, i)
          PROVE  ~(i \in a /\ -i \in n) /\ ~(-i \in a /\ i \in n)
      <3>1. i \in ScopeVars(circuit, s) /\ Abs(i) = i /\ Abs(-i) = i
        BY <1>1, <2>2, PrenexEncoding, Types DEF Abs
      <3>2. CASE i \in m
        <4>1. i \in a /\ i \in n
          BY <1>7, <3>1, <3>2 DEF AssignedLits
        <4> QED
          BY <1>2, <2>1, <4>1
      <3>3. CASE -i \in m
        <4>1. -i \in a /\ -i \in n /\ -(-i) = i
          BY <1>1, <1>7, <3>1, <3>3 DEF AssignedLits
        <4> QED
          BY <1>2, <2>1, <4>1
      <3> QED
        BY <3>1, <3>2, <3>3
    <2>3. ASSUME NEW t \in t_lits[s], t \in a
          PROVE  t \notin n
      <3>1. t \in entry[s]
        <4> SUFFICES ASSUME t \notin entry[s]
                     PROVE  FALSE
          OBVIOUS
        <4>1. -t \in AssumedT(s)
          BY DEF AssumedT, Opposite
        <4> QED
          BY <1>2, <1>3, <2>3, <4>1
      <3>2. -t \in AssumedTDual(s)
        BY <3>1 DEF AssumedTDual, AssumedT, Opposite
      <3> QED
        BY <1>7, <2>1, <3>2
    <2> QED
      BY <2>2, <2>3 DEF Dualised
  <1> QED
    BY <1>6, <1>7

\* The quantifiers, the output gate and, below the top level, the variables.
LEMMA PrenexScopes ==
  ASSUME Annotated, Shape(circuit), Prenex
  PROVE  /\ \A s \in Scopes(circuit) : QType(s) \in {"exists", "forall"}
         /\ \A s \in Scopes(circuit) \ {TopLevel} : ScopeVars(circuit, s) # {}
         /\ circuit.output \in Nodes(circuit) /\ IsGate(circuit, circuit.output)
  <1>1. PICK c \in Circuits : circuit = Annotate(c)
    BY DEF Annotated
  <1>2. circuit.node = c.node /\ circuit.scope = c.scope /\ circuit.output = c.output
    BY <1>1 DEF Annotate
  <1>3. WellFormed(c)
    BY CircuitsWellFormed
  <1>4. /\ IsGate(c, c.output) /\ CircuitType(c)
        /\ \A s \in Scopes(c) \ {TopLevel} : ScopeVars(c, s) # {}
    BY <1>3 DEF WellFormed
  <1>5. IsGate(circuit, circuit.output) /\ circuit.output \in Nodes(circuit)
    BY <1>2, <1>4 DEF IsGate, Shape, CircuitType
  <1>6. \A s \in Scopes(circuit) \ {TopLevel} : ScopeVars(circuit, s) # {}
    BY <1>2, <1>4 DEF ScopeVars, Scopes, Nodes, MaxNum, IsVar
  <1>7. \A s \in Scopes(circuit) : QType(s) \in {"exists", "forall"}
    <2> DEFINE Rec == [qtype : {"exists", "forall"}, prev : {0} \cup Scopes(circuit),
                       node : {0} \cup Nodes(circuit), next : Seq(Scopes(circuit))]
    <2>1. circuit.scope \in Seq(Rec) /\ Scopes(circuit) = 1 .. Len(circuit.scope)
      BY Tree DEF Shape, CircuitType
    <2>2. \A s \in Scopes(circuit) : circuit.scope[s] \in Rec
      <3> HIDE DEF Rec
      <3> QED
        BY <2>1
    <2> QED
      BY <2>2 DEF QType
  <1> QED
    BY <1>5, <1>6, <1>7

\* The innermost scope has all of the circuit to itself.
LEMMA InnermostEncoding ==
  ASSUME Annotated, Static, Prenex, NEW s \in Scopes(circuit), IsLeaf(s)
  PROVE  /\ \A i \in Nodes(circuit) :
              ~OnlyInner(circuit, s, i) /\ ~(CurrentMax(circuit, s, i) > circuit.depth[s])
         /\ HasClauses(circuit, s, circuit.output) /\ b_lits[s] = {}
  <1>1. Shape(circuit) /\ Scopes(circuit) = 1 .. Len(circuit.scope) /\ Len(circuit.scope) \in Nat
    BY Tree DEF Static
  <1>2. s = Len(circuit.scope)
    <2> SUFFICES ASSUME s + 1 \in Scopes(circuit)
                 PROVE  FALSE
      BY <1>1
    <2>1. s + 1 \in Scopes(circuit) \ {TopLevel} /\ Prev(s + 1) = (s + 1) - 1
      BY <1>1, PrenexChain, ChainTree DEF TopLevel
    <2>2. Prev(s + 1) = s
      BY <1>1, <2>1
    <2> QED
      BY <1>1, <2>1, <2>2, TreeChildren
  <1>3. \A i \in Nodes(circuit) :
          ~OnlyInner(circuit, s, i) /\ ~(CurrentMax(circuit, s, i) > circuit.depth[s])
    <2> TAKE i \in Nodes(circuit)
    <2>1. circuit.influences[i] \subseteq Scopes(circuit) /\ circuit.influences[i] # {}
      BY <1>1, PrenexAnnotations
    <2>2. \A t \in circuit.influences[i] : ~(t > s)
      BY <1>1, <1>2, <2>1
    <2>3. CurrentMax(circuit, s, i) \in Scopes(circuit) /\ circuit.depth[s] = s
      BY <1>1, PrenexEncoding
    <2> QED
      BY <1>1, <1>2, <2>1, <2>2, <2>3, PrenexEncoding
  <1>4. circuit.output \in Nodes(circuit) /\ IsGate(circuit, circuit.output)
    BY <1>1, PrenexScopes
  <1>5. ~(CurrentMax(circuit, s, circuit.output) < circuit.depth[s])
    <2>1. /\ CurrentMax(circuit, s, circuit.output) \in Scopes(circuit) /\ circuit.depth[s] = s
          /\ s \in circuit.influences[circuit.output] =>
               s <= CurrentMax(circuit, s, circuit.output)
      BY <1>1, <1>4, PrenexEncoding
    <2>2. CASE s = TopLevel
      BY <1>1, <2>1, <2>2 DEF TopLevel
    <2>3. CASE s # TopLevel
      <3>1. PICK v \in ScopeVars(circuit, s) : TRUE
        BY <1>1, <2>3, PrenexScopes
      <3>2. v \in Nodes(circuit) /\ s \in circuit.influences[v]
        BY <1>1, PrenexAnnotations DEF ScopeVars
      <3>3. s \in circuit.influences[circuit.output]
        BY <1>1, <3>2, OutputInfluences
      <3> QED
        BY <1>1, <2>1, <3>3
    <2> QED
      BY <2>2, <2>3
  <1>6. HasClauses(circuit, s, circuit.output)
    BY <1>1, <1>3, <1>4, <1>5, PrenexEncoding DEF HasClauses, RelevantGates, RelevantNodes
  <1>7. b_lits[s] = {}
    <2>1. b_lits[s] = BLits(circuit, s) /\ \A i \in Nodes(circuit) : ~IsScopeNode(circuit, i)
      BY <1>1, PrenexChain DEF Static
    <2>2. s + 1 \notin Scopes(circuit)
      BY <1>1, <1>2
    <2>3. \A g \in Nodes(circuit) : AnalyzeGate(circuit, s, g).b = {}
      BY <1>1, <2>2, PromisesAreTakenUp
    <2> QED
      BY <2>1, <2>3 DEF BLits, RelevantGates, RelevantNodes, RelevantScopeNodes
  <1> QED
    BY <1>3, <1>6, <1>7

\* What satisfies the dual instance, and more clauses, under what is assumed in it.
LEMMA DualModel ==
  ASSUME IInv, Annotated, Prenex, Encodings, NEW s \in Scopes(circuit), NEW m,
         NEW a, m \cup AssumedT(s) \subseteq a, Meets(a, Encoding(s)),
         \A i \in ScopeVars(circuit, s) : i \in m \/ -i \in m,
         NEW dual, negation[s] \subseteq dual, \A cl \in dual : cl \subseteq ClauseLits(circuit),
         Satisfiable(dual, AssignedLits(s, m) \cup AssumedTDual(s))
  PROVE  \E n : /\ AssumedTDual(s) \subseteq n /\ Meets(n, dual) /\ Meets(n, DualEncoding(s))
                /\ Dualised(circuit, s, t_lits[s], a, n)
  <1> DEFINE assumed == AssignedLits(s, m) \cup AssumedTDual(s)
  <1>1. Shape(circuit)
    BY Types
  <1>2. NoOpposites(a)
    BY DEF Meets
  <1>3. /\ NoOpposites(assumed)
        /\ \A n : NoOpposites(n) /\ assumed \subseteq n => Dualised(circuit, s, t_lits[s], a, n)
    BY <1>2, DualAssumptions
  <1>4. dual \in Instances /\ FiniteClauses(dual)
    BY <1>1, ClausesAreFinite
  <1>5. PICK n : assumed \subseteq n /\ Meets(n, dual)
    <2> HIDE DEF assumed
    <2>1. Satisfiable(dual, assumed)
      BY DEF assumed
    <2> QED
      BY <1>3, <1>4, <2>1, SatisfiableIsSat
  <1>6. Meets(n, DualEncoding(s)) /\ NoOpposites(n)
    BY <1>5 DEF Encodings, Meets
  <1>7. Dualised(circuit, s, t_lits[s], a, n)
    BY <1>3, <1>5, <1>6
  <1> QED
    BY <1>5, <1>6, <1>7

\* The dual instance of the innermost scope refutes what its instance proposes.
LEMMA LeafRefutes ==
  ASSUME IInv, Annotated, Prenex, Encodings, NEW s \in Scopes(circuit), IsLeaf(s),
         NEW m, Offers(s, m)
  PROVE  ~Satisfiable(negation[s], AssignedLits(s, m) \cup AssumedTDual(s))
  <1> SUFFICES ASSUME Satisfiable(negation[s], AssignedLits(s, m) \cup AssumedTDual(s))
               PROVE  FALSE
    OBVIOUS
  <1>1. PICK a : m \cup AssumedT(s) \subseteq a /\ Meets(a, Encoding(s))
    BY DEF Offers
  <1>2. \A i \in ScopeVars(circuit, s) : i \in m \/ -i \in m
    BY DEF Offers
  <1>3. \A cl \in negation[s] : cl \subseteq ClauseLits(circuit)
    BY DEF Encodings
  <1>4. PICK n : Meets(n, DualEncoding(s)) /\ Dualised(circuit, s, t_lits[s], a, n)
    BY <1>1, <1>2, <1>3, DualModel
  <1>5. /\ Static /\ Shape(circuit) /\ DepthsInt(circuit, s) /\ QType(s) \in {"exists", "forall"}
        /\ \A i \in Nodes(circuit) : ~IsScopeNode(circuit, i)
    BY PrenexEncoding, PrenexScopes, PrenexChain DEF IInv, Static
  <1>6. /\ \A i \in Nodes(circuit) :
             ~OnlyInner(circuit, s, i) /\ ~(CurrentMax(circuit, s, i) > circuit.depth[s])
        /\ HasClauses(circuit, s, circuit.output) /\ circuit.output \notin b_lits[s]
    BY <1>5, InnermostEncoding
  <1> QED
    BY <1>1, <1>4, <1>5, <1>6, OutputNotBoth DEF Encoding, DualEncoding

\* With the reasons of the children, the dual instance of an outer scope refutes it as well.
LEMMA InnerRefutes ==
  ASSUME IInv, Annotated, Prenex, Encodings, NEW s \in Scopes(circuit),
         Offers(s, model[s]), Reasons(s)
  PROVE  /\ DualClause(s) \subseteq ClauseLits(circuit)
         /\ ~Satisfiable(negation[s] \cup {DualClause(s)},
                         AssignedLits(s, model[s]) \cup AssumedTDual(s))
  <1>1. /\ Static /\ Shape(circuit) /\ DepthsInt(circuit, s) /\ QType(s) \in {"exists", "forall"}
        /\ \A i \in Nodes(circuit) : ~IsScopeNode(circuit, i)
    BY PrenexEncoding, PrenexScopes, PrenexChain DEF IInv, Static
  <1>2. \A i \in Nodes(circuit) :
          i \in ClauseLits(circuit) /\ TLit(circuit, i) \in ClauseLits(circuit)
    BY <1>1, NodeNumbers DEF Nodes, TLit, ClauseLits
  <1>3. /\ b_lits[s] \subseteq Nodes(circuit)
        /\ \A u \in Scopes(circuit) : t_lits[u] \subseteq {TLit(circuit, i) : i \in Nodes(circuit)}
    BY <1>1, Interfaces, InterfaceNumbers DEF Static
  <1>4. DualClause(s) \subseteq ClauseLits(circuit)
    <2>1. local_unsat_core[s] \subseteq UNION {t_lits[t] : t \in Children(circuit, s)}
      BY Types
    <2>2. Children(circuit, s) \subseteq Scopes(circuit)
      BY <1>1, TreeChildren
    <2>3. \A t \in local_unsat_core[s] : \E i \in Nodes(circuit) : t = TLit(circuit, i)
      BY <1>3, <2>1, <2>2
    <2> QED
      BY <1>2, <1>3, <2>3 DEF DualClause
  <1> SUFFICES ASSUME Satisfiable(negation[s] \cup {DualClause(s)},
                                  AssignedLits(s, model[s]) \cup AssumedTDual(s))
               PROVE  FALSE
    BY <1>4
  <1>5. PICK a : model[s] \cup AssumedT(s) \subseteq a /\ Meets(a, Encoding(s))
    BY DEF Offers
  <1>6. \A i \in ScopeVars(circuit, s) : i \in model[s] \/ -i \in model[s]
    BY DEF Offers
  <1>7. \A cl \in negation[s] \cup {DualClause(s)} : cl \subseteq ClauseLits(circuit)
    BY <1>4 DEF Encodings
  <1>8. PICK n : /\ AssumedTDual(s) \subseteq n /\ Meets(n, negation[s] \cup {DualClause(s)})
                 /\ Meets(n, DualEncoding(s)) /\ Dualised(circuit, s, t_lits[s], a, n)
    BY <1>5, <1>6, <1>7, DualModel
  <1>9. PICK t \in local_unsat_core[s] :
          (IF TLitToVarId(circuit, t) \in b_lits[s] THEN TLitToVarId(circuit, t) ELSE t) \in n
    <2>1. PICK x \in DualClause(s) : x \in n
      BY <1>8 DEF Meets
    <2> QED
      BY <2>1 DEF DualClause
  <1>10. CASE TLitToVarId(circuit, t) \in b_lits[s]
    <2> PICK b : b = TLitToVarId(circuit, t)
      OBVIOUS
    <2>1. b \in b_lits[s] /\ b \in n /\ b \in model[s]
      BY <1>9, <1>10 DEF Reasons
    <2>2. b \in Nodes(circuit) /\ HasClauses(circuit, s, b)
      BY <1>1, <1>3, <2>1, PromisedGate
    <2>3. ~(b \in a /\ b \in n)
      BY <1>1, <1>5, <1>8, <2>2, NotBoth DEF Encoding, DualEncoding
    <2> QED
      BY <1>5, <2>1, <2>3
  <1>11. CASE TLitToVarId(circuit, t) \notin b_lits[s]
    <2>1. t \in entry[s] /\ t \in n
      BY <1>9, <1>11 DEF Reasons
    <2>2. -t \in AssumedTDual(s)
      BY <2>1 DEF AssumedTDual, AssumedT, Opposite
    <2> QED
      BY <1>8, <2>1, <2>2 DEF Meets, NoOpposites, Opposite
  <1> QED
    BY <1>10, <1>11

-----------------------------------------------------------------------------
(***************************************************************************)
(* The invariant.                                                          *)
(***************************************************************************)
\* A child that has no answer yet has just what the proposal leaves to it as its entry; one
\* that agrees answers with t-literals that it was not given.
Entered(s, c) ==
  /\ pc[c] \notin {"good", "bad"} => entry[c] = EntryFor(s, c, assumptions[s])
  /\ pc[c] = "bad" => entry[c] \cap EntryFor(s, c, assumptions[s]) = {}

\* A scope in its loop: its proposal, what it handed on and what it heard.
Told(s) ==
  /\ Offers(s, model[s]) /\ Reasons(s)
  /\ \A b \in b_lits[s] : -b \in model[s] => b \in assumptions[s]
  /\ \A i \in index[s] .. NumNext(s) : Entered(s, circuit.scope[s].next[i])

DInv == Encodings /\ NoInternalError /\ \A s \in Scopes(circuit) : InLoop(s) => Told(s)

\* How a child may move on without a new proposal.
Follows(t) ==
  \/ pc'[t] = "good"
  \/ entry'[t] = entry[t] /\ (pc'[t] = pc[t] \/ {pc[t], pc'[t]} \cap {"good", "bad"} = {})
  \/ pc[t] \notin {"good", "bad"} /\ pc'[t] = "bad" /\ entry'[t] \cap entry[t] = {}

\* The encodings are the same all the time.
LEMMA SameEncoding ==
  ASSUME UNCHANGED config
  PROVE  \A s : /\ Encoding(s)' = Encoding(s) /\ DualEncoding(s)' = DualEncoding(s)
                /\ NumNext(s)' = NumNext(s)
  <1>1. circuit' = circuit /\ b_lits' = b_lits /\ t_lits' = t_lits
    BY DEF config
  <1> QED
    BY <1>1 DEF Encoding, DualEncoding, NumNext, QType

\* Instances only grow.
LEMMA EncodingsAfter ==
  ASSUME Encodings, UNCHANGED config, DOMAIN negation' = Scopes(circuit),
         \A s \in Scopes(circuit) :
           /\ sat[s] \subseteq sat'[s] /\ negation[s] \subseteq negation'[s]
           /\ \A cl \in negation'[s] : cl \subseteq ClauseLits(circuit)
  PROVE  Encodings'
  <1>1. circuit' = circuit /\ Scopes(circuit)' = Scopes(circuit)
        /\ ClauseLits(circuit)' = ClauseLits(circuit)
    BY DEF config
  <1> QED
    BY <1>1, SameEncoding DEF Encodings

\* A proposal that was made stays what it was.
LEMMA StillOffers ==
  ASSUME UNCHANGED config, NEW s, entry'[s] = entry[s], model'[s] = model[s]
  PROVE  Offers(s, model[s])' <=> Offers(s, model[s])
  <1>1. circuit' = circuit /\ b_lits' = b_lits /\ t_lits' = t_lits
    BY DEF config
  <1>2. AssumedT(s)' = AssumedT(s) /\ Encoding(s)' = Encoding(s)
    BY <1>1, SameEncoding DEF AssumedT
  <1> QED
    BY <1>1, <1>2 DEF Offers

\* A scope stays in its loop while its children follow.
LEMMA ToldAfter ==
  ASSUME UNCHANGED config, NEW s, Told(s), NumNext(s) \in Nat, index[s] \in Nat,
         index'[s] \in {index[s], index[s] + 1},
         model'[s] = model[s], entry'[s] = entry[s], assumptions'[s] = assumptions[s],
         Reasons(s)',
         \A i \in index'[s] .. NumNext(s) : Follows(circuit.scope[s].next[i])
  PROVE  Told(s)'
  <1>1. circuit' = circuit /\ b_lits' = b_lits /\ t_lits' = t_lits /\ NumNext(s)' = NumNext(s)
    BY SameEncoding DEF config
  <1>2. Offers(s, model[s])'
    BY StillOffers DEF Told
  <1>3. \A b \in b_lits[s] : -b \in model[s] => b \in assumptions[s]
    BY DEF Told
  <1>4. \A i \in index'[s] .. NumNext(s) : Entered(s, circuit.scope[s].next[i])'
    <2> TAKE i \in index'[s] .. NumNext(s)
    <2> PICK c : c = circuit.scope[s].next[i]
      OBVIOUS
    <2>1. Entered(s, c) /\ Follows(c)
      BY DEF Told
    <2>2. EntryFor(s, c, assumptions[s])' = EntryFor(s, c, assumptions[s])
      BY <1>1 DEF EntryFor
    <2>3. Entered(s, c)'
      BY <2>1, <2>2 DEF Entered, Follows
    <2> QED
      BY <1>1, <2>3
  <1> QED
    BY <1>1, <1>2, <1>3, <1>4 DEF Told

\* The reasons are the same if nothing was added.
LEMMA SameReasons ==
  ASSUME UNCHANGED config, NEW s, Reasons(s), model'[s] = model[s], entry'[s] = entry[s],
         local_unsat_core'[s] = local_unsat_core[s]
  PROVE  Reasons(s)'
  <1>1. circuit' = circuit /\ b_lits' = b_lits
    BY DEF config
  <1> QED
    BY <1>1 DEF Reasons

\* Scopes that the step is not about: one of them may have s as a child.
LEMMA OthersTold ==
  ASSUME IInv, DInv, UNCHANGED config, NEW s \in Scopes(circuit), NEW D, \A t \in D : Prev(t) = s,
         \A u \in Scopes(circuit) \ (D \cup {s}) :
           /\ pc'[u] = pc[u] /\ index'[u] = index[u] /\ model'[u] = model[u]
           /\ entry'[u] = entry[u] /\ assumptions'[u] = assumptions[u]
           /\ local_unsat_core'[u] = local_unsat_core[u],
         Follows(s)
  PROVE  \A u \in Scopes(circuit) \ (D \cup {s}) : InLoop(u)' => Told(u)'
  <1> SUFFICES ASSUME NEW u \in Scopes(circuit) \ (D \cup {s}), InLoop(u)'
               PROVE  Told(u)'
    OBVIOUS
  <1>1. InLoop(u) /\ Told(u) /\ index[u] \in Nat /\ NumNext(u) \in Nat
    BY Types DEF InLoop, DInv
  <1>2. index[u] >= 1
    BY <1>1, Types DEF Round, Places
  <1>3. \A i \in index'[u] .. NumNext(u) : Follows(circuit.scope[u].next[i])
    <2> TAKE i \in index'[u] .. NumNext(u)
    <2> PICK t : t = circuit.scope[u].next[i]
      OBVIOUS
    <2>1. i \in 1 .. NumNext(u)
      BY <1>1, <1>2
    <2>2. t \in Scopes(circuit) /\ Prev(t) = u
      BY <2>1, Types, Tree
    <2>3. t \notin D
      BY <2>2
    <2>4. CASE t = s
      BY <2>4
    <2>5. CASE t # s
      BY <2>2, <2>3, <2>5 DEF Follows
    <2> QED
      BY <2>4, <2>5
  <1>4. Reasons(u)'
    BY <1>1, SameReasons DEF Told
  <1> QED
    BY <1>1, <1>3, <1>4, ToldAfter

\* A scope whose dual instance refutes what it found answers.
LEMMA DualAnswerTold ==
  ASSUME IInv, DInv, NEW s \in Scopes(circuit), NEW m, DualPropagation(s, m),
         UNCHANGED <<config, sat, assumptions, local_unsat_core, result, index>>,
         \A u \in Scopes(circuit) \ {s} : model'[u] = model[u],
         NEW dual, dual = negation[s] \cup (IF IsLeaf(s) THEN {} ELSE {DualClause(s)}),
         \A cl \in dual : cl \subseteq ClauseLits(circuit),
         ~Satisfiable(dual, AssignedLits(s, m) \cup AssumedTDual(s))
  PROVE  DInv'
  <1>1. Static /\ PerScope /\ TypeOK
    BY DEF IInv
  <1>2. pc' = [pc EXCEPT ![s] = "good"] /\ negation' = [negation EXCEPT ![s] = dual]
    BY DEF DualPropagation
  <1>3. /\ pc'[s] = "good" /\ \A u \in Scopes(circuit) \ {s} : pc'[u] = pc[u]
        /\ \A u \in Scopes(circuit) \ {s} : entry'[u] = entry[u]
    BY <1>1, <1>2, Types, DualAnswer
  <1>4. Scopes(circuit)' = Scopes(circuit)
    BY DEF config
  <1>5. Encodings'
    <2>1. /\ DOMAIN negation' = Scopes(circuit) /\ negation'[s] = dual
          /\ \A u \in Scopes(circuit) \ {s} : negation'[u] = negation[u]
      BY <1>2 DEF DInv, Encodings
    <2>2. \A u \in Scopes(circuit) :
            /\ sat[u] \subseteq sat'[u] /\ negation[u] \subseteq negation'[u]
            /\ \A cl \in negation'[u] : cl \subseteq ClauseLits(circuit)
      BY <2>1 DEF DInv, Encodings
    <2> QED
      BY <2>1, <2>2, EncodingsAfter DEF DInv
  <1>6. NoInternalError'
    BY <1>3, <1>4 DEF DInv, NoInternalError
  <1>7. \A u \in Scopes(circuit) \ ({} \cup {s}) : InLoop(u)' => Told(u)'
    <2>1. Follows(s)
      BY <1>3 DEF Follows
    <2> QED
      BY <1>3, <2>1, OthersTold
  <1>8. ~InLoop(s)'
    BY <1>3 DEF InLoop
  <1> QED
    BY <1>4, <1>5, <1>6, <1>7, <1>8 DEF DInv

\* The innermost scope finds a model.
LEMMA SolveLeafTold ==
  ASSUME IInv, Bounded, Annotated, Prenex, DInv, NEW s \in Scopes(circuit), SolveLeaf(s)
  PROVE  DInv'
  <1>1. PICK m \in {ObservedLits(s, mm) : mm \in Models(s)} :
          model' = [model EXCEPT ![s] = m] /\ DualPropagation(s, m)
    BY DEF SolveLeaf
  <1>2. IsLeaf(s) /\ UNCHANGED <<config, sat, assumptions, local_unsat_core, result, index>>
    BY DEF SolveLeaf
  <1>3. Offers(s, m)
    BY <1>1, ModelOffers DEF DInv, Encodings
  <1>4. ~Satisfiable(negation[s], AssignedLits(s, m) \cup AssumedTDual(s))
    BY <1>2, <1>3, LeafRefutes DEF DInv
  <1>5. \A u \in Scopes(circuit) \ {s} : model'[u] = model[u]
    BY <1>1 DEF IInv, PerScope
  <1>6. \A cl \in negation[s] : cl \subseteq ClauseLits(circuit)
    BY DEF DInv, Encodings
  <1>7. negation[s] = negation[s] \cup (IF IsLeaf(s) THEN {} ELSE {DualClause(s)})
    BY <1>2
  <1> QED
    BY <1>1, <1>2, <1>4, <1>5, <1>6, <1>7, DualAnswerTold

\* Every child agreed.
LEMMA AllAgreedTold ==
  ASSUME IInv, Annotated, Prenex, DInv, NEW s \in Scopes(circuit), ~IsLeaf(s), AllAgreed(s)
  PROVE  DInv'
  <1>1. /\ pc[s] = "children" /\ DualPropagation(s, model[s]) /\ model' = model
        /\ UNCHANGED <<config, sat, assumptions, local_unsat_core, result, index>>
    BY DEF AllAgreed
  <1>2. Offers(s, model[s]) /\ Reasons(s) /\ Encodings
    BY <1>1 DEF DInv, Told, InLoop
  <1> PICK dual : dual = negation[s] \cup {DualClause(s)}
    OBVIOUS
  <1>3. /\ \A cl \in dual : cl \subseteq ClauseLits(circuit)
        /\ ~Satisfiable(dual, AssignedLits(s, model[s]) \cup AssumedTDual(s))
    BY <1>2, InnerRefutes DEF Encodings
  <1> QED
    BY <1>1, <1>3, DualAnswerTold

\* The scope refuses, or tries again: it leaves its loop.
LEMMA LeaveTold ==
  ASSUME IInv, DInv, NEW s \in Scopes(circuit), SolveUnsat(s) \/ Retry(s)
  PROVE  DInv'
  <1>1. Static /\ PerScope /\ TypeOK
    BY DEF IInv
  <1>2. UNCHANGED <<config, sat, negation, model, assumptions, local_unsat_core, index>>
    BY DEF SolveUnsat, Retry
  <1>3. Scopes(circuit)' = Scopes(circuit)
    BY <1>2 DEF config
  <1>4. /\ pc'[s] \in {"bad", "solve"} /\ \A u \in Scopes(circuit) \ {s} : pc'[u] = pc[u]
        /\ \A u \in Scopes(circuit) \ {s} : entry'[u] = entry[u]
        /\ Follows(s)
    <2>1. CASE SolveUnsat(s)
      <3>1. pc[s] = "solve" /\ pc' = [pc EXCEPT ![s] = "bad"]
        BY <2>1 DEF SolveUnsat
      <3>2. /\ entry'[s] \cap entry[s] = {}
            /\ \A u \in Scopes(circuit) \ {s} : entry'[u] = entry[u]
        BY <1>1, <2>1, UnsatAnswer
      <3> QED
        BY <3>1, <3>2, Types DEF Follows
    <2>2. CASE Retry(s)
      <3>1. pc[s] = "children" /\ pc' = [pc EXCEPT ![s] = "solve"] /\ entry' = entry
        BY <2>2 DEF Retry
      <3> QED
        BY <3>1, Types DEF Follows
    <2> QED
      BY <2>1, <2>2
  <1>5. Encodings'
    <2>1. /\ DOMAIN negation' = Scopes(circuit)
          /\ \A u \in Scopes(circuit) :
               /\ sat[u] \subseteq sat'[u] /\ negation[u] \subseteq negation'[u]
               /\ \A cl \in negation'[u] : cl \subseteq ClauseLits(circuit)
      BY <1>2 DEF DInv, Encodings
    <2> QED
      BY <1>2, <2>1, EncodingsAfter DEF DInv
  <1>6. NoInternalError'
    BY <1>3, <1>4 DEF DInv, NoInternalError
  <1>7. \A u \in Scopes(circuit) \ ({} \cup {s}) : InLoop(u)' => Told(u)'
    BY <1>2, <1>4, OthersTold
  <1>8. ~InLoop(s)'
    BY <1>4 DEF InLoop
  <1> QED
    BY <1>3, <1>5, <1>6, <1>7, <1>8 DEF DInv

\* The scope proposes and enters its children.
LEMMA SolveInnerTold ==
  ASSUME IInv, Bounded, DInv, ~minimize, NEW s \in Scopes(circuit), SolveInner(s)
  PROVE  DInv'
  <1>1. Static /\ PerScope /\ TypeOK /\ Shape(circuit)
    BY DEF IInv, Static
  <1>2. PICK m \in {ObservedLits(s, mm) : mm \in Models(s)} :
          /\ model' = [model EXCEPT ![s] = m]
          /\ LET as == Assumptions(s, m, value')
             IN  /\ assumptions' = [assumptions EXCEPT ![s] = as]
                 /\ entry' = [t \in Scopes(circuit) |->
                                IF t \in Children(circuit, s) THEN EntryFor(s, t, as) ELSE entry[t]]
    BY DEF SolveInner
  <1>3. /\ pc[s] = "solve"
        /\ local_unsat_core' = [local_unsat_core EXCEPT ![s] = {}]
        /\ index' = [index EXCEPT ![s] = 1]
        /\ pc' = [pc EXCEPT ![s] = "children"]
        /\ UNCHANGED <<config, sat, negation>>
    BY DEF SolveInner
  <1> DEFINE as == Assumptions(s, m, value')
  <1>4. as = {b \in b_lits[s] : -b \in m}
    BY DEF Assumptions, NeedNotAssume
  <1> HIDE DEF as
  <1>5. /\ \A u \in Scopes(circuit) \ {s} : /\ pc'[u] = pc[u] /\ index'[u] = index[u]
                                           /\ model'[u] = model[u]
                                           /\ assumptions'[u] = assumptions[u]
                                           /\ local_unsat_core'[u] = local_unsat_core[u]
        /\ pc'[s] = "children" /\ index'[s] = 1 /\ model'[s] = m /\ assumptions'[s] = as
        /\ local_unsat_core'[s] = {}
    BY <1>1, <1>2, <1>3, Types DEF PerScope, as
  <1>6. /\ \A t \in Children(circuit, s) : t \in Scopes(circuit) \ {TopLevel, s} /\ Prev(t) = s
        /\ \A i \in 1 .. NumNext(s) : circuit.scope[s].next[i] \in Children(circuit, s)
    BY <1>1, Tree, TreeChildren
  <1>7. \A t \in Children(circuit, s) : entry'[t] = EntryFor(s, t, as)
    BY <1>2, <1>6 DEF as
  <1>8. \A t \in Scopes(circuit) \ Children(circuit, s) : entry'[t] = entry[t]
    BY <1>2
  <1>9. circuit' = circuit /\ b_lits' = b_lits /\ t_lits' = t_lits /\ entry'[s] = entry[s]
    BY <1>3, <1>6, <1>8 DEF config
  <1>10. \A u \in Children(circuit, s) : pc'[u] = "idle"
    <2> TAKE u \in Children(circuit, s)
    <2>1. CalledByParent(u) /\ u \in Scopes(circuit) \ {TopLevel, s}
      BY <1>6, Types DEF CallsMatch
    <2> QED
      BY <1>3, <1>5, <1>6, <2>1 DEF CalledByParent
  <1>11. Encodings'
    <2>1. /\ DOMAIN negation' = Scopes(circuit)
          /\ \A u \in Scopes(circuit) :
               /\ sat[u] \subseteq sat'[u] /\ negation[u] \subseteq negation'[u]
               /\ \A cl \in negation'[u] : cl \subseteq ClauseLits(circuit)
      BY <1>3 DEF DInv, Encodings
    <2> QED
      BY <1>3, <2>1, EncodingsAfter DEF DInv
  <1>12. NoInternalError'
    BY <1>5, <1>9 DEF DInv, NoInternalError
  <1>13. \A u \in Scopes(circuit) \ (Children(circuit, s) \cup {s}) : InLoop(u)' => Told(u)'
    <2>1. Follows(s)
      BY <1>3, <1>5, <1>9 DEF Follows
    <2> QED
      BY <1>3, <1>5, <1>6, <1>8, <2>1, OthersTold
  <1>14. Offers(s, model[s])'
    <2>1. Offers(s, m)
      BY <1>2, ModelOffers DEF DInv, Encodings
    <2>2. AssumedT(s)' = AssumedT(s) /\ Encoding(s)' = Encoding(s)
      BY <1>3, <1>9, SameEncoding DEF AssumedT
    <2> QED
      BY <1>5, <1>9, <2>1, <2>2 DEF Offers
  <1>15. Reasons(s)'
    BY <1>5 DEF Reasons
  <1>16. \A i \in 1 .. NumNext(s) : Entered(s, circuit.scope[s].next[i])'
    <2> TAKE i \in 1 .. NumNext(s)
    <2> PICK c : c = circuit.scope[s].next[i]
      OBVIOUS
    <2>1. c \in Children(circuit, s) /\ pc'[c] = "idle" /\ entry'[c] = EntryFor(s, c, as)
      BY <1>6, <1>7, <1>10
    <2>2. EntryFor(s, c, assumptions[s])' = EntryFor(s, c, as)
      BY <1>5, <1>9 DEF EntryFor
    <2>3. Entered(s, c)'
      BY <2>1, <2>2 DEF Entered
    <2> QED
      BY <1>9, <2>3
  <1>17. Told(s)'
    <2>1. NumNext(s)' = NumNext(s)
      BY <1>3, SameEncoding
    <2> QED
      BY <1>4, <1>5, <1>9, <1>14, <1>15, <1>16, <2>1 DEF Told
  <1>18. \A u \in Children(circuit, s) : ~InLoop(u)'
    BY <1>10 DEF InLoop
  <1> QED
    BY <1>9, <1>11, <1>12, <1>13, <1>17, <1>18 DEF DInv

\* The loop calls the next child.
LEMMA NextChildTold ==
  ASSUME IInv, Prenex, DInv, NEW s \in Scopes(circuit), NextChild(s)
  PROVE  DInv'
  <1>1. Static /\ PerScope /\ TypeOK
    BY DEF IInv
  <1>2. /\ pc[s] = "children" /\ index[s] <= NumNext(s)
        /\ UNCHANGED <<config, sat, negation, model, entry, assumptions, local_unsat_core>>
    BY DEF NextChild
  <1>3. index[s] \in 1 .. NumNext(s) /\ InLoop(s) /\ Told(s)
    BY <1>2, Types DEF Round, Places, InLoop, DInv
  <1> PICK c : c = CurrentChild(s)
    OBVIOUS
  <1>4. c \in Scopes(circuit) \ {TopLevel, s} /\ Prev(c) = s
    BY <1>3, Current
  <1>5. pc' = [pc EXCEPT ![s] = "called", ![c] = "solve"] /\ index' = index
    BY <1>4 DEF NextChild, AbstractionIsEnabled, Prenex
  <1>6. /\ pc'[s] = "called" /\ pc'[c] = "solve"
        /\ \A u \in Scopes(circuit) \ {s, c} : pc'[u] = pc[u]
    BY <1>4, <1>5, Types
  <1>7. circuit' = circuit
    BY <1>2 DEF config
  <1>8. Encodings'
    <2>1. /\ DOMAIN negation' = Scopes(circuit)
          /\ \A u \in Scopes(circuit) :
               /\ sat[u] \subseteq sat'[u] /\ negation[u] \subseteq negation'[u]
               /\ \A cl \in negation'[u] : cl \subseteq ClauseLits(circuit)
      BY <1>2 DEF DInv, Encodings
    <2> QED
      BY <1>2, <2>1, EncodingsAfter DEF DInv
  <1>9. NoInternalError'
    BY <1>6, <1>7 DEF DInv, NoInternalError
  <1>10. \A u \in Scopes(circuit) \ ({c} \cup {s}) : InLoop(u)' => Told(u)'
    <2>1. Follows(s) /\ \A t \in {c} : Prev(t) = s
      BY <1>2, <1>4, <1>6 DEF Follows
    <2> QED
      BY <1>2, <1>5, <1>6, <2>1, OthersTold
  <1>11. Told(s)'
    <2>1. CalledByParent(c)
      BY <1>4, Types DEF CallsMatch
    <2>2. pc[c] = "idle"
      BY <1>2, <1>4, <2>1 DEF CalledByParent
    <2>3. NumNext(s) \in Nat /\ index[s] \in Nat
      BY Types
    <2>4. \A i \in index[s] .. NumNext(s) : Follows(circuit.scope[s].next[i])
      <3> TAKE i \in index[s] .. NumNext(s)
      <3> PICK t : t = circuit.scope[s].next[i]
        OBVIOUS
      <3>1. t \in Scopes(circuit) \ {s}
        BY <1>3, <2>3, Current
      <3>2. CASE t = c
        BY <1>2, <1>6, <2>2, <3>2 DEF Follows
      <3>3. CASE t # c
        BY <1>2, <1>6, <3>1, <3>3 DEF Follows
      <3> QED
        BY <3>2, <3>3
    <2>5. Reasons(s)'
      BY <1>2, <1>3, SameReasons DEF Told
    <2> QED
      BY <1>2, <1>3, <1>5, <2>3, <2>4, <2>5, ToldAfter
  <1>12. ~InLoop(c)'
    BY <1>6 DEF InLoop
  <1> QED
    BY <1>7, <1>8, <1>9, <1>10, <1>11, <1>12 DEF DInv

\* The loop hears a child.
LEMMA HeardTold ==
  ASSUME IInv, DInv, NEW s \in Scopes(circuit), pc[s] = "called", NEW c, c = CurrentChild(s),
         pc' = [pc EXCEPT ![s] = "children", ![c] = "idle"],
         index' = [index EXCEPT ![s] = @ + 1],
         UNCHANGED <<config, negation, model, entry, assumptions>>,
         \A u \in Scopes(circuit) : sat[u] \subseteq sat'[u],
         \A u \in Scopes(circuit) \ {s} : local_unsat_core'[u] = local_unsat_core[u],
         Reasons(s)'
  PROVE  DInv'
  <1>1. Static /\ PerScope /\ TypeOK
    BY DEF IInv
  <1>2. index[s] \in 1 .. NumNext(s) /\ InLoop(s) /\ Told(s)
    BY Types DEF Round, Places, InLoop, DInv
  <1>3. c \in Scopes(circuit) \ {TopLevel, s} /\ Prev(c) = s
    BY <1>2, Current
  <1>4. /\ pc'[s] = "children" /\ pc'[c] = "idle"
        /\ \A u \in Scopes(circuit) \ {s, c} : pc'[u] = pc[u]
    BY <1>3, Types
  <1>5. /\ index'[s] = index[s] + 1
        /\ \A u \in Scopes(circuit) \ {s} : index'[u] = index[u]
    BY <1>1 DEF PerScope
  <1>6. circuit' = circuit /\ entry' = entry /\ model' = model /\ assumptions' = assumptions
    BY DEF config
  <1>7. Encodings'
    <2>1. /\ DOMAIN negation' = Scopes(circuit)
          /\ \A u \in Scopes(circuit) :
               /\ sat[u] \subseteq sat'[u] /\ negation[u] \subseteq negation'[u]
               /\ \A cl \in negation'[u] : cl \subseteq ClauseLits(circuit)
      BY DEF DInv, Encodings
    <2> QED
      BY <2>1, EncodingsAfter DEF DInv
  <1>8. NoInternalError'
    BY <1>4, <1>6 DEF DInv, NoInternalError
  <1>9. \A u \in Scopes(circuit) \ ({c} \cup {s}) : InLoop(u)' => Told(u)'
    <2>1. Follows(s) /\ \A t \in {c} : Prev(t) = s
      BY <1>3, <1>4, <1>6 DEF Follows
    <2>2. \A u \in Scopes(circuit) \ ({c} \cup {s}) :
            /\ pc'[u] = pc[u] /\ index'[u] = index[u] /\ model'[u] = model[u]
            /\ entry'[u] = entry[u] /\ assumptions'[u] = assumptions[u]
            /\ local_unsat_core'[u] = local_unsat_core[u]
      BY <1>4, <1>5, <1>6
    <2>3. UNCHANGED config
      OBVIOUS
    <2> QED
      BY <2>1, <2>2, <2>3, OthersTold
  <1>10. Told(s)'
    <2>1. NumNext(s) \in Nat /\ index[s] \in Nat
      BY Types
    <2>2. \A i \in index'[s] .. NumNext(s) : Follows(circuit.scope[s].next[i])
      <3> TAKE i \in index'[s] .. NumNext(s)
      <3> PICK t : t = circuit.scope[s].next[i]
        OBVIOUS
      <3>1. i \in 1 .. NumNext(s) /\ i # index[s]
        BY <1>2, <1>5, <2>1
      <3>2. t \in Scopes(circuit) \ {s, c}
        BY <1>2, <3>1, Current
      <3> QED
        BY <1>4, <1>6, <3>2 DEF Follows
    <2> QED
      BY <1>2, <1>5, <1>6, <2>1, <2>2, ToldAfter
  <1>11. ~InLoop(c)'
    BY <1>4 DEF InLoop
  <1> QED
    BY <1>6, <1>7, <1>8, <1>9, <1>10, <1>11 DEF DInv

\* A child agrees for reasons that are on in the proposal or in the entry.
LEMMA ChildAgreesTold ==
  ASSUME IInv, Annotated, Prenex, DInv, NEW s \in Scopes(circuit), ChildAgrees(s)
  PROVE  DInv'
  <1> PICK c : c = CurrentChild(s)
    OBVIOUS
  <1>1. /\ pc[s] = "called" /\ pc[c] = "bad"
        /\ pc' = [pc EXCEPT ![s] = "children", ![c] = "idle"]
        /\ index' = [index EXCEPT ![s] = @ + 1]
        /\ UNCHANGED <<config, negation, model, entry, assumptions>> /\ sat' = sat
        /\ local_unsat_core' = [local_unsat_core EXCEPT ![s] = @ \cup entry[c]]
    BY DEF ChildAgrees, Agree
  <1>2. Static /\ PerScope /\ Told(s)
    BY <1>1 DEF IInv, DInv, InLoop
  <1>3. index[s] \in index[s] .. NumNext(s) /\ index[s] \in 1 .. NumNext(s)
    BY <1>1, Types DEF Round, Places, InLoop
  <1>4. entry[c] \subseteq t_lits[c] /\ c \in Children(circuit, s)
    BY <1>3, Current, Types
  <1>5. entry[c] \cap EntryFor(s, c, assumptions[s]) = {}
    <2>1. Entered(s, c)
      BY <1>2, <1>3 DEF Told, CurrentChild
    <2> QED
      BY <1>1, <2>1 DEF Entered
  <1>6. /\ b_lits[s] \subseteq Nodes(circuit) /\ Nodes(circuit) \subseteq Nat
        /\ t_lits[c] \subseteq Nat /\ MaxNum(circuit) \in Nat
    BY <1>2, <1>4, TreeChildren, Interfaces, NodeNumbers DEF Static
  <1>7. ASSUME NEW t \in entry[c]
        PROVE  IF TLitToVarId(circuit, t) \in b_lits[s] THEN TLitToVarId(circuit, t) \in model[s]
               ELSE t \in entry[s]
    <2> PICK b : b = TLitToVarId(circuit, t)
      OBVIOUS
    <2>1. t \in t_lits[c] /\ t \notin EntryFor(s, c, assumptions[s])
      BY <1>4, <1>5, <1>7
    <2>2. CASE b \in b_lits[s]
      <3>1. t = TLit(circuit, b)
        BY <1>6, <2>1 DEF TLit, TLitToVarId
      <3>2. b \notin assumptions[s]
        BY <2>1, <3>1 DEF EntryFor
      <3>3. b \in model[s]
        BY <1>2, <2>2, <3>2 DEF Told, Offers
      <3> QED
        BY <2>2, <3>3
    <2>3. CASE b \notin b_lits[s]
      <3>1. t \in t_lits[s]
        BY <1>2, <1>4, <2>1, <2>3, TLitsFromOutside
      <3>2. t \in entry[s]
        BY <2>1, <2>3, <3>1 DEF EntryFor
      <3> QED
        BY <2>3, <3>2
    <2> QED
      BY <2>2, <2>3
  <1>8. Reasons(s)'
    <2>1. /\ local_unsat_core'[s] = local_unsat_core[s] \cup entry[c]
          /\ circuit' = circuit /\ b_lits' = b_lits /\ model' = model /\ entry' = entry
      BY <1>1, <1>2 DEF PerScope, config
    <2>2. Reasons(s)
      BY <1>2 DEF Told
    <2> QED
      BY <1>7, <2>1, <2>2 DEF Reasons
  <1>9. \A u \in Scopes(circuit) \ {s} : local_unsat_core'[u] = local_unsat_core[u]
    BY <1>1, <1>2 DEF PerScope
  <1> QED
    BY <1>1, <1>8, <1>9, HeardTold

\* A child objects, to nothing but what it was given.
LEMMA ChildObjectsTold ==
  ASSUME IInv, DInv, NEW s \in Scopes(circuit), ChildObjects(s)
  PROVE  DInv'
  <1> PICK c : c = CurrentChild(s)
    OBVIOUS
  <1>1. pc[s] = "called" /\ pc[c] = "good"
    BY DEF ChildObjects
  <1>2. FailedBLits(s, c) \subseteq assumptions[s]
    BY <1>1, Objection
  <1>3. /\ sat' = [sat EXCEPT ![s] = @ \cup {RefinementClause(s, c)}]
        /\ pc' = [pc EXCEPT ![s] = "children", ![c] = "idle"]
        /\ index' = [index EXCEPT ![s] = @ + 1]
        /\ UNCHANGED <<config, negation, model, entry, assumptions>>
        /\ local_unsat_core' = local_unsat_core
    BY <1>2 DEF ChildObjects
  <1>4. \A u \in Scopes(circuit) : sat[u] \subseteq sat'[u]
    BY <1>3 DEF IInv, PerScope
  <1>5. Reasons(s)
    BY <1>1 DEF DInv, Told, InLoop
  <1>6. Reasons(s)'
    BY <1>3, <1>5, SameReasons
  <1> QED
    BY <1>1, <1>3, <1>4, <1>6, HeardTold

\* No step of the solver leaves the invariant.
LEMMA NextTold ==
  ASSUME RInv, Bounded, Annotated, Prenex, ~minimize, DInv, [Next]_vars
  PROVE  DInv'
  <1>1. IInv
    BY DEF RInv
  <1>2. ASSUME NEW s \in Scopes(circuit), Step(s)
        PROVE  DInv'
    <2>1. AllAgreed(s) => ~IsLeaf(s)
      BY DEF RInv, AllAgreed, InLoop
    <2> QED
      BY <1>1, <1>2, <2>1, SolveLeafTold, SolveInnerTold, LeaveTold, NextChildTold,
         ChildAgreesTold, ChildObjectsTold, AllAgreedTold DEF Step
  <1>3. CASE UNCHANGED vars
    <2>1. UNCHANGED config /\ circuit' = circuit
      BY <1>3 DEF vars, config
    <2>2. Encodings'
      BY <1>3, <2>1, EncodingsAfter DEF vars, DInv, Encodings
    <2>3. ASSUME NEW u \in Scopes(circuit), InLoop(u)
          PROVE  Told(u)'
      <3>1. Told(u) /\ NumNext(u) \in Nat /\ index[u] \in Nat
        BY <1>1, <2>3, Types DEF DInv
      <3>2. Reasons(u)'
        BY <1>3, <2>1, <3>1, SameReasons DEF vars, Told
      <3> QED
        BY <1>3, <2>1, <3>1, <3>2, ToldAfter DEF vars, Follows
    <2> QED
      BY <1>3, <2>1, <2>2, <2>3 DEF vars, DInv, InLoop, NoInternalError
  <1> QED
    BY <1>2, <1>3 DEF Next, Done

\* At first nothing was proposed.
LEMMA InitTold == Init => DInv
  <1> SUFFICES ASSUME Init
               PROVE  DInv
    OBVIOUS
  <1>1. Shape(circuit)
    BY InitInv, Types
  <1>2. /\ sat = [s \in Scopes(circuit) |->
                   BuildSatInstance(circuit, s, QType(s), b_lits[s], t_lits[s])]
        /\ negation = [s \in Scopes(circuit) |->
                   BuildSatInstance(circuit, s, Dual(QType(s)), b_lits[s], t_lits[s])]
        /\ pc = [s \in Scopes(circuit) |-> IF s = TopLevel THEN "solve" ELSE "idle"]
    BY DEF Init
  <1>3. \A s \in Scopes(circuit) : \A cl \in negation[s] : cl \subseteq ClauseLits(circuit)
    BY <1>1, <1>2, EncodingLits
  <1> QED
    BY <1>2, <1>3 DEF DInv, Encodings, NoInternalError, InLoop, Encoding, DualEncoding

-----------------------------------------------------------------------------
(***************************************************************************)
(* Theorems                                                                *)
(***************************************************************************)
\* On a prenex circuit every b-literal that a scope may hand over has its t-literal in the
\* scope below, so that the consistency check of build_circuit_abstraction (solver.c:66)
\* never fails: the two come from two analyses of the same gates under different depths.
THEOREM PrenexInterfacesMatch ==
  Spec => []((\A s \in Scopes(circuit) : InPrefix(circuit, s)) => InterfacesMatch)
  <1>1. Init => Annotated
    BY DEF Init, Annotated
  <1>2. Annotated /\ [Next]_vars => Annotated'
    <2> SUFFICES ASSUME Annotated, [Next]_vars
                 PROVE  Annotated'
      OBVIOUS
    <2>1. circuit' = circuit
      BY DEF Next, Step, SolveLeaf, SolveInner, SolveUnsat, NextChild, ChildAgrees,
             ChildObjects, AllAgreed, Retry, Done, vars, config
    <2> QED
      BY <2>1 DEF Annotated
  <1>3. IInv /\ Annotated => ((\A s \in Scopes(circuit) : InPrefix(circuit, s)) => InterfacesMatch)
    BY PrenexInterfaces DEF IInv, Prenex
  <1> QED
    BY SolverInvariance, <1>1, <1>2, <1>3, PTL DEF Spec

\* On a prenex circuit and without minimisation neither consistency check fails.
THEOREM NoCheckFails ==
  Spec => [](~minimize /\ (\A s \in Scopes(circuit) : InPrefix(circuit, s)) => NoInternalError)
  <1> DEFINE Inv == Bounded /\ Annotated /\ (~minimize /\ Prenex => DInv)
  <1>1. Init => Inv
    BY InitBounded, InitTold DEF Init, Annotated
  <1>2. Inv /\ RInv /\ [Next]_vars => Inv'
    <2> SUFFICES ASSUME Inv, RInv, [Next]_vars
                 PROVE  Inv'
      OBVIOUS
    <2>1. circuit' = circuit /\ minimize' = minimize
      BY DEF Next, Step, SolveLeaf, SolveInner, SolveUnsat, NextChild, ChildAgrees,
             ChildObjects, AllAgreed, Retry, Done, vars, config
    <2>2. Bounded'
      BY NextBounded DEF RInv
    <2>3. Annotated' /\ (Prenex' <=> Prenex)
      BY <2>1 DEF Annotated, Prenex
    <2>4. ~minimize /\ Prenex => DInv'
      BY NextTold
    <2> QED
      BY <2>1, <2>2, <2>3, <2>4
  <1>3. Inv => (~minimize /\ (\A s \in Scopes(circuit) : InPrefix(circuit, s)) => NoInternalError)
    BY DEF DInv, Prenex
  <1> QED
    BY RoundInvariance, <1>1, <1>2, <1>3, PTL DEF Spec

==============================================================================

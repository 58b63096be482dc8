-------------------------- MODULE FixpointResultProofs --------------------------
(***************************************************************************)
(* Proofs about the answer of fixpoint_solve and the refinements that lead *)
(* to it, for every set of queries and whatever the SAT solver answers:    *)
(* the excluded cubes are about the latches of the game and not about the  *)
(* error, an answer that the existential dual instance refutes leads to    *)
(* the states that are recorded for it, if no proposal is left then the    *)
(* control can stay in the states that are not excluded, and the           *)
(* existential dual instance refutes every answer.                         *)
(***************************************************************************)
EXTENDS FixpointProofs

-----------------------------------------------------------------------------
(***************************************************************************)
(* What the dual instances do not read, and assignments as plays.          *)
(***************************************************************************)
\* F depends on its latch only.
LEMMA ErrorDepth ==
  ASSUME Static, GameStatic
  PROVE  Deepest(circuit, F) <= Universal
  <1> PICK v : v = ErrorLatch.var
    OBVIOUS
  <1>1. PICK q \in Queries : circuit = Annotate(q.circuit)
    BY DEF GameStatic
  <1> PICK c : c = q.circuit
    OBVIOUS
  <1>2. PrenexCircuit(c) /\ Shape(c)
    <2>1. PrenexCircuit(c)
      BY QueriesWellFormed DEF IsQuery, PrenexCircuit
    <2> QED
      BY <2>1, WellFormedShape DEF PrenexCircuit
  <1>3. Nodes(circuit) = Nodes(c) /\ circuit.influences = Influences(c) /\ circuit.node = c.node
    BY <1>1 DEF Annotate, Nodes, MaxNum
  <1>4. F \in Nodes(c) /\ c.node[F].type = "or" /\ c.node[F].inputs = <<v>>
    BY <1>3, ErrorGates
  <1>5. /\ v \in Nodes(circuit) /\ IsVar(circuit, v) /\ v \in Nat \ {0} /\ circuit.node[v].scope = Universal
    BY GameNodes, GameCircuit DEF ErrorLatch, Own, ScopeVars
  <1>6. Inputs(c, F) = {v}
    <2>1. Range(<<v>>) = {v} /\ LitVar(v) = v
      BY <1>5 DEF Range, LitVar
    <2> QED
      BY <1>4, <2>1 DEF Inputs
  <1>7. circuit.influences[v] = {Universal}
    BY <1>5, GameCircuit DEF Flat
  <1>8. OwnInfluence(c, F) = {}
    BY <1>4 DEF OwnInfluence, IsVar, IsScopeNode
  <1>9. circuit.influences[F] = {Universal}
    <2>1. circuit.influences = [i \in Nodes(c) |-> InfluenceFrom(c, i, circuit.influences)]
      BY <1>2, <1>3, InfluencesOfInputs
    <2>2. circuit.influences[F] = InfluenceFrom(c, F, circuit.influences)
      BY <1>4, <2>1
    <2>3. UNION {circuit.influences[j] : j \in {v}} = {Universal}
      BY <1>7
    <2> QED
      BY <1>6, <1>8, <2>2, <2>3 DEF InfluenceFrom
  <1>10. Deepest(circuit, F) \in circuit.influences[F]
    BY <1>3, <1>4, GameCircuit, FlatDeepest
  <1> QED
    BY <1>9, <1>10 DEF Universal

\* No clause of the universal dual instance reads the error latch, no clause of the existential
\* one its next value: the only gate that does has no clauses (keep).
LEMMA InstancesUnread ==
  ASSUME Static, GameStatic
  PROVE  /\ Silent(Instance(Universal, "exists"), ErrorLatch.var)
         /\ Silent(Instance(Existential, "forall"), ErrorLatch.primed)
  <1>1. Flat(circuit) /\ Scopes(circuit) = {1, 2, 3}
    BY GameCircuit DEF TopLevel, Universal, Existential
  <1>2. /\ ErrorLatch.var \in Nodes(circuit) /\ IsVar(circuit, ErrorLatch.var)
        /\ ErrorLatch.primed \in Nodes(circuit) /\ IsVar(circuit, ErrorLatch.primed)
    BY GameNodes DEF ErrorLatch, Own, ScopeVars
  <1>3. GateTypeFor(circuit, F, "exists") = "or" /\ GateTypeFor(circuit, FPrime, "forall") = "or"
    BY ErrorGates DEF GateTypeFor, DualGate
  <1>4. Silent(Instance(Universal, "exists"), ErrorLatch.var)
    <2> PICK c : c = circuit
      OBVIOUS
    <2> PICK B : B = b_lits[Universal]
      OBVIOUS
    <2> PICK T : T = t_lits[Universal]
      OBVIOUS
    <2> PICK v : v = ErrorLatch.var
      OBVIOUS
    <2> PICK k : k = F
      OBVIOUS
    <2>1. /\ k \in Nodes(c) /\ k # c.output /\ Deepest(c, k) <= Universal
          /\ \A j \in Nodes(c) : v \in Inputs(c, j) => j = k
      BY ErrorGates, ErrorDepth
    <2>2. Silent(BuildSatInstance(c, Universal, "exists", B, T)
                   \ EncodeOrGate(c, Universal, "exists", T, k), v)
      BY <1>1, <1>2, <1>3, <2>1, OneReader DEF Universal
    <2>3. Instance(Universal, "exists") \subseteq
            BuildSatInstance(c, Universal, "exists", B, T) \ EncodeOrGate(c, Universal, "exists", T, k)
      BY <1>3 DEF Instance
    <2> QED
      BY <2>2, <2>3 DEF Silent
  <1>5. Silent(Instance(Existential, "forall"), ErrorLatch.primed)
    <2> PICK c : c = circuit
      OBVIOUS
    <2> PICK B : B = b_lits[Existential]
      OBVIOUS
    <2> PICK T : T = t_lits[Existential]
      OBVIOUS
    <2> PICK v : v = ErrorLatch.primed
      OBVIOUS
    <2> PICK k : k = FPrime
      OBVIOUS
    <2>1. /\ k \in Nodes(c) /\ k # c.output /\ Deepest(c, k) <= Existential
          /\ \A j \in Nodes(c) : v \in Inputs(c, j) => j = k
      BY <1>1, ErrorGates, FlatDeepest DEF Existential
    <2>2. Silent(BuildSatInstance(c, Existential, "forall", B, T)
                   \ EncodeOrGate(c, Existential, "forall", T, k), v)
      BY <1>1, <1>2, <1>3, <2>1, OneReader DEF Existential
    <2>3. Instance(Existential, "forall") \subseteq
            BuildSatInstance(c, Existential, "forall", B, T) \ EncodeOrGate(c, Existential, "forall", T, k)
      BY <1>3 DEF Instance
    <2> QED
      BY <2>2, <2>3 DEF Silent
  <1> QED
    BY <1>4, <1>5

\* Assuming less is satisfiable; and so is assuming what no clause is against.
LEMMA LessAssumed ==
  ASSUME NEW clauses \in Instances, FiniteClauses(clauses), NEW more, NoOpposites(more),
         Satisfiable(clauses, more), NEW assumed, NoOpposites(assumed),
         \A l \in assumed : l \in more \/ Silent(clauses, LitVar(l))
  PROVE  Satisfiable(clauses, assumed)
  <1>1. PICK M : more \subseteq M /\ Meets(M, clauses)
    BY SatisfiableIsSat
  <1>2. \A l \in assumed : l \in M \/ \A cl \in clauses : -l \notin cl
    <2>1. \A l \in assumed : -l \in {LitVar(l), -LitVar(l)}
      BY DEF LitVar, NoOpposites
    <2> QED
      BY <1>1, <2>1 DEF Silent
  <1> QED
    BY <1>1, <1>2, PatchedModel DEF Meets

\* An assignment is made of the values that it gives the names of its variables.
Read(I, f, z) == {IF f[i] \in z THEN f[i] ELSE -f[i] : i \in I}
LEMMA AssignmentOfNames ==
  ASSUME NEW I, NEW f, NEW J, NEW g, Named(I, f) \cup Named(J, g) \subseteq Nat \ {0},
         NEW z \in Assignments(Named(I, f) \cup Named(J, g))
  PROVE  z = Read(I, f, z) \cup Read(J, g, z)
  <1> DEFINE b == {IF f[i] \in z THEN f[i] ELSE -f[i] : i \in I}
                    \cup {IF g[i] \in z THEN g[i] ELSE -g[i] : i \in J}
  <1> PICK W : W = Named(I, f) \cup Named(J, g)
    OBVIOUS
  <1>1. /\ \A l \in z : l \in Int /\ LitVar(l) \in W /\ -l \notin z
        /\ \A v \in W : v \in z \/ -v \in z
    BY IsAssignment
  <1>2. ASSUME NEW v \in W
        PROVE  (IF v \in z THEN v ELSE -v) \in b
    <2>1. CASE \E i \in I : v = f[i]
      BY <2>1
    <2>2. CASE \E i \in J : v = g[i]
      BY <2>2
    <2> QED
      BY <2>1, <2>2 DEF Named
  <1>3. ASSUME NEW l \in b
        PROVE  \E v \in W : l = IF v \in z THEN v ELSE -v
    BY DEF Named
  <1> HIDE DEF b
  <1>4. ASSUME NEW l \in z
        PROVE  l \in b
    <2> PICK v : v = LitVar(l)
      OBVIOUS
    <2>1. v \in W /\ v \in Nat \ {0} /\ (l = v \/ l = -v) /\ -l \notin z /\ l \in Int
      BY <1>1 DEF LitVar
    <2>2. l = IF v \in z THEN v ELSE -v
      BY <2>1
    <2> QED
      BY <1>2, <2>1, <2>2
  <1>5. ASSUME NEW l \in b
        PROVE  l \in z
    BY <1>1, <1>3
  <1> QED
    BY <1>4, <1>5 DEF b, Read

\* What assignments of the two scopes say about latches and inputs.
StateOf(a) == [i \in DOMAIN latches |-> latches[i].var \in a]
NextOf(x) == [i \in DOMAIN latches |-> latches[i].primed \in x]
InputsOf(b, a) == [i \in Controlled(game, b) |-> inputs[i] \in a]
LEMMA Plays ==
  ASSUME Static, GameStatic
  PROVE  /\ \A a \in Assignments(Own(Universal)) :
              /\ StateOf(a) \in States(game) /\ InputsOf(FALSE, a) \in Uncontrolled
              /\ a = Position(StateOf(a), InputsOf(FALSE, a))
         /\ \A x \in Assignments(Own(Existential)) :
              /\ NextOf(x) \in States(game) /\ InputsOf(TRUE, x) \in InputValues(game, TRUE)
              /\ x = Move(NextOf(x), InputsOf(TRUE, x))
  <1> DEFINE D == DOMAIN latches
             R(b) == {j \in Controlled(game, b) : inputs[j] # 0}
             var == [i \in D |-> latches[i].var]
             primed == [i \in D |-> latches[i].primed]
  <1>1. /\ Own(Universal) = Named(D, var) \cup InputNodes(game, FALSE)
        /\ Own(Existential) = Named(D, primed) \cup InputNodes(game, TRUE)
        /\ Own(Universal) \subseteq Nat \ {0} /\ Own(Existential) \subseteq Nat \ {0}
    <2>1. /\ Named(D, var) = {latches[i].var : i \in DOMAIN latches}
          /\ Named(D, primed) = {latches[i].primed : i \in DOMAIN latches}
      BY DEF Named
    <2> HIDE DEF D, R, var, primed
    <2> QED
      BY <2>1, GameNodes, GameCircuit
  <1>2. \A b : InputNodes(game, b) = Named(R(b), inputs)
    BY DEF InputNodes, Controlled, game, Named
  <1>3. ASSUME NEW a \in Assignments(Own(Universal))
        PROVE  /\ StateOf(a) \in States(game) /\ InputsOf(FALSE, a) \in Uncontrolled
               /\ a = Position(StateOf(a), InputsOf(FALSE, a))
    <2>1. StateOf(a) \in States(game) /\ InputsOf(FALSE, a) \in Uncontrolled
      BY DEF StateOf, InputsOf, States, Uncontrolled, InputValues, game
    <2>2. StateLits(game, StateOf(a)) = {IF var[i] \in a THEN var[i] ELSE -var[i] : i \in D}
      BY DEF StateLits, StateOf, game
    <2>3. InputLits(game, InputsOf(FALSE, a)) = {IF inputs[i] \in a THEN inputs[i] ELSE -inputs[i] : i \in R(FALSE)}
      BY DEF InputLits, InputsOf, game
    <2> HIDE DEF D, R, var, primed
    <2>4. a = {IF var[i] \in a THEN var[i] ELSE -var[i] : i \in D}
                \cup {IF inputs[i] \in a THEN inputs[i] ELSE -inputs[i] : i \in R(FALSE)}
      <3> PICK C : C = R(FALSE)
        OBVIOUS
      <3>1. /\ Named(D, var) \cup Named(C, inputs) \subseteq Nat \ {0}
            /\ a \in Assignments(Named(D, var) \cup Named(C, inputs))
        BY <1>1, <1>2
      <3>2. a = Read(D, var, a) \cup Read(C, inputs, a)
        BY <3>1, AssignmentOfNames
      <3> QED
        BY <3>2 DEF Read
    <2> QED
      BY <2>1, <2>2, <2>3, <2>4 DEF Position
  <1>4. ASSUME NEW x \in Assignments(Own(Existential))
        PROVE  /\ NextOf(x) \in States(game) /\ InputsOf(TRUE, x) \in InputValues(game, TRUE)
               /\ x = Move(NextOf(x), InputsOf(TRUE, x))
    <2>1. NextOf(x) \in States(game) /\ InputsOf(TRUE, x) \in InputValues(game, TRUE)
      BY DEF NextOf, InputsOf, States, InputValues, game
    <2>2. NextLits(game, NextOf(x)) = {IF primed[i] \in x THEN primed[i] ELSE -primed[i] : i \in D}
      BY DEF NextLits, NextOf, game
    <2>3. InputLits(game, InputsOf(TRUE, x)) = {IF inputs[i] \in x THEN inputs[i] ELSE -inputs[i] : i \in R(TRUE)}
      BY DEF InputLits, InputsOf, game
    <2> HIDE DEF D, R, var, primed
    <2>4. x = {IF primed[i] \in x THEN primed[i] ELSE -primed[i] : i \in D}
                \cup {IF inputs[i] \in x THEN inputs[i] ELSE -inputs[i] : i \in R(TRUE)}
      <3> PICK C : C = R(TRUE)
        OBVIOUS
      <3>1. /\ Named(D, primed) \cup Named(C, inputs) \subseteq Nat \ {0}
            /\ x \in Assignments(Named(D, primed) \cup Named(C, inputs))
        BY <1>1, <1>2
      <3>2. x = Read(D, primed, x) \cup Read(C, inputs, x)
        BY <3>1, AssignmentOfNames
      <3> QED
        BY <3>2 DEF Read
    <2> QED
      BY <2>1, <2>2, <2>3, <2>4 DEF Move
  <1> QED
    BY <1>3, <1>4

GameSays(s, next, u, k) ==
  s[Len(latches)] \/ (next = Step(game, s, u @@ k) /\ ~next[Len(latches)])
LEMMA GamePlayed ==
  ASSUME Static, GameStatic
  PROVE  \A s \in States(game), next \in States(game), u \in Uncontrolled, k \in InputValues(game, TRUE) :
           Matrix(Position(s, u), Move(next, k)) <=> GameSays(s, next, u, k)
  BY MatrixIsGame DEF GameSays

\* So the matrix says that the next values are those of the game, and no error is raised.
LEMMA MatrixSays ==
  ASSUME Static, GameStatic, NEW a \in Assignments(Own(Universal)), NEW x \in Assignments(Own(Existential))
  PROVE  Matrix(a, x)
           <=> \/ ErrorLatch.var \in a
               \/ /\ NextOf(x) = Step(game, StateOf(a), InputsOf(FALSE, a) @@ InputsOf(TRUE, x))
                  /\ ErrorLatch.primed \notin x
  <1> PICK st : st = StateOf(a)
    OBVIOUS
  <1> PICK nx : nx = NextOf(x)
    OBVIOUS
  <1> PICK un : un = InputsOf(FALSE, a)
    OBVIOUS
  <1> PICK ct : ct = InputsOf(TRUE, x)
    OBVIOUS
  <1>1. a = Position(st, un) /\ x = Move(nx, ct)
    BY Plays
  <1>4. /\ st \in States(game) /\ un \in Uncontrolled
        /\ nx \in States(game) /\ ct \in InputValues(game, TRUE)
    BY Plays
  <1>2. Matrix(Position(st, un), Move(nx, ct)) <=> GameSays(st, nx, un, ct)
    BY <1>4, GamePlayed
  <1>3. (st[Len(latches)] <=> ErrorLatch.var \in a) /\ (nx[Len(latches)] <=> ErrorLatch.primed \in x)
    BY GameNodes DEF StateOf, NextOf, ErrorLatch
  <1> QED
    BY <1>1, <1>2, <1>3 DEF GameSays

\* An assignment with one literal set.
With(x, lit) == (x \ {-lit}) \cup {lit}
Assigns(V, y) ==
  /\ \A k \in y : k \in Int /\ LitVar(k) \in V /\ -k \notin y
  /\ \A v \in V : v \in y \/ -v \in y

\* Only assignments assign, and setting a literal yields one.
LEMMA AssigningIsAssignment ==
  ASSUME NEW V, V \subseteq Nat \ {0}, NEW y, Assigns(V, y)
  PROVE  y \in Assignments(V)
  <1>1. y \in Assignments(V) <=> Assigns(V, y)
    <2>1. y \in Assignments(V) <=>
            /\ \A l \in y : l \in Int /\ LitVar(l) \in V /\ -l \notin y
            /\ \A v \in V : v \in y \/ -v \in y
      BY IsAssignment
    <2> QED
      BY <2>1 DEF Assigns
  <1> QED
    BY <1>1

LEMMA WithAssigns ==
  ASSUME NEW V, V \subseteq Nat \ {0}, NEW x \in Assignments(V), NEW lit \in Int, LitVar(lit) \in V
  PROVE  With(x, lit) \in Assignments(V)
  <1> PICK y : y = With(x, lit)
    OBVIOUS
  <1>1. /\ \A k \in x : k \in Int /\ LitVar(k) \in V /\ -k \notin x
        /\ \A v \in V : v \in x \/ -v \in x
    BY IsAssignment
  <1>2. ASSUME NEW k \in y
        PROVE  k \in Int /\ LitVar(k) \in V /\ -k \notin y
    <2>1. k \in Int /\ LitVar(k) \in V
      BY <1>1 DEF With
    <2>2. lit # -lit /\ -(-k) = k /\ -(-lit) = lit
      <3>1. lit # 0
        BY DEF LitVar
      <3> QED
        BY <2>1, <3>1
    <2> QED
      BY <1>1, <2>1, <2>2 DEF With
  <1>3. ASSUME NEW v \in V
        PROVE  v \in y \/ -v \in y
    <2>1. -(-lit) = lit /\ v \in Int /\ -(-v) = v
      OBVIOUS
    <2>2. v = -lit => -v = lit
      OBVIOUS
    <2>3. -v = -lit => v = lit
      BY <2>1
    <2> QED
      BY <1>1, <2>1, <2>2, <2>3 DEF With
  <1>4. y \in Assignments(V)
    <2>1. Assigns(V, y)
      BY <1>2, <1>3 DEF Assigns
    <2> QED
      BY <2>1, AssigningIsAssignment
  <1> QED
    BY <1>4

\* If the next state does not raise the error, F' is lost for the environment.
LEMMA NextNotRaised ==
  ASSUME Static, GameStatic, NEW a \in Assignments(Own(Universal)),
         NEW x \in Assignments(Own(Existential)), -ErrorLatch.primed \in x
  PROVE  -FPrime \in InnerModel("forall", a, x)
  <1> PICK p : p = ErrorLatch.primed
    OBVIOUS
  <1> PICK b : b = a \cup x
    OBVIOUS
  <1> PICK T : T = t_lits[Existential]
    OBVIOUS
  <1> PICK M : M = InnerModel("forall", a, x)
    OBVIOUS
  <1>1. /\ FPrime \in Nodes(circuit) /\ circuit.node[FPrime].type = "and"
        /\ circuit.node[FPrime].inputs = <<-p>>
    BY ErrorGates
  <1>2. p \in Nodes(circuit) /\ IsVar(circuit, p) /\ p \in Nat \ {0} /\ p \in Own(Existential)
    BY GameNodes, GameCircuit DEF ErrorLatch, Own, ScopeVars
  <1>3. Range(circuit.node[FPrime].inputs) = {-p}
    BY <1>1 DEF Range
  <1>4. GateTypeFor(circuit, FPrime, "forall") = "or"
    BY <1>1 DEF GateTypeFor, DualGate
  <1>5. p \notin b
    <2>1. p \notin x
      <3>1. -(-p) = p /\ \A l \in x : -l \notin x
        BY <1>2, GameCircuit, IsAssignment
      <3> QED
        BY <3>1
    <2>2. p \notin a
      <3>1. \A l \in a : LitVar(l) \in Own(Universal)
        BY GameCircuit, IsAssignment
      <3>2. LitVar(p) = p
        BY <1>2 DEF LitVar
      <3> QED
        BY <1>2, <3>1, <3>2, GameCircuit
    <2> QED
      BY <2>1, <2>2
  <1>6. DecidedValue(circuit, p, b) # 1
    <2>1. DecidedValue(circuit, p, b) = FromInputs(circuit, p, b, InputsDecided(circuit, p, b))
      BY <1>2, DecidedNode DEF Static
    <2>2. DecidedValue(circuit, p, b) = IF p \in b THEN 1 ELSE IF -p \in b THEN -1 ELSE 0
      BY <1>2, <2>1, FromInputsCases DEF IsVar
    <2> QED
      BY <1>5, <2>2
  <1>7. InputFor(circuit, "forall", -p, b) # 1
    <2>1. LitVar(-p) = p /\ -p < 0
      BY <1>2 DEF LitVar
    <2>2. DecidedValue(circuit, p, b) \in {-1, 0, 1}
      BY <1>2, DecidedNode DEF Static, Truths
    <2>3. Signed(-p, DecidedValue(circuit, p, b)) = -DecidedValue(circuit, p, b)
      BY <2>1 DEF Signed
    <2> QED
      BY <1>6, <2>1, <2>2, <2>3 DEF InputFor, ForPlayer
  <1>8. ~Secured(circuit, "forall", Existential + 1, FPrime, b)
    BY <1>3, <1>4, <1>7 DEF Secured, Counted
  <1>9. Moves(circuit, Existential, "forall", T, a, x) /\ M = Canonical(circuit, "forall", Existential, T, a, x)
    BY GameMoves DEF Players, InnerModel
  <1>10. Says(circuit, Existential, "forall", T, a, x, M)
    BY <1>9, CanonicalLits
  <1>11. FPrime \in Gates(circuit)
    BY <1>1 DEF Gates, IsGate
  <1> QED
    BY <1>8, <1>10, <1>11 DEF Says

-----------------------------------------------------------------------------
(***************************************************************************)
(* The invariant: what the solver knows of the clauses of its instances.   *)
(***************************************************************************)
\* The latches of the game, without the error latch; cubes about them only.
GameLatches == DOMAIN latches \ {Len(latches)}
LatchLits == UNION {{latches[i].var, -latches[i].var} : i \in GameLatches}
NextLatchLits == UNION {{latches[i].primed, -latches[i].primed} : i \in GameLatches}

\* The dual instances do not read the error latch, so no excluded cube is about it.
ErrorUnread ==
  /\ Silent(negation[Universal], ErrorLatch.var)
  /\ Silent(negation[Existential], ErrorLatch.primed)
ErrorFree ==
  /\ \A cube \in excluded : cube \subseteq LatchLits
  /\ pc = "exclude" => value[ErrorLatch.var] = 0

\* What the existential dual instance refutes is an answer outside the current F: its clauses
\* are those of the encoding, the one for F, and for every excluded cube those of its label.
NegationKnown ==
  /\ \A cl \in negation[Existential] :
       \/ cl \in Instance(Existential, "forall")
       \/ -FPrime \in cl /\ -incremental_lit \in cl /\ incremental \subseteq cl
       \/ Off(cl)
  /\ \A lit \in incremental : lit # incremental_lit
  /\ \A cube \in excluded : \E lit \in incremental :
       \A cl \in negation[Existential] : -lit \in cl => \E l \in cube : Primed(l) \in cl

\* A refinement's clause is met unless the control can answer and stay in its sub_states.
Unraised == {a \in Assignments(Own(Universal)) : ErrorLatch.var \notin a}
LeadsTo(x, sub) == \A l \in LatchLits : Primed(l) \in x => l \in sub
CanAnswer(a, sub) == \E x \in Assignments(Own(Existential)) : Keeps(a, x) /\ LeadsTo(x, sub)
Works(sub, cl) == \A a \in Unraised : cl \cap OuterModel("forall", a) # {} \/ CanAnswer(a, sub)
RefinementsWork ==
  \A r \in refinements : \A cl \in Guarded(r.incremental_literal) : Works(r.sub_states, cl)

\* The clauses of the universal instance.
OffOuter(cl) == \E l \in cl : l < -(2 * MaxNum(circuit)) /\ -l \notin OuterAssumed
OuterKnown ==
  \A cl \in sat[Universal] :
    \/ cl \in Instance(Universal, "forall")
    \/ \E cube \in excluded : cl = Opposite(cube)
    \/ OffOuter(cl)
    \/ \E r \in refinements : cl \in Guarded(r.incremental_literal)

\* What the dual instance has refuted of an answer: the controls, with the next values and
\* the t-literals that are left.
Controls(x) == {l \in x : LitVar(l) \notin LatchesOf(Existential)}
AnswerRefuted(x, on) ==
  ~Satisfiable(negation[Existential],
     Controls(x) \cup Cube(Existential) \cup on \cup Opposite(entry[Existential]) \cup {incremental_lit})
AnswerKnown ==
  \E x \in Assignments(Own(Existential)), on \in SUBSET (t_lits[Existential] \ entry[Existential]) :
    Cube(Existential) \subseteq x /\ AnswerRefuted(x, on)

Running == pc \notin {"no_fixpoint", "abort"}
HInv ==
  Running =>
    /\ ErrorUnread /\ ErrorFree /\ NegationKnown /\ RefinementsWork /\ OuterKnown
    /\ \A cube \in excluded : ~ContainsInitial(cube)
    /\ pc = "answered" => AnswerKnown
    /\ pc = "inductive" => CanStayIn(Safe)

-----------------------------------------------------------------------------
\* Latch literals are about nodes, and priming takes them to the next values.
LEMMA LatchLiterals ==
  ASSUME Static, GameStatic
  PROVE  /\ \A l \in LatchLits : /\ Primed(l) \in NextLatchLits /\ Known(l) /\ Known(-l)
                                 /\ Primed(-l) = -Primed(l) /\ -l \in LatchLits /\ l \in Int /\ -(-l) = l
                                 /\ LitVar(l) \in Own(Universal) /\ LitVar(l) # ErrorLatch.var
                                 /\ LitVar(Primed(l)) \in LatchesOf(Existential)
         /\ \A p \in NextLatchLits : /\ \E l \in LatchLits : Primed(l) = p
                                     /\ p \in Int /\ -p \in NextLatchLits
                                     /\ LitVar(p) \in Own(Existential) /\ LitVar(p) # ErrorLatch.primed
         /\ ErrorLatch.primed \in LatchesOf(Existential)
  <1>1. ASSUME NEW i \in GameLatches
        PROVE  /\ latches[i].var \in Own(Universal) /\ latches[i].primed \in LatchesOf(Existential)
               /\ latches[i].primed \in Own(Existential)
               /\ latches[i].var \in Nat \ {0} /\ latches[i].primed \in Nat \ {0}
               /\ latches[i].var # ErrorLatch.var /\ latches[i].primed # ErrorLatch.primed
               /\ Primed(latches[i].var) = latches[i].primed
               /\ Primed(-latches[i].var) = -latches[i].primed
               /\ Known(latches[i].var) /\ Known(-latches[i].var)
    <2>1. i \in DOMAIN latches /\ Len(latches) \in DOMAIN latches /\ i # Len(latches)
      BY GameNodes DEF GameLatches
    <2>2. /\ latches[i].var \in Own(Universal) /\ latches[i].primed \in Own(Existential)
          /\ latches[i].var # ErrorLatch.var /\ latches[i].primed # ErrorLatch.primed
      BY <2>1, GameNodes DEF ErrorLatch
    <2>3. latches[i].primed \in LatchesOf(Existential)
      BY <2>1, <2>2 DEF LatchesOf, Universal, Existential
    <2>4. latches[i].var \in Nat \ {0} /\ latches[i].primed \in Nat \ {0} /\ latches[i].var \in Nodes(circuit)
      BY <2>2, GameCircuit
    <2> QED
      BY <2>1, <2>2, <2>3, <2>4, PrimedLatch, KnownLiterals
  <1>2. ASSUME NEW l \in LatchLits
        PROVE  /\ Primed(l) \in NextLatchLits /\ Known(l) /\ Known(-l)
               /\ Primed(-l) = -Primed(l) /\ -l \in LatchLits /\ l \in Int /\ -(-l) = l
               /\ LitVar(l) \in Own(Universal) /\ LitVar(l) # ErrorLatch.var
               /\ LitVar(Primed(l)) \in LatchesOf(Existential)
    <2>1. PICK i \in GameLatches : l = latches[i].var \/ l = -latches[i].var
      BY DEF LatchLits
    <2>2. PICK v : v = latches[i].var
      OBVIOUS
    <2>3. PICK p : p = latches[i].primed
      OBVIOUS
    <2>4. /\ v \in Nat \ {0} /\ p \in Nat \ {0} /\ Primed(v) = p /\ Primed(-v) = -p
          /\ Known(v) /\ Known(-v) /\ v \in Own(Universal) /\ p \in LatchesOf(Existential)
          /\ v # ErrorLatch.var
      BY <1>1, <2>2, <2>3
    <2>5. /\ -(-v) = v /\ LitVar(v) = v /\ LitVar(-v) = v /\ LitVar(p) = p /\ LitVar(-p) = p /\ -(-p) = p
      BY <2>4 DEF LitVar
    <2>6. v \in LatchLits /\ -v \in LatchLits /\ p \in NextLatchLits /\ -p \in NextLatchLits
      BY <2>2, <2>3 DEF LatchLits, NextLatchLits
    <2>7. l = v \/ l = -v
      BY <2>1, <2>2
    <2> QED
      BY <2>4, <2>5, <2>6, <2>7
  <1>3. ASSUME NEW p \in NextLatchLits
        PROVE  /\ \E l \in LatchLits : Primed(l) = p
               /\ p \in Int /\ -p \in NextLatchLits
               /\ LitVar(p) \in Own(Existential) /\ LitVar(p) # ErrorLatch.primed
    <2>1. PICK i \in GameLatches : p = latches[i].primed \/ p = -latches[i].primed
      BY DEF NextLatchLits
    <2>2. PICK v : v = latches[i].var
      OBVIOUS
    <2>3. PICK n : n = latches[i].primed
      OBVIOUS
    <2>4. /\ v \in Nat \ {0} /\ n \in Nat \ {0} /\ Primed(v) = n /\ Primed(-v) = -n
          /\ n \in Own(Existential) /\ n # ErrorLatch.primed
      BY <1>1, <2>2, <2>3
    <2>5. LitVar(n) = n /\ LitVar(-n) = n /\ -(-n) = n
      BY <2>4 DEF LitVar
    <2>6. v \in LatchLits /\ -v \in LatchLits /\ n \in NextLatchLits /\ -n \in NextLatchLits
      BY <2>2, <2>3 DEF LatchLits, NextLatchLits
    <2>7. p = n \/ p = -n
      BY <2>1, <2>3
    <2> QED
      BY <2>4, <2>5, <2>6, <2>7
  <1>4. ErrorLatch.primed \in LatchesOf(Existential)
    BY GameNodes DEF LatchesOf, ErrorLatch, Universal, Existential
  <1> QED
    BY <1>2, <1>3, <1>4

-----------------------------------------------------------------------------
(***************************************************************************)
(* What the existential dual instance refutes of an answer, and why the    *)
(* refinement that is made of it is right.                                 *)
(***************************************************************************)
\* Known literals are numbers below the next label.
LEMMA KnownNumbers ==
  ASSUME Static, Labels
  PROVE  \A l : Known(l) => l \in Int /\ -next_lit < l /\ l < next_lit
  <1> PICK N : N = MaxNum(circuit)
    OBVIOUS
  <1>1. N \in Nat /\ next_lit \in Nat /\ 2 * N < next_lit
    BY Interfaces DEF Labels
  <1>2. \A l \in ClauseLits(circuit) : l \in Int /\ -next_lit < l /\ l < next_lit
    BY <1>1 DEF ClauseLits
  <1>3. \A l \in Int : Abs(l) < next_lit => -next_lit < l /\ l < next_lit
    BY <1>1 DEF Abs
  <1> QED
    BY <1>2, <1>3 DEF Known

\* What the existential dual instance refutes of an answer: unless a t-literal that is left is
\* secured for the environment, some clause is against every next state and controls that the
\* refuted part fits, under whatever labels.
Fits(x, y) == Controls(x) \subseteq y /\ \A l \in Cube(Existential) : l \in y \/ LitVar(l) = ErrorLatch.primed
NoneSecured(a) ==
  \A t \in entry[Existential] : ~Secured(circuit, "forall", Existential, TLitToVarId(circuit, t), a)
LEMMA AnswerRefutes ==
  ASSUME Static, GameStatic, Labels, Bounds, ErrorUnread, pc # "no_fixpoint",
         entry[Existential] \subseteq t_lits[Existential],
         NEW x \in Assignments(Own(Existential)), NEW on \in SUBSET (t_lits[Existential] \ entry[Existential]),
         Cube(Existential) \subseteq x, AnswerRefuted(x, on),
         NEW a \in Assignments(Own(Universal)), NoneSecured(a),
         NEW y \in Assignments(Own(Existential)), Fits(x, y),
         NEW marks, incremental_lit \in marks, \A m \in marks : Label(m)
  PROVE  \E cl \in negation[Existential] :
           /\ cl \cap marks = {} /\ cl \cap InnerModel("forall", a, y) = {}
           /\ \A l \in cl : l < -(2 * MaxNum(circuit)) => -l \in marks
  <1> SUFFICES ASSUME \A cl \in negation[Existential] :
                        \/ \E l \in cl : l < -(2 * MaxNum(circuit)) /\ -l \notin marks
                        \/ cl \cap marks # {} \/ cl \cap InnerModel("forall", a, y) # {}
               PROVE  FALSE
    BY Zenon
  <1> PICK T : T = t_lits[Existential]
    OBVIOUS
  <1> PICK M : M = InnerModel("forall", a, y)
    OBVIOUS
  <1> PICK clauses : clauses = negation[Existential]
    OBVIOUS
  <1> PICK failed : failed = Opposite(entry[Existential])
    OBVIOUS
  <1> PICK own : own = Controls(x) \cup Cube(Existential)
    OBVIOUS
  <1> PICK N : N = MaxNum(circuit)
    OBVIOUS
  <1>1. /\ Moves(circuit, Existential, "forall", T, a, y)
        /\ M = Canonical(circuit, "forall", Existential, T, a, y)
    BY GameMoves DEF Players, InnerModel
  <1>2. N \in Nat /\ next_lit \in Nat /\ 2 * N < next_lit
    BY Interfaces DEF Labels
  <1>3. /\ clauses \in Instances /\ FiniteClauses(clauses)
        /\ \A t \in T : \A cl \in clauses : -t \notin cl
    BY <1>2, KnownClauses DEF Bounds
  <1>4. \A t \in T : /\ t = TLit(circuit, TLitToVarId(circuit, t)) /\ t \in Nat
                     /\ TLitToVarId(circuit, t) \in Gates(circuit)
    BY GameCircuit, Interfaces
  <1>5. \A cl \in clauses : \/ \E l \in cl : l < -(2 * N) /\ -l \notin marks
                            \/ cl \cap marks # {} \/ cl \cap M # {}
    OBVIOUS
  <1>6. /\ \A l \in marks : l \in Nat /\ l > 2 * N
        /\ failed \subseteq Opposite(T) /\ failed \cap Opposite(on) = {} /\ on \subseteq T
    <2>1. \A m \in marks : m \in Nat /\ m > 2 * N
      BY <1>2 DEF Label
    <2>2. failed \subseteq Opposite(T)
      BY DEF Opposite
    <2>3. failed \cap Opposite(on) = {}
      <3>1. \A t \in entry[Existential] : t \in Int
        BY <1>4
      <3>2. \A t \in on : t \in Int
        BY <1>4
      <3> QED
        BY <3>1, <3>2 DEF Opposite
    <2> QED
      BY <2>1, <2>2, <2>3
  <1>7. NoOpposites(own) /\ own \subseteq x
    <2>1. own \subseteq x
      BY DEF Controls
    <2>2. \A k \in x : k \in Int /\ -k \notin x
      BY GameCircuit, IsAssignment
    <2> QED
      BY <2>1, <2>2 DEF NoOpposites, Opposite
  <1>8. \A l \in own : LitVar(l) <= N /\ (l \in y \/ \A cl \in clauses : -l \notin cl)
    <2> TAKE l \in own
    <2>1. l \in Int /\ LitVar(l) \in Own(Existential)
      BY <1>7, GameCircuit, IsAssignment
    <2>2. LitVar(l) <= N
      BY <2>1, GameCircuit, Interfaces
    <2>3. l \in y \/ LitVar(l) = ErrorLatch.primed
      BY DEF Fits
    <2>4. -l \in {LitVar(l), -LitVar(l)}
      BY <2>1 DEF LitVar
    <2> QED
      BY <2>2, <2>3, <2>4 DEF ErrorUnread, Silent
  <1>9. \E asked \in SUBSET marks : ~Satisfiable(clauses, own \cup on \cup failed \cup asked)
    <2>1. {incremental_lit} \in SUBSET marks
      OBVIOUS
    <2> QED
      BY <2>1 DEF AnswerRefuted
  <1>10. \A t \in T : (\E i \in Gates(circuit) : t = TLit(circuit, i)) /\ \A cl \in clauses : -t \notin cl
    BY <1>3, <1>4
  <1>11. \E t \in Opposite(failed) : t \in T /\ Secured(circuit, "forall", Existential, TLitToVarId(circuit, t), a)
    <2>1. Refutation(circuit, Existential, "forall", T, a, y, clauses, marks, own, on, failed)
      BY <1>1, <1>3, <1>5, <1>6, <1>7, <1>8, <1>9, <1>10 DEF Refutation
    <2> QED
      BY <2>1, LabelledSays
  <1>12. Opposite(failed) \subseteq entry[Existential]
    <2>1. \A t \in entry[Existential] : -(-t) = t
      BY <1>4
    <2> QED
      BY <2>1 DEF Opposite
  <1> QED
    BY <1>11, <1>12 DEF NoneSecured

\* So they are what the game does, and the next state is in F: if it is none of the game the
\* clauses of the encoding and the one for F are met, and if it is in an excluded cube those
\* of the encoding, with the error raised instead, and with the label of the cube the others.
LEMMA FittingKeeps ==
  ASSUME Static, GameStatic, Labels, Bounds, ErrorUnread, ErrorFree, NegationKnown,
         pc # "no_fixpoint", entry[Existential] \subseteq t_lits[Existential],
         NEW x \in Assignments(Own(Existential)), NEW on \in SUBSET (t_lits[Existential] \ entry[Existential]),
         Cube(Existential) \subseteq x, AnswerRefuted(x, on),
         NEW a \in Unraised, NoneSecured(a),
         NEW y \in Assignments(Own(Existential)), Fits(x, y), -ErrorLatch.primed \in y
  PROVE  Keeps(a, y)
  <1> PICK e : e = ErrorLatch.primed
    OBVIOUS
  <1> PICK N : N = MaxNum(circuit)
    OBVIOUS
  <1>1. a \in Assignments(Own(Universal)) /\ ErrorLatch.var \notin a
    BY DEF Unraised
  <1>2. N \in Nat /\ Label(incremental_lit) /\ incremental_lit \in Nat /\ 2 * N < incremental_lit
    BY Interfaces DEF Labels, Label
  <1>3. e \in Own(Existential) /\ e \in Nat \ {0}
    BY GameNodes, GameCircuit DEF ErrorLatch
  <1>4. ASSUME NEW cl \in negation[Existential], NEW marks, \A l \in cl : l < -(2 * N) => -l \in marks,
               \A m \in marks : Label(m), Off(cl)
        PROVE  \E m \in marks : m # incremental_lit /\ -m \in cl
    <2>1. PICK l \in cl : l < -(2 * N) /\ l # -incremental_lit
      BY <1>4 DEF Off
    <2>2. -l \in marks /\ Label(-l)
      BY <1>4, <2>1
    <2>3. l \in Int
      BY <2>1, KnownNumbers DEF Bounds
    <2>4. -(-l) = l /\ -l # incremental_lit
      BY <1>2, <2>1, <2>3
    <2> QED
      BY <2>2, <2>4
  <1>5. Matrix(a, y)
    <2> SUFFICES ASSUME ~Matrix(a, y)
                 PROVE  FALSE
      OBVIOUS
    <2> PICK marks : marks = {incremental_lit}
      OBVIOUS
    <2>1. PICK cl \in negation[Existential] :
            /\ cl \cap marks = {} /\ cl \cap InnerModel("forall", a, y) = {}
            /\ \A l \in cl : l < -(2 * N) => -l \in marks
      BY <1>1, <1>2, AnswerRefutes
    <2>2. cl \notin Instance(Existential, "forall")
      BY <1>1, <2>1, EncodingMet DEF Players, MatrixFor
    <2>3. -FPrime \notin cl
      BY <1>1, <2>1, NextNotRaised
    <2>4. Off(cl)
      BY <2>2, <2>3 DEF NegationKnown
    <2> QED
      BY <1>2, <1>4, <2>1, <2>4
  <1>6. ASSUME NEW cube \in excluded, {Primed(l) : l \in cube} \subseteq y
        PROVE  FALSE
    <2> PICK z : z = With(y, e)
      OBVIOUS
    <2>1. z \in Assignments(Own(Existential)) /\ e \in z /\ \A l \in y : l = -e \/ l \in z
      <3>1. e \in Int /\ LitVar(e) = e
        BY <1>3 DEF LitVar
      <3>2. z \in Assignments(Own(Existential))
        BY <1>3, <3>1, GameCircuit, WithAssigns
      <3> QED
        BY <3>2 DEF With
    <2>2. ~Matrix(a, z)
      BY <1>1, <2>1, MatrixSays
    <2>3. Fits(x, z)
      <3>1. LitVar(-e) = e /\ e \in LatchesOf(Existential)
        BY <1>3, LatchLiterals DEF LitVar
      <3> QED
        BY <2>1, <3>1 DEF Fits, Controls
    <2>4. PICK lit \in incremental : \A cl \in negation[Existential] : -lit \in cl => \E l \in cube : Primed(l) \in cl
      BY DEF NegationKnown
    <2> PICK marks : marks = {incremental_lit, lit}
      OBVIOUS
    <2>5. \A m \in marks : Label(m)
      BY <1>2, <2>4 DEF Bounds
    <2>6. PICK cl \in negation[Existential] :
            /\ cl \cap marks = {} /\ cl \cap InnerModel("forall", a, z) = {}
            /\ \A l \in cl : l < -(2 * N) => -l \in marks
      BY <1>1, <2>1, <2>3, <2>5, AnswerRefutes
    <2>7. cl \notin Instance(Existential, "forall")
      BY <1>1, <2>1, <2>2, <2>6, EncodingMet DEF Players, MatrixFor
    <2>8. Off(cl)
      BY <2>4, <2>6, <2>7 DEF NegationKnown
    <2>9. -lit \in cl
      BY <1>4, <2>5, <2>6, <2>8
    <2>10. PICK l \in cube : Primed(l) \in cl
      BY <2>4, <2>9
    <2>11. Primed(l) \in z
      <3>1. l \in LatchLits
        BY DEF ErrorFree
      <3>2. Primed(l) \in NextLatchLits /\ LitVar(Primed(l)) # e
        BY <3>1, LatchLiterals
      <3>3. LitVar(-e) = e
        BY <1>3 DEF LitVar
      <3>4. Primed(l) \in y
        BY <1>6
      <3> QED
        BY <2>1, <3>2, <3>3, <3>4
    <2>12. z \subseteq InnerModel("forall", a, z)
      BY DEF InnerModel, Canonical
    <2> QED
      BY <2>6, <2>10, <2>11, <2>12
  <1> QED
    BY <1>5, <1>6 DEF Keeps

\* The latch of a next value.
LEMMA UnprimedLatch ==
  ASSUME Static, GameStatic, NEW l \in LatchLits
  PROVE  Unprimed(Primed(l)) = l
  <1>1. PICK i \in GameLatches : l = latches[i].var \/ l = -latches[i].var
    BY DEF LatchLits
  <1> PICK n : n = latches[i].primed
    OBVIOUS
  <1>2. i \in DOMAIN latches /\ n \in Nat \ {0} /\ latches[i].var \in Nat \ {0}
    BY GameNodes, GameCircuit DEF GameLatches
  <1>3. Abs(n) = n /\ Abs(-n) = n /\ -n < 0 /\ ~(n < 0)
    BY <1>2 DEF Abs
  <1>4. (CHOOSE j \in DOMAIN latches : latches[j].primed = n) = i
    BY <1>2, GameNodes
  <1>5. /\ Primed(latches[i].var) = n /\ Primed(-latches[i].var) = -n
    BY <1>2, PrimedLatch
  <1>6. Unprimed(n) = latches[i].var /\ Unprimed(-n) = -latches[i].var
    BY <1>3, <1>4 DEF Unprimed, Signed
  <1> QED
    BY <1>1, <1>5, <1>6

\* Next states with the same controls that follow from a position are the same.
LEMMA OneNextState ==
  ASSUME Static, GameStatic, NEW a \in Unraised,
         NEW y \in Assignments(Own(Existential)), Matrix(a, y),
         NEW p \in NextLatchLits, p \in y, Matrix(a, With(y, -p))
  PROVE  FALSE
  <1> PICK z : z = With(y, -p)
    OBVIOUS
  <1>1. PICK i \in GameLatches : p = latches[i].primed \/ p = -latches[i].primed
    BY DEF NextLatchLits
  <1> PICK n : n = latches[i].primed
    OBVIOUS
  <1>2. i \in DOMAIN latches /\ n \in Nat \ {0} /\ n \in Own(Existential)
    BY GameNodes, GameCircuit DEF GameLatches
  <1>3. (p = n \/ p = -n) /\ -(-n) = n /\ n # -n
    BY <1>1, <1>2
  <1>4. z \in Assignments(Own(Existential))
    <2>1. -p \in Int /\ LitVar(-p) = n
      BY <1>2, <1>3 DEF LitVar
    <2> QED
      BY <1>2, <2>1, GameCircuit, WithAssigns
  <1>5. \A k \in y : -k \notin y
    BY GameCircuit, IsAssignment
  <1>6. ~(n \in y <=> n \in z)
    BY <1>3, <1>5 DEF With
  <1>7. InputsOf(TRUE, z) = InputsOf(TRUE, y)
    <2>1. ASSUME NEW k \in Controlled(game, TRUE)
          PROVE  (inputs[k] \in z) = (inputs[k] \in y)
      <3>1. k \in DOMAIN inputs
        BY GameNodes DEF Controlled, game
      <3>2. inputs[k] # n /\ inputs[k] \in Nat
        <4>1. inputs[k] = 0 \/ inputs[k] \in InputNodes(game, TRUE)
          BY DEF InputNodes, game
        <4>2. inputs[k] \in Nat
          <5>1. \A v \in InputNodes(game, TRUE) : v \in Own(Existential)
            BY GameNodes
          <5>2. Own(Existential) \subseteq Nat
            BY GameCircuit
          <5>3. CASE inputs[k] = 0
            BY <5>3
          <5>4. CASE inputs[k] # 0
            <6>1. inputs[k] \in Own(Existential)
              BY <4>1, <5>1, <5>4
            <6> QED
              BY <5>2, <6>1
          <5> QED
            BY <5>3, <5>4
        <4>3. inputs[k] # n
          BY <1>2, <3>1, GameNodes
        <4> QED
          BY <4>2, <4>3
      <3>3. inputs[k] # -n
        BY <1>2, <3>2
      <3>4. inputs[k] \in z <=> inputs[k] \in y
        BY <1>3, <3>2, <3>3 DEF With
      <3> QED
        BY <3>4
    <2> QED
      BY <2>1, Zenon DEF InputsOf
  <1>8. NextOf(z) = NextOf(y)
    <2>1. a \in Assignments(Own(Universal)) /\ ErrorLatch.var \notin a
      BY DEF Unraised
    <2>2. NextOf(y) = Step(game, StateOf(a), InputsOf(FALSE, a) @@ InputsOf(TRUE, y))
      BY <2>1, MatrixSays
    <2>3. NextOf(z) = Step(game, StateOf(a), InputsOf(FALSE, a) @@ InputsOf(TRUE, z))
      BY <1>4, <2>1, MatrixSays
    <2> QED
      BY <1>7, <2>2, <2>3
  <1>9. NextOf(z)[i] = NextOf(y)[i]
    BY <1>8
  <1> QED
    BY <1>2, <1>6, <1>9 DEF NextOf

\* So the clause that refine adds is met wherever the answer does not lead to what the dual
\* instance needed of the next state: with these controls every next state that fits is the
\* one of the game, so the next state has to be decided.
LEMMA AnswerWorks ==
  ASSUME Static, GameStatic, Labels, Bounds, ErrorUnread, ErrorFree, NegationKnown, AnswerKnown,
         pc # "no_fixpoint", entry[Existential] \subseteq t_lits[Existential]
  PROVE  Works({Unprimed(l) : l \in Cube(Existential)}, RefinementClause)
  <1> PICK x \in Assignments(Own(Existential)), on \in SUBSET (t_lits[Existential] \ entry[Existential]) :
         Cube(Existential) \subseteq x /\ AnswerRefuted(x, on)
    BY DEF AnswerKnown
  <1> PICK sub : sub = {Unprimed(l) : l \in Cube(Existential)}
    OBVIOUS
  <1> SUFFICES ASSUME NEW a \in Unraised, RefinementClause \cap OuterModel("forall", a) = {}
               PROVE  CanAnswer(a, sub)
    BY DEF Works
  <1> PICK e : e = ErrorLatch.primed
    OBVIOUS
  <1>1. a \in Assignments(Own(Universal)) /\ ErrorLatch.var \notin a
    BY DEF Unraised
  <1>2. NoneSecured(a)
    <2> SUFFICES ASSUME NEW t \in entry[Existential],
                        Secured(circuit, "forall", Existential, TLitToVarId(circuit, t), a)
                 PROVE  FALSE
      BY DEF NoneSecured
    <2>1. Translated(circuit, b_lits[Universal], entry[Existential]) \cap OuterModel("forall", a) # {}
      BY <1>1, HandedOver DEF Players
    <2>2. Translated(circuit, b_lits[Universal], entry[Existential]) \subseteq FailedBLits \cup PassedT
      BY DEF Translated, FailedBLits, PassedT
    <2> QED
      BY <2>1, <2>2 DEF RefinementClause
  <1>3. ASSUME NEW z \in Assignments(Own(Existential)), Fits(x, z), -e \in z
        PROVE  Keeps(a, z)
    BY <1>2, <1>3, FittingKeeps
  <1>4. e \in Own(Existential) /\ e \in Nat \ {0} /\ LitVar(-e) = e /\ LitVar(e) = e /\ -(-e) = e
    <2>1. e \in Own(Existential) /\ e \in Nat \ {0}
      BY GameNodes, GameCircuit DEF ErrorLatch
    <2> QED
      BY <2>1 DEF LitVar
  <1> PICK y : y = With(x, -e)
    OBVIOUS
  <1>5. y \in Assignments(Own(Existential)) /\ -e \in y /\ \A k \in x : k \in y \/ LitVar(k) = e
    <2>1. y \in Assignments(Own(Existential))
      BY <1>4, GameCircuit, WithAssigns
    <2> QED
      BY <1>4, <2>1 DEF With
  <1>6. Fits(x, y)
    BY <1>5, LatchLiterals DEF Fits, Controls
  <1>7. Keeps(a, y)
    BY <1>3, <1>5, <1>6
  <1>8. ASSUME NEW l \in LatchLits, Primed(l) \in y
        PROVE  l \in sub
    <2> PICK p : p = Primed(l)
      OBVIOUS
    <2>1. /\ p \in NextLatchLits /\ p \in y /\ p \in Int /\ LitVar(p) # e
          /\ LitVar(p) \in LatchesOf(Existential) /\ LitVar(p) \in Own(Existential)
      BY <1>8, LatchLiterals
    <2>2. -(-p) = p /\ LitVar(-p) = LitVar(p) /\ -p \in Int
      BY <2>1 DEF LitVar
    <2>3. p \in Cube(Existential)
      <3> SUFFICES ASSUME p \notin Cube(Existential)
                   PROVE  FALSE
        OBVIOUS
      <3> PICK z : z = With(y, -p)
        OBVIOUS
      <3>1. z \in Assignments(Own(Existential))
        BY <1>5, <2>1, <2>2, GameCircuit, WithAssigns
      <3>2. \A k \in y : k \in z \/ k = p
        BY <2>2 DEF With
      <3>3. -e \in z
        BY <1>4, <1>5, <2>1, <3>2
      <3>4. Fits(x, z)
        BY <1>6, <2>1, <3>2 DEF Fits, Controls
      <3>5. Keeps(a, z)
        BY <1>3, <3>1, <3>3, <3>4
      <3> QED
        BY <1>5, <1>7, <2>1, <3>5, OneNextState DEF Keeps
    <2>4. Unprimed(p) = l
      BY UnprimedLatch
    <2> QED
      BY <2>3, <2>4
  <1> QED
    BY <1>5, <1>7, <1>8 DEF CanAnswer, LeadsTo

-----------------------------------------------------------------------------
(***************************************************************************)
(* What the universal instance has left: if a position is ruled out then   *)
(* the control can stay in F from it.                                      *)
(***************************************************************************)
\* A next state that keeps the play in F is a safe one.
LEMMA KeepingIsSafe ==
  ASSUME Static, GameStatic, ErrorFree, NEW s \in NoError, NEW u \in Uncontrolled,
         NEW x \in Assignments(Own(Existential)), Keeps(Position(s, u), x)
  PROVE  CanStay(s, u, Safe)
  <1> PICK nx : nx = NextOf(x)
    OBVIOUS
  <1> PICK ct : ct = InputsOf(TRUE, x)
    OBVIOUS
  <1>1. nx \in States(game) /\ ct \in InputValues(game, TRUE) /\ x = Move(nx, ct)
    BY Plays
  <1>2. s \in States(game) /\ ~s[Len(latches)]
    BY DEF NoError
  <1>3. nx = Step(game, s, u @@ ct) /\ ~nx[Len(latches)]
    <2>1. Matrix(Position(s, u), Move(nx, ct))
      BY <1>1 DEF Keeps
    <2>2. GameSays(s, nx, u, ct)
      BY <1>1, <1>2, <2>1, GamePlayed
    <2> QED
      BY <1>2, <2>2 DEF GameSays
  <1>4. ASSUME NEW cube \in excluded
        PROVE  nx \notin StatesIn(cube)
    <2> SUFFICES ASSUME nx \in StatesIn(cube)
                 PROVE  FALSE
      OBVIOUS
    <2>1. ASSUME NEW l \in cube
          PROVE  Primed(l) \in x
      <3>1. PICK i \in GameLatches : l = latches[i].var \/ l = -latches[i].var
        BY DEF ErrorFree, LatchLits
      <3>2. i \in DOMAIN latches
        BY <3>1 DEF GameLatches
      <3>3. /\ Primed(latches[i].var) = latches[i].primed
            /\ Primed(-latches[i].var) = -latches[i].primed
        BY <3>2, PrimedLatch
      <3>4. (IF nx[i] THEN latches[i].primed ELSE -latches[i].primed) \in x
        BY <1>1, <3>2 DEF Move, NextLits, game
      <3>5. (l = latches[i].var => nx[i]) /\ (l = -latches[i].var => ~nx[i])
        BY <3>2 DEF StatesIn
      <3> QED
        BY <3>1, <3>3, <3>4, <3>5
    <2>2. {Primed(l) : l \in cube} \subseteq x
      BY <2>1
    <2> QED
      BY <2>2 DEF Keeps
  <1>5. nx \in Safe
    BY <1>1, <1>3, <1>4 DEF Safe, NoError
  <1> QED
    BY <1>1, <1>3, <1>5 DEF CanStay

\* Where the error is not raised the encoding for the environment is met.
LEMMA OuterMet ==
  ASSUME Static, GameStatic, NEW a \in Unraised, NEW cl \in Instance(Universal, "forall")
  PROVE  cl \cap OuterModel("forall", a) # {}
  <1> PICK e : e = ErrorLatch.primed
    OBVIOUS
  <1>1. PICK y \in Assignments(Own(Existential)) : TRUE
    BY AssignmentsExist
  <1>2. e \in Own(Existential) /\ e \in Nat \ {0} /\ LitVar(e) = e
    <2>1. e \in Own(Existential) /\ e \in Nat \ {0}
      BY GameNodes, GameCircuit DEF ErrorLatch
    <2> QED
      BY <2>1 DEF LitVar
  <1> PICK z : z = With(y, e)
    OBVIOUS
  <1>3. z \in Assignments(Own(Existential)) /\ e \in z
    <2>1. z \in Assignments(Own(Existential))
      BY <1>2, GameCircuit, WithAssigns
    <2> QED
      BY <2>1 DEF With
  <1>4. a \in Assignments(Own(Universal)) /\ ErrorLatch.var \notin a
    BY DEF Unraised
  <1>5. ~Matrix(a, z)
    BY <1>3, <1>4, MatrixSays
  <1> QED
    BY <1>3, <1>4, <1>5, EncodingMet DEF Players, MatrixFor

\* A safe state is in no excluded cube.
LEMMA OutsideIsSafe ==
  ASSUME Static, GameStatic, NEW s \in Safe, NEW u \in Uncontrolled
  PROVE  /\ s \in NoError /\ Position(s, u) \in Unraised
         /\ \A cube \in excluded : Opposite(cube) \cap Position(s, u) # {}
  <1>1. s \in NoError /\ s \in States(game) /\ ~s[Len(latches)]
    BY DEF Safe, NoError
  <1>2. Position(s, u) \in Unraised
    <2>1. Position(s, u) \in Assignments(Own(Universal))
      BY <1>1, Positions
    <2>2. -ErrorLatch.var \in Position(s, u)
      BY <1>1, GameNodes DEF Position, StateLits, game, ErrorLatch
    <2> QED
      BY <2>1, <2>2, GameCircuit, IsAssignment DEF Unraised
  <1>3. ASSUME NEW cube \in excluded
        PROVE  Opposite(cube) \cap Position(s, u) # {}
    <2>1. s \notin StatesIn(cube)
      BY DEF Safe
    <2>2. PICK i \in DOMAIN latches : \/ latches[i].var \in cube /\ ~s[i]
                                      \/ -latches[i].var \in cube /\ s[i]
      BY <1>1, <2>1 DEF StatesIn
    <2>3. (IF s[i] THEN latches[i].var ELSE -latches[i].var) \in Position(s, u)
      BY DEF Position, StateLits, game
    <2>4. -(-latches[i].var) = latches[i].var
      BY GameNodes, GameCircuit
    <2> QED
      BY <2>2, <2>3, <2>4 DEF Opposite
  <1> QED
    BY <1>1, <1>2, <1>3

\* A position from which the control cannot stay satisfies what is known in the universal
\* instance of the encoding and the refinements, under any of their labels and its own values.
LEMMA PositionIsLeft ==
  ASSUME Static, GameStatic, Labels, ErrorFree, RefinementsWork, pc # "no_fixpoint",
         NEW s \in Safe, NEW u \in Uncontrolled, ~CanStay(s, u, Safe),
         NEW own, own \subseteq Position(s, u),
         NEW marks, \A m \in marks : Label(m),
         NEW clauses, \A cl \in clauses : \A l \in cl : Known(l),
         \A cl \in clauses :
           \/ cl \in Instance(Universal, "forall")
           \/ \E cube \in excluded : cl = Opposite(cube)
           \/ \E l \in cl : l < -(2 * MaxNum(circuit)) /\ -l \notin marks
           \/ \E r \in refinements : cl \in Guarded(r.incremental_literal)
           \/ cl \cap marks # {}
  PROVE  Satisfiable(clauses, own \cup marks)
  <1> SUFFICES ASSUME ~Satisfiable(clauses, own \cup marks)
               PROVE  FALSE
    OBVIOUS
  <1> PICK a : a = Position(s, u)
    OBVIOUS
  <1> PICK T : T = t_lits[Universal]
    OBVIOUS
  <1> PICK M : M = OuterModel("forall", a)
    OBVIOUS
  <1> PICK N : N = MaxNum(circuit)
    OBVIOUS
  <1>1. /\ s \in NoError /\ a \in Unraised /\ a \in Assignments(Own(Universal))
        /\ \A cube \in excluded : Opposite(cube) \cap a # {}
    BY OutsideIsSafe DEF Unraised
  <1>2. /\ Moves(circuit, Universal, "forall", T, {}, a)
        /\ M = Canonical(circuit, "forall", Universal, T, {}, a)
    <2>1. Assignments(Own(Existential)) # {}
      BY AssignmentsExist
    <2> QED
      BY <1>1, <2>1, GameMoves DEF Players, OuterModel
  <1>3. N \in Nat /\ next_lit \in Nat /\ 2 * N < next_lit
    BY Interfaces DEF Labels
  <1>4. /\ clauses \in Instances /\ FiniteClauses(clauses)
        /\ \A t \in T : \A cl \in clauses : -t \notin cl
    BY <1>3, KnownClauses
  <1>5. \A t \in T : (\E i \in Gates(circuit) : t = TLit(circuit, i)) /\ \A cl \in clauses : -t \notin cl
    BY <1>4, GameCircuit
  <1>6. \A cl \in clauses : \/ \E l \in cl : l < -(2 * N) /\ -l \notin marks
                            \/ cl \cap marks # {} \/ cl \cap M # {}
    <2> TAKE cl \in clauses
    <2>1. CASE cl \in Instance(Universal, "forall")
      BY <1>1, <2>1, OuterMet
    <2>2. CASE \E cube \in excluded : cl = Opposite(cube)
      <3>1. cl \cap a # {}
        BY <1>1, <2>2
      <3>2. a \subseteq M
        BY <1>2 DEF Canonical
      <3> QED
        BY <3>1, <3>2
    <2>3. CASE \E r \in refinements : cl \in Guarded(r.incremental_literal)
      <3>1. PICK r \in refinements : cl \in Guarded(r.incremental_literal)
        BY <2>3
      <3>2. cl \cap M # {} \/ CanAnswer(a, r.sub_states)
        BY <1>1, <3>1 DEF RefinementsWork, Works
      <3>3. ~CanAnswer(a, r.sub_states)
        BY <1>1, KeepingIsSafe DEF CanAnswer
      <3> QED
        BY <3>2, <3>3
    <2> QED
      BY <2>1, <2>2, <2>3
  <1>7. /\ NoOpposites(own)
        /\ \A l \in own : LitVar(l) <= N /\ (l \in a \/ \A cl \in clauses : -l \notin cl)
    <2>1. \A l \in a : l \in Int /\ -l \notin a /\ LitVar(l) \in Own(Universal)
      BY <1>1, GameCircuit, IsAssignment
    <2>2. \A k \in Own(Universal) : k <= N
      BY GameCircuit, Interfaces
    <2> QED
      BY <2>1, <2>2 DEF NoOpposites, Opposite
  <1>8. \E asked \in SUBSET marks : ~Satisfiable(clauses, own \cup {} \cup {} \cup asked)
    <2>1. own \cup {} \cup {} \cup marks = own \cup marks
      OBVIOUS
    <2> QED
      BY <2>1
  <1>9. /\ \A l \in marks : l \in Nat /\ l > 2 * N
        /\ {} \subseteq T /\ {} \subseteq Opposite(T) /\ {} \cap Opposite({}) = {} /\ Opposite({}) = {}
    <2>1. \A m \in marks : m \in Nat /\ m > 2 * N
      BY <1>3 DEF Label
    <2> QED
      BY <2>1 DEF Opposite
  <1>10. \E t \in Opposite({}) : t \in T /\ Secured(circuit, "forall", Universal, TLitToVarId(circuit, t), {})
    <2>1. Refutation(circuit, Universal, "forall", T, {}, a, clauses, marks, own, {}, {})
      BY <1>2, <1>4, <1>5, <1>6, <1>7, <1>8, <1>9 DEF Refutation
    <2> QED
      BY <2>1, LabelledSays
  <1> QED
    BY <1>9, <1>10

\* So if the universal instance has no proposal, the control can stay in F everywhere.
LEMMA FixpointIsClosed ==
  ASSUME Static, GameStatic, Labels, Bounds, ErrorFree, RefinementsWork, OuterKnown,
         pc # "no_fixpoint", ~Satisfiable(sat[Universal], OuterAssumed)
  PROVE  CanStayIn(Safe)
  <1> SUFFICES ASSUME NEW s \in Safe, NEW u \in Uncontrolled, ~CanStay(s, u, Safe)
               PROVE  FALSE
    BY DEF CanStayIn
  <1> PICK marks : marks = OuterAssumed
    OBVIOUS
  <1>1. \A m \in marks : Label(m)
    BY DEF OuterAssumed, Labels
  <1> PICK clauses : clauses = sat[Universal]
    OBVIOUS
  <1>2. \A cl \in clauses : \A l \in cl : Known(l)
    BY DEF Bounds
  <1>3. \A cl \in clauses :
           \/ cl \in Instance(Universal, "forall")
           \/ \E cube \in excluded : cl = Opposite(cube)
           \/ \E l \in cl : l < -(2 * MaxNum(circuit)) /\ -l \notin marks
           \/ \E r \in refinements : cl \in Guarded(r.incremental_literal)
           \/ cl \cap marks # {}
    BY DEF OuterKnown, OffOuter
  <1>4. Satisfiable(clauses, {} \cup marks)
    BY <1>1, <1>2, <1>3, PositionIsLeft
  <1> QED
    BY <1>4

\* A refinement with the encoding is satisfied by every position of F that has no answer in F.
LEMMA RefinementIsLeft ==
  ASSUME FInv, GInv, HInv, pc = "loop"
  PROVE  RefinementsStillValid
  <1> SUFFICES ASSUME NEW r \in refinements, NEW s \in Safe, NEW u \in Uncontrolled,
                      ~CanStay(s, u, Safe)
               PROVE  Leaves(s, u, Instance(Universal, "forall") \cup {{r.incremental_literal}}
                                     \cup {cl \in sat[Universal] : -r.incremental_literal \in cl})
    BY DEF RefinementsStillValid
  <1> PICK label : label = r.incremental_literal
    OBVIOUS
  <1> PICK clauses : clauses = Instance(Universal, "forall") \cup {{label}} \cup Guarded(label)
    OBVIOUS
  <1> PICK own : own = Position(s, u)
    OBVIOUS
  <1>1. /\ Static /\ GameStatic /\ Labels /\ Bounds /\ ErrorFree /\ RefinementsWork
        /\ Label(label) /\ pc # "no_fixpoint"
    BY DEF FInv, GInv, HInv, Running, Labels
  <1>2. \A cl \in clauses : \A l \in cl : Known(l)
    <2>1. \A cl \in Instance(Universal, "forall") : \A l \in cl : Known(l)
      BY <1>1, EncodingLits DEF Instance, Known, Static
    <2>2. Known(label)
      BY <1>1, KnownLiterals
    <2>3. \A cl \in Guarded(label) : \A l \in cl : Known(l)
      BY <1>1 DEF Bounds, Guarded
    <2> QED
      BY <2>1, <2>2, <2>3
  <1>3. Satisfiable(clauses, own \cup {label})
    <2> PICK marks : marks = {label}
      OBVIOUS
    <2>1. \A cl \in clauses :
           \/ cl \in Instance(Universal, "forall")
           \/ \E cube \in excluded : cl = Opposite(cube)
           \/ \E l \in cl : l < -(2 * MaxNum(circuit)) /\ -l \notin marks
           \/ \E o \in refinements : cl \in Guarded(o.incremental_literal)
           \/ cl \cap marks # {}
      OBVIOUS
    <2>2. own \subseteq Position(s, u) /\ \A m \in marks : Label(m)
      BY <1>1
    <2>3. Satisfiable(clauses, own \cup marks)
      BY <1>1, <1>2, <2>1, <2>2, PositionIsLeft
    <2> QED
      BY <2>3
  <1>4. Satisfiable(clauses, own)
    <2>1. clauses \in Instances /\ FiniteClauses(clauses)
      BY <1>1, <1>2, KnownClauses DEF Labels
    <2>2. \A l \in own : l \in Int /\ -l \notin own /\ LitVar(l) \in Nodes(circuit)
      <3>1. own \in Assignments(Own(Universal))
        BY <1>1, OutsideIsSafe DEF Unraised
      <3>2. \A l \in own : l \in Int /\ LitVar(l) \in Own(Universal) /\ -l \notin own
        BY <1>1, <3>1, GameCircuit, IsAssignment
      <3> QED
        BY <3>2 DEF Own, ScopeVars
    <2>3. NoOpposites(own) /\ NoOpposites(own \cup {label})
      <3>1. \A l \in own : l # label /\ l # -label
        <4>1. label \in Nat /\ 2 * MaxNum(circuit) < label /\ MaxNum(circuit) \in Nat
              /\ Nodes(circuit) = 1 .. MaxNum(circuit)
          BY <1>1, Interfaces DEF Label
        <4>2. \A l \in own : l \in Int /\ LitVar(l) <= MaxNum(circuit)
          BY <2>2, <4>1
        <4> QED
          BY <4>1, <4>2 DEF LitVar
      <3>2. label # -label /\ label \in Int
        BY <1>1, Interfaces DEF Label
      <3> QED
        BY <2>2, <3>1, <3>2 DEF NoOpposites, Opposite
    <2>4. \A l \in own : l \in own \cup {label}
      OBVIOUS
    <2> QED
      BY <1>3, <2>1, <2>3, <2>4, LessAssumed
  <1> QED
    BY <1>4 DEF Leaves, Guarded, Position

-----------------------------------------------------------------------------
(***************************************************************************)
(* The steps.                                                              *)
(***************************************************************************)
\* What the game says about answers does not change.
LEMMA SameAnswers ==
  ASSUME UNCHANGED config
  PROVE  /\ \A s, q : Instance(s, q)' = Instance(s, q)
         /\ LatchLits' = LatchLits /\ Unraised' = Unraised /\ F' = F /\ FPrime' = FPrime
         /\ LatchesOf(Existential)' = LatchesOf(Existential)
         /\ \A x : Controls(x)' = Controls(x)
         /\ \A x, sub : LeadsTo(x, sub)' <=> LeadsTo(x, sub)
         /\ \A l : Unprimed(l)' = Unprimed(l)
  <1>1. UNCHANGED <<aiger, circuit, inputs, latches, b_lits, t_lits>>
    BY DEF config
  <1>2. /\ F' = F /\ FPrime' = FPrime /\ LatchLits' = LatchLits
    BY <1>1 DEF F, FPrime, GateOver, ErrorLatch, LatchLits, GameLatches
  <1>3. \A s, q : Instance(s, q)' = Instance(s, q)
    BY <1>1, <1>2 DEF Instance
  <1>4. LatchesOf(Existential)' = LatchesOf(Existential)
    BY <1>1, SameGame DEF LatchesOf
  <1>5. \A x : Controls(x)' = Controls(x)
    BY <1>4 DEF Controls
  <1>6. \A x, sub : LeadsTo(x, sub)' <=> LeadsTo(x, sub)
    BY <1>2, SameGame DEF LeadsTo
  <1>7. Unraised' = Unraised
    BY SameGame DEF Unraised
  <1>8. \A l : Unprimed(l)' = Unprimed(l)
    BY <1>1 DEF Unprimed
  <1> QED
    BY <1>2, <1>3, <1>4, <1>5, <1>6, <1>7, <1>8

\* Nor does what a refinement is to achieve.
LEMMA SameWorks ==
  ASSUME UNCHANGED <<config, excluded>>
  PROVE  \A sub, cl : Works(sub, cl)' <=> Works(sub, cl)
  <1>1. \A a, sub : CanAnswer(a, sub)' <=> CanAnswer(a, sub)
    BY SameGame, SameStays, SameAnswers DEF CanAnswer
  <1> QED
    BY <1>1, SameGame, SameAnswers DEF Works

\* Steps that leave alone the dual instances, or the universal one.
LEMMA SameNegation ==
  ASSUME UNCHANGED <<config, negation, incremental_lit, incremental, excluded>>
  PROVE  (ErrorUnread' <=> ErrorUnread) /\ (NegationKnown' <=> NegationKnown)
  <1>1. UNCHANGED config
    OBVIOUS
  <1>2. ErrorUnread' <=> ErrorUnread
    BY <1>1, SameGame DEF ErrorUnread, Silent
  <1>3. \A cl : Off(cl)' <=> Off(cl)
    BY <1>1, SameGame DEF Off
  <1>4. NegationKnown' <=> NegationKnown
    BY <1>1, <1>3, SameGame, SameAnswers DEF NegationKnown
  <1> QED
    BY <1>2, <1>4

\* So does what is known of the universal instance.
LEMMA SameOuter ==
  ASSUME UNCHANGED <<config, sat, incremental_lit, refinements, excluded>>
  PROVE  (RefinementsWork' <=> RefinementsWork) /\ (OuterKnown' <=> OuterKnown)
  <1>1. UNCHANGED config /\ UNCHANGED <<config, excluded>>
    OBVIOUS
  <1>2. \A l : Guarded(l)' = Guarded(l)
    BY DEF Guarded
  <1>3. RefinementsWork' <=> RefinementsWork
    BY <1>1, <1>2, SameWorks DEF RefinementsWork
  <1>4. OuterAssumed' = OuterAssumed
    BY DEF OuterAssumed
  <1>5. \A cl : OffOuter(cl)' <=> OffOuter(cl)
    BY <1>1, <1>4, SameGame DEF OffOuter
  <1>6. OuterKnown' <=> OuterKnown
    BY <1>1, <1>2, <1>5, SameAnswers DEF OuterKnown
  <1> QED
    BY <1>3, <1>6

\* Steps that change neither the instances nor the state set.
LEMMA SameKnowledge ==
  ASSUME HInv, Running, UNCHANGED <<config, sat, negation, incremental_lit, incremental, refinements, excluded>>
  PROVE  /\ ErrorUnread' /\ NegationKnown' /\ RefinementsWork' /\ OuterKnown'
         /\ \A cube \in excluded' : ~ContainsInitial(cube) /\ cube \subseteq LatchLits'
  <1>1. UNCHANGED config
    OBVIOUS
  <1>2. ErrorUnread' /\ NegationKnown' /\ RefinementsWork' /\ OuterKnown'
    BY SameNegation, SameOuter DEF HInv
  <1> QED
    BY <1>1, <1>2, SameAnswers DEF HInv, ErrorFree

\* A proposal changes neither.
LEMMA HPropose ==
  ASSUME FInv, GInv, HInv, Propose
  PROVE  HInv'
  <1>1. UNCHANGED <<config, sat, negation, incremental_lit, incremental, refinements, excluded>>
        /\ pc' = "inner" /\ pc = "loop"
    BY DEF Propose, instances
  <1>2. Running
    BY <1>1 DEF Running
  <1> QED
    BY <1>1, <1>2, SameKnowledge DEF HInv, ErrorFree, ContainsInitial

\* If there is none, the control can stay in F.
LEMMA HInductive ==
  ASSUME FInv, GInv, HInv, Inductive
  PROVE  HInv'
  <1>1. UNCHANGED <<config, sat, negation, incremental_lit, incremental, refinements, excluded>>
        /\ UNCHANGED config
        /\ pc' = "inductive" /\ pc = "loop" /\ ~Satisfiable(sat[Universal], OuterAssumed)
    BY DEF Inductive, instances
  <1>2. Running
    BY <1>1 DEF Running
  <1>3. CanStayIn(Safe)
    BY <1>1, <1>2, FixpointIsClosed DEF FInv, GInv, HInv
  <1>4. CanStayIn(Safe)'
    <2>1. UNCHANGED <<aiger, circuit, inputs, latches, excluded>>
      BY <1>1 DEF config
    <2>2. CanStayIn(Safe)' <=> CanStayIn(Safe)
      BY <2>1 DEF CanStayIn, Safe, NoError, StatesIn, game, Uncontrolled, CanStay
    <2> QED
      BY <1>3, <2>2
  <1> QED
    BY <1>1, <1>2, <1>4, SameKnowledge DEF HInv, ErrorFree, ContainsInitial

\* The start.
LEMMA HInit ==
  ASSUME Init
  PROVE  HInv
  <1>1. FInv /\ GInv
    BY InitInv, GInit
  <1>2. Static /\ GameStatic /\ Labels /\ Bounds
    BY <1>1 DEF FInv, GInv
  <1>3. /\ sat[Universal] = Instance(Universal, "forall")
        /\ \A s \in {Universal, Existential} :
             negation[s] = Instance(s, Dual(circuit.scope[s].qtype)) \cup {PushedClause(s, incremental_lit, {})}
        /\ incremental = {} /\ excluded = {} /\ refinements = {} /\ pc = "loop"
    <2>1. circuit.scope[Universal].qtype = "forall" /\ circuit.scope[Existential].qtype = "exists"
      BY <1>2, GameCircuit
    <2> QED
      BY <2>1 DEF Init
  <1>4. /\ negation[Universal] = Instance(Universal, "exists") \cup {PushedClause(Universal, incremental_lit, {})}
        /\ negation[Existential] = Instance(Existential, "forall") \cup {PushedClause(Existential, incremental_lit, {})}
    <2>1. circuit.scope[Universal].qtype = "forall" /\ circuit.scope[Existential].qtype = "exists"
      BY <1>2, GameCircuit
    <2> QED
      BY <1>3, <2>1 DEF Dual
  <1>5. ErrorUnread
    <2>1. PICK N : N = MaxNum(circuit)
      OBVIOUS
    <2>2. /\ N \in Nat /\ Nodes(circuit) = 1 .. N /\ incremental_lit \in Nat /\ 2 * N < incremental_lit
      BY <1>2, <1>3, <2>1, Interfaces DEF Labels, Label
    <2>3. /\ F \in Nodes(circuit) /\ FPrime \in Nodes(circuit) /\ IsGate(circuit, F) /\ IsGate(circuit, FPrime)
      BY <1>2, ErrorGates DEF IsGate
    <2>4. \A v \in {ErrorLatch.var, ErrorLatch.primed} : v \in Nodes(circuit) /\ IsVar(circuit, v)
      BY <1>2, GameNodes, GameCircuit DEF Own, ScopeVars, ErrorLatch
    <2>5. \A k \in {F, FPrime} : ~IsVar(circuit, k)
      BY <2>3 DEF IsGate, IsVar
    <2>6. ASSUME NEW v \in {ErrorLatch.var, ErrorLatch.primed}, NEW s
          PROVE  v \notin PushedClause(s, incremental_lit, {}) /\ -v \notin PushedClause(s, incremental_lit, {})
      <3> PICK k : k = FOf(s)
        OBVIOUS
      <3>1. k \in Nodes(circuit) /\ v \in Nodes(circuit) /\ k # v
        BY <2>3, <2>4, <2>5 DEF FOf
      <3>2. v \in 1 .. N /\ k \in 1 .. N
        BY <2>2, <3>1
      <3>3. v # -incremental_lit /\ v # -k /\ -v # -incremental_lit /\ -v # -k
        BY <2>2, <3>1, <3>2
      <3> QED
        BY <3>3 DEF PushedClause
    <2> QED
      BY <1>2, <1>4, <2>6, InstancesUnread DEF ErrorUnread, Silent
  <1>6. NegationKnown
    <2>1. -FPrime \in PushedClause(Existential, incremental_lit, {})
          /\ -incremental_lit \in PushedClause(Existential, incremental_lit, {})
      BY DEF PushedClause, FOf, Universal, Existential
    <2> QED
      BY <1>3, <1>4, <2>1 DEF NegationKnown
  <1>7. ErrorFree /\ RefinementsWork /\ OuterKnown
    BY <1>3 DEF ErrorFree, RefinementsWork, OuterKnown
  <1> QED
    BY <1>3, <1>5, <1>6, <1>7 DEF HInv

\* The error latch is not in what the universal dual instance learns.
LEMMA DualClauseSilent ==
  ASSUME Static, GameStatic, Labels, pc # "no_fixpoint", NEW core, core \subseteq t_lits[Existential]
  PROVE  ErrorLatch.var \notin DualClause(core) /\ -ErrorLatch.var \notin DualClause(core)
  <1> PICK N : N = MaxNum(circuit)
    OBVIOUS
  <1> PICK v : v = ErrorLatch.var
    OBVIOUS
  <1>1. N \in Nat /\ incremental_lit \in Nat /\ 2 * N < incremental_lit /\ Nodes(circuit) = 1 .. N
    BY Interfaces DEF Labels, Label
  <1>2. v \in 1 .. N /\ v \in Own(Universal)
    BY <1>1, GameNodes DEF Own, ScopeVars, ErrorLatch
  <1>3. ASSUME NEW t \in core
        PROVE  t \in Nat /\ N < t
    BY Interfaces
  <1>4. ASSUME NEW b \in b_lits[Universal]
        PROVE  b # v /\ b \in 1 .. N
    <2>1. b \in Nodes(circuit) /\ ~IsVar(circuit, b)
      BY Interfaces
    <2> QED
      BY <1>1, <1>2, <2>1 DEF Own, ScopeVars
  <1>5. ASSUME NEW l \in DualClause(core)
        PROVE  l # v /\ l # -v
    <2>1. CASE l = -incremental_lit
      BY <1>1, <1>2, <2>1
    <2>2. CASE l \in b_lits[Universal]
      BY <1>2, <1>4, <2>2
    <2>3. CASE l \in core
      BY <1>1, <1>2, <1>3, <2>3
    <2> QED
      BY <2>1, <2>2, <2>3 DEF DualClause
  <1> QED
    BY <1>5

\* A refuted proposal adds a clause without it.
LEMMA HRefuted ==
  ASSUME FInv, GInv, HInv, Refuted
  PROVE  HInv'
  <1>1. /\ UNCHANGED <<config, sat, incremental_lit, incremental, refinements, excluded>>
        /\ UNCHANGED config /\ pc = "inner"
    BY DEF Refuted
  <1>2. PICK failed, core, dual :
          /\ failed \in FailedSets(sat[Existential], InnerAssumed \ Negative(InnerAssumed),
                                  Negative(InnerAssumed))
          /\ core = MinimizedFailed(Opposite(failed))
          /\ dual = negation[Universal] \cup {DualClause(core)}
          /\ negation' = [negation EXCEPT ![Universal] = dual]
          /\ DualPropagation(Universal, dual, Assignment(Universal), entry[Universal], "refuted")
    BY DEF Refuted
  <1>3. negation'[Universal] = dual /\ negation'[Existential] = negation[Existential]
    BY <1>2 DEF GInv, Bounds, Universal, Existential
  <1>4. pc' \in {"abort", "refuted"}
    BY <1>2 DEF DualPropagation
  <1>5. Running /\ pc # "no_fixpoint"
    BY <1>1 DEF Running
  <1>6. core \subseteq t_lits[Existential]
    BY <1>1, <1>2, RefutedClause
  <1>7. ErrorUnread'
    <2>1. ErrorLatch.var \notin DualClause(core) /\ -ErrorLatch.var \notin DualClause(core)
      BY <1>5, <1>6, DualClauseSilent DEF FInv, GInv
    <2>2. ErrorLatch' = ErrorLatch
      BY <1>1, SameGame
    <2> QED
      BY <1>2, <1>3, <1>5, <2>1, <2>2 DEF HInv, ErrorUnread, Silent
  <1>8. NegationKnown'
    <2>1. \A cl : Off(cl)' <=> Off(cl)
      BY <1>1, SameGame DEF Off
    <2> QED
      BY <1>1, <1>3, <1>5, <2>1, SameGame, SameAnswers DEF HInv, NegationKnown
  <1>9. RefinementsWork' /\ OuterKnown'
    BY <1>1, <1>5, SameOuter DEF HInv
  <1>10. ErrorFree' /\ \A cube \in excluded' : ~ContainsInitial(cube)
    BY <1>1, <1>4, <1>5, SameAnswers DEF HInv, ErrorFree
  <1> QED
    BY <1>4, <1>7, <1>8, <1>9, <1>10 DEF HInv, ContainsInitial

\* The dual instance does not read the error latch, so it is dropped, last of all.
LEMMA ErrorDropped ==
  ASSUME FInv, GInv, ErrorUnread, pc # "no_fixpoint", LostFrom(value)
  PROVE  MinimizedCube[ErrorLatch.var] = 0
  <1> PICK e : e = ErrorLatch.var
    OBVIOUS
  <1> PICK N : N = MaxNum(circuit)
    OBVIOUS
  <1> PICK T : T = t_lits[Universal]
    OBVIOUS
  <1> PICK O : O = Own(Universal)
    OBVIOUS
  <1>1. PICK v \in [Variables -> Int] : LostFrom(v) /\ MinimizedCube = WithoutLatch(v, e)
    BY MinimizedCubeIsLost DEF FInv, GInv, Pending
  <1>2. Static /\ GameStatic /\ Labels /\ Bounds
    BY DEF FInv, GInv
  <1>3. /\ N \in Nat /\ incremental_lit \in Nat /\ 2 * N < incremental_lit /\ Nodes(circuit) = 1 .. N
        /\ next_lit \in Nat /\ 2 * N < next_lit
    BY <1>2, Interfaces DEF Labels, Label
  <1>4. e \in O /\ O \subseteq 1 .. N /\ e \in Variables
    BY <1>2, <1>3, GameNodes DEF Own, ScopeVars, ErrorLatch, Variables
  <1> SUFFICES ASSUME v[e] # 0, ~Refutes(v, e)
               PROVE  FALSE
    BY <1>1, <1>4 DEF WithoutLatch
  <1> DEFINE Lits(ks) == {Signed(v[i], i) : i \in {k \in ks : v[k] # 0}}
  <1>5. Satisfiable(negation[Universal], Lits(O \ {e}) \cup {incremental_lit} \cup T)
    <2>1. AssumedTDual(Universal, entry[Universal]) = T
      BY <1>2, AllTOn DEF GInv, Pending
    <2> QED
      BY <2>1 DEF Refutes
  <1>6. ~Satisfiable(negation[Universal], Lits(O) \cup {incremental_lit} \cup T)
    BY <1>1 DEF LostFrom, DualRefutes
  <1>7. negation[Universal] \in Instances /\ FiniteClauses(negation[Universal])
    BY <1>2, <1>3, KnownClauses DEF Bounds
  <1>8. \A l \in Lits(O) : \E i \in O : (l = i \/ l = -i) /\ (l \in Lits(O \ {e}) \/ i = e) /\ l = Signed(v[i], i)
    BY DEF Signed
  <1> HIDE DEF Lits
  <1>9. NoOpposites(Lits(O) \cup {incremental_lit} \cup T)
    <2>1. \A t \in T : t \in Nat /\ N < t
      BY <1>2, Interfaces
    <2>2. \A l \in Lits(O) : l \in Int /\ -N <= l /\ l <= N
      BY <1>3, <1>4, <1>8
    <2>3. \A l, k \in Lits(O) : k # -l
      <3> SUFFICES ASSUME NEW l \in Lits(O), NEW k \in Lits(O), k = -l
                   PROVE  FALSE
        OBVIOUS
      <3>1. PICK i \in O : (l = i \/ l = -i) /\ l = Signed(v[i], i)
        BY <1>8
      <3>2. PICK j \in O : (k = j \/ k = -j) /\ k = Signed(v[j], j)
        BY <1>8
      <3>3. i \in Nat \ {0} /\ j \in Nat \ {0}
        BY <1>4
      <3>4. i = j
        BY <3>1, <3>2, <3>3
      <3>5. l = k
        BY <3>1, <3>2, <3>4
      <3> QED
        BY <3>1, <3>3, <3>5
    <2>4. \A l \in Lits(O) \cup {incremental_lit} \cup T : l \in Int /\ -l \notin Lits(O) \cup {incremental_lit} \cup T
      <3> TAKE l \in Lits(O) \cup {incremental_lit} \cup T
      <3>1. CASE l \in Lits(O)
        BY <1>3, <2>1, <2>2, <2>3, <3>1
      <3>2. CASE l \in {incremental_lit} \cup T
        <4>1. l \in Nat /\ N < l
          BY <1>3, <2>1, <3>2
        <4> QED
          BY <1>3, <2>1, <2>2, <4>1
      <3> QED
        BY <3>1, <3>2
    <2> QED
      BY <2>4 DEF NoOpposites, Opposite
  <1>10. \A l \in Lits(O) \cup {incremental_lit} \cup T :
           \/ l \in Lits(O \ {e}) \cup {incremental_lit} \cup T
           \/ Silent(negation[Universal], LitVar(l))
    <2>1. Silent(negation[Universal], e)
      BY DEF ErrorUnread
    <2>2. LitVar(e) = e /\ LitVar(-e) = e
      BY <1>3, <1>4 DEF LitVar
    <2> QED
      BY <1>8, <2>1, <2>2
  <1>11. NoOpposites(Lits(O \ {e}) \cup {incremental_lit} \cup T)
    <2>1. Lits(O \ {e}) \subseteq Lits(O)
      BY DEF Lits
    <2> QED
      BY <1>9, <2>1 DEF NoOpposites, Opposite
  <1> QED
    BY <1>5, <1>6, <1>7, <1>9, <1>10, <1>11, LessAssumed

\* So the cube that is about to be excluded does not read it.
LEMMA HMinimizeCube ==
  ASSUME FInv, GInv, HInv, MinimizeCube
  PROVE  HInv'
  <1>1. UNCHANGED <<config, sat, negation, incremental_lit, incremental, refinements, excluded>>
        /\ pc = "refuted" /\ pc' = "exclude" /\ value' = MinimizedCube /\ UNCHANGED config
    BY DEF MinimizeCube, instances
  <1>2. Running /\ pc # "no_fixpoint" /\ LostFrom(value)
    BY <1>1 DEF Running, GInv, Pending
  <1>3. value'[ErrorLatch.var] = 0
    BY <1>1, <1>2, ErrorDropped DEF HInv
  <1>4. ErrorLatch' = ErrorLatch
    BY <1>1, SameGame
  <1>5. ErrorFree'
    BY <1>1, <1>2, <1>3, <1>4, SameKnowledge DEF ErrorFree
  <1> QED
    BY <1>1, <1>2, <1>5, SameKnowledge DEF HInv, ContainsInitial

\* A refinement works because of what the dual instance needed of the answer.
LEMMA HRefine ==
  ASSUME FInv, GInv, HInv, Refine
  PROVE  HInv'
  <1> PICK next : next = next_lit
    OBVIOUS
  <1> PICK new : new = RefinementClause
    OBVIOUS
  <1> PICK sub : sub = {Unprimed(l) : l \in Cube(Existential)}
    OBVIOUS
  <1> PICK N : N = MaxNum(circuit)
    OBVIOUS
  <1>1. /\ UNCHANGED <<config, negation, incremental_lit, incremental, excluded>>
        /\ UNCHANGED config /\ UNCHANGED <<config, excluded>>
        /\ pc = "answered" /\ pc' = "loop"
        /\ sat' = [sat EXCEPT ![Universal] = @ \cup {new}]
        /\ refinements' = refinements \cup {[incremental_literal |-> next, sub_states |-> sub]}
    BY AnswerWasPromised DEF Refine
  <1>2. sat'[Universal] = sat[Universal] \cup {new}
    BY <1>1 DEF FInv, Fields
  <1>3. Running /\ pc # "no_fixpoint" /\ Static /\ GameStatic /\ Labels /\ Bounds
        /\ entry[Existential] \subseteq t_lits[Existential]
    BY <1>1 DEF Running, FInv, GInv, Fields
  <1>4. /\ N \in Nat /\ next \in Nat /\ 2 * N < next /\ -next < -(2 * N)
        /\ \A cl \in sat[Universal] : \A l \in cl : l \in Int /\ -next < l
        /\ \A l : Label(l) => l \in Nat /\ 2 * N < l /\ l < next
    BY <1>3, Interfaces DEF Labels, Label
  <1>5. /\ -next \in new
        /\ \A l \in new : l = -next \/ l \in Nat
    <2>1. \A l \in FailedBLits \cup PassedT : l \in Nat
      BY <1>3, Interfaces DEF FailedBLits, PassedT
    <2> QED
      BY <2>1 DEF RefinementClause
  <1>6. /\ Guarded(next)' = {new}
        /\ \A l : Label(l) => Guarded(l)' = Guarded(l)
    <2>1. \A cl \in sat[Universal] : -next \notin cl
      BY <1>4
    <2>2. Guarded(next)' = {new}
      <3>1. Guarded(next)' = {cl \in sat'[Universal] : -next \in cl}
        BY DEF Guarded
      <3> QED
        BY <1>2, <1>5, <2>1, <3>1
    <2>3. ASSUME NEW l, Label(l)
          PROVE  Guarded(l)' = Guarded(l)
      <3>1. -l \notin new
        BY <1>4, <1>5, <2>3
      <3>2. Guarded(l)' = {cl \in sat'[Universal] : -l \in cl}
        BY DEF Guarded
      <3> QED
        BY <1>2, <3>1, <3>2 DEF Guarded
    <2> QED
      BY <2>2, <2>3
  <1>7. ErrorUnread' /\ NegationKnown'
    BY <1>1, <1>3, SameNegation DEF HInv
  <1>8. RefinementsWork'
    <2>1. Works(sub, new)
      BY <1>1, <1>3, AnswerWorks DEF HInv
    <2>2. \A c, cl : Works(c, cl)' <=> Works(c, cl)
      BY <1>1, SameWorks
    <2>3. ASSUME NEW r \in refinements'
          PROVE  \A cl \in Guarded(r.incremental_literal)' : Works(r.sub_states, cl)
      <3>1. CASE r \in refinements
        <4>1. Label(r.incremental_literal)
          BY <1>3, <3>1 DEF Labels
        <4>2. Guarded(r.incremental_literal)' = Guarded(r.incremental_literal)
          <5> PICK l : l = r.incremental_literal
            OBVIOUS
          <5>1. Guarded(l)' = Guarded(l)
            BY <1>6, <4>1
          <5>2. Guarded(r.incremental_literal)' = {cl \in sat'[Universal] : -l \in cl}
            BY DEF Guarded
          <5>3. Guarded(l)' = {cl \in sat'[Universal] : -l \in cl}
            BY DEF Guarded
          <5> QED
            BY <5>1, <5>2, <5>3
        <4> QED
          BY <1>3, <3>1, <4>2 DEF HInv, RefinementsWork
      <3>2. CASE r = [incremental_literal |-> next, sub_states |-> sub]
        <4>1. r.incremental_literal = next /\ r.sub_states = sub
          BY <3>2
        <4> QED
          BY <1>6, <2>1, <4>1
      <3> QED
        BY <1>1, <3>1, <3>2
    <2> QED
      BY <2>2, <2>3 DEF RefinementsWork
  <1>9. OuterKnown'
    <2>1. OuterAssumed' = OuterAssumed \cup {next}
      <3> PICK r : r = [incremental_literal |-> next, sub_states |-> sub]
        OBVIOUS
      <3>1. r.incremental_literal = next /\ refinements' = refinements \cup {r}
        BY <1>1
      <3>2. {o.incremental_literal : o \in refinements'}
              = {o.incremental_literal : o \in refinements} \cup {next}
        BY <3>1
      <3>3. OuterAssumed' = {incremental_lit} \cup {o.incremental_literal : o \in refinements'}
        BY <1>1 DEF OuterAssumed
      <3> QED
        BY <3>2, <3>3 DEF OuterAssumed
    <2>2. ASSUME NEW cl \in sat[Universal], OffOuter(cl)
          PROVE  OffOuter(cl)'
      <3>1. PICK l \in cl : l < -(2 * N) /\ -l \notin OuterAssumed
        BY <2>2 DEF OffOuter
      <3>2. -l # next
        BY <1>4
      <3>3. -l \notin OuterAssumed' /\ MaxNum(circuit)' = N
        BY <1>1, <2>1, <3>1, <3>2, SameGame
      <3> QED
        BY <3>1, <3>3 DEF OffOuter
    <2>3. ASSUME NEW cl \in sat'[Universal]
          PROVE  \/ cl \in Instance(Universal, "forall")
                 \/ \E cube \in excluded : cl = Opposite(cube)
                 \/ OffOuter(cl)'
                 \/ \E r \in refinements' : cl \in Guarded(r.incremental_literal)'
      <3>1. CASE cl = new
        <4> PICK r : r = [incremental_literal |-> next, sub_states |-> sub]
          OBVIOUS
        <4>1. r \in refinements' /\ r.incremental_literal = next
          BY <1>1
        <4> QED
          BY <1>6, <3>1, <4>1
      <3>2. CASE cl \in sat[Universal]
        <4>1. CASE \E r \in refinements : cl \in Guarded(r.incremental_literal)
          <5>1. PICK r \in refinements : cl \in Guarded(r.incremental_literal)
            BY <4>1
          <5>2. r \in refinements'
            BY <1>1
          <5> QED
            BY <1>2, <5>1, <5>2 DEF Guarded
        <4> QED
          BY <1>3, <2>2, <3>2, <4>1 DEF HInv, OuterKnown
      <3> QED
        BY <1>2, <3>1, <3>2
    <2> QED
      BY <1>1, <2>3, SameAnswers DEF OuterKnown
  <1>10. ErrorFree' /\ \A cube \in excluded' : ~ContainsInitial(cube)
    BY <1>1, <1>3, SameAnswers DEF HInv, ErrorFree
  <1> QED
    BY <1>1, <1>7, <1>8, <1>9, <1>10 DEF HInv, ContainsInitial

\* The model of the existential instance assigns its variables.
LEMMA AnswerAssigns ==
  ASSUME Static, GameStatic, Labels, pc # "no_fixpoint", NEW e, e \subseteq t_lits[Existential],
         NEW clauses,
         NEW mm \in SatModels(clauses, AssumedT(Existential, e) \cup {incremental_lit}, Own(Existential))
  PROVE  AssignedLits(Existential, mm) \in Assignments(Own(Existential))
  <1> PICK N : N = MaxNum(circuit)
    OBVIOUS
  <1> PICK O : O = Own(Existential)
    OBVIOUS
  <1> PICK as : as = AssumedT(Existential, e) \cup {incremental_lit}
    OBVIOUS
  <1>1. N \in Nat /\ incremental_lit \in Nat /\ 2 * N < incremental_lit /\ O \subseteq 1 .. N
    BY Interfaces DEF Labels, Label, Own, ScopeVars
  <1>2. \A l \in as : l \in Int /\ N < Abs(l)
    <2>1. \A t \in t_lits[Existential] : t \in Nat /\ N < t
      BY Interfaces
    <2>2. \A l \in as : \/ l = incremental_lit
                        \/ \E t \in t_lits[Existential] : l = t \/ l = -t
      BY DEF AssumedT, Opposite
    <2>3. ASSUME NEW l \in as
          PROVE  l \in Int /\ N < Abs(l)
      <3>1. CASE l = incremental_lit
        BY <1>1, <3>1 DEF Abs
      <3>2. CASE \E t \in t_lits[Existential] : l = t \/ l = -t
        <4>1. PICK t \in t_lits[Existential] : l = t \/ l = -t
          BY <3>2
        <4>2. t \in Nat /\ N < t
          BY <2>1
        <4> QED
          BY <1>1, <4>1, <4>2 DEF Abs
      <3> QED
        BY <2>2, <3>1, <3>2
    <2> QED
      BY <2>3
  <1>3. O \ Atoms(as) = O
    <2>1. \A a \in Atoms(as) : N < a
      BY <1>2 DEF Atoms
    <2>2. \A i \in O : ~(N < i)
      BY <1>1
    <2> QED
      BY <2>1, <2>2
  <1>4. PICK pos \in SUBSET O : mm = as \cup {IF a \in pos THEN a ELSE -a : a \in O}
    BY <1>3 DEF SatModels
  <1>5. AssignedLits(Existential, mm) = {IF a \in pos THEN a ELSE -a : a \in O}
    <2>1. \A l \in as : Abs(l) \notin O
      BY <1>1, <1>2
    <2>2. \A a \in O : Abs(a) \in O /\ Abs(-a) \in O
      BY <1>1 DEF Abs
    <2> QED
      BY <1>4, <2>1, <2>2 DEF AssignedLits
  <1> QED
    BY <1>5 DEF Assignments

\* The dual instance is satisfiable, or names literals that it refutes.
Reported(s, m, e) == {l \in m : Abs(l) \in LatchesOf(s)} \cup Negative(AssumedTDual(s, e))
Assumed(s, m, e) == AssignedLits(s, m) \cup AssumedTDual(s, e) \cup {incremental_lit}
LEMMA DualPropagates ==
  ASSUME NEW s, NEW dual, NEW m, NEW e, NEW next, DualPropagation(s, dual, m, e, next)
  PROVE  \/ pc' = "abort" /\ UNCHANGED <<value, entry>>
         \/ \E failed \in FailedSets(dual, Assumed(s, m, e) \ Reported(s, m, e), Reported(s, m, e)) :
              /\ value' = [i \in DOMAIN value |->
                             IF i \notin LatchesOf(s) THEN value[i]
                             ELSE CASE i \in failed -> s [] -i \in failed -> -s [] OTHER -> 0]
              /\ entry' = [entry EXCEPT ![s] = Opposite(failed) \cap t_lits[s]]
              /\ pc' = next
  BY DEF DualPropagation, Reported, Assumed

\* What the refutation by the dual instance needs of an answer is known of it.
LEMMA AnswerIsRefuted ==
  ASSUME Static, GameStatic, Labels, pc # "no_fixpoint", value \in [Variables -> Int],
         DOMAIN entry = {Universal, Existential}, NEW e, e \subseteq t_lits[Existential],
         NEW m \in Assignments(Own(Existential)), NEW dual, negation'[Existential] = dual,
         UNCHANGED <<config, incremental_lit>>,
         DualPropagation(Existential, dual, m, e, "answered")
  PROVE  pc' = "abort" \/ (pc' = "answered" /\ AnswerKnown')
  <1> PICK O : O = Own(Existential)
    OBVIOUS
  <1> PICK L : L = LatchesOf(Existential)
    OBVIOUS
  <1> PICK T : T = t_lits[Existential]
    OBVIOUS
  <1> PICK N : N = MaxNum(circuit)
    OBVIOUS
  <1> PICK latched : latched = {l \in m : Abs(l) \in L}
    OBVIOUS
  <1> PICK reported : reported = latched \cup Opposite(e)
    OBVIOUS
  <1> PICK assumed : assumed = m \cup (Opposite(e) \cup (T \ e)) \cup {incremental_lit}
    OBVIOUS
  <1>1. O \subseteq Variables /\ L \subseteq O /\ N \in Nat /\ O \subseteq 1 .. N
    <2>1. Nodes(circuit) = 1 .. N /\ N \in Nat
      BY Interfaces
    <2> QED
      BY <2>1 DEF Own, ScopeVars, Variables, LatchesOf
  <1>2. \A l \in m : /\ l \in Int /\ -l \notin m /\ LitVar(l) \in O /\ LitVar(l) = Abs(l)
                     /\ \E i \in O : (l = i \/ l = -i) /\ Abs(l) = i
    <2>1. \A l \in m : l \in Int /\ LitVar(l) \in O /\ -l \notin m
      BY <1>1, GameCircuit, IsAssignment
    <2> QED
      BY <1>1, <2>1 DEF LitVar, Abs
  <1>3. \A t \in T : t \in Nat /\ N < t
    BY Interfaces
  <1>4. /\ AssignedLits(Existential, m) = m
        /\ AssumedTDual(Existential, e) = Opposite(e) \cup (T \ e)
        /\ Negative(AssumedTDual(Existential, e)) = Opposite(e)
    <2>1. AssignedLits(Existential, m) = m
      BY <1>2 DEF AssignedLits
    <2>2. AssumedTDual(Existential, e) = Opposite(e) \cup (T \ e)
      <3>1. \A t \in T : -(-t) = t
        BY <1>3
      <3> QED
        BY <3>1 DEF AssumedTDual, AssumedT, Opposite
    <2>3. Negative(AssumedTDual(Existential, e)) = Opposite(e)
      <3>1. \A t \in T : t >= 0 /\ -t < 0
        BY <1>1, <1>3
      <3>2. \A t \in T : ~(t < 0)
        BY <1>1, <1>3
      <3> QED
        BY <2>2, <3>1, <3>2 DEF Negative, Opposite
    <2> QED
      BY <2>1, <2>2, <2>3
  <1>5. \/ pc' = "abort" /\ UNCHANGED <<value, entry>>
        \/ \E failed \in FailedSets(dual, assumed \ reported, reported) :
             /\ value' = [i \in DOMAIN value |->
                            IF i \notin LatchesOf(Existential) THEN value[i]
                            ELSE CASE i \in failed -> Existential [] -i \in failed -> -Existential [] OTHER -> 0]
             /\ entry' = [entry EXCEPT ![Existential] = Opposite(failed) \cap t_lits[Existential]]
             /\ pc' = "answered"
    <2>1. reported = Reported(Existential, m, e) /\ assumed = Assumed(Existential, m, e)
      BY <1>4 DEF Reported, Assumed
    <2>2. \/ pc' = "abort" /\ UNCHANGED <<value, entry>>
          \/ \E failed \in FailedSets(dual, Assumed(Existential, m, e) \ Reported(Existential, m, e),
                                     Reported(Existential, m, e)) :
               /\ value' = [i \in DOMAIN value |->
                              IF i \notin LatchesOf(Existential) THEN value[i]
                              ELSE CASE i \in failed -> Existential [] -i \in failed -> -Existential [] OTHER -> 0]
               /\ entry' = [entry EXCEPT ![Existential] = Opposite(failed) \cap t_lits[Existential]]
               /\ pc' = "answered"
      BY DualPropagates
    <2> QED
      BY <2>1, <2>2
  <1>6. ASSUME NEW failed \in FailedSets(dual, assumed \ reported, reported),
               value' = [i \in DOMAIN value |->
                           IF i \notin LatchesOf(Existential) THEN value[i]
                           ELSE CASE i \in failed -> Existential [] -i \in failed -> -Existential [] OTHER -> 0],
               entry' = [entry EXCEPT ![Existential] = Opposite(failed) \cap t_lits[Existential]],
               pc' = "answered"
        PROVE  AnswerKnown'
    <2>1. failed \subseteq reported /\ ~Satisfiable(dual, (assumed \ reported) \cup failed)
      BY <1>6 DEF FailedSets
    <2>2. incremental_lit \in Nat /\ 2 * N < incremental_lit
      BY DEF Labels, Label
    <2> PICK v : v = value'
      OBVIOUS
    <2> PICK left : left = Opposite(failed) \cap T
      OBVIOUS
    <2> PICK kept : kept = {Signed(v[i], i) : i \in {k \in L : v[k] # 0}}
      OBVIOUS
    <2>3. entry'[Existential] = left
      BY <1>6 DEF Existential
    <2>4. \A i \in L : v[i] = CASE i \in failed -> 3 [] -i \in failed -> -3 [] OTHER -> 0
      BY <1>1, <1>6 DEF Existential
    <2>5. \A l \in Opposite(e) : l \in Int /\ l < -N
      BY <1>1, <1>3 DEF Opposite
    <2>6. \A l \in m : l \in Int /\ -N <= l /\ l <= N
      BY <1>1, <1>2
    <2>7. kept = failed \cap m
      <3>1. ASSUME NEW i \in L, v[i] # 0
            PROVE  Signed(v[i], i) \in failed \cap m
        <4>1. (i \in failed /\ v[i] = 3) \/ (-i \in failed /\ v[i] = -3)
          BY <2>4, <3>1
        <4>2. Signed(v[i], i) \in failed /\ (Signed(v[i], i) = i \/ Signed(v[i], i) = -i)
          BY <4>1 DEF Signed
        <4>3. i \in 1 .. N
          BY <1>1
        <4> QED
          BY <1>1, <2>1, <2>5, <4>2, <4>3
      <3>2. ASSUME NEW l \in failed, l \in m
            PROVE  l \in kept
        <4>1. l \in latched
          <5>1. l \notin Opposite(e)
            BY <1>1, <2>5, <2>6, <3>2
          <5> QED
            BY <2>1, <5>1
        <4>2. PICK i \in L : (l = i \/ l = -i) /\ Abs(l) = i
          BY <1>2, <4>1
        <4>3. i \in 1 .. N
          BY <1>1
        <4>4. ASSUME NEW k \in failed, k = i \/ k = -i
              PROVE  k \in m
          BY <1>1, <2>1, <2>5, <4>3, <4>4
        <4>5. -(-i) = i
          BY <4>3
        <4>6. ~(i \in failed /\ -i \in failed)
          BY <1>2, <4>4, <4>5
        <4>7. CASE l = i
          <5>1. v[i] = 3
            BY <2>4, <3>2, <4>6, <4>7
          <5> QED
            BY <4>7, <5>1 DEF Signed
        <4>8. CASE l = -i
          <5>1. v[i] = -3
            BY <2>4, <4>6, <4>8
          <5> QED
            BY <4>8, <5>1 DEF Signed
        <4> QED
          BY <4>2, <4>7, <4>8
      <3>3. kept \subseteq failed \cap m
        BY <3>1
      <3>4. failed \cap m \subseteq kept
        BY <3>2
      <3> QED
        BY <3>3, <3>4
    <2>8. failed = kept \cup Opposite(left)
      <3>1. ASSUME NEW l \in failed, l \notin m
            PROVE  l \in Opposite(left)
        <4>1. PICK t \in e : l = -t
          BY <2>1, <3>1 DEF Opposite
        <4>2. -l = t /\ -(-l) = l
          BY <1>3, <4>1
        <4> QED
          BY <4>1, <4>2 DEF Opposite
      <3>2. ASSUME NEW l \in Opposite(left)
            PROVE  l \in failed
        <4>1. PICK k \in failed : -k \in T /\ l = -(-k)
          BY DEF Opposite
        <4>2. k \in Int
          BY <1>2, <2>1, <2>5
        <4> QED
          BY <4>1, <4>2
      <3>3. kept \subseteq failed
        BY <2>7
      <3>4. failed \subseteq kept \cup Opposite(left)
        BY <2>7, <3>1
      <3> QED
        BY <3>2, <3>3, <3>4
    <2>9. left \subseteq e
      <3> SUFFICES ASSUME NEW l \in failed, -l \in T
                   PROVE  -l \in e
        BY DEF Opposite
      <3>1. l \in Int
        BY <1>2, <2>1, <2>5
      <3>2. l \notin m
        <4>1. -l \in Nat /\ N < -l
          BY <1>3
        <4> QED
          BY <1>1, <2>6, <3>1, <4>1
      <3>3. PICK t \in e : l = -t
        BY <2>1, <3>2 DEF Opposite
      <3>4. -l = t
        BY <1>3, <3>3
      <3> QED
        BY <3>3, <3>4
    <2> PICK on : on = T \ e
      OBVIOUS
    <2>10. (assumed \ reported) \cup failed
             = {l \in m : LitVar(l) \notin L} \cup kept \cup on \cup Opposite(left) \cup {incremental_lit}
      <3>1. \A l \in m : l \in latched <=> LitVar(l) \in L
        BY <1>2
      <3>2. \A l \in on \cup {incremental_lit} : l \notin reported
        <4>1. \A l \in on \cup {incremental_lit} : l \in Nat /\ N < l
          BY <1>1, <1>3, <2>2
        <4>2. \A l \in reported : ~(N < l)
          BY <1>1, <2>5, <2>6
        <4> QED
          BY <4>1, <4>2
      <3>3. \A l \in m : l \notin Opposite(e)
        BY <1>1, <2>5, <2>6
      <3>4. assumed \ reported = {l \in m : LitVar(l) \notin L} \cup on \cup {incremental_lit}
        BY <3>1, <3>2, <3>3
      <3> QED
        BY <2>8, <3>4
    <2>11. /\ Own(Existential)' = O /\ LatchesOf(Existential)' = L /\ t_lits'[Existential] = T
           /\ incremental_lit' = incremental_lit /\ \A x : Controls(x)' = Controls(x)
      <3>1. UNCHANGED config /\ t_lits' = t_lits
        BY DEF config
      <3> QED
        BY <3>1, SameGame, SameAnswers
    <2>12. Cube(Existential)' = kept
      BY <2>11 DEF Cube
    <2>13. AnswerRefuted(m, on)'
      <3>1. ~Satisfiable(dual, Controls(m) \cup kept \cup on \cup Opposite(left) \cup {incremental_lit})
        BY <2>1, <2>10 DEF Controls
      <3>2. Controls(m)' = Controls(m)
        BY <2>11
      <3>3. AnswerRefuted(m, on)' <=>
              ~Satisfiable(dual, Controls(m)' \cup kept \cup on \cup Opposite(left) \cup {incremental_lit})
        BY <2>3, <2>11, <2>12 DEF AnswerRefuted
      <3> QED
        BY <3>1, <3>2, <3>3
    <2>14. m \in Assignments(O) /\ on \in SUBSET (T \ left) /\ kept \subseteq m
      BY <2>7, <2>9
    <2> QED
      BY <2>3, <2>11, <2>12, <2>13, <2>14 DEF AnswerKnown
  <1> QED
    BY <1>5, <1>6

\* An answer.
LEMMA HAnswered ==
  ASSUME FInv, GInv, HInv, Answered
  PROVE  HInv'
  <1>1. UNCHANGED <<config, sat, negation, incremental_lit, incremental, refinements, excluded>>
        /\ UNCHANGED <<config, incremental_lit>> /\ pc = "inner" /\ UNCHANGED config
    BY DEF Answered, instances
  <1>2. Running /\ pc # "no_fixpoint" /\ Static /\ GameStatic /\ Labels
        /\ value \in [Variables -> Int] /\ DOMAIN entry = {Universal, Existential}
    BY <1>1 DEF Running, FInv, GInv, Pending, Fields
  <1>3. pc' = "abort" \/ (pc' = "answered" /\ AnswerKnown')
    <2> PICK e : e = MinimizedEntry(entry[Existential])
      OBVIOUS
    <2>1. e \subseteq t_lits[Existential]
      BY MinimizedStaysSat, Interfaces DEF FInv, Fields
    <2>2. \/ pc' = "abort"
          \/ \E mm \in SatModels(sat[Existential], AssumedT(Existential, e) \cup {incremental_lit},
                                 Own(Existential)) :
               DualPropagation(Existential, negation[Existential], AssignedLits(Existential, mm), e, "answered")
      BY DEF Answered
    <2>3. CASE \E mm \in SatModels(sat[Existential], AssumedT(Existential, e) \cup {incremental_lit},
                                   Own(Existential)) :
               DualPropagation(Existential, negation[Existential], AssignedLits(Existential, mm), e, "answered")
      <3> PICK clauses : clauses = sat[Existential]
        OBVIOUS
      <3> PICK dual : dual = negation[Existential]
        OBVIOUS
      <3>1. PICK mm \in SatModels(clauses, AssumedT(Existential, e) \cup {incremental_lit}, Own(Existential)) :
              DualPropagation(Existential, dual, AssignedLits(Existential, mm), e, "answered")
        BY <2>3
      <3> PICK m : m = AssignedLits(Existential, mm)
        OBVIOUS
      <3>2. m \in Assignments(Own(Existential))
        BY <1>2, <2>1, AnswerAssigns
      <3>3. negation'[Existential] = dual /\ DualPropagation(Existential, dual, m, e, "answered")
        BY <1>1, <3>1
      <3> QED
        BY <1>1, <1>2, <2>1, <3>2, <3>3, AnswerIsRefuted
    <2> QED
      BY <2>2, <2>3
  <1> QED
    BY <1>1, <1>2, <1>3, SameKnowledge DEF HInv, ErrorFree, ContainsInitial, Running

\* The error latch and its next value are no gates, and no labels.
LEMMA ErrorVariables ==
  ASSUME Static, GameStatic
  PROVE  \A v \in {ErrorLatch.var, ErrorLatch.primed} :
           /\ v \in 1 .. MaxNum(circuit) /\ v # F /\ v # FPrime
           /\ F \in 1 .. MaxNum(circuit) /\ FPrime \in 1 .. MaxNum(circuit)
  <1>1. \A v \in {ErrorLatch.var, ErrorLatch.primed} : v \in Nodes(circuit) /\ IsVar(circuit, v)
    BY GameNodes DEF Own, ScopeVars, ErrorLatch
  <1>2. \A k \in {F, FPrime} : k \in Nodes(circuit) /\ ~IsVar(circuit, k)
    BY ErrorGates DEF IsVar
  <1> QED
    BY <1>1, <1>2, Interfaces

\* An excluded cube is about the latches of the game.
LEMMA CubeOfLatches ==
  ASSUME Static, GameStatic, value[ErrorLatch.var] = 0
  PROVE  Cube(Universal) \subseteq LatchLits
  <1> SUFFICES ASSUME NEW l \in Cube(Universal)
               PROVE  l \in LatchLits
    OBVIOUS
  <1>1. PICK k \in LatchesOf(Universal) : value[k] # 0 /\ l = Signed(value[k], k)
    BY DEF Cube
  <1>2. PICK i \in DOMAIN latches : k = latches[i].var
    BY <1>1 DEF LatchesOf
  <1>3. i \in GameLatches
    BY <1>1, <1>2 DEF GameLatches, ErrorLatch
  <1>4. l = latches[i].var \/ l = -latches[i].var
    BY <1>1, <1>2 DEF Signed
  <1> QED
    BY <1>3, <1>4 DEF LatchLits

\* Exclusion keeps what is known of the clauses: those under the label for F up to now, of the
\* old cubes as well as of the refinements that lead into the new one, are outdated by it, and
\* an answer that leads to a state of the other refinements does not meet the cube.
LEMMA HExclude ==
  ASSUME FInv, GInv, HInv, ExcludeStates
  PROVE  HInv'
  <1> PICK cube : cube = Cube(Universal)
    OBVIOUS
  <1> PICK primed : primed = {Primed(l) : l \in cube}
    OBVIOUS
  <1> PICK lost : lost = LostRefinements(cube)
    OBVIOUS
  <1> PICK pushed : pushed = incremental \cup {next_lit}
    OBVIOUS
  <1> PICK N : N = MaxNum(circuit)
    OBVIOUS
  <1> PICK label : label = incremental_lit
    OBVIOUS
  <1> PICK next : next = next_lit
    OBVIOUS
  <1> DEFINE Push(s) == IF ContainsInitial(cube) THEN {} ELSE {PushedClause(s, next + 1, pushed)}
  <1>1. /\ sat' = [sat EXCEPT ![Universal] = @ \cup ExcludeIn(Universal, cube) \cup Outdated(lost),
                              ![Existential] = @ \cup ExcludeIn(Existential, primed)]
        /\ negation' = [negation EXCEPT
              ![Universal] = @ \cup ExcludeDual(Universal, cube, next) \cup Outdated(lost)
                               \cup Push(Universal),
              ![Existential] = @ \cup ExcludeDual(Existential, primed, next)
                                 \cup Push(Existential)]
        /\ incremental' = pushed /\ excluded' = excluded \cup {cube}
        /\ refinements' = refinements \ lost
        /\ incremental_lit' = IF ContainsInitial(cube) THEN 0 ELSE next + 1
        /\ pc' = IF ContainsInitial(cube) THEN "no_fixpoint" ELSE "loop"
        /\ UNCHANGED config /\ pc = "exclude"
    BY DEF ExcludeStates
  <1> HIDE DEF Push
  <1> SUFFICES ASSUME ~ContainsInitial(cube)
               PROVE  HInv'
    BY <1>1 DEF HInv, Running
  <1>2. /\ Static /\ GameStatic /\ Bounds /\ Labels /\ Running /\ pc # "no_fixpoint"
        /\ value[ErrorLatch.var] = 0
    BY <1>1 DEF FInv, GInv, HInv, Running, ErrorFree
  <1>3. /\ N \in Nat /\ next \in Nat /\ 2 * N < next /\ label \in Nat /\ 2 * N < label /\ label < next
        /\ incremental_lit' = next + 1 /\ pc' = "loop" /\ N = MaxNum(circuit)'
    <2>1. incremental_lit' = next + 1 /\ pc' = "loop" /\ N = MaxNum(circuit)'
      BY <1>1, SameGame
    <2> QED
      BY <1>2, <2>1, Interfaces DEF Labels, Label
  <1>4. /\ \A s : Push(s) = {PushedClause(s, next + 1, pushed)}
        /\ sat'[Universal] = sat[Universal] \cup ExcludeIn(Universal, cube) \cup Outdated(lost)
        /\ negation'[Universal] = negation[Universal] \cup ExcludeDual(Universal, cube, next)
                                    \cup Outdated(lost) \cup Push(Universal)
        /\ negation'[Existential] = negation[Existential]
                                      \cup ExcludeDual(Existential, primed, next) \cup Push(Existential)
    <2>1. DOMAIN sat = {Universal, Existential} /\ DOMAIN negation = {Universal, Existential}
          /\ Universal # Existential
      BY <1>2 DEF FInv, Fields, Bounds, Universal, Existential
    <2>2. \A s : Push(s) = {PushedClause(s, next + 1, pushed)}
      BY DEF Push
    <2> QED
      BY <1>1, <2>1, <2>2
  <1>5. /\ cube \subseteq LatchLits
        /\ \A l \in cube : l \in Int /\ LitVar(l) # ErrorLatch.var /\ LitVar(l) \in 1 .. N
        /\ \A p \in primed : p \in Int /\ LitVar(p) # ErrorLatch.primed /\ LitVar(p) \in 1 .. N
    <2>1. cube \subseteq LatchLits
      BY <1>2, CubeOfLatches
    <2>2. Own(Universal) \subseteq 1 .. N /\ Own(Existential) \subseteq 1 .. N
      BY <1>2, Interfaces DEF Own, ScopeVars
    <2>3. \A l \in cube : l \in Int /\ LitVar(l) # ErrorLatch.var /\ LitVar(l) \in Own(Universal)
                          /\ Primed(l) \in NextLatchLits
      BY <1>2, <2>1, LatchLiterals
    <2>4. \A p \in NextLatchLits : p \in Int /\ LitVar(p) \in Own(Existential) /\ LitVar(p) # ErrorLatch.primed
      BY <1>2, LatchLiterals
    <2>5. \A p \in primed : p \in NextLatchLits
      BY <2>3
    <2> QED
      BY <2>1, <2>2, <2>3, <2>4, <2>5
  <1>6. \A l \in cube \cup primed : l \in Int /\ -N <= l /\ l <= N
    <2>1. \A l \in cube \cup primed : l \in Int /\ LitVar(l) \in 1 .. N
      BY <1>5
    <2> QED
      BY <1>3, <2>1 DEF LitVar
  <1>7. \A l \in incremental : l \in Nat /\ 2 * N < l /\ l < next /\ l # label
    BY <1>2 DEF HInv, NegationKnown, Bounds, Label
  <1>8. \A r \in refinements : /\ r.incremental_literal \in Nat /\ 2 * N < r.incremental_literal
                               /\ r.incremental_literal < next /\ r.incremental_literal # label
                               /\ \A o \in refinements : o.incremental_literal = r.incremental_literal => o = r
    BY <1>2 DEF Labels, Label
  <1>9. \A s \in {Universal, Existential} : \A cl \in sat[s] \cup negation[s] : \A l \in cl :
          l \in Int /\ -next < l /\ l < next
    BY <1>2, KnownNumbers DEF Bounds
  <1>10. ErrorUnread'
    <2>1. ASSUME NEW v \in {ErrorLatch.var, ErrorLatch.primed}, NEW s, NEW c \in {cube, primed},
                 \A l \in c : l # v /\ l # -v
          PROVE  Silent(ExcludeDual(s, c, next) \cup Outdated(lost) \cup Push(s), v)
      <3>1. /\ v \in 1 .. N /\ v # F /\ v # FPrime /\ F \in 1 .. N /\ FPrime \in 1 .. N
        BY <1>2, ErrorVariables
      <3>2. ASSUME NEW cl \in Push(s), NEW l \in cl
            PROVE  l # v /\ l # -v
        <4>1. l = -(next + 1) \/ l = -F \/ l = -FPrime \/ l \in incremental \/ l = next
          BY <1>4, <3>2 DEF PushedClause, FOf
        <4> QED
          BY <1>3, <1>7, <3>1, <4>1
      <3>3. ASSUME NEW cl \in Outdated(lost), NEW l \in cl
            PROVE  l # v /\ l # -v
        <4>1. PICK r \in refinements : l = -r.incremental_literal
          BY <3>3 DEF Outdated, LostRefinements
        <4> QED
          BY <1>3, <1>8, <3>1, <4>1
      <3>4. ASSUME NEW cl \in ExcludeDual(s, c, next), NEW l \in cl
            PROVE  l # v /\ l # -v
        <4>1. l = -label \/ l = -next \/ l \in c
          BY <3>4 DEF ExcludeDual
        <4> QED
          BY <1>3, <2>1, <3>1, <4>1
      <3>5. ASSUME NEW cl \in ExcludeDual(s, c, next) \cup Outdated(lost) \cup Push(s)
            PROVE  v \notin cl /\ -v \notin cl
        BY <3>2, <3>3, <3>4
      <3> QED
        BY <3>5 DEF Silent
    <2>2. \A v \in {ErrorLatch.var, ErrorLatch.primed} : v \in Nat /\ LitVar(v) = v /\ LitVar(-v) = v
      BY <1>2, ErrorVariables DEF LitVar
    <2>3. /\ \A l \in cube : l # ErrorLatch.var /\ l # -ErrorLatch.var
          /\ \A l \in primed : l # ErrorLatch.primed /\ l # -ErrorLatch.primed
      BY <1>5, <2>2
    <2>4. /\ Silent(ExcludeDual(Universal, cube, next) \cup Outdated(lost) \cup Push(Universal), ErrorLatch.var)
          /\ Silent(ExcludeDual(Existential, primed, next) \cup Outdated(lost) \cup Push(Existential), ErrorLatch.primed)
      BY <2>1, <2>3
    <2>5. Silent(negation[Universal], ErrorLatch.var) /\ Silent(negation[Existential], ErrorLatch.primed)
      BY <1>2 DEF HInv, ErrorUnread
    <2>6. ErrorLatch' = ErrorLatch
      BY <1>1, SameGame
    <2>7. Silent(negation'[Universal], ErrorLatch.var) /\ Silent(negation'[Existential], ErrorLatch.primed)
      BY <1>4, <2>4, <2>5 DEF Silent
    <2> QED
      BY <2>6, <2>7 DEF ErrorUnread, Silent
  <1>11. ErrorFree'
    BY <1>1, <1>2, <1>3, <1>5, SameAnswers DEF ErrorFree, HInv
  <1>12. ASSUME NEW cl, NEW l \in cl, l < -(2 * N), l # -(next + 1)
         PROVE  Off(cl)'
    BY <1>3, <1>12 DEF Off
  <1>13. NegationKnown'
    <2>1. ASSUME NEW cl \in negation'[Existential]
          PROVE  \/ cl \in Instance(Existential, "forall")
                 \/ -FPrime \in cl /\ -(next + 1) \in cl /\ pushed \subseteq cl
                 \/ Off(cl)'
      <3>1. CASE cl \in negation[Existential]
        <4>1. CASE -label \in cl
          BY <1>3, <1>12, <4>1
        <4>2. CASE Off(cl)
          <5>1. PICK l \in cl : l < -(2 * N)
            BY <4>2 DEF Off
          <5>2. -next < l /\ l \in Int
            BY <1>9, <3>1
          <5>3. l # -(next + 1)
            BY <1>3, <5>2
          <5> QED
            BY <1>12, <5>1, <5>3
        <4> QED
          BY <1>2, <3>1, <4>1, <4>2 DEF HInv, NegationKnown
      <3>2. CASE cl \in ExcludeDual(Existential, primed, next)
        <4>1. -label \in cl \/ -next \in cl
          BY <3>2 DEF ExcludeDual
        <4>2. -label < -(2 * N) /\ -label # -(next + 1) /\ -next < -(2 * N) /\ -next # -(next + 1)
          BY <1>3
        <4> QED
          BY <1>12, <4>1, <4>2
      <3>3. CASE cl \in Push(Existential)
        BY <1>4, <3>3 DEF PushedClause, FOf, Universal, Existential
      <3> QED
        BY <1>4, <3>1, <3>2, <3>3
    <2>2. \A lit \in pushed : lit # next + 1
      BY <1>3, <1>7
    <2>3. ASSUME NEW cl \in negation'[Existential], -next \in cl
          PROVE  \E l \in cube : Primed(l) \in cl
      <3>1. cl \notin negation[Existential]
        BY <1>3, <1>9, <2>3
      <3>2. cl \notin Push(Existential)
        <4> SUFFICES ASSUME cl \in Push(Existential)
                     PROVE  FALSE
          OBVIOUS
        <4>1. -next = -(next + 1) \/ -next = -F \/ -next = -FPrime \/ -next \in incremental \/ -next = next
          BY <1>4, <2>3 DEF PushedClause, FOf
        <4>2. F \in 1 .. N /\ FPrime \in 1 .. N
          BY <1>2, ErrorVariables
        <4> QED
          BY <1>3, <1>7, <4>1, <4>2
      <3>3. cl \in ExcludeDual(Existential, primed, next)
        BY <1>4, <3>1, <3>2
      <3>4. cl # {-label}
        BY <1>3, <2>3
      <3> QED
        BY <3>3, <3>4 DEF ExcludeDual
    <2>4. ASSUME NEW c \in excluded
          PROVE  \E lit \in pushed : \A cl \in negation'[Existential] :
                   -lit \in cl => \E l \in c : Primed(l) \in cl
      <3>1. PICK lit \in incremental : \A cl \in negation[Existential] :
                   -lit \in cl => \E l \in c : Primed(l) \in cl
        BY <1>2 DEF HInv, NegationKnown
      <3>2. lit \in Nat /\ 2 * N < lit /\ lit < next /\ lit # label
        BY <1>7
      <3>3. ASSUME NEW cl \in Push(Existential)
            PROVE  -lit \notin cl
        <4> SUFFICES ASSUME -lit \in cl
                     PROVE  FALSE
          OBVIOUS
        <4>1. -lit = -(next + 1) \/ -lit = -F \/ -lit = -FPrime \/ -lit \in incremental \/ -lit = next
          BY <1>4, <3>3 DEF PushedClause, FOf
        <4>2. F \in 1 .. N /\ FPrime \in 1 .. N
          BY <1>2, ErrorVariables
        <4> QED
          BY <1>3, <1>7, <3>2, <4>1, <4>2
      <3>4. ASSUME NEW cl \in ExcludeDual(Existential, primed, next)
            PROVE  -lit \notin cl
        <4>1. \A l \in cl : l = -label \/ l = -next \/ l \in primed
          BY <3>4 DEF ExcludeDual
        <4>2. -lit # -label /\ -lit # -next /\ -lit < -N
          BY <1>3, <3>2
        <4> QED
          BY <1>3, <1>6, <4>1, <4>2
      <3> QED
        BY <1>4, <3>1, <3>3, <3>4
    <2>5. \A c \in excluded' : \E lit \in incremental' : \A cl \in negation'[Existential] :
            -lit \in cl => \E l \in c : Primed(l) \in cl
      <3>1. next \in pushed
        OBVIOUS
      <3>2. ASSUME NEW c \in excluded \cup {cube}
            PROVE  \E lit \in pushed : \A cl \in negation'[Existential] :
                     -lit \in cl => \E l \in c : Primed(l) \in cl
        <4>1. CASE c = cube
          BY <2>3, <3>1, <4>1
        <4>2. CASE c \in excluded
          BY <2>4, <4>2
        <4> QED
          BY <4>1, <4>2
      <3> QED
        BY <1>1, <3>2
    <2>6. FPrime' = FPrime /\ (\A l : Primed(l)' = Primed(l))
          /\ Instance(Existential, "forall")' = Instance(Existential, "forall")
      BY <1>1, SameGame, SameAnswers
    <2> QED
      BY <1>1, <1>3, <2>1, <2>2, <2>5, <2>6 DEF NegationKnown
  <1>14. ASSUME NEW r \in refinements, r \notin lost
         PROVE  /\ Guarded(r.incremental_literal)' = Guarded(r.incremental_literal)
                /\ \A o \in lost : o.incremental_literal # r.incremental_literal
    <2> PICK lit : lit = r.incremental_literal
      OBVIOUS
    <2>1. lit \in Nat /\ 2 * N < lit /\ lit < next /\ lit # label
      BY <1>8
    <2>2. \A o \in lost : o.incremental_literal # lit
      BY <1>8, <1>14 DEF LostRefinements
    <2>3. \A o \in lost : -o.incremental_literal # -lit
      <3>1. \A o \in lost : o.incremental_literal \in Nat
        BY <1>8 DEF LostRefinements
      <3> QED
        BY <2>1, <2>2, <3>1
    <2>4. ASSUME NEW cl \in ExcludeIn(Universal, cube) \cup Outdated(lost)
          PROVE  -lit \notin cl
      <3>1. CASE cl \in Outdated(lost)
        BY <2>3, <3>1 DEF Outdated
      <3>2. CASE cl \in ExcludeIn(Universal, cube)
        <4>1. \A l \in cl : l = -label \/ \E k \in cube : l = -k
          BY <3>2 DEF ExcludeIn, Opposite
        <4>2. -lit # -label /\ \A k \in cube : -lit # -k
          BY <1>3, <1>6, <2>1
        <4> QED
          BY <4>1, <4>2
      <3> QED
        BY <3>1, <3>2
    <2>5. {cl \in sat'[Universal] : -lit \in cl} = {cl \in sat[Universal] : -lit \in cl}
      BY <1>4, <2>4
    <2>6. Guarded(r.incremental_literal)' = {cl \in sat'[Universal] : -lit \in cl}
      BY DEF Guarded
    <2> QED
      BY <2>2, <2>5, <2>6 DEF Guarded
  <1>15. RefinementsWork'
    <2>1. ASSUME NEW r \in refinements, r \notin lost, NEW a \in Unraised, CanAnswer(a, r.sub_states)
          PROVE  CanAnswer(a, r.sub_states)'
      <3> PICK sub : sub = r.sub_states
        OBVIOUS
      <3>1. PICK x \in Assignments(Own(Existential)) : Keeps(a, x) /\ LeadsTo(x, sub)
        BY <2>1 DEF CanAnswer
      <3>2. PICK l \in cube : l \notin sub
        BY <2>1 DEF LostRefinements
      <3>3. Primed(l) \notin x
        BY <1>5, <3>1, <3>2 DEF LeadsTo
      <3>4. Keeps(a, x)'
        <4>1. \A c \in excluded' : ~({Primed(k) : k \in c} \subseteq x)
          BY <1>1, <3>1, <3>3 DEF Keeps
        <4>2. Matrix(a, x)' /\ \A k : Primed(k)' = Primed(k)
          BY <1>1, <3>1, SameGame DEF Keeps
        <4> QED
          BY <4>1, <4>2 DEF Keeps
      <3>5. x \in Assignments(Own(Existential)') /\ LeadsTo(x, sub)'
        BY <1>1, <3>1, SameGame, SameAnswers
      <3>6. CanAnswer(a, sub)'
        BY <3>4, <3>5 DEF CanAnswer
      <3>7. CanAnswer(a, sub)' => CanAnswer(a, r.sub_states)'
        BY DEF CanAnswer, LeadsTo
      <3> QED
        BY <3>6, <3>7
    <2>2. ASSUME NEW r \in refinements', NEW cl \in Guarded(r.incremental_literal)'
          PROVE  Works(r.sub_states, cl)'
      <3>1. r \in refinements /\ r \notin lost
        BY <1>1
      <3>2. cl \in Guarded(r.incremental_literal)
        BY <1>14, <3>1
      <3>3. Works(r.sub_states, cl)
        BY <1>2, <3>1, <3>2 DEF HInv, RefinementsWork
      <3>4. ASSUME NEW a \in Unraised
            PROVE  cl \cap OuterModel("forall", a) # {} \/ CanAnswer(a, r.sub_states)'
        BY <2>1, <3>1, <3>3 DEF Works
      <3>5. Unraised' = Unraised /\ \A a : OuterModel("forall", a)' = OuterModel("forall", a)
        BY <1>1, SameGame, SameAnswers
      <3> QED
        BY <3>4, <3>5 DEF Works
    <2> QED
      BY <2>2 DEF RefinementsWork
  <1>16. OuterKnown'
    <2>1. ASSUME NEW l \in OuterAssumed'
          PROVE  l = next + 1 \/ \E r \in refinements : r \notin lost /\ l = r.incremental_literal
      <3>1. OuterAssumed' = {next + 1} \cup {r.incremental_literal : r \in refinements \ lost}
        BY <1>1, <1>3 DEF OuterAssumed
      <3> QED
        BY <3>1
    <2>2. ASSUME NEW cl, NEW l \in cl, l < -(2 * N), -l \notin OuterAssumed'
          PROVE  OffOuter(cl)'
      BY <1>3, <2>2 DEF OffOuter
    <2>3. ASSUME NEW o \in lost, NEW cl, -o.incremental_literal \in cl
          PROVE  OffOuter(cl)'
      <3> PICK lit : lit = o.incremental_literal
        OBVIOUS
      <3>1. lit \in Nat /\ 2 * N < lit /\ lit < next
        BY <1>8 DEF LostRefinements
      <3>2. lit \notin OuterAssumed'
        BY <1>3, <1>14, <2>1, <3>1
      <3>3. -lit < -(2 * N) /\ -(-lit) = lit
        BY <1>3, <3>1
      <3> QED
        BY <2>2, <2>3, <3>2, <3>3
    <2>4. OffOuter({-label})'
      <3>1. label \notin OuterAssumed'
        BY <1>3, <1>8, <2>1
      <3>2. -label < -(2 * N) /\ -(-label) = label
        BY <1>3
      <3> QED
        BY <2>2, <3>1, <3>2
    <2>5. ASSUME NEW cl \in sat[Universal], OffOuter(cl)
          PROVE  OffOuter(cl)'
      <3>1. PICK l \in cl : l < -(2 * N) /\ -l \notin OuterAssumed
        BY <2>5 DEF OffOuter
      <3>2. l \in Int /\ -next < l
        BY <1>9
      <3>3. -l \notin OuterAssumed'
        <4>1. -l # next + 1
          BY <1>3, <3>2
        <4>2. \A r \in refinements : r.incremental_literal \in OuterAssumed
          BY DEF OuterAssumed
        <4> QED
          BY <2>1, <3>1, <4>1, <4>2
      <3> QED
        BY <2>2, <3>1, <3>3
    <2>6. ASSUME NEW cl \in sat'[Universal]
          PROVE  \/ cl \in Instance(Universal, "forall")
                 \/ \E c \in excluded' : cl = Opposite(c)
                 \/ OffOuter(cl)'
                 \/ \E r \in refinements' : cl \in Guarded(r.incremental_literal)'
      <3>1. CASE cl \in sat[Universal]
        <4>1. CASE \E r \in refinements : cl \in Guarded(r.incremental_literal)
          <5>1. PICK r \in refinements : cl \in Guarded(r.incremental_literal)
            BY <4>1
          <5>2. CASE r \in lost
            <6>1. -r.incremental_literal \in cl
              BY <5>1 DEF Guarded
            <6> QED
              BY <2>3, <5>2, <6>1
          <5>3. CASE r \notin lost
            <6>1. cl \in Guarded(r.incremental_literal)' /\ r \in refinements'
              BY <1>1, <1>14, <5>1, <5>3
            <6> QED
              BY <6>1
          <5> QED
            BY <5>2, <5>3
        <4> QED
          BY <1>1, <1>2, <2>5, <3>1, <4>1 DEF HInv, OuterKnown
      <3>2. CASE cl \in ExcludeIn(Universal, cube)
        BY <1>1, <2>4, <3>2 DEF ExcludeIn
      <3>3. CASE cl \in Outdated(lost)
        <4>1. PICK o \in lost : cl = {-o.incremental_literal}
          BY <3>3 DEF Outdated
        <4>2. -o.incremental_literal \in cl
          BY <4>1
        <4> QED
          BY <2>3, <4>2
      <3> QED
        BY <1>4, <3>1, <3>2, <3>3
    <2> QED
      BY <1>1, <2>6, SameAnswers DEF OuterKnown
  <1>17. \A c \in excluded' : ~ContainsInitial(c)
    BY <1>1, <1>2 DEF HInv
  <1> QED
    BY <1>3, <1>10, <1>11, <1>13, <1>15, <1>16, <1>17 DEF HInv, ContainsInitial

\* Every step keeps what is known of the clauses.
LEMMA HNext ==
  ASSUME FInv, GInv, HInv, [Next]_vars
  PROVE  HInv'
  <1>1. CASE UNCHANGED vars
    <2>1. /\ UNCHANGED <<config, sat, negation, incremental_lit, incremental, refinements, excluded>>
          /\ UNCHANGED <<config, value, entry, pc>> /\ UNCHANGED config /\ UNCHANGED negation
          /\ UNCHANGED <<incremental_lit, excluded>>
      BY <1>1 DEF vars, instances
    <2>2. UNCHANGED <<aiger, circuit, inputs, latches, t_lits>>
      BY <2>1 DEF config
    <2>3. AnswerKnown' <=> AnswerKnown
      <3>1. Cube(Existential)' = Cube(Existential)
        BY <2>1, SameAnswers DEF Cube
      <3>2. \A x, on : AnswerRefuted(x, on)' <=> AnswerRefuted(x, on)
        BY <2>1, <2>2, <3>1, SameAnswers DEF AnswerRefuted
      <3> QED
        BY <2>1, <2>2, <3>1, <3>2, SameGame DEF AnswerKnown
    <2>4. CanStayIn(Safe)' <=> CanStayIn(Safe)
      BY <2>1, <2>2 DEF CanStayIn, Safe, NoError, StatesIn, game, Uncontrolled, CanStay
    <2>5. Running => ErrorFree'
      BY <2>1, SameGame, SameAnswers DEF HInv, ErrorFree
    <2>6. Running' <=> Running
      BY <2>1 DEF Running
    <2> QED
      BY <2>1, <2>3, <2>4, <2>5, <2>6, SameKnowledge DEF HInv, ContainsInitial
  <1>2. CASE Done
    BY <1>1, <1>2 DEF Done
  <1> QED
    BY <1>1, <1>2, HPropose, HInductive, HRefuted, HMinimizeCube, HExclude, HAnswered, HRefine DEF Next

-----------------------------------------------------------------------------
\* All that is known of the solver.
LEMMA FixpointKnowledge ==
  /\ Init => FInv /\ GInv /\ HInv
  /\ FInv /\ GInv /\ HInv /\ [Next]_vars => FInv' /\ GInv' /\ HInv'
  BY InitInv, GInit, HInit, NextInv, GNext, HNext

\* So the answer REALIZABLE is right, as UNREALIZABLE is: when the universal instance has no
\* proposal left, the control can keep the play in the states that are not excluded, and the
\* initial state is one of them.  The exclusion of states by one dual instance and the
\* refinements that the other one generalises are both right.
THEOREM ResultIsRight == Spec => []ResultIsWinning
  <1>1. Init => FInv /\ GInv /\ HInv
    BY FixpointKnowledge
  <1>2. FInv /\ GInv /\ HInv /\ [Next]_vars => FInv' /\ GInv' /\ HInv'
    BY FixpointKnowledge
  <1>3. FInv /\ GInv /\ HInv /\ GivingUpIsRight => ResultIsWinning
    <2> SUFFICES ASSUME FInv, GInv, HInv, pc = "inductive"
                 PROVE  Initial \in Winning
      BY DEF GivingUpIsRight, ResultIsWinning
    <2>1. /\ CanStayIn(Safe) /\ Static /\ GameStatic
          /\ \A cube \in excluded : cube \subseteq LatchLits /\ ~ContainsInitial(cube)
      BY DEF HInv, ErrorFree, Running, FInv, GInv
    <2>2. Initial \in NoError
      <3>1. Len(latches) \in DOMAIN latches
        BY <2>1, GameNodes
      <3> QED
        BY <3>1 DEF Initial, NoError, States, game
    <2>3. ASSUME NEW cube \in excluded
          PROVE  Initial \notin StatesIn(cube)
      <3>1. PICK l \in cube : ~(l < 0)
        BY <2>1 DEF ContainsInitial
      <3>2. PICK i \in GameLatches : l = latches[i].var \/ l = -latches[i].var
        BY <2>1 DEF LatchLits
      <3>3. i \in DOMAIN latches /\ latches[i].var \in Nat \ {0}
        BY <2>1, <3>2, GameNodes, GameCircuit DEF GameLatches
      <3>4. l = latches[i].var
        BY <3>1, <3>2, <3>3
      <3> QED
        BY <3>3, <3>4 DEF StatesIn, Initial
    <2>4. Initial \in Safe /\ Safe \in SUBSET NoError
      BY <2>2, <2>3 DEF Safe
    <2> QED
      BY <2>1, <2>4 DEF Winning, CanStayIn
  <1>4. Spec => []GivingUpIsRight
    BY UnrealizableIsRight
  <1> QED
    BY <1>1, <1>2, <1>3, <1>4, PTL DEF Spec

\* A refinement that is still assumed stays valid however often F has shrunk since it was
\* learnt: check_old_refinements drops those that led to excluded states only, and the others
\* lead to a state that is in no excluded cube.
THEOREM RefinementsStayValid == Spec => []RefinementsStillValid
  <1>1. FInv /\ GInv /\ HInv => RefinementsStillValid
    <2>1. CASE pc = "loop"
      BY <2>1, RefinementIsLeft
    <2>2. CASE pc # "loop"
      BY <2>2 DEF RefinementsStillValid
    <2> QED
      BY <2>1, <2>2
  <1>2. Init => FInv /\ GInv /\ HInv
    BY FixpointKnowledge
  <1>3. FInv /\ GInv /\ HInv /\ [Next]_vars => FInv' /\ GInv' /\ HInv'
    BY FixpointKnowledge
  <1> QED
    BY <1>1, <1>2, <1>3, PTL DEF Spec

-----------------------------------------------------------------------------
(***************************************************************************)
(* The existential dual instance refutes every answer.                     *)
(***************************************************************************)
\* A gate that scopes further out decide is negated in no clause of the innermost scope.
LEMMA NeverNegated ==
  ASSUME NEW c, Flat(c), NEW s \in Scopes(c), NEW q, NEW B, NEW T,
         \A i \in Nodes(c) : Deepest(c, i) <= s,
         NEW k \in Nodes(c), IsGate(c, k), k # c.output, Deepest(c, k) < s
  PROVE  \A cl \in BuildSatInstance(c, s, q, B, T) : -k \notin cl
  <1> DEFINE Clear(cl) == -k \notin cl
             N == MaxNum(c)
  <1>1. /\ Shape(c) /\ N \in Nat /\ k \in 1 .. N /\ Nodes(c) = 1 .. N
        /\ \A i \in Nodes(c) : i \in Nat \ {0} /\ ~IsScopeNode(c, i)
    BY NodeNumbers DEF Flat, NoScopeNodes, Nodes
  <1>2. ASSUME NEW i \in Nodes(c)
        PROVE  Clear(TLitIfShared(c, T, i)) /\ Clear({i}) /\ (i # k => Clear({-i}))
    BY <1>1 DEF TLitIfShared, TLit
  <1>3. ASSUME NEW i \in Nodes(c)
        PROVE  /\ ~(CurrentMax(c, s, i) > c.depth[s]) /\ ~OnlyInner(c, s, i)
               /\ i = k => CurrentMax(c, s, i) < c.depth[s]
    BY FlatNode, FlatDeepest
  <1>4. ASSUME NEW g \in Nodes(c), NEW l \in Range(c.node[g].inputs), NEW i, i = LitVar(l)
        PROVE  /\ i \in Nodes(c) /\ ~IsScopeNode(c, i) /\ (IsVar(c, i) \/ IsGate(c, i))
               /\ IsVar(c, i) => Clear({TransformedInput(c, q, l)})
    <2>1. /\ l \in Int /\ i \in Nodes(c) /\ (l = i \/ l = -i)
      BY <1>1, <1>4, InputLiteral
    <2>2. TransformedInput(c, q, l) \in {i, -i}
      BY <1>1, <2>1 DEF TransformedInput
    <2>3. IsVar(c, i) => i # k
      BY DEF IsGate, IsVar
    <2>4. IsVar(c, i) \/ IsGate(c, i)
      BY <1>1, <2>1, NodeNumbers DEF IsVar, IsGate, IsScopeNode
    <2> QED
      BY <1>1, <1>2, <2>1, <2>2, <2>3, <2>4
  <1> HIDE DEF N, Clear
  <1>5. Clear({}) /\ \A A, D : Clear(A) /\ Clear(D) => Clear(A \cup D)
    BY DEF Clear
  <1>6. ASSUME NEW g \in Nodes(c), NEW l \in Range(c.node[g].inputs)
        PROVE  /\ Clear(OrInput(c, s, q, T, l))
               /\ \A cl \in AndInput(c, s, q, B, T, l) : Clear(cl)
               /\ \A nested : Clear(AppendedInput(c, s, q, T, g, l, nested))
    <2> PICK i : i = LitVar(l)
      OBVIOUS
    <2>1. /\ i \in Nodes(c) /\ ~IsScopeNode(c, i) /\ (IsVar(c, i) \/ IsGate(c, i))
          /\ IsVar(c, i) => Clear({TransformedInput(c, q, l)})
      BY <1>4
    <2>2. /\ ~(CurrentMax(c, s, i) > c.depth[s]) /\ ~OnlyInner(c, s, i)
          /\ Clear(TLitIfShared(c, T, i)) /\ Clear({BLit(i)})
      BY <1>2, <1>3, <2>1 DEF BLit
    <2>3. \A t \in TLitIfShared(c, T, i) : Clear({t})
      BY <2>2 DEF Clear
    <2>4. CurrentMax(c, s, i) \in Int /\ c.depth[s] \in Int
      BY <2>1, FlatNode, FlatDeepest
    <2>5. Clear(OrInput(c, s, q, T, l))
      BY <1>5, <2>1, <2>2 DEF OrInput
    <2>6. \A cl \in AndInput(c, s, q, B, T, l) : Clear(cl)
      BY <1>5, <2>1, <2>2, <2>3 DEF AndInput
    <2>7. \A nested : Clear(AppendedInput(c, s, q, T, g, l, nested))
      BY <1>5, <2>1, <2>2, <2>4 DEF AppendedInput
    <2> QED
      BY <2>5, <2>6, <2>7
  <1>7. ASSUME NEW g \in Nodes(c), g # k
        PROVE  /\ \A cl \in EncodeOrGate(c, s, q, T, g) : Clear(cl)
               /\ \A cl \in EncodeAndGate(c, s, q, B, T, g) : Clear(cl)
               /\ Clear(AppendOrGate(c, s, q, B, T, g))
    <2>1. Clear({-BLit(g)}) /\ Clear(TLitIfShared(c, T, g)) /\ ~OnlyInner(c, s, g)
      BY <1>2, <1>3, <1>7 DEF BLit
    <2>2. \A t \in TLitIfShared(c, T, g) : Clear({t})
      BY <2>1 DEF Clear
    <2>3. \A cl \in EncodeOrGate(c, s, q, T, g) : Clear(cl)
      BY <1>6, <2>1 DEF EncodeOrGate, Clear
    <2>4. \A cl \in EncodeAndGate(c, s, q, B, T, g) : Clear(cl)
      BY <1>6, <2>1, <2>2 DEF EncodeAndGate, Clear
    <2>5. Clear(AppendOrGate(c, s, q, B, T, g))
      <3>1. AppendOrGate(c, s, q, B, T, g) =
              (UNION {AppendedInput(c, s, q, T, g, l, AppendOrGate(c, s, q, B, T, LitVar(l))) :
                        l \in Range(c.node[g].inputs)})
              \cup TLitIfShared(c, T, g)
              \cup (IF BLit(g) \in B THEN {-BLit(g)} ELSE {})
        BY <1>1, <2>1, AppendUnfolds
      <3>2. Clear(UNION {AppendedInput(c, s, q, T, g, l, AppendOrGate(c, s, q, B, T, LitVar(l))) :
                           l \in Range(c.node[g].inputs)})
        BY <1>6 DEF Clear
      <3>3. Clear(IF BLit(g) \in B THEN {-BLit(g)} ELSE {})
        BY <1>5, <2>1
      <3> QED
        BY <2>1, <3>1, <3>2, <3>3 DEF Clear
    <2> QED
      BY <2>3, <2>4, <2>5
  <1>8. RelevantScopeNodes(c, s) = {}
    BY <1>1 DEF RelevantScopeNodes, RelevantNodes
  <1>9. ASSUME NEW g \in RelevantGates(c, s), NEW cl \in EncodeGate(c, s, q, B, T, g)
        PROVE  Clear(cl)
    <2>1. g \in Nodes(c)
      BY DEF RelevantGates, RelevantNodes
    <2>2. g # k
      BY <1>3, <2>1 DEF EncodeGate
    <2> QED
      BY <1>7, <2>1, <2>2 DEF EncodeGate
  <1>10. ASSUME NEW cl \in FixOutputValue(c, s, q, B, T)
         PROVE  Clear(cl)
    <2>1. c.output \in Nodes(c)
      BY DEF Flat
    <2>2. Clear({BLit(c.output)}) /\ Clear(AppendOrGate(c, s, q, B, T, c.output))
      BY <1>2, <1>7, <2>1 DEF BLit
    <2> QED
      BY <2>2 DEF FixOutputValue
  <1>11. \A cl \in BuildSatInstance(c, s, q, B, T) : Clear(cl)
    BY <1>8, <1>9, <1>10 DEF BuildSatInstance
  <1> QED
    BY <1>11 DEF Clear

\* What the existential instances have been told: the encodings, F, and the excluded cubes.
InnerTold ==
  /\ Instance(Existential, "exists") \subseteq sat[Existential]
  /\ Instance(Existential, "forall") \subseteq negation[Existential]
  /\ PushedClause(Existential, incremental_lit, incremental) \in negation[Existential]
  /\ \A lit \in incremental : \E cube \in excluded :
       /\ Opposite({Primed(l) : l \in cube}) \in sat[Existential]
       /\ \A l \in cube : {-lit, Primed(l)} \in negation[Existential]

\* Opposite t-literals, the label and an assignment do not contradict each other.
LEMMA InnerAssumptions ==
  ASSUME Static, GameStatic, Labels, pc # "no_fixpoint", NEW e, e \subseteq t_lits[Existential],
         NEW m \in Assignments(Own(Existential)),
         NEW as, as = AssumedT(Existential, e) \/ as = AssumedTDual(Existential, e)
  PROVE  NoOpposites(m \cup as \cup {incremental_lit})
  <1> PICK N : N = MaxNum(circuit)
    OBVIOUS
  <1> PICK T : T = t_lits[Existential]
    OBVIOUS
  <1>1. /\ N \in Nat /\ incremental_lit \in Nat /\ 2 * N < incremental_lit
        /\ \A i \in Own(Existential) : i \in 1 .. N
    BY Interfaces DEF Labels, Label, Own, ScopeVars
  <1>2. \A l \in m : l \in Int /\ -N <= l /\ l <= N /\ -l \notin m
    <2>1. \A l \in m : l \in Int /\ LitVar(l) \in Own(Existential) /\ -l \notin m
      BY <1>1, GameCircuit, IsAssignment
    <2> QED
      BY <1>1, <2>1 DEF LitVar
  <1>3. \A t \in T : t \in Nat /\ N < t /\ t <= 2 * N
    <2>1. \A t \in T : \E i \in Nodes(circuit) : t = TLit(circuit, i)
      BY GameCircuit DEF Gates
    <2>2. \A i \in Nodes(circuit) : i \in 1 .. N
      BY Interfaces
    <2> QED
      BY <1>1, <2>1, <2>2 DEF TLit
  <1>4. \A l \in as : \E t \in T : \/ l = t /\ -t \notin as
                                   \/ l = -t /\ t \notin as
    <2>1. \A t \in T : t \in Int /\ -t # t /\ -(-t) = t /\ \A u \in T : -t # u
      <3>1. \A t \in T : t \in Nat \ {0}
        BY <1>1, <1>3
      <3> QED
        BY <3>1
    <2>2. CASE as = AssumedT(Existential, e)
      <3>1. as = e \cup Opposite(T \ e) /\ e \subseteq T
        BY <2>2 DEF AssumedT
      <3> QED
        BY <2>1, <3>1 DEF Opposite
    <2>3. CASE as = AssumedTDual(Existential, e)
      <3>1. as = Opposite(e \cup Opposite(T \ e)) /\ e \subseteq T
        BY <2>3 DEF AssumedT, AssumedTDual
      <3> QED
        BY <2>1, <3>1 DEF Opposite
    <2> QED
      BY <2>2, <2>3
  <1> PICK lits : lits = m \cup as \cup {incremental_lit}
    OBVIOUS
  <1>5. ASSUME NEW l \in lits
        PROVE  l \in Int /\ -l \notin lits
    <2>1. CASE l \in m
      <3>1. \A t \in T : -l # t /\ -l # -t
        BY <1>1, <1>2, <1>3, <2>1
      <3>2. -l # incremental_lit
        BY <1>1, <1>2, <2>1
      <3> QED
        BY <1>2, <1>4, <2>1, <3>1, <3>2
    <2>2. CASE l \in as
      <3>1. PICK t \in T : (l = t /\ -t \notin as) \/ (l = -t /\ t \notin as)
        BY <1>4, <2>2
      <3>2. t \in Nat /\ N < t /\ t < incremental_lit
        BY <1>1, <1>3
      <3>3. t \notin m /\ -t \notin m
        BY <1>1, <1>2, <3>2
      <3>4. t \in Int /\ -t \in Int /\ -(-t) = t /\ -t # incremental_lit /\ t # incremental_lit
        BY <1>1, <3>2
      <3>5. CASE l = t /\ -t \notin as
        <4>1. -l \notin lits
          BY <3>3, <3>4, <3>5
        <4> QED
          BY <3>4, <3>5, <4>1
      <3>6. CASE l = -t /\ t \notin as
        <4>1. -l = t
          BY <3>4, <3>6
        <4>2. t \notin lits
          BY <3>3, <3>4, <3>6
        <4> QED
          BY <3>4, <3>6, <4>1, <4>2
      <3> QED
        BY <3>1, <3>5, <3>6
    <2>3. CASE l = incremental_lit
      <3>1. \A t \in T : -l # t /\ -l # -t
        <4>1. \A t \in T : t \in Nat /\ t < incremental_lit
          BY <1>1, <1>3
        <4> QED
          BY <1>1, <2>3, <4>1
      <3>2. -l \notin as
        BY <1>4, <3>1
      <3>3. -l \notin m
        BY <1>1, <1>2, <2>3
      <3>4. l \in Int /\ -l # incremental_lit
        BY <1>1, <2>3
      <3> QED
        BY <3>2, <3>3, <3>4
    <2> QED
      BY <2>1, <2>2, <2>3
  <1> QED
    BY <1>5 DEF NoOpposites, Opposite

\* In the existential scope, the innermost one, everything is decided, and the output depends
\* on its variables.
LEMMA InnerEncoding ==
  ASSUME Static, GameStatic
  PROVE  /\ DepthsInt(circuit, Existential) /\ b_lits[Existential] = {}
         /\ \A i \in Nodes(circuit) :
              /\ ~OnlyInner(circuit, Existential, i) /\ Deepest(circuit, i) <= Existential
              /\ ~(CurrentMax(circuit, Existential, i) > circuit.depth[Existential])
         /\ HasClauses(circuit, Existential, circuit.output)
  <1>1. Flat(circuit) /\ Existential \in Scopes(circuit) /\ Scopes(circuit) = {1, 2, 3} /\ Existential = 3
    BY GameCircuit DEF TopLevel, Universal, Existential
  <1>2. ASSUME NEW i \in Nodes(circuit)
        PROVE  /\ CurrentMax(circuit, Existential, i) = Deepest(circuit, i)
               /\ Deepest(circuit, i) \in Nat /\ Deepest(circuit, i) <= Existential
               /\ circuit.depth[Existential] = Existential /\ NodeIsRelevant(circuit, Existential, i)
               /\ ~OnlyInner(circuit, Existential, i)
    <2>1. Deepest(circuit, i) \in {1, 2, 3}
      BY <1>1, FlatDeepest
    <2>2. /\ CurrentMax(circuit, Existential, i) = Deepest(circuit, i)
          /\ circuit.depth[Existential] = Existential /\ NodeIsRelevant(circuit, Existential, i)
          /\ OnlyInner(circuit, Existential, i) => Deepest(circuit, i) > Existential
      BY <1>1, FlatNode
    <2> QED
      BY <1>1, <2>1, <2>2
  <1>3. DepthsInt(circuit, Existential)
    <2>1. circuit.depth[Existential] = Existential
      BY <1>1 DEF Flat
    <2> QED
      BY <1>1, <1>2, <2>1 DEF DepthsInt
  <1>4. b_lits[Existential] = {}
    <2>1. b_lits[Existential] = BLits(circuit, Existential)
      BY DEF Static, Existential
    <2>2. \A g \in Nodes(circuit) : AnalyzeGate(circuit, Existential, g).b = {}
      <3>1. \A g \in Nodes(circuit) : CurrentMax(circuit, Existential, g) <= circuit.depth[Existential]
        BY <1>2
      <3> QED
        BY <3>1 DEF AnalyzeGate
    <2>3. \A i \in Nodes(circuit) : ~IsScopeNode(circuit, i)
      BY <1>1 DEF Flat, NoScopeNodes
    <2> QED
      BY <2>1, <2>2, <2>3 DEF BLits, RelevantGates, RelevantNodes, RelevantScopeNodes
  <1>5. HasClauses(circuit, Existential, circuit.output)
    <2>1. /\ circuit.output \in Nodes(circuit) /\ IsGate(circuit, circuit.output)
          /\ Existential <= Deepest(circuit, circuit.output)
      BY <1>1 DEF Flat
    <2>2. ~(CurrentMax(circuit, Existential, circuit.output) < circuit.depth[Existential])
      BY <1>1, <1>2, <2>1
    <2> QED
      BY <1>2, <2>1, <2>2 DEF HasClauses, RelevantGates, RelevantNodes
  <1>6. \A i \in Nodes(circuit) :
          /\ ~OnlyInner(circuit, Existential, i) /\ Deepest(circuit, i) <= Existential
          /\ ~(CurrentMax(circuit, Existential, i) > circuit.depth[Existential])
    BY <1>1, <1>2
  <1> QED
    BY <1>3, <1>4, <1>5, <1>6

\* Only clauses of F and F' are left out of the encodings: of those for the control none, and
\* of those for the environment what an off F' meets.
LEMMA InnerComplete ==
  ASSUME Static, GameStatic, NEW a, \A cl \in Instance(Existential, "exists") : cl \cap a # {},
         NEW n, \A cl \in Instance(Existential, "forall") : cl \cap n # {}, -FPrime \in n
  PROVE  /\ \A cl \in BuildSatInstance(circuit, Existential, "exists", b_lits[Existential], t_lits[Existential]) :
              cl \cap a # {}
         /\ \A cl \in BuildSatInstance(circuit, Existential, "forall", b_lits[Existential], t_lits[Existential]) :
              cl \cap n # {}
  <1> PICK T : T = t_lits[Existential]
    OBVIOUS
  <1> PICK B : B = b_lits[Existential]
    OBVIOUS
  <1>1. /\ F \in Nodes(circuit) /\ FPrime \in Nodes(circuit) /\ IsGate(circuit, F)
        /\ F # circuit.output
        /\ \A k \in {F, FPrime} : GateTypeFor(circuit, k, "exists") = "or" => k = F
        /\ \A k \in {F, FPrime} : GateTypeFor(circuit, k, "forall") = "or" => k = FPrime
    BY ErrorGates DEF IsGate, GateTypeFor, DualGate
  <1>2. ASSUME NEW q, NEW cl \in BuildSatInstance(circuit, Existential, q, B, T),
               cl \notin Instance(Existential, q)
        PROVE  \E k \in {F, FPrime} : GateTypeFor(circuit, k, q) = "or" /\ -k \in cl
    <2>1. PICK k \in {F, FPrime} : /\ GateTypeFor(circuit, k, q) = "or"
                                   /\ cl \in EncodeOrGate(circuit, Existential, q, T, k)
      BY <1>2 DEF Instance
    <2> QED
      BY <2>1 DEF EncodeOrGate, BLit
  <1>3. ASSUME NEW cl \in BuildSatInstance(circuit, Existential, "exists", B, T), cl \cap a = {}
        PROVE  FALSE
    <2>1. -F \in cl
      BY <1>1, <1>2, <1>3
    <2>2. Deepest(circuit, F) < Existential
      <3>1. Deepest(circuit, F) \in Nat
        BY <1>1, GameCircuit, FlatDeepest
      <3> QED
        BY <3>1, ErrorDepth DEF Universal, Existential
    <2>3. Flat(circuit) /\ Existential \in Scopes(circuit)
      BY GameCircuit
    <2>4. \A i \in Nodes(circuit) : Deepest(circuit, i) <= Existential
      BY InnerEncoding
    <2> QED
      BY <1>1, <1>3, <2>1, <2>2, <2>3, <2>4, NeverNegated
  <1>4. ASSUME NEW cl \in BuildSatInstance(circuit, Existential, "forall", B, T), cl \cap n = {}
        PROVE  FALSE
    BY <1>1, <1>2, <1>4
  <1> QED
    BY <1>3, <1>4

\* What the existential instance answers and its dual instance cannot agree: if some cube of
\* excluded states were met, then the clause for it in the one by what the other has met; so
\* F' is off, and then the two encodings exclude each other.
LEMMA AnswersExcluded ==
  ASSUME Static, GameStatic, Labels, Bounds, ErrorFree, InnerTold, pc # "no_fixpoint",
         NEW e, e \subseteq t_lits[Existential],
         NEW mm \in SatModels(sat[Existential], AssumedT(Existential, e) \cup {incremental_lit},
                              Own(Existential))
  PROVE  ~DualAccepts(Existential, negation[Existential], AssignedLits(Existential, mm), e)
  <1> SUFFICES ASSUME DualAccepts(Existential, negation[Existential], AssignedLits(Existential, mm), e)
               PROVE  FALSE
    OBVIOUS
  <1> PICK m : m = AssignedLits(Existential, mm)
    OBVIOUS
  <1> PICK on : on = AssumedT(Existential, e)
    OBVIOUS
  <1> PICK off : off = AssumedTDual(Existential, e)
    OBVIOUS
  <1> PICK clauses : clauses = sat[Existential]
    OBVIOUS
  <1> PICK dual : dual = negation[Existential]
    OBVIOUS
  <1> PICK T : T = t_lits[Existential]
    OBVIOUS
  <1> PICK O : O = Own(Existential)
    OBVIOUS
  <1>1. m \in Assignments(O)
    BY AnswerAssigns
  <1>2. mm = m \cup on \cup {incremental_lit}
    <2>1. PICK X : mm = on \cup {incremental_lit} \cup X /\ \A l \in X : Abs(l) \in O
      <3>1. \A i \in O : i \in Nat
        BY GameCircuit
      <3>2. PICK pos : mm = on \cup {incremental_lit} \cup
                              {IF a \in pos THEN a ELSE -a : a \in O \ Atoms(on \cup {incremental_lit})}
        BY DEF SatModels
      <3>3. \A i \in O : Abs(i) = i /\ Abs(-i) = i
        BY <3>1 DEF Abs
      <3>4. PICK X : X = {IF a \in pos THEN a ELSE -a : a \in O \ Atoms(on \cup {incremental_lit})}
        OBVIOUS
      <3>5. \A l \in X : Abs(l) \in O
        BY <3>3, <3>4
      <3>6. mm = on \cup {incremental_lit} \cup X
        BY <3>2, <3>4
      <3> QED
        BY <3>5, <3>6
    <2>2. X \subseteq m /\ m \subseteq mm
      BY <2>1 DEF AssignedLits
    <2> QED
      BY <2>1, <2>2
  <1>3. NoOpposites(m \cup on \cup {incremental_lit}) /\ NoOpposites(m \cup off \cup {incremental_lit})
    BY <1>1, InnerAssumptions
  <1>4. /\ clauses \in Instances /\ FiniteClauses(clauses)
        /\ dual \in Instances /\ FiniteClauses(dual)
    <2>1. next_lit \in Nat /\ 2 * MaxNum(circuit) < next_lit
      BY DEF Labels
    <2>2. /\ \A cl \in clauses : \A l \in cl : Known(l)
          /\ \A cl \in dual : \A l \in cl : Known(l)
      BY DEF Bounds
    <2> QED
      BY <2>1, <2>2, KnownClauses
  <1>5. PICK a : mm \subseteq a /\ Meets(a, clauses)
    <2>1. Satisfiable(clauses, mm)
      BY DEF SatModels
    <2>2. NoOpposites(mm)
      BY <1>2, <1>3
    <2> QED
      BY <1>4, <2>1, <2>2, SatisfiableIsSat
  <1>6. PICK n : m \cup off \cup {incremental_lit} \subseteq n /\ Meets(n, dual)
    <2>1. Satisfiable(dual, m \cup off \cup {incremental_lit})
      <3>1. AssignedLits(Existential, m) = m
        BY DEF AssignedLits
      <3> QED
        BY <3>1 DEF DualAccepts
    <2> QED
      BY <1>3, <1>4, <2>1, SatisfiableIsSat
  <1>7. \A l : (l \in a => l \in Int /\ -l \notin a) /\ (l \in n => l \in Int /\ -l \notin n)
    <2>1. \A x : NoOpposites(x) => \A l \in x : l \in Int /\ -l \notin x
      <3> SUFFICES ASSUME NEW x, NoOpposites(x), NEW l \in x, -l \in x
                   PROVE  FALSE
        BY DEF NoOpposites
      <3>1. l = -(-l)
        BY DEF NoOpposites
      <3> QED
        BY <3>1 DEF NoOpposites, Opposite
    <2> QED
      BY <1>5, <1>6, <2>1 DEF Meets
  <1>8. m \subseteq a /\ on \subseteq a /\ m \subseteq n /\ off \subseteq n /\ incremental_lit \in n
    BY <1>2, <1>5, <1>6
  <1>9. \A i \in O : (i \in m \/ -i \in m) /\ i \in Nat
    BY <1>1, GameCircuit, IsAssignment
  <1>10. \A i \in O : ~(i \in a /\ -i \in n) /\ ~(-i \in a /\ i \in n)
    BY <1>7, <1>8, <1>9
  <1>11. Dualised(circuit, Existential, T, a, n)
    <2>1. \A i \in Nodes(circuit) : OwnVariable(circuit, Existential, i) => i \in O
      <3>1. ASSUME NEW i \in Nodes(circuit), OwnVariable(circuit, Existential, i)
            PROVE  IsVar(circuit, i) /\ circuit.node[i].scope = Existential
        BY <3>1, GameCircuit, FlatNode, FlatDeepest
      <3> QED
        BY <3>1 DEF Own, ScopeVars
    <2>2. ASSUME NEW t \in T, t \in a, t \in n
          PROVE  FALSE
      <3>1. t \in Nat /\ -(-t) = t
        BY Interfaces
      <3>2. CASE t \in e
        <4>1. -t \in off
          BY <3>2 DEF AssumedT, AssumedTDual, Opposite
        <4> QED
          BY <1>7, <1>8, <2>2, <4>1
      <3>3. CASE t \notin e
        <4>1. -t \in on
          BY <3>3 DEF AssumedT, Opposite
        <4> QED
          BY <1>7, <1>8, <2>2, <4>1
      <3> QED
        BY <3>2, <3>3
    <2> QED
      BY <1>10, <2>1, <2>2 DEF Dualised
  <1>12. -FPrime \in n
    <2>1. PushedClause(Existential, incremental_lit, incremental) \cap n # {}
      BY <1>6 DEF InnerTold, Meets
    <2>2. -incremental_lit \notin n
      BY <1>7, <1>8
    <2>3. ASSUME NEW lit \in incremental, lit \in n
          PROVE  FALSE
      <3>1. PICK cube \in excluded : /\ Opposite({Primed(l) : l \in cube}) \in clauses
                                     /\ \A l \in cube : {-lit, Primed(l)} \in dual
        BY DEF InnerTold
      <3>2. \A l \in cube : Primed(l) \in n
        <4> TAKE l \in cube
        <4>1. {-lit, Primed(l)} \cap n # {}
          BY <1>6, <3>1 DEF Meets
        <4> QED
          BY <1>7, <2>3, <4>1
      <3>3. PICK l \in cube : -Primed(l) \in a
        BY <1>5, <3>1 DEF Meets, Opposite
      <3>4. LitVar(Primed(l)) \in O /\ Primed(l) \in Int
        BY <3>1, <3>3, LatchLiterals DEF ErrorFree, LatchesOf
      <3>5. Primed(l) \in n
        BY <3>2, <3>3
      <3>6. CASE Primed(l) < 0
        BY <1>10, <3>3, <3>4, <3>5, <3>6 DEF LitVar
      <3>7. CASE ~(Primed(l) < 0)
        BY <1>10, <3>3, <3>4, <3>5, <3>7 DEF LitVar
      <3> QED
        BY <3>6, <3>7
    <2> QED
      BY <2>1, <2>2, <2>3 DEF PushedClause, FOf, Universal, Existential
  <1>13. /\ \A cl \in Instance(Existential, "exists") : cl \cap a # {}
         /\ \A cl \in Instance(Existential, "forall") : cl \cap n # {}
    BY <1>5, <1>6 DEF InnerTold, Meets
  <1>14. /\ Meets(a, BuildSatInstance(circuit, Existential, "exists", b_lits[Existential], T))
         /\ Meets(n, BuildSatInstance(circuit, Existential, "forall", b_lits[Existential], T))
    BY <1>5, <1>6, <1>12, <1>13, InnerComplete DEF Meets
  <1>15. Shape(circuit) /\ \A i \in Nodes(circuit) : ~IsScopeNode(circuit, i)
    BY GameCircuit DEF Flat, NoScopeNodes
  <1>16. Dual("exists") = "forall" /\ circuit.output \notin b_lits[Existential]
    BY InnerEncoding DEF Dual
  <1> QED
    BY <1>11, <1>14, <1>15, <1>16, InnerEncoding, OutputNotBoth

\* It is what the instances are built with, ...
EInv == pc # "no_fixpoint" => InnerTold
LEMMA EInit ==
  ASSUME Init
  PROVE  EInv
  <1>1. Static /\ GameStatic
    BY InitInv, GInit DEF FInv, GInv
  <1>2. circuit.scope[Existential].qtype = "exists"
    BY <1>1, GameCircuit
  <1>3. /\ sat[Existential] = Instance(Existential, "exists")
        /\ negation[Existential] = Instance(Existential, "forall")
                                     \cup {PushedClause(Existential, incremental_lit, {})}
        /\ incremental = {}
    <2>1. /\ sat[Existential] = Instance(Existential, circuit.scope[Existential].qtype)
          /\ negation[Existential] = Instance(Existential, Dual(circuit.scope[Existential].qtype))
                                       \cup {PushedClause(Existential, incremental_lit, {})}
          /\ incremental = {}
      BY DEF Init
    <2> QED
      BY <1>2, <2>1 DEF Dual
  <1> QED
    BY <1>3 DEF EInv, InnerTold

\* ... and every exclusion tells them the new cube and the new F.
LEMMA EExclude ==
  ASSUME FInv, GInv, EInv, ExcludeStates
  PROVE  EInv'
  <1> PICK cube : cube = Cube(Universal)
    OBVIOUS
  <1> PICK primed : primed = {Primed(l) : l \in cube}
    OBVIOUS
  <1> PICK lost : lost = LostRefinements(cube)
    OBVIOUS
  <1> PICK pushed : pushed = incremental \cup {next_lit}
    OBVIOUS
  <1> PICK next : next = next_lit
    OBVIOUS
  <1> DEFINE Push(s) == IF ContainsInitial(cube) THEN {} ELSE {PushedClause(s, next + 1, pushed)}
  <1>1. /\ sat' = [sat EXCEPT ![Universal] = @ \cup ExcludeIn(Universal, cube) \cup Outdated(lost),
                              ![Existential] = @ \cup ExcludeIn(Existential, primed)]
        /\ negation' = [negation EXCEPT
              ![Universal] = @ \cup ExcludeDual(Universal, cube, next) \cup Outdated(lost)
                               \cup Push(Universal),
              ![Existential] = @ \cup ExcludeDual(Existential, primed, next)
                                 \cup Push(Existential)]
        /\ incremental' = pushed /\ excluded' = excluded \cup {cube}
        /\ incremental_lit' = IF ContainsInitial(cube) THEN 0 ELSE next + 1
        /\ pc' = IF ContainsInitial(cube) THEN "no_fixpoint" ELSE "loop"
        /\ UNCHANGED config /\ pc = "exclude"
    BY DEF ExcludeStates
  <1> HIDE DEF Push
  <1> SUFFICES ASSUME ~ContainsInitial(cube)
               PROVE  InnerTold'
    BY <1>1 DEF EInv
  <1>2. DOMAIN sat = {Universal, Existential} /\ DOMAIN negation = {Universal, Existential}
        /\ Universal # Existential
    BY DEF FInv, GInv, Fields, Bounds, Universal, Existential
  <1>3. InnerTold /\ incremental_lit' = next + 1
    BY <1>1 DEF EInv
  <1>4. /\ sat'[Existential] = sat[Existential] \cup ExcludeIn(Existential, primed)
        /\ negation'[Existential] = negation[Existential] \cup ExcludeDual(Existential, primed, next)
                                      \cup {PushedClause(Existential, next + 1, pushed)}
    <2>1. Push(Existential) = {PushedClause(Existential, next + 1, pushed)}
      BY DEF Push
    <2> QED
      BY <1>1, <1>2, <2>1
  <1>5. /\ \A q : Instance(Existential, q)' = Instance(Existential, q)
        /\ \A l : Primed(l)' = Primed(l)
        /\ PushedClause(Existential, incremental_lit, incremental)' =
             PushedClause(Existential, next + 1, pushed)
    BY <1>1, <1>3, SameGame, SameAnswers DEF PushedClause, FOf
  <1>6. ASSUME NEW lit \in incremental'
        PROVE  \E known \in excluded' :
                 /\ Opposite({Primed(l) : l \in known}) \in sat'[Existential]
                 /\ \A l \in known : {-lit, Primed(l)} \in negation'[Existential]
    <2>1. CASE lit \in incremental
      BY <1>1, <1>3, <1>4, <2>1 DEF InnerTold
    <2>2. CASE lit = next
      <3>1. Opposite({Primed(l) : l \in cube}) \in sat'[Existential]
        BY <1>4 DEF ExcludeIn
      <3>2. \A l \in cube : {-lit, Primed(l)} \in negation'[Existential]
        BY <1>4, <2>2 DEF ExcludeDual
      <3> QED
        BY <1>1, <3>1, <3>2
    <2> QED
      BY <1>1, <2>1, <2>2
  <1>7. \A lit \in incremental' : \E known \in excluded' :
          /\ Opposite({Primed(l)' : l \in known}) \in sat'[Existential]
          /\ \A l \in known : {-lit, Primed(l)'} \in negation'[Existential]
    BY <1>5, <1>6
  <1>8. /\ Instance(Existential, "exists")' \subseteq sat'[Existential]
        /\ Instance(Existential, "forall")' \subseteq negation'[Existential]
        /\ PushedClause(Existential, incremental_lit, incremental)' \in negation'[Existential]
    BY <1>3, <1>4, <1>5 DEF InnerTold
  <1> QED
    BY <1>7, <1>8 DEF InnerTold, Existential, Opposite

\* No other step changes what they were told.
LEMMA ENext ==
  ASSUME FInv, GInv, EInv, [Next]_vars
  PROVE  EInv'
  <1>1. CASE ExcludeStates
    BY <1>1, EExclude
  <1>2. ASSUME UNCHANGED <<config, incremental_lit, incremental, excluded>>,
               sat'[Existential] = sat[Existential], negation'[Existential] = negation[Existential],
               pc # "no_fixpoint" \/ pc' = "no_fixpoint"
        PROVE  EInv'
    <2>1. /\ \A q : Instance(Existential, q)' = Instance(Existential, q)
          /\ \A l : Primed(l)' = Primed(l)
          /\ PushedClause(Existential, incremental_lit, incremental)' =
               PushedClause(Existential, incremental_lit, incremental)
      BY <1>2, SameGame, SameAnswers DEF PushedClause, FOf
    <2>2. InnerTold => InnerTold'
      <3> SUFFICES ASSUME InnerTold
                   PROVE  InnerTold'
        OBVIOUS
      <3>1. /\ Instance(Existential, "exists")' \subseteq sat'[Existential]
            /\ Instance(Existential, "forall")' \subseteq negation'[Existential]
            /\ PushedClause(Existential, incremental_lit, incremental)' \in negation'[Existential]
        BY <1>2, <2>1 DEF InnerTold
      <3>2. ASSUME NEW lit \in incremental'
            PROVE  \E cube \in excluded' :
                     /\ Opposite({Primed(l) : l \in cube}) \in sat'[Existential]
                     /\ \A l \in cube : {-lit, Primed(l)} \in negation'[Existential]
        BY <1>2 DEF InnerTold
      <3>3. \A lit \in incremental' : \E cube \in excluded' :
              /\ Opposite({Primed(l)' : l \in cube}) \in sat'[Existential]
              /\ \A l \in cube : {-lit, Primed(l)'} \in negation'[Existential]
        BY <2>1, <3>2
      <3> QED
        BY <3>1, <3>3 DEF InnerTold, Existential, Opposite
    <2> QED
      BY <1>2, <2>2 DEF EInv
  <1>3. CASE UNCHANGED vars \/ Done
    BY <1>2, <1>3 DEF Done, vars, instances
  <1>4. CASE Propose \/ Inductive \/ MinimizeCube \/ Answered
    BY <1>2, <1>4 DEF Propose, Inductive, MinimizeCube, Answered, instances
  <1>5. Universal # Existential
    BY DEF Universal, Existential
  <1>6. CASE Refuted
    BY <1>2, <1>5, <1>6 DEF Refuted
  <1>7. CASE Refine
    <2>1. sat'[Existential] = sat[Existential]
      BY <1>5, <1>7 DEF Refine, FInv, Fields
    <2>2. UNCHANGED <<config, incremental_lit, incremental, excluded>> /\ negation' = negation
          /\ pc = "answered"
      BY <1>7 DEF Refine
    <2> QED
      BY <1>2, <2>1, <2>2
  <1> QED
    BY <1>1, <1>3, <1>4, <1>6, <1>7 DEF Next

\* The solver stops with an error only at a proposal that has no answer: what the universal
\* dual instance has learnt of the refutation does not make it refute the proposal.
OnlyRefutationsFail ==
  pc # "abort" /\ pc' = "abort" =>
    /\ pc = "inner" /\ ~Satisfiable(sat[Existential], InnerAssumed)
    /\ \E core : DualAccepts(Universal, negation[Universal] \cup {DualClause(core)},
                             Assignment(Universal), entry[Universal])

\* The existential dual instance refutes every answer, whichever model the SAT solver gave and
\* whatever minimisation left of its t-literals: of the checks that end fixpoint_solve with an
\* error only one can fail, fixpoint_dual_propagation for the universal scope.
THEOREM AnswersAreRefuted == Spec => [][OnlyRefutationsFail]_vars
  <1>1. /\ Init => FInv /\ GInv /\ HInv /\ EInv
        /\ FInv /\ GInv /\ HInv /\ EInv /\ [Next]_vars => FInv' /\ GInv' /\ HInv' /\ EInv'
    BY FixpointKnowledge, EInit, ENext
  <1>2. FInv /\ GInv /\ HInv /\ EInv /\ [Next]_vars => [OnlyRefutationsFail]_vars
    <2> SUFFICES ASSUME FInv, GInv, HInv, EInv, [Next]_vars, pc # "abort", pc' = "abort"
                 PROVE  OnlyRefutationsFail
      BY DEF OnlyRefutationsFail
    <2>1. ASSUME NEW s, NEW dual, NEW m, NEW e, NEW next,
                 DualPropagation(s, dual, m, e, next), next # "abort"
          PROVE  DualAccepts(s, dual, m, e)
      <3>1. DualAccepts(s, dual, m, e) \/ pc' = next
        BY <2>1 DEF DualPropagation, DualAccepts
      <3> QED
        BY <2>1, <3>1
    <2>2. CASE Refuted
      <3>1. pc = "inner" /\ ~Satisfiable(sat[Existential], InnerAssumed)
        BY <2>2 DEF Refuted
      <3>2. \E core : \E dual \in {negation[Universal] \cup {DualClause(core)}} :
              DualPropagation(Universal, dual, Assignment(Universal), entry[Universal], "refuted")
        BY <2>2 DEF Refuted
      <3>3. \E core : DualPropagation(Universal, negation[Universal] \cup {DualClause(core)},
                                      Assignment(Universal), entry[Universal], "refuted")
        BY <3>2
      <3>4. \E core : DualAccepts(Universal, negation[Universal] \cup {DualClause(core)},
                                  Assignment(Universal), entry[Universal])
        BY <2>1, <3>3
      <3> QED
        BY <3>1, <3>4 DEF OnlyRefutationsFail
    <2>3. CASE Answered
      <3>1. pc = "inner" /\ StillSat(entry[Existential])
        BY <2>3 DEF Answered, StillSat, InnerAssumed
      <3> PICK e : e = MinimizedEntry(entry[Existential])
        OBVIOUS
      <3>2. e \subseteq t_lits[Existential] /\ StillSat(e)
        BY <3>1, MinimizedStaysSat, Interfaces DEF FInv, Fields
      <3>3. \E mm \in SatModels(sat[Existential], AssumedT(Existential, e) \cup {incremental_lit},
                                Own(Existential)) :
              DualPropagation(Existential, negation[Existential], AssignedLits(Existential, mm), e, "answered")
        BY <2>3, <3>2 DEF Answered
      <3>4. Static /\ GameStatic /\ Labels /\ Bounds /\ ErrorFree /\ InnerTold /\ pc # "no_fixpoint"
        BY <3>1 DEF FInv, GInv, HInv, EInv, Running
      <3>5. \A mm \in SatModels(sat[Existential], AssumedT(Existential, e) \cup {incremental_lit},
                                Own(Existential)) :
              ~DualAccepts(Existential, negation[Existential], AssignedLits(Existential, mm), e)
        BY <3>2, <3>4, AnswersExcluded
      <3> QED
        BY <2>1, <3>3, <3>5
    <2>4. CASE Refine
      BY <2>4, AnswerWasPromised DEF Refine
    <2>5. CASE Propose \/ Inductive \/ MinimizeCube \/ ExcludeStates \/ UNCHANGED vars
      BY <2>5 DEF Propose, Inductive, MinimizeCube, ExcludeStates, vars
    <2> QED
      BY <2>2, <2>3, <2>4, <2>5 DEF Next, Done
  <1> QED
    BY <1>1, <1>2, PTL DEF Spec

==============================================================================

---------------------------- MODULE FixpointProofs ----------------------------
(***************************************************************************)
(* Proofs about the loop of fixpoint_solve, for every set of queries and   *)
(* whatever the SAT solver answers: what is learnt from a proposal rules   *)
(* it out, the literals that guard clauses are fresh, of the checks that   *)
(* end the solver with an error only those of the dual instances can fail, *)
(* and the control wins from no state that is excluded.                    *)
(***************************************************************************)
EXTENDS Fixpoint, SemanticsProofs, FiniteSetTheorems

\* The query and the two analyses of its interfaces; no step changes them.
Static ==
  /\ Shape(circuit)
  /\ b_lits = [s \in {Universal, Existential} |-> BLits(circuit, s)]
  /\ t_lits = [s \in {Universal, Existential} |-> TLits(circuit, s)]

Fields ==
  /\ DOMAIN sat = {Universal, Existential} /\ DOMAIN entry = {Universal, Existential}
  /\ assumptions \subseteq b_lits[Universal] /\ entry[Existential] \subseteq t_lits[Existential]

\* Literals behind those of the clauses that were taken from the counter.
Label(l) == l \in Nat /\ 2 * MaxNum(circuit) < l /\ l < next_lit
Guarded(l) == {cl \in sat[Universal] : -l \in cl}

Labels ==
  /\ next_lit \in Nat /\ 2 * MaxNum(circuit) < next_lit
  /\ \A cl \in sat[Universal] : \A l \in cl : l \in Int /\ -next_lit < l
  /\ pc # "no_fixpoint" => Label(incremental_lit) /\ Guarded(incremental_lit) = {}
  /\ \A r \in refinements :
       /\ Label(r.incremental_literal) /\ r.incremental_literal # incremental_lit
       /\ \E cl \in sat[Universal] : Guarded(r.incremental_literal) = {cl}
       /\ \A o \in refinements : o.incremental_literal = r.incremental_literal => o = r

\* The t-literals that the existential scope may assume: b-literals that were handed to it,
\* and those that are passed on.
MayAssume(t) ==
  \/ TLitToVarId(circuit, t) \in assumptions
  \/ TLitToVarId(circuit, t) \notin b_lits[Universal] /\ t \in t_lits[Universal]
Promised == pc \in {"inner", "answered"} => \A t \in entry[Existential] : MayAssume(t)

\* Without t-literals of the universal scope some clause is against the last proposal.
Proposal ==
  OuterAssumed \cup Opposite(assumptions)
    \cup {Signed(value[i], i) : i \in {k \in Own(Universal) : value[k] # 0}}
Against(cl) == cl \subseteq Opposite(Proposal)
Blocked ==
  pc = "loop" /\ (refinements # {} \/ excluded # {}) /\ t_lits[Universal] = {} =>
    \E cl \in sat[Universal] : Against(cl)

FInv == Static /\ Fields /\ Labels /\ Promised /\ Blocked

-----------------------------------------------------------------------------
(***************************************************************************)
(* Facts about the interfaces and the literals.                            *)
(***************************************************************************)
\* b-literals are nodes that are no variables, t-literals are behind them.
LEMMA Interfaces ==
  ASSUME Static
  PROVE  /\ MaxNum(circuit) \in Nat /\ Nodes(circuit) = 1 .. MaxNum(circuit)
         /\ \A s \in {Universal, Existential} :
              /\ \A b \in b_lits[s] : b \in Nodes(circuit) /\ ~IsVar(circuit, b)
              /\ \A t \in t_lits[s] : t \in Nat /\ MaxNum(circuit) < t
  <1>1. MaxNum(circuit) \in Nat /\ Nodes(circuit) = 1 .. MaxNum(circuit)
    BY NodeNumbers DEF Static, Nodes
  <1>2. ASSUME NEW s \in {Universal, Existential}
        PROVE  /\ \A b \in b_lits[s] : b \in Nodes(circuit) /\ ~IsVar(circuit, b)
               /\ \A t \in t_lits[s] : t \in Nat /\ MaxNum(circuit) < t
    <2>1. b_lits[s] = BLits(circuit, s) /\ t_lits[s] = TLits(circuit, s)
      BY DEF Static
    <2>2. t_lits[s] \subseteq {TLit(circuit, i) : i \in Nodes(circuit)}
      BY <2>1, InterfaceNumbers DEF Static
    <2>3. \A t \in t_lits[s] : \E i \in Nodes(circuit) : t = i + MaxNum(circuit)
      BY <2>2 DEF TLit
    <2>4. \A t \in t_lits[s] : t \in Nat /\ MaxNum(circuit) < t
      BY <1>1, <2>3
    <2> QED
      BY <2>1, <2>4, BLitsAreNoVariables DEF Static
  <1> QED
    BY <1>1, <1>2

\* A t-literal belongs to the node it was made from.
LEMMA TLitInverse ==
  ASSUME Static, NEW i \in Nodes(circuit)
  PROVE  TLitToVarId(circuit, TLit(circuit, i)) = i
  BY Interfaces DEF TLitToVarId, TLit

\* The literals of the proposal do not contradict each other.
LEMMA ProposalIsConsistent ==
  ASSUME Static, Fields, Labels, pc = "loop"
  PROVE  \A l \in Proposal : l \in Int /\ -l \notin Proposal
  <1> DEFINE N == MaxNum(circuit)
             moved == {Signed(value[i], i) : i \in {k \in Own(Universal) : value[k] # 0}}
  <1>1. N \in Nat /\ Nodes(circuit) = 1 .. N
    BY Interfaces
  <1>2. \A l \in OuterAssumed : l \in Int /\ N < l
    <2>1. \A l \in OuterAssumed : Label(l)
      BY DEF OuterAssumed, Labels
    <2>2. \A l \in OuterAssumed : l \in Nat /\ 2 * N < l
      BY <2>1 DEF Label
    <2> HIDE DEF N
    <2> QED
      BY <1>1, <2>2
  <1>3. \A l \in Opposite(assumptions) : l \in Int /\ -l \in 1 .. N /\ ~IsVar(circuit, -l)
    <2>1. \A b \in assumptions : b \in Nodes(circuit) /\ ~IsVar(circuit, b)
      BY Interfaces DEF Fields
    <2>2. \A l \in Opposite(assumptions) : \E b \in assumptions : l = -b
      BY DEF Opposite
    <2> HIDE DEF N
    <2>3. ASSUME NEW l \in Opposite(assumptions)
          PROVE  l \in Int /\ -l \in 1 .. N /\ ~IsVar(circuit, -l)
      <3>1. PICK b \in assumptions : l = -b
        BY <2>2
      <3>2. b \in 1 .. N /\ ~IsVar(circuit, b)
        BY <1>1, <2>1
      <3>3. l \in Int /\ -l = b
        BY <3>1, <3>2
      <3> QED
        BY <3>2, <3>3
    <2> QED
      BY <2>3
  <1>4. \A l \in moved : \E i \in 1 .. N : IsVar(circuit, i) /\ l = Signed(value[i], i)
    BY <1>1 DEF Own, ScopeVars
  <1>5. \A l \in moved : l \in Int /\ \E i \in 1 .. N : IsVar(circuit, i) /\ (l = i \/ l = -i)
    <2> HIDE DEF N, moved
    <2> QED
      BY <1>1, <1>4 DEF Signed
  <1>6. \A l \in moved : -l \notin moved
    <2> SUFFICES ASSUME NEW l \in moved, -l \in moved
                 PROVE  FALSE
      OBVIOUS
    <2> HIDE DEF N, moved
    <2>1. PICK i \in 1 .. N : l = Signed(value[i], i)
      BY <1>4
    <2>2. PICK j \in 1 .. N : -l = Signed(value[j], j)
      BY <1>4
    <2>3. (l = i \/ l = -i) /\ (-l = j \/ -l = -j)
      BY <2>1, <2>2 DEF Signed
    <2>4. i = j
      BY <1>1, <2>3
    <2> QED
      BY <1>1, <2>1, <2>2, <2>4 DEF Signed
  <1>7. Proposal = OuterAssumed \cup Opposite(assumptions) \cup moved
    BY DEF Proposal
  <1> HIDE DEF N, moved
  <1>8. \A l \in Proposal : l \in Int
    BY <1>2, <1>3, <1>5, <1>7
  <1>9. \A l \in Proposal : -l \notin OuterAssumed
    BY <1>1, <1>2, <1>3, <1>5, <1>7
  <1>10. \A l \in OuterAssumed : -l \notin Proposal
    BY <1>1, <1>2, <1>3, <1>5, <1>7
  <1>11. \A l \in Opposite(assumptions) : -l \notin Opposite(assumptions) /\ -l \notin moved
    BY <1>1, <1>3, <1>5
  <1>12. \A l \in moved : -l \notin Opposite(assumptions)
    BY <1>1, <1>3, <1>5
  <1> QED
    BY <1>6, <1>7, <1>8, <1>9, <1>10, <1>11, <1>12

\* An instance with a clause against literals that do not contradict each other refutes them.
LEMMA Refuting ==
  ASSUME NEW clauses, NEW lits, NEW cl \in clauses, cl \subseteq Opposite(lits),
         \A l \in lits : l \in Int /\ -l \notin lits
  PROVE  ~Satisfiable(clauses, lits)
  <1>1. cl \cap lits = {}
    BY DEF Opposite
  <1>2. cl \ Opposite(lits) = {}
    OBVIOUS
  <1>3. {} \in Under(clauses, lits)
    BY <1>1, <1>2 DEF Under
  <1> QED
    BY <1>3 DEF Satisfiable, Inconsistent

-----------------------------------------------------------------------------
(***************************************************************************)
(* The invariant: the start, what a step leaves alone, and the actions.    *)
(***************************************************************************)
\* Every query starts with fresh literals, nothing learnt and nothing proposed.
LEMMA InitInv == Init => FInv
  <1> SUFFICES ASSUME Init
               PROVE  FInv
    OBVIOUS
  <1> DEFINE N == MaxNum(circuit)
  <1>1. Static
    <2>1. PICK q \in Queries : circuit = Annotate(q.circuit)
      BY DEF Init
    <2>2. WellFormed(q.circuit)
      BY QueriesWellFormed DEF IsQuery
    <2>3. Shape(circuit)
      BY <2>1, <2>2, WellFormedShape, AnnotatedShape
    <2> QED
      BY <2>3 DEF Init, Static
  <1>2. N \in Nat
    BY <1>1, Interfaces
  <1>3. Fields
    BY DEF Init, Fields
  <1>4. \A cl \in sat[Universal] : \A l \in cl : l \in Int /\ -(2 * N) <= l
    <2>1. sat[Universal] = Instance(Universal, circuit.scope[Universal].qtype)
      BY DEF Init
    <2>2. \A cl \in sat[Universal] : cl \subseteq ClauseLits(circuit)
      BY <1>1, <2>1, EncodingLits DEF Instance, Static
    <2>3. \A l \in ClauseLits(circuit) : l \in Int /\ -(2 * N) <= l
      BY <1>2 DEF ClauseLits
    <2> HIDE DEF N
    <2> QED
      BY <2>2, <2>3
  <1>5. Labels
    <2>1. /\ incremental_lit = 2 * N + 1 /\ next_lit = 2 * N + 2 /\ refinements = {}
          /\ pc = "loop"
      BY DEF Init
    <2>2. Label(incremental_lit) /\ next_lit \in Nat /\ 2 * N < next_lit
      <3>1. \A l : Label(l) <=> l \in Nat /\ 2 * N < l /\ l < next_lit
        BY DEF Label
      <3> HIDE DEF N
      <3> QED
        BY <1>2, <2>1, <3>1
    <2> HIDE DEF N
    <2>3. \A cl \in sat[Universal] : \A l \in cl : l \in Int /\ -next_lit < l /\ l # -incremental_lit
      BY <1>2, <1>4, <2>1
    <2>4. Guarded(incremental_lit) = {}
      BY <2>3 DEF Guarded
    <2> QED
      BY <2>1, <2>2, <2>3, <2>4 DEF Labels, N
  <1>6. Promised /\ Blocked
    BY DEF Init, Promised, Blocked
  <1> QED
    BY <1>1, <1>3, <1>5, <1>6 DEF FInv

\* Nothing changes the query.
LEMMA SameQuery ==
  ASSUME Static, UNCHANGED config
  PROVE  Static'
  BY DEF Static, config

\* Labels stay as they are when neither they nor the universal instance change.
LEMMA SameLabels ==
  ASSUME Labels, pc # "no_fixpoint" \/ pc' = "no_fixpoint",
         UNCHANGED <<config, sat, incremental_lit, next_lit, refinements>>
  PROVE  Labels'
  BY DEF Labels, Label, Guarded, config

\* The stretch from the proposal on ends outside the loop's head.
LEMMA NotBlocking ==
  ASSUME pc' # "loop"
  PROVE  Blocked'
  BY DEF Blocked

\* A proposal hands over b-literals of the universal scope and nothing else.
LEMMA ProposeInv ==
  ASSUME FInv, Propose
  PROVE  FInv'
  <1>1. PICK m : \E as \in {Assumptions(m, NodeValues)} :
                   /\ assumptions' = as
                   /\ entry' = [entry EXCEPT ![Existential] = EntryFor(as)]
    BY DEF Propose
  <1>2. assumptions' \subseteq b_lits[Universal]
    BY <1>1 DEF Assumptions
  <1>3. entry' = [entry EXCEPT ![Existential] = EntryFor(assumptions')]
    BY <1>1
  <1>4. UNCHANGED <<config, instances, incremental_lit, next_lit, refinements, excluded>>
        /\ pc = "loop" /\ pc' = "inner"
    BY DEF Propose
  <1>5. Static' /\ Labels' /\ Blocked'
    BY <1>4, SameQuery, SameLabels, NotBlocking DEF FInv, instances
  <1>6. entry'[Existential] = EntryFor(assumptions')
    BY <1>3 DEF FInv, Fields
  <1>7. Fields'
    BY <1>2, <1>3, <1>4, <1>6 DEF FInv, Fields, config, instances, EntryFor
  <1>8. Promised'
    <2>1. ASSUME NEW t \in EntryFor(assumptions')
          PROVE  \/ TLitToVarId(circuit, t) \in assumptions'
                 \/ TLitToVarId(circuit, t) \notin b_lits[Universal] /\ t \in t_lits[Universal]
      <3>1. CASE \E b \in assumptions' : t = TLit(circuit, b)
        <4>1. PICK b \in assumptions' : t = TLit(circuit, b)
          BY <3>1
        <4>2. b \in Nodes(circuit)
          BY <1>2, <4>1, Interfaces DEF FInv
        <4> QED
          BY <4>1, <4>2, TLitInverse DEF FInv
      <3>2. CASE t \in t_lits[Universal] /\ TLitToVarId(circuit, t) \notin b_lits[Universal]
        BY <3>2
      <3> QED
        BY <3>1, <3>2 DEF EntryFor
    <2> QED
      BY <1>4, <1>6, <2>1 DEF Promised, MayAssume, config
  <1> QED
    BY <1>5, <1>7, <1>8 DEF FInv

\* A fixpoint ends the loop; nothing is learnt from it.
LEMMA InductiveInv ==
  ASSUME FInv, Inductive
  PROVE  FInv'
  <1>1. /\ UNCHANGED <<config, instances, value, entry, assumptions, incremental_lit, next_lit,
                       refinements, excluded>>
        /\ pc = "loop" /\ pc' = "inductive"
    BY DEF Inductive
  <1>2. Static' /\ Labels' /\ Blocked'
    BY <1>1, SameQuery, SameLabels, NotBlocking DEF FInv, instances
  <1>3. Fields' /\ Promised'
    BY <1>1 DEF FInv, Fields, Promised, config, instances
  <1> QED
    BY <1>2, <1>3 DEF FInv

\* What a dual instance refuted keeps the entry within what it was.
LEMMA NeededEntry ==
  ASSUME Static, NEW dual, NEW m, NEW e, e \subseteq t_lits[Existential],
         NEW next, DualPropagation(Existential, dual, m, e, next), DOMAIN entry = {Universal, Existential}
  PROVE  /\ DOMAIN entry' = DOMAIN entry
         /\ \/ pc' = "abort" /\ entry' = entry
            \/ pc' = next /\ entry'[Existential] \subseteq e
  <1> DEFINE latched == {l \in m : Abs(l) \in LatchesOf(Existential)}
             reported == latched \cup Negative(AssumedTDual(Existential, e))
             assumed == AssignedLits(Existential, m) \cup AssumedTDual(Existential, e)
                          \cup {incremental_lit}
             T == t_lits[Existential]
  <1>1. CASE Satisfiable(dual, assumed)
    BY <1>1 DEF DualPropagation
  <1>2. CASE ~Satisfiable(dual, assumed)
    <2>1. \E failed \in FailedSets(dual, assumed \ reported, reported) :
            entry' = [entry EXCEPT ![Existential] = Opposite(failed) \cap T] /\ pc' = next
      BY <1>2 DEF DualPropagation
    <2>2. \A failed \in FailedSets(dual, assumed \ reported, reported) : failed \subseteq reported
      BY DEF FailedSets
    <2> HIDE DEF assumed, reported
    <2>3. PICK failed : /\ failed \subseteq reported /\ pc' = next
                        /\ entry' = [entry EXCEPT ![Existential] = Opposite(failed) \cap T]
      BY <2>1, <2>2
    <2>4. \A t \in T : t \in Nat /\ t \notin Nodes(circuit) /\ t > 0
      BY Interfaces
    <2>5. ASSUME NEW l \in latched
          PROVE  -l \notin T
      <3>1. Abs(l) \in Nodes(circuit)
        BY <2>5 DEF LatchesOf, Own, ScopeVars
      <3>2. \A i \in Nodes(circuit) : i \in Nat
        BY Interfaces
      <3> SUFFICES ASSUME -l \in T
                   PROVE  FALSE
        OBVIOUS
      <3>3. -l \in Nat /\ -l > 0 /\ -l \notin Nodes(circuit)
        BY <2>4
      <3> HIDE DEF T, latched
      <3>4. CASE l < 0
        BY <3>1, <3>3, <3>4 DEF Abs
      <3>5. CASE ~(l < 0)
        <4>1. Abs(l) = l /\ l \in Nat
          BY <3>1, <3>2, <3>5 DEF Abs
        <4> QED
          BY <3>3, <4>1
      <3> QED
        BY <3>4, <3>5
    <2>6. ASSUME NEW l \in Negative(AssumedTDual(Existential, e)), -l \in T
          PROVE  -l \in e
      <3>1. l < 0 /\ \E k \in AssumedT(Existential, e) : l = -k
        BY <2>6 DEF Negative, AssumedTDual, Opposite
      <3>2. PICK k \in e \cup Opposite(T \ e) : l = -k
        BY <3>1 DEF AssumedT
      <3>3. CASE k \in e
        <4>1. k \in Nat /\ -(-k) = k
          BY <2>4, <3>3
        <4> QED
          BY <3>2, <3>3, <4>1
      <3>4. CASE k \in Opposite(T \ e)
        <4>1. PICK t \in T \ e : k = -t
          BY <3>4 DEF Opposite
        <4>2. t \in Nat /\ l = t
          BY <2>4, <3>2, <4>1
        <4> QED
          BY <3>1, <4>2
      <3> QED
        BY <3>2, <3>3, <3>4
    <2>7. Opposite(failed) \cap T \subseteq e
      BY <2>3, <2>5, <2>6 DEF Opposite, reported
    <2> QED
      BY <2>3, <2>7
  <1> QED
    BY <1>1, <1>2

\* minimize_by_dropping_literals keeps the instance satisfiable, whatever it drops.
LEMMA MinimizedStaysSat ==
  ASSUME MaxNum(circuit) \in Nat, NEW e
  PROVE  /\ MinimizedEntry(e) \subseteq e
         /\ StillSat(e) => StillSat(MinimizedEntry(e))
  <1> DEFINE S == {x \in SUBSET e : StillSat(e) => StillSat(x)}
             step == [t \in Nat |-> [x \in S |-> WithoutFree(x, t)]]
             Up(g) == [t \in Nat |-> IF t = 0 THEN e ELSE WithoutFree(g[t - 1], t)]
             upto == CHOOSE g : g = Up(g)
             last == 2 * MaxNum(circuit)
  <1>1. e \in S
    OBVIOUS
  <1>2. ASSUME NEW x \in S, NEW t \in Nat
        PROVE  WithoutFree(x, t) \in S
    BY DEF WithoutFree
  <1>3. step \in [Nat -> [S -> S]]
    BY <1>2
  <1>4. \A x \in S, t \in Nat : step[t][x] = WithoutFree(x, t)
    OBVIOUS
  <1>5. last \in Nat
    OBVIOUS
  <1>6. MinimizedEntry(e) = upto[last]
    BY DEF MinimizedEntry
  <1> HIDE DEF step, last
  <1>7. PICK h : Iterates(h, S, e, step)
    <2> HIDE DEF S
    <2> QED
      BY <1>1, <1>3, PrimitiveRecursion
  <1> HIDE DEF S
  <1>8. h = Up(h)
    <2>1. ASSUME NEW t \in Nat, t # 0
          PROVE  h[t] = WithoutFree(h[t - 1], t)
      <3>1. t - 1 \in Nat /\ (t - 1) + 1 = t
        BY <2>1
      <3>2. h[t - 1] \in S /\ h[(t - 1) + 1] = step[(t - 1) + 1][h[t - 1]]
        BY <1>7, <3>1 DEF Iterates
      <3> QED
        BY <1>4, <3>1, <3>2
    <2>2. h \in [Nat -> S] /\ h[0] = e
      BY <1>7 DEF Iterates
    <2> QED
      BY <2>1, <2>2
  <1>9. upto = Up(upto)
    BY <1>8
  <1> HIDE DEF upto
  <1>10. ASSUME NEW t \in Nat
         PROVE  upto[t] \in S
    <2> DEFINE T == {k \in Nat : upto[k] \in S}
    <2>1. 0 \in T
      BY <1>1, <1>9
    <2>2. ASSUME NEW k \in Nat, k \in T
          PROVE  k + 1 \in T
      <3>1. k + 1 \in Nat /\ k + 1 # 0 /\ (k + 1) - 1 = k
        OBVIOUS
      <3>2. upto[k + 1] = WithoutFree(upto[k], k + 1)
        BY <1>9, <3>1
      <3> QED
        BY <1>2, <2>2, <3>1, <3>2
    <2>3. \A k \in Nat : k \in T
      <3> HIDE DEF T
      <3> QED
        BY <2>1, <2>2, Induction
    <2> QED
      BY <2>3
  <1> QED
    BY <1>5, <1>6, <1>10 DEF S

\* A refuted proposal leaves the universal instance as it is.
LEMMA RefutedInv ==
  ASSUME FInv, Refuted
  PROVE  FInv'
  <1>1. /\ UNCHANGED <<config, sat, assumptions, incremental_lit, next_lit, refinements, excluded>>
        /\ pc = "inner"
    BY DEF Refuted
  <1>2. /\ pc' \in {"refuted", "abort"} /\ DOMAIN entry' = DOMAIN entry
        /\ entry'[Existential] = entry[Existential]
    <2>1. PICK dual, m, e : DualPropagation(Universal, dual, m, e, "refuted")
      BY DEF Refuted
    <2>2. Universal # Existential
      BY DEF Universal, Existential
    <2>3. (pc' = "abort" /\ entry' = entry)
            \/ (pc' = "refuted" /\ \E x : entry' = [entry EXCEPT ![Universal] = x])
      BY <2>1 DEF DualPropagation
    <2> QED
      BY <2>2, <2>3 DEF FInv, Fields
  <1>3. Static' /\ Labels' /\ Blocked'
    BY <1>1, <1>2, SameQuery, SameLabels, NotBlocking DEF FInv
  <1>4. Fields' /\ Promised'
    BY <1>1, <1>2 DEF FInv, Fields, Promised, config
  <1> QED
    BY <1>3, <1>4 DEF FInv

\* Nor does the generalisation of the cube.
LEMMA MinimizeCubeInv ==
  ASSUME FInv, MinimizeCube
  PROVE  FInv'
  <1>1. /\ UNCHANGED <<config, sat, entry, assumptions, incremental_lit, next_lit, refinements>>
        /\ pc = "refuted" /\ pc' = "exclude"
    BY DEF MinimizeCube, instances
  <1>2. Static' /\ Labels' /\ Blocked'
    BY <1>1, SameQuery, SameLabels, NotBlocking DEF FInv
  <1>3. Fields' /\ Promised'
    BY <1>1 DEF FInv, Fields, Promised, config
  <1> QED
    BY <1>2, <1>3 DEF FInv

\* The dual instance narrows the entry down, and what it keeps was promised.
LEMMA AnsweredInv ==
  ASSUME FInv, Answered
  PROVE  FInv'
  <1>1. /\ UNCHANGED <<config, sat, assumptions, incremental_lit, next_lit, refinements>>
        /\ pc = "inner"
    BY DEF Answered, instances
  <1> DEFINE e == MinimizedEntry(entry[Existential])
  <1>2. e \subseteq entry[Existential]
    BY MinimizedStaysSat, Interfaces DEF FInv
  <1>3. /\ pc' \in {"answered", "abort"} /\ DOMAIN entry' = DOMAIN entry
        /\ entry'[Existential] \subseteq entry[Existential]
    <2>1. \/ pc' = "abort" /\ entry' = entry
          \/ \E m : DualPropagation(Existential, negation[Existential], m, e, "answered")
      BY DEF Answered
    <2> HIDE DEF e
    <2>2. e \subseteq t_lits[Existential]
      BY <1>2 DEF FInv, Fields
    <2>3. CASE \E m : DualPropagation(Existential, negation[Existential], m, e, "answered")
      <3>1. PICK m : DualPropagation(Existential, negation[Existential], m, e, "answered")
        BY <2>3
      <3>2. PICK dual : dual = negation[Existential]
        OBVIOUS
      <3>3. PICK ee : ee = e
        OBVIOUS
      <3>4. DualPropagation(Existential, dual, m, ee, "answered")
        BY <3>1, <3>2, <3>3
      <3> QED
        BY <1>2, <2>2, <3>3, <3>4, NeededEntry DEF FInv, Fields
    <2> QED
      BY <2>1, <2>3
  <1>4. Static' /\ Labels' /\ Blocked'
    BY <1>1, <1>3, SameQuery, SameLabels, NotBlocking DEF FInv
  <1>5. Fields'
    BY <1>1, <1>3 DEF FInv, Fields, config
  <1>6. Promised'
    BY <1>1, <1>3 DEF FInv, Promised, MayAssume, config
  <1> QED
    BY <1>4, <1>5, <1>6 DEF FInv

\* A refinement asks for b-literals that the universal scope promised: the check of refine
\* (fixpoint.c:336-339) passes, and it is against what was proposed.
LEMMA AnswerWasPromised ==
  ASSUME FInv, pc = "answered"
  PROVE  /\ FailedBLits \subseteq assumptions
         /\ \A b \in FailedBLits \cup PassedT : b \in Nat
         /\ t_lits[Universal] = {} => PassedT = {}
  <1>1. ASSUME NEW b \in FailedBLits
        PROVE  b \in assumptions /\ b \in Nat
    <2>1. b \in b_lits[Universal] /\ \E t \in entry[Existential] : b = TLitToVarId(circuit, t)
      BY DEF FailedBLits
    <2>2. b \in Nat
      BY <2>1, Interfaces DEF FInv
    <2> QED
      BY <2>1, <2>2 DEF FInv, Promised, MayAssume
  <1>2. ASSUME NEW t \in PassedT
        PROVE  t \in Nat /\ t \in t_lits[Universal]
    <2>1. t \in entry[Existential] /\ TLitToVarId(circuit, t) \notin b_lits[Universal]
      BY DEF PassedT
    <2>2. t \in Nat
      BY <2>1, Interfaces DEF FInv, Fields
    <2> QED
      BY <2>1, <2>2 DEF FInv, Promised, MayAssume, Fields
  <1> QED
    BY <1>1, <1>2

\* A refinement is one clause under a new literal of its own, against what was proposed.
LEMMA RefineInv ==
  ASSUME FInv, Refine
  PROVE  FInv'
  <1> DEFINE new == [incremental_literal |-> next_lit,
                     sub_states |-> {Unprimed(l) : l \in Cube(Existential)}]
             C == RefinementClause
  <1>0. /\ FailedBLits \subseteq assumptions
        /\ \A b \in FailedBLits \cup PassedT : b \in Nat
        /\ t_lits[Universal] = {} => PassedT = {}
    BY AnswerWasPromised DEF Refine
  <1>1. /\ sat' = [sat EXCEPT ![Universal] = @ \cup {C}]
        /\ refinements' = refinements \cup {new}
        /\ next_lit' = next_lit + 1 /\ pc = "answered" /\ pc' = "loop"
        /\ UNCHANGED <<config, value, entry, assumptions, incremental_lit, excluded>>
    BY <1>0 DEF Refine
  <1>2. Static'
    BY <1>1, SameQuery DEF FInv
  <1>3. Fields' /\ Promised'
    BY <1>1 DEF FInv, Fields, Promised, config
  <1>4. C = {-next_lit} \cup FailedBLits \cup PassedT
    BY DEF RefinementClause
  <1>5. sat'[Universal] = sat[Universal] \cup {C}
    BY <1>1 DEF FInv, Fields
  <1>6. new.incremental_literal = next_lit
    OBVIOUS
  <1> HIDE DEF C, new
  <1>7. Labels'
    <2> DEFINE N == MaxNum(circuit)
    <2>1. N \in Nat /\ next_lit \in Nat /\ 2 * N < next_lit
      BY Interfaces DEF FInv, Labels
    <2>2. \A l : Label(l) <=> l \in Nat /\ 2 * N < l /\ l < next_lit
      BY DEF Label
    <2>3. \A l : Label(l)' <=> l \in Nat /\ 2 * N < l /\ l < next_lit + 1
      BY <1>1 DEF Label, config
    <2> HIDE DEF N
    <2>4. ASSUME NEW l, Label(l)
          PROVE  Label(l)' /\ l # next_lit /\ Guarded(l)' = Guarded(l) /\ -l \notin C
      <3>1. Label(l)' /\ l # next_lit
        BY <2>1, <2>2, <2>3, <2>4
      <3>2. l \in Nat /\ l # 0
        BY <2>1, <2>2, <2>4
      <3>3. -l \notin C
        BY <1>0, <1>4, <2>1, <3>1, <3>2
      <3> QED
        BY <1>5, <3>1, <3>3 DEF Guarded
    <2>5. next_lit' \in Nat /\ 2 * N < next_lit'
      BY <1>1, <2>1
    <2>6. ASSUME NEW cl \in sat'[Universal], NEW l \in cl
          PROVE  l \in Int /\ -next_lit' < l
      <3>1. CASE cl \in sat[Universal]
        BY <1>1, <2>1, <2>6, <3>1 DEF FInv, Labels
      <3>2. CASE cl = C
        BY <1>0, <1>1, <1>4, <2>1, <2>6, <3>2
      <3> QED
        BY <1>5, <3>1, <3>2
    <2>7. Label(incremental_lit)' /\ Guarded(incremental_lit)' = {}
      <3>1. Label(incremental_lit) /\ Guarded(incremental_lit) = {}
        BY <1>1 DEF FInv, Labels
      <3>2. PICK l : l = incremental_lit
        OBVIOUS
      <3>3. Label(l)' /\ Guarded(l)' = {}
        BY <2>4, <3>1, <3>2
      <3>4. l' = l => (Label(l)' <=> Label(incremental_lit)')
        BY <1>1, <3>2 DEF Label
      <3> QED
        BY <1>1, <3>2, <3>3 DEF Label, Guarded
    <2>8. Guarded(next_lit) = {}
      BY <2>1 DEF FInv, Labels, Guarded
    <2>9. {cl \in sat'[Universal] : -next_lit \in cl} = {C}
      BY <1>4, <1>5, <2>8 DEF Guarded
    <2>10. ASSUME NEW r \in refinements'
           PROVE  /\ Label(r.incremental_literal)' /\ r.incremental_literal # incremental_lit
                  /\ \E cl \in sat'[Universal] : Guarded(r.incremental_literal)' = {cl}
                  /\ \A o \in refinements' : o.incremental_literal = r.incremental_literal => o = r
      <3>1. CASE r \in refinements
        <4>1. /\ Label(r.incremental_literal) /\ r.incremental_literal # incremental_lit
              /\ \E cl \in sat[Universal] : Guarded(r.incremental_literal) = {cl}
              /\ \A o \in refinements : o.incremental_literal = r.incremental_literal => o = r
          BY <3>1 DEF FInv, Labels
        <4>2. PICK l : l = r.incremental_literal
          OBVIOUS
        <4>3. Label(l)' /\ l # next_lit /\ Guarded(l)' = Guarded(l)
          BY <2>4, <4>1, <4>2
        <4> QED
          BY <1>1, <1>5, <1>6, <4>1, <4>2, <4>3
      <3>2. CASE r = new
        <4>1. PICK l : l = next_lit
          OBVIOUS
        <4>2. Label(l)' /\ Guarded(l)' = {C}
          BY <2>1, <2>3, <2>9, <4>1 DEF Guarded
        <4>3. next_lit # incremental_lit
          BY <1>1, <2>1, <2>2 DEF FInv, Labels
        <4>4. \A o \in refinements : o.incremental_literal # next_lit
          BY <2>4 DEF FInv, Labels
        <4>5. Label(r.incremental_literal)'
          BY <1>6, <3>2, <4>1, <4>2
        <4>6. Guarded(r.incremental_literal)' = {C}
          BY <1>6, <3>2, <4>1, <4>2
        <4> QED
          BY <1>1, <1>5, <1>6, <3>2, <4>3, <4>4, <4>5, <4>6
      <3> QED
        BY <1>1, <3>1, <3>2
    <2>11. MaxNum(circuit)' = N
      BY <1>1 DEF N, config
    <2> QED
      BY <1>1, <2>5, <2>6, <2>7, <2>10, <2>11 DEF Labels
  <1>8. Blocked'
    <2> SUFFICES ASSUME t_lits[Universal] = {}
                 PROVE  C \subseteq Opposite(Proposal)'
      <3>1. t_lits' = t_lits
        BY <1>1 DEF config
      <3>2. C \in sat'[Universal]
        BY <1>5
      <3>3. PICK cl : cl = C
        OBVIOUS
      <3>4. cl \subseteq Opposite(Proposal)' => Against(cl)'
        BY DEF Against
      <3> QED
        BY <3>1, <3>2, <3>3, <3>4 DEF Blocked
    <2>1. next_lit \in OuterAssumed'
      BY <1>1, <1>6 DEF OuterAssumed
    <2>2. -next_lit \in Opposite(Proposal)'
      BY <2>1 DEF Proposal, Opposite
    <2>3. ASSUME NEW b \in FailedBLits
          PROVE  b \in Opposite(Proposal)'
      <3>1. -b \in Opposite(assumptions)' /\ -(-b) = b
        BY <1>0, <1>1 DEF Opposite
      <3> QED
        BY <3>1 DEF Proposal, Opposite
    <2> QED
      BY <1>0, <1>4, <2>2, <2>3
  <1> QED
    BY <1>2, <1>3, <1>7, <1>8 DEF FInv

\* An excluded cube is against the state that was proposed, in new clauses without the labels
\* that stay.
LEMMA ExcludeInv ==
  ASSUME FInv, ExcludeStates
  PROVE  FInv'
  <1> DEFINE cube == Cube(Universal)
             lost == LostRefinements(cube)
             more == ExcludeIn(Universal, cube) \cup Outdated(lost)
             primed == {Primed(l) : l \in cube}
             N == MaxNum(circuit)
  <1>1. /\ sat' = [sat EXCEPT ![Universal] = @ \cup ExcludeIn(Universal, cube) \cup Outdated(lost),
                              ![Existential] = @ \cup ExcludeIn(Existential, primed)]
        /\ refinements' = refinements \ lost
        /\ next_lit' = NextLit(cube)
        /\ incremental_lit' = IF ContainsInitial(cube) THEN 0 ELSE next_lit + 1
        /\ pc' = IF ContainsInitial(cube) THEN "no_fixpoint" ELSE "loop"
        /\ UNCHANGED <<config, value, entry, assumptions>> /\ pc = "exclude"
    BY DEF ExcludeStates
  <1> HIDE DEF primed, lost
  <1>2. Static'
    BY <1>1, SameQuery DEF FInv
  <1>3. Fields' /\ Promised'
    BY <1>1 DEF FInv, Fields, Promised, config
  <1>4. sat'[Universal] = sat[Universal] \cup more
    <2>1. Universal # Existential
      BY DEF Universal, Existential
    <2> QED
      BY <1>1, <2>1 DEF FInv, Fields
  <1>5. lost \subseteq refinements
    BY DEF lost, LostRefinements
  <1>6. more = {{-incremental_lit}, Opposite(cube)} \cup {{-r.incremental_literal} : r \in lost}
    BY DEF ExcludeIn, Outdated
  <1>7. \A l \in cube : \E i \in 1 .. N : l = i \/ l = -i
    <2>1. \A l \in cube : \E i \in Nodes(circuit) : l = Signed(value[i], i)
      BY DEF Cube, LatchesOf, Own, ScopeVars
    <2>2. Nodes(circuit) = 1 .. N
      BY Interfaces DEF FInv
    <2> HIDE DEF N, cube
    <2> QED
      BY <2>1, <2>2 DEF Signed
  <1>8. Labels'
    <2>1. N \in Nat /\ next_lit \in Nat /\ 2 * N < next_lit
      BY Interfaces DEF FInv, Labels
    <2>2. \A l : Label(l) <=> l \in Nat /\ 2 * N < l /\ l < next_lit
      BY DEF Label
    <2>3. \A l : Label(l)' <=> l \in Nat /\ 2 * N < l /\ l < next_lit'
      BY <1>1 DEF Label, config
    <2>4. next_lit' \in {next_lit + 1, next_lit + 2}
          /\ (pc' # "no_fixpoint" => next_lit' = next_lit + 2 /\ incremental_lit' = next_lit + 1)
          /\ incremental_lit' \in {0, next_lit + 1}
      BY <1>1 DEF NextLit
    <2>5. MaxNum(circuit)' = N
      BY <1>1 DEF config
    <2> HIDE DEF N, cube, more
    <2>6. Label(incremental_lit) /\ \A r \in refinements : Label(r.incremental_literal)
      BY <1>1 DEF FInv, Labels
    <2>7. next_lit' \in Nat /\ 2 * N < next_lit' /\ next_lit < next_lit'
      BY <2>1, <2>4
    <2>8. \A l \in Opposite(cube) : l \in Int /\ -N <= l
      <3>1. \A l \in Opposite(cube) : \E k \in cube : l = -k
        BY DEF Opposite
      <3> QED
        BY <1>7, <2>1, <3>1
    <2>9. \A cl \in more : \A l \in cl : l \in Int /\ -next_lit < l
      <3>1. -incremental_lit \in Int /\ -next_lit < -incremental_lit
        BY <2>1, <2>2, <2>6
      <3>2. \A r \in refinements : /\ -r.incremental_literal \in Int
                                   /\ -next_lit < -r.incremental_literal
        BY <2>1, <2>2, <2>6
      <3>3. \A l \in Opposite(cube) : l \in Int /\ -next_lit < l
        BY <2>1, <2>8
      <3> QED
        BY <1>5, <1>6, <3>1, <3>2, <3>3
    <2>10. \A cl \in sat'[Universal] : \A l \in cl : l \in Int /\ -next_lit < l
      BY <1>4, <2>9 DEF FInv, Labels
    <2>11. \A cl \in sat'[Universal] : \A l \in cl : l \in Int /\ -next_lit' < l
      BY <2>1, <2>7, <2>10
    <2>12. pc' # "no_fixpoint" => Label(incremental_lit)' /\ Guarded(incremental_lit)' = {}
      <3> SUFFICES ASSUME pc' # "no_fixpoint"
                   PROVE  Label(incremental_lit)' /\ Guarded(incremental_lit)' = {}
        OBVIOUS
      <3>1. PICK l : l = next_lit + 1
        OBVIOUS
      <3>2. Label(l)' /\ incremental_lit' = l
        BY <2>1, <2>3, <2>4, <3>1
      <3>3. \A cl \in sat'[Universal] : -l \notin cl
        BY <2>1, <2>10, <3>1
      <3> QED
        BY <3>2, <3>3 DEF Label, Guarded
    <2>13. ASSUME NEW r \in refinements'
           PROVE  /\ Label(r.incremental_literal)' /\ r.incremental_literal # incremental_lit'
                  /\ \E cl \in sat'[Universal] : Guarded(r.incremental_literal)' = {cl}
                  /\ \A o \in refinements' : o.incremental_literal = r.incremental_literal => o = r
      <3>1. r \in refinements /\ r \notin lost
        BY <1>1
      <3>2. PICK l : l = r.incremental_literal
        OBVIOUS
      <3>3. /\ Label(l) /\ l # incremental_lit
            /\ \E cl \in sat[Universal] : Guarded(l) = {cl}
            /\ \A o \in refinements : o.incremental_literal = l => o = r
        BY <3>1, <3>2 DEF FInv, Labels
      <3>4. l \in Nat /\ 2 * N < l /\ l < next_lit
        BY <2>2, <3>3
      <3>5. Label(l)' /\ l # incremental_lit'
        BY <2>1, <2>3, <2>4, <2>7, <3>4
      <3>6. \A cl \in more : -l \notin cl
        <4>1. -l # -incremental_lit
          BY <2>2, <2>6, <3>3, <3>4
        <4>2. -l \notin Opposite(cube)
          BY <2>1, <2>8, <3>4
        <4>3. \A o \in lost : -l # -o.incremental_literal
          <5>1. \A o \in lost : o.incremental_literal \in Nat /\ o.incremental_literal # l
            BY <1>5, <2>2, <2>6, <3>1, <3>3
          <5> QED
            BY <3>4, <5>1
        <4> QED
          BY <1>6, <4>1, <4>2, <4>3
      <3>7. Guarded(l)' = Guarded(l)
        BY <1>4, <3>6 DEF Guarded
      <3> QED
        BY <1>1, <1>4, <3>2, <3>3, <3>5, <3>7
    <2> QED
      BY <1>1, <2>5, <2>7, <2>11, <2>12, <2>13 DEF Labels
  <1>9. Blocked'
    <2>1. PICK cl : cl = Opposite(cube)
      OBVIOUS
    <2>2. cl \in sat'[Universal]
      BY <1>4, <1>6, <2>1
    <2>3. cube \subseteq Proposal'
      <3>1. cube \subseteq {Signed(value[i], i) : i \in {k \in Own(Universal) : value[k] # 0}}
        BY DEF Cube, LatchesOf
      <3>2. Own(Universal)' = Own(Universal)
        BY <1>1 DEF Own, config
      <3> QED
        BY <1>1, <3>1, <3>2 DEF Proposal
    <2>4. Against(cl)'
      BY <2>1, <2>3 DEF Against, Opposite
    <2> QED
      BY <2>2, <2>4 DEF Blocked
  <1> QED
    BY <1>2, <1>3, <1>8, <1>9 DEF FInv

\* Every step keeps the invariant.
LEMMA NextInv ==
  ASSUME FInv, [Next]_vars
  PROVE  FInv'
  <1>1. CASE Propose
    BY <1>1, ProposeInv
  <1>2. CASE Inductive
    BY <1>2, InductiveInv
  <1>3. CASE Refuted
    BY <1>3, RefutedInv
  <1>4. CASE MinimizeCube
    BY <1>4, MinimizeCubeInv
  <1>5. CASE ExcludeStates
    BY <1>5, ExcludeInv
  <1>6. CASE Answered
    BY <1>6, AnsweredInv
  <1>7. CASE Refine
    BY <1>7, RefineInv
  <1>8. CASE UNCHANGED vars
    <2>1. UNCHANGED <<config, sat, value, entry, assumptions, incremental_lit, next_lit,
                      refinements, excluded, pc>>
      BY <1>8 DEF vars, instances
    <2>2. UNCHANGED Proposal
      BY <2>1 DEF Proposal, OuterAssumed, Own, config
    <2>3. Blocked'
      BY <2>1, <2>2 DEF FInv, Blocked, Against, config
    <2>4. Static' /\ Labels'
      BY <2>1, SameQuery, SameLabels DEF FInv
    <2>5. Fields' /\ Promised'
      BY <2>1 DEF FInv, Fields, Promised, MayAssume, config
    <2> QED
      BY <2>3, <2>4, <2>5 DEF FInv
  <1> QED
    BY <1>1, <1>2, <1>3, <1>4, <1>5, <1>6, <1>7, <1>8 DEF Next, Done

-----------------------------------------------------------------------------
\* The invariant holds on every set of queries.
THEOREM FixpointInvariance == Spec => []FInv
  <1>1. FInv /\ [Next]_vars => FInv'
    BY NextInv
  <1> QED
    BY <1>1, InitInv, PTL DEF Spec

\* However long the loop runs, the literals that the universal instance assumes guard what
\* they were taken for and nothing else (next_lit, push_incremental, check_old_refinements).
THEOREM LabelsAreFresh == Spec => []LabelsGuardOneClause
  <1>1. FInv => LabelsGuardOneClause
    <2> SUFFICES ASSUME FInv, pc = "loop"
                 PROVE  /\ \A cl \in sat[Universal] : -incremental_lit \notin cl
                        /\ \A r \in refinements :
                             Cardinality({cl \in sat[Universal] : -r.incremental_literal \in cl}) = 1
      BY DEF LabelsGuardOneClause
    <2>1. \A cl \in sat[Universal] : -incremental_lit \notin cl
      BY DEF FInv, Labels, Guarded
    <2>2. ASSUME NEW r \in refinements
          PROVE  Cardinality({cl \in sat[Universal] : -r.incremental_literal \in cl}) = 1
      <3>1. PICK cl : Guarded(r.incremental_literal) = {cl}
        BY DEF FInv, Labels
      <3>2. Cardinality({cl}) = 1
        BY FS_Singleton
      <3> QED
        BY <3>1, <3>2 DEF Guarded
    <2> QED
      BY <2>1, <2>2
  <1> QED
    BY <1>1, FixpointInvariance, PTL

\* If no t-literal leads into the universal scope - if no gate of the query is without
\* variables, as it is for a latch whose next value is constant zero - then no proposal is
\* made again: a refinement is against the one it was learnt from, and so is a cube.
THEOREM ProposalsAreBlocked == Spec => [](t_lits[Universal] = {} => ProposalBlocked)
  <1>1. FInv => (t_lits[Universal] = {} => ProposalBlocked)
    <2> SUFFICES ASSUME FInv, t_lits[Universal] = {}, pc = "loop",
                        refinements # {} \/ excluded # {}
                 PROVE  ~Satisfiable(sat[Universal], Proposal)
      BY DEF ProposalBlocked, Proposal
    <2>1. PICK cl \in sat[Universal] : cl \subseteq Opposite(Proposal)
      BY DEF FInv, Blocked, Against
    <2>2. \A l \in Proposal : l \in Int /\ -l \notin Proposal
      BY ProposalIsConsistent DEF FInv
    <2>3. PICK clauses, lits : clauses = sat[Universal] /\ lits = Proposal
      OBVIOUS
    <2>4. cl \in clauses /\ cl \subseteq Opposite(lits) /\ \A l \in lits : l \in Int /\ -l \notin lits
      BY <2>1, <2>2, <2>3
    <2>5. ~Satisfiable(clauses, lits)
      BY <2>4, Refuting
    <2> QED
      BY <2>3, <2>5
  <1> QED
    BY <1>1, FixpointInvariance, PTL

\* What an answer rests on was promised by the universal scope: the check of refine
\* (fixpoint.c:336-339) never fails.
AnswersWerePromised == pc = "answered" => FailedBLits \subseteq assumptions
THEOREM RefineNeverFails == Spec => []AnswersWerePromised
  <1>1. FInv => AnswersWerePromised
    BY AnswerWasPromised DEF AnswersWerePromised
  <1> QED
    BY <1>1, FixpointInvariance, PTL

\* What the dual instance of a scope is asked under a model and an entry.
DualAccepts(s, dual, m, e) ==
  Satisfiable(dual, AssignedLits(s, m) \cup AssumedTDual(s, e) \cup {incremental_lit})

\* The solver stops with an error only if a dual instance accepts what it has to refute:
\* the existential one an answer, the universal one a proposal without an answer.
OnlyDualsDisagree ==
  pc # "abort" /\ pc' = "abort" =>
    /\ pc = "inner"
    /\ IF Satisfiable(sat[Existential], InnerAssumed)
       THEN \E m : DualAccepts(Existential, negation[Existential], m,
                               MinimizedEntry(entry[Existential]))
       ELSE \E core : DualAccepts(Universal, negation[Universal] \cup {DualClause(core)},
                                  Assignment(Universal), entry[Universal])

\* So of the error exits of fixpoint_solve and refine only those of
\* fixpoint_dual_propagation (fixpoint.c:606-609) are left to the runs.
THEOREM OnlyDualInstancesAbort == Spec => [][OnlyDualsDisagree]_vars
  <1>1. FInv /\ [Next]_vars => [OnlyDualsDisagree]_vars
    <2> SUFFICES ASSUME FInv, [Next]_vars, pc # "abort", pc' = "abort"
                 PROVE  OnlyDualsDisagree
      BY DEF OnlyDualsDisagree
    <2>1. ASSUME NEW s, NEW dual, NEW m, NEW e, NEW next,
                 DualPropagation(s, dual, m, e, next), next # "abort"
          PROVE  DualAccepts(s, dual, m, e)
      <3>1. DualAccepts(s, dual, m, e) \/ pc' = next
        BY <2>1 DEF DualPropagation, DualAccepts
      <3> QED
        BY <2>1, <3>1
    <2>2. CASE Refuted
      <3>1. pc = "inner" /\ ~Satisfiable(sat[Existential], InnerAssumed)
        BY <2>2 DEF Refuted
      <3>2. \E core : \E dual \in {negation[Universal] \cup {DualClause(core)}} :
              DualPropagation(Universal, dual, Assignment(Universal), entry[Universal], "refuted")
        BY <2>2 DEF Refuted
      <3>3. \E core : DualPropagation(Universal, negation[Universal] \cup {DualClause(core)},
                                      Assignment(Universal), entry[Universal], "refuted")
        BY <3>2
      <3>4. \E core : DualAccepts(Universal, negation[Universal] \cup {DualClause(core)},
                                  Assignment(Universal), entry[Universal])
        BY <2>1, <3>3
      <3> QED
        BY <3>1, <3>4 DEF OnlyDualsDisagree
    <2>3. CASE Answered
      <3>1. pc = "inner" /\ Satisfiable(sat[Existential], InnerAssumed)
        BY <2>3 DEF Answered
      <3>2. StillSat(entry[Existential])
        BY <3>1 DEF StillSat, InnerAssumed
      <3>3. StillSat(MinimizedEntry(entry[Existential]))
        BY <3>2, MinimizedStaysSat, Interfaces DEF FInv
      <3>4. \E e \in {MinimizedEntry(entry[Existential])} : \E m :
              DualPropagation(Existential, negation[Existential], m, e, "answered")
        BY <2>3, <3>3 DEF Answered
      <3>5. \E m : DualAccepts(Existential, negation[Existential], m,
                               MinimizedEntry(entry[Existential]))
        BY <2>1, <3>4
      <3> QED
        BY <3>1, <3>5 DEF OnlyDualsDisagree
    <2>4. CASE Refine
      BY <2>4, AnswerWasPromised DEF Refine
    <2>5. CASE Propose \/ Inductive \/ MinimizeCube \/ ExcludeStates \/ UNCHANGED vars
      BY <2>5 DEF Propose, Inductive, MinimizeCube, ExcludeStates, vars
    <2> QED
      BY <2>2, <2>3, <2>4, <2>5 DEF Next, Done
  <1> QED
    BY <1>1, FixpointInvariance, PTL DEF Spec

-----------------------------------------------------------------------------
(***************************************************************************)
(* The game, as the assignments of the query's two scopes see it.          *)
(***************************************************************************)
\* The behaviour is about one of the queries.
GameStatic ==
  \E q \in Queries : /\ aiger = q.aiger /\ circuit = Annotate(q.circuit)
                     /\ inputs = q.inputs /\ latches = q.latches

\* The query is a prenex circuit with two scopes that have variables.
LEMMA GameCircuit ==
  ASSUME Static, GameStatic
  PROVE  /\ Flat(circuit) /\ Scopes(circuit) = {TopLevel, Universal, Existential}
         /\ OuterVars(circuit, Universal) = {} /\ OuterVars(circuit, Existential) = Own(Universal)
         /\ OuterVars(circuit, 4) = Own(Universal) \cup Own(Existential)
         /\ circuit.scope[Universal].qtype = "forall" /\ circuit.scope[Existential].qtype = "exists"
         /\ \A s \in {Universal, Existential} :
              /\ TakesUp(circuit, s, t_lits[s])
              /\ \A t \in t_lits[s] : /\ TLitToVarId(circuit, t) \in Gates(circuit)
                                      /\ t = TLit(circuit, TLitToVarId(circuit, t))
         /\ \A s \in {Universal, Existential} :
              Own(s) \subseteq Nodes(circuit) /\ Own(s) \subseteq Nat \ {0}
         /\ Own(Universal) \cap Own(Existential) = {}
  <1>1. PICK q \in Queries : circuit = Annotate(q.circuit)
    BY DEF GameStatic
  <1>2. /\ WellFormed(q.circuit) /\ \A s \in Scopes(q.circuit) : InPrefix(q.circuit, s)
        /\ Scopes(q.circuit) = {TopLevel, Universal, Existential} /\ ScopeVars(q.circuit, TopLevel) = {}
    BY QueriesWellFormed DEF IsQuery, HasGameVars
  <1>3. PrenexCircuit(q.circuit)
    BY <1>2 DEF PrenexCircuit
  <1>4. Flat(circuit)
    BY <1>1, <1>3, PrenexFlat
  <1>5. /\ Scopes(circuit) = {1, 2, 3} /\ ScopeVars(circuit, 1) = {}
        /\ Nodes(circuit) = Nodes(q.circuit)
    BY <1>1, <1>2 DEF Annotate, Scopes, ScopeVars, Nodes, MaxNum, IsVar, TopLevel, Universal, Existential
  <1>6. /\ 1 .. 2 - 1 = {1} /\ 1 .. 3 - 1 = {1, 2} /\ 1 .. 4 - 1 = {1, 2, 3}
    OBVIOUS
  <1>7. /\ OuterVars(circuit, 2) = {} /\ OuterVars(circuit, 3) = ScopeVars(circuit, 2)
        /\ OuterVars(circuit, 4) = ScopeVars(circuit, 2) \cup ScopeVars(circuit, 3)
    BY <1>5, <1>6 DEF OuterVars
  <1>8. circuit.scope[2].qtype = "forall" /\ circuit.scope[3].qtype = "exists"
    <2>1. /\ q.circuit.scope[1].qtype = "exists"
          /\ \A s \in {2, 3} : q.circuit.scope[s].qtype = Dual(q.circuit.scope[q.circuit.scope[s].prev].qtype)
      BY <1>2 DEF WellFormed, TopLevel, Universal, Existential
    <2>2. q.circuit.scope[2].prev = 2 - 1 /\ q.circuit.scope[3].prev = 3 - 1
      BY <1>2, <1>3, PrenexTree DEF TopLevel, Universal, Existential
    <2>3. circuit.scope = q.circuit.scope
      BY <1>1 DEF Annotate
    <2> QED
      BY <2>1, <2>2, <2>3 DEF Dual
  <1>9. ASSUME NEW s \in {2, 3}
        PROVE  /\ TakesUp(circuit, s, t_lits[s])
               /\ \A t \in t_lits[s] : /\ TLitToVarId(circuit, t) \in Gates(circuit)
                                       /\ t = TLit(circuit, TLitToVarId(circuit, t))
    <2>1. t_lits[s] = TLits(circuit, s) /\ s \in Scopes(circuit)
      BY <1>5 DEF Static, Universal, Existential
    <2> QED
      BY <1>4, <2>1, FlatTakesUp, FlatTLits
  <1>10. /\ ScopeVars(circuit, 2) \subseteq Nodes(circuit) /\ ScopeVars(circuit, 2) \subseteq Nat \ {0}
         /\ ScopeVars(circuit, 3) \subseteq Nodes(circuit) /\ ScopeVars(circuit, 3) \subseteq Nat \ {0}
         /\ ScopeVars(circuit, 2) \cap ScopeVars(circuit, 3) = {}
    <2>1. 2 \in Nat \ {0} /\ 3 \in Nat \ {0}
      OBVIOUS
    <2> QED
      BY <1>4, <1>7, <2>1, OuterVariables
  <1> QED
    BY <1>4, <1>5, <1>7, <1>8, <1>9, <1>10 DEF Own, TopLevel, Universal, Existential

\* Truth values of some variables are an assignment of them.
Named(D, n) == {n[i] : i \in D}
Chosen(D, n, b) == {IF b[i] THEN n[i] ELSE -n[i] : i \in D}
LEMMA ValuesAssign ==
  ASSUME NEW D, NEW n, NEW b, \A i \in D : n[i] \in Nat \ {0},
         \A i, j \in D : n[i] = n[j] => i = j
  PROVE  Chosen(D, n, b) \in Assignments(Named(D, n))
  <1> DEFINE V == {n[i] : i \in D}
             a == {IF b[i] THEN n[i] ELSE -n[i] : i \in D}
  <1>1. V \subseteq Nat \ {0}
    OBVIOUS
  <1>2. ASSUME NEW l \in a
        PROVE  l \in Int /\ LitVar(l) \in V /\ -l \notin a
    <2>1. PICK i \in D : l = IF b[i] THEN n[i] ELSE -n[i]
      OBVIOUS
    <2>2. n[i] \in Nat \ {0} /\ n[i] \in V
      OBVIOUS
    <2>3. l \in Int /\ LitVar(l) = n[i]
      BY <2>1, <2>2 DEF LitVar
    <2>4. ASSUME NEW j \in D, -l = IF b[j] THEN n[j] ELSE -n[j]
          PROVE  FALSE
      <3>1. n[j] \in Nat \ {0}
        OBVIOUS
      <3>2. n[j] = n[i]
        BY <2>1, <2>2, <2>4, <3>1
      <3>3. i = j
        BY <3>2
      <3> QED
        BY <2>1, <2>2, <2>4, <3>3
    <2> QED
      BY <2>2, <2>3, <2>4
  <1>3. ASSUME NEW v \in V
        PROVE  v \in a \/ -v \in a
    OBVIOUS
  <1> HIDE DEF V, a
  <1>4. a \in Assignments(V)
    BY <1>1, <1>2, <1>3, IsAssignment
  <1> QED
    BY <1>4 DEF V, a, Named, Chosen

\* Latches and inputs have nodes of their own, in the scope where they belong.
LEMMA GameNodes ==
  ASSUME Static, GameStatic
  PROVE  /\ Len(latches) \in DOMAIN latches /\ DOMAIN inputs = DOMAIN aiger.controllable
         /\ \A i \in DOMAIN latches : /\ latches[i].var \in Own(Universal)
                                      /\ latches[i].primed \in Own(Existential)
         /\ Own(Universal) = {latches[i].var : i \in DOMAIN latches} \cup InputNodes(game, FALSE)
         /\ Own(Existential) = {latches[i].primed : i \in DOMAIN latches} \cup InputNodes(game, TRUE)
         /\ \A i, j \in DOMAIN latches : /\ latches[i].var = latches[j].var => i = j
                                         /\ latches[i].primed = latches[j].primed => i = j
         /\ \A i \in DOMAIN latches, k \in DOMAIN inputs :
              inputs[k] # latches[i].var /\ inputs[k] # latches[i].primed
         /\ \A i, j \in DOMAIN inputs : inputs[i] = inputs[j] /\ inputs[i] # 0 => i = j
  <1>1. PICK q \in Queries : /\ aiger = q.aiger /\ circuit = Annotate(q.circuit)
                             /\ inputs = q.inputs /\ latches = q.latches
    BY DEF GameStatic
  <1>2. /\ q.latches \in Seq([var : Nodes(q.circuit), primed : Nodes(q.circuit)]) /\ q.latches # <<>>
        /\ q.inputs \in [DOMAIN q.aiger.controllable -> {0} \cup Nodes(q.circuit)]
        /\ HasGameVars(q)
    BY QueriesWellFormed DEF IsQuery
  <1>3. \A s : ScopeVars(circuit, s) = ScopeVars(q.circuit, s)
    BY <1>1 DEF Annotate, ScopeVars, Nodes, MaxNum, IsVar
  <1>4. \A b : InputNodes(game, b) = InputNodes(q, b)
    BY <1>1 DEF InputNodes, Controlled, game
  <1>5. /\ Own(Universal) = {latches[i].var : i \in DOMAIN latches} \cup InputNodes(game, FALSE)
        /\ Own(Existential) = {latches[i].primed : i \in DOMAIN latches} \cup InputNodes(game, TRUE)
    <2>1. /\ ScopeVars(q.circuit, Universal) =
                {q.latches[i].var : i \in DOMAIN q.latches} \cup InputNodes(q, FALSE)
          /\ ScopeVars(q.circuit, Existential) =
                {q.latches[i].primed : i \in DOMAIN q.latches} \cup InputNodes(q, TRUE)
      BY <1>2, Zenon DEF HasGameVars
    <2>2. /\ {latches[i].var : i \in DOMAIN latches} = {q.latches[i].var : i \in DOMAIN q.latches}
          /\ {latches[i].primed : i \in DOMAIN latches} = {q.latches[i].primed : i \in DOMAIN q.latches}
      BY <1>1
    <2>3. /\ Own(Universal) = ScopeVars(q.circuit, Universal)
          /\ Own(Existential) = ScopeVars(q.circuit, Existential)
      BY <1>3 DEF Own
    <2> QED
      BY <1>4, <2>1, <2>2, <2>3
  <1>6. Len(latches) \in DOMAIN latches
    <2>1. PICK R : R = [var : Nodes(q.circuit), primed : Nodes(q.circuit)]
      OBVIOUS
    <2>2. latches \in Seq(R) /\ latches # <<>>
      BY <1>1, <1>2, <2>1
    <2> QED
      BY <2>2
  <1>7. /\ \A i, j \in DOMAIN latches : /\ latches[i].var = latches[j].var => i = j
                                        /\ latches[i].primed = latches[j].primed => i = j
        /\ \A i \in DOMAIN latches, k \in DOMAIN inputs :
             inputs[k] # latches[i].var /\ inputs[k] # latches[i].primed
        /\ \A i, j \in DOMAIN inputs : inputs[i] = inputs[j] /\ inputs[i] # 0 => i = j
    BY <1>1, <1>2 DEF HasGameVars
  <1> QED
    BY <1>1, <1>2, <1>5, <1>6, <1>7

\* A state and uncontrollable inputs are an assignment of the universal scope, a next state
\* and controls one of the existential scope.
Position(s, u) == StateLits(game, s) \cup InputLits(game, u)
Move(next, k) == NextLits(game, next) \cup InputLits(game, k)
LEMMA Positions ==
  ASSUME Static, GameStatic
  PROVE  /\ \A s \in States(game), u \in Uncontrolled : Position(s, u) \in Assignments(Own(Universal))
         /\ \A s \in States(game), k \in InputValues(game, TRUE) :
              Move(s, k) \in Assignments(Own(Existential))
  <1> DEFINE D == DOMAIN latches
             R(b) == {j \in Controlled(game, b) : inputs[j] # 0}
             var == [i \in D |-> latches[i].var]
             primed == [i \in D |-> latches[i].primed]
  <1>1. /\ Own(Universal) = {var[i] : i \in D} \cup InputNodes(game, FALSE)
        /\ Own(Existential) = {primed[i] : i \in D} \cup InputNodes(game, TRUE)
        /\ Own(Universal) \subseteq Nat \ {0} /\ Own(Existential) \subseteq Nat \ {0}
    <2>1. /\ {var[i] : i \in D} = {latches[i].var : i \in DOMAIN latches}
          /\ {primed[i] : i \in D} = {latches[i].primed : i \in DOMAIN latches}
      OBVIOUS
    <2> HIDE DEF D, R, var, primed
    <2> QED
      BY <2>1, GameNodes, GameCircuit
  <1>2. \A b : R(b) \subseteq DOMAIN inputs /\ InputNodes(game, b) = {inputs[i] : i \in R(b)}
    BY GameNodes DEF InputNodes, Controlled, game
  <1>3. /\ \A i, j \in D : (var[i] = var[j] => i = j) /\ (primed[i] = primed[j] => i = j)
        /\ \A b : \A i \in D, k \in R(b) : inputs[k] # var[i] /\ inputs[k] # primed[i]
        /\ \A b : \A i, j \in R(b) : inputs[i] = inputs[j] => i = j
    BY <1>2, GameNodes
  <1>4. ASSUME NEW s \in States(game)
        PROVE  /\ StateLits(game, s) = {IF s[i] THEN var[i] ELSE -var[i] : i \in D}
               /\ NextLits(game, s) = {IF s[i] THEN primed[i] ELSE -primed[i] : i \in D}
    BY DEF StateLits, NextLits, game
  <1>5. ASSUME NEW b, NEW u \in InputValues(game, b)
        PROVE  InputLits(game, u) = {IF u[i] THEN inputs[i] ELSE -inputs[i] : i \in R(b)}
    BY DEF InputLits, InputValues, game
  <1> HIDE DEF D, R, var, primed
  <1>6. ASSUME NEW s \in States(game)
        PROVE  /\ StateLits(game, s) \in Assignments({var[i] : i \in D})
               /\ NextLits(game, s) \in Assignments({primed[i] : i \in D})
    <2>1. \A i \in D : var[i] \in Nat \ {0} /\ primed[i] \in Nat \ {0}
      BY <1>1
    <2>2. \A i, j \in D : (var[i] = var[j] => i = j) /\ (primed[i] = primed[j] => i = j)
      BY <1>3
    <2>3. /\ Chosen(D, var, s) \in Assignments(Named(D, var))
          /\ Chosen(D, primed, s) \in Assignments(Named(D, primed))
      BY <2>1, <2>2, ValuesAssign
    <2>4. /\ StateLits(game, s) = Chosen(D, var, s) /\ NextLits(game, s) = Chosen(D, primed, s)
          /\ Named(D, var) = {var[i] : i \in D} /\ Named(D, primed) = {primed[i] : i \in D}
      BY <1>4 DEF Chosen, Named
    <2> QED
      BY <2>3, <2>4
  <1>7. ASSUME NEW b \in BOOLEAN, NEW u \in InputValues(game, b)
        PROVE  InputLits(game, u) \in Assignments(InputNodes(game, b))
    <2>1. \A i \in R(b) : inputs[i] \in Nat \ {0}
      BY <1>1, <1>2
    <2>2. \A i, j \in R(b) : inputs[i] = inputs[j] => i = j
      BY <1>3
    <2>3. Chosen(R(b), inputs, u) \in Assignments(Named(R(b), inputs))
      BY <2>1, <2>2, ValuesAssign
    <2>4. InputLits(game, u) = Chosen(R(b), inputs, u) /\ InputNodes(game, b) = Named(R(b), inputs)
      BY <1>2, <1>5 DEF Chosen, Named
    <2> QED
      BY <2>3, <2>4
  <1>8. /\ {var[i] : i \in D} \cap InputNodes(game, FALSE) = {}
        /\ {primed[i] : i \in D} \cap InputNodes(game, TRUE) = {}
    <2>1. ASSUME NEW b \in BOOLEAN, NEW i \in D
          PROVE  var[i] \notin InputNodes(game, b) /\ primed[i] \notin InputNodes(game, b)
      <3>1. \A l \in InputNodes(game, b) : \E k \in R(b) : l = inputs[k]
        BY <1>2
      <3>2. \A k \in R(b) : inputs[k] # var[i] /\ inputs[k] # primed[i]
        BY <1>3
      <3> QED
        BY <3>1, <3>2
    <2> QED
      BY <2>1
  <1>9. ASSUME NEW s \in States(game), NEW u \in Uncontrolled
        PROVE  Position(s, u) \in Assignments(Own(Universal))
    <2>1. PICK V : V = {var[i] : i \in D}
      OBVIOUS
    <2>2. StateLits(game, s) \in Assignments(V) /\ InputLits(game, u) \in Assignments(InputNodes(game, FALSE))
      BY <1>6, <1>7, <2>1 DEF Uncontrolled
    <2>3. V \subseteq Nat \ {0} /\ InputNodes(game, FALSE) \subseteq Nat \ {0}
          /\ V \cap InputNodes(game, FALSE) = {} /\ Own(Universal) = V \cup InputNodes(game, FALSE)
      BY <1>1, <1>8, <2>1
    <2> QED
      BY <2>2, <2>3, JoinedAssignments DEF Position
  <1>10. ASSUME NEW s \in States(game), NEW k \in InputValues(game, TRUE)
         PROVE  Move(s, k) \in Assignments(Own(Existential))
    <2>1. PICK V : V = {primed[i] : i \in D}
      OBVIOUS
    <2>2. NextLits(game, s) \in Assignments(V) /\ InputLits(game, k) \in Assignments(InputNodes(game, TRUE))
      BY <1>6, <1>7, <2>1
    <2>3. V \subseteq Nat \ {0} /\ InputNodes(game, TRUE) \subseteq Nat \ {0}
          /\ V \cap InputNodes(game, TRUE) = {} /\ Own(Existential) = V \cup InputNodes(game, TRUE)
      BY <1>1, <1>8, <2>1
    <2> QED
      BY <2>2, <2>3, JoinedAssignments DEF Move
  <1> QED
    BY <1>9, <1>10

\* The matrix says what the game does from a position.
Matrix(a, x) == NodeHolds(circuit, circuit.output, a \cup x)
LEMMA MatrixIsGame ==
  ASSUME Static, GameStatic, NEW s \in States(game), NEW next \in States(game),
         NEW u \in Uncontrolled, NEW k \in InputValues(game, TRUE)
  PROVE  Matrix(Position(s, u), Move(next, k))
           <=> s[Len(latches)] \/ (next = Step(game, s, u @@ k) /\ ~next[Len(latches)])
  <1>1. PICK q \in Queries : /\ aiger = q.aiger /\ circuit = Annotate(q.circuit)
                             /\ inputs = q.inputs /\ latches = q.latches
    BY DEF GameStatic
  <1>2. game.aiger = q.aiger /\ game.latches = q.latches /\ game.inputs = q.inputs
    BY <1>1 DEF game
  <1>3. /\ States(q) = States(game) /\ \A b : InputValues(q, b) = InputValues(game, b)
        /\ \A t : StateLits(game, t) = StateLits(q, t) /\ NextLits(game, t) = NextLits(q, t)
        /\ \A v : InputLits(game, v) = InputLits(q, v)
    BY <1>2 DEF States, InputValues, Controlled, StateLits, NextLits, InputLits
  <1>4. \A t, v : Step(game, t, v) = Step(q, t, v)
    <2>1. \A t, v : Valuation(game, t, v) = Valuation(q, t, v)
      BY <1>2 DEF Valuation
    <2> QED
      BY <1>2, <2>1 DEF Step
  <1>5. PICK a : a = Position(s, u) \cup Move(next, k)
    OBVIOUS
  <1>6. NodeHolds(q.circuit, q.circuit.output, a)
          <=> s[Len(latches)] \/ (next = Step(game, s, u @@ k) /\ ~next[Len(latches)])
    <2>1. SaysWhatTheGameDoes(q)
      BY QueriesWellFormed DEF IsQuery
    <2>2. s \in States(q) /\ next \in States(q) /\ u \in InputValues(q, FALSE) /\ k \in InputValues(q, TRUE)
      BY <1>3 DEF Uncontrolled
    <2>3. NodeHolds(q.circuit, q.circuit.output,
                    StateLits(q, s) \cup InputLits(q, u) \cup (NextLits(q, next) \cup InputLits(q, k)))
            <=> s[Len(q.latches)] \/ (next = Step(q, s, u @@ k) /\ ~next[Len(q.latches)])
      BY <2>1, <2>2, Zenon DEF SaysWhatTheGameDoes
    <2>4. a = StateLits(q, s) \cup InputLits(q, u) \cup (NextLits(q, next) \cup InputLits(q, k))
      BY <1>3, <1>5 DEF Position, Move
    <2>5. Step(game, s, u @@ k) = Step(q, s, u @@ k)
      BY <1>4
    <2> QED
      BY <1>1, <2>3, <2>4, <2>5
  <1>7. NodeHolds(circuit, circuit.output, a) = NodeHolds(q.circuit, q.circuit.output, a)
    <2>1. PrenexCircuit(q.circuit)
      BY QueriesWellFormed DEF IsQuery, PrenexCircuit
    <2>2. a \subseteq Literals(circuit)
      <3>1. /\ Position(s, u) \in Assignments(Own(Universal)) /\ Move(next, k) \in Assignments(Own(Existential))
        BY Positions
      <3>2. Own(Universal) \subseteq Nodes(circuit) /\ Own(Existential) \subseteq Nodes(circuit)
        BY GameCircuit
      <3> QED
        BY <1>5, <3>1, <3>2, AssignedLiterals DEF Static
    <2>3. Literals(circuit) = Literals(q.circuit) /\ circuit.output = q.circuit.output
      BY <1>1 DEF Annotate, Literals, Nodes, MaxNum
    <2>4. q.circuit.output \in Nodes(q.circuit)
      BY <2>1 DEF PrenexCircuit, WellFormed, CircuitType
    <2> QED
      BY <1>1, <2>1, <2>2, <2>3, <2>4, AnnotatedHolds
  <1> QED
    BY <1>5, <1>6, <1>7 DEF Matrix

\* The gate F reads the error latch and nothing else, and nothing else reads it; F' its next
\* value.
LEMMA ErrorGates ==
  ASSUME Static, GameStatic
  PROVE  /\ F \in Nodes(circuit) /\ FPrime \in Nodes(circuit)
         /\ circuit.node[F].type = "or" /\ circuit.node[F].inputs = <<ErrorLatch.var>>
         /\ circuit.node[FPrime].type = "and" /\ circuit.node[FPrime].inputs = <<-ErrorLatch.primed>>
         /\ F # circuit.output /\ FPrime # circuit.output
         /\ \A j \in Nodes(circuit) : ErrorLatch.var \in Inputs(circuit, j) => j = F
         /\ \A j \in Nodes(circuit) : ErrorLatch.primed \in Inputs(circuit, j) => j = FPrime
  <1>1. PICK q \in Queries : circuit = Annotate(q.circuit) /\ latches = q.latches
    BY DEF GameStatic
  <1>2. /\ OnlyReader(q.circuit, "or", ErrorLatch.var) /\ OnlyReader(q.circuit, "and", -ErrorLatch.primed)
    BY <1>1, QueriesWellFormed DEF IsQuery, ErrorLatch
  <1>3. /\ ErrorLatch.var \in Nat \ {0} /\ ErrorLatch.primed \in Nat \ {0}
    BY GameNodes, GameCircuit DEF ErrorLatch
  <1>4. /\ OnlyReader(circuit, "or", ErrorLatch.var) /\ OnlyReader(circuit, "and", -ErrorLatch.primed)
    BY <1>1, <1>2 DEF OnlyReader, Annotate, Nodes, MaxNum, Inputs
  <1>5. ASSUME NEW i \in Nat \ {0}, NEW type \in {"and", "or"}, NEW l, l \in {i, -i},
               OnlyReader(circuit, type, l), NEW g, g = GateOver(i)
        PROVE  /\ g \in Nodes(circuit) /\ circuit.node[g].type = type /\ circuit.node[g].inputs = <<l>>
               /\ g # circuit.output
               /\ \A j \in Nodes(circuit) : i \in Inputs(circuit, j) => j = g
    <2>1. LitVar(l) = i
      BY <1>5 DEF LitVar
    <2>2. PICK k \in Nodes(circuit) : /\ circuit.node[k].type = type /\ circuit.node[k].inputs = <<l>>
                                      /\ k # circuit.output
                                      /\ \A j \in Nodes(circuit) : i \in Inputs(circuit, j) => j = k
      BY <1>5, <2>1 DEF OnlyReader
    <2>3. Inputs(circuit, k) = {i}
      <3>1. Range(<<l>>) = {l}
        BY DEF Range
      <3> QED
        BY <2>1, <2>2, <3>1 DEF Inputs
    <2>4. IsGateOver(circuit, k, i)
      BY <2>2, <2>3 DEF IsGateOver, IsGate
    <2>5. g \in Nodes(circuit) /\ IsGateOver(circuit, g, i)
      BY <1>5, <2>4 DEF GateOver
    <2>6. i \in Inputs(circuit, g)
      BY <2>5 DEF IsGateOver
    <2> QED
      BY <2>2, <2>5, <2>6
  <1> QED
    BY <1>3, <1>4, <1>5 DEF F, FPrime

\* While the error is not raised F is not secured for the control.
LEMMA NotRaised ==
  ASSUME Static, GameStatic, NEW a, ErrorLatch.var \notin a
  PROVE  ~Secured(circuit, "exists", Existential, F, a)
  <1> PICK i : i = ErrorLatch.var
    OBVIOUS
  <1>1. /\ F \in Nodes(circuit) /\ circuit.node[F].type = "or" /\ circuit.node[F].inputs = <<i>>
    BY ErrorGates
  <1>2. i \in Nodes(circuit) /\ IsVar(circuit, i) /\ i \in Nat \ {0}
    BY GameNodes, GameCircuit DEF ErrorLatch, Own, ScopeVars
  <1>3. Range(circuit.node[F].inputs) = {i}
    BY <1>1 DEF Range
  <1>4. GateTypeFor(circuit, F, "exists") = "or"
    BY <1>1 DEF GateTypeFor
  <1>5. InputFor(circuit, "exists", i, a) = DecidedValue(circuit, i, a)
    <2>1. LitVar(i) = i /\ Signed(i, DecidedValue(circuit, i, a)) = DecidedValue(circuit, i, a)
      BY <1>2 DEF LitVar, Signed
    <2> QED
      BY <2>1 DEF InputFor, ForPlayer
  <1>6. DecidedValue(circuit, i, a) # 1
    <2>1. DecidedValue(circuit, i, a) = FromInputs(circuit, i, a, InputsDecided(circuit, i, a))
      BY <1>2, DecidedNode DEF Static
    <2>2. DecidedValue(circuit, i, a) = IF i \in a THEN 1 ELSE IF -i \in a THEN -1 ELSE 0
      BY <1>2, <2>1, FromInputsCases DEF IsVar
    <2> QED
      BY <2>2
  <1> QED
    BY <1>3, <1>4, <1>5, <1>6 DEF Secured, Counted

\* If the matrix is true, then it is not yet lost for the control; if it is false, then not for
\* the environment.
MatrixFor(q, a, x) == IF q = "exists" THEN Matrix(a, x) ELSE ~Matrix(a, x)
LEMMA MatrixNotLost ==
  ASSUME Static, GameStatic, NEW a \in Assignments(Own(Universal)),
         NEW x \in Assignments(Own(Existential)), NEW q \in Players, MatrixFor(q, a, x)
  PROVE  /\ DecidedFor(circuit, q, circuit.output, a \cup x) # -1
         /\ DecidedFor(circuit, q, circuit.output, a) # -1
  <1>1. /\ Flat(circuit) /\ Scopes(circuit) = {1, 2, 3} /\ circuit.output \in Nodes(circuit)
        /\ OuterVars(circuit, 4) = Own(Universal) \cup Own(Existential)
        /\ Own(Universal) \subseteq Nat \ {0} /\ Own(Existential) \subseteq Nat \ {0}
        /\ Own(Universal) \subseteq Nodes(circuit) /\ Own(Existential) \subseteq Nodes(circuit)
        /\ Own(Universal) \cap Own(Existential) = {}
    BY GameCircuit DEF Flat, TopLevel, Universal, Existential
  <1>2. a \cup x \in Assignments(OuterVars(circuit, 4)) /\ Consistent(a \cup x)
    BY <1>1, JoinedAssignments
  <1>3. a \cup x \subseteq Literals(circuit)
    <2>1. a \subseteq Literals(circuit)
      BY <1>1, AssignedLiterals DEF Static
    <2>2. x \subseteq Literals(circuit)
      BY <1>1, AssignedLiterals DEF Static
    <2> QED
      BY <2>1, <2>2
  <1>4. PICK b : b = a \cup x
    OBVIOUS
  <1>5. \A i \in Nodes(circuit) : DecidedValue(circuit, i, b) # 0
    <2>1. \A i \in Nodes(circuit) : Deepest(circuit, i) < 4
      BY <1>1, FlatDeepest
    <2>2. 4 \in Nat \ {0}
      OBVIOUS
    <2> QED
      BY <1>1, <1>2, <1>4, <2>1, <2>2, DecidedEarly
  <1>6. Shape(circuit) /\ NodeShapes(circuit) /\ NoScopeNodes(circuit)
    BY <1>1 DEF Flat
  <1>7. Matrix(a, x) <=> DecidedValue(circuit, circuit.output, b) = 1
    BY <1>1, <1>3, <1>4, <1>5, <1>6, HoldsIfDecided DEF Matrix
  <1>8. DecidedValue(circuit, circuit.output, b) \in {-1, 1}
    BY <1>1, <1>5, <1>6, DecidedNode DEF Truths
  <1>9. DecidedFor(circuit, q, circuit.output, b) = 1
    BY <1>7, <1>8 DEF MatrixFor, DecidedFor, ForPlayer, Players
  <1>10. DecidedFor(circuit, q, circuit.output, a) # -1
    <2>1. a \subseteq b /\ Consistent(b)
      BY <1>2, <1>4
    <2>2. DecidedFor(circuit, q, circuit.output, a) # 0 =>
            DecidedFor(circuit, q, circuit.output, b) = DecidedFor(circuit, q, circuit.output, a)
      BY <1>1, <1>6, <2>1, DecidedForMore
    <2> QED
      BY <1>9, <2>2
  <1> QED
    BY <1>4, <1>9, <1>10

\* What the two assignments make of the literals of a scope, for one of the players.
InnerModel(q, a, x) == Canonical(circuit, q, Existential, t_lits[Existential], a, x)
OuterModel(q, a) == Canonical(circuit, q, Universal, t_lits[Universal], {}, a)
LEMMA GameMoves ==
  ASSUME Static, GameStatic, NEW a \in Assignments(Own(Universal)),
         NEW x \in Assignments(Own(Existential)), NEW q \in Players
  PROVE  /\ Moves(circuit, Existential, q, t_lits[Existential], a, x)
         /\ Moves(circuit, Universal, q, t_lits[Universal], {}, a)
  <1>1. {} \in Assignments({})
    BY DEF Assignments
  <1> QED
    BY <1>1, GameCircuit DEF Moves, Own

\* They meet the encodings for a player for whom the matrix is right under them.
LEMMA EncodingMet ==
  ASSUME Static, GameStatic, NEW a \in Assignments(Own(Universal)),
         NEW x \in Assignments(Own(Existential)), NEW q \in Players, MatrixFor(q, a, x)
  PROVE  /\ \A cl \in Instance(Existential, q) : cl \cap InnerModel(q, a, x) # {}
         /\ \A cl \in Instance(Universal, q) : cl \cap OuterModel(q, a) # {}
  <1>1. /\ DecidedFor(circuit, q, circuit.output, a \cup x) # -1
        /\ DecidedFor(circuit, q, circuit.output, {} \cup a) # -1
    BY MatrixNotLost
  <1>2. /\ Moves(circuit, Existential, q, t_lits[Existential], a, x)
        /\ Moves(circuit, Universal, q, t_lits[Universal], {}, a)
    BY GameMoves
  <1>3. PICK Inner : Inner = InnerModel(q, a, x)
    OBVIOUS
  <1>4. PICK Outer : Outer = OuterModel(q, a)
    OBVIOUS
  <1>5. Meets(Inner, BuildSatInstance(circuit, Existential, q, b_lits[Existential], t_lits[Existential]))
    BY <1>1, <1>2, <1>3, CanonicalMeets DEF InnerModel
  <1>6. Meets(Outer, BuildSatInstance(circuit, Universal, q, b_lits[Universal], t_lits[Universal]))
    BY <1>1, <1>2, <1>4, CanonicalMeets DEF OuterModel
  <1> QED
    BY <1>3, <1>4, <1>5, <1>6 DEF Meets, Instance

\* The literals of the clauses: nodes, t-literals and labels.
Known(l) ==
  \/ l \in ClauseLits(circuit)
  \/ l \in Int /\ 2 * MaxNum(circuit) < Abs(l) /\ Abs(l) < next_lit
LEMMA KnownClauses ==
  ASSUME Static, next_lit \in Nat, 2 * MaxNum(circuit) < next_lit,
         NEW clauses, \A cl \in clauses : \A l \in cl : Known(l)
  PROVE  /\ clauses \in Instances /\ FiniteClauses(clauses)
         /\ \A s \in {Universal, Existential} : \A t \in t_lits[s] : \A cl \in clauses : -t \notin cl
  <1> PICK N : N = MaxNum(circuit)
    OBVIOUS
  <1>1. N \in Nat
    BY Interfaces
  <1>2. \A l : Known(l) => /\ l \in Int \ {0} /\ l \in -next_lit .. next_lit
                           /\ ~(-(2 * N) <= l /\ l < -N)
    <2>1. ASSUME NEW l, l \in ClauseLits(circuit)
          PROVE  /\ l \in Int \ {0} /\ l \in -next_lit .. next_lit
                 /\ ~(-(2 * N) <= l /\ l < -N)
      BY <1>1, <2>1 DEF ClauseLits
    <2>2. ASSUME NEW l, l \in Int /\ 2 * N < Abs(l) /\ Abs(l) < next_lit
          PROVE  /\ l \in Int \ {0} /\ l \in -next_lit .. next_lit
                 /\ ~(-(2 * N) <= l /\ l < -N)
      BY <1>1, <2>2 DEF Abs
    <2> QED
      BY <2>1, <2>2 DEF Known
  <1>3. UNION clauses \subseteq -next_lit .. next_lit /\ UNION clauses \subseteq Int \ {0}
    BY <1>2
  <1>4. IsFiniteSet(UNION clauses)
    <2>1. IsFiniteSet(-next_lit .. next_lit)
      BY FS_Interval
    <2> QED
      BY <1>3, <2>1, FS_Subset
  <1>5. clauses \in Instances
    BY <1>2 DEF Instances
  <1>6. ASSUME NEW s \in {Universal, Existential}, NEW t \in t_lits[s], NEW cl \in clauses
        PROVE  -t \notin cl
    <2>1. t_lits[s] \subseteq {TLit(circuit, i) : i \in Nodes(circuit)}
      BY InterfaceNumbers DEF Static
    <2>2. PICK i \in Nodes(circuit) : t = i + N
      BY <2>1 DEF TLit
    <2>3. i \in 1 .. N
      BY <2>2, Interfaces
    <2>4. -(2 * N) <= -t /\ -t < -N
      BY <1>1, <2>2, <2>3
    <2> QED
      BY <1>2, <2>4
  <1> QED
    BY <1>3, <1>4, <1>5, <1>6 DEF FiniteClauses

-----------------------------------------------------------------------------
(***************************************************************************)
(* What the instances still allow.  A control keeps the play in F if it    *)
(* does what the game does, and the next state is in no excluded cube.     *)
(***************************************************************************)
Keeps(a, x) ==
  Matrix(a, x) /\ \A cube \in excluded : ~({Primed(l) : l \in cube} \subseteq x)
Stays(a) == \E x \in Assignments(Own(Existential)) : Keeps(a, x)

\* A clause is off if it has another label than the one for the current F.
Off(cl) == \E l \in cl : l < -(2 * MaxNum(circuit)) /\ l # -incremental_lit

\* The existential instance allows whatever keeps the play in F, the universal dual instance
\* every position from which that is possible.
AnswersAllowed ==
  \A cl \in sat[Existential] :
    \/ Off(cl)
    \/ \A a \in Assignments(Own(Universal)), x \in Assignments(Own(Existential)) :
         Keeps(a, x) => cl \cap InnerModel("exists", a, x) # {}
StaysAllowed ==
  \A cl \in negation[Universal] :
    \/ Off(cl)
    \/ \A a \in Assignments(Own(Universal)) :
         ErrorLatch.var \notin a /\ Stays(a) => cl \cap OuterModel("exists", a) # {}

\* Literals within bounds.
Bounds ==
  /\ DOMAIN negation = {Universal, Existential}
  /\ \A s \in {Universal, Existential} : \A cl \in sat[s] \cup negation[s] : \A l \in cl : Known(l)
  /\ \A l \in incremental : Label(l)

\* What was proposed, and what is left of it when it was refuted.
Moved == {Signed(value[i], i) : i \in {k \in Own(Universal) : value[k] # 0}}
DualRefutes(v) ==
  ~Satisfiable(negation[Universal],
     {Signed(v[i], i) : i \in {k \in Own(Universal) : v[k] # 0}}
       \cup {incremental_lit} \cup t_lits[Universal])
LostFrom(v) ==
  /\ \A i \in Own(Universal) : /\ v[i] \in {-Universal, 0, Universal}
                               /\ i \notin LatchesOf(Universal) => v[i] # 0
  /\ DualRefutes(v)
Variables == {i \in Nodes(circuit) : IsVar(circuit, i)}
Pending ==
  /\ entry[Universal] = {} /\ value \in [Variables -> Int]
  /\ pc = "inner" => \A i \in Own(Universal) : value[i] \in {-Universal, Universal}
  /\ pc \in {"refuted", "exclude"} => LostFrom(value)

\* From an excluded cube the control cannot stay anywhere.
CanStayIn(safe) == \A s \in safe, u \in Uncontrolled : CanStay(s, u, safe)
Losing(cube) == \A safe \in SUBSET NoError : CanStayIn(safe) => StatesIn(cube) \cap safe = {}
LosingExcluded == \A cube \in excluded : Losing(cube)

GInv ==
  GameStatic /\ AnswersAllowed /\ StaysAllowed /\ Bounds /\ Pending /\ LosingExcluded

\* What is needed to refute a proposal without an answer: wherever the control can stay, one
\* of it is secured by the universal scope.
LEMMA CoreIsSecured ==
  ASSUME Static, GameStatic, Labels, Bounds, AnswersAllowed, pc # "no_fixpoint",
         NEW core, core \subseteq t_lits[Existential],
         NEW on, on \subseteq t_lits[Existential], on \cap core = {},
         ~Satisfiable(sat[Existential], on \cup Opposite(core) \cup {incremental_lit}),
         NEW a \in Assignments(Own(Universal)), Stays(a)
  PROVE  \E t \in core : Secured(circuit, "exists", Existential, TLitToVarId(circuit, t), a)
  <1> PICK x \in Assignments(Own(Existential)) : Keeps(a, x)
    BY DEF Stays
  <1> PICK T : T = t_lits[Existential]
    OBVIOUS
  <1> PICK M : M = InnerModel("exists", a, x)
    OBVIOUS
  <1> PICK clauses : clauses = sat[Existential]
    OBVIOUS
  <1> PICK labels : labels = {incremental_lit}
    OBVIOUS
  <1> PICK failed : failed = Opposite(core)
    OBVIOUS
  <1> PICK N : N = MaxNum(circuit)
    OBVIOUS
  <1>1. Moves(circuit, Existential, "exists", T, a, x) /\ M = Canonical(circuit, "exists", Existential, T, a, x)
    BY GameMoves DEF Players, InnerModel
  <1>2. /\ N \in Nat /\ incremental_lit \in Nat /\ 2 * N < incremental_lit
        /\ next_lit \in Nat /\ 2 * N < next_lit
    BY Interfaces DEF Labels, Label
  <1>3. /\ clauses \in Instances /\ FiniteClauses(clauses)
        /\ \A t \in T : \A cl \in clauses : -t \notin cl
    BY <1>2, KnownClauses DEF Bounds
  <1>4. \A t \in T : /\ t = TLit(circuit, TLitToVarId(circuit, t)) /\ t \in Nat
                     /\ TLitToVarId(circuit, t) \in Gates(circuit)
    BY GameCircuit, Interfaces
  <1>5. \A cl \in clauses : \/ \E l \in cl : l < -(2 * N) /\ -l \notin labels
                            \/ cl \cap labels # {} \/ cl \cap M # {}
    <2>1. ASSUME NEW cl \in clauses, NEW l \in cl, l < -(2 * N), l # -incremental_lit
          PROVE  -l \notin labels
      <3>1. l \in Int
        BY <1>3, <2>1 DEF Instances
      <3> QED
        BY <1>2, <2>1, <3>1
    <2> QED
      BY <2>1 DEF AnswersAllowed, Off, Keeps
  <1>6. /\ \A l \in labels : l \in Nat /\ l > 2 * N
        /\ NoOpposites({}) /\ failed \subseteq Opposite(T) /\ failed \cap Opposite(on) = {}
    <2>1. failed \subseteq Opposite(T)
      BY DEF Opposite
    <2>2. failed \cap Opposite(on) = {}
      <3>1. \A t \in core : t \in Int
        BY <1>4
      <3>2. \A t \in on : t \in Int
        BY <1>4
      <3> QED
        BY <3>1, <3>2 DEF Opposite
    <2> QED
      BY <1>2, <2>1, <2>2 DEF NoOpposites, Opposite
  <1>7. \E asked \in SUBSET labels : ~Satisfiable(clauses, {} \cup on \cup failed \cup asked)
    <2>1. {} \cup on \cup failed \cup labels = on \cup Opposite(core) \cup {incremental_lit}
      OBVIOUS
    <2> QED
      BY <2>1
  <1>8. \A t \in T : (\E i \in Gates(circuit) : t = TLit(circuit, i)) /\ \A cl \in clauses : -t \notin cl
    BY <1>3, <1>4
  <1>9. \E t \in Opposite(failed) : t \in T /\ Secured(circuit, "exists", Existential, TLitToVarId(circuit, t), a)
    <2>1. Refutation(circuit, Existential, "exists", T, a, x, clauses, labels, {}, on, failed)
      BY <1>1, <1>3, <1>5, <1>6, <1>7, <1>8 DEF Refutation
    <2> QED
      BY <2>1, LabelledSays
  <1>10. Opposite(failed) \subseteq core
    <2>1. \A t \in core : -(-t) = t
      BY <1>4
    <2> QED
      BY <2>1 DEF Opposite
  <1> QED
    BY <1>9, <1>10

\* What the next scope has secured of some t-literals is met by their translation.
LEMMA HandedOver ==
  ASSUME Static, GameStatic, NEW q \in Players, NEW E, E \subseteq t_lits[Existential],
         NEW a \in Assignments(Own(Universal)),
         NEW t \in E, Secured(circuit, q, Existential, TLitToVarId(circuit, t), a)
  PROVE  Translated(circuit, b_lits[Universal], E) \cap OuterModel(q, a) # {}
  <1> PICK i : i = TLitToVarId(circuit, t)
    OBVIOUS
  <1> PICK B : B = b_lits[Universal]
    OBVIOUS
  <1> PICK T : T = t_lits[Universal]
    OBVIOUS
  <1> PICK M : M = OuterModel(q, a)
    OBVIOUS
  <1>1. /\ Moves(circuit, Universal, q, T, {}, a)
        /\ M = Canonical(circuit, q, Universal, T, {}, a)
    <2>1. Assignments(Own(Existential)) # {}
      BY AssignmentsExist
    <2> QED
      BY <2>1, GameMoves DEF OuterModel
  <1>2. i \in Gates(circuit) /\ t = TLit(circuit, i)
    BY GameCircuit
  <1>3. i \notin B => t \in T /\ PassedOn(circuit, Universal, i)
    <2>1. /\ Flat(circuit) /\ Universal \in Scopes(circuit) /\ Universal + 1 \in Scopes(circuit)
          /\ t \in TLits(circuit, Universal + 1) /\ B = BLits(circuit, Universal)
          /\ T = TLits(circuit, Universal)
      BY GameCircuit DEF Universal, Existential, Static
    <2> QED
      BY <2>1, FlatPassesOn
  <1>4. Secured(circuit, q, Universal + 1, i, {} \cup a)
    <2>1. Universal + 1 = Existential
      BY DEF Universal, Existential
    <2> QED
      BY <2>1
  <1> QED
    BY <1>1, <1>2, <1>3, <1>4, TranslatedMet

\* So the clause that the universal dual instance learns from it is met there.
LEMMA CoreClauseMet ==
  ASSUME Static, GameStatic, NEW core, core \subseteq t_lits[Existential],
         NEW a \in Assignments(Own(Universal)),
         NEW t \in core, Secured(circuit, "exists", Existential, TLitToVarId(circuit, t), a)
  PROVE  DualClause(core) \cap OuterModel("exists", a) # {}
  <1>1. Translated(circuit, b_lits[Universal], core) \cap OuterModel("exists", a) # {}
    BY HandedOver DEF Players
  <1>2. Translated(circuit, b_lits[Universal], core) \subseteq DualClause(core)
    BY DEF Translated, DualClause
  <1> QED
    BY <1>1, <1>2

\* What minimize_by_dropping_literals leaves of the failed t-literals is all of them, or it
\* was refuted again.
LEMMA MinimizedIsRefuted ==
  ASSUME MaxNum(circuit) \in Nat, NEW e
  PROVE  /\ MinimizedFailed(e) \subseteq e
         /\ MinimizedFailed(e) = e \/ StillUnsat(MinimizedFailed(e))
  <1> DEFINE S == {x \in SUBSET e : x = e \/ StillUnsat(x)}
             step == [t \in Nat |-> [x \in S |-> WithoutIdle(x, t)]]
             Up(g) == [t \in Nat |-> IF t = 0 THEN e ELSE WithoutIdle(g[t - 1], t)]
             upto == CHOOSE g : g = Up(g)
             last == 2 * MaxNum(circuit)
  <1>1. e \in S
    OBVIOUS
  <1>2. ASSUME NEW x \in S, NEW t \in Nat
        PROVE  WithoutIdle(x, t) \in S
    BY DEF WithoutIdle
  <1>3. step \in [Nat -> [S -> S]]
    BY <1>2
  <1>4. \A x \in S, t \in Nat : step[t][x] = WithoutIdle(x, t)
    OBVIOUS
  <1>5. last \in Nat
    OBVIOUS
  <1>6. MinimizedFailed(e) = upto[last]
    BY DEF MinimizedFailed
  <1> HIDE DEF step, last
  <1>7. PICK h : Iterates(h, S, e, step)
    <2> HIDE DEF S
    <2> QED
      BY <1>1, <1>3, PrimitiveRecursion
  <1> HIDE DEF S
  <1>8. h = Up(h)
    <2>1. ASSUME NEW t \in Nat, t # 0
          PROVE  h[t] = WithoutIdle(h[t - 1], t)
      <3>1. t - 1 \in Nat /\ (t - 1) + 1 = t
        BY <2>1
      <3>2. h[t - 1] \in S /\ h[(t - 1) + 1] = step[(t - 1) + 1][h[t - 1]]
        BY <1>7, <3>1 DEF Iterates
      <3> QED
        BY <1>4, <3>1, <3>2
    <2>2. h \in [Nat -> S] /\ h[0] = e
      BY <1>7 DEF Iterates
    <2> QED
      BY <2>1, <2>2
  <1>9. upto = Up(upto)
    BY <1>8
  <1> HIDE DEF upto
  <1>10. ASSUME NEW t \in Nat
         PROVE  upto[t] \in S
    <2> DEFINE T == {k \in Nat : upto[k] \in S}
    <2>1. 0 \in T
      BY <1>1, <1>9
    <2>2. ASSUME NEW k \in Nat, k \in T
          PROVE  k + 1 \in T
      <3>1. k + 1 \in Nat /\ k + 1 # 0 /\ (k + 1) - 1 = k
        OBVIOUS
      <3>2. upto[k + 1] = WithoutIdle(upto[k], k + 1)
        BY <1>9, <3>1
      <3> QED
        BY <1>2, <2>2, <3>1, <3>2
    <2>3. \A k \in Nat : k \in T
      <3> HIDE DEF T
      <3> QED
        BY <2>1, <2>2, Induction
    <2> QED
      BY <2>3
  <1> QED
    BY <1>5, <1>6, <1>10 DEF S

\* With nothing left to the universal scope, its dual instance is asked with all t-literals on.
LEMMA AllTOn ==
  ASSUME Static
  PROVE  AssumedTDual(Universal, {}) = t_lits[Universal] /\ Negative(t_lits[Universal]) = {}
  <1>1. \A t \in t_lits[Universal] : t \in Nat /\ -(-t) = t
    BY Interfaces
  <1> QED
    BY <1>1 DEF AssumedTDual, AssumedT, Opposite, Negative

\* Dropping latches from the cube keeps it refuted, and drops nothing else.
LEMMA DroppedVariable ==
  ASSUME NEW D, NEW v \in [D -> Int], NEW i
  PROVE  [v EXCEPT ![i] = 0] \in [D -> Int]
  <1>1. \A k \in D : [v EXCEPT ![i] = 0][k] \in Int
    OBVIOUS
  <1>2. [v EXCEPT ![i] = 0] = [k \in D |-> [v EXCEPT ![i] = 0][k]]
    OBVIOUS
  <1> QED
    BY <1>1, <1>2

\* Minimisation keeps that the cube is refuted, and tries the error latch as well.
LEMMA MinimizedCubeIsLost ==
  ASSUME Static, GameStatic, Pending, LostFrom(value)
  PROVE  /\ MinimizedCube \in [Variables -> Int] /\ LostFrom(MinimizedCube)
         /\ \E v \in [Variables -> Int] : LostFrom(v) /\ MinimizedCube = WithoutLatch(v, ErrorLatch.var)
  <1> DEFINE S == [Variables -> Int]
             step == [n \in Nat |-> [v \in S |-> WithoutLatch(v, latches[n].var)]]
             Up(g) == [n \in Nat |-> IF n = 0 THEN value
                                     ELSE WithoutLatch(g[n - 1], latches[n].var)]
             upto == CHOOSE g : g = Up(g)
             last == Len(latches)
  <1>1. value \in S
    BY DEF Pending
  <1>2. ASSUME NEW v \in S, NEW i
        PROVE  WithoutLatch(v, i) \in S
    <2>1. [v EXCEPT ![i] = 0] \in S
      BY DroppedVariable
    <2> HIDE DEF S
    <2> QED
      BY <2>1, Zenon DEF WithoutLatch
  <1>3. ASSUME NEW v \in S, LostFrom(v), NEW n \in DOMAIN latches
        PROVE  LostFrom(WithoutLatch(v, latches[n].var))
    <2> PICK i : i = latches[n].var
      OBVIOUS
    <2>1. i \in LatchesOf(Universal) /\ i \in Own(Universal)
      BY GameNodes DEF LatchesOf
    <2> SUFFICES ASSUME v[i] # 0, Refutes(v, i)
                 PROVE  LostFrom([v EXCEPT ![i] = 0])
      BY <1>3 DEF WithoutLatch
    <2> PICK w : w = [v EXCEPT ![i] = 0]
      OBVIOUS
    <2>2. \A k \in Own(Universal) : w[k] = IF k = i THEN 0 ELSE v[k]
      BY DEF Own, ScopeVars, Variables
    <2>3. {Signed(w[k], k) : k \in {j \in Own(Universal) : w[j] # 0}}
            = {Signed(v[k], k) : k \in {j \in Own(Universal) \ {i} : v[j] # 0}}
      BY <2>2
    <2>4. DualRefutes(w)
      BY <2>3, AllTOn DEF DualRefutes, Refutes, Pending
    <2>5. \A k \in Own(Universal) : /\ w[k] \in {-Universal, 0, Universal}
                                    /\ k \notin LatchesOf(Universal) => w[k] # 0
      BY <1>3, <2>1, <2>2 DEF LostFrom
    <2> QED
      BY <2>4, <2>5 DEF LostFrom
  <1>4. step \in [Nat -> [S -> S]]
    BY <1>2
  <1>5. \A v \in S, n \in Nat : step[n][v] = WithoutLatch(v, latches[n].var)
    OBVIOUS
  <1>6. MinimizedCube = upto[last] /\ last \in Nat /\ DOMAIN latches = 1 .. last
    <2>1. DOMAIN latches = 1 .. last /\ last \in Nat
      <3>1. PICK q \in Queries : latches = q.latches
        BY DEF GameStatic
      <3>2. PICK R : R = [var : Nodes(q.circuit), primed : Nodes(q.circuit)]
        OBVIOUS
      <3>3. latches \in Seq(R)
        BY <3>1, <3>2, QueriesWellFormed DEF IsQuery
      <3> QED
        BY <3>3
    <2> QED
      BY <2>1 DEF MinimizedCube
  <1> HIDE DEF step, last
  <1>7. PICK h : Iterates(h, S, value, step)
    <2> HIDE DEF S
    <2> QED
      BY <1>1, <1>4, PrimitiveRecursion
  <1> HIDE DEF S
  <1>8. h = Up(h)
    <2>1. ASSUME NEW n \in Nat, n # 0
          PROVE  h[n] = WithoutLatch(h[n - 1], latches[n].var)
      <3>1. n - 1 \in Nat /\ (n - 1) + 1 = n
        BY <2>1
      <3>2. h[n - 1] \in S /\ h[(n - 1) + 1] = step[(n - 1) + 1][h[n - 1]]
        BY <1>7, <3>1 DEF Iterates
      <3> QED
        BY <1>5, <3>1, <3>2
    <2>2. h \in [Nat -> S] /\ h[0] = value
      BY <1>7 DEF Iterates
    <2> QED
      BY <2>1, <2>2
  <1>9. upto = Up(upto)
    BY <1>8
  <1> HIDE DEF upto
  <1>10. \A n \in Nat : n <= last => upto[n] \in S /\ LostFrom(upto[n])
    <2> DEFINE T == {n \in Nat : n <= last => upto[n] \in S /\ LostFrom(upto[n])}
    <2>1. 0 \in T
      BY <1>1, <1>9
    <2>2. ASSUME NEW k \in Nat, k \in T
          PROVE  k + 1 \in T
      <3> SUFFICES ASSUME k + 1 <= last
                   PROVE  upto[k + 1] \in S /\ LostFrom(upto[k + 1])
        OBVIOUS
      <3>1. k + 1 \in Nat /\ k + 1 # 0 /\ (k + 1) - 1 = k /\ k <= last /\ k + 1 \in 1 .. last
        BY <1>6
      <3>2. upto[k + 1] = WithoutLatch(upto[k], latches[k + 1].var)
        BY <1>9, <3>1
      <3>3. upto[k] \in S /\ LostFrom(upto[k])
        BY <2>2, <3>1
      <3>4. PICK v : v = upto[k]
        OBVIOUS
      <3>5. PICK n : n = k + 1
        OBVIOUS
      <3>6. n \in DOMAIN latches
        BY <1>6, <3>1, <3>5
      <3>7. WithoutLatch(v, latches[n].var) \in S /\ LostFrom(WithoutLatch(v, latches[n].var))
        BY <1>2, <1>3, <3>3, <3>4, <3>6
      <3> QED
        BY <3>2, <3>4, <3>5, <3>7
    <2>3. \A k \in Nat : k \in T
      <3> HIDE DEF T
      <3> QED
        BY <2>1, <2>2, Induction
    <2> QED
      BY <2>3
  <1>11. /\ upto[last - 1] \in S /\ LostFrom(upto[last - 1])
         /\ upto[last] = WithoutLatch(upto[last - 1], ErrorLatch.var)
    <2>1. last \in DOMAIN latches /\ latches[last] = ErrorLatch
      BY GameNodes DEF last, ErrorLatch
    <2>2. last # 0 /\ last - 1 \in Nat /\ last - 1 <= last
      BY <1>6, <2>1
    <2> QED
      BY <1>6, <1>9, <1>10, <2>1, <2>2
  <1> QED
    BY <1>6, <1>10, <1>11 DEF S

\* The next value of a latch has the literal that stands for the latch in the other scope.
LEMMA PrimedLatch ==
  ASSUME Static, GameStatic, NEW i \in DOMAIN latches
  PROVE  /\ Primed(latches[i].var) = latches[i].primed
         /\ Primed(-latches[i].var) = -latches[i].primed
  <1> PICK v : v = latches[i].var
    OBVIOUS
  <1>1. v \in Nat \ {0}
    BY GameNodes, GameCircuit
  <1>2. Abs(v) = v /\ Abs(-v) = v /\ -v < 0 /\ ~(v < 0)
    BY <1>1 DEF Abs
  <1>3. (CHOOSE j \in DOMAIN latches : latches[j].var = v) = i
    BY GameNodes
  <1> QED
    BY <1>2, <1>3 DEF Primed, Signed

\* A state outside an excluded cube is not what the primed cube says.
LEMMA OutsideCube ==
  ASSUME Static, GameStatic, NEW s \in States(game), NEW k \in InputValues(game, TRUE),
         NEW cube, s \notin StatesIn(cube)
  PROVE  ~({Primed(l) : l \in cube} \subseteq Move(s, k))
  <1> PICK i \in DOMAIN latches : \/ latches[i].var \in cube /\ ~s[i]
                                  \/ -latches[i].var \in cube /\ s[i]
    BY DEF StatesIn
  <1> PICK p : p = latches[i].primed
    OBVIOUS
  <1>1. (IF s[i] THEN p ELSE -p) \in Move(s, k)
    BY DEF Move, NextLits, game
  <1>2. p \in Nat \ {0}
    BY GameNodes, GameCircuit
  <1>3. \A l \in Move(s, k) : -l \notin Move(s, k)
    <2>1. Move(s, k) \in Assignments(Own(Existential)) /\ Own(Existential) \subseteq Nat \ {0}
      BY Positions, GameCircuit
    <2> QED
      BY <2>1, IsAssignment
  <1>4. CASE latches[i].var \in cube /\ ~s[i]
    <2>1. p \in {Primed(l) : l \in cube}
      BY <1>4, PrimedLatch
    <2>2. -p \in Move(s, k) /\ -(-p) = p
      BY <1>1, <1>2, <1>4
    <2> QED
      BY <1>3, <2>1, <2>2
  <1>5. CASE -latches[i].var \in cube /\ s[i]
    <2>1. -p \in {Primed(l) : l \in cube}
      BY <1>5, PrimedLatch
    <2>2. p \in Move(s, k)
      BY <1>1, <1>5
    <2> QED
      BY <1>3, <2>1, <2>2
  <1> QED
    BY <1>4, <1>5

\* Where the control can stay without meeting an excluded cube, the matrix is true.
LEMMA StayingKeeps ==
  ASSUME Static, GameStatic, LosingExcluded, NEW safe \in SUBSET NoError, CanStayIn(safe),
         NEW s \in safe, NEW u \in Uncontrolled
  PROVE  /\ Position(s, u) \in Assignments(Own(Universal)) /\ ErrorLatch.var \notin Position(s, u)
         /\ Stays(Position(s, u))
  <1>1. s \in States(game) /\ ~s[Len(latches)]
    BY DEF NoError
  <1>2. Position(s, u) \in Assignments(Own(Universal))
    BY <1>1, Positions
  <1>3. ErrorLatch.var \notin Position(s, u)
    <2>1. Len(latches) \in DOMAIN latches
      BY GameNodes
    <2>2. -ErrorLatch.var \in Position(s, u)
      BY <1>1, <2>1 DEF Position, StateLits, game, ErrorLatch
    <2> QED
      BY <1>2, <2>2, GameCircuit, IsAssignment
  <1>4. PICK k \in InputValues(game, TRUE) : Step(game, s, u @@ k) \in safe
    BY DEF CanStayIn, CanStay
  <1> PICK next : next = Step(game, s, u @@ k)
    OBVIOUS
  <1>5. next \in safe /\ next \in States(game) /\ ~next[Len(latches)]
    BY <1>4 DEF NoError
  <1>6. Matrix(Position(s, u), Move(next, k))
    BY <1>1, <1>5, MatrixIsGame
  <1>7. \A cube \in excluded : ~({Primed(l) : l \in cube} \subseteq Move(next, k))
    <2>1. \A cube \in excluded : next \notin StatesIn(cube)
      BY <1>5 DEF LosingExcluded, Losing
    <2> QED
      BY <1>5, <2>1, OutsideCube
  <1>8. Move(next, k) \in Assignments(Own(Existential))
    BY <1>5, Positions
  <1> QED
    BY <1>2, <1>3, <1>6, <1>7, <1>8 DEF Stays, Keeps

\* A cube that the universal dual instance refutes is losing: a state in it with the inputs
\* of the proposal is none where the control can stay.
LEMMA RefutedIsLosing ==
  ASSUME Static, GameStatic, Labels, Bounds, StaysAllowed, LosingExcluded, Pending,
         LostFrom(value), pc # "no_fixpoint"
  PROVE  Losing(Cube(Universal))
  <1> SUFFICES ASSUME NEW safe \in SUBSET NoError, CanStayIn(safe),
                      NEW s \in StatesIn(Cube(Universal)), s \in safe
               PROVE  FALSE
    BY DEF Losing
  <1> DEFINE u == [i \in Controlled(game, FALSE) |-> inputs[i] \in {k \in Own(Universal) : value[k] > 0}]
  <1> PICK a : a = Position(s, u)
    OBVIOUS
  <1>1. u \in Uncontrolled
    BY DEF Uncontrolled, InputValues
  <1>2. a \in Assignments(Own(Universal)) /\ ErrorLatch.var \notin a /\ Stays(a)
    BY <1>1, StayingKeeps
  <1>3. Moved \subseteq a
    <2> SUFFICES ASSUME NEW k \in Own(Universal), value[k] # 0
                 PROVE  Signed(value[k], k) \in a
      BY DEF Moved
    <2>1. value[k] \in {-2, 2}
      BY DEF LostFrom, Universal
    <2>2. CASE \E i \in DOMAIN latches : k = latches[i].var
      <3>1. PICK i \in DOMAIN latches : k = latches[i].var
        BY <2>2
      <3>2. Signed(value[k], k) \in Cube(Universal)
        BY <3>1 DEF Cube, LatchesOf
      <3>3. IF value[k] < 0 THEN ~s[i] ELSE s[i]
        <4>1. Signed(value[k], k) = IF value[k] < 0 THEN -latches[i].var ELSE latches[i].var
          BY <3>1 DEF Signed
        <4> QED
          BY <3>2, <4>1 DEF StatesIn
      <3>4. (IF s[i] THEN k ELSE -k) \in StateLits(game, s)
        BY <3>1 DEF StateLits, game
      <3> QED
        BY <3>3, <3>4 DEF Position, Signed
    <2>3. CASE k \in InputNodes(game, FALSE)
      <3>1. PICK i \in Controlled(game, FALSE) : k = inputs[i] /\ inputs[i] # 0
        BY <2>3 DEF InputNodes, game
      <3>2. (IF u[i] THEN k ELSE -k) \in InputLits(game, u)
        BY <3>1 DEF InputLits, game
      <3>3. u[i] <=> value[k] > 0
        BY <3>1
      <3> HIDE DEF u
      <3> QED
        BY <2>1, <3>2, <3>3 DEF Position, Signed
    <2>4. k \in {latches[i].var : i \in DOMAIN latches} \/ k \in InputNodes(game, FALSE)
      BY GameNodes, Zenon
    <2> QED
      BY <2>2, <2>3, <2>4
  <1> HIDE DEF u
  <1> PICK T : T = t_lits[Universal]
    OBVIOUS
  <1> PICK M : M = OuterModel("exists", a)
    OBVIOUS
  <1> PICK clauses : clauses = negation[Universal]
    OBVIOUS
  <1> PICK labels : labels = {incremental_lit}
    OBVIOUS
  <1> PICK N : N = MaxNum(circuit)
    OBVIOUS
  <1>4. /\ Moves(circuit, Universal, "exists", T, {}, a)
        /\ M = Canonical(circuit, "exists", Universal, T, {}, a)
    <2>1. Assignments(Own(Existential)) # {}
      BY AssignmentsExist
    <2> QED
      BY <1>2, <2>1, GameMoves DEF Players, OuterModel
  <1>5. /\ N \in Nat /\ incremental_lit \in Nat /\ 2 * N < incremental_lit
        /\ next_lit \in Nat /\ 2 * N < next_lit
    BY Interfaces DEF Labels, Label
  <1>6. /\ clauses \in Instances /\ FiniteClauses(clauses)
        /\ \A t \in T : \A cl \in clauses : -t \notin cl
    BY <1>5, KnownClauses DEF Bounds
  <1>7. \A t \in T : (\E i \in Gates(circuit) : t = TLit(circuit, i)) /\ \A cl \in clauses : -t \notin cl
    BY <1>6, GameCircuit
  <1>8. \A cl \in clauses : \/ \E l \in cl : l < -(2 * N) /\ -l \notin labels
                            \/ cl \cap labels # {} \/ cl \cap M # {}
    <2>1. ASSUME NEW cl \in clauses, NEW l \in cl, l < -(2 * N), l # -incremental_lit
          PROVE  -l \notin labels
      <3>1. l \in Int
        BY <1>6, <2>1 DEF Instances
      <3> QED
        BY <1>5, <2>1, <3>1
    <2> QED
      BY <1>2, <2>1 DEF StaysAllowed, Off
  <1>9. /\ NoOpposites(Moved)
        /\ \A l \in Moved : LitVar(l) <= N /\ l \in a
    <2>1. \A l \in a : l \in Int /\ -l \notin a /\ LitVar(l) \in Own(Universal)
      BY <1>2, GameCircuit, IsAssignment
    <2>2. \A k \in Own(Universal) : k <= N
      BY GameCircuit, Interfaces
    <2> QED
      BY <1>3, <2>1, <2>2 DEF NoOpposites, Opposite
  <1>10. \E asked \in SUBSET labels : ~Satisfiable(clauses, Moved \cup T \cup {} \cup asked)
    <2>1. Moved \cup T \cup {} \cup labels = Moved \cup {incremental_lit} \cup t_lits[Universal]
      OBVIOUS
    <2> QED
      BY <2>1 DEF LostFrom, DualRefutes, Moved
  <1>11. /\ \A l \in labels : l \in Nat /\ l > 2 * N
         /\ {} \subseteq Opposite(T) /\ {} \cap Opposite(T) = {} /\ Opposite({}) = {}
    BY <1>5 DEF Opposite
  <1>12. \E t \in Opposite({}) : t \in T /\ Secured(circuit, "exists", Universal, TLitToVarId(circuit, t), {})
    <2>1. Refutation(circuit, Universal, "exists", T, {}, a, clauses, labels, Moved, T, {})
      BY <1>4, <1>6, <1>7, <1>8, <1>9, <1>10, <1>11 DEF Refutation
    <2> QED
      BY <2>1, LabelledSays
  <1> QED
    BY <1>11, <1>12

-----------------------------------------------------------------------------
(***************************************************************************)
(* The steps.                                                              *)
(***************************************************************************)
\* Nodes, interface literals and labels may be in clauses.
LEMMA KnownLiterals ==
  ASSUME Static
  PROVE  /\ \A i \in Nodes(circuit) : Known(i) /\ Known(-i)
         /\ \A s \in {Universal, Existential} : /\ \A t \in t_lits[s] : Known(t)
                                                /\ \A b \in b_lits[s] : Known(b)
         /\ \A l : Label(l) => Known(l) /\ Known(-l)
  <1> PICK N : N = MaxNum(circuit)
    OBVIOUS
  <1>1. N \in Nat /\ Nodes(circuit) = 1 .. N
    BY Interfaces
  <1>2. \A l \in Int : l # 0 /\ -N <= l /\ l <= 2 * N => Known(l)
    BY DEF Known, ClauseLits
  <1>3. \A i \in Nodes(circuit) : Known(i) /\ Known(-i)
    BY <1>1, <1>2
  <1>4. ASSUME NEW s \in {Universal, Existential}
        PROVE  /\ \A t \in t_lits[s] : Known(t)
               /\ \A b \in b_lits[s] : Known(b)
    <2>1. \A t \in t_lits[s] : \E i \in Nodes(circuit) : t = i + N
      BY InterfaceNumbers DEF Static, TLit
    <2>2. \A t \in t_lits[s] : Known(t)
      BY <1>1, <1>2, <2>1
    <2> QED
      BY <1>3, <2>2, Interfaces
  <1>5. ASSUME NEW l, Label(l)
        PROVE  Known(l) /\ Known(-l)
    <2>1. l \in Nat /\ 2 * N < l /\ l < next_lit
      BY <1>5 DEF Label
    <2>2. l \in Int /\ -l \in Int /\ Abs(l) = l /\ Abs(-l) = l
      BY <1>1, <2>1 DEF Abs
    <2> QED
      BY <2>1, <2>2 DEF Known
  <1> QED
    BY <1>3, <1>4, <1>5

\* The game does not change, nor what assignments say about it.
LEMMA SameGame ==
  ASSUME UNCHANGED config
  PROVE  /\ GameStatic' <=> GameStatic
         /\ Own(Universal)' = Own(Universal) /\ Own(Existential)' = Own(Existential)
         /\ LatchesOf(Universal)' = LatchesOf(Universal)
         /\ ErrorLatch' = ErrorLatch /\ Variables' = Variables /\ MaxNum(circuit)' = MaxNum(circuit)
         /\ \A q, a : OuterModel(q, a)' = OuterModel(q, a)
         /\ \A q, a, x : InnerModel(q, a, x)' = InnerModel(q, a, x)
         /\ \A a, x : Matrix(a, x)' <=> Matrix(a, x)
         /\ \A l : Primed(l)' = Primed(l)
         /\ \A cube : Losing(cube)' <=> Losing(cube)
  <1>1. UNCHANGED <<aiger, circuit, inputs, latches, t_lits>>
    BY DEF config
  <1>2. game' = game
    BY <1>1 DEF game
  <1>3. GameStatic' <=> GameStatic
    BY <1>1 DEF GameStatic
  <1>4. /\ \A s : Own(s)' = Own(s)
        /\ ErrorLatch' = ErrorLatch /\ Variables' = Variables /\ MaxNum(circuit)' = MaxNum(circuit)
    BY <1>1 DEF Own, ErrorLatch, Variables
  <1>5. LatchesOf(Universal)' = LatchesOf(Universal)
    BY <1>1, <1>4 DEF LatchesOf
  <1>6. /\ \A q, a : OuterModel(q, a)' = OuterModel(q, a)
        /\ \A q, a, x : InnerModel(q, a, x)' = InnerModel(q, a, x)
        /\ \A a, x : Matrix(a, x)' <=> Matrix(a, x)
    BY <1>1 DEF OuterModel, InnerModel, Matrix
  <1>7. \A l : Primed(l)' = Primed(l)
    BY <1>1 DEF Primed
  <1>8. NoError' = NoError /\ Uncontrolled' = Uncontrolled
        /\ \A cube : StatesIn(cube)' = StatesIn(cube)
    BY <1>1, <1>2 DEF NoError, Uncontrolled, StatesIn
  <1>9. \A s, u, safe : CanStay(s, u, safe)' <=> CanStay(s, u, safe)
    BY <1>2 DEF CanStay
  <1>10. \A safe : CanStayIn(safe)' <=> CanStayIn(safe)
    BY <1>8, <1>9 DEF CanStayIn
  <1>11. \A cube : Losing(cube)' <=> Losing(cube)
    BY <1>8, <1>10 DEF Losing
  <1> QED
    BY <1>3, <1>4, <1>5, <1>6, <1>7, <1>11

\* While nothing is excluded, what the control can do stays the same.
LEMMA SameStays ==
  ASSUME UNCHANGED <<config, excluded>>
  PROVE  /\ \A a, x : Keeps(a, x)' <=> Keeps(a, x)
         /\ \A a : Stays(a)' <=> Stays(a)
  <1>1. \A a, x : Keeps(a, x)' <=> Keeps(a, x)
    BY SameGame DEF Keeps
  <1> QED
    BY <1>1, SameGame DEF Stays

\* Steps that leave the instances alone leave alone what they allow.
LEMMA SameInstances ==
  ASSUME GInv, UNCHANGED <<config, sat, negation, incremental_lit, next_lit, incremental, excluded>>
  PROVE  GameStatic' /\ AnswersAllowed' /\ StaysAllowed' /\ Bounds' /\ LosingExcluded'
  <1>1. UNCHANGED <<config, excluded>> /\ UNCHANGED config
    OBVIOUS
  <1>2. \A cl : Off(cl)' <=> Off(cl)
    BY <1>1, SameGame DEF Off
  <1>3. AnswersAllowed' /\ StaysAllowed'
    BY <1>1, <1>2, SameGame, SameStays DEF GInv, AnswersAllowed, StaysAllowed
  <1>4. (\A l : Known(l)' <=> Known(l)) /\ \A l : Label(l)' <=> Label(l)
    BY DEF Known, Label, config
  <1>5. Bounds'
    BY <1>4 DEF GInv, Bounds
  <1> QED
    BY <1>1, <1>3, <1>5, SameGame DEF GInv, LosingExcluded

\* The clause for F in the universal dual instance is met while the error is not raised.
LEMMA PushedMet ==
  ASSUME Static, GameStatic, NEW a \in Assignments(Own(Universal)), ErrorLatch.var \notin a
  PROVE  -F \in OuterModel("exists", a)
  <1> PICK T : T = t_lits[Universal]
    OBVIOUS
  <1> PICK M : M = OuterModel("exists", a)
    OBVIOUS
  <1>1. /\ Moves(circuit, Universal, "exists", T, {}, a)
        /\ M = Canonical(circuit, "exists", Universal, T, {}, a)
    <2>1. Assignments(Own(Existential)) # {}
      BY AssignmentsExist
    <2> QED
      BY <2>1, GameMoves DEF Players, OuterModel
  <1>2. Says(circuit, Universal, "exists", T, {}, a, M)
    BY <1>1, CanonicalLits
  <1>3. F \in Gates(circuit)
    BY ErrorGates DEF Gates, IsGate
  <1>4. ~Secured(circuit, "exists", Universal + 1, F, {} \cup a)
    <2>1. Universal + 1 = Existential
      BY DEF Universal, Existential
    <2> QED
      BY <2>1, NotRaised
  <1> QED
    BY <1>2, <1>3, <1>4 DEF Says

\* At the start nothing is excluded, and the instances are the encodings.
LEMMA GInit ==
  ASSUME Init
  PROVE  GInv
  <1>1. FInv
    BY InitInv
  <1>2. Static /\ GameStatic
    BY <1>1 DEF FInv, Init, GameStatic
  <1>3. /\ sat[Existential] = Instance(Existential, "exists")
        /\ negation[Universal] = Instance(Universal, "exists")
                                   \cup {PushedClause(Universal, incremental_lit, {})}
    <2>1. circuit.scope[Universal].qtype = "forall" /\ circuit.scope[Existential].qtype = "exists"
      BY <1>2, GameCircuit
    <2> QED
      BY <2>1 DEF Init, Dual
  <1>4. AnswersAllowed
    <2>1. \A a \in Assignments(Own(Universal)), x \in Assignments(Own(Existential)) :
            Keeps(a, x) => \A cl \in Instance(Existential, "exists") : cl \cap InnerModel("exists", a, x) # {}
      BY <1>2, EncodingMet DEF Keeps, MatrixFor, Players
    <2> QED
      BY <1>3, <2>1 DEF AnswersAllowed
  <1>5. StaysAllowed
    <2> SUFFICES ASSUME NEW cl \in negation[Universal], NEW a \in Assignments(Own(Universal)),
                        ErrorLatch.var \notin a, Stays(a)
                 PROVE  cl \cap OuterModel("exists", a) # {}
      BY DEF StaysAllowed
    <2>1. CASE cl \in Instance(Universal, "exists")
      BY <1>2, <2>1, EncodingMet DEF Stays, Keeps, MatrixFor, Players
    <2>2. CASE cl = PushedClause(Universal, incremental_lit, {})
      <3>1. -F \in cl
        BY <2>2 DEF PushedClause, FOf
      <3> QED
        BY <1>2, <3>1, PushedMet
    <2> QED
      BY <1>3, <2>1, <2>2
  <1>6. Bounds
    <2>1. \A s, q : \A cl \in Instance(s, q) : \A l \in cl : Known(l)
      BY <1>2, EncodingLits DEF Instance, Known, Static
    <2>2. \A s : \A l \in PushedClause(s, incremental_lit, {}) : Known(l)
      <3>1. Known(-incremental_lit)
        <4>1. Label(incremental_lit)
          BY <1>1 DEF FInv, Labels, Init
        <4> QED
          BY <1>2, <4>1, KnownLiterals
      <3>2. Known(-F) /\ Known(-FPrime)
        BY <1>2, ErrorGates, KnownLiterals
      <3> QED
        BY <3>1, <3>2 DEF PushedClause, FOf
    <2>3. /\ DOMAIN negation = {Universal, Existential} /\ incremental = {}
          /\ \A s \in {Universal, Existential} :
               /\ sat[s] = Instance(s, circuit.scope[s].qtype)
               /\ negation[s] = Instance(s, Dual(circuit.scope[s].qtype))
                                  \cup {PushedClause(s, incremental_lit, {})}
      BY DEF Init
    <2> QED
      BY <2>1, <2>2, <2>3 DEF Bounds
  <1>7. Pending
    <2>1. value \in [Variables -> Int] /\ entry[Universal] = {} /\ pc = "loop"
      BY DEF Init, Variables
    <2> QED
      BY <2>1 DEF Pending
  <1>8. LosingExcluded
    BY DEF LosingExcluded, Init
  <1> QED
    BY <1>2, <1>4, <1>5, <1>6, <1>7, <1>8 DEF GInv

\* A proposal assigns every variable of the universal scope.
LEMMA GPropose ==
  ASSUME FInv, GInv, Propose
  PROVE  GInv'
  <1>1. UNCHANGED <<config, sat, negation, incremental_lit, next_lit, incremental, excluded>>
        /\ pc' = "inner"
    BY DEF Propose, instances
  <1>2. PICK m : value' = [i \in DOMAIN value |->
                             IF i \in Own(Universal) THEN (IF i \in m THEN 1 ELSE -1) * Universal
                             ELSE value[i]]
    BY DEF Propose
  <1>3. entry'[Universal] = {}
    <2>1. \E e : entry' = [entry EXCEPT ![Existential] = e]
      BY DEF Propose
    <2> QED
      BY <2>1 DEF FInv, Fields, GInv, Pending, Universal, Existential
  <1>4. /\ value' \in [Variables -> Int]
        /\ \A i \in Own(Universal) : value'[i] \in {-Universal, Universal}
    <2>1. value \in [Variables -> Int] /\ Own(Universal) \subseteq Variables
      BY DEF GInv, Pending, Own, ScopeVars, Variables
    <2>2. \A i \in Own(Universal) : value'[i] \in {-2, 2}
      BY <1>2, <2>1 DEF Universal
    <2>3. \A i \in Variables : value'[i] \in Int
      BY <1>2, <2>1, <2>2
    <2> QED
      BY <1>2, <2>1, <2>2, <2>3 DEF Universal
  <1>5. Pending'
    BY <1>1, <1>3, <1>4, SameGame DEF Pending
  <1> QED
    BY <1>1, <1>5, SameInstances DEF GInv

\* The end of the loop changes nothing.
LEMMA GInductive ==
  ASSUME FInv, GInv, Inductive
  PROVE  GInv'
  <1>1. UNCHANGED <<config, sat, negation, incremental_lit, next_lit, incremental, excluded, value,
                    entry>> /\ pc' = "inductive"
    BY DEF Inductive, instances
  <1>2. Pending'
    BY <1>1, SameGame DEF GInv, Pending
  <1> QED
    BY <1>1, <1>2, SameInstances DEF GInv

\* The cube is generalised.
LEMMA GMinimizeCube ==
  ASSUME FInv, GInv, MinimizeCube
  PROVE  GInv'
  <1>1. UNCHANGED <<config, sat, negation, incremental_lit, next_lit, incremental, excluded, entry>>
        /\ pc = "refuted" /\ pc' = "exclude" /\ value' = MinimizedCube
    BY DEF MinimizeCube, instances
  <1>2. MinimizedCube \in [Variables -> Int] /\ LostFrom(MinimizedCube)
    BY <1>1, MinimizedCubeIsLost DEF FInv, GInv, Pending
  <1>3. t_lits' = t_lits
    BY <1>1 DEF config
  <1>4. \A v : LostFrom(v)' <=> LostFrom(v)
    <2>1. \A v : DualRefutes(v)' <=> DualRefutes(v)
      BY <1>1, <1>3, SameGame DEF DualRefutes
    <2> QED
      BY <1>1, <2>1, SameGame DEF LostFrom
  <1>5. LostFrom(value)'
    <2> PICK v : v = value'
      OBVIOUS
    <2>1. LostFrom(v)'
      BY <1>1, <1>2, <1>4
    <2>2. LostFrom(v)' => LostFrom(value)'
      BY DEF LostFrom, DualRefutes
    <2> QED
      BY <2>1, <2>2
  <1>6. Pending'
    BY <1>1, <1>2, <1>5, SameGame DEF GInv, Pending
  <1> QED
    BY <1>1, <1>6, SameInstances DEF GInv

\* An answer is about the next state.
LEMMA GAnswered ==
  ASSUME FInv, GInv, Answered
  PROVE  GInv'
  <1>1. UNCHANGED <<config, sat, negation, incremental_lit, next_lit, incremental, excluded>>
    BY DEF Answered, instances
  <1>2. \/ pc' = "abort" /\ UNCHANGED <<value, entry>>
        \/ \E dual, m, e : DualPropagation(Existential, dual, m, e, "answered")
    BY DEF Answered
  <1>3. /\ pc' \in {"abort", "answered"} /\ value' \in [Variables -> Int]
        /\ entry'[Universal] = entry[Universal]
    <2>1. value \in [Variables -> Int] /\ DOMAIN entry = {Universal, Existential}
      BY DEF FInv, Fields, GInv, Pending
    <2>2. CASE \E dual, m, e : DualPropagation(Existential, dual, m, e, "answered")
      <3>1. PICK dual, m, e : DualPropagation(Existential, dual, m, e, "answered")
        BY <2>2
      <3>2. \/ pc' = "abort" /\ UNCHANGED <<value, entry>>
            \/ /\ pc' = "answered" /\ \E x : entry' = [entry EXCEPT ![Existential] = x]
               /\ \E failed : value' = [i \in DOMAIN value |->
                    IF i \notin LatchesOf(Existential) THEN value[i]
                    ELSE CASE i \in failed -> Existential [] -i \in failed -> -Existential [] OTHER -> 0]
        BY <3>1 DEF DualPropagation
      <3> QED
        BY <2>1, <3>2 DEF Universal, Existential
    <2> QED
      BY <1>2, <2>1, <2>2
  <1>4. Pending'
    BY <1>1, <1>3, SameGame DEF GInv, Pending
  <1> QED
    BY <1>1, <1>4, SameInstances DEF GInv

\* More labels leave the known literals known.
LEMMA MoreLabels ==
  ASSUME circuit' = circuit, next_lit \in Nat, next_lit' \in Nat, next_lit <= next_lit'
  PROVE  \A l : (Known(l) => Known(l)') /\ (Label(l) => Label(l)')
  <1>1. \A l : Known(l) => Known(l)'
    <2>1. ASSUME NEW l, l \in Int, Abs(l) < next_lit
          PROVE  Abs(l) < next_lit'
      BY <2>1 DEF Abs
    <2> QED
      BY <2>1 DEF Known
  <1>2. \A l : Label(l) => Label(l)'
    BY DEF Label
  <1> QED
    BY <1>1, <1>2

\* A refinement is a clause of the universal instance only.
LEMMA GRefine ==
  ASSUME FInv, GInv, Refine
  PROVE  GInv'
  <1>1. UNCHANGED <<config, negation, value, entry, incremental_lit, incremental, excluded>>
        /\ pc = "answered" /\ pc' = "loop" /\ next_lit' = next_lit + 1
        /\ sat' = [sat EXCEPT ![Universal] = @ \cup {RefinementClause}]
    BY AnswerWasPromised DEF Refine
  <1>2. sat'[Existential] = sat[Existential] /\ sat'[Universal] = sat[Universal] \cup {RefinementClause}
    BY <1>1 DEF FInv, Fields, Universal, Existential
  <1>3. \A cl : Off(cl)' <=> Off(cl)
    BY <1>1, SameGame DEF Off
  <1>4. AnswersAllowed' /\ StaysAllowed'
    BY <1>1, <1>2, <1>3, SameGame, SameStays DEF GInv, AnswersAllowed, StaysAllowed
  <1>5. Bounds'
    <2>1. next_lit \in Nat /\ next_lit' \in Nat /\ next_lit <= next_lit' /\ circuit' = circuit
          /\ 2 * MaxNum(circuit) < next_lit
      BY <1>1 DEF FInv, Labels, config
    <2>2. \A l : (Known(l) => Known(l)') /\ (Label(l) => Label(l)')
      BY <2>1, MoreLabels
    <2>3. ASSUME NEW l \in RefinementClause
          PROVE  Known(l)'
      <3>1. CASE l = -next_lit
        <4>1. Abs(l) = next_lit /\ l \in Int
          BY <2>1, <3>1, Interfaces DEF Abs, FInv
        <4>2. 2 * MaxNum(circuit)' < Abs(l) /\ Abs(l) < next_lit'
          BY <1>1, <2>1, <4>1
        <4> QED
          BY <4>1, <4>2 DEF Known
      <3>2. CASE l \in FailedBLits \cup PassedT
        <4>1. Known(l)
          BY <3>2, KnownLiterals DEF FailedBLits, PassedT, FInv, Fields
        <4> QED
          BY <2>2, <4>1
      <3> QED
        BY <2>3, <3>1, <3>2 DEF RefinementClause
    <2>4. \A s \in {Universal, Existential} : \A cl \in sat[s] \cup negation[s] : \A l \in cl : Known(l)
      BY DEF GInv, Bounds
    <2>5. /\ \A cl \in sat'[Universal] \cup negation'[Universal] : \A l \in cl : Known(l)'
          /\ \A cl \in sat'[Existential] \cup negation'[Existential] : \A l \in cl : Known(l)'
      BY <1>1, <1>2, <2>2, <2>3, <2>4
    <2> QED
      BY <1>1, <2>2, <2>5 DEF GInv, Bounds
  <1>6. Pending'
    BY <1>1, SameGame DEF GInv, Pending
  <1> QED
    BY <1>1, <1>4, <1>5, <1>6, SameGame DEF GInv, LosingExcluded

\* What the universal dual instance learns from a refuted proposal.
LEMMA RefutedClause ==
  ASSUME FInv, GInv, pc = "inner",
         NEW failed \in FailedSets(sat[Existential], InnerAssumed \ Negative(InnerAssumed),
                                   Negative(InnerAssumed)),
         NEW core, core = MinimizedFailed(Opposite(failed))
  PROVE  /\ core \subseteq t_lits[Existential]
         /\ \A a \in Assignments(Own(Universal)) :
              Stays(a) => DualClause(core) \cap OuterModel("exists", a) # {}
  <1> PICK T : T = t_lits[Existential]
    OBVIOUS
  <1> PICK e : e = entry[Existential]
    OBVIOUS
  <1>1. e \subseteq T /\ \A t \in T : t \in Nat /\ t > 0 /\ -t < 0 /\ -(-t) = t
    BY Interfaces DEF FInv, Fields
  <1>2. incremental_lit \in Nat /\ incremental_lit > 0
    BY Interfaces DEF FInv, Labels, Label
  <1>3. InnerAssumed = e \cup Opposite(T \ e) \cup {incremental_lit}
    BY DEF InnerAssumed, AssumedT
  <1>4. /\ Negative(InnerAssumed) = Opposite(T \ e)
        /\ InnerAssumed \ Negative(InnerAssumed) = e \cup {incremental_lit}
    <2>1. \A l \in Opposite(T \ e) : l < 0
      BY <1>1 DEF Opposite
    <2>2. \A l \in e \cup {incremental_lit} : ~(l < 0)
      BY <1>1, <1>2
    <2> QED
      BY <1>3, <2>1, <2>2 DEF Negative
  <1>5. failed \subseteq Opposite(T \ e) /\ ~Satisfiable(sat[Existential], e \cup {incremental_lit} \cup failed)
    BY <1>4 DEF FailedSets
  <1> PICK start : start = Opposite(failed)
    OBVIOUS
  <1>6. start \subseteq T \ e /\ Opposite(start) = failed
    <2>1. \A l \in failed : -l \in T \ e /\ -(-l) = l
      BY <1>1, <1>5 DEF Opposite
    <2> QED
      BY <2>1 DEF Opposite
  <1>7. core \subseteq start /\ (core = start \/ StillUnsat(core))
    BY MinimizedIsRefuted, Interfaces DEF FInv
  <1>8. \E on \in SUBSET T : on \cap core = {} /\
          ~Satisfiable(sat[Existential], on \cup Opposite(core) \cup {incremental_lit})
    <2>1. CASE core = start
      <3>1. e \cup {incremental_lit} \cup failed = e \cup Opposite(core) \cup {incremental_lit}
        BY <1>6, <2>1
      <3> QED
        BY <1>1, <1>5, <1>6, <2>1, <3>1
    <2>2. CASE StillUnsat(core)
      <3>1. Opposite(AssumedT(Existential, core)) = (T \ core) \cup Opposite(core)
        <4>1. Opposite(Opposite(T \ core)) = T \ core
          BY <1>1 DEF Opposite
        <4>2. Opposite(core \cup Opposite(T \ core)) = Opposite(core) \cup Opposite(Opposite(T \ core))
          BY DEF Opposite
        <4> QED
          BY <4>1, <4>2 DEF AssumedT
      <3> QED
        BY <2>2, <3>1 DEF StillUnsat
    <2> QED
      BY <1>7, <2>1, <2>2
  <1>9. core \subseteq T
    BY <1>6, <1>7
  <1>10. ASSUME NEW a \in Assignments(Own(Universal)), Stays(a)
         PROVE  DualClause(core) \cap OuterModel("exists", a) # {}
    <2>1. PICK t \in core : Secured(circuit, "exists", Existential, TLitToVarId(circuit, t), a)
      BY <1>8, <1>9, <1>10, CoreIsSecured DEF FInv, GInv
    <2> QED
      BY <1>9, <2>1, CoreClauseMet DEF FInv, GInv
  <1> QED
    BY <1>9, <1>10

\* The literals of that clause.
LEMMA DualClauseKnown ==
  ASSUME Static, Labels, pc # "no_fixpoint", NEW core, core \subseteq t_lits[Existential]
  PROVE  \A l \in DualClause(core) : Known(l)
  <1>1. Known(-incremental_lit)
    BY KnownLiterals DEF Labels
  <1>2. ASSUME NEW t \in core
        PROVE  /\ Known(t)
               /\ TLitToVarId(circuit, t) \in b_lits[Universal] => Known(TLitToVarId(circuit, t))
    BY KnownLiterals
  <1> QED
    BY <1>1, <1>2 DEF DualClause

\* What the refutation by the dual instance needs is lost.
LEMMA RefutationIsLost ==
  ASSUME FInv, Pending, pc = "inner", NEW dual, negation'[Universal] = dual,
         UNCHANGED <<config, incremental_lit>>,
         DualPropagation(Universal, dual, Assignment(Universal), {}, "refuted")
  PROVE  /\ value' \in [Variables -> Int] /\ entry'[Universal] = {}
         /\ pc' = "abort" \/ (pc' = "refuted" /\ LostFrom(value)')
  <1> PICK O : O = Own(Universal)
    OBVIOUS
  <1> PICK L : L = LatchesOf(Universal)
    OBVIOUS
  <1> PICK T : T = t_lits[Universal]
    OBVIOUS
  <1> PICK N : N = MaxNum(circuit)
    OBVIOUS
  <1> PICK m : m = Assignment(Universal)
    OBVIOUS
  <1> PICK reported : reported = {l \in m : Abs(l) \in L}
    OBVIOUS
  <1> PICK assumed : assumed = m \cup T \cup {incremental_lit}
    OBVIOUS
  <1>1. /\ value \in [Variables -> Int] /\ entry[Universal] = {} /\ DOMAIN entry = {Universal, Existential}
        /\ \A i \in O : value[i] \in {-2, 2}
    BY DEF Pending, FInv, Fields, Universal
  <1>2. O \subseteq Variables /\ L \subseteq O /\ N \in Nat /\ O \subseteq 1 .. N
    <2>1. Nodes(circuit) = 1 .. N /\ N \in Nat
      BY Interfaces DEF FInv
    <2> QED
      BY <2>1 DEF Own, ScopeVars, Variables, LatchesOf
  <1>3. m = {IF value[i] < 0 THEN -i ELSE i : i \in O}
    BY DEF Assignment, Signed
  <1>4. \A l \in m : \E i \in O : (l = i \/ l = -i) /\ Abs(l) = i /\ l = Signed(value[i], i)
    BY <1>2, <1>3 DEF Abs, Signed
  <1>5. AssignedLits(Universal, m) = m
    BY <1>4 DEF AssignedLits
  <1>6. CASE pc' = "abort" /\ UNCHANGED <<value, entry>>
    BY <1>1, <1>6
  <1>7. ASSUME NEW failed \in FailedSets(dual, assumed \ reported, reported),
               value' = [i \in DOMAIN value |->
                           IF i \notin L THEN value[i]
                           ELSE CASE i \in failed -> Universal [] -i \in failed -> -Universal [] OTHER -> 0],
               entry' = [entry EXCEPT ![Universal] = Opposite(failed) \cap t_lits[Universal]],
               pc' = "refuted"
        PROVE  value' \in [Variables -> Int] /\ entry'[Universal] = {} /\ LostFrom(value)'
    <2>1. failed \subseteq reported /\ ~Satisfiable(dual, (assumed \ reported) \cup failed)
      BY <1>7 DEF FailedSets
    <2>2. \A t \in T : t \in Nat /\ N < t
      BY Interfaces DEF FInv
    <2>3. incremental_lit \in Nat /\ 2 * N < incremental_lit
      BY DEF FInv, Labels, Label
    <2> PICK v : v = value'
      OBVIOUS
    <2>4. v \in [Variables -> Int]
      BY <1>1, <1>7 DEF Universal
    <2>5. \A i \in O : v[i] = IF i \notin L THEN value[i]
                              ELSE CASE i \in failed -> 2 [] -i \in failed -> -2 [] OTHER -> 0
      BY <1>1, <1>2, <1>7 DEF Universal
    <2>6. \A l \in failed : \E i \in L : (l = i \/ l = -i) /\ i \in O /\ l = Signed(value[i], i)
      BY <1>2, <1>4, <2>1
    <2>7. entry'[Universal] = {}
      <3>1. \A l \in Opposite(failed) : l \notin T
        <4>1. \A l \in failed : l \in -N .. N
          BY <1>2, <2>6
        <4> QED
          BY <1>2, <2>2, <4>1 DEF Opposite
      <3> QED
        BY <1>1, <1>7, <3>1
    <2>8. \A i \in O : /\ v[i] \in {-Universal, 0, Universal}
                       /\ i \notin LatchesOf(Universal) => v[i] # 0
      BY <1>1, <2>5 DEF Universal
    <2> PICK w : w = {Signed(v[i], i) : i \in {k \in O : v[k] # 0}}
      OBVIOUS
    <2>9. (assumed \ reported) \cup failed = w \cup {incremental_lit} \cup T
      <3>1. \A l \in T \cup {incremental_lit} : l \notin m
        <4>1. \A l \in m : l \in -N .. N
          BY <1>2, <1>4
        <4> QED
          BY <1>2, <2>2, <2>3, <4>1
      <3>2. (m \ reported) \cup failed = w
        <4>1. ASSUME NEW i \in O \ L
              PROVE  v[i] # 0 /\ Signed(v[i], i) = Signed(value[i], i) /\ Abs(Signed(value[i], i)) = i
                     /\ Signed(value[i], i) \in m /\ Signed(value[i], i) \notin reported
          <5>1. v[i] = value[i] /\ value[i] # 0
            BY <1>1, <2>5
          <5>2. Abs(Signed(value[i], i)) = i
            BY <1>2 DEF Abs, Signed
          <5>3. Signed(value[i], i) \in m
            BY DEF Assignment
          <5> QED
            BY <5>1, <5>2, <5>3
        <4>2. ASSUME NEW i \in L, v[i] # 0
              PROVE  Signed(v[i], i) \in failed
          BY <1>2, <2>5, <4>2 DEF Signed
        <4>6. \A i \in L : ~(i \in failed /\ -i \in failed)
          <5> SUFFICES ASSUME NEW i \in L, i \in failed, -i \in failed
                       PROVE  FALSE
            OBVIOUS
          <5>1. PICK j \in L : (i = j \/ i = -j) /\ j \in O /\ i = Signed(value[j], j)
            BY <2>6
          <5>2. PICK k \in L : (-i = k \/ -i = -k) /\ k \in O /\ -i = Signed(value[k], k)
            BY <2>6
          <5>3. i \in Int /\ i > 0 /\ j > 0 /\ k > 0 /\ j \in Int /\ k \in Int
            BY <1>2
          <5> QED
            BY <5>1, <5>2, <5>3
        <4>3. ASSUME NEW l \in failed
              PROVE  l \in w
          <5>1. PICK i \in L : (l = i \/ l = -i) /\ i \in O /\ l = Signed(value[i], i)
            BY <2>6
          <5>2. i > 0 /\ i \in Int
            BY <1>2, <5>1
          <5>3. CASE i \in failed
            <6>1. v[i] = 2
              <7>1. v[i] = CASE i \in failed -> 2 [] -i \in failed -> -2 [] OTHER -> 0
                BY <2>5, <5>1
              <7> QED
                BY <4>6, <5>1, <5>3, <7>1
            <6>2. l = i
              <7>1. PICK j \in L : (i = j \/ i = -j) /\ j \in O /\ i = Signed(value[j], j)
                BY <2>6, <5>3
              <7>2. j > 0 /\ j \in Int
                BY <1>2, <7>1
              <7> QED
                BY <5>1, <5>2, <7>1, <7>2
            <6> QED
              BY <5>1, <6>1, <6>2 DEF Signed
          <5>4. CASE i \notin failed
            <6>1. l = -i
              BY <5>1, <5>4
            <6>2. v[i] = -2
              BY <2>5, <5>1, <5>4, <6>1
            <6> QED
              BY <5>1, <6>1, <6>2 DEF Signed
          <5> QED
            BY <5>3, <5>4
        <4>4. ASSUME NEW l \in m, l \notin reported
              PROVE  l \in w
          <5>1. PICK i \in O : Abs(l) = i /\ l = Signed(value[i], i)
            BY <1>4
          <5>2. i \notin L
            BY <4>4, <5>1
          <5> QED
            BY <4>1, <5>1, <5>2
        <4>5. ASSUME NEW i \in O, v[i] # 0
              PROVE  Signed(v[i], i) \in (m \ reported) \cup failed
          BY <4>1, <4>2, <4>5
        <4> QED
          BY <4>3, <4>4, <4>5
      <3> QED
        BY <3>1, <3>2
    <2>10. /\ Own(Universal)' = O /\ LatchesOf(Universal)' = L /\ t_lits'[Universal] = T
           /\ incremental_lit' = incremental_lit
      <3>1. UNCHANGED config /\ t_lits' = t_lits
        BY DEF config
      <3> QED
        BY <3>1, SameGame
    <2>11. LostFrom(v)'
      <3>1. DualRefutes(v)'
        BY <2>1, <2>9, <2>10 DEF DualRefutes
      <3> QED
        BY <2>8, <2>10, <3>1 DEF LostFrom
    <2>12. LostFrom(v)' => LostFrom(value)'
      BY DEF LostFrom, DualRefutes
    <2> QED
      BY <2>4, <2>7, <2>11, <2>12
  <1>8. \/ pc' = "abort" /\ UNCHANGED <<value, entry>>
        \/ \E failed \in FailedSets(dual, assumed \ reported, reported) :
             /\ value' = [i \in DOMAIN value |->
                            IF i \notin L THEN value[i]
                            ELSE CASE i \in failed -> Universal [] -i \in failed -> -Universal [] OTHER -> 0]
             /\ entry' = [entry EXCEPT ![Universal] = Opposite(failed) \cap t_lits[Universal]]
             /\ pc' = "refuted"
    <2>1. AssumedTDual(Universal, {}) = T /\ Negative(T) = {}
      BY AllTOn DEF FInv
    <2>2. /\ reported = {l \in m : Abs(l) \in LatchesOf(Universal)} \cup Negative(AssumedTDual(Universal, {}))
          /\ assumed = AssignedLits(Universal, m) \cup AssumedTDual(Universal, {}) \cup {incremental_lit}
      BY <1>5, <2>1
    <2> QED
      BY <2>2 DEF DualPropagation
  <1> QED
    BY <1>6, <1>7, <1>8

\* A refuted proposal adds a clause to the universal dual instance.
LEMMA GRefuted ==
  ASSUME FInv, GInv, Refuted
  PROVE  GInv'
  <1>1. /\ UNCHANGED <<config, sat, incremental_lit, next_lit, incremental, excluded>>
        /\ UNCHANGED config /\ pc = "inner"
    BY DEF Refuted
  <1>2. PICK failed, core, dual :
          /\ failed \in FailedSets(sat[Existential], InnerAssumed \ Negative(InnerAssumed),
                                  Negative(InnerAssumed))
          /\ core = MinimizedFailed(Opposite(failed))
          /\ dual = negation[Universal] \cup {DualClause(core)}
          /\ negation' = [negation EXCEPT ![Universal] = dual]
          /\ DualPropagation(Universal, dual, Assignment(Universal), entry[Universal], "refuted")
    BY DEF Refuted
  <1>3. /\ negation'[Universal] = dual /\ negation'[Existential] = negation[Existential]
        /\ DOMAIN negation' = {Universal, Existential}
    BY <1>2 DEF GInv, Bounds, Universal, Existential
  <1>4. /\ core \subseteq t_lits[Existential]
        /\ \A a \in Assignments(Own(Universal)) :
             Stays(a) => DualClause(core) \cap OuterModel("exists", a) # {}
    BY <1>1, <1>2, RefutedClause
  <1>5. \A cl : Off(cl)' <=> Off(cl)
    BY <1>1, SameGame DEF Off
  <1>6. AnswersAllowed'
    BY <1>1, <1>5, SameGame, SameStays DEF GInv, AnswersAllowed
  <1>7. StaysAllowed'
    <2>1. \A cl \in dual :
            \/ Off(cl)
            \/ \A a \in Assignments(Own(Universal)) :
                 ErrorLatch.var \notin a /\ Stays(a) => cl \cap OuterModel("exists", a) # {}
      BY <1>2, <1>4 DEF GInv, StaysAllowed
    <2>2. \A q, a : OuterModel(q, a)' = OuterModel(q, a)
      BY <1>1, SameGame
    <2>3. ErrorLatch' = ErrorLatch /\ Own(Universal)' = Own(Universal) /\ \A a : Stays(a)' <=> Stays(a)
      BY <1>1, SameGame, SameStays
    <2> QED
      BY <1>3, <1>5, <2>1, <2>2, <2>3 DEF StaysAllowed
  <1>8. Bounds'
    <2>1. \A l : (Known(l)' <=> Known(l)) /\ (Label(l)' <=> Label(l))
      BY <1>1, SameGame DEF Known, Label, config
    <2>2. \A l \in DualClause(core) : Known(l)
      BY <1>1, <1>4, DualClauseKnown DEF FInv
    <2> QED
      BY <1>1, <1>2, <1>3, <2>1, <2>2 DEF GInv, Bounds
  <1>9. Pending'
    <2>1. Pending /\ entry[Universal] = {}
      BY DEF GInv, Pending
    <2>2. /\ value' \in [Variables -> Int] /\ entry'[Universal] = {}
          /\ pc' = "abort" \/ (pc' = "refuted" /\ LostFrom(value)')
      BY <1>1, <1>2, <1>3, <2>1, RefutationIsLost
    <2> QED
      BY <1>1, <2>2, SameGame DEF Pending
  <1> QED
    BY <1>1, <1>6, <1>7, <1>8, <1>9, SameGame DEF GInv, LosingExcluded

\* The literals of an excluded cube, and of what stands for it in the existential scope.
LEMMA CubeLiterals ==
  ASSUME Static, GameStatic
  PROVE  /\ \A l \in Cube(Universal) : \E i \in DOMAIN latches :
              l = latches[i].var \/ l = -latches[i].var
         /\ \A l \in Cube(Universal) : \E i \in DOMAIN latches :
              Primed(l) = latches[i].primed \/ Primed(l) = -latches[i].primed
         /\ \A l \in Cube(Universal) : /\ Known(l) /\ Known(-l)
                                       /\ Known(Primed(l)) /\ Known(-Primed(l))
  <1>1. \A i \in DOMAIN latches : latches[i].var \in Nodes(circuit) /\ latches[i].primed \in Nodes(circuit)
    BY GameNodes DEF Own, ScopeVars
  <1>2. ASSUME NEW l \in Cube(Universal)
        PROVE  \E i \in DOMAIN latches : l = latches[i].var \/ l = -latches[i].var
    <2>1. PICK k \in LatchesOf(Universal) : l = Signed(value[k], k)
      BY DEF Cube
    <2>2. PICK i \in DOMAIN latches : k = latches[i].var
      BY <2>1 DEF LatchesOf
    <2> QED
      BY <2>1, <2>2 DEF Signed
  <1>3. ASSUME NEW l \in Cube(Universal)
        PROVE  /\ \E i \in DOMAIN latches : Primed(l) = latches[i].primed \/ Primed(l) = -latches[i].primed
               /\ Known(l) /\ Known(-l) /\ Known(Primed(l)) /\ Known(-Primed(l))
    <2>1. PICK i \in DOMAIN latches : l = latches[i].var \/ l = -latches[i].var
      BY <1>2
    <2>2. \A k \in Nodes(circuit) : Known(k) /\ Known(-k) /\ -(-k) = k
      BY KnownLiterals, Interfaces
    <2>3. Primed(l) = latches[i].primed \/ Primed(l) = -latches[i].primed
      BY <2>1, PrimedLatch
    <2> QED
      BY <1>1, <2>1, <2>2, <2>3
  <1> QED
    BY <1>2, <1>3

\* A next state that is in no excluded cube meets the clause for each of them.
LEMMA OutsideIsMet ==
  ASSUME Static, GameStatic, NEW a \in Assignments(Own(Universal)),
         NEW x \in Assignments(Own(Existential)),
         ~({Primed(l) : l \in Cube(Universal)} \subseteq x)
  PROVE  Opposite({Primed(l) : l \in Cube(Universal)}) \cap InnerModel("exists", a, x) # {}
  <1>1. PICK l \in Cube(Universal) : Primed(l) \notin x
    OBVIOUS
  <1> PICK p : p = Primed(l)
    OBVIOUS
  <1>2. PICK i \in DOMAIN latches : p = latches[i].primed \/ p = -latches[i].primed
    BY CubeLiterals
  <1>3. latches[i].primed \in Own(Existential) /\ latches[i].primed \in Nat
    BY GameNodes, GameCircuit
  <1>4. latches[i].primed \in x \/ -latches[i].primed \in x
    BY <1>3, GameCircuit, IsAssignment
  <1>5. -p \in x
    <2>1. -(-latches[i].primed) = latches[i].primed
      BY <1>3
    <2> QED
      BY <1>1, <1>2, <1>4, <2>1
  <1>6. -p \in Opposite({Primed(k) : k \in Cube(Universal)})
    BY DEF Opposite
  <1>7. x \subseteq InnerModel("exists", a, x)
    BY DEF InnerModel, Canonical
  <1> QED
    BY <1>5, <1>6, <1>7

\* Exclusion takes a new label for F and adds the cube to all instances.
LEMMA GExclude ==
  ASSUME FInv, GInv, ExcludeStates
  PROVE  GInv'
  <1> PICK cube : cube = Cube(Universal)
    OBVIOUS
  <1> PICK primed : primed = {Primed(l) : l \in cube}
    OBVIOUS
  <1> PICK lost : lost = LostRefinements(cube)
    OBVIOUS
  <1> PICK pushed : pushed = incremental \cup {next_lit}
    OBVIOUS
  <1> DEFINE Push(s) == IF ContainsInitial(cube) THEN {} ELSE {PushedClause(s, next_lit + 1, pushed)}
  <1>1. /\ sat' = [sat EXCEPT ![Universal] = @ \cup ExcludeIn(Universal, cube) \cup Outdated(lost),
                              ![Existential] = @ \cup ExcludeIn(Existential, primed)]
        /\ negation' = [negation EXCEPT
              ![Universal] = @ \cup ExcludeDual(Universal, cube, next_lit) \cup Outdated(lost)
                               \cup Push(Universal),
              ![Existential] = @ \cup ExcludeDual(Existential, primed, next_lit)
                                 \cup Push(Existential)]
        /\ incremental' = pushed /\ excluded' = excluded \cup {cube}
        /\ next_lit' = NextLit(cube)
        /\ incremental_lit' = IF ContainsInitial(cube) THEN 0 ELSE next_lit + 1
        /\ pc' = IF ContainsInitial(cube) THEN "no_fixpoint" ELSE "loop"
        /\ UNCHANGED <<config, value, entry>> /\ UNCHANGED config /\ pc = "exclude"
    BY DEF ExcludeStates
  <1> HIDE DEF Push
  <1> PICK N : N = MaxNum(circuit)
    OBVIOUS
  <1> PICK label : label = incremental_lit
    OBVIOUS
  <1> PICK next : next = next_lit
    OBVIOUS
  <1>2. /\ Static /\ GameStatic /\ Pending /\ LosingExcluded /\ Bounds /\ AnswersAllowed /\ StaysAllowed
        /\ Labels /\ LostFrom(value)
    BY <1>1 DEF FInv, GInv, Pending
  <1>3. /\ N \in Nat /\ next_lit \in Nat /\ 2 * N < next_lit
    BY <1>1, <1>2, Interfaces DEF Labels
  <1>4. /\ next_lit' \in Nat /\ next_lit < next_lit'
        /\ incremental_lit' = 0 \/ incremental_lit' = next_lit + 1
    BY <1>1, <1>3 DEF NextLit
  <1>17. Label(incremental_lit) /\ \A r \in lost : Label(r.incremental_literal)
    BY <1>1, <1>2 DEF Labels, LostRefinements
  <1>18. ~ContainsInitial(cube) => incremental_lit' = next_lit + 1 /\ next_lit' = next_lit + 2
    BY <1>1 DEF NextLit
  <1>19. N = MaxNum(circuit)' /\ \A l : Label(l) <=> l \in Nat /\ 2 * N < l /\ l < next_lit
    BY <1>1, SameGame DEF Label
  <1>5. /\ DOMAIN negation' = {Universal, Existential}
        /\ sat'[Universal] = sat[Universal] \cup ExcludeIn(Universal, cube) \cup Outdated(lost)
        /\ sat'[Existential] = sat[Existential] \cup ExcludeIn(Existential, primed)
        /\ negation'[Universal] = negation[Universal] \cup ExcludeDual(Universal, cube, next_lit)
                                    \cup Outdated(lost) \cup Push(Universal)
        /\ negation'[Existential] = negation[Existential]
                                      \cup ExcludeDual(Existential, primed, next_lit) \cup Push(Existential)
    BY <1>1, <1>2 DEF FInv, Fields, Bounds, Universal, Existential
  <1>6. \A a, x : Keeps(a, x)' => Keeps(a, x) /\ ~(primed \subseteq x)
    BY <1>1, SameGame DEF Keeps
  <1>7. \A a : Stays(a)' => Stays(a)
    BY <1>1, <1>6, SameGame DEF Stays
  <1>8. ASSUME NEW cl, NEW l \in cl, l < -(2 * N), l # -incremental_lit'
        PROVE  Off(cl)'
    BY <1>8, <1>19 DEF Off
  <1>9. \A l : Label(l) => -l < -(2 * N) /\ -l # -incremental_lit'
    <2> SUFFICES ASSUME NEW l \in Nat, 2 * N < l, l < next_lit
                 PROVE  -l < -(2 * N) /\ -l # -incremental_lit'
      BY <1>19
    <2> QED
      BY <1>3, <1>4
  <1>10. Off({-label})' /\ (\A l : Off({-next, l})') /\ \A cl \in Outdated(lost) : Off(cl)'
    <2>1. Off({-label})'
      BY <1>8, <1>9, <1>17
    <2>2. \A l : Off({-next, l})'
      <3>1. -next < -(2 * N) /\ -next # -incremental_lit'
        BY <1>3, <1>4
      <3> QED
        BY <1>8, <3>1
    <2>3. \A cl \in Outdated(lost) : Off(cl)'
      BY <1>8, <1>9, <1>17 DEF Outdated
    <2> QED
      BY <2>1, <2>2, <2>3
  <1>11. ASSUME NEW cl, \A l \in cl : Known(l), Off(cl)
         PROVE  Off(cl)'
    <2>1. PICK l \in cl : l < -(2 * N)
      BY <1>11 DEF Off
    <2>2. l \in Int /\ (l >= -(2 * N) \/ Abs(l) < next_lit)
      BY <1>3, <1>11 DEF Known, ClauseLits
    <2>3. l # -incremental_lit'
      BY <1>3, <1>4, <2>1, <2>2 DEF Abs
    <2> QED
      BY <1>8, <2>1, <2>3
  <1>12. AnswersAllowed'
    <2>1. ASSUME NEW cl \in sat[Existential]
          PROVE  \/ Off(cl)'
                 \/ \A a \in Assignments(Own(Universal)), x \in Assignments(Own(Existential)) :
                      Keeps(a, x)' => cl \cap InnerModel("exists", a, x) # {}
      <3>1. \A l \in cl : Known(l)
        BY <1>2 DEF Bounds
      <3> QED
        BY <1>2, <1>6, <1>11, <3>1 DEF AnswersAllowed
    <2>2. ASSUME NEW a \in Assignments(Own(Universal)), NEW x \in Assignments(Own(Existential)),
                 Keeps(a, x)'
          PROVE  Opposite(primed) \cap InnerModel("exists", a, x) # {}
      BY <1>2, <1>6, <2>2, OutsideIsMet
    <2>3. ASSUME NEW cl \in sat'[Existential]
          PROVE  \/ Off(cl)'
                 \/ \A a \in Assignments(Own(Universal)), x \in Assignments(Own(Existential)) :
                      Keeps(a, x)' => cl \cap InnerModel("exists", a, x) # {}
      BY <1>5, <1>10, <2>1, <2>2 DEF ExcludeIn
    <2>4. /\ \A q, a, x : InnerModel(q, a, x)' = InnerModel(q, a, x)
          /\ Own(Universal)' = Own(Universal) /\ Own(Existential)' = Own(Existential)
      BY <1>1, SameGame
    <2> QED
      BY <2>3, <2>4 DEF AnswersAllowed
  <1>13. StaysAllowed'
    <2>1. ASSUME NEW cl \in negation[Universal]
          PROVE  \/ Off(cl)'
                 \/ \A a \in Assignments(Own(Universal)) :
                      ErrorLatch.var \notin a /\ Stays(a)' => cl \cap OuterModel("exists", a) # {}
      <3>1. \A l \in cl : Known(l)
        BY <1>2 DEF Bounds
      <3> QED
        BY <1>2, <1>7, <1>11, <3>1 DEF StaysAllowed
    <2>2. ASSUME NEW cl \in Push(Universal), NEW a \in Assignments(Own(Universal)),
                 ErrorLatch.var \notin a
          PROVE  cl \cap OuterModel("exists", a) # {}
      <3>1. -F \in cl
        BY DEF Push, PushedClause, FOf
      <3> QED
        BY <1>2, <2>2, <3>1, PushedMet
    <2>3. ASSUME NEW cl \in negation'[Universal]
          PROVE  \/ Off(cl)'
                 \/ \A a \in Assignments(Own(Universal)) :
                      ErrorLatch.var \notin a /\ Stays(a)' => cl \cap OuterModel("exists", a) # {}
      <3>1. CASE cl \in negation[Universal]
        BY <2>1, <3>1
      <3>2. CASE cl \in ExcludeDual(Universal, cube, next_lit) \cup Outdated(lost)
        <4>1. Off(cl)'
          BY <1>10, <3>2 DEF ExcludeDual
        <4> QED
          BY <4>1
      <3>3. CASE cl \in Push(Universal)
        BY <2>2, <3>3
      <3> QED
        BY <1>5, <3>1, <3>2, <3>3
    <2>4. /\ \A q, a : OuterModel(q, a)' = OuterModel(q, a)
          /\ Own(Universal)' = Own(Universal) /\ ErrorLatch' = ErrorLatch
      BY <1>1, SameGame
    <2> QED
      BY <2>3, <2>4 DEF StaysAllowed
  <1>14. Bounds'
    <2>1. \A l : (Known(l) => Known(l)') /\ (Label(l) => Label(l)')
      BY <1>1, <1>3, <1>4, MoreLabels DEF config
    <2>2. /\ Known(-next)' /\ Label(next)' /\ Known(next)'
          /\ ~ContainsInitial(cube) => Known(-(next + 1))'
      <3>1. Abs(next) = next /\ Abs(-next) = next /\ Abs(-(next + 1)) = next + 1
        BY <1>3 DEF Abs
      <3>2. \A l \in Int : 2 * N < Abs(l) /\ Abs(l) < next_lit' => Known(l)'
        BY <1>19 DEF Known
      <3>3. Label(next)'
        BY <1>3, <1>4, <1>19 DEF Label
      <3> QED
        BY <1>3, <1>4, <1>18, <3>1, <3>2, <3>3
    <2>3. Known(-label)' /\ \A r \in lost : Known(-r.incremental_literal)'
      BY <1>2, <1>17, <2>1, KnownLiterals
    <2>4. /\ \A l \in cube : Known(l)' /\ Known(-l)'
          /\ \A l \in primed : Known(l)' /\ Known(-l)'
      BY <1>2, <2>1, CubeLiterals
    <2>5. \A l \in pushed : Known(l)' /\ Label(l)'
      <3>1. \A l \in incremental : Label(l)
        BY <1>2 DEF Bounds
      <3> QED
        BY <1>2, <2>1, <2>2, <3>1, KnownLiterals
    <2>6. \A l \in {-F, -FPrime} : Known(l)'
      BY <1>2, <2>1, ErrorGates, KnownLiterals
    <2>7. \A s : \A cl \in Push(s) : \A l \in cl : Known(l)'
      BY <2>2, <2>5, <2>6 DEF Push, PushedClause, FOf
    <2>8. /\ \A s : \A cl \in ExcludeIn(s, cube) : \A l \in cl : Known(l)'
          /\ \A s : \A cl \in ExcludeIn(s, primed) : \A l \in cl : Known(l)'
          /\ \A s : \A cl \in ExcludeDual(s, cube, next_lit) : \A l \in cl : Known(l)'
          /\ \A s : \A cl \in ExcludeDual(s, primed, next_lit) : \A l \in cl : Known(l)'
          /\ \A cl \in Outdated(lost) : \A l \in cl : Known(l)'
      BY <2>2, <2>3, <2>4 DEF ExcludeIn, ExcludeDual, Outdated, Opposite
    <2>9. \A s \in {Universal, Existential} : \A cl \in sat[s] \cup negation[s] : \A l \in cl : Known(l)'
      BY <1>2, <2>1 DEF Bounds
    <2>10. /\ \A cl \in sat'[Universal] \cup negation'[Universal] : \A l \in cl : Known(l)'
           /\ \A cl \in sat'[Existential] \cup negation'[Existential] : \A l \in cl : Known(l)'
      BY <1>5, <2>7, <2>8, <2>9
    <2> QED
      BY <1>1, <1>5, <2>5, <2>10 DEF Bounds
  <1>15. Pending'
    BY <1>1, <1>2, SameGame DEF Pending
  <1>16. LosingExcluded'
    <2>1. Losing(cube)
      BY <1>1, <1>2, RefutedIsLosing
    <2> QED
      BY <1>1, <1>2, <2>1, SameGame DEF LosingExcluded
  <1> QED
    BY <1>1, <1>2, <1>12, <1>13, <1>14, <1>15, <1>16, SameGame DEF GInv

\* Every step keeps the invariant.
LEMMA GNext ==
  ASSUME FInv, GInv, [Next]_vars
  PROVE  GInv'
  <1>1. CASE UNCHANGED vars
    <2>1. UNCHANGED <<config, sat, negation, incremental_lit, next_lit, incremental, excluded, value,
                      entry, pc>>
      BY <1>1 DEF vars, instances
    <2>2. UNCHANGED config /\ t_lits' = t_lits
      BY <2>1 DEF config
    <2>3. LostFrom(value)' <=> LostFrom(value)
      BY <2>1, <2>2, SameGame DEF LostFrom, DualRefutes
    <2>4. Pending'
      BY <2>1, <2>2, <2>3, SameGame DEF GInv, Pending
    <2> QED
      BY <2>1, <2>4, SameInstances DEF GInv
  <1>2. CASE Done
    BY <1>1, <1>2 DEF Done
  <1> QED
    BY <1>1, <1>2, GPropose, GInductive, GRefuted, GMinimizeCube, GExclude, GAnswered, GRefine DEF Next

\* The solver gives up when the initial state is in an excluded cube.
GaveUp == pc = "no_fixpoint" => \E cube \in excluded : ContainsInitial(cube)
LEMMA GaveUpInv ==
  ASSUME GaveUp, [Next]_vars
  PROVE  GaveUp'
  <1>1. CASE ExcludeStates
    <2> PICK cube : cube = Cube(Universal)
      OBVIOUS
    <2>1. /\ excluded' = excluded \cup {cube}
          /\ pc' = IF ContainsInitial(cube) THEN "no_fixpoint" ELSE "loop"
      BY <1>1 DEF ExcludeStates
    <2> QED
      BY <2>1 DEF GaveUp, ContainsInitial
  <1>2. CASE Propose \/ Inductive \/ MinimizeCube \/ Refine
    <2>1. pc' # "no_fixpoint"
      BY <1>2 DEF Propose, Inductive, MinimizeCube, Refine
    <2> QED
      BY <2>1 DEF GaveUp
  <1>3. CASE Refuted
    <2>1. PICK dual, m, e : DualPropagation(Universal, dual, m, e, "refuted")
      BY <1>3 DEF Refuted
    <2>2. pc' # "no_fixpoint"
      BY <2>1 DEF DualPropagation
    <2> QED
      BY <2>2 DEF GaveUp
  <1>4. CASE Answered
    <2>1. \/ pc' = "abort"
          \/ \E dual, m, e : DualPropagation(Existential, dual, m, e, "answered")
      BY <1>4 DEF Answered
    <2>2. pc' # "no_fixpoint"
      BY <2>1 DEF DualPropagation
    <2> QED
      BY <2>2 DEF GaveUp
  <1>5. CASE UNCHANGED vars
    BY <1>5 DEF GaveUp, ContainsInitial, vars
  <1> QED
    BY <1>1, <1>2, <1>3, <1>4, <1>5 DEF Next, Done

-----------------------------------------------------------------------------
\* The control wins from no state of an excluded cube, whatever the SAT solver answered: an
\* excluded cube is one that the universal dual instance refutes, and that instance allows
\* every position from which the control can stay where it is not known to lose.
THEOREM ExclusionIsSound == Spec => []ExcludedAreLosing
  <1>1. Init => FInv /\ GInv
    BY InitInv, GInit
  <1>2. FInv /\ GInv /\ [Next]_vars => FInv' /\ GInv'
    BY NextInv, GNext
  <1>3. GInv => ExcludedAreLosing
    <2> SUFFICES ASSUME GInv, NEW cube \in excluded, NEW s \in StatesIn(cube), s \in Winning
                 PROVE  FALSE
      BY DEF ExcludedAreLosing
    <2>1. PICK safe \in SUBSET NoError : s \in safe /\ CanStayIn(safe)
      BY DEF Winning, CanStayIn
    <2>2. Losing(cube)
      BY DEF GInv, LosingExcluded
    <2> QED
      BY <2>1, <2>2 DEF Losing
  <1> QED
    BY <1>1, <1>2, <1>3, PTL DEF Spec

\* So the answer UNREALIZABLE is right.
GivingUpIsRight == pc = "no_fixpoint" => Initial \notin Winning
THEOREM UnrealizableIsRight == Spec => []GivingUpIsRight
  <1>1. Init => FInv /\ GInv /\ GaveUp
    BY InitInv, GInit DEF Init, GaveUp
  <1>2. FInv /\ GInv /\ GaveUp /\ [Next]_vars => FInv' /\ GInv' /\ GaveUp'
    BY NextInv, GNext, GaveUpInv
  <1>3. FInv /\ GInv /\ GaveUp /\ ExcludedAreLosing => GivingUpIsRight
    <2> SUFFICES ASSUME FInv, GInv, ExcludedAreLosing, NEW cube \in excluded, ContainsInitial(cube)
                 PROVE  Initial \notin Winning
      BY DEF GaveUp, GivingUpIsRight
    <2>1. \A i \in DOMAIN latches : latches[i].var \in Nat \ {0}
      BY GameNodes, GameCircuit DEF FInv, GInv
    <2>2. \A i \in DOMAIN latches : latches[i].var \notin cube
      BY <2>1 DEF ContainsInitial
    <2>3. Initial \in States(game)
      BY DEF Initial, States, game
    <2>4. Initial \in StatesIn(cube)
      BY <2>2, <2>3 DEF StatesIn, Initial
    <2> QED
      BY <2>4 DEF ExcludedAreLosing
  <1>4. Spec => []ExcludedAreLosing
    BY ExclusionIsSound
  <1> QED
    BY <1>1, <1>2, <1>3, <1>4, PTL DEF Spec

==============================================================================

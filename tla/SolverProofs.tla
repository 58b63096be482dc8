----------------------------- MODULE SolverProofs -----------------------------
(***************************************************************************)
(* Proofs about the sequential solver, for every set of well-formed        *)
(* circuits, whatever the SAT solver answers. The inductive invariant      *)
(* relates what a scope keeps of its last SAT call - the proposal, the     *)
(* entry and the instance - to what its children were given of it. On it   *)
(* rest the proofs that the solver implements the recursion of Rounds and  *)
(* that the search never gets stuck before there is an answer.             *)
(***************************************************************************)
EXTENDS Solver, CircuitProofs

\* What the circuit and the two analyses of its interfaces look like; no step changes them.
Static ==
  /\ Shape(circuit)
  /\ b_lits = [s \in Scopes(circuit) |-> BLits(circuit, s)]
  /\ t_lits = [s \in Scopes(circuit) |-> TLits(circuit, s)]

\* Everything that is kept per scope is kept for every scope.
PerScope ==
  /\ DOMAIN sat = Scopes(circuit) /\ DOMAIN model = Scopes(circuit)
  /\ DOMAIN entry = Scopes(circuit) /\ DOMAIN assumptions = Scopes(circuit)
  /\ DOMAIN local_unsat_core = Scopes(circuit) /\ DOMAIN index = Scopes(circuit)

InLoop(s) == pc[s] \in {"children", "called"}

\* Where the loop over the children may be.
Places(s) ==
  /\ InLoop(s) => index[s] >= 1
  /\ pc[s] = "called" => index[s] <= NumNext(s) /\ AbstractionIsEnabled(s, CurrentChild(s))
  /\ pc[s] = "abort" => IsLeaf(s) \/ index[s] > NumNext(s)

\* What the proposal leaves to the children is off in it; a child that the loop has not
\* passed was given no more than that, and an objecting one keeps what it was given.
Handed(s) ==
  InLoop(s) =>
    /\ \A b \in assumptions[s] : -b \in model[s]
    /\ \A i \in index[s] .. NumNext(s) :
         pc[circuit.scope[s].next[i]] # "bad" =>
           entry[circuit.scope[s].next[i]] \subseteq
             EntryFor(s, circuit.scope[s].next[i], assumptions[s])

\* The clause is against the scope's proposal under its entry.
Against(s, cl) == cl \subseteq Opposite(model[s] \cup AssumedT(s))

\* As long as no child has objected, no clause of the instance is against the proposal;
\* once a child has, some clause is.
Stands(s) == InLoop(s) /\ result[s] = "good" => \A cl \in sat[s] : ~Against(s, cl)
Blocked(s) == InLoop(s) /\ result[s] = "bad" => \E cl \in sat[s] : Against(s, cl)

Round(s) == Places(s) /\ Handed(s) /\ Stands(s) /\ Blocked(s)
IInv == Static /\ PerScope /\ TypeOK /\ \A s \in Scopes(circuit) : Round(s)

-----------------------------------------------------------------------------
(***************************************************************************)
(* The tree of scopes and the interfaces.                                  *)
(***************************************************************************)
\* Parents, and the positions of their children.
LEMMA Tree ==
  ASSUME Shape(circuit)
  PROVE  /\ Scopes(circuit) = 1 .. Len(circuit.scope) /\ Len(circuit.scope) \in Nat
         /\ TopLevel \in Scopes(circuit)
         /\ \A s \in Scopes(circuit) :
              /\ NumNext(s) \in Nat /\ DOMAIN circuit.scope[s].next = 1 .. NumNext(s)
              /\ \A i \in 1 .. NumNext(s) :
                   /\ circuit.scope[s].next[i] \in Scopes(circuit) \ {TopLevel, s}
                   /\ Prev(circuit.scope[s].next[i]) = s
                   /\ \A j \in 1 .. NumNext(s) :
                        circuit.scope[s].next[i] = circuit.scope[s].next[j] => i = j
         /\ \A s \in Scopes(circuit) \ {TopLevel} :
              /\ Prev(s) \in Scopes(circuit) /\ Prev(s) # s
              /\ \E i \in 1 .. NumNext(Prev(s)) : circuit.scope[Prev(s)].next[i] = s
  <1> DEFINE Rec == [qtype : {"exists", "forall"}, prev : {0} \cup Scopes(circuit),
                     node : {0} \cup Nodes(circuit), next : Seq(Scopes(circuit))]
  <1>1. circuit.scope \in Seq(Rec)
    BY DEF Shape, CircuitType
  <1>2. Scopes(circuit) = 1 .. Len(circuit.scope) /\ Len(circuit.scope) \in Nat
    <2> HIDE DEF Rec
    <2> QED
      BY <1>1 DEF Scopes
  <1>3. ASSUME NEW s \in Scopes(circuit)
        PROVE  circuit.scope[s].next \in Seq(Scopes(circuit))
    <2>1. circuit.scope[s] \in Rec
      <3> HIDE DEF Rec
      <3> QED
        BY <1>1, <1>2
    <2> QED
      BY <2>1
  <1>4. ASSUME NEW s \in Scopes(circuit)
        PROVE  /\ NumNext(s) \in Nat /\ DOMAIN circuit.scope[s].next = 1 .. NumNext(s)
               /\ \A i \in 1 .. NumNext(s) : circuit.scope[s].next[i] \in Scopes(circuit)
    BY <1>3 DEF NumNext
  <1>5. ScopeTree(circuit)
    BY DEF Shape
  <1>6. ASSUME NEW s \in Scopes(circuit) \ {TopLevel}
        PROVE  /\ Prev(s) \in Scopes(circuit) /\ Prev(s) < s
               /\ \E i \in 1 .. NumNext(Prev(s)) : circuit.scope[Prev(s)].next[i] = s
    <2>1. Prev(s) \in 1 .. s - 1 /\ s \in Range(circuit.scope[Prev(s)].next)
      BY <1>5 DEF ScopeTree, Prev, Children
    <2>2. Prev(s) \in Scopes(circuit) /\ Prev(s) < s
      BY <1>2, <2>1
    <2> QED
      BY <1>4, <2>1, <2>2 DEF Range
  <1>7. ASSUME NEW s \in Scopes(circuit), NEW i \in 1 .. NumNext(s), NEW j \in 1 .. NumNext(s)
        PROVE  /\ Prev(circuit.scope[s].next[i]) = s
               /\ circuit.scope[s].next[i] = circuit.scope[s].next[j] => i = j
    BY <1>4, <1>5 DEF ScopeTree, Prev
  <1>8. Prev(TopLevel) = 0 /\ TopLevel \in Scopes(circuit) /\ 0 \notin Scopes(circuit)
    BY <1>2, <1>5 DEF ScopeTree, Prev
  <1>9. ASSUME NEW s \in Scopes(circuit), NEW i \in 1 .. NumNext(s)
        PROVE  circuit.scope[s].next[i] \in Scopes(circuit) \ {TopLevel, s}
    <2>1. circuit.scope[s].next[i] # TopLevel
      BY <1>7, <1>8
    <2>2. circuit.scope[s].next[i] \in Scopes(circuit) \ {TopLevel}
      BY <1>4, <2>1
    <2>3. Prev(circuit.scope[s].next[i]) < circuit.scope[s].next[i]
      BY <1>6, <2>2
    <2> QED
      BY <1>2, <1>7, <2>2, <2>3
  <1> QED
    BY <1>2, <1>4, <1>6, <1>7, <1>8, <1>9

\* The children in next order are the scopes whose parent the scope is; leaves have none.
LEMMA TreeChildren ==
  ASSUME Shape(circuit), NEW s \in Scopes(circuit)
  PROVE  /\ Children(circuit, s) = {circuit.scope[s].next[i] : i \in 1 .. NumNext(s)}
         /\ Children(circuit, s) = {t \in Scopes(circuit) \ {TopLevel} : Prev(t) = s}
         /\ IsLeaf(s) <=> Children(circuit, s) = {}
  <1>1. Children(circuit, s) = {circuit.scope[s].next[i] : i \in 1 .. NumNext(s)}
    BY Tree DEF Children, Range
  <1>2. Children(circuit, s) = {t \in Scopes(circuit) \ {TopLevel} : Prev(t) = s}
    <2>1. ASSUME NEW t \in Scopes(circuit) \ {TopLevel}, Prev(t) = s
          PROVE  \E i \in 1 .. NumNext(s) : circuit.scope[s].next[i] = t
      BY <2>1, Tree
    <2>2. \A i \in 1 .. NumNext(s) : /\ circuit.scope[s].next[i] \in Scopes(circuit) \ {TopLevel}
                                   /\ Prev(circuit.scope[s].next[i]) = s
      BY Tree
    <2> QED
      BY <1>1, <2>1, <2>2
  <1>3. IsLeaf(s) <=> Children(circuit, s) = {}
    <2>1. NumNext(s) \in Nat
      BY Tree
    <2>2. CASE NumNext(s) = 0
      BY <1>1, <2>2 DEF IsLeaf
    <2>3. CASE NumNext(s) # 0
      <3>1. 1 \in 1 .. NumNext(s)
        BY <2>1, <2>3
      <3> QED
        BY <1>1, <2>3, <3>1 DEF IsLeaf
    <2> QED
      BY <2>2, <2>3
  <1> QED
    BY <1>1, <1>2, <1>3

\* t-literals and b-literals are positive, and no t-literal is a node.
LEMMA Interfaces ==
  ASSUME Static, NEW s \in Scopes(circuit)
  PROVE  /\ b_lits[s] \subseteq Nodes(circuit) /\ Nodes(circuit) \subseteq Nat \ {0}
         /\ t_lits[s] \subseteq Nat \ {0}
         /\ \A t \in t_lits[s] : t \notin Nodes(circuit)
         /\ \A i \in Nodes(circuit) : TLitToVarId(circuit, TLit(circuit, i)) = i
  <1>1. MaxNum(circuit) \in Nat /\ Nodes(circuit) \subseteq Nat \ {0}
    BY NodeNumbers DEF Static
  <1>2. b_lits[s] \subseteq Nodes(circuit)
    BY InterfaceNumbers DEF Static
  <1>3. t_lits[s] \subseteq {TLit(circuit, i) : i \in Nodes(circuit)}
    BY InterfaceNumbers DEF Static
  <1> QED
    BY <1>1, <1>2, <1>3 DEF TLit, TLitToVarId, Nodes

-----------------------------------------------------------------------------
(***************************************************************************)
(* What a scope answers, and what it proposes.                             *)
(***************************************************************************)
\* A dual instance that refutes the proposal gives an answer that is part of the entry.
LEMMA DualAnswer ==
  ASSUME Static, PerScope, TypeOK, NEW s \in Scopes(circuit), NEW m, DualPropagation(s, m)
  PROVE  /\ DOMAIN entry' = Scopes(circuit) /\ entry'[s] \subseteq entry[s]
         /\ \A u \in Scopes(circuit) \ {s} : entry'[u] = entry[u]
         /\ pc' = [pc EXCEPT ![s] = "good"] \/ pc' = [pc EXCEPT ![s] = "abort"]
  <1> DEFINE reported == Negative(AssumedTDual(s))
  <1>1. entry[s] \subseteq t_lits[s] /\ t_lits[s] \subseteq Nat \ {0}
    BY Interfaces DEF TypeOK
  <1>2. ASSUME NEW failed \in SUBSET reported
        PROVE  Opposite(failed) \subseteq entry[s]
    <2>1. AssumedTDual(s) = {-l : l \in AssumedT(s)}
      BY DEF AssumedTDual, Opposite
    <2>2. AssumedT(s) = entry[s] \cup {-l : l \in t_lits[s] \ entry[s]}
      BY DEF AssumedT, Opposite
    <2>3. \A l \in reported : -l \in entry[s]
      BY <1>1, <2>1, <2>2 DEF Negative
    <2> QED
      BY <2>3 DEF Opposite
  <1>3. \/ pc' = [pc EXCEPT ![s] = "abort"] /\ UNCHANGED entry
        \/ \E failed \in SUBSET reported :
             /\ entry' = [entry EXCEPT ![s] = Opposite(failed)]
             /\ pc' = [pc EXCEPT ![s] = "good"]
    BY DEF DualPropagation, FailedSets
  <1> HIDE DEF reported
  <1> QED
    BY <1>2, <1>3 DEF PerScope

\* An unsatisfiable instance gives an answer that is outside the entry.
LEMMA UnsatAnswer ==
  ASSUME Static, PerScope, TypeOK, NEW s \in Scopes(circuit), SolveUnsat(s)
  PROVE  /\ DOMAIN entry' = Scopes(circuit) /\ entry'[s] \subseteq t_lits[s] \ entry[s]
         /\ \A u \in Scopes(circuit) \ {s} : entry'[u] = entry[u]
  <1> DEFINE reported == Negative(AssumedT(s))
  <1>1. entry[s] \subseteq t_lits[s] /\ t_lits[s] \subseteq Nat \ {0}
    BY Interfaces DEF TypeOK
  <1>2. ASSUME NEW failed \in SUBSET reported
        PROVE  Opposite(failed) \subseteq t_lits[s] \ entry[s]
    <2>1. AssumedT(s) = entry[s] \cup {-l : l \in t_lits[s] \ entry[s]}
      BY DEF AssumedT, Opposite
    <2>2. \A l \in reported : -l \in t_lits[s] \ entry[s]
      BY <1>1, <2>1 DEF Negative
    <2> QED
      BY <2>2 DEF Opposite
  <1>3. \E failed \in SUBSET reported : entry' = [entry EXCEPT ![s] = Opposite(failed)]
    BY DEF SolveUnsat, FailedSets
  <1> HIDE DEF reported
  <1> QED
    BY <1>2, <1>3 DEF PerScope

\* No clause of the instance is against a model under the entry.
LEMMA ModelStands ==
  ASSUME Static, PerScope, TypeOK, NEW s \in Scopes(circuit), NEW mm \in Models(s),
         NEW cl \in sat[s]
  PROVE  ~(cl \subseteq Opposite(ObservedLits(s, mm) \cup AssumedT(s)))
  <1> DEFINE named == ScopeVars(circuit, s) \cup b_lits[s]
             free  == named \ Atoms(AssumedT(s))
  <1>1. PICK pos \in SUBSET free :
          mm = AssumedT(s) \cup {IF a \in pos THEN a ELSE -a : a \in free}
    BY DEF Models, SatModels
  <1>2. Satisfiable(sat[s], mm)
    BY DEF Models, SatModels
  <1>3. /\ entry[s] \subseteq t_lits[s] /\ t_lits[s] \subseteq Nat \ {0}
        /\ free \subseteq Nat \ {0}
    BY Interfaces DEF TypeOK, ScopeVars
  <1>4. \A l \in mm : l \in Int /\ -l \notin mm
    <2>1. \A l \in AssumedT(s) : l \in Int /\ l # 0 /\ -l \notin AssumedT(s) /\ Abs(l) \notin free
      BY <1>3 DEF AssumedT, Opposite, Atoms, Abs
    <2> HIDE DEF free
    <2> QED
      BY <1>1, <1>3, <2>1 DEF Abs
  <1>5. SUFFICES ASSUME cl \subseteq Opposite(ObservedLits(s, mm) \cup AssumedT(s))
                 PROVE  FALSE
    OBVIOUS
  <1>6. cl \subseteq Opposite(mm)
    BY <1>1, <1>5 DEF ObservedLits, Opposite
  <1>7. cl \cap mm = {}
    BY <1>4, <1>6 DEF Opposite
  <1>8. cl \ Opposite(mm) = {}
    BY <1>6
  <1>9. {} \in Under(sat[s], mm)
    BY <1>7, <1>8 DEF Under
  <1> QED
    BY <1>2, <1>9 DEF Satisfiable, Inconsistent

\* Values name scopes, before and after they are set and evaluated.
LEMMA ValuesNameScopes ==
  ASSUME Static, TypeOK, NEW s \in Scopes(circuit), NEW m
  PROVE  /\ SetValueAndEvaluate(s, m)
              \in [Nodes(circuit) -> -Len(circuit.scope) .. Len(circuit.scope)]
         /\ s > 1 => EvaluateMax(circuit, value, s - 1)
                       \in [Nodes(circuit) -> -Len(circuit.scope) .. Len(circuit.scope)]
  <1> DEFINE V == -Len(circuit.scope) .. Len(circuit.scope)
             own == ScopeVars(circuit, s)
             v == [i \in Nodes(circuit) |->
                     IF i \in own THEN (IF i \in m THEN s ELSE -s) ELSE value[i]]
  <1>1. Shape(circuit) /\ value \in [Nodes(circuit) -> V]
    BY DEF Static, TypeOK
  <1>2. Values(V) /\ s \in V /\ -s \in V /\ (s > 1 => s - 1 \in V)
    BY <1>1, Tree DEF Values
  <1>3. SetValueAndEvaluate(s, m) = IF minimize THEN EvaluateMax(circuit, v, s) ELSE v
    BY DEF SetValueAndEvaluate
  <1> HIDE DEF V, own
  <1>4. v \in [Nodes(circuit) -> V]
    BY <1>1, <1>2
  <1> HIDE DEF v
  <1>5. EvaluateMax(circuit, v, s) \in [Nodes(circuit) -> V]
    BY <1>1, <1>2, <1>4, EvaluationType
  <1>6. SetValueAndEvaluate(s, m) \in [Nodes(circuit) -> V]
    BY <1>3, <1>4, <1>5
  <1>7. s > 1 => EvaluateMax(circuit, value, s - 1) \in [Nodes(circuit) -> V]
    BY <1>1, <1>2, EvaluationType
  <1> QED
    BY <1>6, <1>7 DEF V

-----------------------------------------------------------------------------
(***************************************************************************)
(* Who is called: the ways in which steps move the scopes.                 *)
(***************************************************************************)
CallsMatch == \A u \in Scopes(circuit) \ {TopLevel} : CalledByParent(u)

\* A scope moves on that calls nobody, and is not called.
LEMMA OwnMove ==
  ASSUME Shape(circuit), circuit' = circuit, CallsMatch, pc \in [Scopes(circuit) -> PcValues],
         NEW s \in Scopes(circuit), NEW x, x \notin {"idle", "called"},
         pc[s] \notin {"idle", "called"}, pc' = [pc EXCEPT ![s] = x],
         \A u \in Scopes(circuit) \ {s} : index'[u] = index[u]
  PROVE  CallsMatch'
  <1> SUFFICES ASSUME NEW u \in Scopes(circuit) \ {TopLevel}
               PROVE  CalledByParent(u)'
    BY DEF CallsMatch, Scopes
  <1>1. Prev(u) \in Scopes(circuit) /\ Prev(u) # u /\ Prev(u)' = Prev(u)
    BY Tree DEF Prev
  <1>2. CalledByParent(u)
    BY DEF CallsMatch
  <1>3. CASE Prev(u) = s
    BY <1>1, <1>2, <1>3 DEF CalledByParent
  <1>4. CASE Prev(u) # s
    <2>1. CurrentChild(Prev(u))' = CurrentChild(Prev(u))
      BY <1>1, <1>4 DEF CurrentChild
    <2> QED
      BY <1>1, <1>2, <1>4, <2>1 DEF CalledByParent
  <1> QED
    BY <1>3, <1>4

\* A scope in its loop calls its current child.
LEMMA CallMove ==
  ASSUME Shape(circuit), circuit' = circuit, CallsMatch, pc \in [Scopes(circuit) -> PcValues],
         NEW s \in Scopes(circuit), pc[s] = "children", index[s] \in 1 .. NumNext(s),
         pc' = [pc EXCEPT ![s] = "called", ![CurrentChild(s)] = "solve"], index' = index
  PROVE  CallsMatch'
  <1> SUFFICES ASSUME NEW u \in Scopes(circuit) \ {TopLevel}
               PROVE  CalledByParent(u)'
    BY DEF CallsMatch, Scopes
  <1>1. Prev(u) \in Scopes(circuit) /\ Prev(u) # u /\ Prev(u)' = Prev(u)
    BY Tree DEF Prev
  <1>2. CalledByParent(u)
    BY DEF CallsMatch
  <1>3. /\ CurrentChild(s) \in Scopes(circuit) \ {TopLevel, s} /\ Prev(CurrentChild(s)) = s
        /\ CurrentChild(Prev(u))' = CurrentChild(Prev(u))
    BY <1>1, Tree DEF CurrentChild
  <1>4. Prev(u) # CurrentChild(s) \/ pc[CurrentChild(s)] = "idle"
    <2>1. CalledByParent(CurrentChild(s))
      BY <1>3 DEF CallsMatch
    <2> QED
      BY <1>3, <2>1 DEF CalledByParent
  <1> QED
    BY <1>1, <1>2, <1>3, <1>4 DEF CalledByParent

\* The current child returns.
LEMMA ReturnMove ==
  ASSUME Shape(circuit), circuit' = circuit, CallsMatch, pc \in [Scopes(circuit) -> PcValues],
         NEW s \in Scopes(circuit), pc[s] = "called", index[s] \in 1 .. NumNext(s),
         pc[CurrentChild(s)] \in {"good", "bad"},
         pc' = [pc EXCEPT ![s] = "children", ![CurrentChild(s)] = "idle"],
         \A u \in Scopes(circuit) \ {s} : index'[u] = index[u]
  PROVE  CallsMatch'
  <1> SUFFICES ASSUME NEW u \in Scopes(circuit) \ {TopLevel}
               PROVE  CalledByParent(u)'
    BY DEF CallsMatch, Scopes
  <1>1. Prev(u) \in Scopes(circuit) /\ Prev(u) # u /\ Prev(u)' = Prev(u)
    BY Tree DEF Prev
  <1>2. CalledByParent(u)
    BY DEF CallsMatch
  <1>3. CurrentChild(s) \in Scopes(circuit) \ {TopLevel, s} /\ Prev(CurrentChild(s)) = s
    BY Tree DEF CurrentChild
  <1>4. CASE Prev(u) = s
    BY <1>1, <1>2, <1>3, <1>4 DEF CalledByParent
  <1>5. CASE Prev(u) # s
    <2>1. CurrentChild(Prev(u))' = CurrentChild(Prev(u))
      BY <1>1, <1>5 DEF CurrentChild
    <2> QED
      BY <1>1, <1>2, <1>3, <1>5, <2>1 DEF CalledByParent
  <1> QED
    BY <1>4, <1>5

-----------------------------------------------------------------------------
(***************************************************************************)
(* Scopes whose round a step does not touch.                               *)
(***************************************************************************)
\* Outside of its loop a scope owes nothing.
LEMMA NoRound ==
  ASSUME NEW u \in Scopes(circuit), pc'[u] \notin {"children", "called"},
         pc'[u] = "abort" => (IsLeaf(u) \/ index[u] > NumNext(u))'
  PROVE  Round(u)'
  BY DEF Round, Places, Handed, Stands, Blocked, InLoop

\* Inside, nothing changes that its proposal depends on, and its children keep at most
\* what they have of it.
LEMMA SameRound ==
  ASSUME Static, circuit' = circuit, b_lits' = b_lits, t_lits' = t_lits,
         NEW u \in Scopes(circuit), Round(u),
         pc'[u] = pc[u], index'[u] = index[u], sat'[u] = sat[u], model'[u] = model[u],
         entry'[u] = entry[u], assumptions'[u] = assumptions[u], result'[u] = result[u],
         index[u] \in Nat,
         \A t \in Scopes(circuit) \ {TopLevel} :
           Prev(t) = u /\ pc'[t] # "bad" => pc[t] # "bad" /\ entry'[t] \subseteq entry[t]
  PROVE  Round(u)'
  <1>1. /\ NumNext(u)' = NumNext(u) /\ IsLeaf(u)' = IsLeaf(u) /\ InLoop(u)' = InLoop(u)
        /\ CurrentChild(u)' = CurrentChild(u) /\ AssumedT(u)' = AssumedT(u)
    BY DEF NumNext, IsLeaf, InLoop, CurrentChild, AssumedT
  <1>2. \A t : AbstractionIsEnabled(u, t)' = AbstractionIsEnabled(u, t)
    BY DEF AbstractionIsEnabled, InPrefix
  <1>3. \A t, as : EntryFor(u, t, as)' = EntryFor(u, t, as)
    BY DEF EntryFor, TLit, TLitToVarId, MaxNum
  <1>4. Places(u)'
    BY <1>1, <1>2 DEF Round, Places
  <1>5. Handed(u)'
    <2> SUFFICES ASSUME InLoop(u)
                 PROVE  /\ \A b \in assumptions[u] : -b \in model[u]
                        /\ \A i \in index[u] .. NumNext(u) :
                             pc'[circuit.scope[u].next[i]] # "bad" =>
                               entry'[circuit.scope[u].next[i]] \subseteq
                                 EntryFor(u, circuit.scope[u].next[i], assumptions[u])
      BY <1>1, <1>3 DEF Handed
    <2>1. \A i \in index[u] .. NumNext(u) : i \in 1 .. NumNext(u)
      BY Tree DEF Static, Round, Places
    <2>2. \A i \in index[u] .. NumNext(u) :
            /\ circuit.scope[u].next[i] \in Scopes(circuit) \ {TopLevel}
            /\ Prev(circuit.scope[u].next[i]) = u
      BY <2>1, Tree DEF Static
    <2> QED
      BY <2>2 DEF Round, Handed
  <1>6. Stands(u)' /\ Blocked(u)'
    BY <1>1 DEF Round, Stands, Blocked, Against
  <1> QED
    BY <1>4, <1>5, <1>6 DEF Round


\* A step of s that also moves some children of s leaves the rounds of all others alone, as
\* long as s keeps at most what it has of its own entry, or gives up.
LEMMA OtherRounds ==
  ASSUME IInv, UNCHANGED config, NEW s \in Scopes(circuit), NEW D, \A t \in D : Prev(t) = s,
         \A u \in Scopes(circuit) \ (D \cup {s}) :
           /\ pc'[u] = pc[u] /\ index'[u] = index[u] /\ sat'[u] = sat[u] /\ model'[u] = model[u]
           /\ entry'[u] = entry[u] /\ assumptions'[u] = assumptions[u] /\ result'[u] = result[u],
         pc'[s] # "bad" => pc[s] # "bad" /\ entry'[s] \subseteq entry[s]
  PROVE  \A u \in Scopes(circuit) \ (D \cup {s}) : Round(u)'
  <1> TAKE u \in Scopes(circuit) \ (D \cup {s})
  <1>1. \A t \in Scopes(circuit) \ {TopLevel} :
          Prev(t) = u /\ pc'[t] # "bad" => pc[t] # "bad" /\ entry'[t] \subseteq entry[t]
    OBVIOUS
  <1>2. Static /\ Round(u) /\ index[u] \in Nat
    BY Tree DEF IInv, TypeOK, Static
  <1>3. circuit' = circuit /\ b_lits' = b_lits /\ t_lits' = t_lits
    BY DEF config
  <1> QED
    BY <1>1, <1>2, <1>3, SameRound

-----------------------------------------------------------------------------
(***************************************************************************)
(* The inductive invariant, part by part.                                  *)
(***************************************************************************)
\* What is to be shown of a step.
LEMMA Composed ==
  ASSUME Static, UNCHANGED config, PerScope', minimize \in BOOLEAN,
         value' \in [Nodes(circuit) -> -Len(circuit.scope) .. Len(circuit.scope)],
         pc' \in [Scopes(circuit) -> PcValues],
         result' \in [Scopes(circuit) -> {"none", "good", "bad"}],
         CallsMatch',
         \A u \in Scopes(circuit) :
           /\ index'[u] \in 0 .. NumNext(u) + 1
           /\ entry'[u] \subseteq t_lits[u]
           /\ assumptions'[u] \subseteq b_lits[u]
           /\ local_unsat_core'[u] \subseteq UNION {t_lits[t] : t \in Children(circuit, u)}
           /\ Round(u)'
  PROVE  IInv'
  <1>1. circuit' = circuit /\ minimize' = minimize /\ b_lits' = b_lits /\ t_lits' = t_lits
    BY DEF config
  <1>2. Static'
    BY <1>1 DEF Static
  <1>3. \A u : NumNext(u)' = NumNext(u)
    BY <1>1 DEF NumNext
  <1>4. TypeOK'
    BY <1>1, <1>3 DEF TypeOK, CallsMatch
  <1> QED
    BY <1>1, <1>2, <1>4 DEF IInv

\* What the invariant says of types.
LEMMA Types ==
  ASSUME IInv
  PROVE  /\ Shape(circuit) /\ minimize \in BOOLEAN
         /\ value \in [Nodes(circuit) -> -Len(circuit.scope) .. Len(circuit.scope)]
         /\ pc \in [Scopes(circuit) -> PcValues]
         /\ result \in [Scopes(circuit) -> {"none", "good", "bad"}]
         /\ CallsMatch
         /\ \A u \in Scopes(circuit) :
              /\ index[u] \in 0 .. NumNext(u) + 1 /\ index[u] \in Nat /\ NumNext(u) \in Nat
              /\ entry[u] \subseteq t_lits[u]
              /\ assumptions[u] \subseteq b_lits[u]
              /\ local_unsat_core[u] \subseteq UNION {t_lits[t] : t \in Children(circuit, u)}
              /\ Round(u)
  <1>1. Static /\ TypeOK /\ Shape(circuit)
    BY DEF IInv, Static
  <1>2. \A u \in Scopes(circuit) : NumNext(u) \in Nat /\ index[u] \in 0 .. NumNext(u) + 1
    BY <1>1, Tree DEF TypeOK
  <1> QED
    BY <1>1, <1>2 DEF TypeOK, CallsMatch, IInv

\* Before the first call nothing is proposed, so nothing was handed to anybody.
LEMMA InitInv == Init => IInv
  <1> SUFFICES ASSUME Init
               PROVE  IInv
    OBVIOUS
  <1>1. Shape(circuit)
    BY CircuitsWellFormed, WellFormedShape, AnnotatedShape DEF Init
  <1>2. Static /\ PerScope
    BY <1>1 DEF Init, Static, PerScope
  <1>3. /\ pc = [s \in Scopes(circuit) |-> IF s = TopLevel THEN "solve" ELSE "idle"]
        /\ index = [s \in Scopes(circuit) |-> 0]
        /\ entry = [s \in Scopes(circuit) |-> {}]
        /\ assumptions = [s \in Scopes(circuit) |-> {}]
        /\ local_unsat_core = [s \in Scopes(circuit) |-> {}]
        /\ result = [s \in Scopes(circuit) |-> "none"]
        /\ value = [i \in Nodes(circuit) |-> 0] /\ minimize \in BOOLEAN
    BY DEF Init
  <1>4. \A s \in Scopes(circuit) \ {TopLevel} : CalledByParent(s)
    BY <1>1, <1>3, Tree DEF CalledByParent
  <1>5. \A s \in Scopes(circuit) : index[s] \in 0 .. NumNext(s) + 1
    BY <1>1, <1>3, Tree
  <1>6. 0 \in -Len(circuit.scope) .. Len(circuit.scope)
    BY <1>1, Tree
  <1>7. value \in [Nodes(circuit) -> -Len(circuit.scope) .. Len(circuit.scope)]
    BY <1>3, <1>6
  <1>8. TypeOK
    BY <1>3, <1>4, <1>5, <1>7 DEF TypeOK, PcValues
  <1>9. \A s \in Scopes(circuit) : Round(s)
    BY <1>3 DEF Round, Places, Handed, Stands, Blocked, InLoop
  <1> QED
    BY <1>2, <1>8, <1>9 DEF IInv


-----------------------------------------------------------------------------
(***************************************************************************)
(* Every step preserves the invariant.                                     *)
(***************************************************************************)
\* A scope that answers, or fails, after its dual instance was asked.
LEMMA DualAnswerInv ==
  ASSUME IInv, NEW s \in Scopes(circuit), NEW m, DualPropagation(s, m),
         UNCHANGED <<config, sat, assumptions, local_unsat_core, result, index>>,
         DOMAIN model' = Scopes(circuit), \A u \in Scopes(circuit) \ {s} : model'[u] = model[u],
         value' \in [Nodes(circuit) -> -Len(circuit.scope) .. Len(circuit.scope)],
         \/ pc[s] = "solve" /\ IsLeaf(s)
         \/ pc[s] = "children" /\ index[s] > NumNext(s)
  PROVE  IInv'
  <1>1. Static /\ PerScope /\ TypeOK
    BY DEF IInv
  <1>2. PICK x \in {"good", "abort"} : pc' = [pc EXCEPT ![s] = x]
    BY <1>1, DualAnswer
  <1>3. /\ DOMAIN entry' = Scopes(circuit) /\ entry'[s] \subseteq entry[s]
        /\ \A u \in Scopes(circuit) \ {s} : entry'[u] = entry[u]
    BY <1>1, DualAnswer
  <1>4. PerScope'
    BY <1>1, <1>3 DEF PerScope, config
  <1>5. pc' \in [Scopes(circuit) -> PcValues]
    BY <1>2, Types DEF PcValues
  <1>6. CallsMatch'
    BY <1>2, Types, OwnMove DEF config
  <1>7. \A u \in Scopes(circuit) \ {s} : pc'[u] = pc[u]
    BY <1>2, Types
  <1>8. pc'[s] \in {"good", "abort"}
    BY <1>2, Types
  <1>9. Round(s)'
    BY <1>8, NoRound DEF config, IsLeaf, NumNext
  <1>10. \A u \in Scopes(circuit) \ ({} \cup {s}) : Round(u)'
    BY <1>3, <1>7, OtherRounds
  <1>11. \A u \in Scopes(circuit) : entry'[u] \subseteq t_lits[u]
    BY <1>3, Types
  <1> QED
    BY <1>1, <1>4, <1>5, <1>6, <1>9, <1>10, <1>11, Types, Composed

\* A leaf finds a model: it takes part in no round, and its answer is within its entry.
LEMMA SolveLeafInv ==
  ASSUME IInv, NEW s \in Scopes(circuit), SolveLeaf(s)
  PROVE  IInv'
  <1>1. PICK m : /\ model' = [model EXCEPT ![s] = m]
                 /\ value' = SetValueAndEvaluate(s, m) /\ DualPropagation(s, m)
    BY DEF SolveLeaf
  <1>2. /\ pc[s] = "solve" /\ IsLeaf(s)
        /\ UNCHANGED <<config, sat, assumptions, local_unsat_core, result, index>>
    BY DEF SolveLeaf
  <1>3. Static /\ PerScope /\ TypeOK
    BY DEF IInv
  <1>4. value' \in [Nodes(circuit) -> -Len(circuit.scope) .. Len(circuit.scope)]
    BY <1>1, <1>3, ValuesNameScopes
  <1>5. DOMAIN model' = Scopes(circuit) /\ \A u \in Scopes(circuit) \ {s} : model'[u] = model[u]
    BY <1>1, <1>3 DEF PerScope
  <1>6. DualPropagation(s, m)
    BY <1>1
  <1> QED
    BY <1>2, <1>4, <1>5, <1>6, DualAnswerInv

\* The loop is over with every child in agreement: dual propagation makes the answer.
LEMMA AllAgreedInv ==
  ASSUME IInv, NEW s \in Scopes(circuit), AllAgreed(s)
  PROVE  IInv'
  <1>1. /\ pc[s] = "children" /\ index[s] > NumNext(s)
        /\ DualPropagation(s, model[s]) /\ value' = value /\ model' = model
        /\ UNCHANGED <<config, sat, assumptions, local_unsat_core, result, index>>
    BY DEF AllAgreed
  <1>2. DOMAIN model' = Scopes(circuit)
    BY <1>1 DEF IInv, PerScope
  <1> QED
    BY <1>1, <1>2, Types, DualAnswerInv

\* The SAT solver refuses: the scope leaves its loop, and what was handed down is of no
\* more use to it.
LEMMA SolveUnsatInv ==
  ASSUME IInv, NEW s \in Scopes(circuit), SolveUnsat(s)
  PROVE  IInv'
  <1>1. Static /\ PerScope /\ TypeOK
    BY DEF IInv
  <1>2. /\ pc[s] = "solve" /\ pc' = [pc EXCEPT ![s] = "bad"]
        /\ UNCHANGED <<config, sat, negation, value, model, assumptions, local_unsat_core,
                       result, index>>
    BY DEF SolveUnsat
  <1>3. /\ DOMAIN entry' = Scopes(circuit) /\ entry'[s] \subseteq t_lits[s]
        /\ \A u \in Scopes(circuit) \ {s} : entry'[u] = entry[u]
    BY <1>1, UnsatAnswer
  <1>4. PerScope'
    BY <1>1, <1>2, <1>3 DEF PerScope, config
  <1>5. pc' \in [Scopes(circuit) -> PcValues] /\ pc'[s] = "bad"
    BY <1>2, Types DEF PcValues
  <1>6. CallsMatch'
    BY <1>2, Types, OwnMove DEF config
  <1>7. Round(s)'
    BY <1>5, NoRound
  <1>8. \A u \in Scopes(circuit) \ ({} \cup {s}) : Round(u)'
    BY <1>2, <1>3, <1>5, Types, OtherRounds
  <1>9. \A u \in Scopes(circuit) : entry'[u] \subseteq t_lits[u]
    BY <1>3, Types
  <1> QED
    BY <1>1, <1>2, <1>4, <1>5, <1>6, <1>7, <1>8, <1>9, Types, Composed

\* The loop is over with an objection: the scope solves again, without a proposal.
LEMMA RetryInv ==
  ASSUME IInv, NEW s \in Scopes(circuit), Retry(s)
  PROVE  IInv'
  <1>1. Static /\ PerScope /\ TypeOK
    BY DEF IInv
  <1>2. /\ pc[s] = "children" /\ pc' = [pc EXCEPT ![s] = "solve"]
        /\ UNCHANGED <<config, sat, negation, value, model, entry, assumptions,
                       local_unsat_core, result, index>>
    BY DEF Retry
  <1>3. PerScope'
    BY <1>1, <1>2 DEF PerScope, config
  <1>4. pc' \in [Scopes(circuit) -> PcValues] /\ pc'[s] = "solve"
    BY <1>2, Types DEF PcValues
  <1>5. CallsMatch'
    BY <1>2, Types, OwnMove DEF config
  <1>6. Round(s)'
    BY <1>4, NoRound
  <1>7. \A u \in Scopes(circuit) \ ({} \cup {s}) : Round(u)'
    BY <1>2, <1>4, Types, OtherRounds
  <1> QED
    BY <1>1, <1>2, <1>3, <1>4, <1>5, <1>6, <1>7, Types, Composed


\* A new proposal: the SAT solver's model satisfies every clause of the instance, so none
\* is against it, and each child was given what EntryFor makes of the proposal.
LEMMA SolveInnerInv ==
  ASSUME IInv, NEW s \in Scopes(circuit), SolveInner(s)
  PROVE  IInv'
  <1>1. Static /\ PerScope /\ TypeOK
    BY DEF IInv
  <1>2. PICK m \in {ObservedLits(s, mm) : mm \in Models(s)} :
          /\ model' = [model EXCEPT ![s] = m]
          /\ value' = SetValueAndEvaluate(s, m)
          /\ LET as == Assumptions(s, m, value')
             IN  /\ assumptions' = [assumptions EXCEPT ![s] = as]
                 /\ entry' = [t \in Scopes(circuit) |->
                                IF t \in Children(circuit, s) THEN EntryFor(s, t, as) ELSE entry[t]]
    BY DEF SolveInner
  <1>3. /\ pc[s] = "solve" /\ ~IsLeaf(s)
        /\ result' = [result EXCEPT ![s] = "good"]
        /\ local_unsat_core' = [local_unsat_core EXCEPT ![s] = {}]
        /\ index' = [index EXCEPT ![s] = 1]
        /\ pc' = [pc EXCEPT ![s] = "children"]
        /\ UNCHANGED <<config, sat, negation>>
    BY DEF SolveInner
  <1> DEFINE as == Assumptions(s, m, value')
  <1>4. as \subseteq b_lits[s] /\ \A b \in as : -b \in m
    BY DEF Assumptions
  <1> HIDE DEF as
  <1>5. PerScope'
    BY <1>1, <1>2, <1>3 DEF PerScope, config
  <1>6. value' \in [Nodes(circuit) -> -Len(circuit.scope) .. Len(circuit.scope)]
    BY <1>1, <1>2, ValuesNameScopes
  <1>7. pc' \in [Scopes(circuit) -> PcValues] /\ pc'[s] = "children"
    BY <1>3, Types DEF PcValues
  <1>8. result' \in [Scopes(circuit) -> {"none", "good", "bad"}] /\ result'[s] = "good"
    BY <1>3, Types
  <1>9. /\ \A u \in Scopes(circuit) \ {s} : /\ pc'[u] = pc[u] /\ index'[u] = index[u]
                                           /\ model'[u] = model[u] /\ result'[u] = result[u]
                                           /\ assumptions'[u] = assumptions[u]
                                           /\ local_unsat_core'[u] = local_unsat_core[u]
        /\ index'[s] = 1 /\ model'[s] = m /\ assumptions'[s] = as /\ local_unsat_core'[s] = {}
    BY <1>1, <1>2, <1>3, Types DEF PerScope, as
  <1>10. CallsMatch'
    BY <1>3, <1>9, Types, OwnMove DEF config
  <1>11. /\ \A t \in Children(circuit, s) : t \in Scopes(circuit) \ {TopLevel, s} /\ Prev(t) = s
         /\ NumNext(s) \in Nat /\ NumNext(s) >= 1
         /\ \A i \in 1 .. NumNext(s) : circuit.scope[s].next[i] \in Children(circuit, s)
    BY <1>1, <1>3, Tree, TreeChildren DEF Static, IsLeaf
  <1>12. \A t \in Children(circuit, s) : entry'[t] = EntryFor(s, t, as)
    BY <1>2, <1>11 DEF as
  <1>13. \A t \in Scopes(circuit) \ Children(circuit, s) : entry'[t] = entry[t]
    BY <1>2
  <1>14. \A u \in Children(circuit, s) : Round(u)'
    <2> TAKE u \in Children(circuit, s)
    <2>1. CalledByParent(u) /\ u \in Scopes(circuit) \ {TopLevel, s}
      BY <1>11, Types DEF CallsMatch
    <2>2. pc'[u] = "idle"
      BY <1>3, <1>9, <1>11, <2>1 DEF CalledByParent
    <2> QED
      BY <2>1, <2>2, NoRound
  <1>15. \A u \in Scopes(circuit) \ (Children(circuit, s) \cup {s}) : Round(u)'
    <2>1. s \notin Children(circuit, s)
      BY <1>11
    <2> QED
      BY <1>3, <1>7, <1>9, <1>11, <1>13, <2>1, OtherRounds
  <1>16. /\ circuit' = circuit /\ b_lits' = b_lits /\ t_lits' = t_lits /\ entry'[s] = entry[s]
         /\ sat' = sat
    BY <1>3, <1>11, <1>13 DEF config
  <1>17. AssumedT(s)' = AssumedT(s) /\ NumNext(s)' = NumNext(s)
    BY <1>16 DEF AssumedT, NumNext
  <1>18. Places(s)'
    BY <1>7, <1>9 DEF Places
  <1>19. Handed(s)'
    <2>1. \A t, a : EntryFor(s, t, a)' = EntryFor(s, t, a)
      BY <1>16 DEF EntryFor, TLit, TLitToVarId, MaxNum
    <2>2. \A i \in 1 .. NumNext(s) : entry'[circuit.scope[s].next[i]] \subseteq
                                      EntryFor(s, circuit.scope[s].next[i], as)
      BY <1>11, <1>12
    <2> SUFFICES /\ \A b \in assumptions'[s] : -b \in model'[s]
                 /\ \A i \in index'[s] .. NumNext(s) :
                      entry'[circuit.scope[s].next[i]] \subseteq
                        EntryFor(s, circuit.scope[s].next[i], assumptions'[s])
      BY <1>16, <1>17, <2>1 DEF Handed
    <2> QED
      BY <1>4, <1>9, <2>2
  <1>20. Stands(s)' /\ Blocked(s)'
    <2>1. \A cl \in sat[s] : ~(cl \subseteq Opposite(m \cup AssumedT(s)))
      BY <1>1, <1>2, ModelStands
    <2> QED
      BY <1>8, <1>9, <1>16, <1>17, <2>1 DEF Stands, Blocked, Against
  <1>21. Round(s)'
    BY <1>18, <1>19, <1>20 DEF Round
  <1>22. \A u \in Scopes(circuit) : Round(u)'
    BY <1>14, <1>15, <1>21
  <1>23. \A u \in Scopes(circuit) : entry'[u] \subseteq t_lits[u]
    BY <1>12, <1>13, Types DEF EntryFor
  <1>24. \A u \in Scopes(circuit) :
           /\ index'[u] \in 0 .. NumNext(u) + 1 /\ assumptions'[u] \subseteq b_lits[u]
           /\ local_unsat_core'[u] \subseteq UNION {t_lits[t] : t \in Children(circuit, u)}
    <2> TAKE u \in Scopes(circuit)
    <2>1. CASE u = s
      <3>1. index'[s] \in 0 .. NumNext(s) + 1
        BY <1>9, <1>11
      <3> QED
        BY <1>4, <1>9, <2>1, <3>1
    <2>2. CASE u # s
      BY <1>9, <2>2, Types
    <2> QED
      BY <2>1, <2>2
  <1> QED
    BY <1>1, <1>3, <1>5, <1>6, <1>7, <1>8, <1>10, <1>22, <1>23, <1>24, Types, Composed


\* The loop over the children stays at its place or moves on.
LEMMA StillHanded ==
  ASSUME IInv, NEW s \in Scopes(circuit), InLoop(s), index[s] \in 1 .. NumNext(s),
         UNCHANGED <<config, model, entry, assumptions>>,
         index'[s] \in {index[s], index[s] + 1},
         \A i \in index'[s] .. NumNext(s) :
           pc'[circuit.scope[s].next[i]] # "bad" => pc[circuit.scope[s].next[i]] # "bad"
  PROVE  Handed(s)'
  <1>1. /\ circuit' = circuit /\ b_lits' = b_lits /\ t_lits' = t_lits /\ entry' = entry
        /\ model' = model /\ assumptions' = assumptions /\ NumNext(s)' = NumNext(s)
    BY DEF config, NumNext
  <1>2. \A t, a : EntryFor(s, t, a)' = EntryFor(s, t, a)
    BY <1>1 DEF EntryFor, TLit, TLitToVarId, MaxNum
  <1>3. Handed(s) /\ NumNext(s) \in Nat
    BY Types DEF Round
  <1>4. \A i \in index'[s] .. NumNext(s) : i \in index[s] .. NumNext(s)
    BY <1>3
  <1> SUFFICES /\ \A b \in assumptions[s] : -b \in model[s]
               /\ \A i \in index'[s] .. NumNext(s) :
                    pc'[circuit.scope[s].next[i]] # "bad" =>
                      entry[circuit.scope[s].next[i]] \subseteq
                        EntryFor(s, circuit.scope[s].next[i], assumptions[s])
    BY <1>1, <1>2 DEF Handed
  <1> QED
    BY <1>3, <1>4 DEF Handed

\* The current child, and those behind it.
LEMMA Current ==
  ASSUME IInv, NEW s \in Scopes(circuit), index[s] \in 1 .. NumNext(s)
  PROVE  /\ CurrentChild(s) \in Scopes(circuit) \ {TopLevel, s} /\ Prev(CurrentChild(s)) = s
         /\ CurrentChild(s) \in Children(circuit, s)
         /\ \A i \in 1 .. NumNext(s) :
              /\ circuit.scope[s].next[i] \in Scopes(circuit) \ {TopLevel, s}
              /\ circuit.scope[s].next[i] = CurrentChild(s) => i = index[s]
  <1>1. Shape(circuit)
    BY Types
  <1>2. \A i, j \in 1 .. NumNext(s) :
          /\ circuit.scope[s].next[i] \in Scopes(circuit) \ {TopLevel, s}
          /\ Prev(circuit.scope[s].next[i]) = s
          /\ circuit.scope[s].next[i] = circuit.scope[s].next[j] => i = j
    BY <1>1, Tree
  <1>3. Children(circuit, s) = {circuit.scope[s].next[i] : i \in 1 .. NumNext(s)}
    BY <1>1, TreeChildren
  <1> QED
    BY <1>2, <1>3 DEF CurrentChild

\* The loop calls the child at its index, or passes a child that the proposal does not
\* enable.
LEMMA NextChildInv ==
  ASSUME IInv, NEW s \in Scopes(circuit), NextChild(s)
  PROVE  IInv'
  <1>1. Static /\ PerScope
    BY DEF IInv
  <1>2. /\ pc[s] = "children" /\ index[s] <= NumNext(s)
        /\ UNCHANGED <<config, sat, negation, value, model, entry, assumptions,
                       local_unsat_core, result>>
    BY DEF NextChild
  <1>3. index[s] \in 1 .. NumNext(s) /\ InLoop(s) /\ Round(s)
    BY <1>2, Types DEF Round, Places, InLoop
  <1> PICK c : c = CurrentChild(s)
    OBVIOUS
  <1>0. c \in Scopes(circuit) \ {TopLevel, s} /\ Prev(c) = s
    BY <1>3, Current
  <1>4. CASE AbstractionIsEnabled(s, CurrentChild(s))
    <2>1. pc' = [pc EXCEPT ![s] = "called", ![c] = "solve"] /\ index' = index
      BY <1>4 DEF NextChild
    <2>2. /\ pc' \in [Scopes(circuit) -> PcValues]
          /\ pc'[s] = "called" /\ pc'[c] = "solve"
          /\ \A u \in Scopes(circuit) \ {s, c} : pc'[u] = pc[u]
      BY <1>0, <2>1, Types DEF PcValues
    <2>3. CallsMatch'
      BY <1>2, <1>3, <2>1, Types, CallMove DEF config
    <2>4. PerScope'
      BY <1>1, <1>2, <2>1 DEF PerScope, config
    <2>5. Round(c)'
      BY <1>0, <2>2, NoRound
    <2>6. \A u \in Scopes(circuit) \ ({c} \cup {s}) : Round(u)'
      BY <1>0, <1>2, <2>1, <2>2, OtherRounds
    <2>7. Handed(s)'
      <3>1. CalledByParent(c)
        BY <1>0, Types DEF CallsMatch
      <3>2. pc[c] = "idle"
        BY <1>0, <1>2, <3>1 DEF CalledByParent
      <3>3. \A i \in index[s] .. NumNext(s) :
              pc'[circuit.scope[s].next[i]] # "bad" => pc[circuit.scope[s].next[i]] # "bad"
        BY <1>3, <2>2, <3>2, Current, Types
      <3> QED
        BY <1>2, <1>3, <2>1, <3>3, StillHanded
    <2>8. Places(s)' /\ Stands(s)' /\ Blocked(s)'
      <3>1. /\ CurrentChild(s)' = CurrentChild(s) /\ NumNext(s)' = NumNext(s)
            /\ AssumedT(s)' = AssumedT(s)
        BY <1>2, <2>1 DEF config, CurrentChild, NumNext, AssumedT
      <3>2. \A t : AbstractionIsEnabled(s, t)' = AbstractionIsEnabled(s, t)
        BY <1>2 DEF AbstractionIsEnabled, InPrefix, config
      <3>3. AbstractionIsEnabled(s, CurrentChild(s))'
        BY <1>4, <3>1, <3>2
      <3>4. Places(s)'
        BY <1>3, <2>1, <2>2, <3>1, <3>3 DEF Places
      <3> QED
        BY <1>2, <1>3, <3>1, <3>4 DEF Round, Stands, Blocked, Against
    <2>9. Round(s)'
      BY <2>7, <2>8 DEF Round
    <2> QED
      BY <1>1, <1>2, <2>1, <2>2, <2>3, <2>4, <2>5, <2>6, <2>9, Types, Composed
  <1>5. CASE ~AbstractionIsEnabled(s, CurrentChild(s))
    <2>1. pc' = pc /\ index' = [index EXCEPT ![s] = @ + 1]
      BY <1>5 DEF NextChild
    <2>2. /\ index'[s] = index[s] + 1
          /\ \A u \in Scopes(circuit) \ {s} : index'[u] = index[u]
      BY <1>1, <2>1 DEF PerScope
    <2>3. CallsMatch'
      BY <1>2, <2>1, <2>2, Types, OwnMove DEF config
    <2>4. PerScope'
      BY <1>1, <1>2, <2>1 DEF PerScope, config
    <2>5. \A u \in Scopes(circuit) \ ({} \cup {s}) : Round(u)'
      BY <1>2, <2>1, <2>2, OtherRounds
    <2>6. Handed(s)'
      BY <1>2, <1>3, <2>1, <2>2, StillHanded
    <2>7. Places(s)' /\ Stands(s)' /\ Blocked(s)'
      <3>1. AssumedT(s)' = AssumedT(s)
        BY <1>2 DEF config, AssumedT
      <3>2. Places(s)'
        BY <1>2, <1>3, <2>1, <2>2 DEF Places
      <3> QED
        BY <1>2, <1>3, <2>1, <3>1, <3>2 DEF Round, Stands, Blocked, Against, InLoop
    <2>8. Round(s)'
      BY <2>6, <2>7 DEF Round
    <2>9. \A u \in Scopes(circuit) : index'[u] \in 0 .. NumNext(u) + 1
      BY <1>3, <2>2, Types
    <2> QED
      BY <1>1, <1>2, <2>1, <2>3, <2>4, <2>5, <2>8, <2>9, Types, Composed
  <1> QED
    BY <1>4, <1>5


\* The loop hears a child c: what both answers have in common.
LEMMA HeardInv ==
  ASSUME IInv, NEW s \in Scopes(circuit), pc[s] = "called", NEW c, c = CurrentChild(s),
         pc[c] \in {"good", "bad"},
         pc' = [pc EXCEPT ![s] = "children", ![c] = "idle"],
         index' = [index EXCEPT ![s] = @ + 1],
         UNCHANGED <<config, negation, model, entry, assumptions>>,
         DOMAIN sat' = Scopes(circuit), DOMAIN local_unsat_core' = Scopes(circuit),
         \A u \in Scopes(circuit) \ {s} :
           /\ sat'[u] = sat[u] /\ result'[u] = result[u]
           /\ local_unsat_core'[u] = local_unsat_core[u],
         value' \in [Nodes(circuit) -> -Len(circuit.scope) .. Len(circuit.scope)],
         result' \in [Scopes(circuit) -> {"none", "good", "bad"}],
         local_unsat_core'[s] \subseteq UNION {t_lits[t] : t \in Children(circuit, s)},
         Stands(s)', Blocked(s)'
  PROVE  IInv'
  <1>1. Static /\ PerScope
    BY DEF IInv
  <1>2. index[s] \in 1 .. NumNext(s) /\ InLoop(s)
    BY Types DEF Round, Places, InLoop
  <1>3. c \in Scopes(circuit) \ {TopLevel, s} /\ Prev(c) = s
    BY <1>2, Current
  <1>4. /\ pc' \in [Scopes(circuit) -> PcValues]
        /\ pc'[s] = "children" /\ pc'[c] = "idle"
        /\ \A u \in Scopes(circuit) \ {s, c} : pc'[u] = pc[u]
    BY <1>3, Types DEF PcValues
  <1>5. /\ index'[s] = index[s] + 1 /\ DOMAIN index' = Scopes(circuit)
        /\ \A u \in Scopes(circuit) \ {s} : index'[u] = index[u]
    BY <1>1 DEF PerScope
  <1>6. CallsMatch'
    BY <1>2, <1>5, Types, ReturnMove DEF config
  <1>7. PerScope'
    BY <1>1, <1>5 DEF PerScope, config
  <1>8. Round(c)'
    BY <1>3, <1>4, NoRound
  <1>9. \A u \in Scopes(circuit) \ ({c} \cup {s}) : Round(u)'
    <2>1. \A u \in Scopes(circuit) \ ({c} \cup {s}) :
            /\ pc'[u] = pc[u] /\ index'[u] = index[u] /\ sat'[u] = sat[u] /\ model'[u] = model[u]
            /\ entry'[u] = entry[u] /\ assumptions'[u] = assumptions[u] /\ result'[u] = result[u]
      BY <1>4, <1>5
    <2>2. pc[s] # "bad" /\ entry'[s] \subseteq entry[s] /\ \A t \in {c} : Prev(t) = s
      BY <1>3
    <2>3. UNCHANGED config
      OBVIOUS
    <2> QED
      BY <2>1, <2>2, <2>3, OtherRounds
  <1>10. Handed(s)'
    <2>1. \A i \in index'[s] .. NumNext(s) : i \in 1 .. NumNext(s) /\ i # index[s]
      BY <1>2, <1>5, Types
    <2>2. \A i \in index'[s] .. NumNext(s) :
            circuit.scope[s].next[i] \in Scopes(circuit) \ {s, c}
      BY <1>2, <2>1, Current
    <2> QED
      BY <1>2, <1>4, <1>5, <2>2, StillHanded
  <1>11. Places(s)'
    BY <1>2, <1>4, <1>5 DEF Places
  <1>12. \A u \in Scopes(circuit) : Round(u)'
    BY <1>8, <1>9, <1>10, <1>11 DEF Round
  <1>13. \A u \in Scopes(circuit) :
           /\ index'[u] \in 0 .. NumNext(u) + 1
           /\ local_unsat_core'[u] \subseteq UNION {t_lits[t] : t \in Children(circuit, u)}
    <2>1. index'[s] \in 0 .. NumNext(s) + 1
      BY <1>2, <1>5, Types
    <2> TAKE u \in Scopes(circuit)
    <2>2. CASE u = s
      BY <2>1, <2>2
    <2>3. CASE u # s
      BY <1>5, <2>3, Types
    <2> QED
      BY <2>2, <2>3
  <1> QED
    BY <1>1, <1>4, <1>6, <1>7, <1>12, <1>13, Types, Composed

\* A child agrees: its entry joins the scope's answer; the loop moves on with the round's
\* outcome and with what the children behind were given as they were.
LEMMA ChildAgreesInv ==
  ASSUME IInv, NEW s \in Scopes(circuit), ChildAgrees(s)
  PROVE  IInv'
  <1> PICK c : c = CurrentChild(s)
    OBVIOUS
  <1>1. /\ pc[s] = "called" /\ pc[c] = "bad"
        /\ pc' = [pc EXCEPT ![s] = "children", ![c] = "idle"]
        /\ index' = [index EXCEPT ![s] = @ + 1]
        /\ UNCHANGED <<config, negation, model, entry, assumptions>>
        /\ sat' = sat /\ value' = value /\ result' = result
        /\ local_unsat_core' = [local_unsat_core EXCEPT ![s] = @ \cup entry[c]]
    BY DEF ChildAgrees, Agree
  <1>2. PerScope /\ Round(s)
    BY DEF IInv
  <1>3. index[s] \in 1 .. NumNext(s)
    BY <1>1, <1>2, Types DEF Round, Places, InLoop
  <1>4. entry[c] \subseteq t_lits[c] /\ c \in Children(circuit, s)
    BY <1>3, Current, Types
  <1>5. /\ local_unsat_core'[s] = local_unsat_core[s] \cup entry[c]
        /\ DOMAIN local_unsat_core' = Scopes(circuit) /\ DOMAIN sat' = Scopes(circuit)
        /\ \A u \in Scopes(circuit) \ {s} : local_unsat_core'[u] = local_unsat_core[u]
    BY <1>1, <1>2 DEF PerScope
  <1>6. local_unsat_core'[s] \subseteq UNION {t_lits[t] : t \in Children(circuit, s)}
    <2>1. local_unsat_core[s] \subseteq UNION {t_lits[t] : t \in Children(circuit, s)}
      BY Types
    <2>2. entry[c] \subseteq UNION {t_lits[t] : t \in Children(circuit, s)}
      BY <1>4
    <2> QED
      BY <1>5, <2>1, <2>2
  <1>7. Stands(s)' /\ Blocked(s)'
    <2>1. AssumedT(s)' = AssumedT(s)
      BY <1>1 DEF config, AssumedT
    <2> QED
      BY <1>1, <1>2, <2>1 DEF Round, Stands, Blocked, Against, InLoop
  <1>8. pc[c] \in {"good", "bad"}
    BY <1>1
  <1> QED
    BY <1>1, <1>5, <1>6, <1>7, <1>8, Types, HeardInv

\* A child objects only to what was handed to it: the check of refine cannot fail, and the
\* clause is against the proposal under the entry of the scope.
LEMMA Objection ==
  ASSUME IInv, NEW s \in Scopes(circuit), pc[s] = "called", NEW c, c = CurrentChild(s),
         pc[c] = "good"
  PROVE  FailedBLits(s, c) \subseteq assumptions[s] /\ Against(s, RefinementClause(s, c))
  <1>1. Static /\ Round(s) /\ Places(s) /\ InLoop(s)
    BY DEF IInv, Round, InLoop
  <1>2. index[s] \in index[s] .. NumNext(s) /\ AbstractionIsEnabled(s, c)
    BY <1>1, Types DEF Places, InLoop
  <1>3. entry[c] \subseteq EntryFor(s, c, assumptions[s]) /\ \A b \in assumptions[s] : -b \in model[s]
    <2>1. Handed(s) /\ c = circuit.scope[s].next[index[s]]
      BY <1>1 DEF Round, CurrentChild
    <2> QED
      BY <1>1, <1>2, <2>1 DEF Handed
  <1>4. /\ assumptions[s] \subseteq b_lits[s] /\ b_lits[s] \subseteq Nodes(circuit)
        /\ Nodes(circuit) \subseteq Nat \ {0} /\ t_lits[s] \subseteq Nat \ {0}
        /\ \A i \in Nodes(circuit) : TLitToVarId(circuit, TLit(circuit, i)) = i
    BY <1>1, Types, Interfaces
  <1>5. \A t \in entry[c] :
          \/ \E b \in assumptions[s] : t = TLit(circuit, b) /\ TLitToVarId(circuit, t) = b
          \/ t \in t_lits[s] \ entry[s] /\ TLitToVarId(circuit, t) \notin b_lits[s]
    BY <1>3, <1>4 DEF EntryFor
  <1>6. FailedBLits(s, c) \subseteq assumptions[s]
    BY <1>5 DEF FailedBLits
  <1>7. \A b \in assumptions[s] : b \in Opposite(model[s] \cup AssumedT(s))
    <2> TAKE b \in assumptions[s]
    <2>1. b = -(-b) /\ -b \in model[s]
      BY <1>3, <1>4
    <2> QED
      BY <2>1 DEF Opposite
  <1>8. \A t \in t_lits[s] \ entry[s] : t \in Opposite(model[s] \cup AssumedT(s))
    <2> TAKE t \in t_lits[s] \ entry[s]
    <2>1. t = -(-t) /\ -t \in AssumedT(s)
      BY <1>4 DEF AssumedT, Opposite
    <2> QED
      BY <2>1 DEF Opposite
  <1>9. \A t \in entry[c] : TLitToVarId(circuit, t) \notin b_lits[s] => t \in t_lits[s] \ entry[s]
    BY <1>4, <1>5
  <1>10. ~InPrefix(circuit, c) => circuit.scope[c].node \in assumptions[s]
    BY <1>2 DEF AbstractionIsEnabled
  <1> QED
    BY <1>6, <1>7, <1>8, <1>9, <1>10 DEF Against, RefinementClause

\* A child objects: the clause that refine adds is against the proposal, so the round is
\* blocked from here on.
LEMMA ChildObjectsInv ==
  ASSUME IInv, NEW s \in Scopes(circuit), ChildObjects(s)
  PROVE  IInv'
  <1> PICK c : c = CurrentChild(s)
    OBVIOUS
  <1>1. pc[s] = "called" /\ pc[c] = "good"
    BY DEF ChildObjects
  <1>2. FailedBLits(s, c) \subseteq assumptions[s] /\ Against(s, RefinementClause(s, c))
    BY <1>1, Objection
  <1>3. /\ sat' = [sat EXCEPT ![s] = @ \cup {RefinementClause(s, c)}]
        /\ value' = IF minimize /\ s > 1 THEN EvaluateMax(circuit, value, s - 1) ELSE value
        /\ result' = [result EXCEPT ![s] = "bad"]
        /\ pc' = [pc EXCEPT ![s] = "children", ![c] = "idle"]
        /\ index' = [index EXCEPT ![s] = @ + 1]
        /\ UNCHANGED <<config, negation, model, entry, assumptions, local_unsat_core>>
    BY <1>2 DEF ChildObjects
  <1>4. Static /\ PerScope /\ TypeOK
    BY DEF IInv
  <1>5. value' \in [Nodes(circuit) -> -Len(circuit.scope) .. Len(circuit.scope)]
    BY <1>3, <1>4, Types, ValuesNameScopes
  <1>6. /\ RefinementClause(s, c) \in sat'[s] /\ DOMAIN sat' = Scopes(circuit)
        /\ DOMAIN local_unsat_core' = Scopes(circuit)
        /\ \A u \in Scopes(circuit) \ {s} : sat'[u] = sat[u]
    BY <1>3, <1>4 DEF PerScope
  <1>7. /\ result' \in [Scopes(circuit) -> {"none", "good", "bad"}] /\ result'[s] = "bad"
        /\ \A u \in Scopes(circuit) \ {s} : result'[u] = result[u]
    BY <1>3, Types
  <1>8. Stands(s)' /\ Blocked(s)'
    <2>1. \A cl : Against(s, cl)' <=> Against(s, cl)
      BY <1>3 DEF config, AssumedT, Against
    <2>2. Against(s, RefinementClause(s, c))
      BY <1>2
    <2>3. \E cl \in sat'[s] : Against(s, cl)'
      BY <1>6, <2>1, <2>2
    <2> QED
      BY <1>7, <2>3 DEF Stands, Blocked
  <1>9. local_unsat_core'[s] \subseteq UNION {t_lits[t] : t \in Children(circuit, s)}
    BY <1>3, Types
  <1>10. pc[c] \in {"good", "bad"}
    BY <1>1
  <1> QED
    BY <1>1, <1>3, <1>5, <1>6, <1>7, <1>8, <1>9, <1>10, HeardInv

\* No step leaves the invariant.
LEMMA NextInv ==
  ASSUME IInv, [Next]_vars
  PROVE  IInv'
  <1>1. ASSUME NEW s \in Scopes(circuit), Step(s)
        PROVE  IInv'
    BY <1>1, SolveLeafInv, SolveInnerInv, SolveUnsatInv, NextChildInv, ChildAgreesInv,
       ChildObjectsInv, AllAgreedInv, RetryInv DEF Step
  <1>2. CASE UNCHANGED vars
    <2>1. Static' /\ PerScope'
      BY <1>2 DEF IInv, Static, PerScope, vars
    <2>2. TypeOK'
      BY <1>2 DEF IInv, TypeOK, vars, CalledByParent, CurrentChild, Prev, NumNext
    <2>3. \A u \in Scopes(circuit) : Round(u)'
      BY <1>2, Types, SameRound DEF vars, IInv
    <2> QED
      BY <1>2, <2>1, <2>2, <2>3 DEF IInv, vars
  <1> QED
    BY <1>1, <1>2 DEF Next, Done


-----------------------------------------------------------------------------
(***************************************************************************)
(* Theorems                                                                *)
(***************************************************************************)
\* The invariant holds in every state that the solver reaches.
THEOREM SolverInvariance == Spec => []IInv
  <1>1. IInv /\ [Next]_vars => IInv'
    BY NextInv
  <1> QED
    BY InitInv, <1>1, PTL DEF Spec

\* Types; a scope is active exactly when the scope around it is in the call of it; answers
\* stay within the t-literals of the scope, and values name scopes.
THEOREM TypesAreCorrect == Spec => []TypeOK
  <1>1. IInv => TypeOK
    BY DEF IInv
  <1> QED
    BY SolverInvariance, <1>1, PTL

\* Once a child has objected, the instance rules out the proposal that it objected to, under
\* the entry that it was made for: no round of solve_recursive repeats an earlier one,
\* whatever the abstractions promise (refine, solver.c:102).
THEOREM ProposalsAreBlocked == Spec => []ProposalBlocked
  <1>1. IInv => ProposalBlocked
    BY DEF IInv, Round, Blocked, Against, InLoop, ProposalBlocked
  <1> QED
    BY SolverInvariance, <1>1, PTL

\* A child objects to b-literals only that the scope handed to it: the consistency check of
\* refine (solver.c:118), one of the two checks behind NoInternalError, never fails.
OnlyHandedObjections ==
  \A s \in Scopes(circuit) :
    pc[s] = "called" /\ pc[CurrentChild(s)] = "good" =>
      FailedBLits(s, CurrentChild(s)) \subseteq assumptions[s]

\* In every state that the solver reaches.
THEOREM ObjectionsWereHanded == Spec => []OnlyHandedObjections
  <1>1. IInv => OnlyHandedObjections
    <2> SUFFICES ASSUME IInv, NEW s \in Scopes(circuit), pc[s] = "called",
                        NEW c, c = CurrentChild(s), pc[c] = "good"
                 PROVE  FailedBLits(s, c) \subseteq assumptions[s]
      BY DEF OnlyHandedObjections
    <2> QED
      BY Objection
  <1> QED
    BY SolverInvariance, <1>1, PTL

\* Only the objection of a child turns the outcome of a round, and then the clause that
\* refine adds was not in the instance before (solver.c:102).
THEOREM RefinementIsProgress == Spec => RefinementsAreNew
  <1>1. ASSUME IInv, NEW u \in Scopes(circuit), Step(u), NEW s \in Scopes(circuit),
               result[s] = "good", result'[s] = "bad"
        PROVE  sat'[s] # sat[s]
    <2>1. result \in [Scopes(circuit) -> {"none", "good", "bad"}]
      BY <1>1, Types
    <2>2. result' # result /\ result' # [result EXCEPT ![u] = "good"]
      BY <1>1, <2>1
    <2>3. ChildObjects(u)
      BY <1>1, <2>2 DEF Step, SolveLeaf, SolveInner, SolveUnsat, NextChild, ChildAgrees, Agree,
                        AllAgreed, Retry
    <2> PICK c : c = CurrentChild(u)
      OBVIOUS
    <2>4. pc[u] = "called" /\ pc[c] = "good"
      BY <2>3 DEF ChildObjects
    <2>5. FailedBLits(u, c) \subseteq assumptions[u] /\ Against(u, RefinementClause(u, c))
      BY <1>1, <2>4, Objection
    <2>6. /\ result' = [result EXCEPT ![u] = "bad"]
          /\ sat' = [sat EXCEPT ![u] = @ \cup {RefinementClause(u, c)}]
      BY <2>3, <2>5 DEF ChildObjects
    <2>7. s = u /\ result[u] = "good"
      BY <1>1, <2>1, <2>6
    <2>8. RefinementClause(u, c) \in sat'[u]
      BY <1>1, <2>6 DEF IInv, PerScope
    <2>9. RefinementClause(u, c) \notin sat[u]
      BY <1>1, <2>4, <2>5, <2>7 DEF IInv, Round, Stands, InLoop
    <2> QED
      BY <2>7, <2>8, <2>9
  <1>2. IInv /\ [Next]_vars =>
          [\A s \in Scopes(circuit) :
             result[s] = "good" /\ result'[s] = "bad" => sat'[s] # sat[s]]_vars
    BY <1>1 DEF Next, Done
  <1> QED
    BY SolverInvariance, <1>2, PTL DEF Spec, RefinementsAreNew

-----------------------------------------------------------------------------
(***************************************************************************)
(* The solver implements the recursion of Rounds: the loop over the        *)
(* children asks those that are enabled one after the other, hears each of *)
(* them exactly once, and concludes or decides anew only when none is      *)
(* left.  And the search never gets stuck before there is an answer.       *)
(***************************************************************************)
\* In addition the top level is always at work, and only inner scopes have a loop.
RInv ==
  /\ IInv
  /\ pc[TopLevel] # "idle"
  /\ \A s \in Scopes(circuit) : InLoop(s) => ~IsLeaf(s)

\* No step stops the top level, or starts the loop of a scope without children.
LEMMA RoundInvariance == Spec => []RInv
  <1>1. Init => pc[TopLevel] # "idle" /\ \A s \in Scopes(circuit) : InLoop(s) => ~IsLeaf(s)
    <2> SUFFICES ASSUME Init
                 PROVE  pc[TopLevel] # "idle" /\ \A s \in Scopes(circuit) : ~InLoop(s)
      OBVIOUS
    <2>1. pc = [s \in Scopes(circuit) |-> IF s = TopLevel THEN "solve" ELSE "idle"]
      BY DEF Init
    <2>2. TopLevel \in Scopes(circuit)
      BY InitInv, Types, Tree
    <2> QED
      BY <2>1, <2>2 DEF InLoop
  <1>2. ASSUME RInv, NEW s \in Scopes(circuit), Step(s)
        PROVE  /\ circuit' = circuit /\ pc'[TopLevel] # "idle"
               /\ \A u \in Scopes(circuit) : InLoop(u)' => ~IsLeaf(u)
    <2>1. circuit' = circuit
      BY <1>2 DEF Step, SolveLeaf, SolveInner, SolveUnsat, NextChild, ChildAgrees, ChildObjects,
                  AllAgreed, Retry, config
    <2>2. /\ IInv /\ pc \in [Scopes(circuit) -> PcValues] /\ TopLevel \in Scopes(circuit)
          /\ \A u \in Scopes(circuit) : InLoop(u) => ~IsLeaf(u)
      BY <1>2, Types, Tree DEF RInv
    <2>3. CASE \E x \in {"solve", "good", "bad", "abort"} : pc' = [pc EXCEPT ![s] = x]
      BY <1>2, <2>1, <2>2, <2>3 DEF RInv, InLoop
    <2>4. CASE ~IsLeaf(s) /\ pc' = [pc EXCEPT ![s] = "children"]
      BY <1>2, <2>1, <2>2, <2>4 DEF RInv, InLoop
    <2>5. CASE /\ InLoop(s) /\ index[s] \in 1 .. NumNext(s)
               /\ \E x \in {"children", "called"}, y \in {"idle", "solve"} :
                    pc' = [pc EXCEPT ![s] = x, ![CurrentChild(s)] = y]
      <3>1. CurrentChild(s) \in Scopes(circuit) \ {TopLevel, s}
        BY <2>2, <2>5, Current
      <3>2. PICK x \in {"children", "called"}, y \in {"idle", "solve"} :
              pc' = [pc EXCEPT ![s] = x, ![CurrentChild(s)] = y]
        BY <2>5
      <3>3. /\ pc'[TopLevel] = pc[TopLevel] \/ pc'[TopLevel] = x
            /\ \A u \in Scopes(circuit) \ {s} : pc'[u] = pc[u] \/ pc'[u] = y
        BY <2>2, <3>1, <3>2
      <3> QED
        BY <1>2, <2>1, <2>2, <2>5, <3>3 DEF RInv, InLoop
    <2>6. CASE pc' = pc
      BY <1>2, <2>1, <2>2, <2>6 DEF RInv, InLoop
    <2>7. CASE SolveLeaf(s) \/ AllAgreed(s)
      BY <2>3, <2>7 DEF SolveLeaf, AllAgreed, DualPropagation
    <2>8. CASE SolveInner(s)
      BY <2>4, <2>8 DEF SolveInner
    <2>9. CASE SolveUnsat(s) \/ Retry(s)
      BY <2>3, <2>9 DEF SolveUnsat, Retry
    <2>10. pc[s] \in {"children", "called"} /\ index[s] <= NumNext(s) =>
             index[s] \in 1 .. NumNext(s)
      BY <2>2, Types DEF Round, Places, InLoop
    <2>11. pc[s] = "called" => index[s] \in 1 .. NumNext(s)
      BY <2>2, <2>10, Types DEF Round, Places, InLoop
    <2>12. CASE NextChild(s)
      BY <2>5, <2>6, <2>10, <2>12 DEF NextChild, InLoop
    <2>13. CASE ChildAgrees(s)
      BY <2>5, <2>11, <2>13 DEF ChildAgrees, InLoop
    <2>14. CASE ChildObjects(s)
      BY <2>3, <2>5, <2>11, <2>14 DEF ChildObjects, InLoop
    <2> QED
      BY <1>2, <2>1, <2>7, <2>8, <2>9, <2>12, <2>13, <2>14 DEF Step
  <1>3. RInv /\ [Next]_vars => RInv'
    <2>1. CASE UNCHANGED vars
      BY <2>1, NextInv DEF RInv, vars, InLoop, IsLeaf, NumNext
    <2>2. ASSUME RInv, NEW s \in Scopes(circuit), Step(s)
          PROVE  RInv'
      <3>1. /\ circuit' = circuit /\ pc'[TopLevel] # "idle"
            /\ \A u \in Scopes(circuit) : InLoop(u)' => ~IsLeaf(u)
        BY <1>2, <2>2
      <3>2. IInv'
        BY <2>2, NextInv DEF RInv, Next
      <3> QED
        BY <3>1, <3>2 DEF RInv, IsLeaf, NumNext
    <2> QED
      BY <2>1, <2>2 DEF Next, Done
  <1> QED
    BY InitInv, <1>1, <1>3, PTL DEF Spec, RInv


-----------------------------------------------------------------------------
(***************************************************************************)
(* How the mapped variables follow those of the solver.                    *)
(***************************************************************************)
\* The tree is the same.
LEMMA SameTree ==
  ASSUME Shape(circuit)
  PROVE  /\ R!Tree = Scopes(circuit)
         /\ \A s \in Scopes(circuit) : R!Children(s) = Children(circuit, s)
  BY Tree, TreeChildren DEF R!Tree, R!Children

\* The children that are still to be heard after a step that keeps the proposal.
LEMMA PendingAfter ==
  ASSUME NEW u, circuit' = circuit, assumptions'[u] = assumptions[u]
  PROVE  Pending(u)' =
           {circuit.scope[u].next[i] : i \in {j \in index'[u] .. NumNext(u) :
              Asking(u)' /\ AbstractionIsEnabled(u, circuit.scope[u].next[j])}}
  <1>1. NumNext(u)' = NumNext(u)
    BY DEF NumNext
  <1>2. \A t : AbstractionIsEnabled(u, t)' = AbstractionIsEnabled(u, t)
    BY DEF AbstractionIsEnabled, InPrefix
  <1> QED
    BY <1>1, <1>2 DEF Pending

\* In particular when the index stays.
LEMMA SamePending ==
  ASSUME NEW u, circuit' = circuit, assumptions'[u] = assumptions[u], index'[u] = index[u],
         Asking(u)' <=> Asking(u)
  PROVE  Pending(u)' = Pending(u)
  BY PendingAfter DEF Pending

\* Nobody is to be heard outside of the loop, or behind its end.
LEMMA NonePending ==
  ASSUME NEW u, Asking(u) => index[u] \in Nat /\ NumNext(u) \in Nat /\ index[u] > NumNext(u)
  PROVE  Pending(u) = {}
  BY DEF Pending

\* A scope that keeps its place keeps its state, unless it was or is now to be asked.
LEMMA SameState ==
  ASSUME NEW u, circuit' = circuit, pc'[u] = pc[u],
         pc[u] = "idle" => ((u \in Pending(Prev(u)))' <=> u \in Pending(Prev(u)))
  PROVE  State(u)' = State(u)
  BY DEF State, Deciding, Asking, IsLeaf, NumNext

\* The parents of other scopes than the top level have the same children to hear.
LEMMA SameStates ==
  ASSUME RInv, circuit' = circuit, NEW u \in Scopes(circuit), pc'[u] = pc[u],
         NEW T, u \notin T,
         \A p \in Scopes(circuit) : Pending(p)' \ T = Pending(p) \ T
  PROVE  State(u)' = State(u)
  <1>1. CASE u = TopLevel
    BY <1>1, SameState DEF RInv
  <1>2. CASE u # TopLevel
    <2>1. Prev(u) \in Scopes(circuit) /\ Prev(u)' = Prev(u)
      BY <1>2, Types, Tree DEF RInv, Prev
    <2>2. PICK p \in Scopes(circuit) : p = Prev(u)
      BY <2>1
    <2>3. (u \in Pending(p))' <=> u \in Pending(p)
      OBVIOUS
    <2>4. (u \in Pending(Prev(u)))' <=> u \in Pending(Prev(u))
      BY <2>1, <2>2, <2>3 DEF Pending, Asking, AbstractionIsEnabled, NumNext, IsLeaf, InPrefix
    <2> QED
      BY <2>4, SameState
  <1> QED
    BY <1>1, <1>2

\* A step that the rounds do not see.
LEMMA HiddenStep ==
  ASSUME circuit' = circuit, result' = result,
         \A u \in Scopes(circuit) : Pending(u)' = Pending(u) /\ State(u)' = State(u)
  PROVE  UNCHANGED R!vars
  BY DEF R!vars, Prev, InPrefix

\* A step that moves one scope.
LEMMA OneState ==
  ASSUME circuit' = circuit, NEW s \in Scopes(circuit), NEW x, State(s)' = x,
         \A u \in Scopes(circuit) \ {s} : State(u)' = State(u)
  PROVE  [u \in Scopes(circuit) |-> State(u)]' =
           [[u \in Scopes(circuit) |-> State(u)] EXCEPT ![s] = x]
  OBVIOUS


-----------------------------------------------------------------------------
(***************************************************************************)
(* Every step is a step of the rounds, or hidden from them.                *)
(***************************************************************************)
\* The scopes that a scope can be said to be in, by its place.
LEMMA StateIs ==
  ASSUME NEW s
  PROVE  /\ pc[s] = "solve" => State(s) = "deciding" /\ ~Asking(s)
         /\ pc[s] \in {"children", "called"} => State(s) = "asking" /\ Asking(s)
         /\ pc[s] \in {"good", "bad"} => State(s) = pc[s] /\ ~Asking(s)
         /\ pc[s] = "idle" /\ s \in Pending(Prev(s)) => State(s) = "deciding"
         /\ pc[s] = "idle" /\ s \notin Pending(Prev(s)) => State(s) = "idle"
  BY DEF State, Deciding, Asking

\* A scope moves on alone, and owes no child an answer before and after.
LEMMA OwnStep ==
  ASSUME RInv, NEW s \in Scopes(circuit), NEW x, pc' = [pc EXCEPT ![s] = x],
         x \in {"solve", "good", "bad"} \/ (x = "abort" /\ IsLeaf(s)) \/ (x = "abort" /\ Asking(s)),
         pc[s] = "solve" \/ (pc[s] = "children" /\ index[s] > NumNext(s)),
         circuit' = circuit, index' = index, assumptions' = assumptions
  PROVE  /\ Pending(s) = {}
         /\ \A u \in Scopes(circuit) : Pending(u)' = Pending(u)
         /\ \A u \in Scopes(circuit) \ {s} : State(u)' = State(u)
  <1>1. IInv /\ pc'[s] = x /\ \A u \in Scopes(circuit) \ {s} : pc'[u] = pc[u]
    BY Types DEF RInv
  <1>2. Asking(s) => index[s] \in Nat /\ NumNext(s) \in Nat /\ index[s] > NumNext(s)
    BY <1>1, Types, StateIs
  <1>3. Pending(s) = {}
    BY <1>2, NonePending
  <1>4. Pending(s)' = {}
    <2>1. \A j \in index[s] .. NumNext(s) : ~Asking(s)'
      <3>1. CASE x \in {"solve", "good", "bad"}
        BY <1>1, <3>1 DEF Asking
      <3>2. CASE x = "abort" /\ IsLeaf(s)
        BY <1>1, <3>2 DEF Asking, IsLeaf, NumNext
      <3>3. CASE x = "abort" /\ Asking(s)
        BY <1>1, <1>2, <3>3
      <3> QED
        BY <3>1, <3>2, <3>3
    <2> QED
      BY <2>1, PendingAfter
  <1>5. \A u \in Scopes(circuit) \ {s} : Pending(u)' = Pending(u)
    BY <1>1, SamePending DEF Asking, IsLeaf, NumNext
  <1>6. \A u \in Scopes(circuit) \ {s} : State(u)' = State(u)
    BY <1>1, <1>3, <1>4, <1>5, SameStates
  <1> QED
    BY <1>3, <1>4, <1>5, <1>6

\* The dual instance is asked: the scope wins alone or concludes its round, or the step that
\* fails is hidden.
LEMMA DualStep ==
  ASSUME RInv, NEW s \in Scopes(circuit), NEW m, DualPropagation(s, m),
         \/ pc[s] = "solve" /\ IsLeaf(s)
         \/ pc[s] = "children" /\ index[s] > NumNext(s) /\ result[s] = "good",
         UNCHANGED <<config, assumptions, result, index>>
  PROVE  R!Next \/ UNCHANGED R!vars
  <1>1. Shape(circuit) /\ circuit' = circuit
    BY Types DEF RInv, config
  <1>2. PICK x \in {"good", "abort"} : pc' = [pc EXCEPT ![s] = x]
    BY DEF DualPropagation
  <1>3. pc'[s] = x
    BY <1>2, Types DEF RInv
  <1>4. x = "abort" => IsLeaf(s) \/ Asking(s)
    BY StateIs
  <1>5. /\ Pending(s) = {}
        /\ \A u \in Scopes(circuit) : Pending(u)' = Pending(u)
        /\ \A u \in Scopes(circuit) \ {s} : State(u)' = State(u)
    BY <1>1, <1>2, <1>4, OwnStep
  <1>6. CASE x = "abort"
    <2>1. State(s)' = State(s)
      BY <1>1, <1>3, <1>6 DEF RInv, State, Deciding, Asking, IsLeaf, NumNext, InLoop
    <2> QED
      BY <1>1, <1>5, <2>1, HiddenStep
  <1>7. CASE x = "good"
    <2>1. State(s)' = "good"
      BY <1>3, <1>7 DEF State, Deciding, Asking
    <2>2. [u \in Scopes(circuit) |-> State(u)]' =
            [[u \in Scopes(circuit) |-> State(u)] EXCEPT ![s] = "good"]
      BY <1>1, <1>5, <2>1, OneState
    <2>3. UNCHANGED <<[u \in Scopes(circuit) \ {TopLevel} |-> Prev(u)],
                      {u \in Scopes(circuit) : InPrefix(circuit, u)},
                      [u \in Scopes(circuit) |-> Pending(u)], result>>
      BY <1>1, <1>5 DEF Prev
    <2>4. CASE pc[s] = "solve" /\ IsLeaf(s)
      <3>1. R!Children(s) = {} /\ State(s) = "deciding"
        BY <1>1, <2>4, SameTree, TreeChildren, StateIs
      <3>2. R!WinAlone(s)
        BY <2>2, <2>3, <3>1 DEF R!WinAlone
      <3> QED
        BY <1>1, <3>2, SameTree DEF R!Next
    <2>5. CASE pc[s] = "children" /\ result[s] = "good"
      <3>1. State(s) = "asking"
        BY <2>5, StateIs
      <3>2. R!Conclude(s)
        BY <1>5, <2>2, <2>3, <2>5, <3>1 DEF R!Conclude, R!RoundIsOver
      <3> QED
        BY <1>1, <3>2, SameTree DEF R!Next
    <2> QED
      BY <2>4, <2>5
  <1> QED
    BY <1>6, <1>7

\* The loop hears a child: in the rounds, too, whatever it answers.
LEMMA HearStep ==
  ASSUME RInv, NEW s \in Scopes(circuit), pc[s] = "called", NEW c, c = CurrentChild(s),
         pc[c] \in {"good", "bad"},
         pc' = [pc EXCEPT ![s] = "children", ![c] = "idle"],
         index' = [index EXCEPT ![s] = @ + 1], UNCHANGED <<config, assumptions>>,
         result' = IF pc[c] = "good" THEN [result EXCEPT ![s] = "bad"] ELSE result
  PROVE  R!Next
  <1>1. IInv /\ Shape(circuit) /\ circuit' = circuit /\ PerScope
    BY Types DEF RInv, config, IInv
  <1>2. /\ index[s] \in 1 .. NumNext(s) /\ AbstractionIsEnabled(s, c) /\ NumNext(s) \in Nat
    BY <1>1, Types DEF Round, Places, InLoop
  <1>3. c \in Scopes(circuit) \ {TopLevel, s} /\ Prev(c) = s
    BY <1>1, <1>2, Current
  <1>4. /\ pc'[s] = "children" /\ pc'[c] = "idle" /\ index'[s] = index[s] + 1
        /\ \A u \in Scopes(circuit) \ {s, c} : pc'[u] = pc[u]
        /\ \A u \in Scopes(circuit) \ {s} : index'[u] = index[u]
    BY <1>1, <1>3, Types DEF PerScope
  <1>5. Asking(s) /\ Asking(s)' /\ State(s) = "asking" /\ State(s)' = "asking"
    BY <1>4 DEF Asking, State, Deciding
  <1>6. Pending(s) = {circuit.scope[s].next[i] : i \in {j \in index[s] .. NumNext(s) :
                        AbstractionIsEnabled(s, circuit.scope[s].next[j])}}
    BY <1>5 DEF Pending
  <1>7. Pending(s)' = {circuit.scope[s].next[i] : i \in {j \in index[s] + 1 .. NumNext(s) :
                        AbstractionIsEnabled(s, circuit.scope[s].next[j])}}
    BY <1>1, <1>4, <1>5, PendingAfter
  <1>8. c \in Pending(s) /\ Pending(s)' = Pending(s) \ {c}
    <2>1. c = circuit.scope[s].next[index[s]]
      BY DEF CurrentChild
    <2>2. \A j \in index[s] .. NumNext(s) : j = index[s] \/ j \in index[s] + 1 .. NumNext(s)
      BY <1>2
    <2>3. \A j \in index[s] + 1 .. NumNext(s) :
            j \in index[s] .. NumNext(s) /\ circuit.scope[s].next[j] # c
      BY <1>1, <1>2, Current
    <2>4. index[s] \in index[s] .. NumNext(s)
      BY <1>2
    <2> QED
      BY <1>2, <1>6, <1>7, <2>1, <2>2, <2>3, <2>4
  <1>9. \A u \in Scopes(circuit) \ {s, c} : Asking(u)' <=> Asking(u)
    BY <1>1, <1>4 DEF Asking, IsLeaf, NumNext
  <1>10. ~Asking(c) /\ ~Asking(c)'
    BY <1>4 DEF Asking
  <1>11. \A u \in Scopes(circuit) \ {s} : Pending(u)' = Pending(u)
    BY <1>1, <1>3, <1>4, <1>9, <1>10, SamePending
  <1>12. \A u \in Scopes(circuit) \ {s, c} : State(u)' = State(u)
    <2> TAKE u \in Scopes(circuit) \ {s, c}
    <2>1. \A p \in Scopes(circuit) : Pending(p)' \ {c} = Pending(p) \ {c}
      BY <1>8, <1>11
    <2> QED
      BY <1>1, <1>4, <2>1, SameStates
  <1>13. State(c)' = "idle" /\ State(c) = pc[c]
    <2>1. Prev(c)' = s
      BY <1>1, <1>3 DEF Prev
    <2>2. (c \notin Pending(Prev(c)))'
      BY <1>8, <2>1
    <2> QED
      BY <1>4, <2>2, StateIs DEF State, Deciding, Asking
  <1> DEFINE parent == [u \in Scopes(circuit) \ {TopLevel} |-> Prev(u)]
             mapped == [u \in Scopes(circuit) |-> State(u)]
             asked  == [u \in Scopes(circuit) |-> Pending(u)]
  <1>14. parent[c] = s /\ c # TopLevel /\ mapped[c] = pc[c]
    BY <1>3, <1>13
  <1>15. mapped' = [mapped EXCEPT ![c] = "idle"]
    BY <1>1, <1>3, <1>5, <1>12, <1>13
  <1>16. asked' = [asked EXCEPT ![s] = @ \ {c}]
    BY <1>1, <1>8, <1>11
  <1>17. c \in asked[s]
    BY <1>8
  <1>18. UNCHANGED <<parent, {u \in Scopes(circuit) : InPrefix(circuit, u)}>>
    BY <1>1 DEF Prev
  <1>19. R!Hear(c)
    BY <1>14, <1>15, <1>16, <1>17, <1>18 DEF R!Hear
  <1> QED
    BY <1>1, <1>3, <1>19, SameTree DEF R!Next


\* A scope proposes, and its enabled children are asked.
LEMMA AskStep ==
  ASSUME RInv, NEW s \in Scopes(circuit), SolveInner(s)
  PROVE  R!Next
  <1>1. IInv /\ Shape(circuit) /\ circuit' = circuit /\ PerScope /\ CallsMatch
    BY Types DEF RInv, SolveInner, config, IInv
  <1>2. /\ pc[s] = "solve" /\ ~IsLeaf(s) /\ pc' = [pc EXCEPT ![s] = "children"]
        /\ index' = [index EXCEPT ![s] = 1] /\ result' = [result EXCEPT ![s] = "good"]
    BY DEF SolveInner
  <1>3. /\ pc'[s] = "children" /\ index'[s] = 1
        /\ \A u \in Scopes(circuit) \ {s} : /\ pc'[u] = pc[u] /\ index'[u] = index[u]
                                           /\ assumptions'[u] = assumptions[u]
    BY <1>1, <1>2, Types DEF PerScope, SolveInner
  <1>4. State(s) = "deciding" /\ ~Asking(s) /\ State(s)' = "asking" /\ Asking(s)'
    BY <1>2, <1>3, StateIs DEF State, Deciding, Asking
  <1>5. \A u \in Scopes(circuit) \ {s} : Pending(u)' = Pending(u)
    <2> TAKE u \in Scopes(circuit) \ {s}
    <2>1. Asking(u)' <=> Asking(u)
      BY <1>1, <1>3 DEF Asking, IsLeaf, NumNext
    <2> QED
      BY <1>1, <1>3, <2>1, SamePending
  <1>6. Pending(s) = {}
    BY <1>4, NonePending
  <1> DEFINE E == {circuit.scope[s].next[i] : i \in {j \in 1 .. NumNext(s) :
                     AbstractionIsEnabled(s, circuit.scope[s].next[j])'}}
  <1>7. Pending(s)' = E
    BY <1>1, <1>3, <1>4 DEF Pending, NumNext, AbstractionIsEnabled
  <1>8. Children(circuit, s) = {circuit.scope[s].next[i] : i \in 1 .. NumNext(s)}
    BY <1>1, TreeChildren
  <1>9. E \subseteq Children(circuit, s)
    BY <1>8
  <1>10. \A t \in Children(circuit, s) : InPrefix(circuit, t) => t \in E
    BY <1>1, <1>8 DEF AbstractionIsEnabled, InPrefix
  <1>11. \A t \in Children(circuit, s) :
           t \in Scopes(circuit) \ {TopLevel, s} /\ Prev(t) = s /\ pc[t] = "idle"
    <2> TAKE t \in Children(circuit, s)
    <2>1. t \in Scopes(circuit) \ {TopLevel} /\ Prev(t) = s
      BY <1>1, TreeChildren
    <2>2. CalledByParent(t)
      BY <1>1, <2>1 DEF CallsMatch
    <2>3. pc[t] = "idle"
      BY <1>2, <2>1, <2>2 DEF CalledByParent
    <2> QED
      BY <1>2, <2>1, <2>3
  <1> HIDE DEF E
  <1>12. \A t \in Scopes(circuit) \ {s} : State(t)' = IF t \in E THEN "deciding" ELSE State(t)
    <2> TAKE t \in Scopes(circuit) \ {s}
    <2>1. CASE t \in E
      <3>1. (t \in Pending(Prev(t)))' /\ pc'[t] = "idle"
        BY <1>1, <1>3, <1>7, <1>9, <1>11, <2>1 DEF Prev
      <3> QED
        BY <2>1, <3>1 DEF State, Deciding, Asking
    <2>2. CASE t \notin E
      <3>1. \A p \in Scopes(circuit) : Pending(p)' \ E = Pending(p) \ E
        BY <1>5, <1>6, <1>7
      <3> QED
        BY <1>1, <1>3, <2>2, <3>1, SameStates
    <2> QED
      BY <2>1, <2>2
  <1> DEFINE parent == [u \in Scopes(circuit) \ {TopLevel} |-> Prev(u)]
             always == {u \in Scopes(circuit) : InPrefix(circuit, u)}
             mapped == [u \in Scopes(circuit) |-> State(u)]
             asked  == [u \in Scopes(circuit) |-> Pending(u)]
  <1>13. mapped[s] = "deciding" /\ R!Children(s) = Children(circuit, s)
         /\ R!Tree = Scopes(circuit) /\ Children(circuit, s) # {}
    BY <1>1, <1>2, <1>4, SameTree, TreeChildren
  <1>14. E \in SUBSET R!Children(s) /\ R!Children(s) \cap always \subseteq E
    BY <1>9, <1>10, <1>13
  <1>15. asked' = [asked EXCEPT ![s] = E]
    BY <1>1, <1>5, <1>7
  <1>16. mapped' = [t \in R!Tree |->
                      IF t = s THEN "asking" ELSE IF t \in E THEN "deciding" ELSE mapped[t]]
    BY <1>1, <1>4, <1>12, <1>13
  <1>17. UNCHANGED <<parent, always>>
    BY <1>1 DEF Prev
  <1>18. R!Ask(s)
    BY <1>2, <1>13, <1>14, <1>15, <1>16, <1>17 DEF R!Ask
  <1> QED
    BY <1>13, <1>18 DEF R!Next

\* The loop passes over a child that is not asked, or starts one that is: hidden.
LEMMA LoopStep ==
  ASSUME RInv, NEW s \in Scopes(circuit), NextChild(s)
  PROVE  UNCHANGED R!vars
  <1> PICK c : c = CurrentChild(s)
    OBVIOUS
  <1>1. IInv /\ Shape(circuit) /\ circuit' = circuit /\ assumptions' = assumptions
        /\ result' = result /\ PerScope
    BY Types DEF RInv, NextChild, config, IInv
  <1>2. pc[s] = "children" /\ index[s] \in 1 .. NumNext(s) /\ NumNext(s) \in Nat
    BY <1>1, Types DEF NextChild, Round, Places, InLoop
  <1>3. c \in Scopes(circuit) \ {TopLevel, s} /\ Prev(c) = s
    BY <1>1, <1>2, Current
  <1>4. CASE AbstractionIsEnabled(s, c)
    <2>1. pc' = [pc EXCEPT ![s] = "called", ![c] = "solve"] /\ index' = index
      BY <1>4 DEF NextChild
    <2>2. /\ pc'[s] = "called" /\ pc'[c] = "solve" /\ pc[c] = "idle"
          /\ \A u \in Scopes(circuit) \ {s, c} : pc'[u] = pc[u]
      BY <1>1, <1>2, <1>3, <2>1, Types DEF CallsMatch, CalledByParent
    <2>3. \A u \in Scopes(circuit) : Asking(u)' <=> Asking(u)
      BY <1>1, <1>2, <2>2 DEF Asking, IsLeaf, NumNext
    <2>4. \A u \in Scopes(circuit) : Pending(u)' = Pending(u)
      BY <1>1, <2>1, <2>3, SamePending
    <2>5. c \in Pending(s)
      <3>1. Asking(s) /\ index[s] \in index[s] .. NumNext(s) /\ c = circuit.scope[s].next[index[s]]
        BY <1>2 DEF Asking, CurrentChild
      <3> QED
        BY <1>4, <3>1 DEF Pending
    <2>6. State(c)' = State(c)
      <3>1. State(c) = "deciding"
        BY <1>3, <2>2, <2>5, StateIs
      <3>2. State(c)' = "deciding"
        BY <2>2 DEF State, Deciding, Asking
      <3> QED
        BY <3>1, <3>2
    <2>7. State(s)' = State(s)
      BY <1>2, <2>2 DEF State, Deciding, Asking
    <2>8. \A u \in Scopes(circuit) \ {s, c} : State(u)' = State(u)
      BY <1>1, <2>2, <2>4, SameStates
    <2> QED
      BY <1>1, <2>4, <2>6, <2>7, <2>8, HiddenStep
  <1>5. CASE ~AbstractionIsEnabled(s, c)
    <2>1. pc' = pc /\ index'[s] = index[s] + 1
          /\ \A u \in Scopes(circuit) \ {s} : index'[u] = index[u]
      BY <1>1, <1>5 DEF NextChild, PerScope
    <2>2. \A u : Asking(u)' <=> Asking(u)
      BY <1>1, <2>1 DEF Asking, IsLeaf, NumNext
    <2>3. \A u \in Scopes(circuit) \ {s} : Pending(u)' = Pending(u)
      BY <1>1, <2>1, <2>2, SamePending
    <2>4. Pending(s)' = Pending(s)
      <3>1. c = circuit.scope[s].next[index[s]]
        BY DEF CurrentChild
      <3>2. \A j \in index[s] .. NumNext(s) : j = index[s] \/ j \in index[s] + 1 .. NumNext(s)
        BY <1>2
      <3>3. \A j \in index[s] + 1 .. NumNext(s) : j \in index[s] .. NumNext(s)
        BY <1>2
      <3>4. Pending(s)' = {circuit.scope[s].next[i] : i \in {j \in index[s] + 1 .. NumNext(s) :
                             Asking(s) /\ AbstractionIsEnabled(s, circuit.scope[s].next[j])}}
        BY <1>1, <2>1, <2>2, PendingAfter
      <3> QED
        BY <1>5, <3>1, <3>2, <3>3, <3>4 DEF Pending
    <2>5. \A u \in Scopes(circuit) : State(u)' = State(u)
      <3>1. \A p \in Scopes(circuit) : Pending(p)' \ {} = Pending(p) \ {}
        BY <2>3, <2>4
      <3> QED
        BY <1>1, <2>1, <3>1, SameStates
    <2> QED
      BY <1>1, <2>3, <2>4, <2>5, HiddenStep
  <1> QED
    BY <1>4, <1>5

\* What a step of a scope is in the rounds.
LEMMA StepIsRound ==
  ASSUME RInv, NEW s \in Scopes(circuit), Step(s)
  PROVE  R!Next \/ UNCHANGED R!vars
  <1>1. IInv /\ Shape(circuit)
    BY Types DEF RInv
  <1>2. CASE SolveLeaf(s)
    <2>1. PICK m : DualPropagation(s, m)
      BY <1>2 DEF SolveLeaf
    <2>2. /\ pc[s] = "solve" /\ IsLeaf(s)
          /\ UNCHANGED <<config, assumptions, result, index>>
      BY <1>2 DEF SolveLeaf
    <2> QED
      BY <2>1, <2>2, DualStep
  <1>3. CASE AllAgreed(s)
    <2>1. DualPropagation(s, model[s])
      BY <1>3 DEF AllAgreed
    <2>2. /\ pc[s] = "children" /\ index[s] > NumNext(s) /\ result[s] = "good"
          /\ UNCHANGED <<config, assumptions, result, index>>
      BY <1>3 DEF AllAgreed
    <2> QED
      BY <2>1, <2>2, DualStep
  <1>4. CASE SolveUnsat(s) \/ Retry(s)
    <2>1. PICK x \in {"bad", "solve"} :
            /\ pc' = [pc EXCEPT ![s] = x]
            /\ x = "bad" => pc[s] = "solve"
            /\ x = "solve" => pc[s] = "children" /\ index[s] > NumNext(s) /\ result[s] = "bad"
            /\ UNCHANGED <<config, assumptions, result, index>>
      BY <1>4 DEF SolveUnsat, Retry
    <2>2. circuit' = circuit /\ pc'[s] = x
      BY <1>1, <2>1, Types DEF config
    <2>3. /\ Pending(s) = {}
          /\ \A u \in Scopes(circuit) : Pending(u)' = Pending(u)
          /\ \A u \in Scopes(circuit) \ {s} : State(u)' = State(u)
      BY <2>1, <2>2, OwnStep
    <2>4. UNCHANGED <<[u \in Scopes(circuit) \ {TopLevel} |-> Prev(u)],
                      {u \in Scopes(circuit) : InPrefix(circuit, u)},
                      [u \in Scopes(circuit) |-> Pending(u)], result>>
      BY <2>1, <2>2, <2>3 DEF Prev
    <2>5. CASE x = "bad"
      <3>1. State(s) = "deciding" /\ State(s)' = "bad"
        BY <2>1, <2>2, <2>5, StateIs DEF State, Deciding, Asking
      <3>2. [u \in Scopes(circuit) |-> State(u)]' =
              [[u \in Scopes(circuit) |-> State(u)] EXCEPT ![s] = "bad"]
        BY <2>2, <2>3, <3>1, OneState
      <3>3. R!GiveUp(s)
        BY <2>4, <3>1, <3>2 DEF R!GiveUp
      <3> QED
        BY <1>1, <3>3, SameTree DEF R!Next
    <2>6. CASE x = "solve"
      <3>1. State(s) = "asking" /\ State(s)' = "deciding"
        BY <2>1, <2>2, <2>6, StateIs DEF State, Deciding, Asking
      <3>2. [u \in Scopes(circuit) |-> State(u)]' =
              [[u \in Scopes(circuit) |-> State(u)] EXCEPT ![s] = "deciding"]
        BY <2>2, <2>3, <3>1, OneState
      <3>3. R!DecideAnew(s)
        BY <2>1, <2>3, <2>4, <2>6, <3>1, <3>2 DEF R!DecideAnew, R!RoundIsOver
      <3> QED
        BY <1>1, <3>3, SameTree DEF R!Next
    <2> QED
      BY <2>1, <2>5, <2>6
  <1>5. CASE ChildAgrees(s)
    <2> PICK c : c = CurrentChild(s)
      OBVIOUS
    <2>1. /\ pc[s] = "called" /\ pc[c] = "bad"
          /\ pc' = [pc EXCEPT ![s] = "children", ![c] = "idle"]
          /\ index' = [index EXCEPT ![s] = @ + 1] /\ UNCHANGED <<config, assumptions>>
          /\ result' = IF pc[c] = "good" THEN [result EXCEPT ![s] = "bad"] ELSE result
      BY <1>5 DEF ChildAgrees, Agree
    <2> QED
      BY <2>1, HearStep
  <1>6. CASE ChildObjects(s)
    <2> PICK c : c = CurrentChild(s)
      OBVIOUS
    <2>1. pc[s] = "called" /\ pc[c] = "good"
      BY <1>6 DEF ChildObjects
    <2>2. FailedBLits(s, c) \subseteq assumptions[s]
      BY <1>1, <2>1, Objection
    <2>3. /\ pc' = [pc EXCEPT ![s] = "children", ![c] = "idle"]
          /\ index' = [index EXCEPT ![s] = @ + 1] /\ UNCHANGED <<config, assumptions>>
          /\ result' = IF pc[c] = "good" THEN [result EXCEPT ![s] = "bad"] ELSE result
      BY <1>6, <2>1, <2>2 DEF ChildObjects
    <2> QED
      BY <2>1, <2>3, HearStep
  <1> QED
    BY <1>2, <1>3, <1>4, <1>5, <1>6, AskStep, LoopStep DEF Step

\* The sequential solver implements the recursion in rounds: the enabled children of a
\* proposal are heard exactly once each, in the round in which they were asked, and the
\* scope concludes exactly when none of them has objected (solve_recursive, solver.c:295,
\* solve_sub_sequentially).
THEOREM SolverImplementsRounds == Spec => ImplementsRounds
  <1>1. Init => R!Init
    <2> SUFFICES ASSUME Init
                 PROVE  R!Init
      OBVIOUS
    <2>1. /\ pc = [s \in Scopes(circuit) |-> IF s = TopLevel THEN "solve" ELSE "idle"]
          /\ Shape(circuit)
      BY InitInv, Types DEF Init
    <2>2. \A s \in Scopes(circuit) : ~Asking(s)
      BY <2>1 DEF Asking
    <2>3. \A s \in Scopes(circuit) : Pending(s) = {}
      BY <2>2, NonePending
    <2>4. \A s \in Scopes(circuit) \ {TopLevel} : Prev(s) \in Scopes(circuit)
      BY <2>1, Tree
    <2>5. \A s \in Scopes(circuit) : State(s) = IF s = TopLevel THEN "deciding" ELSE "idle"
      <3> TAKE s \in Scopes(circuit)
      <3>1. CASE s = TopLevel
        BY <2>1, <3>1, StateIs
      <3>2. CASE s # TopLevel
        <4>1. pc[s] = "idle" /\ s \notin Pending(Prev(s))
          BY <2>1, <2>3, <2>4, <3>2
        <4> QED
          BY <3>2, <4>1, StateIs
      <3> QED
        BY <3>1, <3>2
    <2> QED
      BY <2>1, <2>3, <2>5, SameTree DEF R!Init
  <1>2. RInv /\ [Next]_vars => [R!Next]_R!vars
    <2>1. ASSUME RInv, NEW s \in Scopes(circuit), Step(s)
          PROVE  R!Next \/ UNCHANGED R!vars
      BY <2>1, StepIsRound
    <2>2. ASSUME RInv, UNCHANGED vars
          PROVE  UNCHANGED R!vars
      <3>1. /\ circuit' = circuit /\ result' = result /\ pc' = pc
            /\ assumptions' = assumptions /\ index' = index
        BY <2>2 DEF vars
      <3>2. \A u : Pending(u)' = Pending(u)
        BY <3>1, SamePending DEF Asking, IsLeaf, NumNext
      <3>3. \A u \in Scopes(circuit) : State(u)' = State(u)
        <4>1. \A p \in Scopes(circuit) : Pending(p)' \ {} = Pending(p) \ {}
          BY <3>2
        <4> QED
          BY <2>2, <3>1, <4>1, SameStates
      <3> QED
        BY <3>1, <3>2, <3>3, HiddenStep
    <2> QED
      BY <2>1, <2>2 DEF Next, Done
  <1> QED
    BY RoundInvariance, <1>1, <1>2, PTL DEF Spec, ImplementsRounds, R!Spec

-----------------------------------------------------------------------------
(***************************************************************************)
(* The search never gets stuck.                                            *)
(***************************************************************************)
\* Literals of the instances belong to the circuit, and a loop knows how its round stands.
Bounded ==
  /\ \A s \in Scopes(circuit) : \A cl \in sat[s] : cl \subseteq ClauseLits(circuit)
  /\ \A s \in Scopes(circuit) : InLoop(s) => result[s] \in {"good", "bad"}

\* There are finitely many of those.
LEMMA ClausesAreFinite ==
  ASSUME Shape(circuit), NEW clauses, \A cl \in clauses : cl \subseteq ClauseLits(circuit)
  PROVE  clauses \in Instances /\ FiniteClauses(clauses)
  <1>1. MaxNum(circuit) \in Nat
    BY NodeNumbers
  <1> DEFINE all == -(2 * MaxNum(circuit)) .. 2 * MaxNum(circuit)
  <1>2. ClauseLits(circuit) \subseteq all /\ ClauseLits(circuit) \subseteq Int \ {0}
    BY <1>1 DEF ClauseLits
  <1>3. IsFiniteSet(all)
    <2>1. -(2 * MaxNum(circuit)) \in Int /\ 2 * MaxNum(circuit) \in Int
      BY <1>1
    <2> QED
      BY <2>1, FS_Interval
  <1>4. UNION clauses \subseteq ClauseLits(circuit)
    OBVIOUS
  <1>5. IsFiniteSet(ClauseLits(circuit))
    <2> HIDE DEF all
    <2> QED
      BY <1>2, <1>3, FS_Subset
  <1> QED
    BY <1>2, <1>4, <1>5, FS_Subset DEF FiniteClauses, Instances

\* So are the literals of an instance.
LEMMA InstanceIsFinite ==
  ASSUME IInv, Bounded, NEW s \in Scopes(circuit)
  PROVE  sat[s] \in Instances /\ FiniteClauses(sat[s])
  BY Types, ClausesAreFinite DEF Bounded

\* The literals of a refinement are literals of the circuit.
LEMMA RefinementLits ==
  ASSUME IInv, NEW s \in Scopes(circuit), NEW c \in Scopes(circuit)
  PROVE  RefinementClause(s, c) \subseteq ClauseLits(circuit)
  <1>1. Static /\ Shape(circuit) /\ MaxNum(circuit) \in Nat
    BY NodeNumbers DEF IInv, Static
  <1>2. \A i \in Nodes(circuit) :
          i \in ClauseLits(circuit) /\ TLit(circuit, i) \in ClauseLits(circuit)
    BY <1>1 DEF Nodes, TLit, ClauseLits
  <1>3. b_lits[s] \subseteq ClauseLits(circuit)
    BY <1>1, <1>2, Interfaces
  <1>4. entry[c] \subseteq ClauseLits(circuit)
    <2>1. t_lits[c] \subseteq {TLit(circuit, i) : i \in Nodes(circuit)}
      BY <1>1, InterfaceNumbers DEF Static
    <2>2. entry[c] \subseteq t_lits[c]
      BY Types
    <2> QED
      BY <1>2, <2>1, <2>2
  <1>5. ~InPrefix(circuit, c) => circuit.scope[c].node \in ClauseLits(circuit)
    <2> DEFINE Rec == [qtype : {"exists", "forall"}, prev : {0} \cup Scopes(circuit),
                       node : {0} \cup Nodes(circuit), next : Seq(Scopes(circuit))]
    <2>1. circuit.scope \in Seq(Rec) /\ c \in 1 .. Len(circuit.scope)
      BY <1>1, Tree DEF Shape, CircuitType
    <2>2. circuit.scope[c] \in Rec
      <3> HIDE DEF Rec
      <3> QED
        BY <2>1
    <2> QED
      BY <1>2, <2>2 DEF InPrefix
  <1> QED
    BY <1>3, <1>4, <1>5 DEF RefinementClause, FailedBLits

\* At first the instances are the encodings.
LEMMA InitBounded == Init => Bounded
  <1> SUFFICES ASSUME Init
               PROVE  Bounded
    OBVIOUS
  <1>1. Shape(circuit)
    BY InitInv, Types
  <1>2. /\ sat = [s \in Scopes(circuit) |->
                   BuildSatInstance(circuit, s, QType(s), b_lits[s], t_lits[s])]
        /\ pc = [s \in Scopes(circuit) |-> IF s = TopLevel THEN "solve" ELSE "idle"]
    BY DEF Init
  <1> QED
    BY <1>1, <1>2, EncodingLits DEF Bounded, InLoop

\* Only refine adds a clause.
LEMMA NextBounded ==
  ASSUME IInv, Bounded, [Next]_vars
  PROVE  Bounded'
  <1>1. CASE UNCHANGED vars
    BY <1>1 DEF Bounded, vars, InLoop, ClauseLits, MaxNum
  <1>2. ASSUME NEW s \in Scopes(circuit), Step(s)
        PROVE  Bounded'
    <2>1. /\ circuit' = circuit /\ PerScope /\ pc \in [Scopes(circuit) -> PcValues]
          /\ result \in [Scopes(circuit) -> {"none", "good", "bad"}]
      BY <1>2, Types DEF IInv, Step, SolveLeaf, SolveInner, SolveUnsat, NextChild, ChildAgrees,
                         ChildObjects, AllAgreed, Retry, config
    <2>2. \A u \in Scopes(circuit) : \A cl \in sat'[u] : cl \subseteq ClauseLits(circuit)
      <3>1. CASE ChildObjects(s)
        <4>1. sat' = sat \/ sat' = [sat EXCEPT ![s] = @ \cup {RefinementClause(s, CurrentChild(s))}]
          BY <3>1 DEF ChildObjects
        <4>2. CurrentChild(s) \in Scopes(circuit)
          <5>1. pc[s] = "called" => index[s] \in 1 .. NumNext(s)
            BY Types DEF Round, Places, InLoop
          <5> QED
            BY <3>1, <5>1, Current DEF ChildObjects
        <4> QED
          BY <2>1, <4>1, <4>2, RefinementLits DEF Bounded, PerScope
      <3>2. CASE ~ChildObjects(s)
        <4>1. sat' = sat
          BY <1>2, <3>2 DEF Step, SolveLeaf, SolveInner, SolveUnsat, NextChild, ChildAgrees,
                            AllAgreed, Retry
        <4> QED
          BY <4>1 DEF Bounded
      <3> QED
        BY <3>1, <3>2
    <2>3. \A u \in Scopes(circuit) : InLoop(u)' => result'[u] \in {"good", "bad"}
      <3>1. /\ result' \in {result, [result EXCEPT ![s] = "good"], [result EXCEPT ![s] = "bad"]}
            /\ \A u \in Scopes(circuit) : InLoop(u)' /\ ~InLoop(u) => u = s /\ result'[s] = "good"
        <4>1. CASE SolveLeaf(s) \/ AllAgreed(s)
          BY <2>1, <4>1 DEF SolveLeaf, AllAgreed, DualPropagation, InLoop
        <4>2. CASE SolveInner(s)
          BY <2>1, <4>2 DEF SolveInner, InLoop
        <4>3. CASE SolveUnsat(s) \/ Retry(s)
          BY <2>1, <4>3 DEF SolveUnsat, Retry, InLoop
        <4>4. CASE NextChild(s)
          BY <2>1, <4>4 DEF NextChild, InLoop
        <4>5. CASE ChildAgrees(s)
          BY <2>1, <4>5 DEF ChildAgrees, Agree, InLoop
        <4>6. CASE ChildObjects(s)
          BY <2>1, <4>6 DEF ChildObjects, InLoop
        <4> QED
          BY <1>2, <4>1, <4>2, <4>3, <4>4, <4>5, <4>6 DEF Step
      <3> QED
        BY <2>1, <3>1 DEF Bounded
    <2> QED
      BY <2>1, <2>2, <2>3 DEF Bounded
  <1> QED
    BY <1>1, <1>2 DEF Next, Done

\* After an unsatisfiable call some failed assumptions are reported: all of them will do.
LEMMA FailuresExist ==
  ASSUME NEW clauses, NEW assumed, ~Satisfiable(clauses, assumed),
         NEW reported, reported \subseteq assumed
  PROVE  FailedSets(clauses, assumed \ reported, reported) # {}
  <1>1. (assumed \ reported) \cup reported = assumed
    OBVIOUS
  <1>2. reported \in FailedSets(clauses, assumed \ reported, reported)
    BY <1>1 DEF FailedSets
  <1> QED
    BY <1>2

\* What is assumed does not contradict itself, so a satisfiable instance has a model.
LEMMA SolveAnswers ==
  ASSUME IInv, Bounded, NEW s \in Scopes(circuit), Satisfiable(sat[s], AssumedT(s))
  PROVE  Models(s) # {}
  <1>1. /\ b_lits[s] \subseteq Nat \ {0} /\ t_lits[s] \subseteq Nat \ {0}
        /\ entry[s] \subseteq t_lits[s] /\ Nodes(circuit) \subseteq Nat \ {0}
    BY Interfaces, Types DEF IInv
  <1>2. ScopeVars(circuit, s) \cup b_lits[s] \subseteq Nat \ {0}
    BY <1>1 DEF ScopeVars
  <1>3. NoOpposites(AssumedT(s))
    BY <1>1 DEF NoOpposites, AssumedT, Opposite
  <1> QED
    BY <1>2, <1>3, InstanceIsFinite, ModelsExist DEF Models

\* The dual instance answers, with a model (which ends the search) or with failed assumptions.
DualAnswers(s, m) ==
  LET dual     == negation[s] \cup (IF IsLeaf(s) THEN {} ELSE {DualClause(s)})
      assumed  == AssignedLits(s, m) \cup AssumedTDual(s)
      reported == Negative(AssumedTDual(s))
  IN  Satisfiable(dual, assumed) \/ FailedSets(dual, assumed \ reported, reported) # {}

\* It always does.
LEMMA DualPropagationAnswers ==
  ASSUME NEW s, NEW m
  PROVE  DualAnswers(s, m)
  <1> DEFINE dual     == negation[s] \cup (IF IsLeaf(s) THEN {} ELSE {DualClause(s)})
             assumed  == AssignedLits(s, m) \cup AssumedTDual(s)
             reported == Negative(AssumedTDual(s))
  <1>1. reported \subseteq assumed
    BY DEF Negative
  <1> HIDE DEF dual, assumed, reported
  <1>2. Satisfiable(dual, assumed) \/ FailedSets(dual, assumed \ reported, reported) # {}
    BY <1>1, FailuresExist
  <1> QED
    BY <1>2 DEF DualAnswers, dual, assumed, reported

\* The guards of the actions, with everything that they choose from: SolveUnsat, SolveInner,
\* SolveLeaf; NextChild, AllAgreed, Retry; ChildAgrees or ChildObjects.
CanStep(s) ==
  \/ /\ pc[s] = "solve"
     /\ LET reported == Negative(AssumedT(s))
        IN  \/ /\ ~Satisfiable(sat[s], AssumedT(s))
               /\ FailedSets(sat[s], AssumedT(s) \ reported, reported) # {}
            \/ \E mm \in Models(s) : IsLeaf(s) => DualAnswers(s, ObservedLits(s, mm))
  \/ /\ pc[s] = "children"
     /\ \/ index[s] <= NumNext(s)
        \/ index[s] > NumNext(s) /\ result[s] = "good" /\ DualAnswers(s, model[s])
        \/ index[s] > NumNext(s) /\ result[s] = "bad"
  \/ pc[s] = "called" /\ pc[CurrentChild(s)] \in {"good", "bad"}
NeverStuck == Answered \/ Aborted \/ \E s \in Scopes(circuit) : CanStep(s)

\* The innermost scope at work can go on, or the scope that waits for its answer.
LEMMA InnermostIsReady ==
  ASSUME RInv, Bounded
  PROVE  NeverStuck
  <1> DEFINE n == Len(circuit.scope)
             Active == {u \in Scopes(circuit) : pc[u] # "idle"}
             T == {k \in Nat : \E u \in Active : k = n - u}
  <1>1. /\ IInv /\ pc \in [Scopes(circuit) -> PcValues] /\ Shape(circuit) /\ CallsMatch
        /\ pc[TopLevel] # "idle"
    BY Types DEF RInv
  <1>2. n \in Nat /\ Scopes(circuit) = 1 .. n /\ TopLevel \in Scopes(circuit)
    BY <1>1, Tree
  <1>3. PICK s \in Active : \A u \in Active : u <= s
    <2>1. \A u \in Active : u \in Nat /\ n - u \in T
      <3> HIDE DEF n
      <3> QED
        BY <1>2
    <2>2. T # {} /\ T \in SUBSET Nat
      BY <1>1, <1>2, <2>1
    <2>3. PICK k \in T : \A y \in T : k <= y
      <3> HIDE DEF T
      <3> QED
        BY <2>2, LeastNumber
    <2>4. PICK s \in Active : k = n - s
      BY <2>3
    <2>5. \A u \in Active : u <= s
      <3> HIDE DEF n, T, Active
      <3> QED
        BY <1>2, <2>1, <2>3, <2>4
    <2> QED
      BY <2>5
  <1>4. CASE pc[s] = "solve"
    <2>1. CASE Satisfiable(sat[s], AssumedT(s))
      BY <1>1, <1>4, <2>1, SolveAnswers, DualPropagationAnswers DEF NeverStuck, CanStep
    <2>2. CASE ~Satisfiable(sat[s], AssumedT(s))
      <3>1. FailedSets(sat[s], AssumedT(s) \ Negative(AssumedT(s)), Negative(AssumedT(s))) # {}
        BY <2>2, FailuresExist DEF Negative
      <3> QED
        BY <1>4, <2>2, <3>1 DEF NeverStuck, CanStep
    <2> QED
      BY <2>1, <2>2
  <1>5. CASE pc[s] = "children"
    <2>1. result[s] \in {"good", "bad"} /\ index[s] \in Nat /\ NumNext(s) \in Nat
      BY <1>1, <1>5, Types DEF Bounded, InLoop
    <2> QED
      BY <1>5, <2>1, DualPropagationAnswers DEF NeverStuck, CanStep
  <1>6. CASE pc[s] = "called"
    <2>1. index[s] \in 1 .. NumNext(s)
      BY <1>1, <1>6, Types DEF Round, Places, InLoop
    <2> PICK c : c = CurrentChild(s)
      OBVIOUS
    <2>2. c \in Scopes(circuit) \ {TopLevel, s} /\ Prev(c) = s
      BY <1>1, <2>1, Current
    <2>3. pc[c] # "idle"
      BY <1>1, <1>6, <2>2 DEF CallsMatch, CalledByParent
    <2>4. s < c
      BY <1>1, <1>2, <2>2 DEF Shape, ScopeTree, Prev
    <2>5. c \in Active
      BY <2>2, <2>3
    <2>6. c \in Nat /\ s \in Nat
      BY <1>2, <2>2
    <2>7. c <= s
      <3> HIDE DEF Active
      <3> QED
        BY <1>3, <2>5
    <2> QED
      BY <2>4, <2>6, <2>7
  <1>7. CASE pc[s] \in {"good", "bad"}
    <2>1. CASE s = TopLevel
      BY <1>7, <2>1 DEF NeverStuck, Answered
    <2>2. CASE s # TopLevel
      <3>1. pc[Prev(s)] = "called" /\ CurrentChild(Prev(s)) = s /\ Prev(s) \in Scopes(circuit)
        BY <1>1, <2>2, Tree DEF CallsMatch, CalledByParent
      <3> QED
        BY <1>7, <3>1 DEF NeverStuck, CanStep
    <2> QED
      BY <2>1, <2>2
  <1>8. CASE pc[s] = "abort"
    BY <1>8 DEF NeverStuck, Aborted
  <1>9. pc[s] \in PcValues /\ pc[s] # "idle"
    BY <1>1, <1>3
  <1> QED
    BY <1>4, <1>5, <1>6, <1>7, <1>8, <1>9 DEF PcValues

\* Until there is an answer, or a failed check, some scope can take a step: the SAT solver has
\* something to answer to every call, and nobody waits for a scope that is not at work
\* (solve_recursive, solve_sub_sequentially).
THEOREM SearchNeverStuck == Spec => []NeverStuck
  <1>1. IInv /\ Bounded /\ [Next]_vars => Bounded'
    BY NextBounded
  <1>2. RInv /\ Bounded => NeverStuck
    BY InnermostIsReady
  <1> QED
    BY InitBounded, SolverInvariance, RoundInvariance, <1>1, <1>2, PTL DEF Spec

=============================================================================

-------------------------------- MODULE Solver --------------------------------
(***************************************************************************)
(* The sequential solver (solver.c with the solving half of                *)
(* circuit_abstraction.c): a recursion over the tree of scopes in which    *)
(* every scope runs a counterexample-guided loop.  A scope's SAT instance  *)
(* proposes an assignment, the proposal is handed to the child scopes      *)
(* through their entries, and a child's answer refines the instance or     *)
(* becomes part of the reason why the proposal was good.                   *)
(*                                                                         *)
(* One action is one uninterrupted stretch of solve_recursive for one      *)
(* scope: up to the call of a child, or up to its return.                  *)
(***************************************************************************)
EXTENDS CircuitAbstraction, QbfSemantics, SatSolver

CONSTANTS
  Circuits    \* the encoded circuits to be solved, each a record as in Circuit

ASSUME CircuitsWellFormed == \A c \in Circuits : WellFormed(c)

VARIABLES
  circuit,      \* solver->circuit
  minimize,     \* options->assignment_b_lit_minimization
  b_lits,       \* per scope: the interface literals of its abstraction
  t_lits,
  sat,          \* per scope: clauses of the abstraction
  negation,     \* per scope: clauses of the dual abstraction
  value,        \* per node: node_shared.value
  model,        \* per scope: what satsolver_value last said of variables and b-literals
  entry,        \* per scope: t-literals of the entry, on return those of the answer
  assumptions,  \* per scope: b-literals the proposal leaves to the inner scopes
  local_unsat_core, \* per scope: t-literals the children needed to agree
  result,       \* per scope: abstraction->result
  index,        \* per scope: loop counter of solve_sub_sequentially
  pc            \* per scope: where its activation is; "good"/"bad" is its answer

config == <<circuit, minimize, b_lits, t_lits>>
vars == <<circuit, minimize, b_lits, t_lits, sat, negation, value, model, entry,
          assumptions, local_unsat_core, result, index, pc>>

QType(s) == circuit.scope[s].qtype
Prev(s) == circuit.scope[s].prev
NumNext(s) == Len(circuit.scope[s].next)
IsLeaf(s) == NumNext(s) = 0
CurrentChild(s) == circuit.scope[s].next[index[s]]

\* build_circuit_abstraction: an instance and a dual one for every scope.
Init ==
  /\ \E c \in Circuits : circuit = Annotate(c)
  /\ minimize \in BOOLEAN
  /\ LET S == Scopes(circuit)
     IN  /\ b_lits = [s \in S |-> BLits(circuit, s)]
         /\ t_lits = [s \in S |-> TLits(circuit, s)]
         /\ sat = [s \in S |-> BuildSatInstance(circuit, s, QType(s), b_lits[s], t_lits[s])]
         /\ negation = [s \in S |->
              BuildSatInstance(circuit, s, Dual(QType(s)), b_lits[s], t_lits[s])]
         /\ value = [i \in Nodes(circuit) |-> 0]
         /\ model = [s \in S |-> {}]
         /\ entry = [s \in S |-> {}]
         /\ assumptions = [s \in S |-> {}]
         /\ local_unsat_core = [s \in S |-> {}]
         /\ result = [s \in S |-> "none"]
         /\ index = [s \in S |-> 0]
         /\ pc = [s \in S |-> IF s = TopLevel THEN "solve" ELSE "idle"]

-----------------------------------------------------------------------------
\* circuit_abstraction_assume_t_literals: what is assumed in the instance, and in the dual one.
AssumedT(s) == entry[s] \cup Opposite(t_lits[s] \ entry[s])
AssumedTDual(s) == Opposite(AssumedT(s))
Negative(lits) == {l \in lits : l < 0}

\* set_value_and_evaluate: the values after the scope's SAT solver proposed m.
\* SetValueOnce: variables that have a value keep it.
SetValueOnce(s, m) ==
  LET own == {i \in ScopeVars(circuit, s) : value[i] = 0}
      v   == [i \in Nodes(circuit) |->
                IF i \in own THEN (IF i \in m THEN s ELSE -s) ELSE value[i]]
  IN  IF minimize THEN EvaluateMax(circuit, v, s) ELSE v
SetValueAndEvaluate(s, m) ==
  LET own == ScopeVars(circuit, s)
      v   == [i \in Nodes(circuit) |->
                IF i \in own THEN (IF i \in m THEN s ELSE -s) ELSE value[i]]
  IN  IF minimize THEN EvaluateMax(circuit, v, s) ELSE v

\* circuit_abstraction_get_assumptions: a b-literal that is off is not handed on when
\* the evaluated circuit shows that the node is satisfied, or leaves an AND gate open.
NeedNotAssume(s, v, i) ==
  /\ minimize
  /\ IsGate(circuit, i)
  /\ \/ v[i] = 0 /\ GateTypeFor(circuit, i, QType(s)) = "and"
     \/ IF QType(s) = "forall" THEN v[i] < 0 ELSE v[i] > 0

Assumptions(s, m, v) == {b \in b_lits[s] : -b \in m /\ ~NeedNotAssume(s, v, b)}

\* The t-literals a child is entered with: those of the assumptions, and those of the
\* scope's own t-literals that it neither holds nor decides. EntryForUnfiltered: the child
\* is not asked what it shares. EntryForHeld: the held t-literals are passed on.
EntryForUnfiltered(s, child, as) ==
  {TLit(circuit, b) : b \in as}
EntryForHeld(s, child, as) ==
  t_lits[child] \cap
    (   {TLit(circuit, b) : b \in as}
   \cup {t \in t_lits[s] : TLitToVarId(circuit, t) \notin b_lits[s]})
EntryFor(s, child, as) ==
  t_lits[child] \cap
    (   {TLit(circuit, b) : b \in as}
   \cup {t \in t_lits[s] \ entry[s] : TLitToVarId(circuit, t) \notin b_lits[s]})

AbstractionIsEnabled(s, child) ==
  InPrefix(circuit, child) \/ circuit.scope[child].node \in assumptions[s]

Models(s) ==
  SatModels(sat[s], AssumedT(s), ScopeVars(circuit, s) \cup b_lits[s])
ObservedLits(s, m) == {l \in m : Abs(l) \in ScopeVars(circuit, s) \cup b_lits[s]}
AssignedLits(s, m) == {l \in m : Abs(l) \in ScopeVars(circuit, s)}

(***************************************************************************)
(* circuit_abstraction_dual_propagation under the proposal m: assumes m    *)
(* and the entry in the dual instance, which cannot be satisfiable, and    *)
(* answers with the part of the entry that this needed.  An inner scope    *)
(* first adds what its children needed as a blocking clause.               *)
(* DualClauseUnmapped: with the t-literals of the children.                *)
(***************************************************************************)
DualClauseUnmapped(s) == local_unsat_core[s]
DualClause(s) ==
  {IF TLitToVarId(circuit, t) \in b_lits[s] THEN TLitToVarId(circuit, t) ELSE t :
     t \in local_unsat_core[s]}

DualPropagation(s, m) ==
  LET dual     == negation[s] \cup (IF IsLeaf(s) THEN {} ELSE {DualClause(s)})
      assumed  == AssignedLits(s, m) \cup AssumedTDual(s)
      reported == Negative(AssumedTDual(s))
  IN  /\ negation' = [negation EXCEPT ![s] = dual]
      /\ IF Satisfiable(dual, assumed)
         THEN pc' = [pc EXCEPT ![s] = "abort"] /\ UNCHANGED entry
         ELSE \E failed \in FailedSets(dual, assumed \ reported, reported) :
                /\ entry' = [entry EXCEPT ![s] = Opposite(failed)]
                /\ pc' = [pc EXCEPT ![s] = "good"]

-----------------------------------------------------------------------------
\* The instance of an innermost scope is satisfiable: answer good.
SolveLeaf(s) ==
  /\ pc[s] = "solve" /\ IsLeaf(s)
  /\ \E m \in {ObservedLits(s, mm) : mm \in Models(s)} :
       /\ model' = [model EXCEPT ![s] = m]
       /\ value' = SetValueAndEvaluate(s, m)
       /\ DualPropagation(s, m)
  /\ UNCHANGED <<config, sat, assumptions, local_unsat_core, result, index>>

\* The instance of an outer scope is satisfiable: enter the children.
SolveInner(s) ==
  /\ pc[s] = "solve" /\ ~IsLeaf(s)
  /\ \E m \in {ObservedLits(s, mm) : mm \in Models(s)} :
       /\ model' = [model EXCEPT ![s] = m]
       /\ value' = SetValueAndEvaluate(s, m)
       /\ LET as == Assumptions(s, m, value')
          IN  /\ assumptions' = [assumptions EXCEPT ![s] = as]
              /\ entry' = [t \in Scopes(circuit) |->
                             IF t \in Children(circuit, s) THEN EntryFor(s, t, as) ELSE entry[t]]
  /\ result' = [result EXCEPT ![s] = "good"]
  /\ local_unsat_core' = [local_unsat_core EXCEPT ![s] = {}]
  /\ index' = [index EXCEPT ![s] = 1]
  /\ pc' = [pc EXCEPT ![s] = "children"]
  /\ UNCHANGED <<config, sat, negation>>

\* The instance is unsatisfiable: circuit_abstraction_get_unsat_core, answer bad.
SolveUnsat(s) ==
  /\ pc[s] = "solve"
  /\ ~Satisfiable(sat[s], AssumedT(s))
  /\ LET reported == Negative(AssumedT(s))
     IN  \E failed \in FailedSets(sat[s], AssumedT(s) \ reported, reported) :
           entry' = [entry EXCEPT ![s] = Opposite(failed)]
  /\ pc' = [pc EXCEPT ![s] = "bad"]
  /\ UNCHANGED <<config, sat, negation, value, model, assumptions, local_unsat_core,
                 result, index>>

\* solve_sub_sequentially: pass over a child that is not enabled, or call it.
NextChild(s) ==
  /\ pc[s] = "children" /\ index[s] <= NumNext(s)
  /\ IF AbstractionIsEnabled(s, CurrentChild(s))
     THEN pc' = [pc EXCEPT ![s] = "called", ![CurrentChild(s)] = "solve"] /\ UNCHANGED index
     ELSE index' = [index EXCEPT ![s] = @ + 1] /\ UNCHANGED pc
  /\ UNCHANGED <<config, sat, negation, value, model, entry, assumptions,
                 local_unsat_core, result>>

\* The child agrees: circuit_abstraction_adjust_local_unsat_core. AgreeLast: the last child
\* decides the round.
AgreeLast(s) ==
  /\ local_unsat_core' = [local_unsat_core EXCEPT ![s] = @ \cup entry[CurrentChild(s)]]
  /\ result' = [result EXCEPT ![s] = "good"]
Agree(s) ==
  /\ local_unsat_core' = [local_unsat_core EXCEPT ![s] = @ \cup entry[CurrentChild(s)]]
  /\ UNCHANGED result

ChildAgrees(s) ==
  /\ pc[s] = "called" /\ pc[CurrentChild(s)] = "bad"
  /\ Agree(s)
  /\ pc' = [pc EXCEPT ![s] = "children", ![CurrentChild(s)] = "idle"]
  /\ index' = [index EXCEPT ![s] = @ + 1]
  /\ UNCHANGED <<config, sat, negation, value, model, entry, assumptions>>

\* refine: the clause that rules the proposal out. RefinementClauseAllB: it asks for any
\* b-literal. RefinementClauseNoT: without the t-literals that are passed through.
FailedBLits(s, child) == {TLitToVarId(circuit, t) : t \in entry[child]} \cap b_lits[s]
RefinementClauseAllB(s, child) ==
  b_lits[s] \cup {t \in entry[child] : TLitToVarId(circuit, t) \notin b_lits[s]}
RefinementClauseNoT(s, child) == FailedBLits(s, child)
RefinementClause(s, child) ==
       FailedBLits(s, child)
  \cup {t \in entry[child] : TLitToVarId(circuit, t) \notin b_lits[s]}
  \cup (IF InPrefix(circuit, child) THEN {} ELSE {circuit.scope[child].node})

\* The child objects: the instance is refined, and the loop over the children goes on.
ChildObjects(s) ==
  /\ pc[s] = "called" /\ pc[CurrentChild(s)] = "good"
  /\ IF FailedBLits(s, CurrentChild(s)) \subseteq assumptions[s]
     THEN /\ sat' = [sat EXCEPT ![s] = @ \cup {RefinementClause(s, CurrentChild(s))}]
          /\ value' = IF minimize /\ s > 1 THEN EvaluateMax(circuit, value, s - 1) ELSE value
          /\ result' = [result EXCEPT ![s] = "bad"]
          /\ pc' = [pc EXCEPT ![s] = "children", ![CurrentChild(s)] = "idle"]
          /\ index' = [index EXCEPT ![s] = @ + 1]
     ELSE /\ pc' = [pc EXCEPT ![s] = "abort"]
          /\ UNCHANGED <<sat, value, result, index>>
  /\ UNCHANGED <<config, negation, model, entry, assumptions, local_unsat_core>>

\* All enabled children agreed: the answer is good.
AllAgreed(s) ==
  /\ pc[s] = "children" /\ index[s] > NumNext(s) /\ result[s] = "good"
  /\ DualPropagation(s, model[s])
  /\ UNCHANGED <<config, sat, value, model, assumptions, local_unsat_core, result, index>>

\* Some child objected: solve the refined instance.
Retry(s) ==
  /\ pc[s] = "children" /\ index[s] > NumNext(s) /\ result[s] = "bad"
  /\ pc' = [pc EXCEPT ![s] = "solve"]
  /\ UNCHANGED <<config, sat, negation, value, model, entry, assumptions,
                 local_unsat_core, result, index>>

Step(s) == \/ SolveLeaf(s) \/ SolveInner(s) \/ SolveUnsat(s)
           \/ NextChild(s) \/ ChildAgrees(s) \/ ChildObjects(s)
           \/ AllAgreed(s) \/ Retry(s)

Answered == pc[TopLevel] \in {"good", "bad"}
Aborted == \E s \in Scopes(circuit) : pc[s] = "abort"
Done == (Answered \/ Aborted) /\ UNCHANGED vars

Next == (\E s \in Scopes(circuit) : Step(s)) \/ Done

Spec == Init /\ [][Next]_vars
FairSpec == Spec /\ WF_vars(Next)

-----------------------------------------------------------------------------
(***************************************************************************)
(* Properties                                                              *)
(***************************************************************************)
PcValues == {"idle", "solve", "children", "called", "good", "bad", "abort"}

\* A scope other than the top level is active exactly when the scope around it is in the
\* call of that very child.
CalledByParent(s) ==
  pc[s] # "idle" <=> pc[Prev(s)] = "called" /\ CurrentChild(Prev(s)) = s

\* Types, and who may be active; a value names the scope that decided it.
TypeOK ==
  /\ minimize \in BOOLEAN
  /\ value \in [Nodes(circuit) -> -Len(circuit.scope) .. Len(circuit.scope)]
  /\ pc \in [Scopes(circuit) -> PcValues]
  /\ result \in [Scopes(circuit) -> {"none", "good", "bad"}]
  /\ \A s \in Scopes(circuit) :
       /\ index[s] \in 0 .. NumNext(s) + 1
       /\ entry[s] \subseteq t_lits[s]
       /\ assumptions[s] \subseteq b_lits[s]
       /\ local_unsat_core[s] \subseteq UNION {t_lits[t] : t \in Children(circuit, s)}
       /\ s # TopLevel => CalledByParent(s)

\* The solver never runs into one of its two consistency checks: a child only objects to
\* b-literals that were handed to it (refine, solver.c:118), and the dual instance refutes
\* every assignment that was found good (circuit_abstraction_dual_propagation, line 950).
NoInternalError == \A s \in Scopes(circuit) : pc[s] # "abort"

\* What one scope promises, some scope below takes up: every b-literal has its t-literal in
\* a child, although the two come from two analyses of the circuit under different depths
\* (the consistency check of build_circuit_abstraction, solver.c:66).
InterfacesMatch ==
  \A s \in Scopes(circuit) : \A b \in b_lits[s] :
    \E t \in Children(circuit, s) : TLit(circuit, b) \in t_lits[t]

\* The answer at the top level (solver_sat) is the truth value of the formula, whichever
\* models and failed assumptions the SAT solver answered on the way.
ResultIsTruth ==
  Answered => (pc[TopLevel] = "good") = QbfTruth(circuit)

\* --partial-assignment: the scope whose values are printed, and the winning values.
PrintedScope ==
  IF ScopeVars(circuit, TopLevel) = {} /\ NumNext(TopLevel) = 1
  THEN circuit.scope[TopLevel].next[1] ELSE TopLevel
PrintedAssignment ==
  {Signed(value[i], i) : i \in {v \in ScopeVars(circuit, PrintedScope) : value[v] # 0}}

\* The assignment that is printed on request (solve, solver.c:362) fixes every variable of
\* the outermost quantifier, and with it alone the owner of that quantifier has won: values
\* outlive the calls of the inner scopes and the evaluations that refinement repeats.
PartialAssignmentWins ==
  Answered /\ (pc[TopLevel] = "good") = (QType(PrintedScope) = "exists") =>
    /\ Atoms(PrintedAssignment) = ScopeVars(circuit, PrintedScope)
    /\ QbfTruth(Fixed(circuit, PrintedAssignment)) = (pc[TopLevel] = "good")

\* An assignment of the scopes around s makes node i an accomplished fact for the opponent
\* of the owner of s: this is what the absence of the node's t-literal stands for.
OuterAssignments(s) ==
  Assignments(UNION {ScopeVars(circuit, t) : t \in Enclosing(circuit, s)})
SettledByOuter(s, i, a) ==
  LET opponent == Dual(QType(s))
      decided  == DecidedValue(circuit, i, a)
      for      == IF opponent = "forall" THEN -decided ELSE decided
  IN  IF GateTypeFor(circuit, i, opponent) = "or" THEN for > 0 ELSE for >= 0
Won(s, a) == ScopeHolds(circuit, s, a) = (QType(s) = "exists")

\* What an answer of a prefix scope means: the t-literals it returns generalise the answer
\* to every outer assignment that agrees with the entry on them, not only to the current
\* one.  On this rest the clause that refine adds (solver.c:102) and the blocking clause
\* of the dual instance.
AnswerSound ==
  \A s \in Scopes(circuit) :
    InPrefix(circuit, s) /\ pc[s] \in {"good", "bad"} =>
      \A a \in OuterAssignments(s) :
        (\A t \in entry[s] :
            SettledByOuter(s, TLitToVarId(circuit, t), a) = (pc[s] = "bad"))
          => (Won(s, a) = (pc[s] = "good"))

\* Once a child has objected, the scope's instance rules out the very proposal that was
\* tried, under the very entry it was tried for: no round of the loop in solve_recursive
\* repeats an earlier one (refine, solver.c:102).
ProposalBlocked ==
  \A s \in Scopes(circuit) :
    pc[s] \in {"children", "called"} /\ result[s] = "bad" =>
      \E cl \in sat[s] : cl \subseteq Opposite(model[s] \cup AssumedT(s))

\* A round that a child ends with an objection leaves the instance stronger than it was when
\* the round began: the first clause that refine adds is a new one (solver.c:102).
RefinementsAreNew ==
  [][\A s \in Scopes(circuit) :
       result[s] = "good" /\ result'[s] = "bad" => sat'[s] # sat[s]]_vars

\* The propagated values that b-literal minimisation reads are those of the current
\* assignment of the scope and the scopes around it; nothing decided by an inner or an
\* earlier proposal survives backtracking (circuit_evaluate_max, refine, solver.c:133).
PathAssignment(s) ==
  UNION {{l \in model[t] : IsVar(circuit, LitVar(l))} : t \in {s} \cup Enclosing(circuit, s)}
ValuesSound ==
  minimize =>
    \A s \in Scopes(circuit) :
      pc[s] = "children" /\ result[s] = "good" /\ index[s] = 1 =>
        \A i \in b_lits[s] :
          IsGate(circuit, i) /\ value[i] # 0 =>
            LET decided == DecidedValue(circuit, i, PathAssignment(s))
            IN  (value[i] > 0 /\ decided = 1) \/ (value[i] < 0 /\ decided = -1)

\* The refinement mapping to Rounds: the children behind the loop counter were heard. A
\* scope whose dual instance was satisfiable stays where it is.
Deciding(s) == pc[s] = "solve" \/ (pc[s] = "abort" /\ IsLeaf(s))
Asking(s) == pc[s] \in {"children", "called"} \/ (pc[s] = "abort" /\ ~IsLeaf(s))
Pending(s) ==
  {circuit.scope[s].next[i] : i \in {j \in index[s] .. NumNext(s) :
     Asking(s) /\ AbstractionIsEnabled(s, circuit.scope[s].next[j])}}
State(s) ==
  CASE Deciding(s) -> "deciding"
    [] Asking(s) -> "asking"
    [] pc[s] = "idle" -> IF s \in Pending(Prev(s)) THEN "deciding" ELSE "idle"
    [] OTHER -> pc[s]

R == INSTANCE Rounds WITH
       Root <- TopLevel,
       prev <- [s \in Scopes(circuit) \ {TopLevel} |-> Prev(s)],
       always <- {s \in Scopes(circuit) : InPrefix(circuit, s)},
       state <- [s \in Scopes(circuit) |-> State(s)],
       pending <- [s \in Scopes(circuit) |-> Pending(s)],
       verdict <- result

\* The sequential loop over the children (solve_sub_sequentially) implements the recursion
\* in rounds that the parallel solver implements, too.
ImplementsRounds == R!Spec

\* The counterexample-guided loop ends with an answer (solve_recursive): the refinements
\* exhaust the finitely many proposals of every scope.
Terminates == <>Answered
=============================================================================

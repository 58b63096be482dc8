------------------------------ MODULE Fixpoint ------------------------------
(***************************************************************************)
(* The solver for safety games (fixpoint.c, realizer.c): the greatest      *)
(* fixpoint of the 2QBF                                                    *)
(*     F -> exists controls, next state: (T /\ F')                         *)
(* over all states and inputs, by excluding losing states from F.  Four    *)
(* incremental SAT instances share the growing state set: what depends on  *)
(* the current F is guarded by incremental_lit, and every refinement by a  *)
(* literal of its own, until it is outdated.  The query comes from module  *)
(* FixpointQuery, which also describes AIGER circuits.                     *)
(***************************************************************************)
EXTENDS CircuitAbstraction, QbfSemantics, SatSolver

CONSTANT Queries     \* the games to be solved, as fixpoint_init_from_aiger returns them

Universal == 2       \* the scopes
Existential == 3

-----------------------------------------------------------------------------
(* The game: a state gives the latches their values, the error latch last. *)

States(q) == [DOMAIN q.latches -> BOOLEAN]
Controlled(q, b) == {i \in DOMAIN q.aiger.controllable : q.aiger.controllable[i] = b}
InputValues(q, b) == [Controlled(q, b) -> BOOLEAN]
Holds(l, at) == IF l \in {0, 1} THEN l = 1 ELSE at[l \div 2] = (l % 2 = 0)

\* The values of all variables under a state and inputs.
LatchValues(ls, state) ==
  [v \in {ls[i].lit \div 2 : i \in DOMAIN ls} |->
     state[CHOOSE i \in DOMAIN ls : ls[i].lit \div 2 = v]]
AndValue(at, and) == (and.lhs \div 2 :> (Holds(and.rhs0, at) /\ Holds(and.rhs1, at))) @@ at
GateValues(ands, at) == FoldLeft(AndValue, at, ands)
Valuation(q, state, given) == GateValues(q.aiger.ands, given @@ LatchValues(q.aiger.latches, state))
Step(q, state, given) ==
  LET at == Valuation(q, state, given)
  IN  [i \in DOMAIN q.latches |-> Holds(q.aiger.latches[i].next, at)]

\* States and inputs as literals of the query; an input that nothing depends on has no node.
StateLits(q, s) == {IF s[i] THEN q.latches[i].var ELSE -q.latches[i].var : i \in DOMAIN q.latches}
NextLits(q, s) ==
  {IF s[i] THEN q.latches[i].primed ELSE -q.latches[i].primed : i \in DOMAIN q.latches}
InputLits(q, u) ==
  {IF u[i] THEN q.inputs[i] ELSE -q.inputs[i] : i \in {j \in DOMAIN u : q.inputs[j] # 0}}
InputNodes(q, b) == {q.inputs[i] : i \in Controlled(q, b)} \ {0}

-----------------------------------------------------------------------------
(* What the translation guarantees.                                        *)

\* The gates F and F' of an encoded query: those over the error latch.
IsGateOver(c, k, i) == IsGate(c, k) /\ Inputs(c, k) = {i}

\* Nothing but one gate of this type, not the output, reads the variable, and the gate nothing
\* but this literal.
OnlyReader(c, type, l) ==
  \E k \in Nodes(c) : /\ c.node[k].type = type /\ c.node[k].inputs = <<l>> /\ k # c.output
                      /\ \A j \in Nodes(c) : LitVar(l) \in Inputs(c, j) => j = k

\* The universal scope has the latches and the uncontrollable inputs, the existential one the
\* next values of the latches and the controllable inputs.
HasGameVars(q) ==
  /\ ScopeVars(q.circuit, TopLevel) = {}
  /\ ScopeVars(q.circuit, Universal) =
       {q.latches[i].var : i \in DOMAIN q.latches} \cup InputNodes(q, FALSE)
  /\ ScopeVars(q.circuit, Existential) =
       {q.latches[i].primed : i \in DOMAIN q.latches} \cup InputNodes(q, TRUE)
  /\ \A i, j \in DOMAIN q.latches :
       /\ q.latches[i].var = q.latches[j].var => i = j
       /\ q.latches[i].primed = q.latches[j].primed => i = j
       /\ \A k \in DOMAIN q.inputs : q.inputs[k] \notin {q.latches[i].var, q.latches[i].primed}
  /\ \A i, j \in DOMAIN q.inputs : q.inputs[i] = q.inputs[j] /\ q.inputs[i] # 0 => i = j

\* F -> (T /\ F'): unless the error has been raised, the next state is the one of the game,
\* and does not raise it.
SaysWhatTheGameDoes(q) ==
  \A s, next \in States(q), u \in InputValues(q, FALSE), c \in InputValues(q, TRUE) :
    NodeHolds(q.circuit, q.circuit.output,
              StateLits(q, s) \cup InputLits(q, u) \cup (NextLits(q, next) \cup InputLits(q, c)))
      <=> s[Len(q.latches)] \/ (next = Step(q, s, u @@ c) /\ ~next[Len(q.latches)])

IsQuery(q) ==
  /\ WellFormed(q.circuit) /\ Scopes(q.circuit) = {TopLevel, Universal, Existential}
  /\ \A s \in Scopes(q.circuit) : InPrefix(q.circuit, s)
  /\ q.latches \in Seq([var : Nodes(q.circuit), primed : Nodes(q.circuit)]) /\ q.latches # <<>>
  /\ q.inputs \in [DOMAIN q.aiger.controllable -> {0} \cup Nodes(q.circuit)]
  /\ q.aiger.controllable \in Seq(BOOLEAN)
  /\ HasGameVars(q) /\ SaysWhatTheGameDoes(q)
  /\ OnlyReader(q.circuit, "or", q.latches[Len(q.latches)].var)
  /\ OnlyReader(q.circuit, "and", -q.latches[Len(q.latches)].primed)

ASSUME QueriesWellFormed == \A q \in Queries : IsQuery(q)

VARIABLES
  aiger,        \* fixpoint->instance, with the error latch
  circuit,      \* fixpoint->circuit
  inputs,       \* per input its node
  latches,      \* per latch its nodes [var, primed] (prime_mapping, unprime_mapping)
  b_lits, t_lits,      \* per scope: the interface of its abstraction
  sat, negation,       \* per scope: the instance and the dual instance
  value,        \* per variable: node_shared.value
  entry,        \* per scope: t-literals
  assumptions,  \* of the universal scope: the b-literals it leaves to the existential one
  incremental_lit,     \* guards what is true of the current F only; 0 while F changes
  next_lit,     \* the next unused literal
  incremental,  \* universal_incremental (existential_incremental is always the same)
  refinements,  \* records [incremental_literal, sub_states]
  excluded,     \* history: the cubes that were excluded
  pc

config == <<aiger, circuit, inputs, latches, b_lits, t_lits>>
instances == <<sat, negation>>
vars == <<config, instances, value, entry, assumptions, incremental_lit, next_lit,
          incremental, refinements, excluded, pc>>

ErrorLatch == latches[Len(latches)]
GateOver(i) == CHOOSE k \in Nodes(circuit) : IsGateOver(circuit, k, i)
F == GateOver(ErrorLatch.var)
FPrime == GateOver(ErrorLatch.primed)

\* The clauses of one instance; a gate with `keep' that is an OR has none of its own.
Instance(s, q) ==
  BuildSatInstance(circuit, s, q, b_lits[s], t_lits[s])
    \ UNION {EncodeOrGate(circuit, s, q, t_lits[s], k) :
               k \in {j \in {F, FPrime} : GateTypeFor(circuit, j, q) = "or"}}

\* push_incremental: in the dual instances F is what has been excluded so far. FOf is the
\* gate in the scope, `pushed' the literals of the excluded cubes.
FOf(s) == IF s = Universal THEN F ELSE FPrime
PushedClause(s, lit, pushed) == {-lit, -FOf(s)} \cup pushed

Init ==
  /\ \E q \in Queries : /\ aiger = q.aiger /\ circuit = Annotate(q.circuit)
                        /\ inputs = q.inputs /\ latches = q.latches
  /\ b_lits = [s \in {Universal, Existential} |-> BLits(circuit, s)]
  /\ t_lits = [s \in {Universal, Existential} |-> TLits(circuit, s)]
  /\ incremental_lit = 2 * MaxNum(circuit) + 1
  /\ next_lit = 2 * MaxNum(circuit) + 2
  /\ sat = [s \in {Universal, Existential} |-> Instance(s, circuit.scope[s].qtype)]
  /\ negation = [s \in {Universal, Existential} |->
                   Instance(s, Dual(circuit.scope[s].qtype))
                     \cup {PushedClause(s, incremental_lit, {})}]
  /\ value = [i \in {k \in Nodes(circuit) : IsVar(circuit, k)} |-> 0]
  /\ entry = [s \in {Universal, Existential} |-> {}]
  /\ assumptions = {} /\ incremental = {} /\ refinements = {} /\ excluded = {}
  /\ pc = "loop"

-----------------------------------------------------------------------------
(* What is assumed, and what the SAT solver answers.                       *)

Own(s) == ScopeVars(circuit, s)
LatchesOf(s) ==
  Own(s) \cap (IF s = Universal THEN {latches[i].var : i \in DOMAIN latches}
               ELSE {latches[i].primed : i \in DOMAIN latches})

\* circuit_abstraction_assume_t_literals with the entry e, and for the dual instance.
AssumedT(s, e) == e \cup Opposite(t_lits[s] \ e)
AssumedTDual(s, e) == Opposite(AssumedT(s, e))
Negative(lits) == {l \in lits : l < 0}
AssignedLits(s, m) == {l \in m : Abs(l) \in Own(s)}

\* create_lit_from_value for the latches of a scope that have a value.
Cube(s) == {Signed(value[i], i) : i \in {k \in LatchesOf(s) : value[k] # 0}}
Primed(l) == Signed(l, latches[CHOOSE i \in DOMAIN latches : latches[i].var = Abs(l)].primed)
Unprimed(l) == Signed(l, latches[CHOOSE i \in DOMAIN latches : latches[i].primed = Abs(l)].var)

\* circuit_abstraction_get_assumptions for the universal scope under its values; the values
\* of the gates are always computed anew from those of the variables.
NodeValues == EvaluateMax(circuit, [i \in Nodes(circuit) |->
                IF i \in Own(Universal) THEN value'[i] ELSE 0], Universal)
NeedNotAssume(v, i) ==
  /\ IsGate(circuit, i)
  /\ v[i] < 0 \/ (v[i] = 0 /\ GateTypeFor(circuit, i, "forall") = "and")
Assumptions(m, v) == {b \in b_lits[Universal] : -b \in m /\ ~NeedNotAssume(v, b)}
EntryFor(as) ==
  t_lits[Existential] \cap
    (   {TLit(circuit, b) : b \in as}
   \cup {t \in t_lits[Universal] \ entry[Universal] :
           TLitToVarId(circuit, t) \notin b_lits[Universal]})

\* minimize_by_dropping_literals: t-literals that the existential instance does not need
\* for its answer, in order. To drop one is to assume its opposite.
StillUnsat(e) == ~Satisfiable(sat[Existential], Opposite(AssumedT(Existential, e)) \cup {incremental_lit})
StillSat(e) == Satisfiable(sat[Existential], AssumedT(Existential, e) \cup {incremental_lit})
WithoutIdle(e, t) == IF t \in e /\ StillUnsat(e \ {t}) THEN e \ {t} ELSE e
WithoutFree(e, t) == IF t \in e /\ StillSat(e \ {t}) THEN e \ {t} ELSE e
MinimizedFailed(e) ==
  LET upto[t \in Nat] == IF t = 0 THEN e ELSE WithoutIdle(upto[t - 1], t)
  IN  upto[2 * MaxNum(circuit)]
MinimizedEntry(e) ==
  LET upto[t \in Nat] == IF t = 0 THEN e ELSE WithoutFree(upto[t - 1], t)
  IN  upto[2 * MaxNum(circuit)]

(***************************************************************************)
(* fixpoint_dual_propagation under the model m and the entry e: the dual   *)
(* instance has to refute them.  Of the latches, those that the refutation *)
(* needed keep their values, and the entry becomes what it needed of it.   *)
(***************************************************************************)
DualPropagation(s, dual, m, e, next) ==
  LET reported == {l \in m : Abs(l) \in LatchesOf(s)} \cup Negative(AssumedTDual(s, e))
      assumed  == AssignedLits(s, m) \cup AssumedTDual(s, e) \cup {incremental_lit}
  IN  IF Satisfiable(dual, assumed)
      THEN pc' = "abort" /\ UNCHANGED <<value, entry>>
      ELSE \E failed \in FailedSets(dual, assumed \ reported, reported) :
             /\ value' = [i \in DOMAIN value |->
                            IF i \notin LatchesOf(s) THEN value[i]
                            ELSE CASE i \in failed -> s [] -i \in failed -> -s [] OTHER -> 0]
             /\ entry' = [entry EXCEPT ![s] = Opposite(failed) \cap t_lits[s]]
             /\ pc' = next

-----------------------------------------------------------------------------
(* fixpoint_solve, one stretch after the other.                            *)

OuterAssumed == {incremental_lit} \cup {r.incremental_literal : r \in refinements}

\* The universal scope proposes a state of F and uncontrollable inputs.
Propose ==
  /\ pc = "loop"
  /\ \E m \in {{l \in mm : Abs(l) \in Own(Universal) \cup b_lits[Universal]} :
                 mm \in SatModels(sat[Universal], OuterAssumed, Own(Universal) \cup b_lits[Universal])} :
       /\ value' = [i \in DOMAIN value |->
                      IF i \in Own(Universal) THEN (IF i \in m THEN 1 ELSE -1) * Universal
                      ELSE value[i]]
       /\ \E as \in {Assumptions(m, NodeValues)} :
            /\ assumptions' = as
            /\ entry' = [entry EXCEPT ![Existential] = EntryFor(as)]
  /\ pc' = "inner"
  /\ UNCHANGED <<config, instances, incremental_lit, next_lit, incremental, refinements, excluded>>

\* No state of F is losing: F is inductive.
Inductive ==
  /\ pc = "loop" /\ ~Satisfiable(sat[Universal], OuterAssumed)
  /\ pc' = "inductive"
  /\ UNCHANGED <<config, instances, value, entry, assumptions, incremental_lit, next_lit,
                 incremental, refinements, excluded>>

InnerAssumed == AssumedT(Existential, entry[Existential]) \cup {incremental_lit}

\* The proposal has no answer. What its t-literals needed becomes a blocking clause of the
\* universal dual instance, and the refutation by that a cube of losing states.
\* DualClauseUnmapped: with the t-literals of the existential scope.
DualClauseUnmapped(core) == {-incremental_lit} \cup core
DualClause(core) ==
  {-incremental_lit} \cup {IF TLitToVarId(circuit, t) \in b_lits[Universal]
                           THEN TLitToVarId(circuit, t) ELSE t : t \in core}

\* The assignment that the last call of the universal instance left behind.
Assignment(s) == {Signed(value[i], i) : i \in Own(s)}

Refuted ==
  /\ pc = "inner" /\ ~Satisfiable(sat[Existential], InnerAssumed)
  /\ \E failed \in FailedSets(sat[Existential], InnerAssumed \ Negative(InnerAssumed),
                              Negative(InnerAssumed)) :
     \E core \in {MinimizedFailed(Opposite(failed))} :
     \E dual \in {negation[Universal] \cup {DualClause(core)}} :
       /\ negation' = [negation EXCEPT ![Universal] = dual]
       /\ DualPropagation(Universal, dual, Assignment(Universal), entry[Universal], "refuted")
  /\ UNCHANGED <<config, sat, assumptions, incremental_lit, next_lit, incremental,
                 refinements, excluded>>

\* minimize_by_dropping_variables: latches are dropped from the cube one by one, in the
\* order in which the scope has its variables, if the dual instance still refutes the rest.
\* RefutesEach: every latch is tried against the cube as it was at first.
RefutesEach(v, without) ==
  ~Satisfiable(negation[Universal],
     {Signed(value[i], i) : i \in {k \in Own(Universal) \ {without} : value[k] # 0}}
       \cup {incremental_lit} \cup AssumedTDual(Universal, entry[Universal]))
Refutes(v, without) ==
  ~Satisfiable(negation[Universal],
     {Signed(v[i], i) : i \in {k \in Own(Universal) \ {without} : v[k] # 0}}
       \cup {incremental_lit} \cup AssumedTDual(Universal, entry[Universal]))
WithoutLatch(v, i) == IF v[i] # 0 /\ Refutes(v, i) THEN [v EXCEPT ![i] = 0] ELSE v
MinimizedCube ==
  LET upto[n \in Nat] == IF n = 0 THEN value ELSE WithoutLatch(upto[n - 1], latches[n].var)
  IN  upto[Len(latches)]
MinimizeCube ==
  /\ pc = "refuted"
  /\ value' = MinimizedCube
  /\ pc' = "exclude"
  /\ UNCHANGED <<config, instances, entry, assumptions, incremental_lit, next_lit, incremental,
                 refinements, excluded>>

\* check_old_refinements: those that lead to excluded states only. LostRefinementsNone: they
\* are kept for ever.
LostRefinementsNone(cube) == {}
LostRefinements(cube) == {r \in refinements : cube \subseteq r.sub_states}

\* The initial state has all latches at zero. ContainsInitialAny: some latch is at zero.
ContainsInitialAny(cube) == cube = {} \/ \E l \in cube : l < 0
ContainsInitial(cube) == \A l \in cube : l < 0

\* What exclude_states adds to one scope's instances for the excluded cube (in the scope's
\* own variables), with the literal `lit' to stand for it in the dual one.
ExcludeIn(s, cube) == {{-incremental_lit}, Opposite(cube)}
ExcludeDual(s, cube, lit) == {{-incremental_lit}} \cup {{-lit, l} : l \in cube}
Outdated(lost) == {{-r.incremental_literal} : r \in lost}

\* Literals are taken for the cube and, by push_incremental, for the new F. NextLitReused:
\* push_incremental takes one that is used again.
NextLitReused(cube) == next_lit + 1
NextLit(cube) == IF ContainsInitial(cube) THEN next_lit + 1 ELSE next_lit + 2

ExcludeStates ==
  /\ pc = "exclude"
  /\ LET cube   == Cube(Universal)
         primed == {Primed(l) : l \in cube}
         lost   == LostRefinements(cube)
         pushed == incremental \cup {next_lit}
         Push(s) == IF ContainsInitial(cube) THEN {} ELSE {PushedClause(s, next_lit + 1, pushed)}
     IN  /\ sat' = [sat EXCEPT
              ![Universal] = @ \cup ExcludeIn(Universal, cube) \cup Outdated(lost),
              ![Existential] = @ \cup ExcludeIn(Existential, primed)]
         /\ negation' = [negation EXCEPT
              ![Universal] = @ \cup ExcludeDual(Universal, cube, next_lit) \cup Outdated(lost)
                               \cup Push(Universal),
              ![Existential] = @ \cup ExcludeDual(Existential, primed, next_lit)
                                 \cup Push(Existential)]
         /\ refinements' = refinements \ lost
         /\ incremental' = pushed
         /\ excluded' = excluded \cup {cube}
         /\ incremental_lit' = IF ContainsInitial(cube) THEN 0 ELSE next_lit + 1
         /\ next_lit' = NextLit(cube)
         /\ pc' = IF ContainsInitial(cube) THEN "no_fixpoint" ELSE "loop"
  /\ UNCHANGED <<config, value, entry, assumptions>>

\* The proposal has an answer: controls and a next state in F. The last model counts, the
\* one under the t-literals that the answer needs.
Answered ==
  /\ pc = "inner" /\ Satisfiable(sat[Existential], InnerAssumed)
  /\ \E e \in {MinimizedEntry(entry[Existential])} :
       IF ~StillSat(e) THEN pc' = "abort" /\ UNCHANGED <<value, entry>>
       ELSE \E m \in {AssignedLits(Existential, mm) :
                        mm \in SatModels(sat[Existential],
                                         AssumedT(Existential, e) \cup {incremental_lit},
                                         Own(Existential))} :
              DualPropagation(Existential, negation[Existential], m, e, "answered")
  /\ UNCHANGED <<config, instances, assumptions, incremental_lit, next_lit, incremental,
                 refinements, excluded>>

\* refine: rules out the proposals that the answer fits, as long as its next state is in F.
\* RefinementClauseAllB: it asks for any b-literal.
FailedBLits == {TLitToVarId(circuit, t) : t \in entry[Existential]} \cap b_lits[Universal]
PassedT == {t \in entry[Existential] : TLitToVarId(circuit, t) \notin b_lits[Universal]}
RefinementClauseAllB == {-next_lit} \cup b_lits[Universal] \cup PassedT
RefinementClause == {-next_lit} \cup FailedBLits \cup PassedT

Refine ==
  /\ pc = "answered"
  /\ IF FailedBLits \subseteq assumptions
     THEN /\ sat' = [sat EXCEPT ![Universal] = @ \cup {RefinementClause}]
          /\ refinements' = refinements \cup
               {[incremental_literal |-> next_lit,
                 sub_states |-> {Unprimed(l) : l \in Cube(Existential)}]}
          /\ next_lit' = next_lit + 1
          /\ pc' = "loop"
     ELSE pc' = "abort" /\ UNCHANGED <<sat, refinements, next_lit>>
  /\ UNCHANGED <<config, negation, value, entry, assumptions, incremental_lit, incremental,
                 excluded>>

Done == pc \in {"inductive", "no_fixpoint"} /\ UNCHANGED vars
Next == Propose \/ Inductive \/ Refuted \/ MinimizeCube \/ ExcludeStates \/ Answered \/ Refine \/ Done

Spec == Init /\ [][Next]_vars

-----------------------------------------------------------------------------
(* Who wins the game.                                                      *)

game == [aiger |-> aiger, circuit |-> circuit, inputs |-> inputs, latches |-> latches]
Uncontrolled == InputValues(game, FALSE)

\* With the error latch raised the control has lost.
NoError == {s \in States(game) : ~s[Len(latches)]}
Initial == [i \in DOMAIN latches |-> FALSE]

\* The control can keep the play in `safe' for one more step.
CanStay(s, u, safe) == \E c \in InputValues(game, TRUE) : Step(game, s, u @@ c) \in safe

\* It wins from the states that it can keep the play in for ever: the greatest fixpoint.
Winning ==
  UNION {safe \in SUBSET NoError : \A s \in safe, u \in Uncontrolled : CanStay(s, u, safe)}

StatesIn(cube) ==
  {s \in States(game) : \A i \in DOMAIN latches :
     /\ latches[i].var \in cube => s[i]
     /\ -latches[i].var \in cube => ~s[i]}

-----------------------------------------------------------------------------
\* The solver never runs into one of its consistency checks: the dual instances refute what
\* has been found (fixpoint_dual_propagation), dropping literals keeps the instance
\* satisfiable (fixpoint_solve), a refinement asks for promised b-literals only (refine),
\* and the encoding of the query meets no assertion.
NoInternalError == pc # "abort"

\* The answer (REALIZABLE, UNREALIZABLE) is right for the game, whichever models and failed
\* assumptions the SAT solver gave.
ResultIsWinning ==
  /\ pc = "inductive" => Initial \in Winning
  /\ pc = "no_fixpoint" => Initial \notin Winning

\* No cube that is excluded, generalised twice, holds a state from which the control wins.
ExcludedAreLosing == \A cube \in excluded : StatesIn(cube) \cap Winning = {}

\* A refinement that is still assumed rules out only proposals that the control can answer
\* without leaving the current F: F has shrunk since it was learnt.
Leaves(s, u, clauses) == Satisfiable(clauses, StateLits(game, s) \cup InputLits(game, u))
Safe == NoError \ UNION {StatesIn(cube) : cube \in excluded}
RefinementsStillValid ==
  pc = "loop" =>
    \A r \in refinements, s \in Safe, u \in Uncontrolled :
      \/ Leaves(s, u, Instance(Universal, "forall") \cup {{r.incremental_literal}}
                      \cup {cl \in sat[Universal] : -r.incremental_literal \in cl})
      \/ CanStay(s, u, Safe)

\* What the solver learns from a proposal rules it out, the clause of refine as well as the
\* excluded cube, although another instance than the one that proposed it has produced them
\* and exclusion drops refinements. The loop of fixpoint_solve ends because of this.
ProposalBlocked ==
  pc = "loop" /\ (refinements # {} \/ excluded # {}) =>
    ~Satisfiable(sat[Universal],
       OuterAssumed \cup Opposite(assumptions)
         \cup {Signed(value[i], i) : i \in {k \in Own(Universal) : value[k] # 0}})

\* The literals that the universal instance assumes are fresh ones: the one for the current F
\* guards no clause of it and is not among the outdated ones, and a refinement's guards its
\* clause and no other, however many cubes, refinements and versions of F took literals from
\* the same counter (next_lit) before. With a literal that is outdated or used twice the
\* solver would find F inductive.
LabelsGuardOneClause ==
  pc = "loop" =>
    /\ \A cl \in sat[Universal] : -incremental_lit \notin cl
    /\ \A r \in refinements :
         Cardinality({cl \in sat[Universal] : -r.incremental_literal \in cl}) = 1
=============================================================================

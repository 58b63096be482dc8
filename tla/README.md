# QuAbS, specified in TLA+

QuAbS (`src/`) decides quantified Boolean formulas that are given as circuits (QCIR). It
builds one propositional abstraction per quantifier scope, connects neighbouring scopes by
*interface literals*, and lets the scopes play a counterexample-guided game: a scope
proposes an assignment, its child scopes answer it, an objection refines the proposer's
abstraction. Around that core there are a parser, a pipeline of circuit transformations,
certificates and their checker, a multi-threaded variant, and a solver for safety games
built on the same abstractions. This directory holds TLA+ modules of that program, the TLC
runs that check them, and TLAPS proofs: that the sequential solver answers with the truth on
every prenex circuit, that the fixpoint solver answers rightly for every game, and about the
parallel solver, the propagated values and the interfaces between scopes. `PROJECT.json` maps every definition to
its source lines, and lists the runs, the hazards, the findings and the theorems.

    tlc -workers 2 -config MCSolver.cfg MCSolver          # any run: its cfg and its module
    tlapm SolverProofs.tla                                # any of the proofs: CircuitProofs,
                                                          # SemanticsProofs, SolverProofs,
                                                          # InterfaceProofs, AnswerProofs,
                                                          # FixpointProofs,
                                                          # FixpointResultProofs,
                                                          # ParallelSolveProofs

## 1. Inventory of the program

| Component | State | Operations | Modelled by |
|---|---|---|---|
| QCIR front end (`qcir.c`) | buffer, position, token, symbol table | parsing (lexing is not modelled) | `Pipeline` |
| Circuit construction and transformations (`circuit.c`) | nodes with inputs, `num_occ`, `negation`, `owner`; scope tree and lists of variables; phase | NNF, reencoding, preprocessing, quantifier normalisation, flattening, prenexing, miniscoping | `CircuitGraph`, `CircuitEncoding`, `CircuitPreprocessing`, `Miniscoping`, `Pipeline` |
| Circuit checks (`circuit_check.c`) | none | consistency checks between passes | `CircuitEncoding` |
| Encoded circuit (`circuit.c`, after `circuit_reencode`) | nodes, scope tree, `depth`, `max_depth`, `influences`, `relevant_for`, node `value` | evaluation up to a scope (`circuit_evaluate_max`), the two analyses | `Circuit` |
| Circuit abstraction (`circuit_abstraction.c`) | per scope `b_lits`, `t_lits`, SAT instance `sat`, dual instance `negation`, `entry`, `assumptions`, `local_unsat_core`, `result` | encode the circuit, compute the children's entries, failed assumptions, dual propagation | `CircuitAbstraction`, `Solver` |
| Sequential solver (`solver.c`) | the recursion, one activation per scope on the path | `solve_recursive`, `refine`, `solve_sub_sequentially`, `print_partial_assignment` | `Solver`, `Rounds` |
| Parallel solver (`solver.c`, `PARALLEL_SOLVING`) | a thread per child of a branching scope, `num_started`, `mutex`, `has_entry`, `sub_finished`, the permits `num_threads` | fork, report, join | `ParallelSolve`, `Rounds` |
| Semaphore (`semaphore.c`) | value, mutex, condition | wait, post | in `ParallelSolve` |
| SAT solver (libsolve, an empty submodule) | clauses, assumptions | solve, value, failed | `SatSolver` (external) |
| Certification (`certification.c`, `aiger_helper.c`, `queue.c`, `map.c`), checker (`certcheck.c`), and the AIGER calls they make (`aiger.c`) | two and-inverter graphs, literal counters, function and precondition literals per variable | define b-literals, record a case per answer, print, combine with the formula, check | `Aiger`, `Certification` |
| Fixpoint solver (`fixpoint.c`, `realizer.c`) | incremental literals, refinements, four SAT instances | translation of a game, safety-game loop | `FixpointQuery`, `Fixpoint` |
| Bit vectors (`bit_vector.c`) | words, offset, iterator | add, min, max, iterate, union | as sets |
| Command line, printing, logging, statistics, converters | - | input and output | not modelled |

How they interact. `main.c` parses a circuit; `solver_sat` reencodes it, preprocesses and
miniscopes it as the options say, computes `influences` and `relevant_for`, builds the tree
of abstractions and calls `solve_recursive` on the top level. A parent talks to a child
through the child's `entry`: it is the call's argument (which outer nodes the child must
take care of) and, overwritten, its answer (which of them the answer depended on). All
scopes share the node values of the one circuit; in the parallel solver children also write
the parent's SAT instance, core and result under the parent's mutex. With `-c`,
certification hooks into the encoding of every gate and into every answer; `certcheck`
joins the printed functions with a circuit parsed anew. `fixpoint.c` uses two abstractions
directly and drives them with literals of its own.

What is hard about it, and what makes each part correct:

* **Data flow between scopes.** Whether an answer may be generalised to other outer
  assignments rests on failed assumptions of two different SAT instances, on clauses learnt
  in earlier rounds, and on two independent analyses that must agree on the interface.
  Correct: the result is the truth value; an answer holds for every outer assignment that
  agrees on the reported literals; no proposal is tried twice; the search ends.
* **Stale state.** Node values, entries, cores, refinements and models outlive the
  activation that wrote them. Correct: whoever reads a value reads one of the current
  assignment, and what outlives a change of the state set is still valid in the new one.
* **Threads.** Forks, reports and the join race on a counter and on semaphores, children
  report in any order, a parent may fork a child again before that has returned its permit.
  Correct: counters and permits balance, a round is over exactly when all children have
  reported, its outcome does not depend on their order, nobody waits for ever.
* **Transformations.** A shared graph is rewritten while it is traversed, under reference
  counts. Correct: no assertion fails, every pass keeps the truth value, an encoded circuit
  has the form the solver relies on, and the loop of preprocessing ends with nothing left.
* **Certificates.** Cases are recorded in search order, in literals numbered by an
  arithmetic of scopes and gates. Correct: the recorded functions win.

## 2. The modules

The core:

* `Circuit` - a circuit is a record of nodes, scopes and the output; `Annotate` adds what
  reencoding and the two analyses compute. `EvaluateMax` is `circuit_evaluate_max`, with
  values that carry in their magnitude the scope that decided them.
* `CircuitAbstraction` - `BLits` and `TLits` (`analyze_gate`), and `BuildSatInstance`, the
  clauses of both instances of a scope (`encode_gate` and its helpers). Clauses are sets of
  literals, an instance is a set of clauses. The combined abstraction is the one modelled:
  it is the default and no option turns it off. Node i's b-literal is i and its t-literal
  i + max_num, as in the code.
* `SatSolver` - what the code uses of the SAT solver: any total model of the clauses under
  the assumptions, and any sufficient set of failed assumptions. Every choice is explored,
  so results do not depend on a particular solver.
* `QbfSemantics` - the reference: the truth value of a circuit by recursion over its
  quantifiers, partial evaluation, and `WellFormed`, what `circuit_reencode` establishes.
  It uses none of the abstraction's definitions. `DecidedValue` is the reference for values:
  what a partial assignment decides of a node, complementary inputs of a gate included.
* `Solver` - the recursion as a state machine. `pc[s]` says where scope s's activation is;
  an action is a stretch of `solve_recursive` up to the call of a child or to its return:
  `SolveLeaf`, `SolveInner`, `SolveUnsat` (the SAT call and all that follows it),
  `NextChild`, `ChildAgrees`, `ChildObjects` (the loop over the children with `refine`),
  `AllAgreed`, `Retry`. A failing assertion or `logging_fatal` is the state "abort". The
  option `--assignment-minimization` is the variable `minimize`, chosen initially.
* `Rounds` - the abstract specification: a scope asks some children, hears each exactly
  once, and concludes or decides anew.
* `ParallelSolve` - `solve_sub_concurrently`, `solve_sub_untyped` and `solve_sub`, one
  action per access to shared state: semaphore operations, the counter's increment, the
  critical section. What SAT calls answer is nondeterministic. `CountChild`, the increment
  of `num_started`, and the critical section are single steps because the code performs
  both under the parent's mutex, which is modelled.
* `CircuitProofs`, `SemanticsProofs`, `SolverProofs`, `InterfaceProofs`, `AnswerProofs`,
  `ParallelSolveProofs` - the proofs (section 5).

From the file to the circuit that is solved:

* `CircuitGraph` - the mutable graph: a circuit is a record of nodes, variables and scopes in
  which pointers are indices. Each function of `circuit.c` that adds, links, merges, counts
  or frees is an operator from circuit to circuit. The first assertion, `api_expect` check
  or NULL access that fails is kept in `failed`, and nothing happens to a circuit afterwards.
* `CircuitEncoding` - `circuit_check`, negation normal form, the topological numbering of
  `circuit_reencode` with its hand-out of scope ids and depths, unreachable nodes, empty
  scopes, quantifier normalisation. `CircuitOf` is the view of the result that `Circuit` and
  `QbfSemantics` take.
* `CircuitPreprocessing` - one operator per step of a round of `circuit_preprocess`:
  normalisation of gates, empty scopes, polarities, forced variables, propagation. Also
  flattening and prenexing.
* `Miniscoping` - influence of variables, splitting of a scope over its distributing gate,
  partition of the inputs by shared variables, copy on write of shared gates, and the
  traversal that applies them.
* `Pipeline` - the program over these: one action per kind of statement of a QCIR file
  (`circuit_from_qcir`) and one per pass, in the order of `solver_sat` and `qcir2qcir`,
  under the options the command lines accept. The variable `truth` remembers the truth value
  of the formula as parsed, `weight` that of the circuit when the round began.

Certificates:

* `Aiger` - and-inverter graphs as far as certificates use the vendored library: adding
  inputs, outputs and ANDs, with the assertion that no literal is defined twice, and
  `aiger_check` (right-hand sides and outputs defined, no cycle). `encode_and` and its kin
  join the literals of a queue (`aiger_helper.c`, `queue.c`).
* `Certification` - extends `Solver`. Its initial state builds both players' graphs while
  the abstractions are encoded (`certification_init`, the import of variables with constants
  for removed ones, the definition of all b-literals). `SolverStep` is the solver's own
  action, joined by `RecordCase` wherever an answer ends in
  `circuit_abstraction_dual_propagation`: `certification_append_function_case` extends the
  functions of the scope's variables. `PrintCertificate` is `certification_define_outputs`
  and `certification_print`; `CheckCertificate` is `certcheck` on the parsed file.

Safety games:

* `FixpointQuery` - `fixpoint_aiger_preprocess` and `fixpoint_init_from_aiger`: the
  translation of an AIGER circuit into the query "for all states in F and inputs there are
  controls that keep the error away and stay in F". Games are given; the AIGER library and its
  reencoding of literals are left out.
* `Fixpoint` - the four incremental SAT instances and the loop of `fixpoint_solve` (`Propose`,
  `Refuted`, dual propagation, `Refine`, `ExcludeStates`) for a set `Queries` of translated
  games. What it needs of the translation is the assumption `QueriesWellFormed`: whose
  variables are whose, that nothing but F and F' reads the error latch, and that the matrix
  says of two states and inputs what a step of the game says. TLC evaluates it for the games
  of `MCFixpoint`. Gate values are recomputed where the code caches
  them, and the first model of the inner instance, which nothing reads, is dropped.
* `FixpointProofs`, `FixpointResultProofs` - its proofs (section 5).

`MCSolver`, `MCParallelSolve`, `MCPipeline`, `MCFixpoint` and `MCCertification` hold the
instances for TLC.

Operators named in a comment as the variant of the next definition (`InputValueUnbounded`,
`AgreeLast`, ...) are plausible mistakes; `PROJECT.json` lists under `mutants` which
property notices each of them. The specifications never use them.

## 3. The runs

| Run | Instance | Checks |
|---|---|---|
| `solver` | 13 prenex circuits (unit tests of the repository and four more), 2-4 scopes, and 6 with scope nodes; with and without minimisation | `ResultIsTruth`, `AnswerSound`, `ProposalBlocked`, `RefinementsAreNew`, `PartialAssignmentWins`, `ValuesSound`, `InterfacesMatch`, `NoInternalError`, `TypeOK`, refinement of `Rounds` |
| `liveness` | a true and a false prenex circuit | `Terminates` |
| `parallel_flat` | 3 children, 2 permits, 3 rounds | `TypeOK`, `StartedAccounting`, `JoinComplete`, `RoundOutcome`, `MutualExclusion`, `PermitsConserved`, refinement of `Rounds` |
| `parallel_nested` | a worker that branches below a prefix of two scopes, 2 permits, 1 round | the books of both levels, refinement of `Rounds`, `Terminates` |
| `pipeline` | every circuit of six small shapes, with the options accepted for it | `NoAssertionFails`, `TruthPreserved`, `EncodedIsWellFormed`, `PreprocessingIsComplete`, `PrenexResult`, `RoundsShrink` |
| `fixpoint` | 12 games with one or two latches | `ResultIsWinning`, `ExcludedAreLosing`, `RefinementsStillValid`, `ProposalBlocked`, `LabelsGuardOneClause`, `NoInternalError` |
| `certification` | 6 prenex files with two to four scopes, with and without preprocessing | `CertificateWellFormed`, `CasesWin`, `CertificateWins` |
| `closed`, `delegated`, `sibling`, `minimized`, `one_permit` | one small instance each | the findings of section 6, violated |

Why the bounds are enough, and where they are not.

*Circuits of `solver`* are chosen so that each mechanism matters: clauses over t-literals
that a scope only passes through (`passed_through`), gates shared by parents of different
depth (`four_scopes`), gates with complementary inputs next to inputs that decide them earlier
(`contradiction`, `tautology`), several refinements before an answer (`two_equalities`), a choice
among subformulas of which only one can be won (`one_of_two`), depths that collide across
branches (`unbalanced`). That they do matter is shown by the mutants. The data model has no
bound of its own: its state space is finite because a scope has finitely many proposals.
They are a sample all the same: `minimized` is a prenex circuit for which `NoInternalError`
does not hold, and a comparison of the program with a brute-force evaluator on random prenex
formulas met one such circuit in 8000, and no wrong answer.

*Threads.* Three children and two permits are the smallest instance in which a child waits
for a permit while others report; two rounds are needed for a parent that overtakes its
child's return, three for a third entry. The nested tree has one round, so that liveness can
be checked on it. `MaxRounds` bounds the proposals per activation; the code has no such
bound. The proofs hold for all values of these constants.

*Files of `pipeline`* are not picked but enumerated: all circuits with two gates below the
output and inputs over three variables, under every prefix (`TwoGates`); chains of negated,
shared gates given out of order (`NestedGates`); shared gates that survive preprocessing
(`SharedGates`), for miniscoping; two quantified subformulas side by side, one inside the
other, and one that preprocessing leaves undecided. The families stay clear of the failures
listed under "Other observations" below.

*Games of `fixpoint`* have every constellation of one uncontrollable and one controllable
input with one or two latches that changed the course of the loop when they were written:
losing at once, losing one or two steps later, a constant next value, negated next values,
preprocessing of constants. Two latches are what a cube needs to be generalised partly. The
games stay clear of those under "Other observations" for which `NoInternalError` fails.

*Files of `certification`*: functions that copy an input, the opponent's win with an unused
variable, a variable that preprocessing removes with the value true, four scopes in which
what the inner ones need comes from the outermost, a negated output, and a file in which two
ways of winning overlap while their mixture loses.

Deadlock is checked in every passing run: once there is a result the specifications stutter
(`Done`, `Terminated`, `CertDone`), so that any other stop is reported.

Fairness. `Solver!FairSpec` is weak fairness of the whole next-state relation: a sequential
program keeps running. `ParallelSolve!FairSpec` is weak fairness of every thread: the
operating system runs every thread that can run. No fairness is assumed between threads
that compete for a permit or a mutex beyond that, and the SAT solver's choices are not
fair at all. That proposals are exhausted is shown by `ProposalBlocked` and `Terminates` in
`Solver`; in `ParallelSolve` it is the bound `MaxRounds`. The loops of preprocessing and of
`fixpoint_solve` are covered by safety: `RoundsShrink` is a measure that every round but the
last decreases, and `Fixpoint!ProposalBlocked` says that no proposal is possible twice.

## 4. What the properties say

* `ResultIsTruth` - the final answer is the formula's truth value, for all models and cores.
  Proved for prenex circuits.
* `AnswerSound` - an answer of a prefix scope holds for *every* outer assignment that agrees
  with its entry, not just for the current one. This is the reason why refinement clauses
  and blocking clauses are sound, and it relates a SAT core to the semantics of the game.
  Proved for prenex circuits.
* `ProposalBlocked` - after an objection the instance excludes the very proposal.
  `RefinementsAreNew`: the clause that turns a round was not in the instance before.
* `ValuesSound` - the values read by b-literal minimisation are those of the current
  assignment; nothing of an earlier or inner one survives. Proved where scopes form a chain;
  finding 3 shows that it fails where they branch.
* `PartialAssignmentWins` - the printed assignment of the outermost quantifier wins.
* `InterfacesMatch` - every b-literal finds its t-literal in some child, as two analyses of the
  circuit under different depths have to agree. Proved for prenex circuits.
* `NoInternalError` - no consistency check of the solver fails. Proved for prenex circuits and
  without minimisation; finding 4 shows that it fails with minimisation. In `Fixpoint`, where
  minimisation is always on, all of it but one check is proved (`AnswersAreRefuted`).
* `StartedAccounting`, `JoinComplete`, `PermitsConserved`, `MutualExclusion`,
  `RoundOutcome` - the books of the threads: `num_started` counts exactly the children still
  to report and the share of the forking parent; a round ends with nothing running, nothing
  counted and no leftover post; core and result are those of the enabled children.
* `ImplementsRounds` - both solvers implement `Rounds`. In `ParallelSolve` a child's report
  is the step that `Rounds` calls `Hear`; forking, permits, locking and the join are
  stuttering steps, and the step `Ask` is taken when the proposal is made.
* `NoAssertionFails`, `TruthPreserved` - no assertion, `api_expect` check or pointer access
  of `circuit.c` fails, and the truth value is the parsed formula's after every single pass,
  also between the passes of one round of preprocessing.
* `EncodedIsWellFormed` - an encoded circuit has the form that `Solver` starts from, and its
  scope tree shows which subformula is inside which. This joins the two halves of the
  project: what `pipeline` establishes is what `solver` assumes of its circuits.
* `PreprocessingIsComplete`, `RoundsShrink` - when `circuit_preprocess` stops, no variable is
  pure, unused or forced; and every round that reports a change has made progress.
* `PrenexResult` - prenexing leaves one alternating prefix with all variables in it.
* `ResultIsWinning` - a game is called realizable exactly if the initial state is in a set
  of states that the control can stay in for ever, found by brute force.
  `ExcludedAreLosing`: no excluded cube, however it was generalised, holds a state from which
  the control wins. `RefinementsStillValid`: a refinement that is kept when F shrinks rules out
  only proposals that the control can answer without leaving the new F. All three are proved
  for every game. `LabelsGuardOneClause`: an assumed literal that guards
  clauses is never an outdated one, nor one that something else uses.
* `CertificateWellFormed` - no literal of a graph is defined twice, and the checks of
  `aiger_check` succeed before printing and after combining.
* `CasesWin` - whenever a scope is won, the functions of its variables *as they stand* win
  against every outer assignment that any of their cases covers. It relates the recorded
  graph to the semantics of the game in the middle of the search.
* `CertificateWins` - the combined circuit of formula and certificate has no counterexample:
  what the repository's test (`test/certification.py`) asks an external SAT solver.

## 5. The proofs

Eight modules hold proofs, of 29 theorems and the lemmas they rest on. What they assume of the
constants are the named assumptions of the modules that declare these; TLC evaluates them in
every run.

| Module | About | Theorems (property of a run in brackets) |
|---|---|---|
| `CircuitProofs` | circuits, evaluation, encodings, satisfiability | lemmas only |
| `SemanticsProofs` | `QbfSemantics`, and the encodings of `CircuitAbstraction` | lemmas only |
| `SolverProofs` | `Solver` and `Rounds` | `TypesAreCorrect` [`TypeOK`], `ProposalsAreBlocked` [`ProposalBlocked`], `RefinementIsProgress` [`RefinementsAreNew`], `ObjectionsWereHanded`, `SolverImplementsRounds` [`ImplementsRounds`], `SearchNeverStuck` |
| `InterfaceProofs` | `Solver` | `ValuesAreCurrent` [`ValuesSound`], where scopes form a chain; `PrenexInterfacesMatch` [`InterfacesMatch`], on prenex circuits; `NoCheckFails` [`NoInternalError`], on prenex circuits and without minimisation |
| `AnswerProofs` | `Solver` and `QbfSemantics` | `AnswersAreSound` [`AnswerSound`], `PrenexResultIsTruth` [`ResultIsTruth`], on prenex circuits |
| `FixpointProofs` | `Fixpoint` | `LabelsAreFresh` [`LabelsGuardOneClause`], `ProposalsAreBlocked` [`ProposalBlocked`], `RefineNeverFails`, `OnlyDualInstancesAbort`, `ExclusionIsSound` [`ExcludedAreLosing`], `UnrealizableIsRight` |
| `FixpointResultProofs` | `Fixpoint` | `ResultIsRight` [`ResultIsWinning`], `RefinementsStayValid` [`RefinementsStillValid`], `AnswersAreRefuted` |
| `ParallelSolveProofs` | `ParallelSolve` and `Rounds` | `AccountingHolds` [`StartedAccounting`], `MutualExclusionHolds` [`MutualExclusion`], `JoinIsComplete` [`JoinComplete`], `PermitsAreConserved` [`PermitsConserved`], `TypesAreCorrect` [`TypeOK`], `RoundOutcomeHolds` [`RoundOutcome`], `ThreadsImplementRounds` [`ImplementsRounds`] |

### Circuits (`CircuitProofs`)

Everything about circuits is proved from `Shape`, the part of `WellFormed` that says that
inputs have smaller numbers than their gates and that scopes are a tree. The model recurses
over circuits with recursive functions. The library's induction rules have operators as
parameters and cannot be used here, so induction is done by hand: `LeastNumber` (every
non-empty set of naturals has a least element, from `WFMin`) gives `Induction`, which gives
`PrimitiveRecursion` and, for recursions that look at smaller nodes only, `RecursiveFunction`:
such a definition has a solution, and so obeys its own equation. `EvaluationSteps` is that for
`circuit_evaluate_max`, `AppendLits` for clauses that inline nested OR gates. `EncodingLits`
says of every clause of every instance that its literals are not zero and lie within twice the
number of nodes; that literals taken from a counter behind them are fresh rests on it.

`SatSolver` decides satisfiability by a recursion over literals that splits the clauses.
`SatisfiableIsSat` says that this is satisfiability: `Satisfiable(clauses, assumed)` holds, for
finitely many literals, exactly if some set of literals without opposites contains what is
assumed and meets every clause. One direction builds the least set of clause sets that is closed
under the solver's steps (`RefutationExists`); `ModelsExist` draws from it that a satisfiable
call has a model to answer.

### The sequential solver (`SolverProofs`)

The assumption is `CircuitsWellFormed`. `IInv` is the inductive invariant: `Static` (the
interfaces are those of the circuit), `PerScope`, `TypeOK`, and per scope

* `Places` - where the loop over the children may be, and that a called child was enabled;
* `Handed` - what the proposal leaves to the children is off in it, and a child that the loop
  has not passed was entered with no more than that; an objecting child reports a part of it;
* `Stands` - while no child has objected, no clause of the instance is against the proposal;
* `Blocked` - once a child has, some clause is.

`ProposalBlocked` is `Blocked`, but to keep `Blocked` one needs `Handed`: an objection is a
clause over b-literals that are off and t-literals that are assumed false, only because the
child's entry is part of what it was handed. `Stands` makes the clause a new one.
`ObjectionsWereHanded` is the check of `refine` (`solver.c:118`), one of two behind
`NoInternalError`. The refinement adds that the top level is always at work and that only
inner scopes have a loop (`RInv`), and shows that every step is a step of `Rounds` or a stutter
(`StepIsRound`): the children in front of the loop counter are those that were heard.

`SearchNeverStuck` rests on the innermost scope at work, or on the one around it if that scope
has answered: a satisfiable call has a model (`SolveAnswers`), an unsatisfiable one can report
all that was assumed (`FailuresExist`), and the loop over the children has a result
(`Bounded`). `CanStep` lists these guards, as the proof cannot speak of `ENABLED`.

### Values (`InterfaceProofs`)

What is proved of `circuit_evaluate_max` is independent of the solver (`EvaluationSound`): let
`path[k]` be what the scopes up to k have assigned. If each old value is *sound* - the scopes
up to the one that its magnitude names decide the node as its sign says - then so are the
values after an evaluation up to any scope. The proof goes by induction over the nodes; what it
needs of the reference is `DecidedMore`, that more assignments never take a decision back. For
the solver, `Fits` says that values are sound for the proposals as they stand. A new proposal
of scope s leaves values of magnitude below s alone and evaluates the rest anew
(`ProposingFits`); `refine` re-evaluates up to the scope outside, so that nothing of the
failed proposal is left (`ForgettingFits`). Both need that scopes other than those around the
active one hold nothing that is read, which is so along a chain (`Chain`); where siblings
exist it is not, and finding 3 is the counterexample. So the hypothesis cannot be dropped.

### Interfaces and dual instances (`InterfaceProofs`)

On prenex circuits a scope's depth is its number, nothing is projected, and every node is
relevant (`PrenexAnnotations`, `PrenexAnalysis`). `InfluencesOfInputs` is the equation of the
recursion that computes `influences`, and says that a gate's influences are those of its
inputs. Then what the analysis of a gate under depth s promises, that under depth s + 1 takes up
from the same gate (`PromisesAreTakenUp`), by cases on what makes the analysis hand over the
gate or its inputs.

`NoCheckFails` is about the assertion of `circuit_abstraction_dual_propagation` (line 950): the
dual instance refutes what the instance proposed. Its core relates the clauses of the two
encodings to the gates they stand for (`CircuitProofs`: `NotBoth`, `OutputNotBoth`). Let `a`
satisfy an encoding and `n` its dual, with the same variables and opposite t-literals. Then the
b-literal of no gate is in both, by induction over the gates: a gate is an AND for one player
and an OR for the other, so that all of its inputs are on for the one and some input for the
other. In the innermost scope the output is such a gate, so that the two contradict each other
(`LeafRefutes`). In an outer scope the dual instance has the blocking clause made of the answers
of the children as well, and every literal of it is excluded: a b-literal that is on in the
proposal belongs to a gate that both instances encode (`PromisedGate`), a t-literal is assumed
false in the dual instance (`InnerRefutes`). For this the invariant `DInv` has to say what the
children were asked and what they answered: `Told` keeps that the proposal satisfies the
encoding and leaves no b-literal aside, that a child at work was entered with exactly
`EntryFor` (`Handed` has only one half of that), and that a child which agrees names
t-literals that it was *not* given (`Entered`). What it was not given is on in the proposal, or
in the scope's own entry (`Reasons`), because a child's t-literals are the scope's b-literals
and t-literals (`TLitsFromOutside`). That nothing is left aside is where minimisation comes in:
with it a b-literal may be off and not handed on, and finding 4 is the counterexample, so the
hypothesis is necessary. `DInv` was checked by TLC on the circuits of `solver` first.

### Answers and the truth (`SemanticsProofs`, `AnswerProofs`)

The two theorems say that the solver is right on prenex circuits, whatever the SAT solver
answers and whether or not b-literals are minimised. `SemanticsProofs` is about circuits and
encodings only; its lemmas assume `Flat`, the form of an annotated prenex circuit. The
recursions of the reference (`NodeHolds`, `PrefixHolds`, `DecidedValue`) are shown to have
solutions first (`Holds`, `PrefixLevels`, `Decided`), and so to obey their equations.

What a literal means. Everything is seen from one player, for whom a gate is an AND or an OR
(`GateFor`). A gate is *secured* up to scope k (`Secured`) if the variables before k decide it
the player's way, as far as its inputs that depend on nothing else are concerned. `Canonical`
puts together an assignment `a` of the scopes before s, an assignment `x` of s, the b-literals
of what is secured up to and including s and the t-literals of what is secured before s. The
core is `CanonicalMeets`: these literals meet the player's encoding of s, as long as the output
is not decided against the player. It goes through the clauses of each kind of gate; nested ORs
are inlined, so `AppendedMet` is an induction over the gates. `NotLost` connects it to the game:
if the player wins after `a` and `x`, the output is not decided against the player.

So an encoding excludes no assignment after which its player wins, and that is what `Valid`
says of a clause in general. `RefutedSays` is the converse direction: if an instance of valid
clauses is refuted under t-literals of which `failed` were assumed off, then the player loses
(`Loses`) for every `a` after which none of `failed` is secured. The invariant `AInv` is that,
for all scopes: the clauses of both instances are valid for their player, an answer "bad" says
that the scope's player loses, an answer "good" that the opponent loses after the scope's
proposal (`Beaten`), and while the loop over the child goes on, the blocking clause built so far
is valid for the dual instance. What `refine` and dual propagation add to an instance is the
child's answer with each t-literal replaced by the scope's own literal for the same gate
(`Translated`); it is valid because what the child finds secured either is a promise of the scope
or was secured before (`PassThrough`, `TranslatedMet`). This is where the two analyses of the
interface have to fit together (`PrenexPassesOn`, `PrenexTakesUp`). `ValidIsSound` and
`SoundIsTruth` draw the two properties from `AInv`. TLC checked `AInv` on the prenex circuits of
`solver` and on that of finding 4 before it was proved.

The hypothesis that the circuit is prenex is needed: findings 1 and 2 are wrong answers on
others. That b-literals are not minimised is not needed, unlike for `NoCheckFails`: minimisation
only hands the child less to do without, and what it answers stays valid. In finding 4 the
solver stops with a failed assertion, but gives no wrong answer.

### The fixpoint solver (`FixpointProofs`, `FixpointResultProofs`)

The assumption is `QueriesWellFormed`: what the translation guarantees of a query, evaluated by
TLC for the games of the run. `FInv` is the inductive invariant, also checked on that instance:
`Static`; `Fields`; `Labels` (literals that guard clauses lie behind those of the encoding and
before the counter, `incremental_lit` guards nothing in the universal instance, different
refinements have different literals, each of one clause); `Promised` (what the existential
scope may assume is a b-literal that it was handed or a t-literal that is passed on);
`Blocked` (some clause is against the last proposal). `LabelsAreFresh` follows from `Labels`.
`Blocked`, and so `ProposalsAreBlocked`, has the hypothesis `t_lits[Universal] = {}`: the
clause of a refinement may contain t-literals of the universal scope, which `fixpoint_solve`
does not assume, and such t-literals come from gates that depend on no variable. The
loop then does refine for ever (section 6, `fixpoint.c:127`), so this hypothesis, too, is
necessary; TLC finds it true of every query of the run. `OnlyDualInstancesAbort` is an action
property: of the error exits only those behind a dual instance are left, because minimisation
keeps the instance satisfiable (`MinimizedStaysSat`, by induction over the literals tried) and
a refinement asks only for what was promised (`AnswerWasPromised`).

`ExclusionIsSound` rests on a second invariant, `GInv`, that speaks of the game: an assignment
`a` of the universal scope is a state with uncontrollable inputs, one of the existential scope
a next state with controllable ones, and `Keeps` says that the second answers the first without
leaving F. `AnswersAllowed` (the existential instance accepts every answer that keeps in F) makes
its refutation mean that there is none; `StaysAllowed` (the universal dual instance accepts
every position from which the control can stay, clauses with outdated labels aside) makes the
refutation of a cube mean that the cube is losing, and minimisation needs nothing else of it
(`MinimizedCubeIsLost`); `Pending` carries this from the refutation to the exclusion, and
`LosingExcluded` is the result. `GExclude` is where both instances are told of the smaller F.
That encodings accept exactly what they stand for is `EncodingMet` and `LabelledSays` of
`SemanticsProofs`, the lemmas behind `AnswersAreSound`: the models they speak of are *canonical*,
each literal of the interface says what the assignment decides. `UnrealizableIsRight` adds
that the solver only gives up after a cube with the initial state.

The other answer, `ResultIsRight`, is about the universal instance: if it has no proposal left,
then the control can stay in `Safe`, the states that are not excluded (`FixpointIsClosed`). By
`PositionIsLeft` a safe position without an answer would satisfy all of its clauses, provided
that every refinement *works*: wherever its clause is not met, the control has an answer into
the `sub_states` that are recorded with it (`Works`). The third invariant, `HInv`, keeps that:

* `RefinementsWork` and `OuterKnown` - every clause of the universal instance is one of the
  encoding, an excluded cube, switched off, or part of a refinement that works. When F shrinks,
  an answer may cease to be one, but only if it leads into the new cube, and the refinements
  for which it may are those that `check_old_refinements` drops (`HExclude`).
* `AnswerKnown` - after an answer the existential dual instance has refuted the controls
  together with what is left of the next state. `AnswerWorks` draws from this that the
  refinement works: with these controls every next state that fits keeps the play in F
  (`FittingKeeps`), and the game has only one (`OneNextState`), so that what is left of the
  next state decides all of it.
* `NegationKnown` - what that dual instance knows of F: the clauses of the encoding, the one
  that demands F, and for each excluded cube those under its label. So whatever it refutes
  does not leave the current F.
* `ErrorUnread` and `ErrorFree` - no clause of the universal dual instance reads the error
  latch, and no clause of the other one its next value. So minimisation, which tries the latches
  in turn, drops it from every cube (`ErrorDropped`), and a cube is about states of the game.

`RefinementsStayValid` follows from the same invariant by `PositionIsLeft`, for one refinement
instead of all. TLC checked the parts of `HInv` on the games of the run before they were proved.

`AnswersAreRefuted` is an action property again, and sharper than `OnlyDualInstancesAbort`: the
existential dual instance refutes every answer (`AnswersExcluded`), so that an answer never ends
the loop with an error. The argument is that of `NoCheckFails`: no gate can be on for both
players, and in the innermost scope the output would be (`OutputNotBoth`). Two things differ
here. The instances lack the clauses of F and F'. Of those for the control none is missing in
effect, as F depends on the state alone (`NeverNegated`); of those for the environment the one
of F' is, which would be met if F' were off (`InnerComplete`). And F' is off in the dual
instance: its clause demands an excluded cube of the next state, while the instance itself
excludes each of them. That both have been told of the same cubes is the fourth invariant,
`InnerTold`, which every exclusion has to keep (`EExclude`). What is left is the universal
dual instance after a proposal without an answer; there the check can fail (section 6).

### The parallel solver (`ParallelSolveProofs`)

The assumptions are those of `ParallelSolve` (`ScopesAssumption`, `NextAssumption`,
`PrevAssumption`: the constants describe a finite tree in which `next` lists each child once;
`BoundsAssumption`: at least one permit and one round). None of the invariants is inductive.
`IInv` adds what they rest on: `Places` (which program points go together for a scope, its
parent and the mutex between them), `Ownership` (the mutex belongs to the thread in the
critical section), `WorkIsForked` (a child works only in a round of its parent, behind the
parent's loop counter), `Entries` (`has_entry` is 1 exactly for a forked child that has not
taken it), `Posted` (`sub_finished` is posted exactly between the last report and the join), and
the accounting itself. Each action has a step, and under it one step for each conjunct that it
can disturb.

The refinement adds `Asked`, `Working` and `Tally` (the core and the result collected so far
are those of the children that have reported in this round) to get `RInv`, and from it
proves `RoundOutcomeHolds` and `ThreadsImplementRounds`, `Spec => ImplementsRounds`: initial
states map to initial states, and every step maps to a step of `Rounds` or to a stutter
(`StepIsRound`, with one lemma for what each step does to the set of pending children).

### Only model-checked

* Liveness (`Terminates`): fairness and `ENABLED` are out of the provers' reach.
* `ResultIsTruth` and `AnswerSound` on circuits that are not prenex. Findings 1 and 2 refute
  the first for some of them.
* `PartialAssignmentWins`: it does not hold for every encoded prenex circuit. If preprocessing
  leaves constant gates that decide the formula while an empty existential top level stands in
  front of a universal scope, the top level answers UNSAT at once, and the values of the
  universal scope, which is printed, were never assigned. The run's circuits hold no constants.
* `NoInternalError` on circuits that are not prenex and with minimisation: findings 2, 3 and 4
  are counterexamples, so that it holds for some circuits only. In `Fixpoint` it holds for
  some games only, too: of its error exits `AnswersAreRefuted` leaves the one of the universal
  dual instance, and section 6 has a game for which TLC finds a run that takes it. The answers
  are right all the same, because the solver stops where it fails.
* `InterfacesMatch` on circuits that are not prenex, where depths are compared across branches.
* `Pipeline`: its modules declare `RECURSIVE` operators, for which the prover has no SMT backend.
* `Certification`: it extends `Aiger` and `CircuitPreprocessing`, which declare some, too.

No module that a proof uses declares a `RECURSIVE` operator; recursion is written as recursive
functions and folds there.

## 6. Findings

Each of the five was also observed in the program itself, built from these sources with a plain DPLL
procedure in the place of libsolve. The first three concern circuits that are *not* in prenex
form, which the solver accepts with the warning "Solving is supported but is less tested".

1. `closed` - `forall x : x or (exists y, z : y xor z)` is answered UNSAT. A quantified
   subformula that does not depend on an enclosing prefix scope is skipped while that scope
   is encoded (`circuit_abstraction.c:464`, and 252 for disjunctions); the special case in
   `circuit_compute_scope_influence` covers the top level only.
2. `delegated` - `exists x : (x or forall y : y) and not x` is answered SAT. Turning off a
   disjunction's b-literal satisfies its clause (`circuit_abstraction.c:435`) although the
   subformula below it is not handed to an inner scope. With other choices of the SAT solver
   the assertion in line 950 fails instead.
3. `sibling` - values decided by an earlier sibling count as those of an enclosing scope
   (`solver.c:98`), and minimisation (on by default) acts on them. For
   `exists x : not x and (forall y : y or x) and (forall z exists w : w = z)` the assertion in
   `circuit_abstraction.c:950` fails as a consequence; with `--assignment-minimization 0` it
   is answered UNSAT, as it should be.
4. `minimized` - the same assertion fails for a *prenex* formula in the default
   configuration: `exists 2, 3 forall 1 : 12` with `4 = and(2, 1, 3)`, `5 = or(4)`,
   `6 = and(2, -5)`, `7 = and(-3, -4, -6)`, `9 = and(-2, -7)`, `12 = and(-9)`. A b-literal that
   the model has turned off is passed over because the evaluated circuit shows its node
   satisfied (`circuit_abstraction.c:843`), so the child rests its answer on a node that the
   dual instance leaves open. With `--assignment-minimization 0` the answer is SAT, as it
   should be.
5. `one_permit` - with `--num-threads 1` a branching scope below a branching scope never
   finishes: a worker keeps its permit while it waits for its own workers (`solver.c:266`).
   In the program two branching workers also block the default of two permits.

The circuits of the run `solver` stay clear of the first four, so that what it checks is
what holds for the other circuits that are in it, and no more than that.

Other observations made while modelling. They have no run of their own; where the inputs of
a run avoid them, this is what they avoid.

* *Certificates.* `certification_init` takes the first free literal number from the circuit as
  parsed, `translate_gate_to_b_literal` numbers by the size of the encoded circuit. Negation
  normal form adds gates, and with S scopes the ranges overlap as soon as S times the new
  size exceeds (S + 2) times the old one: the assertion `!type->and` (`aiger.c:518`) fails, for
  instance for chains of XORs in four alternating scopes. `quabs -c --miniscoping 1` reads
  scope nodes as gates (`certification.c:99`), `certcheck` refers to their inputs without the
  complement that OR gates need (150, 176), and its `int2str` (67) allocates a byte too few
  for powers of ten. Warnings go to standard output, in front of the certificate.
* *Transformations.* A quantified subformula whose gate preprocessing has decided and removed
  (`circuit.c:264`, and a use of its scope after it was freed); a scope node that is not
  reachable (915); a negated gate above a scope node (574, 756); a stale `previous_scope`
  after `--prenexing` (1518); miniscoping without preprocessing (1550, and for `quabs`
  `circuit_abstraction.c:617`). `circuit_flatten_gates` stops one node short of what its
  comment says (789), which costs no correctness.
* *Fixpoint solver* (not part of the CMake build). With a latch whose next value is constant
  zero the loop refines for ever (127); preprocessing substitutes constants in gates and
  latches but not in the output (761); a latch variable that nothing reads keeps the id it
  had before reencoding (300). The universal dual instance may accept a proposal that has no
  answer, so that the loop ends with an error (606-609), for the same reason as in finding 4:
  minimisation of b-literals is switched on (165). TLC finds it in the model for the game with
  the inputs 2 (uncontrollable) and 4 (controllable), latches 6 and 8 with next values 2 and 7,
  `10 = 8 & 4`, `12 = 3 & 11`, `14 = 6 & 13` and the output 15, if the SAT solver names a
  certain t-literal as the only failed assumption. This one was not tried in the program.
* *Parallel solver.* Node values are shared between threads without a lock; the default of
  that build turns b-literal minimisation, which reads them, off.

## 7. Not modelled, and the plan

Left out for good: command line, printing, logging, statistics, the file-format converters
(no state of their own), the rest of the vendored code. The non-combined abstraction and
partial dereferencing cannot be switched on. Certificates of circuits with quantified
subformulas are left out because the program does not support them (above), and so is the
renumbering by `aiger_reencode`, on which no property depends. The hash map of `map.c` is a
function, bit vectors are sets, and the order of a scope's variables is that of their ids.
`ParallelSolve` has no data, hence no data races on node values.

Order of further work, most important first:

1. Proofs: `PartialAssignmentWins` for prenex circuits that begin with an existential
   quantifier, from `ValuesAreCurrent` and `PrenexResultIsTruth`; a condition on the game under
   which the universal dual instance of `Fixpoint` refutes as well.
2. Proofs about certificates: `translate_gate_to_b_literal` is injective and avoids the fresh
   literals exactly if there is room, and `aiger_add_and` keeps a graph well-formed then.
   `Certification` gets its circuits as a constant for this, as `Fixpoint` has `Queries`.
3. A run for the overlap of the numbering, in the place of one of the smaller findings, and
   `ParallelSolve` with node values of disjoint subtrees.
4. `Lexer` (the buffer that is refilled in the middle of a token) and `BitVector` (words,
   offset, iteration) against sequences and sets, with lemmas for all sizes.

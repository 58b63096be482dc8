---------------------------- MODULE Certification ----------------------------
(***************************************************************************)
(* Certifying solving (quabs -c, certification.c) of prenex circuits, and  *)
(* the program that checks a certificate (certcheck.c).                    *)
(*                                                                         *)
(* While the abstractions are encoded, every b-literal is defined as a     *)
(* gate of two and-inverter graphs, one for either player.  Whenever a     *)
(* scope is won, a case is added to the functions of its variables: under  *)
(* the t-literals that the answer names, and under none of the earlier     *)
(* cases' conditions, the variables have the values of the proposal.  The  *)
(* winner's functions are printed, and certcheck plugs them into the       *)
(* formula of the input file.                                              *)
(*                                                                         *)
(* A file is the circuit that the parser has built, as in CircuitGraph.    *)
(***************************************************************************)
EXTENDS Solver, Aiger

CONSTANTS
  Files     \* the parsed input files; Circuits holds what becomes of them, see Encode

G == INSTANCE CircuitPreprocessing

VARIABLES
  file,     \* the parsed input file
  cert,     \* solver->cert: per player the graph and the last literal number in use, and the
            \* literals of every variable's function and of the disjunction of its cases
  step,     \* "solve", then "printed", then "combined"
  combined  \* certcheck: the formula of the file with the winner's functions plugged in

certVars == <<vars, file, cert, step, combined>>

-----------------------------------------------------------------------------
(* solver_sat, up to the abstractions; preprocessing is an option. *)

EncodedFile(f, preprocess) ==
  LET encoded == G!circuit_reencode(f)
  IN  IF preprocess THEN G!circuit_preprocess(encoded) ELSE encoded
Encode(f, preprocess) == G!CircuitOf(EncodedFile(f, preprocess))

\* Numbers for new literals start behind the b-literals of all scopes, for the number of
\* nodes that the circuit has when it has just been parsed.
\* certification_init_overlapping: they start behind the b-literals of the first scope.
certification_init_overlapping(f) == [aig |-> aiger_init, next |-> G!MaxNum(f), queue |-> <<>>]
certification_init(f) == [aig |-> aiger_init, next |-> (f.id + 1) * G!MaxNum(f), queue |-> <<>>]

\* The functions of a player's variables are its outputs and its opponent's inputs. Removed
\* variables are constants.
RemovedValue(v) == IF v.val > 0 THEN aiger_true ELSE aiger_false

VariablesOf(h, owner) == {v \in DOMAIN h.var : h.scope[h.var[v].scope].qtype = owner}
certification_import_variables(w, f, h, q) ==
  LET kept(owner) == {v \in VariablesOf(h, owner) : ~h.var[v].removed}
      gone == VariablesOf(h, q) \ kept(q)
      lit(v) == 2 * h.var[v].id
      name(v) == f.var[v].id
      inputs  == FoldSet(LAMBDA v, a : aiger_add_input(a, lit(v), name(v)), w.aig, kept(Dual(q)))
      outputs == FoldSet(LAMBDA v, a : aiger_add_output(a, lit(v), name(v)), inputs, kept(q))
  IN  [w EXCEPT !.aig = FoldSet(LAMBDA v, a : aiger_add_output(a, RemovedValue(h.var[v]), name(v)),
                                outputs, gone)]

-----------------------------------------------------------------------------
(* Literals.  c is the circuit, q the player whose graph is built, B the   *)
(* b-literals and T the t-literals of all scopes.                          *)

circuit_lit_to_aiger_lit(l) == IF l < 0 THEN aiger_not(2 * (-l)) ELSE 2 * l

\* The gate as scope s has satisfied it; an OR gate is the negation of an AND.
translate_gate_to_b_literal(c, s, q, g) ==
  LET lit == 2 * ((s - 1) * MaxNum(c) + g)
  IN  IF GateTypeFor(c, g, q) = "or" THEN aiger_not(lit) ELSE lit

\* The gate as the nearest scope around s that has a b-literal for it has left it; without
\* such a scope an assertion fails, which stands here as a literal that nobody defines.
\* add_t_literal_from_parent: as the scope directly around s has left it.
Undefined == -2
add_t_literal_from_parent(c, B, s, q, g) ==
  translate_gate_to_b_literal(c, c.scope[s].prev, q, g)
certification_add_t_literal(c, B, s, q, g) ==
  LET outer == {t \in Enclosing(c, s) : BLit(g) \in B[t]}
  IN  IF outer = {} THEN Undefined ELSE translate_gate_to_b_literal(c, Max(outer), q, g)

\* What encode_or_gate and encode_and_gate add for one input and for the gate itself. An
\* input that is no gate or variable does not occur in a prenex circuit.
SharedLit(c, B, T, s, q, g) ==
  IF TLit(c, g) \in T[s] THEN <<certification_add_t_literal(c, B, s, q, g)>> ELSE <<>>
OrInputLits(c, B, T, s, q, l) ==
  LET i == LitVar(l)
      b == <<translate_gate_to_b_literal(c, s, q, i)>>
  IN  CASE ~NodeIsRelevant(c, s, i) \/ OnlyInner(c, s, i) -> <<>>
        [] OTHER ->
           CASE IsVar(c, i) -> IF OwnVariable(c, s, i)
                               THEN <<circuit_lit_to_aiger_lit(TransformedInput(c, q, l))>> ELSE <<>>
             [] IsGate(c, i) -> IF CurrentMax(c, s, i) < c.depth[s] THEN SharedLit(c, B, T, s, q, i)
                                ELSE (IF GateTypeFor(c, i, q) = "or" THEN b ELSE <<>>)
                                     \o (IF CurrentMax(c, s, i) = c.depth[s] THEN b ELSE <<>>)
AndInputLits(c, B, T, s, q, l) ==
  LET i == LitVar(l)
  IN  CASE ~NodeIsRelevant(c, s, i) \/ OnlyInner(c, s, i) -> <<>>
        [] OTHER ->
           CASE IsVar(c, i) -> IF OwnVariable(c, s, i)
                               THEN <<circuit_lit_to_aiger_lit(TransformedInput(c, q, l))>> ELSE <<>>
             [] IsGate(c, i) ->
                  CASE CurrentMax(c, s, i) < c.depth[s] -> SharedLit(c, B, T, s, q, i)
                    [] /\ CurrentMax(c, s, i) > c.depth[s]
                       /\ GateTypeFor(c, i, q) = "or" -> <<>>
                    [] OTHER -> <<translate_gate_to_b_literal(c, s, q, i)>>
GateLits(c, B, T, s, q, g) ==
  LET lits(l) == IF GateTypeFor(c, g, q) = "or" THEN OrInputLits(c, B, T, s, q, l)
                 ELSE AndInputLits(c, B, T, s, q, l)
  IN  FlattenSeq([k \in DOMAIN c.node[g].inputs |-> lits(c.node[g].inputs[k])])
        \o SharedLit(c, B, T, s, q, g)

certification_define_b_literal(c, w, s, q, g) ==
  LET dest == translate_gate_to_b_literal(c, s, q, g)
  IN  IF GateTypeFor(c, g, q) = "or" THEN encode_or_as(w, dest) ELSE encode_and_as(w, dest)

\* The certifying part of circuit_abstraction_build_sat_instance, for one scope and player.
EncodedGates(c, s) ==
  {g \in RelevantGates(c, s) : ~OnlyInner(c, s, g) /\ CurrentMax(c, s, g) >= c.depth[s]}
DefineScope(c, B, T, w, s, q) ==
  FoldLeft(LAMBDA v, g : certification_define_b_literal(
                           c, [v EXCEPT !.queue = GateLits(c, B, T, s, q, g)], s, q, g),
           w, SetToSortSeq(EncodedGates(c, s), <))
DefineAllScopes(c, B, T, w, q) ==
  FoldLeft(LAMBDA v, s : DefineScope(c, B, T, v, s, q), w, [s \in Scopes(c) |-> s])

CertInit ==
  /\ Init
  /\ \E f \in Files, preprocess \in BOOLEAN : \E h \in {EncodedFile(f, preprocess)} :
       LET work(q) == DefineAllScopes(circuit, b_lits, t_lits,
                        certification_import_variables(certification_init(f), f, h, q), q)
       IN  /\ circuit = Annotate(G!CircuitOf(h))
           /\ file = f
           /\ cert = [works |-> [exists |-> work("exists"), forall |-> work("forall")],
                      function_lit |-> [i \in Nodes(circuit) |-> aiger_false],
                      precondition_lit |-> [i \in Nodes(circuit) |-> aiger_false]]
  /\ step = "solve" /\ combined = aiger_init

-----------------------------------------------------------------------------
(* A case per answer *)

Conjunction(w, lits) == encode_and([w EXCEPT !.queue = lits])

\* Under the new condition, and not under an earlier one, the variable is true.
\* CaseConditionLast: the earlier conditions are not consulted.
CaseConditionLast(precondition, last) == <<precondition>>
CaseCondition(precondition, last) == <<aiger_not(last), precondition>>
SetFunction(k, q, v, func) ==
  [k EXCEPT !.works[q] = func.work, !.function_lit[v] = aiger_not(func.lit)]
ExtendFunction(k, q, v, case) ==
  SetFunction(k, q, v, Conjunction(case.work, <<aiger_not(k.function_lit[v]), aiger_not(case.lit)>>))
SetPrecondition(k, q, v, pre) ==
  [k EXCEPT !.works[q] = pre.work, !.precondition_lit[v] = aiger_not(pre.lit)]
ExtendPrecondition(k, q, v, precondition) ==
  SetPrecondition(k, q, v, Conjunction(k.works[q],
                     <<aiger_not(k.precondition_lit[v]), aiger_not(precondition)>>))
AddCase(k, q, v, positive, precondition) ==
  ExtendPrecondition(
    IF positive
    THEN ExtendFunction(k, q, v, Conjunction(k.works[q],
                                   CaseCondition(precondition, k.precondition_lit[v])))
    ELSE k, q, v, precondition)

\* The values are those of the proposal.
AddCases(s, q, values, pre) ==
  FoldLeft(LAMBDA k, v : AddCase(k, q, v, values[v] > 0, pre.lit),
           [cert EXCEPT !.works[q] = pre.work], SetToSortSeq(ScopeVars(circuit, s), <))
certification_append_function_case(s, answer, values) ==
  LET gates == SetToSortSeq({TLitToVarId(circuit, t) : t \in answer}, <)
      lits  == [j \in DOMAIN gates |->
                  certification_add_t_literal(circuit, b_lits, s, QType(s), gates[j])]
  IN  AddCases(s, QType(s), values, Conjunction(cert.works[QType(s)], lits))

\* The end of circuit_abstraction_dual_propagation, unless its check has failed.
RecordCase(s) ==
  cert' = IF pc'[s] = "good" THEN certification_append_function_case(s, entry'[s], value') ELSE cert

-----------------------------------------------------------------------------
(* Printing: certification_define_outputs and certification_print *)

Winner == IF pc[TopLevel] = "good" THEN "exists" ELSE "forall"
define_outputs(aig, q) ==
  LET own == UNION {ScopeVars(circuit, s) : s \in {t \in Scopes(circuit) : QType(t) = q}}
  IN  FoldLeft(LAMBDA a, v : aiger_add_and(a, 2 * v, cert.function_lit[v], aiger_true),
               aig, SetToSortSeq(own, <))

PrintCertificate ==
  /\ step = "solve" /\ Answered
  /\ cert' = [cert EXCEPT !.works[Winner].aig =
       aiger_add_output(define_outputs(@, Winner),
                        IF Winner = "exists" THEN aiger_true ELSE aiger_false, 0)]
  /\ step' = "printed"
  /\ UNCHANGED <<vars, file, combined>>

-----------------------------------------------------------------------------
(* certcheck *)

Certificate == cert.works[Winner].aig
FileVariables(owner) == {file.var[v].id : v \in VariablesOf(file, owner)}

circuit_gate_to_aiger_lit(g) == IF file.node[g].type = "and" THEN 2 * g ELSE aiger_not(2 * g)
MatrixLit(l) ==
  IF G!IsVar(file, LitVar(l)) THEN circuit_lit_to_aiger_lit(l)
  ELSE IF l < 0 THEN aiger_not(circuit_gate_to_aiger_lit(-l)) ELSE circuit_gate_to_aiger_lit(l)

\* Here the queue is joined down to one literal.
import_gate(w, g) ==
  LET in == file.node[g].in
      v  == [w EXCEPT !.queue = [k \in DOMAIN in |-> MatrixLit(in[k])]]
  IN  DefineAs(JoinDownTo(IF file.node[g].type = "and" THEN v ELSE Negated(v), 1), 2 * g)

import_circuit ==
  LET start == [aig   |-> FoldSet(LAMBDA v, a : aiger_add_input(a, 2 * v, v), aiger_init,
                                  FileVariables(Dual(Winner))),
                next  |-> G!MaxNum(file) + 1, queue |-> <<>>]
      gates == SetToSortSeq({g \in G!NodeIds(file) : G!IsGate(file, g)}, <)
      out   == MatrixLit(file.output)
      w     == FoldLeft(import_gate, start, gates)
  IN  [w EXCEPT !.aig = aiger_add_output(@, IF Winner = "exists" THEN aiger_not(out) ELSE out, 0)]

\* Inputs of the certificate are found by their names, its gates are moved by the offset.
aiger_lit_translate(lit, offset) ==
  CASE aiger_strip(lit) = aiger_false -> lit
    [] aiger_strip(lit) \in InputLits(Certificate) ->
         LET name == CHOOSE n \in FileVariables(Dual(Winner)) :
                       <<aiger_strip(lit), n>> \in Certificate.inputs
         IN  IF lit % 2 = 0 THEN 2 * name ELSE aiger_not(2 * name)
    [] OTHER -> lit + offset

combine_with_certificate(w) ==
  LET offset == 2 * w.next
      move(lit) == aiger_lit_translate(lit, offset)
      gates == FoldLeft(LAMBDA a, g : aiger_add_and(a, g[1] + offset, move(g[2]), move(g[3])),
                        w.aig, Certificate.ands)
      functions == {o \in Certificate.outputs : o[2] # 0}
  IN  FoldSet(LAMBDA o, a : aiger_add_and(a, 2 * o[2], move(o[1]), aiger_true), gates, functions)

CheckCertificate ==
  /\ step = "printed"
  /\ combined' = combine_with_certificate(import_circuit)
  /\ step' = "combined"
  /\ UNCHANGED <<vars, file, cert>>

-----------------------------------------------------------------------------
SolverStep(s) ==
  \/ SolveLeaf(s) /\ RecordCase(s)
  \/ AllAgreed(s) /\ RecordCase(s)
  \/ /\ \/ SolveInner(s) \/ SolveUnsat(s) \/ NextChild(s)
        \/ ChildAgrees(s) \/ ChildObjects(s) \/ Retry(s)
     /\ UNCHANGED cert

CertDone == (step = "combined" \/ Aborted) /\ UNCHANGED certVars

CertNext ==
  \/ (\E s \in Scopes(circuit) : SolverStep(s)) /\ UNCHANGED <<file, step, combined>>
  \/ PrintCertificate \/ CheckCertificate \/ CertDone

CertSpec == CertInit /\ [][CertNext]_certVars

-----------------------------------------------------------------------------
\* The graphs that are built are graphs: no literal is defined twice (assert(!type->and),
\* aiger.c:518), and the consistency checks before printing and after combining succeed.
CertificateWellFormed ==
  /\ \A q \in DOMAIN cert.works : ~cert.works[q].aig.failed
  /\ step # "solve" => aiger_check_succeeds(Certificate)
  /\ step = "combined" => ~combined.failed /\ aiger_check_succeeds(combined)

\* Whenever a scope is won, the functions of its variables as they stand win against every
\* assignment of the outer scopes that any of their cases covers, whatever the order in which
\* the cases were found (certification_append_function_case).
CaseHolds(s, a, true) ==
  LET own == {IF LitHolds(true, cert.function_lit[v]) THEN v ELSE -v : v \in ScopeVars(circuit, s)}
  IN  (\A v \in ScopeVars(circuit, s) : LitHolds(true, cert.precondition_lit[v])) =>
        (QType(s) = "exists") =
          (IF IsLeaf(s) THEN NodeHolds(circuit, circuit.output, a \cup own)
           ELSE ScopeHolds(circuit, circuit.scope[s].next[1], a \cup own))
TrueInputs(a) == {2 * v : v \in {l \in a : l > 0}}
CasesWin ==
  \A s \in Scopes(circuit) :
    pc[s] = "good" /\ ScopeVars(circuit, s) # {} /\ step = "solve" =>
      \A a \in OuterAssignments(s) :
        CaseHolds(s, a, Evaluate(cert.works[QType(s)].aig.ands, TrueInputs(a)))

\* The opponent has no counterexample to the certificate of the winner: under no assignment of
\* the inputs is `bad' true (test/certification.py).
NoCounterexample(ands, bad) ==
  \A true \in SUBSET InputLits(combined) : ~LitHolds(Evaluate(ands, true), bad)
CertificateWins ==
  step = "combined" /\ aiger_check_succeeds(combined) =>
    NoCounterexample(Ordered(combined), (CHOOSE o \in combined.outputs : o[2] = 0)[1])
=============================================================================

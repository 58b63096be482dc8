------------------------------ MODULE Pipeline ------------------------------
(***************************************************************************)
(* From the input file to the circuit that is solved or printed: the QCIR  *)
(* parser, statement by statement, and the passes of solver_sat (quabs)    *)
(* and of qcir2qcir over the circuit that it has built.  A statement is a  *)
(* record with a `kind':                                                   *)
(*   "header" [n]; "exists", "forall", "free" [vars]; "output" [lit];      *)
(*   "and", "or" [id, in]; "quantified" [id, qtype, vars, sub].            *)
(***************************************************************************)
EXTENDS CircuitPreprocessing, Miniscoping

CONSTANT Invocations    \* what the programs are started with: records [file, options]
ASSUME InvocationsAssumption ==
  \A i \in Invocations : /\ i.options \subseteq {"preprocess", "flatten", "miniscoping", "prenexing"}
                    /\ ~{"miniscoping", "prenexing"} \subseteq i.options

VARIABLES rest,      \* what is still to be parsed
          g,         \* the circuit
          pc,        \* the pass that has been completed
          options,   \* of the command line
          changed,   \* whether the current round of preprocessing has changed anything
          truth,     \* history: the truth value of the formula in the file
          weight     \* history: the weight of the circuit at the start of the round

vars == <<rest, g, pc, options, changed, truth, weight>>

-----------------------------------------------------------------------------
(* The truth value of the formula that a circuit stands for.               *)

Q == INSTANCE QbfSemantics

\* A negated output is looked up through one more gate.
Formula(c) ==
  LET d == CircuitOf(c)
  IN  [node |-> Append(d.node, [type |-> "and", scope |-> 0, inputs |-> <<c.output>>]),
       scope |-> d.scope, output |-> Len(d.node) + 1]
Truth(c) == Q!QbfTruth(Formula(c))

-----------------------------------------------------------------------------
(* Parsing (circuit_from_qcir) *)

Init ==
  /\ \E i \in Invocations : rest = i.file /\ options = i.options
  /\ g = circuit_init /\ pc = "parse" /\ changed = FALSE /\ truth = FALSE /\ weight = 0

Parsing(kinds) == pc = "parse" /\ rest # <<>> /\ Head(rest).kind \in kinds
Parsed(h) == g' = h /\ rest' = Tail(rest) /\ UNCHANGED <<pc, options, changed, truth, weight>>

ParseHeader == Parsing({"header"}) /\ Parsed(circuit_adjust(g, Head(rest).n))

ParseQuantifier ==
  /\ Parsing({"exists", "forall", "free"})
  /\ LET h == circuit_init_scope(g, Head(rest).kind)
     IN  Parsed(FoldLeft(LAMBDA k, i : circuit_new_var(k, h.last, i), h, Head(rest).vars))

ParseOutput == Parsing({"output"}) /\ Parsed(circuit_set_output(g, Head(rest).lit))

ParseGate ==
  /\ Parsing({"and", "or"})
  /\ LET s == Head(rest)
     IN  Parsed(AddAll(circuit_add_gate(g, s.id, s.kind), s.id, s.in))

ParseQuantified ==
  /\ Parsing({"quantified"})
  /\ LET s == Head(rest)
         h == circuit_new_scope_node(g, s.qtype, s.id)
     IN  Parsed(circuit_set_scope_node(
                  FoldLeft(LAMBDA k, i : circuit_new_var(k, Len(h.scope), i), h, s.vars),
                  s.id, s.sub))

EndOfFile ==
  /\ pc = "parse" /\ rest = <<>>
  /\ pc' = "parsed" /\ truth' = Truth(g)
  /\ UNCHANGED <<rest, g, options, changed, weight>>

-----------------------------------------------------------------------------
(* What a round of preprocessing uses up: nodes and inputs, and at last    *)
(* the inputs that are gates with one input (whose sum the factor bounds). *)

Weight(c) ==
  LET inputs(i) == Len(c.node[i].in)
      single(i) == Len(SelectSeq(c.node[i].in, LAMBDA l :
                     Exists(c, LitVar(l)) /\ IsGate(c, LitVar(l)) /\ inputs(LitVar(l)) = 1))
      edges == MapThenSumSet(inputs, NodeIds(c))
  IN  (MaxNum(c) + edges) * (edges + 1) + MapThenSumSet(single, NodeIds(c))

-----------------------------------------------------------------------------
(* The passes *)

Pass(from, to, h) ==
  /\ pc \in from /\ g.failed = {}
  /\ pc' = to /\ g' = h
  /\ UNCHANGED <<rest, options, truth>>

Reencode == Pass({"parsed"}, "encoded", circuit_reencode(g)) /\ UNCHANGED <<changed, weight>>

\* A round of preprocessing.
Normalize ==
  LET r == circuit_normalize(IF pc = "encoded" THEN [g EXCEPT !.phase = "propagation"] ELSE g)
  IN  /\ "preprocess" \in options
      /\ Pass({"encoded", "reencoded"}, "normalized", circuit_check(r.g))
      /\ changed' = (r.changes > 0) /\ weight' = Weight(g)

AssignValues ==
  /\ Pass({"normalized"}, "assigned",
          get_forced_variables(circuit_compute_polarities(detect_empty_scopes(g))))
  /\ UNCHANGED <<changed, weight>>

Propagate ==
  LET r == circuit_propagate(g)
  IN  /\ Pass({"assigned"}, "propagated", circuit_check(r.g))
      /\ changed' = (changed \/ r.changes > 0) /\ UNCHANGED weight

ReencodeRound ==
  /\ Pass({"propagated"}, IF changed THEN "reencoded" ELSE "preprocessed", circuit_reencode(g))
  /\ UNCHANGED <<changed, weight>>

Simplified == {"preprocessed"} \cup (IF "preprocess" \in options THEN {} ELSE {"encoded"})

Flatten ==
  /\ "flatten" \in options
  /\ Pass(Simplified, "flattened", circuit_flatten_gates(g)) /\ UNCHANGED <<changed, weight>>

Flattened == IF "flatten" \in options THEN {"flattened"} ELSE Simplified

Miniscope ==
  /\ "miniscoping" \in options
  /\ Pass(Flattened, "miniscoped", circuit_unprenex_by_miniscoping(g))
  /\ UNCHANGED <<changed, weight>>

ToPrenex ==
  /\ "prenexing" \in options
  /\ Pass(Flattened, "prenex", circuit_to_prenex(g)) /\ UNCHANGED <<changed, weight>>

Finished == pc \in {"miniscoped", "prenex"}
                   \cup (IF {"miniscoping", "prenexing"} \cap options = {} THEN Flattened ELSE {})
Done == Finished /\ g.failed = {} /\ UNCHANGED vars

Next ==
  \/ ParseHeader \/ ParseQuantifier \/ ParseOutput \/ ParseGate \/ ParseQuantified \/ EndOfFile
  \/ Reencode \/ Normalize \/ AssignValues \/ Propagate \/ ReencodeRound
  \/ Flatten \/ Miniscope \/ ToPrenex \/ Done

Spec == Init /\ [][Next]_vars

-----------------------------------------------------------------------------
\* No assertion, api_expect check or pointer access of circuit.c fails.
NoAssertionFails == g.failed = {}

\* Every pass keeps the truth value of the formula, also between the passes of one round.
TruthPreserved == pc # "parse" /\ g.failed = {} => Truth(g) = truth

\* The nodes that each node's subformula consists of.
Below(c) == LET below[i \in NodeIds(c)] == {i} \cup UNION {below[j] : j \in InputSet(c, i)} IN below

\* Right after an encoding, the circuit has the form that the solver's algorithms assume, and
\* the scope tree shows which quantified subformulas are inside which.
EncodedIsWellFormed ==
  pc \in {"encoded", "reencoded", "preprocessed", "miniscoped"} /\ g.failed = {} =>
    /\ Q!WellFormed(CircuitOf(g))
    /\ \A i, j \in {k \in NodeIds(g) : IsScopeNode(g, k)} :
         j \in Below(g)[i] <=> g.node[j].ref \in ScopesBelow(g, g.node[i].ref)

\* Preprocessing stops only where it has nothing left to do.
PreprocessingIsComplete ==
  pc = "preprocessed" /\ g.failed = {} =>
    /\ \A v \in DOMAIN g.var :
         ~g.var[v].removed => {g.var[v].id, -g.var[v].id} \subseteq Occurring(g)
    /\ \A j \in InputSet(g, g.output) : ~IsVar(g, j)

\* The converted circuit has all its quantifiers in an alternating prefix.
PrenexResult ==
  pc = "prenex" /\ g.failed = {} =>
    /\ \A i \in NodeIds(g) : ~IsScopeNode(g, i)
    /\ \A s \in LinkedScopes(g) :
         /\ Len(g.scope[s].next) <= 1 /\ g.scope[s].node = 0
         /\ \A t \in Range(g.scope[s].next) : g.scope[t].qtype # g.scope[s].qtype
    /\ \A v \in DOMAIN g.var : g.var[v].removed \/ g.var[v].scope \in LinkedScopes(g)

\* A round that changes something leaves less to do: the loop of circuit_preprocess ends.
RoundsShrink == pc = "reencoded" /\ g.failed = {} => Weight(g) < weight
=============================================================================

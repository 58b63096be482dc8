---------------------------- MODULE FixpointQuery ----------------------------
(***************************************************************************)
(* The translation of a safety game (fixpoint_aiger_preprocess and         *)
(* fixpoint_init_from_aiger): from an AIGER circuit with controllable      *)
(* inputs to the 2QBF                                                      *)
(*     F -> exists controls, next state: (T /\ F')                         *)
(* over all states and inputs, that the loop of module Fixpoint works on.  *)
(*                                                                         *)
(* An AIGER circuit is a record                                            *)
(*   controllable : sequence of BOOLEAN, one for every input               *)
(*   latches      : sequence of [lit, next]                                *)
(*   ands         : sequence of [lhs, rhs0, rhs1] in topological order     *)
(*   output       : the error literal                                      *)
(* with the variables numbered inputs, latches, gates.  A literal is twice *)
(* the variable, plus one if negated; 0 is false and 1 is true.  The       *)
(* AIGER library (aiger.c) is vendored code and left out.                  *)
(***************************************************************************)
EXTENDS Integers, Sequences, SequencesExt

G == INSTANCE CircuitEncoding

-----------------------------------------------------------------------------
(***************************************************************************)
(* fixpoint_aiger_preprocess: gates with an input that is constant true    *)
(* are replaced by their other input, in later gates and in the latches.   *)
(***************************************************************************)
Strip(l) == l - (l % 2)
Not(l) == IF l % 2 = 1 THEN l - 1 ELSE l + 1
Substituted(constants, l) ==
  IF Strip(l) \notin DOMAIN constants THEN l
  ELSE IF l % 2 = 1 THEN Not(constants[Strip(l)]) ELSE constants[Strip(l)]

\* One gate, over [ands, constants].
PreprocessAnd(p, and) ==
  LET a == [and EXCEPT !.rhs0 = Substituted(p.constants, @), !.rhs1 = Substituted(p.constants, @)]
      other == IF a.rhs0 = 1 THEN a.rhs1 ELSE a.rhs0
  IN  [ands |-> Append(p.ands, a),
       constants |-> IF 1 \in {a.rhs0, a.rhs1} THEN (a.lhs :> other) @@ p.constants
                     ELSE p.constants]

Preprocessed(a) ==
  LET p == FoldLeft(PreprocessAnd, [ands |-> <<>>, constants |-> <<>>], a.ands)
  IN  [a EXCEPT !.ands = p.ands,
                !.latches = [i \in DOMAIN @ |->
                               [@[i] EXCEPT !.next = Substituted(p.constants, @)]]]

-----------------------------------------------------------------------------
(* fixpoint_init_from_aiger *)

MaxVar(a) == Len(a.controllable) + Len(a.latches) + Len(a.ands)

\* The last latch stores the error output.
AddErrorLatch(a) ==
  [a EXCEPT !.latches = Append(@, [lit |-> 2 * (MaxVar(a) + 1), next |-> a.output])]

constant_zero(a) == MaxVar(a) + 1
aig_lit_to_qcir_lit(a, l) ==
  CASE l = 0 -> constant_zero(a)
    [] l = 1 -> -constant_zero(a)
    [] OTHER -> IF l % 2 = 1 THEN -((l - 1) \div 2) ELSE l \div 2
prime_latch(a, i) == i + MaxVar(a) + 1

outer == 2       \* the scopes, also after the encoding
inner == 3

import_aiger_variables(g, a) ==
  LET input(h, i) ==
        G!circuit_new_var(h, IF a.controllable[i] THEN inner ELSE outer, i)
      latch(h, i) ==
        G!circuit_new_var(
          G!circuit_new_var(h, outer, aig_lit_to_qcir_lit(a, a.latches[i].lit)),
          inner, prime_latch(a, i))
  IN  FoldLeft(latch, FoldLeft(input, g, [i \in DOMAIN a.controllable |-> i]),
               [i \in DOMAIN a.latches |-> i])

NewGate(g, id, type, lits) == G!AddAll(G!circuit_add_gate(g, id, type), id, lits)

import_aiger_circuit(g, a) ==
  FoldLeft(LAMBDA h, and : NewGate(h, aig_lit_to_qcir_lit(a, and.lhs), "and",
                                   <<aig_lit_to_qcir_lit(a, and.rhs0),
                                     aig_lit_to_qcir_lit(a, and.rhs1)>>), g, a.ands)

\* Two implications become inputs of the gate `and'.
Implication(g, and, lhs, rhs) ==
  LET id == G!MaxNum(g) + 1
  IN  NewGate(G!circuit_add_to_gate(G!circuit_add_gate(g, id, "or"), and, id),
              id, "or", <<-lhs, rhs>>)
build_equality(g, and, lhs, rhs) ==
  Implication(Implication(g, and, lhs, rhs), and, -lhs, -rhs)

\* T: no error now, and every latch but the error latch takes its next value.
Transition(g, a, id) ==
  LET step(h, i) ==
        IF a.latches[i].next = 1 THEN G!circuit_add_to_gate(h, id, prime_latch(a, i))
        ELSE build_equality(h, id, prime_latch(a, i),
                            aig_lit_to_qcir_lit(a, a.latches[i].next))
  IN  FoldLeft(step, NewGate(g, id, "and", <<-aig_lit_to_qcir_lit(a, a.output)>>),
               [i \in 1 .. Len(a.latches) - 1 |-> i])

\* The gates are appended: the implication (id), F (id + 1), T (id + 2), F' at the end.
build_qbf_query(g, a) ==
  LET id     == G!MaxNum(g) + 1
      last   == Len(a.latches)
      f      == NewGate(G!circuit_set_output(g, id), id, "or", <<id + 1, id + 2>>)
      t      == NewGate(f, id + 1, "or", <<aig_lit_to_qcir_lit(a, a.latches[last].lit)>>)
      tr     == Transition(t, a, id + 2)
      prime  == G!MaxNum(tr) + 1
  IN  G!circuit_add_to_gate(NewGate(tr, prime, "and", <<-prime_latch(a, last)>>), id + 2, prime)

\* The query for a circuit that has its error latch, encoded.
Query(a) ==
  LET empty == G!circuit_add_gate(G!circuit_init, constant_zero(a), "or")
      scopes == G!circuit_init_scope(G!circuit_init_scope(empty, "forall"), "exists")
  IN  G!circuit_reencode(
        build_qbf_query(import_aiger_circuit(import_aiger_variables(scopes, a), a), a))

LatchNodes(a, g) ==
  [i \in DOMAIN a.latches |->
     LET k == Len(a.controllable) + 2 * i - 1
     IN  [var |-> g.var[k].id, primed |-> g.var[k + 1].id]]

\* What the loop is started with: the game with its error latch, the encoded query, and the
\* nodes of the inputs (0 if nothing depends on the input) and of the latches.
fixpoint_init_from_aiger(game) ==
  LET a == AddErrorLatch(Preprocessed(game))
      g == Query(a)
  IN  [aiger   |-> a,
       circuit |-> G!CircuitOf(g),
       inputs  |-> [i \in DOMAIN a.controllable |-> IF g.var[i].removed THEN 0 ELSE g.var[i].id],
       latches |-> LatchNodes(a, g)]
=============================================================================

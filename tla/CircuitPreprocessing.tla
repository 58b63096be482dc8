------------------------ MODULE CircuitPreprocessing ------------------------
(***************************************************************************)
(* The simplifications of circuit_preprocess (singleton gates, nested      *)
(* gates, variables with one polarity, forced variables, constants), the   *)
(* flattening of gates and the conversion to prenex form.                  *)
(***************************************************************************)
EXTENDS CircuitEncoding

Positions(s) == [j \in DOMAIN s |-> j]
UndoUse(g, added, l) == IF added THEN g ELSE ChangeOcc(g, LitVar(l), -1)

-----------------------------------------------------------------------------
(* circuit_normalize *)

\* The outer gate takes over the only input of `inner', which goes if it was used once.
remove_singleton_gate(g, outer, inner) ==
  LET l     == g.node[inner].in[1]
      added == ~Contained(g, outer, l)
      h     == ChangeOcc(circuit_add_to_gate(remove_input_from_gate(g, outer, inner), outer, l),
                         inner, -1)
  IN  circuit_check(
        IF g.node[inner].occ = 1
        THEN UndoUse(remove_gate([h EXCEPT !.node[inner].in = <<>>], inner), added, l)
        ELSE IF added THEN ChangeOcc(h, LitVar(l), 1) ELSE h)

\* The outer gate takes over all inputs of the gate at `pos', which only it uses.
flatten_gates(g, outer, pos) ==
  LET inner == LitVar(g.node[outer].in[pos])
      take(h, l) == UndoUse(circuit_add_to_gate(h, outer, l), ~Contained(h, outer, l), l)
      h == ChangeOcc(FoldLeft(take, remove_gate_input(g, outer, pos), g.node[inner].in), inner, -1)
  IN  remove_gate([h EXCEPT !.node[inner].in = <<>>], inner)

\* r is [g, changes].  The input that moves to position i is passed over in this round.
RECURSIVE NormalizeInputs(_, _, _)
NormalizeInputs(r, outer, i) ==
  LET g     == r.g
      inner == LitVar(g.node[outer].in[i])
      single == Len(g.node[inner].in) = 1
      next(h) == NormalizeInputs([g |-> h, changes |-> r.changes + 1], outer, i + 1)
  IN  CASE g.failed # {} \/ i > Len(g.node[outer].in) -> r
        [] OTHER ->
             IF ~IsGate(g, inner) \/ g.node[inner].in = <<>>
             THEN NormalizeInputs(r, outer, i + 1)
             ELSE IF single THEN next(remove_singleton_gate(g, outer, inner))
             ELSE IF g.node[outer].type = g.node[inner].type /\ g.node[inner].occ = 1
             THEN next(flatten_gates(g, outer, i))
             ELSE NormalizeInputs(r, outer, i + 1)

circuit_normalize(g) ==
  FoldLeft(LAMBDA r, i : IF IsGate(r.g, i) THEN NormalizeInputs(r, i, 1) ELSE r,
           [g |-> g, changes |-> 0], Positions(g.node))

-----------------------------------------------------------------------------
(* Variables whose value is known *)

\* Children first; a removed child lets the one behind it move up unseen.
RECURSIVE DetectEmptyFrom(_, _, _)
DetectEmptyFrom(g, s, k) ==
  CASE g.failed # {} -> g
    [] g.failed = {} /\ k <= Len(g.scope[s].next) ->
         DetectEmptyFrom(DetectEmptyFrom(g, g.scope[s].next[k], 1), s, k + 1)
    [] g.failed = {} /\ k > Len(g.scope[s].next) ->
         IF g.scope[s].vars = <<>> /\ s # TopLevel THEN remove_scope(g, s) ELSE g
detect_empty_scopes(g) == DetectEmptyFrom(g, TopLevel, 1)

\* The polarity of a variable after it is met in these literals.
Occurring(g) == UNION {Range(g.node[i].in) : i \in NodeIds(g)}
update_polarity(g, v) ==
  LET pos == g.var[v].id \in Occurring(g) \/ g.var[v].pol \in {"pos", "none"}
      neg == -g.var[v].id \in Occurring(g) \/ g.var[v].pol \in {"neg", "none"}
  IN  CASE pos /\ neg -> "none" [] pos /\ ~neg -> "pos"
        [] neg /\ ~pos -> "neg" [] OTHER -> "undefined"

\* The player who owns the variable picks the value that helps, or its opponent the other.
Favoured(g, v, sign) == IF g.scope[g.var[v].scope].qtype = "forall" THEN -sign ELSE sign

\* One polarity decides the variable; otherwise its polarity is counted anew the next time.
\* RememberedAlways: the polarities seen so far are kept.
RememberedAlways(g, v) == update_polarity(g, v)
Remembered(g, v) ==
  IF update_polarity(g, v) \in {"pos", "neg"} THEN update_polarity(g, v) ELSE "undefined"
circuit_compute_polarities(g) ==
  LET pure == {v \in DOMAIN g.var : ~g.var[v].removed /\ update_polarity(g, v) \in {"pos", "neg"}}
      val(v) == Favoured(g, v, IF update_polarity(g, v) = "pos" THEN 1 ELSE -1)
      vars == [v \in DOMAIN g.var |->
                 IF g.var[v].removed THEN g.var[v]
                 ELSE [g.var[v] EXCEPT !.pol = Remembered(g, v)]]
  IN  [g EXCEPT !.var = Tuple(vars),
                !.node = Tuple([i \in DOMAIN @ |->
                                  IF IsVar(g, i) /\ g.node[i].ref \in pure
                                  THEN [@[i] EXCEPT !.val = val(g.node[i].ref)] ELSE @[i]])]

\* A variable that is an input of the output gate.
get_forced_variables(g) ==
  FoldLeft(LAMBDA h, l :
             IF IsVar(h, LitVar(l))
             THEN [h EXCEPT !.node[LitVar(l)].val =
                     Favoured(h, h.node[LitVar(l)].ref, IF l > 0 THEN 1 ELSE -1)]
             ELSE h, g, g.node[g.output].in)

-----------------------------------------------------------------------------
(* circuit_propagate *)

\* A gate with an input and its negation is decided even if they are not.
EvaluateNode(g, i) ==
  LET n        == g.node[i]
      vals     == [j \in DOMAIN n.in |-> WithSign(g.node[LitVar(n.in[j])].val, n.in[j])]
      neutral  == IF n.type = "and" THEN 1 ELSE -1
  IN  CASE n.type \in {"none", "var"} -> n.val
        [] n.type = "scope" -> g.node[LitVar(n.in[1])].val
        [] OTHER -> IF -neutral \in Range(vals) \/ (n.conflict /\ vals # <<>>) THEN -neutral
                    ELSE IF 0 \in Range(vals) THEN 0 ELSE neutral

circuit_evaluate(g) ==
  FoldLeft(LAMBDA h, i : [h EXCEPT !.node[i].val = EvaluateNode(h, i)], g, Positions(g.node))

\* Remove what has a value, in the order of the ids; r is [g, changes].
RemoveDecided(r, i) ==
  LET g == r.g
      n == g.node[i]
      removed == CASE n.type = "var" -> remove_var(g, i)
                   [] n.type = "scope" -> remove_scope_node(g, i)
                   [] OTHER -> remove_gate(g, i)
  IN  IF g.failed # {} \/ n.type = "none" \/ n.val = 0 THEN r
      ELSE [g |-> removed, changes |-> r.changes + IF i = LitVar(g.output) THEN 0 ELSE 1]

\* Inputs that are gone are dropped from the gates.
\* LostInputsAll: every input counts as a change.
LostInputsAll(g, i) == DOMAIN g.node[i].in
LostInputs(g, i) == {j \in DOMAIN g.node[i].in : ~Exists(g, LitVar(g.node[i].in[j]))}
remove_orphans(r) ==
  LET g    == r.g
      kept == [i \in DOMAIN g.node |->
                 IF IsGate(g, i)
                 THEN [g.node[i] EXCEPT !.in = SelectSeq(@, LAMBDA l : Exists(g, LitVar(l)))]
                 ELSE g.node[i]]
      orphan == \E i \in NodeIds(g) : IsScopeNode(g, i) /\ LostInputs(g, i) # {}
      gates  == {i \in NodeIds(g) : IsGate(g, i)}
  IN  [g |-> [Require(g, ~orphan, "scope node without input") EXCEPT !.node = Tuple(kept)],
       changes |-> r.changes + MapThenSumSet(LAMBDA i : Cardinality(LostInputs(g, i)), gates)]

circuit_propagate(g) ==
  LET r == FoldLeft(RemoveDecided, [g |-> circuit_evaluate(g), changes |-> 0], Positions(g.node))
  IN  IF r.g.failed # {} THEN r ELSE remove_orphans(r)

-----------------------------------------------------------------------------
(* circuit_preprocess of an encoded circuit: rounds, until one changes nothing. *)

PreprocessRound(g) ==
  LET n == circuit_normalize(g)
      known == get_forced_variables(circuit_compute_polarities(
                 detect_empty_scopes(circuit_check(n.g))))
      p == circuit_propagate(known)
  IN  [g |-> circuit_reencode(circuit_check(p.g)), changed |-> n.changes > 0 \/ p.changes > 0]
RECURSIVE PreprocessRounds(_)
AnotherRound(r) == IF r.changed /\ r.g.failed = {} THEN PreprocessRounds(r.g) ELSE r.g
PreprocessRounds(g) == AnotherRound(PreprocessRound(g))
circuit_preprocess(g) == PreprocessRounds([g EXCEPT !.phase = "propagation"])

-----------------------------------------------------------------------------
(* circuit_flatten_gates: the loop ends before the last node. *)

RECURSIVE FlattenInputs(_, _, _)
FlattenInputs(g, i, j) ==
  LET other == LitVar(g.node[i].in[j])
      take(h, l) == IF Contained(h, i, l) THEN circuit_add_to_gate(h, i, l)
                    ELSE ChangeOcc(circuit_add_to_gate(h, i, l), LitVar(l), 1)
  IN  IF j > Len(g.node[i].in) THEN g
      ELSE IF g.node[i].type # g.node[other].type THEN FlattenInputs(g, i, j + 1)
      ELSE FlattenInputs(FoldLeft(take, ChangeOcc(remove_gate_input(g, i, j), other, -1),
                                  g.node[other].in), i, j)

circuit_flatten_gates(g) ==
  FoldLeft(LAMBDA h, i : IF IsGate(h, i) THEN FlattenInputs(h, i, 1) ELSE h,
           is_nnf(g), [i \in 1 .. MaxNum(g) - 1 |-> i])

-----------------------------------------------------------------------------
(* circuit_to_prenex: level by level, all scopes below the last scope of   *)
(* the prefix are merged into one new scope behind it.                     *)

RECURSIVE MergeLevel(_, _, _)
MergeLevel(g, last, new) ==
  LET s == g.scope[last].next[1]
      p == Require(g, g.scope[s].qtype = g.scope[new].qtype /\ g.scope[s].node # 0,
                   "scope to merge")
      h == merge_scopes(link_scope(unlink_scope(p, last, s), new, s), s, new)
  IN  IF g.failed # {} \/ Len(g.scope[last].next) <= 1 THEN g
      ELSE MergeLevel(IF h.failed = {} THEN free_scope(h, s) ELSE h, last, new)

RECURSIVE PrenexFrom(_, _)
PrenexFrom(g, last) ==
  LET start == circuit_init_scope(g, Dual(g.scope[last].qtype))
      h     == MergeLevel(start, last, start.last)
  IN  IF g.failed # {} \/ g.scope[last].next = <<>> THEN g
      ELSE PrenexFrom(Require(h, h.scope[last].next[1] = start.last, "last_in_prefix->next[0]"),
                      start.last)
circuit_to_prenex(g) == PrenexFrom(g, LastOf(Prefix(g)))
=============================================================================

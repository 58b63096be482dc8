------------------------------- MODULE Circuit -------------------------------
(***************************************************************************)
(* The encoded circuit of a QBF (circuit.c, circuit.h), as the solver sees *)
(* it after circuit_reencode: a directed acyclic graph in negation normal  *)
(* form whose nodes are numbered topologically, and a tree of quantifier   *)
(* scopes with strict alternation.  Scope 1 is the existential top level.  *)
(*                                                                         *)
(* A circuit is a record                                                   *)
(*   node   : sequence of [type, scope, inputs]; type is "var", "and",     *)
(*            "or" or "scope".  For a variable `scope' is the scope that   *)
(*            binds it, for a scope node the scope that it opens; `inputs' *)
(*            is the sequence of input literals (of a scope node: <<sub>>) *)
(*   scope  : sequence of [qtype, prev, node, next]; the index is the      *)
(*            scope_id, `node' is 0 in the quantifier prefix and `next' is *)
(*            the sequence of child scopes                                 *)
(*   output : the output gate                                              *)
(* to which Annotate adds depth, max_depth, influences and relevant_for.   *)
(* Reference counts, orig_ids and the construction phases are left out.    *)
(***************************************************************************)
EXTENDS Integers, Sequences, FiniteSetsExt, SequencesExt

LitVar(l) == IF l < 0 THEN -l ELSE l
Signed(l, v) == IF l < 0 THEN -v ELSE v

MaxNum(c) == Len(c.node)
Nodes(c) == 1 .. MaxNum(c)
Scopes(c) == DOMAIN c.scope
TopLevel == 1

IsVar(c, i) == c.node[i].type = "var"
IsScopeNode(c, i) == c.node[i].type = "scope"
IsGate(c, i) == c.node[i].type \in {"and", "or"}
Inputs(c, i) == {LitVar(l) : l \in Range(c.node[i].inputs)}
Conflict(c, i) == \E l \in Range(c.node[i].inputs) : -l \in Range(c.node[i].inputs)

ScopeVars(c, s) == {i \in Nodes(c) : IsVar(c, i) /\ c.node[i].scope = s}
Children(c, s) == Range(c.scope[s].next)
InPrefix(c, s) == c.scope[s].node = 0

Dual(q) == IF q = "exists" THEN "forall" ELSE "exists"
DualGate(t) == IF t = "and" THEN "or" ELSE "and"
GateTypeFor(c, i, q) == IF q = "forall" THEN DualGate(c.node[i].type) ELSE c.node[i].type

\* The scopes around s, innermost first: scope->prev up to the top level.
Enclosing(c, s) ==
  LET up[t \in {0} \cup Scopes(c)] == IF t = 0 THEN {} ELSE {t} \cup up[c.scope[t].prev]
  IN  up[c.scope[s].prev]

(***************************************************************************)
(* Depth and max_depth, assigned while the circuit is reencoded: depths    *)
(* count from 1 along every branch, and only scopes below a scope node     *)
(* have a max_depth (0 stands for "not set", in the prefix).               *)
(***************************************************************************)
Depth(c) == [s \in Scopes(c) |-> Cardinality(Enclosing(c, s)) + 1]

MaxDepth(c) ==
  [s \in Scopes(c) |->
     IF InPrefix(c, s) THEN 0
     ELSE Max({Depth(c)[t] : t \in {u \in Scopes(c) : u = s \/ s \in Enclosing(c, u)}})]

(***************************************************************************)
(* For every node the depths of the scopes whose variables it depends on.  *)
(* A node that depends on none counts for the top level, and so does a     *)
(* scope node directly below the top level.                                *)
(***************************************************************************)
Influences(c) ==
  LET inf[i \in Nodes(c)] ==
        LET below == UNION {inf[j] : j \in Inputs(c, i)}
            own   == CASE IsVar(c, i) -> {Depth(c)[c.node[i].scope]}
                       [] IsScopeNode(c, i) /\ c.scope[c.node[i].scope].prev = TopLevel
                            -> {Depth(c)[TopLevel]}
                       [] OTHER -> {}
        IN  IF below \cup own = {} THEN {Depth(c)[TopLevel]} ELSE below \cup own
  IN  inf

(***************************************************************************)
(* For every node the prefix scopes and the scopes of the scope nodes on   *)
(* some path from the output down to it (itself included).                 *)
(***************************************************************************)
RelevantFor(c) ==
  LET rel[i \in Nodes(c)] ==
           (IF i = c.output THEN {s \in Scopes(c) : InPrefix(c, s)} ELSE {})
      \cup (IF IsScopeNode(c, i) THEN {c.node[i].scope} ELSE {})
      \cup UNION {rel[j] : j \in {k \in i + 1 .. MaxNum(c) : i \in Inputs(c, k)}}
  IN  rel

Annotate(c) ==
  [node |-> c.node, scope |-> c.scope, output |-> c.output,
   depth |-> Depth(c), max_depth |-> MaxDepth(c),
   influences |-> Influences(c), relevant_for |-> RelevantFor(c)]

-----------------------------------------------------------------------------
(***************************************************************************)
(* Value propagation.  A value is 0 (undefined) or carries in its sign the *)
(* truth value and in its magnitude the scope_id of the scope whose        *)
(* assignment decided it, so that an inner scope's values can be forgotten *)
(* by evaluating again with a smaller bound.                               *)
(***************************************************************************)
\* InputValueUnbounded: the scope bound is not consulted.
InputValueUnbounded(value, l, max) == Signed(l, value[LitVar(l)])
InputValue(value, l, max) ==
  LET v == Signed(l, value[LitVar(l)])
  IN  IF v > max \/ -v > max THEN 0 ELSE v

\* The value of the gate from its inputs, taken in order, the first decisive one wins.
FreshGateValue(c, value, i, max) ==
  LET polarity == IF c.node[i].type = "and" THEN 1 ELSE -1
      inputs   == c.node[i].inputs
      occ      == [j \in DOMAIN inputs |-> InputValue(value, inputs[j], max)]
      seen     == IF Conflict(c, i) THEN 1 .. 1 ELSE DOMAIN inputs
      decisive == {j \in seen : polarity * occ[j] < 0}
  IN  CASE decisive # {} -> occ[Min(decisive)]
        [] decisive = {} /\ Conflict(c, i) -> -polarity * max
        [] decisive = {} /\ ~Conflict(c, i) ->
             IF 0 \in Range(occ) THEN 0 ELSE polarity * max

NodeValue(c, value, i, max) ==
  LET orig  == value[i]
      fresh == FreshGateValue(c, value, i, max)
  IN  CASE IsVar(c, i) -> orig
        [] IsScopeNode(c, i) -> value[LitVar(c.node[i].inputs[1])]
        [] c.node[i].type = "or" /\ orig > 0 /\ orig < max -> orig
        [] c.node[i].type = "and" /\ orig < 0 /\ orig > max -> orig
        [] OTHER -> IF \/ orig < 0 /\ fresh < 0 /\ fresh < orig
                       \/ orig > 0 /\ fresh > 0 /\ fresh > orig
                    THEN orig ELSE fresh

\* All nodes in their order.
Evaluated(c, value, i, max) == [value EXCEPT ![i] = NodeValue(c, value, i, max)]
EvaluateMax(c, value, max) ==
  LET upto[n \in Nat] == IF n = 0 THEN value ELSE Evaluated(c, upto[n - 1], n, max)
  IN  upto[MaxNum(c)]

=============================================================================

------------------------- MODULE CircuitAbstraction -------------------------
(***************************************************************************)
(* The propositional abstraction that the solver builds for one quantifier *)
(* scope (circuit_abstraction.c): the interface literals between the scope *)
(* and its neighbours, and the clauses of its SAT instance and of the dual *)
(* one.  A b-literal of a node promises its satisfaction to the inner      *)
(* scopes; a t-literal states what the outer scopes left to this one.      *)
(*                                                                         *)
(* The combined abstraction (options->use_combined_abstraction, the        *)
(* default, which no command line option changes) is the one modelled.     *)
(* Gates with `keep' occur only in the fixpoint solver and are left out.   *)
(***************************************************************************)
EXTENDS Circuit

BLit(i) == i
TLit(c, i) == i + MaxNum(c)
TLitToVarId(c, t) == t - MaxNum(c)

NodeIsRelevant(c, s, i) ==
  \/ InPrefix(c, s)
  \/ s \in c.relevant_for[i]
  \/ Max(c.relevant_for[i]) \in Enclosing(c, s)

\* The innermost depth that influences the node, projected to the subtree of s.
\* CurrentMaxAnywhere: without the projection.
CurrentMaxAnywhere(c, s, i) == Max(c.influences[i])
CurrentMax(c, s, i) ==
  LET max == Max(c.influences[i])
  IN  IF c.max_depth[s] # 0 /\ c.max_depth[s] < max THEN c.max_depth[s] ELSE max

RelevantInputs(c, s, g) == {i \in Inputs(c, g) : NodeIsRelevant(c, s, i)}
OnlyInner(c, s, i) == Min(c.influences[i]) > c.depth[s]

(***************************************************************************)
(* Interface literals of one gate.  Gates that this scope completes while  *)
(* their parent still depends on inner scopes are handed over one by one   *)
(* when the parent also has inner inputs, and as the parent otherwise.     *)
(***************************************************************************)
AnalyzeGate(c, s, g) ==
  LET d         == c.depth[s]
      in        == RelevantInputs(c, s, g)
      cm(i)     == CurrentMax(c, s, i)
      vars      == {i \in in : IsVar(c, i)}
      gates     == {i \in Inputs(c, g) : IsGate(c, i)}
      allGates(P(_)) == \A i \in in \ vars : IsGate(c, i) /\ P(i)
      current(i) == cm(i) <= d
      outer(i)  == cm(i) < d
      b == IF cm(g) <= d THEN {}
           ELSE (IF \E i \in vars : d \in c.influences[i] THEN {g} ELSE {})
           \cup (CASE ~\E i \in in : cm(i) = d -> {}
                   [] (\E i \in in : cm(i) = d) /\ allGates(current) -> {g}
                   [] OTHER -> {i \in gates : cm(i) = d})
      t == IF cm(g) < d THEN {}
           ELSE (IF \E i \in vars : Max(c.influences[i]) < d THEN {g} ELSE {})
           \cup (CASE ~\E i \in in : outer(i) -> {}
                   [] (\E i \in in : outer(i)) /\ allGates(outer) -> {g}
                   [] OTHER -> {i \in gates : outer(i)})
  IN  [b |-> b, t |-> t]

RelevantNodes(c, s) == {i \in Nodes(c) : NodeIsRelevant(c, s, i)}
RelevantGates(c, s) == {g \in RelevantNodes(c, s) : IsGate(c, g)}
RelevantScopeNodes(c, s) == {i \in RelevantNodes(c, s) : IsScopeNode(c, i)}

BLits(c, s) ==
       (UNION {AnalyzeGate(c, s, g).b : g \in RelevantGates(c, s)})
  \cup {BLit(i) : i \in {k \in RelevantScopeNodes(c, s) : c.scope[c.node[k].scope].prev = s}}

TLits(c, s) ==
  {TLit(c, i) : i \in (UNION {AnalyzeGate(c, s, g).t : g \in RelevantGates(c, s)})
                 \cup {k \in RelevantScopeNodes(c, s) : c.node[k].scope = s}}

-----------------------------------------------------------------------------
(***************************************************************************)
(* Clauses.  q is the scope's quantifier, or its dual for the dual         *)
(* instance; B and T are the scope's b- and t-literals.  For a universal   *)
(* player gate types are dualised and variable inputs are negated.         *)
(***************************************************************************)
TransformedInput(c, q, l) == IF IsVar(c, LitVar(l)) /\ q = "forall" THEN -l ELSE l

OwnVariable(c, s, i) == IsVar(c, i) /\ c.depth[s] \in c.influences[i]
TLitIfShared(c, T, i) == {TLit(c, i)} \cap T

\* What one input contributes to the clause of an OR gate. OrInputUnchained: an AND gate
\* that ends in this scope is not chained to its parent.
OrInputUnchained(c, s, q, T, l) ==
  LET i == LitVar(l) IN
  CASE ~NodeIsRelevant(c, s, i) \/ OnlyInner(c, s, i) -> {}
    [] OTHER ->
       CASE IsVar(c, i) -> IF OwnVariable(c, s, i) THEN {TransformedInput(c, q, l)} ELSE {}
         [] IsScopeNode(c, i) -> {-BLit(i)}
         [] IsGate(c, i) -> IF CurrentMax(c, s, i) < c.depth[s] THEN TLitIfShared(c, T, i)
                            ELSE IF GateTypeFor(c, i, q) = "or" THEN {BLit(i)} ELSE {}
OrInput(c, s, q, T, l) ==
  LET i == LitVar(l) IN
  CASE ~NodeIsRelevant(c, s, i) \/ OnlyInner(c, s, i) -> {}
    [] OTHER ->
       CASE IsVar(c, i) -> IF OwnVariable(c, s, i) THEN {TransformedInput(c, q, l)} ELSE {}
         [] IsScopeNode(c, i) -> {-BLit(i)}
         [] IsGate(c, i) ->
              IF CurrentMax(c, s, i) < c.depth[s] THEN TLitIfShared(c, T, i)
              ELSE IF GateTypeFor(c, i, q) = "or" \/ CurrentMax(c, s, i) = c.depth[s]
              THEN {BLit(i)} ELSE {}

EncodeOrGate(c, s, q, T, g) ==
  {(UNION {OrInput(c, s, q, T, l) : l \in Range(c.node[g].inputs)})
     \cup TLitIfShared(c, T, g) \cup {-BLit(g)}}

\* The literals of the (still open) clause of an OR gate that is inlined in its parent; first
\* what one input l of the gate g adds, where an OR gate for inner scopes is inlined as well.
AppendedInput(c, s, q, T, g, l, nested) ==
  LET i == LitVar(l) IN
  CASE ~NodeIsRelevant(c, s, i) -> {}
    [] NodeIsRelevant(c, s, i) /\ OnlyInner(c, s, i) -> {-BLit(g)}
    [] OTHER ->
       CASE IsVar(c, i) -> IF OwnVariable(c, s, i) THEN {TransformedInput(c, q, l)} ELSE {}
         [] IsScopeNode(c, i) -> {-BLit(i)}
         [] IsGate(c, i) ->
              CASE CurrentMax(c, s, i) < c.depth[s] -> TLitIfShared(c, T, i)
                [] CurrentMax(c, s, i) = c.depth[s] -> {BLit(i)}
                [] OTHER -> IF GateTypeFor(c, i, q) = "or" THEN nested ELSE {BLit(i)}

AppendOrGate(c, s, q, B, T, gate) ==
  LET open[g \in Nodes(c)] ==
        IF OnlyInner(c, s, g) THEN {-BLit(g)}
        ELSE (UNION {AppendedInput(c, s, q, T, g, l, open[LitVar(l)]) : l \in Range(c.node[g].inputs)})
             \cup TLitIfShared(c, T, g)
             \cup (IF BLit(g) \in B THEN {-BLit(g)} ELSE {})
  IN  open[gate]

\* The consequents of an AND gate's b-literal that one input contributes.
AndInput(c, s, q, B, T, l) ==
  LET i == LitVar(l) IN
  CASE ~NodeIsRelevant(c, s, i) \/ OnlyInner(c, s, i) -> {}
    [] OTHER ->
       CASE IsVar(c, i) -> IF OwnVariable(c, s, i) THEN {{TransformedInput(c, q, l)}} ELSE {}
         [] IsScopeNode(c, i) -> {{-BLit(i)}}
         [] IsGate(c, i) ->
              CASE CurrentMax(c, s, i) < c.depth[s] -> {{t} : t \in TLitIfShared(c, T, i)}
                [] /\ CurrentMax(c, s, i) > c.depth[s]
                   /\ GateTypeFor(c, i, q) = "or" -> {AppendOrGate(c, s, q, B, T, i)}
                [] OTHER -> {{BLit(i)}}

EncodeAndGate(c, s, q, B, T, g) ==
  {{-BLit(g)} \cup then :
     then \in (UNION {AndInput(c, s, q, B, T, l) : l \in Range(c.node[g].inputs)})
              \cup {{t} : t \in TLitIfShared(c, T, g)}}

EncodeGate(c, s, q, B, T, g) ==
  CASE OnlyInner(c, s, g) \/ CurrentMax(c, s, g) < c.depth[s] -> {}
    [] OTHER -> IF GateTypeFor(c, g, q) = "and" THEN EncodeAndGate(c, s, q, B, T, g)
                ELSE EncodeOrGate(c, s, q, T, g)

\* A scope node's b-literal is set when its subformula is NOT handed to the inner scope.
EncodeNodeScope(c, s, q, B, T, i) ==
  LET sub == LitVar(c.node[i].inputs[1]) IN
  CASE IsScopeNode(c, sub) -> {{BLit(i), -BLit(sub)}}
    [] IsGate(c, sub) /\ GateTypeFor(c, sub, q) = "and" -> {{BLit(i), BLit(sub)}}
    [] OTHER -> {{BLit(i)} \cup AppendOrGate(c, s, q, B, T, sub)}

FixOutputValue(c, s, q, B, T) ==
  IF GateTypeFor(c, c.output, q) = "and" THEN {{BLit(c.output)}}
  ELSE {AppendOrGate(c, s, q, B, T, c.output)}

BuildSatInstance(c, s, q, B, T) ==
       (UNION {EncodeNodeScope(c, s, q, B, T, i) : i \in RelevantScopeNodes(c, s)})
  \cup (UNION {EncodeGate(c, s, q, B, T, g) : g \in RelevantGates(c, s)})
  \cup FixOutputValue(c, s, q, B, T)

=============================================================================

---------------------------- MODULE QbfSemantics ----------------------------
(***************************************************************************)
(* The reference: what the formula that a circuit stands for means,        *)
(* defined without the solver's abstractions.  An assignment is a          *)
(* consistent set of literals over variable nodes.                         *)
(***************************************************************************)
EXTENDS Circuit

\* All assignments of a set of variables.
Assignments(V) == {{IF v \in T THEN v ELSE -v : v \in V} : T \in SUBSET V}
Literals(c) == UNION {{i, -i} : i \in Nodes(c)}

\* Truth of a node under an assignment of the variables that are free in it.
NodeHolds(c, node, assignment) ==
  LET holds[i \in Nodes(c)] ==
        [a \in SUBSET Literals(c) |->
           LET lit(l) == IF l < 0 THEN ~holds[-l][a] ELSE holds[l][a]
               in     == Range(c.node[i].inputs)
               own    == c.node[i].scope
           IN  CASE IsVar(c, i) -> i \in a
                 [] c.node[i].type = "and" -> \A l \in in : lit(l)
                 [] c.node[i].type = "or" -> \E l \in in : lit(l)
                 [] IsScopeNode(c, i) /\ c.scope[own].qtype = "exists" ->
                      \E l \in in, x \in Assignments(ScopeVars(c, own)) : holds[LitVar(l)][a \cup x]
                 [] IsScopeNode(c, i) /\ c.scope[own].qtype = "forall" ->
                      \A l \in in, x \in Assignments(ScopeVars(c, own)) : holds[LitVar(l)][a \cup x]]
  IN  holds[node][assignment]

\* Truth of the prefix from scope s on, under an assignment of the scopes around it.
PrefixHolds(c, scope, assignment) ==
  LET holds[s \in Scopes(c)] ==
        [a \in SUBSET Literals(c) |->
           LET inner == {t \in Children(c, s) : InPrefix(c, t)}
               rest(b) == IF inner = {} THEN NodeHolds(c, c.output, b)
                          ELSE \A t \in inner : holds[t][b]
           IN  IF c.scope[s].qtype = "exists"
               THEN \E x \in Assignments(ScopeVars(c, s)) : rest(a \cup x)
               ELSE \A x \in Assignments(ScopeVars(c, s)) : rest(a \cup x)]
  IN  holds[scope][assignment]

QbfTruth(c) == PrefixHolds(c, TopLevel, {})

\* The circuit with some variables replaced by constants (the empty AND and OR).
Fixed(c, assignment) ==
  LET constant(type) == [type |-> type, scope |-> 0, inputs |-> <<>>]
  IN  [c EXCEPT !.node = [i \in Nodes(c) |-> CASE i \in assignment -> constant("and")
                                              [] -i \in assignment -> constant("or")
                                              [] OTHER -> c.node[i]]]

\* Truth of what scope s is responsible for: its suffix of the prefix, or its scope node.
ScopeHolds(c, s, a) ==
  IF InPrefix(c, s) THEN PrefixHolds(c, s, a) ELSE NodeHolds(c, c.scope[s].node, a)

\* 1, -1 or 0: the value of a node that a partial assignment already decides, if any.
DecidedValue(c, node, a) ==
  LET val[i \in Nodes(c)] ==
        LET in == {Signed(l, val[LitVar(l)]) : l \in Range(c.node[i].inputs)}
        IN  CASE IsVar(c, i) -> IF i \in a THEN 1 ELSE IF -i \in a THEN -1 ELSE 0
              [] c.node[i].type = "and" -> IF -1 \in in \/ Conflict(c, i) THEN -1 ELSE IF 0 \in in THEN 0 ELSE 1
              [] c.node[i].type = "or" -> IF 1 \in in \/ Conflict(c, i) THEN 1 ELSE IF 0 \in in THEN 0 ELSE -1
              [] IsScopeNode(c, i) -> Min(in)   \* in has one element
  IN  val[node]

(***************************************************************************)
(* Well-formedness of an encoded circuit (circuit_reencode's promises,     *)
(* circuit_check): topological numbering, negations only at variables, an  *)
(* output gate, a top-level existential scope, strict alternation, no      *)
(* other empty scope, scope nodes used once and variables used below the   *)
(* node of the scope that binds them.                                      *)
(***************************************************************************)
CircuitType(c) ==
  /\ c.node \in Seq([type : {"var", "and", "or", "scope"}, scope : {0} \cup Scopes(c),
                      inputs : Seq(Int)])
  /\ c.scope \in Seq([qtype : {"exists", "forall"}, prev : {0} \cup Scopes(c),
                       node : {0} \cup Nodes(c), next : Seq(Scopes(c))])
  /\ c.output \in Nodes(c)

NodesInOrder(c) ==
  \A i \in Nodes(c) : \A l \in Range(c.node[i].inputs) :
    LitVar(l) \in 1 .. i - 1 /\ (l < 0 => IsVar(c, LitVar(l)))

\* The scopes are a tree, numbered from the top level, and know their place in it.
ScopeTree(c) ==
  /\ TopLevel \in Scopes(c) /\ c.scope[TopLevel].prev = 0
  /\ \A s \in Scopes(c) \ {TopLevel} :
       c.scope[s].prev \in 1 .. s - 1 /\ s \in Children(c, c.scope[s].prev)
  /\ \A s \in Scopes(c) : \A i, j \in DOMAIN c.scope[s].next :
       /\ c.scope[c.scope[s].next[i]].prev = s
       /\ c.scope[s].next[i] = c.scope[s].next[j] => i = j

WellFormed(c) ==
  LET below[i \in Nodes(c)] == {i} \cup UNION {below[j] : j \in Inputs(c, i)}
  IN  /\ CircuitType(c) /\ NodesInOrder(c) /\ ScopeTree(c)
      /\ \A i \in Nodes(c) :
           /\ IsVar(c, i) => c.node[i].inputs = <<>> /\ c.node[i].scope \in Scopes(c)
           /\ IsScopeNode(c, i) =>
                /\ Len(c.node[i].inputs) = 1 /\ ~IsVar(c, LitVar(c.node[i].inputs[1]))
                /\ c.node[i].scope \in Scopes(c) /\ c.scope[c.node[i].scope].node = i
                /\ Cardinality({k \in Nodes(c) : i \in Inputs(c, k)}) = 1
      /\ IsGate(c, c.output) /\ below[c.output] = Nodes(c)
      /\ c.scope[TopLevel].qtype = "exists"
      /\ \A s \in Scopes(c) \ {TopLevel} :
           /\ ScopeVars(c, s) # {}
           /\ c.scope[s].qtype = Dual(c.scope[c.scope[s].prev].qtype)
           /\ InPrefix(c, s) =>
                c.scope[c.scope[s].prev].next = <<s>> /\ InPrefix(c, c.scope[s].prev)
           /\ ~InPrefix(c, s) =>
                \A v \in ScopeVars(c, s), k \in Nodes(c) :
                  v \in Inputs(c, k) => k \in below[c.scope[s].node]
=============================================================================

--------------------------- MODULE CircuitEncoding ---------------------------
(***************************************************************************)
(* circuit_reencode: negation normal form, topological numbering, the tree *)
(* of scopes with its ids and depths, removal of what is unreachable, and  *)
(* strict quantifier alternation; circuit_check, which asserts the result. *)
(***************************************************************************)
EXTENDS CircuitGraph

-----------------------------------------------------------------------------
(* circuit_check.c.  Each operator is one group of assertions. *)

circuit_check_all_nodes_defined(g) ==
  \A i \in NodeIds(g) : IsGate(g, i) \/ IsScopeNode(g, i) =>
    \A j \in InputSet(g, i) : Exists(g, j)

circuit_check_nodes(g) ==
  \A i \in NodeIds(g) :
    /\ IsScopeNode(g, i) => g.node[i].in # <<>>
    /\ g.phase = "encoded" =>
         /\ \A j \in InputSet(g, i) : j < i
         /\ IsGate(g, i) /\ i = LitVar(g.output) => g.node[i].occ = 0

Uses(g, i) ==
  FoldFunction(LAMBDA n, count : count + Len(SelectSeq(n.in, LAMBDA l : LitVar(l) = i)),
               0, g.node)
check_occurrences(g) == \A i \in NodeIds(g) : Exists(g, i) => g.node[i].occ = Uses(g, i)

check_values(g) == \A i \in NodeIds(g) : i = LitVar(g.output) \/ g.node[i].val = 0

\* The scopes in the tree below the top level (the unlinked ones are not seen).
RECURSIVE ScopesBelow(_, _)
ScopesBelow(g, s) == {s} \cup UNION {ScopesBelow(g, t) : t \in Range(g.scope[s].next)}
LinkedScopes(g) == ScopesBelow(g, TopLevel)

check_scopes(g) ==
  /\ g.scope[TopLevel].prev = 0
  /\ \A s \in LinkedScopes(g) :
       /\ \A t \in Range(g.scope[s].next) : g.scope[t].prev = s
       /\ g.scope[s].node = 0 => g.scope[s].depth = g.scope[s].id
       /\ s # TopLevel => g.scope[s].vars # <<>>
       /\ s # TopLevel /\ g.scope[s].node # 0 =>
            IsScopeNode(g, g.scope[s].node) /\ g.node[g.scope[s].node].ref = s

check_variables(g) ==
  \A i \in NodeIds(g) : IsVar(g, i) =>
    g.node[i].ref \in Range(g.scope[g.var[g.node[i].ref].scope].vars)

check_quantifiers_are_consecutive(g) ==
  g.phase = "encoded" =>
    \A s \in LinkedScopes(g) : \A t \in Range(g.scope[s].next) :
      g.scope[s].qtype # g.scope[t].qtype

circuit_check(g) ==
  IF g.failed # {} THEN g
  ELSE LET tests == [nodes_defined |-> circuit_check_all_nodes_defined(g),
                     nodes         |-> circuit_check_nodes(g),
                     occurrences   |-> check_occurrences(g),
                     values        |-> check_values(g),
                     scopes        |-> check_scopes(g),
                     variables     |-> check_variables(g),
                     alternation   |-> check_quantifiers_are_consecutive(g)]
       IN  [g EXCEPT !.failed = {t \in DOMAIN tests : ~tests[t]}]

is_nnf(g) ==
  Require(g, \A i \in NodeIds(g) : \A l \in Range(g.node[i].in) : l > 0 \/ IsVar(g, LitVar(l)),
          "is_nnf")

-----------------------------------------------------------------------------
(* Negation normal form.  A negated gate is appended as its dual, once. *)

copy_and_negate(g, i) ==
  LET new == MaxNum(g) + 1
  IN  [AddAll(circuit_add_gate(g, new, DualGate(g.node[i].type)), new,
              [k \in DOMAIN g.node[i].in |-> -g.node[i].in[k]])
       EXCEPT !.node[new].neg = i, !.node[i].neg = new]

\* Only gates can be negated: the code takes whatever node it finds for a gate.
Negated(g, i) ==
  IF ~IsGate(g, i) THEN Require(g, FALSE, "negated node is no gate")
  ELSE IF g.node[i].neg # 0 THEN g ELSE copy_and_negate(g, i)

UseNegation(g, i, j, l) == [g EXCEPT !.node[i].in[j] = g.node[LitVar(l)].neg]
NegateInput(g, i, j) ==
  LET l == g.node[i].in[j]
  IN  IF l > 0 \/ IsVar(g, LitVar(l)) THEN g ELSE UseNegation(Negated(g, LitVar(l)), i, j, l)
NegateInputs(g, i) ==
  IF IsGate(g, i)
  THEN FoldLeft(LAMBDA h, j : NegateInput(h, i, j), g, [j \in DOMAIN g.node[i].in |-> j])
  ELSE g

\* The loop also reaches the copies it appends.
RECURSIVE NnfFrom(_, _)
NnfFrom(g, i) ==
  IF g.failed # {} \/ i > MaxNum(g) THEN g ELSE NnfFrom(NegateInputs(g, i), i + 1)

UseNegatedOutput(g, i) == [g EXCEPT !.output = g.node[i].neg]
NegatedOutput(g) == UseNegatedOutput(Negated(g, LitVar(g.output)), LitVar(g.output))
circuit_to_nnf(g) ==
  IF g.failed # {} THEN g ELSE NnfFrom(IF g.output > 0 THEN g ELSE NegatedOutput(g), 1)

-----------------------------------------------------------------------------
(* The quantifier prefix. *)

\* Empty scopes go, the innermost first; a removed scope leaves its children in its place.
RECURSIVE RemoveEmptyFrom(_, _, _)
RemoveIfUnused(g, s, k, next) ==
  IF g.failed # {} \/ g.scope[next].vars # <<>> THEN RemoveEmptyFrom(g, s, k + 1)
  ELSE RemoveEmptyFrom(remove_scope(g, next), s, k)
RemoveEmptyFrom(g, s, k) ==
  IF g.failed # {} \/ k > Len(g.scope[s].next) THEN g
  ELSE RemoveIfUnused(RemoveEmptyFrom(g, g.scope[s].next[k], 1), s, k, g.scope[s].next[k])
remove_empty_scopes(g) == RemoveEmptyFrom(g, TopLevel, 1)

HasNextInPrefix(g, s) == g.scope[s].next # <<>> /\ g.scope[g.scope[s].next[1]].node = 0

\* The prefix, from the top level on.
RECURSIVE PrefixFrom(_, _)
PrefixFrom(g, s) ==
  <<s>> \o (IF HasNextInPrefix(g, s) THEN PrefixFrom(g, g.scope[s].next[1]) ELSE <<>>)
Prefix(g) == PrefixFrom(g, TopLevel)

\* Quantified subformulas at the output belong to the prefix.
RECURSIVE PullOutputScope(_, _)
PullOutputScope(g, last) ==
  IF ~IsScopeNode(g, g.output) THEN g
  ELSE LET n == g.node[g.output]
           p == Require(g, g.scope[n.ref].prev = 0 /\ n.in[1] > 0, "output scope")
       IN  PullOutputScope([free_scope_node(link_scope(p, last, n.ref), g.output) EXCEPT
                              !.scope[n.ref].node = 0, !.output = n.in[1]], n.ref)
remove_unnecessary_quantifier_scopes(g) ==
  IF g.failed # {} THEN g ELSE PullOutputScope(is_nnf(g), LastOf(Prefix(g)))

\* Ids and depths in the prefix count from 1.
NumberPrefix(g) ==
  LET p == Prefix(g)
  IN  [g EXCEPT !.scope = Tuple([s \in DOMAIN @ |->
                   IF s \in Range(p)
                   THEN [@[s] EXCEPT !.id = CHOOSE k \in DOMAIN p : p[k] = s,
                                     !.depth = CHOOSE k \in DOMAIN p : p[k] = s]
                   ELSE @[s]]),
                !.id = Len(p) + 1, !.depth = Len(p) + 1, !.last = LastOf(p)]

-----------------------------------------------------------------------------
(* The depth-first search over [g, ids, next]: ids maps a node's old id to *)
(* its new one, 0 if it has not been reached; a node that the search is in *)
(* has the id Marked.                                                      *)

Marked == -1
Numbered(t, i) ==
  [g |-> IF IsVar(t.g, i) THEN [t.g EXCEPT !.var[t.g.node[i].ref].id = t.next] ELSE t.g,
   ids |-> [t.ids EXCEPT ![i] = t.next], next |-> t.next + 1]

RECURSIVE topological_sort_dfs(_, _)

\* Visit the j-th input of node i and write its new literal; the first encoding counts uses.
CountUse(g, i) == IF g.phase = "building" THEN ChangeOcc(g, i, 1) ELSE g
Rewritten(t, i, j, l) ==
  [t EXCEPT !.g = CountUse([@ EXCEPT !.node[i].in[j] = WithSign(t.ids[LitVar(l)], l)], LitVar(l))]
process_occurrence(t, i, j) ==
  LET l == t.g.node[i].in[j]
      p == Require(t.g, l > 0 \/ IsVar(t.g, LitVar(l)), "negated gate")
  IN  Rewritten(topological_sort_dfs([t EXCEPT !.g = p], LitVar(l)), i, j, l)

\* The scope of a scope node is hung below the scope that the search is in, for the time of
\* the visit of its subformula.
\* EnterScopeAtTop: it is hung below the prefix.
EnterScopeAtTop(t, s) ==
  [t EXCEPT !.g = [link_scope(@, LastOf(Prefix(@)), s) EXCEPT
                     !.last = s, !.scope[s].id = t.g.id, !.scope[s].depth = t.g.depth,
                     !.id = @ + 1, !.depth = @ + 1]]
EnterScope(t, s) ==
  [t EXCEPT !.g = [link_scope(@, @.last, s) EXCEPT
                     !.last = s, !.scope[s].id = t.g.id, !.scope[s].depth = t.g.depth,
                     !.id = @ + 1, !.depth = @ + 1]]
LeaveScope(t, i, s, last) ==
  [t EXCEPT !.g = [@ EXCEPT !.scope[s].node = t.ids[i], !.last = last, !.depth = @ - 1]]

topological_sort_dfs(t, i) ==
  LET marked == [t EXCEPT !.ids[i] = Marked]
      s      == t.g.node[i].ref
  IN  IF t.g.failed # {} THEN t
      ELSE IF ~Exists(t.g, i) THEN [t EXCEPT !.g = Require(@, FALSE, "undefined node")]
      ELSE CASE t.ids[i] = Marked -> [t EXCEPT !.g = Require(@, FALSE, "circuit is cyclic")]
             [] t.ids[i] > 0 -> t
             [] t.ids[i] = 0 /\ IsVar(t.g, i) -> Numbered(t, i)
             [] t.ids[i] = 0 /\ IsGate(t.g, i) ->
                  Numbered(FoldLeft(LAMBDA u, j : process_occurrence(u, i, j), marked,
                                    [j \in DOMAIN t.g.node[i].in |-> j]), i)
             [] OTHER -> LeaveScope(Numbered(process_occurrence(EnterScope(marked, s), i, 1), i),
                                    i, s, t.g.last)

\* From the highest id down: what the search has not reached is removed.
RemoveNode(g, i) ==
  CASE IsVar(g, i) -> remove_var(g, i)
    [] IsGate(g, i) -> remove_gate(g, i)
    [] OTHER -> Require(g, FALSE, "unreachable scope node")
RemoveUnreachable(t) ==
  [t EXCEPT !.g = FoldRight(LAMBDA i, h : IF h.failed # {} \/ ~Exists(h, i) \/ t.ids[i] # 0
                                          THEN h ELSE RemoveNode(h, i),
                            [i \in NodeIds(t.g) |-> i], t.g)]

\* The nodes in the order of their new ids (those that are gone come last and are cut off).
Renumbered(t) ==
  LET g == t.g
      old(k) == CHOOSE i \in NodeIds(g) : t.ids[i] = k
  IN  IF g.failed # {} THEN g
      ELSE [g EXCEPT !.node = Tuple([k \in 1 .. t.ids[g.output] |-> g.node[old(k)]]),
                     !.output = t.ids[g.output], !.phase = "encoded"]

\* Merge every child that has its parent's quantifier into the parent, bottom up.
RECURSIVE NormalizeFrom(_, _, _)
MergeIfSame(g, s, k, child) ==
  IF g.failed # {} \/ g.scope[s].qtype # g.scope[child].qtype THEN NormalizeFrom(g, s, k + 1)
  ELSE NormalizeFrom(merge_scopes(g, child, s), s, k)
NormalizeFrom(g, s, k) ==
  IF g.failed # {} \/ k > Len(g.scope[s].next) THEN g
  ELSE MergeIfSame(NormalizeFrom(g, g.scope[s].next[k], 1), s, k, g.scope[s].next[k])
circuit_normalize_quantifier(g) == NormalizeFrom(g, TopLevel, 1)

Sorted(g) ==
  IF g.failed # {} THEN [g |-> g]
  ELSE topological_sort_dfs([g |-> g, ids |-> [i \in NodeIds(g) |-> 0], next |-> 1], g.output)
Encoded(g) ==
  LET defined == Require(g, circuit_check_all_nodes_defined(g), "there were undefined gates")
  IN  Renumbered(RemoveUnreachable(Sorted(NumberPrefix(remove_unnecessary_quantifier_scopes(
        remove_empty_scopes(circuit_to_nnf(defined)))))))
circuit_reencode(g) == is_nnf(circuit_check(circuit_normalize_quantifier(Encoded(g))))
-----------------------------------------------------------------------------
(* The circuit as the record of module Circuit, with its scopes in the     *)
(* order of their ids, those of unencoded subformulas last; a variable     *)
(* whose value is decided is a constant.                                   *)

CircuitOf(c) ==
  LET subformulas == {c.node[i].ref : i \in {j \in NodeIds(c) : IsScopeNode(c, j)}}
      before(s, t) == IF (c.scope[s].id = 0) = (c.scope[t].id = 0)
                      THEN c.scope[s].id < c.scope[t].id \/ (c.scope[s].id = c.scope[t].id /\ s < t)
                      ELSE c.scope[s].id # 0
      scopes  == SetToSortSeq(LinkedScopes(c) \cup subformulas, before)
      rank(s) == IF s \in Range(scopes) THEN CHOOSE k \in DOMAIN scopes : scopes[k] = s ELSE 0
      node(i) ==
        LET n == c.node[i]
        IN  CASE n.type = "var" /\ n.val = 0 ->
                   [type |-> "var", scope |-> rank(c.var[n.ref].scope), inputs |-> <<>>]
              [] n.type = "scope" -> [type |-> "scope", scope |-> rank(n.ref), inputs |-> n.in]
              [] n.type \in {"and", "or"} -> [type |-> n.type, scope |-> 0, inputs |-> n.in]
              [] OTHER -> [type |-> IF n.val > 0 THEN "and" ELSE "or", scope |-> 0, inputs |-> <<>>]
      scope(s) == [qtype |-> c.scope[s].qtype, prev |-> rank(c.scope[s].prev),
                   node |-> c.scope[s].node,
                   next |-> [k \in DOMAIN c.scope[s].next |-> rank(c.scope[s].next[k])]]
  IN  [node   |-> [i \in NodeIds(c) |-> node(i)],
       scope  |-> [k \in DOMAIN scopes |-> scope(scopes[k])],
       output |-> LitVar(c.output), negated |-> c.output < 0]
=============================================================================

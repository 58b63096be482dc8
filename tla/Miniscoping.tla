----------------------------- MODULE Miniscoping -----------------------------
(***************************************************************************)
(* circuit_unprenex_by_miniscoping: from the innermost scope outwards, a   *)
(* quantifier is pushed below the gate that it stands in front of.  Over   *)
(* the connective it distributes over, every input gets a scope of its own *)
(* with copies of the variables it needs (split); over the other one, the  *)
(* inputs are grouped by the variables they share (partition).  m is       *)
(* [g, parent]: parent is the union-find forest `partitions' over the      *)
(* variables, which all scopes share.                                      *)
(***************************************************************************)
EXTENDS CircuitEncoding

\* The variables that reach a node (circuit_compute_variable_influence).
Influence(g) ==
  LET inf[i \in NodeIds(g)] ==
        IF IsVar(g, i) THEN {g.node[i].ref} ELSE UNION {inf[j] : j \in InputSet(g, i)}
  IN  inf

circuit_compute_variable_influence(g) ==
  [g EXCEPT !.node = Tuple([i \in DOMAIN @ |-> [@[i] EXCEPT !.owner = 0]])]

copy_gate(g, i) ==
  AddAll(circuit_add_gate(g, MaxNum(g) + 1, g.node[i].type), MaxNum(g) + 1, g.node[i].in)

-----------------------------------------------------------------------------
(* Replacing variables below a node.  t is [g, map, lit]: map takes old to *)
(* new node ids (0: not replaced) and lit is the literal that stands for   *)
(* the subtree afterwards.                                                 *)

\* A shared gate is copied for this scope node before its first input changes.
CopyOnWrite(t, i, snode) ==
  LET new == MaxNum(t.g) + 1
      p   == Require(t.g, t.g.node[i].owner = 0, "gate owned by another scope")
  IN  [t EXCEPT !.g = [copy_gate(p, i) EXCEPT !.node[new].owner = snode],
                !.map = [k \in 1 .. new |-> IF k = i THEN new
                                            ELSE IF k \in DOMAIN @ THEN @[k] ELSE 0]]

Mapped(t, i) == IF i \in DOMAIN t.map THEN t.map[i] ELSE 0

RECURSIVE replace_variables_in_subtree(_, _, _)

\* The new literal becomes input j, of the gate i itself or of the copy that replaces it.
ChangeInput(t, i, j, old) ==
  [t EXCEPT !.g = ChangeOcc(ChangeOcc([@ EXCEPT !.node[i].in[j] = t.lit], LitVar(t.lit), 1),
                            LitVar(old), -1), !.lit = i]
ChangeCopy(t, i, j) ==
  LET kept == RemoveAt(t.g.node[i].in, j)
  IN  [t EXCEPT !.g = FoldLeft(LAMBDA h, l : ChangeOcc(h, LitVar(l), 1),
                               [@ EXCEPT !.node[i].in[j] = t.lit], Append(kept, t.lit)),
                !.lit = i]
\* ReplaceByInPlace: shared gates are not copied.
ReplaceByInPlace(t, i, j, old, lit, snode, shared) ==
  IF t.g.failed # {} \/ t.lit = old THEN [t EXCEPT !.lit = lit] ELSE ChangeInput(t, i, j, old)
ReplaceBy(t, i, j, old, lit, snode, shared) ==
  CASE t.g.failed # {} \/ t.lit = old -> [t EXCEPT !.lit = lit]
    [] t.g.failed = {} /\ t.lit # old ->
         IF shared /\ t.g.node[i].owner # snode
         THEN ChangeCopy(CopyOnWrite(t, i, snode), MaxNum(t.g) + 1, j)
         ELSE ChangeInput(t, i, j, old)

ReplaceInput(t, j, snode, shared) ==
  LET i   == LitVar(t.lit)
      old == t.g.node[i].in[j]
      to  == Mapped(t, LitVar(old))
      u   == IF to # 0 THEN [t EXCEPT !.lit = WithSign(to, old)]
             ELSE replace_variables_in_subtree([t EXCEPT !.lit = old], snode, shared)
  IN  IF t.g.failed # {} THEN t ELSE ReplaceBy(u, i, j, old, t.lit, snode, shared)

\* Below a scope node only inputs of gates may be replaced.
SameInput(t, lit, sub, shared) ==
  [t EXCEPT !.g = Require(@, ~shared /\ t.lit = sub, "shared scope node"), !.lit = lit]
replace_variables_in_subtree(t, snode, shared) ==
  LET i == LitVar(t.lit)
      n == t.g.node[i]
  IN  CASE n.type = "var" ->
             [t EXCEPT !.g = Require(@, Mapped(t, i) = 0, "!map_contains(variable_mapping)")]
        [] n.type = "scope" ->
             SameInput(replace_variables_in_subtree([t EXCEPT !.lit = n.in[1]], snode, shared),
                       t.lit, n.in[1], shared)
        [] OTHER ->
             FoldLeft(LAMBDA w, j : ReplaceInput(w, j, snode, shared \/ n.occ > 1),
                      [t EXCEPT !.lit = i], [j \in DOMAIN n.in |-> j])

-----------------------------------------------------------------------------
(* Split: the quantifier distributes over the gate. *)

\* A copy of each of the variables for the scope s; map takes the old nodes to the new ones.
CopyVars(g, s, vars) ==
  FoldLeft(LAMBDA t, v : [g |-> circuit_new_var(t.g, s, MaxNum(t.g) + 1),
                          map |-> [t.map EXCEPT ![g.var[v].id] = MaxNum(t.g) + 1]],
           [g |-> g, map |-> [i \in NodeIds(g) |-> 0]], vars)

EndSplit(t, snode, l) ==
  [(IF t.lit = l THEN t.g ELSE ChangeOcc(ChangeOcc(t.g, LitVar(t.lit), 1), LitVar(l), -1)) EXCEPT
     !.node[snode].in = <<t.lit>>, !.node[snode].occ = 1]
WithCopies(t, node, j, snode, l) ==
  EndSplit(replace_variables_in_subtree(
             [g |-> [t.g EXCEPT !.node[node].in[j] = snode], map |-> t.map, lit |-> l],
             snode, FALSE), snode, l)
SplitInput(g, s, node, inf, j) ==
  LET l     == g.node[node].in[j]
      snode == MaxNum(g) + 1
      fresh == circuit_new_scope_node(g, g.scope[s].qtype, snode)
      vars  == SelectSeq(g.scope[s].vars, LAMBDA v : v \in inf[LitVar(l)])
  IN  CASE g.failed # {} -> g
        [] g.failed = {} /\ vars = <<>> -> free_scope_node(fresh, snode)
        [] OTHER -> WithCopies(CopyVars(fresh, Len(fresh.scope), vars), node, j, snode, l)

\* A gate without uses goes, and its inputs with it when they have no other use.
RECURSIVE remove_gates_recursive(_, _)
remove_gates_recursive(g, i) ==
  LET drop(h, l) ==
        LET j == LitVar(l)
            k == ChangeOcc(Require(h, ~IsScopeNode(h, j), "scope node below removed gate"), j, -1)
        IN  IF Exists(h, j) /\ IsGate(h, j) THEN remove_gates_recursive(k, j)
            ELSE IF Exists(h, j) THEN k ELSE h
  IN  CASE ~IsGate(g, i) -> Require(g, FALSE, "unused node is no gate")
        [] IsGate(g, i) /\ g.node[i].occ > 0 -> g
        [] OTHER -> FoldLeft(drop, [g EXCEPT !.node[i] = NoNode], g.node[i].in)

RemoveUnused(g) ==
  IF g.failed # {} THEN g
  ELSE FoldLeft(LAMBDA h, i : IF Exists(h, i) /\ h.node[i].occ = 0 /\ i # LitVar(h.output)
                              THEN remove_gates_recursive(h, i) ELSE h,
                g, [i \in NodeIds(g) |-> i])

EndSplitScope(g, s) ==
  FoldLeft(LAMBDA h, v : IF h.failed = {} THEN remove_var(h, h.var[v].id) ELSE h,
           Require(g, g.scope[s].next = <<>>, "scope->num_next == 0"), g.scope[s].vars)
Split(g, s, node) ==
  LET inf == Influence(g)
  IN  RemoveUnused(EndSplitScope(
        FoldLeft(LAMBDA h, j : SplitInput(h, s, node, inf, j), g,
                 [j \in DOMAIN g.node[node].in |-> j]), s))

-----------------------------------------------------------------------------
(* Partition: inputs that share a variable of the scope stay together. *)

Root(parent, v) == LET up[u \in DOMAIN parent] == IF parent[u] = u THEN u ELSE up[parent[u]]
                   IN  up[v]
Union(parent, v, w) ==
  LET a == Root(parent, v)
      b == Root(parent, w)
  IN  [parent EXCEPT ![Max({a, b})] = Min({a, b})]

\* The variables of one input are connected, unless their scope is further out.
ConnectInput(g, s, parent, vars) ==
  LET inner == {v \in vars : g.scope[g.var[v].scope].id >= g.scope[s].id}
  IN  IF inner = {} THEN parent
      ELSE FoldSet(LAMBDA v, p : Union(p, Min(inner), v), parent, inner)
ConnectInputs(g, s, node, inf, parent) ==
  FoldLeft(LAMBDA p, l : ConnectInput(g, s, p, inf[LitVar(l)]), parent, g.node[node].in)

\* One scope per group, in the order of the groups' smallest variables.
Pivots(g, s, parent) ==
  SelectSeq([v \in DOMAIN g.var |-> v],
            LAMBDA v : ~g.var[v].removed /\ g.var[v].scope = s /\ Root(parent, v) = v)
Group(g, s, parent, pivot) ==
  SelectSeq([v \in DOMAIN g.var |-> v],
            LAMBDA v : ~g.var[v].removed /\ g.var[v].scope = s /\ Root(parent, v) = pivot)

move_variable(g, v, from, to) ==
  [g EXCEPT !.scope[from].vars = SelectSeq(@, LAMBDA u : u # v),
            !.scope[to].vars = Append(@, v), !.var[v].scope = to]

AddGroup(g, s, vars) ==
  LET h == circuit_new_scope_node(g, g.scope[s].qtype, MaxNum(g) + 1)
  IN  FoldLeft(LAMBDA k, v : link_scope(move_variable(k, v, s, Len(h.scope)), s, Len(h.scope)),
               h, vars)

\* Below the new scope node: the one input that the group reaches, or a new gate over them.
WithGroupGate(g, node, new, inputs) ==
  IF Len(inputs) = 1 THEN g
  ELSE [AddAll(circuit_add_gate(g, new, g.node[node].type), new, inputs) EXCEPT !.node[new].occ = 1]
ConnectGroup(g, node, snode, inputs) ==
  LET new     == MaxNum(g) + 1
      without == FoldLeft(LAMBDA h, l : remove_input_from_gate(h, node, l),
                          WithGroupGate(g, node, new, inputs), inputs)
  IN  IF inputs = <<>> THEN Require(g, FALSE, "group without inputs")
      ELSE [circuit_add_to_gate(without, node, snode) EXCEPT
              !.node[snode].in = IF Len(inputs) = 1 THEN inputs ELSE <<new>>,
              !.node[snode].occ = 1]

\* The scopes of the groups were linked for the time being; then the old scope goes.
EndPartition(g, s) ==
  IF g.failed # {} \/ s = TopLevel THEN g ELSE remove_scope(g, s)
UnlinkAll(g, s) == FoldLeft(LAMBDA h, n : unlink_scope(h, s, n), g, g.scope[s].next)
GroupInputs(g, s, node, inf, parent, pivots) ==
  LET reached(k) == SelectSeq(g.node[node].in, LAMBDA l :
                      \E v \in Range(Group(g, s, parent, pivots[k])) : v \in inf[LitVar(l)])
      scoped == FoldLeft(LAMBDA h, p : AddGroup(h, s, Group(g, s, parent, p)), g, pivots)
  IN  FoldLeft(LAMBDA h, k : IF h.failed # {} THEN h
                             ELSE ConnectGroup(h, node, MaxNum(g) + k, reached(k)),
               scoped, [k \in DOMAIN pivots |-> k])
Partition(m, s, node, inf) ==
  [m EXCEPT !.g = EndPartition(UnlinkAll(
     GroupInputs(@, s, node, inf, m.parent, Pivots(@, s, m.parent)), s), s)]

-----------------------------------------------------------------------------
Distributes(g, s, node) == (g.node[node].type = "and") = (g.scope[s].qtype = "forall")

\* A shared gate is left alone.
ApplyTo(m, s, node, inf) ==
  IF Distributes(m.g, s, node) THEN [m EXCEPT !.g = Split(@, s, node)]
  ELSE Partition([m EXCEPT !.parent = ConnectInputs(m.g, s, node, inf, @)], s, node, inf)
apply_miniscoping(m, s, node) ==
  LET n == [m EXCEPT !.g = circuit_compute_variable_influence(@)]
  IN  IF ~IsGate(m.g, node) THEN m
      ELSE IF m.g.node[node].occ > 1 THEN n ELSE ApplyTo(n, s, node, Influence(m.g))

ScopeGate(g, s) ==
  LitVar(IF g.scope[s].node = 0 THEN g.output ELSE g.node[g.scope[s].node].in[1])
ApplyToScope(m, s) ==
  CASE m.g.failed # {} \/ (s = TopLevel /\ m.g.scope[s].vars = <<>>) -> m
    [] OTHER -> IF m.g.scope[s].vars = <<>> THEN [m EXCEPT !.g = Require(@, FALSE, "empty scope")]
                ELSE apply_miniscoping(m, s, ScopeGate(m.g, s))

\* The scopes that are below s when it is entered; none of them may be taken away meanwhile.
RECURSIVE UnprenexFrom(_, _)
UnprenexFrom(m, s) ==
  LET visit(h, k) == IF h.g.failed # {} THEN h
                     ELSE IF k > Len(h.g.scope[s].next)
                          THEN [h EXCEPT !.g = Require(@, FALSE, "scope disappeared")]
                     ELSE UnprenexFrom(h, h.g.scope[s].next[k])
  IN  ApplyToScope(FoldLeft(visit, m, [k \in DOMAIN m.g.scope[s].next |-> k]), s)

circuit_unprenex_by_miniscoping(g) ==
  LET m == UnprenexFrom([g |-> g, parent |-> [v \in DOMAIN g.var |-> v]], TopLevel)
  IN  circuit_reencode(m.g)
=============================================================================

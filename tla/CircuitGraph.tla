---------------------------- MODULE CircuitGraph ----------------------------
(***************************************************************************)
(* The mutable circuit data structure of circuit.c while it is built and   *)
(* transformed.  Pointers are indices: a scope or a variable keeps its     *)
(* index for ever, a node is found under the id that the code would find   *)
(* it under in circuit->nodes.  A circuit is a record                      *)
(*   node  : sequence of [type, in, occ, val, conflict, ref, neg, owner];  *)
(*           type "none" is a NULL entry, `in' the input literals (of a    *)
(*           scope node <<sub>>), `ref' the variable or scope behind the   *)
(*           node, `neg' the gate's negation, `owner' the scope node for   *)
(*           which miniscoping copied the gate                             *)
(*   var   : sequence of [id, scope, removed, pol, val] (circuit->vars);   *)
(*           `val' is the value a removed variable had                     *)
(*   scope : sequence of [qtype, vars, node, next, prev, id, depth, freed] *)
(*   output, last (previous_scope), phase, id and depth (the counters      *)
(*           current_scope_id and current_depth)                           *)
(*   failed: the assertions, NULL dereferences and api_expect checks that  *)
(*           have failed so far; nothing happens to the circuit once it    *)
(*           is not empty.                                                 *)
(* Names for printing (orig_id), buffer sizes and max_depth are left out.  *)
(***************************************************************************)
EXTENDS Integers, FiniteSetsExt, SequencesExt, Folds

LitVar(l) == IF l < 0 THEN -l ELSE l
WithSign(n, l) == IF l < 0 THEN -n ELSE n
Dual(q) == IF q = "exists" THEN "forall" ELSE "exists"
DualGate(t) == IF t = "and" THEN "or" ELSE "and"

TopLevel == 1
NoNode == [type |-> "none", in |-> <<>>, occ |-> 0, val |-> 0, conflict |-> FALSE,
           ref |-> 0, neg |-> 0, owner |-> 0]

\* The first failure is kept.
Require(g, holds, name) == IF g.failed # {} \/ holds THEN g ELSE [g EXCEPT !.failed = {name}]

MaxNum(g) == Len(g.node)
NodeIds(g) == 1 .. MaxNum(g)
Exists(g, i) == i \in NodeIds(g) /\ g.node[i].type # "none"
IsVar(g, i) == g.node[i].type = "var"
IsGate(g, i) == g.node[i].type \in {"and", "or"}
IsScopeNode(g, i) == g.node[i].type = "scope"
InputSet(g, i) == {LitVar(l) : l \in Range(g.node[i].in)}
LastOf(s) == s[Len(s)]

\* The same sequence, enumerated: TLC's Append loses the updates of a function constructor.
Tuple(s) == SubSeq(s, 1, Len(s))

-----------------------------------------------------------------------------
(* Building: what the parser and the transformations call. *)

ScopeRecord(q, id) ==
  [qtype |-> q, vars |-> <<>>, node |-> 0, next |-> <<>>, prev |-> 0, id |-> id,
   depth |-> 0, freed |-> FALSE]

\* The empty circuit: the existential top-level scope holds the free variables.
circuit_init ==
  [node |-> <<>>, var |-> <<>>, scope |-> <<ScopeRecord("exists", 1)>>, output |-> -1,
   last |-> TopLevel, phase |-> "building", id |-> 2, depth |-> 1, failed |-> {}]

\* Room for all ids up to n: entries between the used ids stay NULL.
circuit_adjust(g, n) ==
  [g EXCEPT !.node = @ \o [i \in 1 .. Max({0, n - Len(@)}) |-> NoNode]]

PutNode(g, i, n) == [circuit_adjust(g, i) EXCEPT !.node[i] = n]

circuit_set_output(g, l) ==
  [Require(g, g.output = -1, "output set once") EXCEPT !.output = l]

circuit_new_var(g, s, i) ==
  LET v == Len(g.var) + 1
      n == [NoNode EXCEPT !.type = "var", !.ref = v]
  IN  [PutNode(g, i, n) EXCEPT
         !.var = Append(@, [id |-> i, scope |-> s, removed |-> FALSE, pol |-> "undefined",
                            val |-> 0]),
         !.scope[s].vars = Append(@, v)]

link_scope(g, prev, next) ==
  IF next \in Range(g.scope[prev].next) THEN g
  ELSE [g EXCEPT !.scope[prev].next = Append(@, next), !.scope[next].prev = prev]

unlink_scope(g, prev, current) ==
  IF prev = 0 THEN Require(g, FALSE, "unlink: no previous scope")
  ELSE [Require(g, current \in Range(g.scope[prev].next), "unlink: not linked") EXCEPT
          !.scope[prev].next = SelectSeq(@, LAMBDA s : s # current),
          !.scope[current].prev = 0]

\* Hang all the scopes below `from' under `to'.
RelinkChildren(g, from, to) ==
  FoldLeft(LAMBDA h, s : link_scope(unlink_scope(h, from, s), to, s), g, g.scope[from].next)

\* A scope of the prefix gets the next id at once, and an equal neighbour is extended.
CreatesScope(g, q) == q # "free" /\ g.scope[g.last].qtype # q
circuit_init_scope(g, q) ==
  LET new == Len(g.scope) + 1
  IN  CASE CreatesScope(g, q) ->
             [link_scope([g EXCEPT !.scope = Append(@, ScopeRecord(q, g.id)), !.id = @ + 1],
                         g.last, new)
              EXCEPT !.last = new]
        [] q = "free" /\ g.last # TopLevel ->
             [link_scope(g, g.last, TopLevel) EXCEPT !.last = TopLevel]
        [] OTHER -> g

\* The node and the scope of a quantified subformula; it is linked when it is encoded.
circuit_new_scope_node(g, q, i) ==
  LET s == Len(g.scope) + 1
  IN  [PutNode(g, i, [NoNode EXCEPT !.type = "scope", !.ref = s]) EXCEPT
         !.scope = Append(@, [ScopeRecord(q, 0) EXCEPT !.node = i])]

circuit_set_scope_node(g, i, l) ==
  [circuit_adjust(Require(g, g.node[i].in = <<>>, "scope node already set"), LitVar(l))
   EXCEPT !.node[i].in = <<l>>]

circuit_add_gate(g, i, type) == PutNode(g, i, [NoNode EXCEPT !.type = type])

\* An input is added once; the negation of another input marks the gate as decided.
Contained(g, i, l) == l \in Range(g.node[i].in)
circuit_add_to_gate(g, i, l) ==
  LET h == [circuit_adjust(g, LitVar(l)) EXCEPT !.node[i].conflict = @ \/ Contained(g, i, -l)]
  IN  IF Contained(g, i, l) THEN h ELSE [h EXCEPT !.node[i].in = Append(@, l)]

AddAll(g, i, lits) == FoldLeft(LAMBDA h, l : circuit_add_to_gate(h, i, l), g, lits)
ChangeOcc(g, i, by) == [g EXCEPT !.node[i].occ = @ + by]

remove_gate_input(g, i, pos) == [g EXCEPT !.node[i].in = RemoveAt(@, pos)]
remove_input_from_gate(g, i, l) ==
  [Require(g, Contained(g, i, l), "input removed once") EXCEPT
     !.node[i].in = SelectSeq(@, LAMBDA k : k # l)]

-----------------------------------------------------------------------------
(* Removing: emptied scopes disappear together with their scope nodes.     *)
(* Here, and in the modules above, an operator does nothing to a circuit   *)
(* in which something has failed.                                          *)

free_scope_node(g, i) == [g EXCEPT !.node[i] = NoNode]

\* A scope node without variables (n is what it was) becomes an AND of its only input; if it
\* is decided it goes.
EndScopeNode(g, i, n) ==
  CASE g.failed # {} -> g
    [] g.failed = {} /\ n.val = 0 ->
         [g EXCEPT !.node[i] = [NoNode EXCEPT !.type = "and", !.in = n.in, !.occ = n.occ]]
    [] OTHER -> IF Exists(g, LitVar(n.in[1]))
                THEN ChangeOcc(free_scope_node(g, i), LitVar(n.in[1]), -1)
                ELSE Require(g, FALSE, "sub_node != NULL")

\* remove_scope_node for a scope that has lost its variables before.
remove_empty_scope_node(g, i) ==
  IF ~Exists(g, i) \/ ~IsScopeNode(g, i) THEN Require(g, FALSE, "no scope node")
  ELSE EndScopeNode(Require(g, g.phase # "building", "circuit must be encoded first"),
                    i, g.node[i])

Freed(g, s) ==
  [Require(g, g.scope[s].next = <<>>, "freed scope has inner scopes") EXCEPT
     !.scope[s].freed = TRUE]
free_scope(g, s) ==
  LET pre == Require(g, g.scope[s].prev = 0 /\ s # TopLevel /\ g.scope[s].vars = <<>>
                        /\ ~g.scope[s].freed, "free_scope")
  IN  Freed(IF g.scope[s].node # 0 THEN remove_empty_scope_node(pre, g.scope[s].node) ELSE pre, s)

MoveVars(g, from, to) ==
  LET vars == g.scope[from].vars
  IN  [g EXCEPT !.scope[to].vars = @ \o vars, !.scope[from].vars = <<>>,
                !.var = Tuple([v \in DOMAIN @ |-> IF v \in Range(vars)
                                                  THEN [@[v] EXCEPT !.scope = to] ELSE @[v]])]

\* The node of a scope that has been merged into another one.
\* EndMergedScopeDetached: the scope forgets its node, which stays a scope node.
EndMergedScopeDetached(g, s) == [g EXCEPT !.scope[s].node = 0]
EndMergedScope(g, s) ==
  IF g.failed # {} \/ g.scope[s].node = 0 THEN g
  ELSE [remove_empty_scope_node(g, g.scope[s].node) EXCEPT !.scope[s].node = 0]

merge_scopes(g, from, to) ==
  LET fits == /\ g.scope[from].qtype = g.scope[to].qtype
              /\ \A s \in Range(g.scope[from].next) : g.scope[s].qtype = Dual(g.scope[to].qtype)
      moved == MoveVars(Require(g, fits, "merge_scopes"), from, to)
  IN  EndMergedScope(RelinkChildren(unlink_scope(moved, to, from), from, to), from)

\* In the prefix the neighbours of a removed scope have the same quantifier and are joined.
JoinNeighbours(g, prev, s, next) ==
  LET same == Require(g, g.scope[prev].qtype = g.scope[next].qtype, "neighbours")
      h    == unlink_scope(MoveVars(same, next, prev), s, next)
  IN  free_scope(free_scope(RelinkChildren(h, next, prev), s), next)
CloseGap(g, prev, s, next) ==
  IF g.failed # {} THEN g
  ELSE IF Len(next) = 1 /\ g.scope[next[1]].node = 0 THEN JoinNeighbours(g, prev, s, next[1])
  ELSE free_scope(RelinkChildren(g, s, prev), s)
remove_scope(g, s) ==
  LET prev == g.scope[s].prev
  IN  CloseGap(unlink_scope(Require(g, g.scope[s].vars = <<>> /\ s # TopLevel, "remove_scope"),
                            prev, s), prev, s, g.scope[s].next)

ForgetVar(g, i, v) ==
  [g EXCEPT !.var[v].removed = TRUE, !.var[v].val = g.node[i].val, !.node[i] = NoNode]
RemoveIfEmpty(g, s) == IF g.scope[s].vars = <<>> /\ s # TopLevel THEN remove_scope(g, s) ELSE g
remove_var(g, i) ==
  LET v == g.node[i].ref
      s == g.var[v].scope
  IN  ForgetVar(RemoveIfEmpty([g EXCEPT !.scope[s].vars = SelectSeq(@, LAMBDA u : u # v)], s),
                i, v)

\* The variables go first; the removal of the last one frees the scope with its node.
RemoveVarOf(g, s) ==
  LET used(h) == Require(h, ~h.scope[s].freed, "scope used after free")
  IN  IF g.failed # {} THEN g ELSE used(remove_var(g, g.var[g.scope[s].vars[1]].id))
remove_scope_node(g, i) ==
  LET n == g.node[i]
      pre == Require(Require(g, g.phase # "building", "circuit must be encoded first"),
                     g.scope[n.ref].vars = <<>> \/ n.val # 0, "scope node still binds")
  IN  EndScopeNode(FoldLeft(LAMBDA h, v : RemoveVarOf(h, n.ref), pre, g.scope[n.ref].vars), i, n)

\* The gate is no longer a use of its inputs. DropUsesNever: they keep their counts.
DropUsesNever(g, i) == g
DropUses(g, i) ==
  IF g.phase = "building" THEN g
  ELSE FoldLeft(LAMBDA h, l : IF Exists(h, LitVar(l)) THEN ChangeOcc(h, LitVar(l), -1) ELSE h,
                g, g.node[i].in)

\* The output gate stays, as a constant: AND and OR without inputs are true and false.
remove_gate(g, i) ==
  LET h == DropUses(g, i)
      constant == IF g.node[i].val > 0 THEN "and" ELSE "or"
  IN  IF LitVar(g.output) = i
      THEN [Require(h, g.node[i].val # 0, "output without value") EXCEPT
              !.node[i].in = <<>>, !.node[i].type = constant, !.node[i].conflict = FALSE]
      ELSE [h EXCEPT !.node[i] = NoNode]
=============================================================================

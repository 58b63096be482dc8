------------------------------ MODULE MCSolver ------------------------------
(***************************************************************************)
(* Circuits for Solver, as circuit_reencode numbers them: the input files  *)
(* of test/unittests that are small enough, by their names, and circuits   *)
(* that add what those lack.                                               *)
(***************************************************************************)
EXTENDS Solver

V(s) == [type |-> "var", scope |-> s, inputs |-> <<>>]
And(ls) == [type |-> "and", scope |-> 0, inputs |-> ls]
Or(ls) == [type |-> "or", scope |-> 0, inputs |-> ls]
Sub(s, l) == [type |-> "scope", scope |-> s, inputs |-> <<l>>]
Sc(q, p, n, nx) == [qtype |-> q, prev |-> p, node |-> n, next |-> nx]

\* The quantifier prefix exists, forall, exists, ... with n scopes; the first may be empty.
PrefixOf(n) ==
  [s \in 1 .. n |-> Sc(IF s % 2 = 1 THEN "exists" ELSE "forall", s - 1, 0,
                       IF s < n THEN <<s + 1>> ELSE <<>>)]
Prenex(n, node) == [node |-> node, scope |-> PrefixOf(n), output |-> Len(node)]

test_sat == Prenex(3, <<V(2), V(3), Or(<<-2, 1>>), Or(<<2, -1>>), And(<<4, 3>>)>>)
equality_unsat == Prenex(2, <<V(1), V(2), Or(<<2, -1>>), Or(<<-2, 1>>), And(<<4, 3>>)>>)
test_abstraction == Prenex(3, <<V(2), V(1), V(3), And(<<3, 2>>), Or(<<4, 1>>)>>)
sandwich ==
  Prenex(3, <<V(1), V(2), Or(<<2, -1>>), V(3), Or(<<4, 2>>), And(<<5, 3>>), Or(<<6, 1>>)>>)
sandwich4 ==
  Prenex(3, <<V(3), V(1), V(2), Or(<<-3, 2>>), Or(<<3, -2>>), And(<<5, 4>>),
              Or(<<6, 1>>), And(<<7, -1>>)>>)
example_eae ==
  Prenex(3, <<V(1), V(2), V(3), And(<<-3, 2>>), Or(<<4, 1>>), Or(<<3, -2, -1>>),
              And(<<6, 5>>)>>)
test_refinement ==
  Prenex(3, <<V(2), V(2), V(3), Or(<<3, -2>>), Or(<<-3, 2>>), And(<<5, 4>>),
              Or(<<6, -1>>), Or(<<6, 1>>), And(<<8, 7>>)>>)
implication ==
  Prenex(3, <<V(2), V(2), And(<<-2, -1>>), V(3), V(3), And(<<-5, 4, 1>>),
              And(<<5, -4, 2>>), Or(<<7, 6, 3>>)>>)
two_equalities ==
  Prenex(3, <<V(2), V(3), Or(<<2, -1>>), Or(<<-2, 1>>), V(2), V(3), Or(<<6, -5>>),
              Or(<<-6, 5>>), And(<<8, 7, 4, 3>>)>>)
\* Four alternations, with a gate shared by two parents of different depth.
four_scopes ==
  Prenex(4, <<V(1), V(2), V(3), V(4), Or(<<4, 3>>), And(<<5, 2>>), Or(<<-3, -2, 1>>),
              Or(<<6, 5, -1>>), And(<<8, 7>>)>>)
\* exists x forall y exists z, w : won by the inner player iff x = y; why a proposal for y
\* fails depends on x through clauses that the scope of y neither owns nor decides.
passed_through ==
  Prenex(3, <<V(1), V(3), Or(<<2, 1>>), V(2), Or(<<-4, -2>>), V(3), Or(<<6, -1>>),
              Or(<<-6, 4>>), And(<<8, 7, 5, 3>>)>>)

\* Gates with complementary inputs (gate->conflict), next to inputs that decide them earlier.
contradiction ==
  Prenex(3, <<V(1), V(2), V(3), And(<<3, 2, -2>>), Or(<<4, 1>>), Or(<<3, -2, -1>>), And(<<6, 5>>)>>)
tautology == Prenex(2, <<V(1), V(2), Or(<<1, -1, 2>>), And(<<3, -2>>), Or(<<4, 1>>)>>)

PrenexCircuits ==
  {test_sat, equality_unsat, test_abstraction, sandwich, sandwich4, example_eae,
   test_refinement, implication, two_equalities, four_scopes, passed_through,
   contradiction, tautology}
FewCircuits == {test_sat, equality_unsat}

-----------------------------------------------------------------------------
example_non_prenex ==
  [node |-> <<V(2), V(3), V(3), And(<<3, 2, 1>>), Sub(3, 4), Or(<<5, 1>>)>>,
   scope |-> <<Sc("exists", 0, 0, <<2>>), Sc("forall", 1, 0, <<3>>), Sc("exists", 2, 5, <<>>)>>,
   output |-> 6]
sandwich3_non_prenex ==
  [node |-> <<V(3), V(1), V(2), Or(<<3, 2>>), Or(<<3, -2>>), V(3), And(<<-6, 5, 4>>),
              Or(<<7, 1>>), And(<<8, -1>>), Sub(3, 9), Sub(2, 10), And(<<11>>)>>,
   scope |-> <<Sc("exists", 0, 0, <<2>>), Sc("forall", 1, 11, <<3>>), Sc("exists", 2, 10, <<>>)>>,
   output |-> 12]
\* two_equalities after miniscoping: two independent games below the top level.
two_equalities_miniscoped ==
  [node |-> <<V(2), V(3), Or(<<2, -1>>), Or(<<-2, 1>>), And(<<4, 3>>), Sub(3, 5), Sub(2, 6),
              V(4), V(5), Or(<<9, -8>>), Or(<<-9, 8>>), And(<<11, 10>>), Sub(5, 12), Sub(4, 13),
              And(<<14, 7>>)>>,
   scope |-> <<Sc("exists", 0, 0, <<2, 4>>), Sc("forall", 1, 7, <<3>>), Sc("exists", 2, 6, <<>>),
               Sc("forall", 1, 14, <<5>>), Sc("exists", 4, 13, <<>>)>>,
   output |-> 15]
\* Two opponents that object to opposite values of the same variable.
two_opponents ==
  [node |-> <<V(1), V(2), Or(<<2, 1>>), Sub(2, 3), V(3), Or(<<5, -1>>), Sub(3, 6), And(<<7, 4>>)>>,
   scope |-> <<Sc("exists", 0, 0, <<2, 3>>), Sc("forall", 1, 4, <<>>), Sc("forall", 1, 7, <<>>)>>,
   output |-> 8]
\* A choice between two subformulas, of which only one can be won.
one_of_two ==
  [node |-> <<V(1), V(2), And(<<2, 1>>), Sub(2, 3), V(3), Or(<<5, 1>>), Sub(3, 6), Or(<<7, 4>>)>>,
   scope |-> <<Sc("exists", 0, 0, <<2, 3>>), Sc("forall", 1, 4, <<>>), Sc("forall", 1, 7, <<>>)>>,
   output |-> 8]

\* A short and a long branch that share gates above them: depths are compared across
\* branches after projection to max_depth only.
UnbalancedScope ==
  <<Sc("exists", 0, 0, <<2, 3>>), Sc("forall", 1, 4, <<>>), Sc("forall", 1, 12, <<4>>),
    Sc("exists", 3, 11, <<>>)>>
unbalanced ==
  [node |-> <<V(1), V(2), Or(<<2, 1>>), Sub(2, 3), And(<<4, 1>>),
              V(3), V(4), Or(<<7, -6, 1>>), Or(<<-7, 6>>), And(<<9, 8>>), Sub(4, 10), Sub(3, 11),
              Or(<<12, 5>>)>>,
   scope |-> UnbalancedScope, output |-> 13]

NonPrenexCircuits ==
  {example_non_prenex, sandwich3_non_prenex, two_equalities_miniscoped, two_opponents, one_of_two,
   unbalanced}
AllCircuits == PrenexCircuits \cup NonPrenexCircuits

\* forall x : x \/ (exists y, z : y xor z), true: the subformula does not depend on x.
ClosedSubformula ==
  {[node |-> <<V(2), V(3), V(3), Or(<<3, 2>>), Or(<<-3, -2>>), And(<<5, 4>>), Sub(3, 6),
               Or(<<7, 1>>)>>,
    scope |-> <<Sc("exists", 0, 0, <<2>>), Sc("forall", 1, 0, <<3>>), Sc("exists", 2, 7, <<>>)>>,
    output |-> 8]}
\* exists x : (x \/ forall y : y) /\ ~x, false.
DelegatedGate ==
  {[node |-> <<V(1), V(2), And(<<2>>), Sub(2, 3), Or(<<4, 1>>), And(<<5, -1>>)>>,
    scope |-> <<Sc("exists", 0, 0, <<2>>), Sc("forall", 1, 4, <<>>)>>,
    output |-> 6]}
\* exists x : ~x /\ (forall y : y \/ x) /\ (forall z exists w : w = z), false.
SiblingGate ==
  {[node |-> <<V(1), V(2), Or(<<2, 1>>), Sub(2, 3), And(<<4, -1>>),
               V(3), V(4), Or(<<7, -6>>), Or(<<-7, 6>>), And(<<9, 8>>), Sub(4, 10), Sub(3, 11),
               And(<<12, 5>>)>>,
    scope |-> UnbalancedScope, output |-> 13]}

\* exists y, z forall x : a prenex formula on whose encoded circuit minimized assumptions
\* make the inner scope give a core over gates that are on in the model of the outer one.
MinimizedGate ==
  {Prenex(2, <<V(1), V(1), V(2), Or(<<-3, -2, -1>>), And(<<3, 2, 1>>), Or(<<5>>), Or(<<6, -1>>),
               And(<<7, 4, -2>>), Or(<<8, 1>>), And(<<9>>)>>)}
=============================================================================

----------------------------- MODULE MCFixpoint -----------------------------
(***************************************************************************)
(* Safety games with an uncontrollable input (2), a controllable one (4)   *)
(* and one or two latches (6, 8).                                          *)
(***************************************************************************)
EXTENDS Fixpoint

Query == INSTANCE FixpointQuery

And(lhs, rhs0, rhs1) == [lhs |-> lhs, rhs0 |-> rhs0, rhs1 |-> rhs1]
Latch(lit, next) == [lit |-> lit, next |-> next]
Game(ls, ands, output) ==
  [controllable |-> <<FALSE, TRUE>>, latches |-> ls, ands |-> ands, output |-> output]

\* The control can keep the latch at zero, or not, or must do as the input did before.
OneLatch ==
  { Game(<<Latch(6, 8)>>, <<And(8, 3, 5)>>, 6),
    Game(<<Latch(6, 8)>>, <<And(8, 2, 4), And(10, 6, 3)>>, 10),
    Game(<<Latch(6, 2)>>, <<And(8, 6, 4)>>, 8),
    Game(<<Latch(6, 2)>>, <<And(8, 6, 4), And(10, 7, 5), And(12, 9, 11)>>, 13),
    Game(<<Latch(6, 2)>>, <<And(8, 6, 4), And(10, 6, 5), And(12, 9, 11)>>, 13),
    Game(<<Latch(6, 8)>>, <<And(8, 7, 2), And(10, 6, 5)>>, 10) }
\* The error can be avoided one step ahead; the next value of a latch is constant; one latch
\* remembers the negation of the other; either of two latches raises the error; the error
\* shows two steps after the input that the control cannot answer.
TwoLatches ==
  { Game(<<Latch(6, 2), Latch(8, 10)>>, <<And(10, 6, 4)>>, 8),
    Game(<<Latch(6, 1), Latch(8, 2)>>, <<And(10, 6, 8), And(12, 10, 4)>>, 12),
    Game(<<Latch(6, 10), Latch(8, 7)>>, <<And(10, 3, 5), And(12, 6, 8)>>, 12),
    Game(<<Latch(6, 12), Latch(8, 12)>>, <<And(10, 7, 9), And(12, 2, 4)>>, 11),
    Game(<<Latch(6, 11), Latch(8, 6)>>, <<And(10, 3, 5)>>, 8) }
\* Preprocessing replaces a gate over the constant true.
Constants ==
  { Game(<<Latch(6, 9)>>, <<And(8, 1, 3), And(10, 9, 6), And(12, 10, 4)>>, 12) }
MCQueries == {Query!fixpoint_init_from_aiger(a) : a \in OneLatch \cup TwoLatches \cup Constants}
=============================================================================

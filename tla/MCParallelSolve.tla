--------------------------- MODULE MCParallelSolve ---------------------------
(***************************************************************************)
(* Scope trees for ParallelSolve, and small values of its bounds.          *)
(***************************************************************************)
EXTENDS ParallelSolve

\* Three games below the top level.
FlatScopes == 1 .. 4
FlatNext == <<<<2, 3, 4>>, <<>>, <<>>, <<>>>>
FlatPrev == [c \in 2 .. 4 |-> 1]
FlatPrefix == {1}

\* A prefix of two scopes, two games below it: one branches again, the other is continued by
\* an only child.
NestedScopes == 1 .. 7
NestedNext == <<<<2>>, <<3, 4>>, <<5, 6>>, <<7>>, <<>>, <<>>, <<>>>>
NestedPrev == [c \in 2 .. 7 |-> CASE c = 2 -> 1 [] c \in {3, 4} -> 2 [] c = 7 -> 4 [] OTHER -> 3]
NestedPrefix == {1, 2}
=============================================================================

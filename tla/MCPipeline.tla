----------------------------- MODULE MCPipeline -----------------------------
(***************************************************************************)
(* Input files for Pipeline: families that enumerate all small circuits of *)
(* one shape, each with the options that the programs accept for it.       *)
(***************************************************************************)
EXTENDS Pipeline

\* The statements of a file.
Header(n) == [kind |-> "header", n |-> n]
Block(q, vs) == [kind |-> q, vars |-> vs]
Output(l) == [kind |-> "output", lit |-> l]
Gate(i, t, in) == [kind |-> t, id |-> i, in |-> in]
Quantified(i, q, vs, sub) ==
  [kind |-> "quantified", id |-> i, qtype |-> q, vars |-> vs, sub |-> sub]

Quantifiers == {"exists", "forall"}
Connectives == {"and", "or"}
Literals == {-3, -2, -1, 1, 2, 3}
InputLists ==
  {SetToSortSeq(c, <) : c \in {d \in SUBSET Literals : d # {} /\ \A l \in d : -l \notin d}}
Positive == {c \in InputLists : \A l \in Range(c) : l > 0}

-----------------------------------------------------------------------------
(* Prenex files *)

\* Two gates over three variables below the output, under every prefix; the first gate has
\* positive inputs only, since negating a variable everywhere changes nothing.
TwoGates ==
  {<<Block(q[1], <<1>>), Block(q[2], <<2>>), Block(q[3], <<3>>), Output(6),
     Gate(4, t, c), Gate(5, t, d), Gate(6, DualGate(t), <<4, 5>>)>> :
     q \in Quantifiers \X Quantifiers \X Quantifiers, t \in Connectives,
     c \in Positive, d \in InputLists}

\* Nested gates, negated or not; the innermost one may be shared, and statements are out of order.
NestedGates ==
  {<<Header(6), Block(q, <<1>>), Block(Dual(q), <<2>>), Block(q, <<3>>), Gate(6, w, <<a * 5>> \o s),
     Output(-6), Gate(5, "or", <<b * 4, l>>), Gate(4, "or", c)>> :
     q \in Quantifiers, w \in Connectives, a \in {-1, 1}, b \in {-1, 1},
     s \in {<<>>, <<4>>, <<-4>>}, l \in 1 .. 3, c \in {d \in InputLists : Len(d) = 2}}

PrenexOptions == {{"flatten"}, {"preprocess", "miniscoping"}, {"preprocess", "flatten", "prenexing"}}

\* Shared gates in which every variable keeps both polarities, so that miniscoping meets them.
SharedGates ==
  {<<Block(q[1], <<1>>), Block(q[2], <<2>>), Block(q[3], <<3>>), Output(9), Gate(4, t, <<2, 3>>),
     Gate(5, u, <<-3, -2>>), Gate(6, v, <<4, 1>>), Gate(7, v, <<i, -1>>), Gate(8, v, <<5, l>>),
     Gate(9, w, <<6, 7, 8>>)>> :
     q \in Quantifiers \X Quantifiers \X Quantifiers, t \in Connectives, u \in Connectives,
     v \in Connectives, w \in Connectives, i \in {4, -4, 5}, l \in {1, -2, 3}}
SharedOptions == {{"preprocess", "miniscoping"}}

-----------------------------------------------------------------------------
(* Files with quantified subformulas *)

\* Two subformulas side by side, and one inside the other.
Siblings ==
  {<<Block(q[1], <<1>>), Output(8), Quantified(6, q[2], <<2>>, 4), Gate(4, t, c),
     Quantified(7, q[3], <<3>>, 5), Gate(5, u, d), Gate(8, w, <<6, 7, l>>)>> :
     q \in Quantifiers \X Quantifiers \X Quantifiers,
     t \in Connectives, u \in Connectives, w \in Connectives, l \in {-1, 1},
     c \in {<<1, 2>>, <<-2, -1>>}, d \in {<<1, 3>>, <<-3>>}}
Inner ==
  {<<Block(q[1], <<1>>), Output(8), Quantified(6, q[2], <<2>>, 5), Gate(4, u, d),
     Quantified(7, q[3], <<3>>, 4), Gate(5, t, <<7>> \o c), Gate(8, w, <<6, l>>)>> :
     q \in Quantifiers \X Quantifiers \X Quantifiers,
     t \in Connectives, u \in Connectives, w \in Connectives, l \in {-1, 1},
     c \in {<<2>>, <<-2, 1>>}, d \in {<<2, 3>>, <<-3, -1>>}}
SubformulaOptions == {{"flatten", "prenexing"}}

\* All variables keep both polarities, so that preprocessing decides no subformula.
Undecided ==
  {<<Block(q[1], <<1>>), Block(q[2], <<3>>), Output(9), Quantified(8, q[3], <<2>>, 6),
     Gate(4, t, <<2, a>>), Gate(5, DualGate(t), <<-2, b>>), Gate(6, v, <<4, 5>>),
     Gate(7, DualGate(w), <<1, 3>>), Gate(10, DualGate(w), <<-1, -3>>), Gate(9, w, <<8, 7, 10>>)>> :
     q \in Quantifiers \X Quantifiers \X Quantifiers, t \in Connectives,
     v \in Connectives, w \in Connectives, a \in {1, -1, 3}, b \in {1, -1, -3}}
UndecidedOptions == {{"preprocess", "flatten", "prenexing"}}

-----------------------------------------------------------------------------
With(files, choices) == {[file |-> f, options |-> o] : f \in files, o \in choices}
AllInvocations ==
  With(TwoGates \cup NestedGates, PrenexOptions) \cup With(SharedGates, SharedOptions)
    \cup With(Siblings \cup Inner, SubformulaOptions)
    \cup With(Undecided, UndecidedOptions)
=============================================================================

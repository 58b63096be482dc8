-------------------------------- MODULE Aiger --------------------------------
(***************************************************************************)
(* And-inverter graphs: the calls of the vendored AIGER library that       *)
(* certificates are built with (aiger.c), and the encoding of wide AND and *)
(* OR gates with the literals of a queue (aiger_helper.c, queue.c).        *)
(*                                                                         *)
(* A graph is a record                                                     *)
(*   inputs  : the set of <<lit, name>>                                    *)
(*   outputs : the set of <<lit, name>>; names are variable ids, and 0     *)
(*             stands for "result" and "bad"                               *)
(*   ands    : the sequence of <<lhs, rhs0, rhs1>> in the order in which   *)
(*             they were added                                             *)
(*   failed  : an assertion of the library has failed                      *)
(* aiger_reencode, which numbers the literals of a graph anew, is left out *)
(* and so are latches: nothing below depends on how literals are numbered  *)
(* once the graph is complete.                                             *)
(***************************************************************************)
EXTENDS Integers, FiniteSetsExt, SequencesExt

aiger_false == 0
aiger_true == 1
aiger_not(lit) == IF lit % 2 = 0 THEN lit + 1 ELSE lit - 1
aiger_strip(lit) == lit - (lit % 2)

aiger_init == [inputs |-> {}, outputs |-> {}, ands |-> <<>>, failed |-> FALSE]

InputLits(aig) == {i[1] : i \in aig.inputs}
AndLits(aig) == {a[1] : a \in Range(aig.ands)}
aiger_literal_defined(aig, lit) ==
  aiger_strip(lit) \in {aiger_false} \cup InputLits(aig) \cup AndLits(aig)

\* A literal is defined at most once (the assertions on type->input and type->and).
aiger_add_input(aig, lit, name) ==
  [aig EXCEPT !.failed = @ \/ aiger_literal_defined(aig, lit), !.inputs = @ \cup {<<lit, name>>}]
aiger_add_output(aig, lit, name) == [aig EXCEPT !.outputs = @ \cup {<<lit, name>>}]
aiger_add_and(aig, lhs, rhs0, rhs1) ==
  [aig EXCEPT !.failed = @ \/ aiger_literal_defined(aig, lhs),
              !.ands = Append(@, <<lhs, rhs0, rhs1>>)]

-----------------------------------------------------------------------------
(* The ANDs in an order in which each one comes behind those it refers to; *)
(* those on a cycle, and what depends on them, do not get a place.         *)
Ready(and, known) == {aiger_strip(and[2]), aiger_strip(and[3])} \subseteq known
RECURSIVE OrderFrom(_, _)
OrderBehind(now, rest, known) ==
  IF now = <<>> THEN <<>>
  ELSE now \o OrderFrom(SelectSeq(rest, LAMBDA a : ~Ready(a, known)),
                        known \cup {a[1] : a \in Range(now)})
OrderFrom(rest, known) ==
  OrderBehind(SelectSeq(rest, LAMBDA a : Ready(a, known)), rest, known)
Ordered(aig) == OrderFrom(aig.ands, {aiger_false} \cup InputLits(aig))

right_hand_sides_defined(aig) ==
  \A a \in Range(aig.ands) : aiger_literal_defined(aig, a[2]) /\ aiger_literal_defined(aig, a[3])
outputs_defined(aig) == \A o \in aig.outputs : aiger_literal_defined(aig, o[1])
acyclic(aig) == Len(Ordered(aig)) = Len(aig.ands)
aiger_check_succeeds(aig) ==
  outputs_defined(aig) /\ right_hand_sides_defined(aig) /\ acyclic(aig)

\* Values: the literals without sign that are true, given those of the inputs.
LitHolds(true, lit) ==
  CASE lit \in {aiger_false, aiger_true} -> lit = aiger_true
    [] OTHER -> (aiger_strip(lit) \in true) = (lit % 2 = 0)
Evaluate(ands, true) ==
  FoldLeft(LAMBDA t, a : IF LitHolds(t, a[2]) /\ LitHolds(t, a[3]) THEN t \cup {a[1]} ELSE t,
           true, ands)

-----------------------------------------------------------------------------
(* Wide gates.  A work record [aig, next, queue] holds the graph, the last *)
(* literal number in use and the literals still to be joined.              *)

PopTwo(queue) == SubSeq(queue, 3, Len(queue))
Operand(queue, k) == IF k <= Len(queue) THEN queue[k] ELSE aiger_true

\* Join the first two literals; the new one goes to the end of the queue.
JoinTwo(w) ==
  [aig   |-> aiger_add_and(w.aig, 2 * (w.next + 1), w.queue[1], w.queue[2]),
   next  |-> w.next + 1,
   queue |-> Append(PopTwo(w.queue), 2 * (w.next + 1))]
JoinDownTo(w, n) == FoldLeft(LAMBDA v, k : JoinTwo(v), w, [k \in 1 .. Len(w.queue) - n |-> k])

DefineAs(w, dest) ==
  [w EXCEPT !.aig = aiger_add_and(@, aiger_strip(dest), Operand(w.queue, 1), Operand(w.queue, 2)),
            !.queue = <<>>]
encode_and_as(w, dest) == DefineAs(JoinDownTo(w, 2), dest)
Negated(w) == [w EXCEPT !.queue = [k \in DOMAIN @ |-> aiger_not(@[k])]]
encode_or_as(w, dest) == encode_and_as(Negated(w), dest)

\* encode_and: the conjunction gets a new literal. A lone literal stands for itself, and the
\* conjunction of two literals gets a second AND on top.
TopAnd(w) ==
  [work |-> [DefineAs(w, 2 * (w.next + 1)) EXCEPT !.next = @ + 1], lit |-> 2 * (w.next + 1)]
encode_and(w) ==
  IF Len(w.queue) < 2 THEN [work |-> [w EXCEPT !.queue = <<>>], lit |-> Operand(w.queue, 1)]
  ELSE TopAnd(JoinDownTo(JoinTwo(w), 2))
=============================================================================

--------------------------- MODULE MCCertification ---------------------------
(***************************************************************************)
(* Input files for Certification, as the parser builds them.               *)
(***************************************************************************)
EXTENDS Certification

\* blocks: the prefix as pairs of a quantifier and variables; gates: triples of a number, a
\* type and input literals.
File(blocks, gates, output) ==
  LET open(g, b) == LET h == G!circuit_init_scope(g, b[1])
                    IN  FoldLeft(LAMBDA k, v : G!circuit_new_var(k, h.last, v), h, b[2])
      add(g, d) == G!AddAll(G!circuit_add_gate(g, d[1], d[2]), d[1], d[3])
  IN  G!circuit_set_output(FoldLeft(add, FoldLeft(open, G!circuit_init, blocks), gates), output)

\* forall x exists y : y = x
copy ==
  File(<<<<"forall", <<1>>>>, <<"exists", <<2>>>>>>,
       <<<<3, "or", <<1, -2>>>>, <<4, "or", <<-1, 2>>>>, <<5, "and", <<3, 4>>>>>>, 5)
\* exists y forall x : y = x, with a variable that does not occur
no_copy ==
  File(<<<<"exists", <<2, 6>>>>, <<"forall", <<1>>>>>>,
       <<<<3, "or", <<1, -2>>>>, <<4, "or", <<-1, 2>>>>, <<5, "and", <<3, 4>>>>>>, 5)
\* forall x exists y, z : y = x and (x or y or z); z occurs in one polarity only
pure ==
  File(<<<<"forall", <<1>>>>, <<"exists", <<2, 6>>>>>>,
       <<<<3, "or", <<1, -2>>>>, <<4, "or", <<-1, 2>>>>, <<7, "or", <<1, 2, 6>>>>,
         <<5, "and", <<3, 4, 7>>>>>>, 5)
\* forall x exists y forall z exists w : y = x and (x or z or w) and not (z and w); what the
\* inner scopes need of x comes from the outermost one.
four_scopes ==
  File(<<<<"forall", <<1>>>>, <<"exists", <<2>>>>, <<"forall", <<3>>>>, <<"exists", <<4>>>>>>,
       <<<<5, "or", <<1, -2>>>>, <<6, "or", <<-1, 2>>>>, <<7, "or", <<1, 3, 4>>>>,
         <<8, "or", <<-3, -4>>>>, <<9, "and", <<5, 6, 7, 8>>>>>>, 9)
\* forall x exists y : not (not x or (x and y)), with a negated output
negated ==
  File(<<<<"forall", <<1>>>>, <<"exists", <<2>>>>>>,
       <<<<3, "or", <<1, -2>>>>, <<4, "and", <<3, 1, 2>>>>, <<5, "or", <<-1, 4>>>>>>, -5)
\* forall x, u exists y, z : neither x nor u, or one of y and z, where x or y and u or z; both
\* ways of playing y and z win when x and u hold, the mixture of the two does not.
overlapping ==
  File(<<<<"forall", <<1, 2>>>>, <<"exists", <<3, 4>>>>>>,
       <<<<5, "or", <<1, 3>>>>, <<6, "or", <<2, 4>>>>, <<7, "or", <<-3, -4>>>>,
         <<8, "and", <<5, 6, 7>>>>, <<9, "and", <<-1, -2>>>>, <<10, "or", <<8, 9>>>>>>, 10)
SmallFiles == {copy, no_copy, pure, four_scopes, negated, overlapping}
SmallCircuits == {Encode(f, p) : f \in SmallFiles, p \in BOOLEAN}
=============================================================================

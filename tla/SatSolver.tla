------------------------------ MODULE SatSolver ------------------------------
(***************************************************************************)
(* The incremental SAT solver of the libsolve submodule, external to the   *)
(* repository: what the code relies on and no more.  A clause is a set of  *)
(* non-zero integers, an instance a set of clauses.  A satisfiable call    *)
(* may answer any assignment of the variables that the caller asks about   *)
(* which a satisfying one extends, an unsatisfiable call may name any      *)
(* sufficient set of assumptions, minimal or not, as failed.               *)
(***************************************************************************)
EXTENDS Integers, FiniteSetsExt

Opposite(lits) == {-l : l \in lits}
Abs(l) == IF l < 0 THEN -l ELSE l
Atoms(lits) == {Abs(l) : l \in lits}

\* What is left of the clauses when the literals hold.
Under(clauses, lits) == {cl \ Opposite(lits) : cl \in {c \in clauses : c \cap lits = {}}}

\* Every assignment falsifies a clause: set the literals of unit clauses and those that occur
\* in one polarity only, then split.
Units(clauses) == UNION {cl \in clauses : Cardinality(cl) = 1}
Pure(lits) == lits \ Opposite(lits)
Inconsistent(clauses) ==
  LET inconsistent[cls \in SUBSET SUBSET Int] ==
        LET fails(lits) == lits \cap Opposite(lits) # {} \/ inconsistent[Under(cls, lits)]
        IN  \/ {} \in cls
            \/ cls # {} /\ \E easy \in {Units(cls) \cup Pure(UNION cls)} :
                 IF easy # {} THEN fails(easy)
                 ELSE \E l \in {CHOOSE k \in UNION cls : TRUE} : fails({l}) /\ fails({-l})
  IN  {} \in clauses \/ inconsistent[clauses]

Satisfiable(clauses, assumed) == ~Inconsistent(Under(clauses, assumed))

\* The assignments that extend `assumed' to the atoms `named' and to a satisfying assignment.
SatModels(clauses, assumed, named) ==
  LET free == named \ Atoms(assumed)
  IN  {m \in {assumed \cup {IF a \in pos THEN a ELSE -a : a \in free} : pos \in SUBSET free} :
         Satisfiable(clauses, m)}

\* satsolver_failed after an unsatisfiable call that assumed fixed \cup reported: the
\* possible sets of failed assumptions, as far as the caller asks about `reported'.
FailedSets(clauses, fixed, reported) ==
  {f \in SUBSET reported : ~Satisfiable(clauses, fixed \cup f)}
=============================================================================

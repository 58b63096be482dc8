------------------------------ MODULE AnswerProofs ------------------------------
(***************************************************************************)
(* Proofs about the answers of the solver on a prenex circuit: the         *)
(* t-literals that a scope returns say for which assignments of the scopes *)
(* around it the answer holds, the clauses that are made of them exclude   *)
(* no assignment that wins (refine, circuit_abstraction_dual_propagation), *)
(* and the answer at the top level is the truth of the formula.            *)
(***************************************************************************)
EXTENDS InterfaceProofs

-----------------------------------------------------------------------------
(***************************************************************************)
(* The circuit of the solver is one of those that SemanticsProofs is about.*)
(***************************************************************************)
\* The scopes follow each other, and the output depends on all of them.
LEMMA PrenexIsFlat ==
  ASSUME Annotated, Static, Prenex
  PROVE  Flat(circuit)
  <1>1. Shape(circuit) /\ Chain /\ NodeShapes(circuit) /\ NoScopeNodes(circuit)
    BY PrenexChain DEF Static, NoScopeNodes
  <1>2. Scopes(circuit) = 1 .. Len(circuit.scope) /\ Len(circuit.scope) \in Nat
    BY <1>1, ScopeNumbers
  <1>3. \A s \in Scopes(circuit) :
          Children(circuit, s) = IF s + 1 \in Scopes(circuit) THEN {s + 1} ELSE {}
    <2> TAKE s \in Scopes(circuit)
    <2>1. Children(circuit, s) = {t \in Scopes(circuit) \ {TopLevel} : Prev(t) = s}
      BY <1>1, TreeChildren
    <2>2. \A t \in Scopes(circuit) \ {TopLevel} : Prev(t) = t - 1
      BY <1>1, ChainTree
    <2>3. \A t \in Scopes(circuit) : t \in Nat /\ (t - 1 = s <=> t = s + 1)
      BY <1>2
    <2>4. s + 1 # TopLevel
      BY <1>2 DEF TopLevel
    <2> QED
      BY <2>1, <2>2, <2>3, <2>4
  <1>4. \A s \in Scopes(circuit) : circuit.depth[s] = s /\ circuit.max_depth[s] = 0
    BY <1>1, PrenexAnnotations
  <1>5. \A i \in Nodes(circuit) :
          /\ circuit.influences[i] \subseteq Scopes(circuit) /\ circuit.influences[i] # {}
          /\ IsVar(circuit, i) => circuit.influences[i] = {circuit.node[i].scope}
          /\ \A j \in Inputs(circuit, i) : circuit.influences[j] \subseteq circuit.influences[i]
    BY <1>1, PrenexAnnotations, InputInfluences
  <1>6. /\ circuit.output \in Nodes(circuit) /\ IsGate(circuit, circuit.output)
        /\ \A s \in Scopes(circuit) \ {TopLevel} : ScopeVars(circuit, s) # {}
    BY <1>1, PrenexScopes
  <1>7. \A s \in Scopes(circuit) : s <= Deepest(circuit, circuit.output)
    <2> TAKE s \in Scopes(circuit)
    <2>1. /\ Deepest(circuit, circuit.output) \in Scopes(circuit)
          /\ \A t \in circuit.influences[circuit.output] : t <= Deepest(circuit, circuit.output)
      BY <1>2, <1>5, <1>6, MaxIsGreatest DEF Deepest
    <2>2. CASE s = TopLevel
      BY <1>2, <2>1, <2>2 DEF TopLevel
    <2>3. CASE s # TopLevel
      <3>1. PICK i : i \in ScopeVars(circuit, s)
        BY <1>6, <2>3
      <3>2. i \in Nodes(circuit) /\ IsVar(circuit, i) /\ circuit.node[i].scope = s
        BY <3>1 DEF ScopeVars
      <3>3. s \in circuit.influences[i]
        BY <1>5, <3>2
      <3>4. circuit.influences[i] \subseteq circuit.influences[circuit.output]
        BY <1>1, <3>2, OutputInfluences
      <3> QED
        BY <2>1, <3>3, <3>4
    <2> QED
      BY <2>2, <2>3
  <1> QED
    BY <1>1, <1>3, <1>4, <1>5, <1>6, <1>7 DEF Flat, Prenex

\* Every t-literal comes from the analysis of some gate, and stands for a gate.
LEMMA TLitsAreGates ==
  ASSUME Annotated, Static, Prenex, NEW s \in Scopes(circuit), NEW t \in t_lits[s],
         NEW i, i = TLitToVarId(circuit, t)
  PROVE  /\ i \in Gates(circuit) /\ t = TLit(circuit, i)
         /\ \E g \in Nodes(circuit) : IsGate(circuit, g) /\ i \in AnalyzeGate(circuit, s, g).t
  <1>1. Shape(circuit) /\ \A j \in Nodes(circuit) : ~IsScopeNode(circuit, j)
    BY PrenexChain DEF Static
  <1>2. t \in TLits(circuit, s)
    BY DEF Static
  <1>3. PICK g \in RelevantGates(circuit, s) :
          \E j \in AnalyzeGate(circuit, s, g).t : t = TLit(circuit, j)
    BY <1>1, <1>2 DEF TLits, RelevantScopeNodes, RelevantNodes
  <1>4. PICK j \in AnalyzeGate(circuit, s, g).t : t = TLit(circuit, j)
    BY <1>3
  <1>5. g \in Nodes(circuit) /\ IsGate(circuit, g)
    BY <1>3 DEF RelevantGates, RelevantNodes
  <1>6. j \in {g} \cup GatesOf(g)
    <2> DEFINE t0 == AnalyzeGate(circuit, s, g).t
    <2>1. t0 = IF Innermost(g) < s THEN {}
               ELSE (IF \E m \in VarsOf(g) : Innermost(m) < s THEN {g} ELSE {})
               \cup (IF ~\E m \in Inputs(circuit, g) : Innermost(m) < s THEN {}
                     ELSE IF OnlyGatesBelow(g, s) THEN {g}
                     ELSE {m \in GatesOf(g) : Innermost(m) < s})
      BY <1>1, <1>5, PrenexAnalysis
    <2>2. j \in t0
      BY <1>4
    <2> HIDE DEF t0
    <2> QED
      BY <2>1, <2>2
  <1>7. j \in Gates(circuit)
    BY <1>1, <1>5, <1>6, NodeNumbers DEF Gates, GatesOf
  <1>8. i = j
    BY <1>4, <1>7, Interfaces DEF Gates
  <1> QED
    BY <1>4, <1>5, <1>7, <1>8

\* The gate that a scope's t-literals come from has its t-literal.
LEMMA AnalysisIsTaken ==
  ASSUME Static, Prenex, NEW s \in Scopes(circuit), NEW g \in Nodes(circuit), IsGate(circuit, g)
  PROVE  /\ \A i \in AnalyzeGate(circuit, s, g).t : TLit(circuit, i) \in t_lits[s]
         /\ AnalyzeGate(circuit, s, g).b \subseteq b_lits[s]
  <1>1. g \in RelevantGates(circuit, s)
    BY DEF RelevantGates, RelevantNodes, NodeIsRelevant, Prenex
  <1>2. t_lits[s] = TLits(circuit, s) /\ b_lits[s] = BLits(circuit, s)
    BY DEF Static
  <1> QED
    BY <1>1, <1>2 DEF TLits, BLits

\* A scope takes up whatever its gates depend on from further out.
LEMMA PrenexTakesUp ==
  ASSUME Annotated, Static, Prenex, NEW s \in Scopes(circuit)
  PROVE  TakesUp(circuit, s, t_lits[s])
  <1> SUFFICES ASSUME NEW g \in Nodes(circuit), IsGate(circuit, g), Deepest(circuit, g) >= s
               PROVE  /\ (\E j \in Inputs(circuit, g) :
                            IsVar(circuit, j) /\ Deepest(circuit, j) < s)
                           => TLit(circuit, g) \in t_lits[s]
                      /\ \A j \in Inputs(circuit, g) :
                           IsGate(circuit, j) /\ Deepest(circuit, j) < s =>
                             \/ TLit(circuit, j) \in t_lits[s]
                             \/ /\ TLit(circuit, g) \in t_lits[s]
                                /\ \A m \in Inputs(circuit, g) :
                                     IsVar(circuit, m) \/ Deepest(circuit, m) < s
    BY DEF TakesUp
  <1>1. Shape(circuit) /\ Flat(circuit)
    BY PrenexIsFlat DEF Static
  <1>2. \A i : Innermost(i) = Deepest(circuit, i)
    BY DEF Innermost, Deepest
  <1> DEFINE t == AnalyzeGate(circuit, s, g).t
  <1>3. t = IF Innermost(g) < s THEN {}
            ELSE (IF \E m \in VarsOf(g) : Innermost(m) < s THEN {g} ELSE {})
            \cup (IF ~\E m \in Inputs(circuit, g) : Innermost(m) < s THEN {}
                  ELSE IF OnlyGatesBelow(g, s) THEN {g}
                  ELSE {m \in GatesOf(g) : Innermost(m) < s})
    BY <1>1, PrenexAnalysis
  <1>4. \A i \in t : TLit(circuit, i) \in t_lits[s]
    BY AnalysisIsTaken
  <1>5. ~(Innermost(g) < s)
    <2>1. Deepest(circuit, g) \in Nat /\ s \in Nat
      BY <1>1, FlatDeepest, ScopeNumbers
    <2> QED
      BY <1>2, <2>1
  <1> HIDE DEF t
  <1>6. ASSUME NEW j \in Inputs(circuit, g), IsVar(circuit, j), Deepest(circuit, j) < s
        PROVE  TLit(circuit, g) \in t_lits[s]
    <2>1. g \in t
      BY <1>2, <1>3, <1>5, <1>6 DEF VarsOf
    <2> QED
      BY <1>4, <2>1
  <1>7. ASSUME NEW j \in Inputs(circuit, g), IsGate(circuit, j), Deepest(circuit, j) < s
        PROVE  \/ TLit(circuit, j) \in t_lits[s]
               \/ /\ TLit(circuit, g) \in t_lits[s]
                  /\ \A m \in Inputs(circuit, g) : IsVar(circuit, m) \/ Deepest(circuit, m) < s
    <2>1. CASE OnlyGatesBelow(g, s)
      <3>1. g \in t
        BY <1>2, <1>3, <1>5, <1>7, <2>1
      <3>2. \A m \in Inputs(circuit, g) : IsVar(circuit, m) \/ Deepest(circuit, m) < s
        BY <1>2, <2>1 DEF OnlyGatesBelow, VarsOf
      <3> QED
        BY <1>4, <3>1, <3>2
    <2>2. CASE ~OnlyGatesBelow(g, s)
      <3>1. j \in t
        BY <1>2, <1>3, <1>5, <1>7, <2>2 DEF GatesOf
      <3> QED
        BY <1>4, <3>1
    <2> QED
      BY <2>1, <2>2
  <1> QED
    BY <1>6, <1>7

\* What the next scope takes up without a promise of this scope: this scope has it, too, and
\* nothing of it ends here.
LEMMA PrenexPassesOn ==
  ASSUME Annotated, Static, Prenex, NEW s \in Scopes(circuit), NEW c \in Children(circuit, s),
         NEW t \in t_lits[c], NEW i, i = TLitToVarId(circuit, t), i \notin b_lits[s]
  PROVE  t \in t_lits[s] /\ PassedOn(circuit, s, i)
  <1>1. t \in t_lits[s]
    BY TLitsFromOutside
  <1>2. Shape(circuit) /\ Flat(circuit)
    BY PrenexIsFlat DEF Static
  <1>3. c = s + 1 /\ c \in Scopes(circuit) /\ s \in Nat
    BY <1>2, ScopeNumbers DEF Flat
  <1>4. \A j : Innermost(j) = Deepest(circuit, j)
    BY DEF Innermost, Deepest
  <1>5. i \in Nodes(circuit) /\ IsGate(circuit, i)
    BY <1>3, TLitsAreGates DEF Gates
  <1>6. PICK g \in Nodes(circuit) : IsGate(circuit, g) /\ i \in AnalyzeGate(circuit, c, g).t
    BY <1>3, TLitsAreGates
  <1>7. \A j \in Nodes(circuit) : Deepest(circuit, j) \in Nat
    BY <1>2, FlatDeepest
  <1>8. /\ i \notin AnalyzeGate(circuit, s, g).b
        /\ i \notin AnalyzeGate(circuit, s, i).b
    BY <1>5, <1>6, AnalysisIsTaken
  <1> DEFINE gb == AnalyzeGate(circuit, s, g).b
             ib == AnalyzeGate(circuit, s, i).b
             gt == AnalyzeGate(circuit, c, g).t
  <1>9. gb = IF Innermost(g) <= s THEN {}
             ELSE (IF \E m \in VarsOf(g) : s \in circuit.influences[m] THEN {g} ELSE {})
             \cup (IF ~\E m \in Inputs(circuit, g) : Innermost(m) = s THEN {}
                   ELSE IF OnlyGatesBelow(g, s + 1) THEN {g}
                   ELSE {m \in GatesOf(g) : Innermost(m) = s})
    BY <1>2, PrenexAnalysis
  <1>10. ib = IF Innermost(i) <= s THEN {}
              ELSE (IF \E m \in VarsOf(i) : s \in circuit.influences[m] THEN {i} ELSE {})
              \cup (IF ~\E m \in Inputs(circuit, i) : Innermost(m) = s THEN {}
                    ELSE IF OnlyGatesBelow(i, s + 1) THEN {i}
                    ELSE {m \in GatesOf(i) : Innermost(m) = s})
    BY <1>2, <1>5, PrenexAnalysis
  <1>11. gt = IF Innermost(g) < s + 1 THEN {}
              ELSE (IF \E m \in VarsOf(g) : Innermost(m) < s + 1 THEN {g} ELSE {})
              \cup (IF ~\E m \in Inputs(circuit, g) : Innermost(m) < s + 1 THEN {}
                    ELSE IF OnlyGatesBelow(g, s + 1) THEN {g}
                    ELSE {m \in GatesOf(g) : Innermost(m) < s + 1})
    BY <1>2, <1>3, PrenexAnalysis
  <1>12. i \in gt /\ i \notin gb /\ i \notin ib
    BY <1>6, <1>8
  <1> HIDE DEF gb, ib, gt
  <1>13. ~(Innermost(g) < s + 1) /\ ~(Innermost(g) <= s)
    <2>1. ~(Innermost(g) < s + 1)
      BY <1>11, <1>12
    <2> QED
      BY <1>3, <1>4, <1>7, <2>1
  <1>14. Deepest(circuit, i) # s
    <2> SUFFICES ASSUME Deepest(circuit, i) = s
                 PROVE  FALSE
      OBVIOUS
    <2>1. i # g
      BY <1>3, <1>4, <1>13
    <2>2. i \in GatesOf(g) /\ ~OnlyGatesBelow(g, s + 1)
      BY <1>11, <1>12, <2>1
    <2>3. i \in gb
      BY <1>4, <1>9, <1>13, <2>2 DEF GatesOf
    <2> QED
      BY <1>12, <2>3
  <1>15. ASSUME Deepest(circuit, i) > s, NEW j \in Inputs(circuit, i), Deepest(circuit, j) = s
         PROVE  /\ ~IsVar(circuit, j)
                /\ \E m \in Inputs(circuit, i) : ~IsVar(circuit, m) /\ Deepest(circuit, m) > s
    <2>1. ~(Innermost(i) <= s)
      BY <1>3, <1>4, <1>5, <1>7, <1>15
    <2>2. ~IsVar(circuit, j)
      <3> SUFFICES ASSUME IsVar(circuit, j)
                   PROVE  FALSE
        OBVIOUS
      <3>1. s \in circuit.influences[j]
        BY <1>2, <1>5, <1>15, FlatDeepest
      <3> QED
        BY <1>10, <1>12, <1>15, <2>1, <3>1 DEF VarsOf
    <2>3. ~OnlyGatesBelow(i, s + 1)
      BY <1>4, <1>10, <1>12, <1>15, <2>1
    <2>4. PICK m \in Inputs(circuit, i) \ VarsOf(i) :
            ~(IsGate(circuit, m) /\ Innermost(m) < s + 1)
      BY <2>3 DEF OnlyGatesBelow
    <2>5. m \in Nodes(circuit) /\ ~IsVar(circuit, m)
      BY <1>2, <1>5, <2>4, NodeNumbers DEF VarsOf
    <2>6. IsGate(circuit, m)
      <3>1. circuit.node[m].type \in {"var", "and", "or", "scope"} /\ ~IsScopeNode(circuit, m)
        BY <1>2, <2>5, NodeNumbers DEF Flat, NoScopeNodes
      <3> QED
        BY <2>5, <3>1 DEF IsVar, IsGate, IsScopeNode
    <2>7. Deepest(circuit, m) > s
      BY <1>3, <1>4, <1>7, <2>4, <2>5, <2>6
    <2> QED
      BY <2>2, <2>5, <2>7
  <1> QED
    BY <1>1, <1>14, <1>15 DEF PassedOn
-----------------------------------------------------------------------------
(***************************************************************************)
(* What clauses and t-literals mean.  A clause of a player's instance is   *)
(* valid if it excludes no assignment after which the player wins, as far  *)
(* as the literals say what is secured.  An answer says that a player      *)
(* loses unless some of its t-literals is secured for that player.         *)
(***************************************************************************)
OuterMoves(s) == Assignments(OuterVars(circuit, s))
OwnMoves(s) == Assignments(ScopeVars(circuit, s))
WinsAfter(s, q, b) == After(circuit, s, b) <=> q = "exists"

Valid(s, q, cl) ==
  /\ cl \subseteq ClauseLits(circuit)
  /\ \A a \in OuterMoves(s), x \in OwnMoves(s) :
       WinsAfter(s, q, a \cup x) => cl \cap Canonical(circuit, q, s, t_lits[s], a, x) # {}

NoneSecured(s, q, E, a) == \A t \in E : ~Secured(circuit, q, s, TLitToVarId(circuit, t), a)
Beaten(s, q, E, x) ==
  \A a \in OuterMoves(s) : NoneSecured(s, q, E, a) => ~WinsAfter(s, q, a \cup x)
Loses(s, q, E) ==
  \A a \in OuterMoves(s) :
    NoneSecured(s, q, E, a) => ~(PrefixHolds(circuit, s, a) <=> q = "exists")

\* The assignments and the literals of one scope, as SemanticsProofs puts them together.
LEMMA MovesOf ==
  ASSUME Annotated, Static, Prenex, NEW s \in Scopes(circuit), NEW q \in Players,
         NEW a \in OuterMoves(s), NEW x \in OwnMoves(s)
  PROVE  /\ Moves(circuit, s, q, t_lits[s], a, x)
         /\ a \cup x \in OuterMoves(s + 1) /\ a \cup x \subseteq Literals(circuit)
         /\ a \subseteq Literals(circuit)
  <1>1. Flat(circuit) /\ TakesUp(circuit, s, t_lits[s])
    BY PrenexIsFlat, PrenexTakesUp
  <1>2. Moves(circuit, s, q, t_lits[s], a, x)
    BY <1>1 DEF Moves, OuterMoves, OwnMoves
  <1>3. a \cup x \in OuterMoves(s + 1) /\ s \in Nat \ {0} /\ s + 1 \in Nat \ {0}
    <2>1. /\ a \cup x \in Assignments(OuterVars(circuit, s + 1))
          /\ s \in Nat \ {0} /\ s + 1 \in Nat \ {0}
      BY ONLY <1>2, MovesTogether
    <2> QED
      BY <2>1 DEF OuterMoves
  <1>4. OuterVars(circuit, s) \subseteq Nodes(circuit)
        /\ OuterVars(circuit, s + 1) \subseteq Nodes(circuit)
    BY <1>1, <1>3, OuterVariables
  <1>5. Shape(circuit)
    BY <1>1 DEF Flat
  <1>6. a \cup x \subseteq Literals(circuit)
    BY <1>3, <1>4, <1>5, AssignedLiterals DEF OuterMoves
  <1> QED
    BY <1>2, <1>3, <1>6

\* The clauses that an instance starts with are valid.
LEMMA EncodingIsValid ==
  ASSUME Annotated, Static, Prenex, NEW s \in Scopes(circuit), NEW q \in Players, NEW B,
         NEW cl \in BuildSatInstance(circuit, s, q, B, t_lits[s])
  PROVE  Valid(s, q, cl)
  <1>1. cl \subseteq ClauseLits(circuit)
    BY EncodingLits DEF Static
  <1>2. ASSUME NEW a \in OuterMoves(s), NEW x \in OwnMoves(s), WinsAfter(s, q, a \cup x)
        PROVE  cl \cap Canonical(circuit, q, s, t_lits[s], a, x) # {}
    <2>1. Moves(circuit, s, q, t_lits[s], a, x) /\ a \cup x \in OuterMoves(s + 1)
      BY MovesOf
    <2>2. NotYetLost(circuit, q, s)
      BY PrenexIsFlat, NotLost
    <2>3. DecidedFor(circuit, q, circuit.output, a \cup x) # -1
      BY <1>2, <2>1, <2>2 DEF NotYetLost, OuterMoves, WinsAfter
    <2> DEFINE M == Canonical(circuit, q, s, t_lits[s], a, x)
    <2>4. Meets(M, BuildSatInstance(circuit, s, q, B, t_lits[s]))
      <3> HIDE DEF M
      <3>1. M = Canonical(circuit, q, s, t_lits[s], a, x)
        BY DEF M
      <3> QED
        BY <2>1, <2>3, <3>1, CanonicalMeets
    <2> QED
      BY <2>4 DEF Meets
  <1> QED
    BY <1>1, <1>2 DEF Valid

\* A refutation of valid clauses, under some of an assignment of the scope's variables and
\* its t-literals, says which t-literals the opponent could not do without.
LEMMA RefutationBeats ==
  ASSUME Annotated, Static, Prenex, NEW s \in Scopes(circuit), NEW q \in Players,
         NEW clauses, \A cl \in clauses : Valid(s, q, cl),
         NEW x \in OwnMoves(s), NEW own, own \subseteq x,
         NEW on, on \subseteq t_lits[s],
         NEW failed, failed \subseteq Opposite(t_lits[s] \ on),
         ~Satisfiable(clauses, own \cup on \cup failed)
  PROVE  Beaten(s, q, Opposite(failed), x)
  <1> SUFFICES ASSUME NEW a \in OuterMoves(s), NoneSecured(s, q, Opposite(failed), a),
                      WinsAfter(s, q, a \cup x)
               PROVE  FALSE
    BY DEF Beaten
  <1> PICK T : T = t_lits[s]
    OBVIOUS
  <1> PICK M : M = Canonical(circuit, q, s, T, a, x)
    OBVIOUS
  <1>1. Moves(circuit, s, q, T, a, x) /\ Shape(circuit)
    BY MovesOf DEF Static
  <1>2. clauses \in Instances /\ FiniteClauses(clauses)
    BY <1>1, ClausesAreFinite DEF Valid
  <1>3. \A cl \in clauses : cl \cap M # {} /\ \A l \in cl : l >= -MaxNum(circuit)
    <2>1. \A l \in ClauseLits(circuit) : l >= -MaxNum(circuit)
      <3>1. MaxNum(circuit) \in Nat
        BY <1>1, NodeNumbers
      <3> QED
        BY <3>1 DEF ClauseLits
    <2> QED
      BY <2>1 DEF Valid
  <1>4. \A t \in T : \E i \in Gates(circuit) : t = TLit(circuit, i)
    BY TLitsAreGates
  <1>5. \A t \in T : t \in Int
    BY Interfaces
  <1>6. failed \subseteq Opposite(T) /\ failed \cap Opposite(on) = {}
    BY <1>5 DEF Opposite
  <1>7. on \subseteq T
    OBVIOUS
  <1>8. \E t \in Opposite(failed) : t \in T /\ Secured(circuit, q, s, TLitToVarId(circuit, t), a)
    <2>1. own \subseteq x /\ ~Satisfiable(clauses, own \cup on \cup failed)
      OBVIOUS
    <2>2. M = Canonical(circuit, q, s, T, a, x)
      OBVIOUS
    <2>3. clauses \in Instances
      BY <1>2
    <2>4. Moves(circuit, s, q, T, a, x)
      BY <1>1
    <2>5. FiniteClauses(clauses)
      BY <1>2
    <2>6. failed \subseteq Opposite(T)
      BY <1>6
    <2>7. failed \cap Opposite(on) = {}
      BY <1>6
    <2> QED
      BY ONLY <2>4, <2>3, <2>5, <1>3, <1>4, <2>6, <2>7, <1>7, <2>1, <2>2, RefutedSays
  <1> QED
    BY <1>8 DEF NoneSecured

\* A player who has no winning move loses.
LEMMA NoMoveLoses ==
  ASSUME Annotated, Static, Prenex, NEW s \in Scopes(circuit), NEW q \in Players, NEW E,
         \A x \in OwnMoves(s) : Beaten(s, q, E, x)
  PROVE  Loses(s, q, E)
  <1> SUFFICES ASSUME NEW a \in OuterMoves(s), NoneSecured(s, q, E, a)
               PROVE  ~(PrefixHolds(circuit, s, a) <=> q = "exists")
    BY DEF Loses
  <1>1. a \subseteq Literals(circuit)
    <2>1. PICK x : x \in OwnMoves(s)
      BY AssignmentsExist DEF OwnMoves
    <2> QED
      BY <2>1, MovesOf
  <1>2. PICK x \in OwnMoves(s) : After(circuit, s, a \cup x) = PrefixHolds(circuit, s, a)
    BY <1>1, PrenexIsFlat, SomeAssignment DEF OwnMoves
  <1>3. ~WinsAfter(s, q, a \cup x)
    BY DEF Beaten
  <1> QED
    BY <1>2, <1>3 DEF WinsAfter

\* A player whose opponent moves and has a winning move loses.
LEMMA MoveBeats ==
  ASSUME Annotated, Static, Prenex, NEW s \in Scopes(circuit), NEW E,
         NEW x \in OwnMoves(s), Beaten(s, Dual(QType(s)), E, x)
  PROVE  Loses(s, Dual(QType(s)), E)
  <1> SUFFICES ASSUME NEW a \in OuterMoves(s), NoneSecured(s, Dual(QType(s)), E, a)
               PROVE  ~(PrefixHolds(circuit, s, a) <=> Dual(QType(s)) = "exists")
    BY DEF Loses
  <1>1. QType(s) \in Players /\ QType(s) = circuit.scope[s].qtype
    BY PrenexScopes DEF Static, Players, QType
  <1>2. a \subseteq Literals(circuit) /\ \A y \in OwnMoves(s) : a \cup y \subseteq Literals(circuit)
    BY <1>1, MovesOf
  <1>3. /\ PrefixHolds(circuit, s, a) \in BOOLEAN
        /\ \A y \in OwnMoves(s) : After(circuit, s, a \cup y) \in BOOLEAN
        /\ circuit.scope[s].qtype = "exists" =>
             PrefixHolds(circuit, s, a) = \E y \in OwnMoves(s) : After(circuit, s, a \cup y)
        /\ circuit.scope[s].qtype # "exists" =>
             PrefixHolds(circuit, s, a) = \A y \in OwnMoves(s) : After(circuit, s, a \cup y)
    BY <1>2, PrenexIsFlat, PrefixScope DEF OwnMoves
  <1>4. ~(After(circuit, s, a \cup x) <=> Dual(QType(s)) = "exists")
    BY DEF Beaten, WinsAfter
  <1> QED
    BY <1>1, <1>3, <1>4 DEF Dual, Players

\* What a child answered makes a valid clause, translated to the literals of the scope.
LEMMA AnswerIsValid ==
  ASSUME Annotated, Static, Prenex, NEW s \in Scopes(circuit), NEW c \in Children(circuit, s),
         NEW q \in Players, NEW E, E \subseteq t_lits[c], NEW F, F \subseteq E, Loses(c, q, F)
  PROVE  Valid(s, q, Translated(circuit, b_lits[s], E))
  <1>1. Flat(circuit) /\ Shape(circuit)
    BY PrenexIsFlat DEF Static
  <1>2. c = s + 1 /\ c \in Scopes(circuit)
    BY <1>1 DEF Flat
  <1>3. \A t \in E : /\ TLitToVarId(circuit, t) \in Gates(circuit)
                     /\ t = TLit(circuit, TLitToVarId(circuit, t))
    BY <1>2, TLitsAreGates
  <1>4. Translated(circuit, b_lits[s], E) \subseteq ClauseLits(circuit)
    <2>1. MaxNum(circuit) \in Nat /\ Nodes(circuit) = 1 .. MaxNum(circuit)
      BY <1>1, NodeNumbers DEF Nodes
    <2>2. \A i \in Nodes(circuit) :
            i \in ClauseLits(circuit) /\ TLit(circuit, i) \in ClauseLits(circuit)
      BY <2>1 DEF ClauseLits, TLit
    <2> QED
      BY <1>3, <2>2 DEF Translated, Gates
  <1>5. ASSUME NEW a \in OuterMoves(s), NEW x \in OwnMoves(s), WinsAfter(s, q, a \cup x)
        PROVE  Translated(circuit, b_lits[s], E) \cap Canonical(circuit, q, s, t_lits[s], a, x) # {}
    <2>1. Moves(circuit, s, q, t_lits[s], a, x) /\ a \cup x \in OuterMoves(c)
      BY <1>2, MovesOf
    <2>2. PrefixHolds(circuit, c, a \cup x) <=> q = "exists"
      BY <1>2, <1>5 DEF WinsAfter, After
    <2>3. PICK t \in F : Secured(circuit, q, c, TLitToVarId(circuit, t), a \cup x)
      BY <2>1, <2>2 DEF Loses, NoneSecured
    <2> PICK i : i = TLitToVarId(circuit, t)
      OBVIOUS
    <2>4. i \in Gates(circuit) /\ t = TLit(circuit, i) /\ t \in E /\ t \in t_lits[c]
      BY <1>3
    <2>5. i \notin b_lits[s] => t \in t_lits[s] /\ PassedOn(circuit, s, i)
      BY <2>4, PrenexPassesOn
    <2>6. Secured(circuit, q, s + 1, i, a \cup x)
      BY <1>2, <2>3
    <2> PICK M : M = Canonical(circuit, q, s, t_lits[s], a, x)
      OBVIOUS
    <2>7. Translated(circuit, b_lits[s], E) \cap M # {}
      BY <2>1, <2>4, <2>5, <2>6, TranslatedMet
    <2> QED
      BY <2>7
  <1> QED
    BY <1>4, <1>5 DEF Valid
-----------------------------------------------------------------------------
(***************************************************************************)
(* The players of the scopes, and what depends on the circuit only.        *)
(***************************************************************************)
\* The quantifiers alternate, beginning with an existential one.
LEMMA Alternation ==
  ASSUME Annotated, Static, Prenex
  PROVE  /\ QType(TopLevel) = "exists"
         /\ \A s \in Scopes(circuit) :
              /\ QType(s) \in Players /\ Dual(QType(s)) \in Players
              /\ Dual(QType(s)) # QType(s) /\ Dual(Dual(QType(s))) = QType(s)
              /\ \A c \in Children(circuit, s) :
                   c \in Scopes(circuit) /\ QType(c) = Dual(QType(s))
  <1>1. PICK c \in Circuits : circuit = Annotate(c)
    BY DEF Annotated
  <1>2. circuit.node = c.node /\ circuit.scope = c.scope
    BY <1>1 DEF Annotate
  <1>3. Scopes(c) = Scopes(circuit)
    BY <1>2 DEF Scopes
  <1>4. /\ c.scope[TopLevel].qtype = "exists"
        /\ \A s \in Scopes(c) \ {TopLevel} :
             c.scope[s].qtype = Dual(c.scope[c.scope[s].prev].qtype)
    BY CircuitsWellFormed DEF WellFormed
  <1>5. /\ QType(TopLevel) = "exists"
        /\ \A s \in Scopes(circuit) \ {TopLevel} : QType(s) = Dual(QType(Prev(s)))
    BY <1>2, <1>3, <1>4 DEF QType, Prev
  <1>6. \A s \in Scopes(circuit) : QType(s) \in Players
    BY PrenexScopes DEF Static, Players
  <1>7. \A q \in Players : Dual(q) \in Players /\ Dual(q) # q /\ Dual(Dual(q)) = q
    BY DEF Players, Dual
  <1>8. ASSUME NEW s \in Scopes(circuit), NEW d \in Children(circuit, s)
        PROVE  d \in Scopes(circuit) /\ QType(d) = Dual(QType(s))
    <2>1. d \in Scopes(circuit) \ {TopLevel} /\ Prev(d) = s
      BY <1>8, TreeChildren DEF Static
    <2> QED
      BY <1>5, <2>1
  <1> QED
    BY <1>5, <1>6, <1>7, <1>8

\* Validity is about the circuit and its interfaces.
LEMMA SameMeaning ==
  ASSUME UNCHANGED config
  PROVE  /\ \A s, q, cl : Valid(s, q, cl)' <=> Valid(s, q, cl)
         /\ \A s, q, E : Loses(s, q, E)' <=> Loses(s, q, E)
         /\ \A s, q, E, x : Beaten(s, q, E, x)' <=> Beaten(s, q, E, x)
         /\ \A s : OwnMoves(s)' = OwnMoves(s)
  <1>1. circuit' = circuit /\ b_lits' = b_lits /\ t_lits' = t_lits
    BY DEF config
  <1>2. \A s : OwnMoves(s)' = OwnMoves(s) /\ OuterMoves(s)' = OuterMoves(s)
    BY <1>1 DEF OwnMoves, OuterMoves
  <1>3. \A s, q, b : WinsAfter(s, q, b)' <=> WinsAfter(s, q, b)
    BY <1>1 DEF WinsAfter
  <1>4. \A s, q, E, a : NoneSecured(s, q, E, a)' <=> NoneSecured(s, q, E, a)
    BY <1>1 DEF NoneSecured
  <1>5. \A s, q, cl : Valid(s, q, cl)' <=> Valid(s, q, cl)
    BY <1>1, <1>2, <1>3 DEF Valid
  <1>6. \A s, q, E : Loses(s, q, E)' <=> Loses(s, q, E)
    BY <1>1, <1>2, <1>4 DEF Loses
  <1>7. \A s, q, E, x : Beaten(s, q, E, x)' <=> Beaten(s, q, E, x)
    BY <1>1, <1>2, <1>3, <1>4 DEF Beaten
  <1> QED
    BY <1>2, <1>5, <1>6, <1>7

\* What the SAT solver answers assigns the variables of the scope.
LEMMA ProposalMoves ==
  ASSUME IInv, NEW s \in Scopes(circuit), NEW mm \in Models(s), NEW m, m = ObservedLits(s, mm)
  PROVE  AssignedLits(s, m) \in OwnMoves(s)
  <1> DEFINE V == ScopeVars(circuit, s)
             pos == {i \in V : i \in m}
  <1>1. /\ Assignment(circuit, s, m)
        /\ \A i \in V : i \in m \/ -i \in m
    BY ProposalAssigns DEF IInv
  <1>2. V \subseteq Nodes(circuit) /\ Nodes(circuit) \subseteq Nat \ {0}
    BY Interfaces DEF ScopeVars, IInv
  <1>3. \A l \in m : l \in Int /\ -l \notin m
    BY <1>1 DEF Assignment
  <1>4. AssignedLits(s, m) = {IF v \in pos THEN v ELSE -v : v \in V}
    <2>1. ASSUME NEW l \in AssignedLits(s, m)
          PROVE  l \in {IF v \in pos THEN v ELSE -v : v \in V}
      <3>1. l \in m /\ Abs(l) \in V /\ l \in Int /\ -l \notin m
        BY <1>3, <2>1 DEF AssignedLits
      <3>2. l = Abs(l) \/ l = -Abs(l)
        BY <3>1 DEF Abs
      <3>3. -(-Abs(l)) = Abs(l)
        BY <3>1 DEF Abs
      <3>4. CASE l = Abs(l)
        BY <3>1, <3>4
      <3>5. CASE l = -Abs(l)
        <4>1. Abs(l) \notin pos
          BY <3>1, <3>3, <3>5
        <4> QED
          BY <3>1, <3>5, <4>1
      <3> QED
        BY <3>2, <3>4, <3>5
    <2>2. ASSUME NEW v \in V
          PROVE  (IF v \in pos THEN v ELSE -v) \in AssignedLits(s, m)
      <3>1. Abs(v) = v /\ Abs(-v) = v
        BY <1>2 DEF Abs
      <3> QED
        BY <1>1, <3>1 DEF AssignedLits
    <2> QED
      BY <2>1, <2>2
  <1> QED
    BY <1>4 DEF OwnMoves, Assignments

-----------------------------------------------------------------------------
(***************************************************************************)
(* The invariant: what the solver keeps of a scope is valid, and an answer *)
(* says what it should.                                                    *)
(***************************************************************************)
ValidInstances(s) ==
  /\ \A cl \in sat[s] : Valid(s, QType(s), cl)
  /\ \A cl \in negation[s] : Valid(s, Dual(QType(s)), cl)

\* The proposal assigns the scope's variables, and once the child agreed, its reasons are
\* reasons for that.
ValidRound(s) ==
  /\ pc[s] \in {"children", "called", "good"} => AssignedLits(s, model[s]) \in OwnMoves(s)
  /\ InLoop(s) /\ index[s] > 1 /\ result[s] = "good" =>
       Valid(s, Dual(QType(s)), DualClause(s))

ValidAnswer(s) ==
  /\ pc[s] = "bad" => Loses(s, QType(s), entry[s])
  /\ pc[s] = "good" => Beaten(s, Dual(QType(s)), entry[s], AssignedLits(s, model[s]))

Answers(s) == ValidInstances(s) /\ ValidRound(s) /\ ValidAnswer(s)
AInv == DOMAIN negation = Scopes(circuit) /\ \A s \in Scopes(circuit) : Answers(s)

\* A step that neither makes a scope answer nor goes on with its loop leaves that valid.
LEMMA KeptAnswers ==
  ASSUME UNCHANGED config, NEW u, Answers(u),
         sat'[u] = sat[u], negation'[u] = negation[u], model'[u] = model[u],
         pc'[u] \in {"good", "bad"} => pc'[u] = pc[u] /\ entry'[u] = entry[u],
         InLoop(u)' => /\ InLoop(u) /\ index'[u] = index[u] /\ result'[u] = result[u]
                       /\ local_unsat_core'[u] = local_unsat_core[u]
  PROVE  Answers(u)'
  <1>1. circuit' = circuit /\ b_lits' = b_lits /\ t_lits' = t_lits
    BY DEF config
  <1>2. QType(u)' = QType(u) /\ AssignedLits(u, model[u])' = AssignedLits(u, model[u])
        /\ Dual(QType(u))' = Dual(QType(u))
    BY <1>1 DEF QType, AssignedLits
  <1>3. ValidInstances(u)'
    BY <1>2, SameMeaning DEF Answers, ValidInstances
  <1>4. InLoop(u)' => DualClause(u)' = DualClause(u)
    BY <1>1 DEF DualClause
  <1>5. pc'[u] \in {"children", "called"} => pc[u] \in {"children", "called"}
    BY DEF InLoop
  <1>6. ValidRound(u)'
    <2>1. ASSUME pc'[u] \in {"children", "called", "good"}
          PROVE  (AssignedLits(u, model[u]) \in OwnMoves(u))'
      <3>1. pc[u] \in {"children", "called", "good"}
        BY <1>5, <2>1
      <3> QED
        BY <1>2, <3>1, SameMeaning DEF Answers, ValidRound
    <2>2. ASSUME InLoop(u)', index'[u] > 1, result'[u] = "good"
          PROVE  Valid(u, Dual(QType(u)), DualClause(u))'
      <3>1. Valid(u, Dual(QType(u)), DualClause(u))
        BY <2>2 DEF Answers, ValidRound
      <3> QED
        BY <1>2, <1>4, <2>2, <3>1, SameMeaning
    <2> QED
      BY <2>1, <2>2 DEF ValidRound
  <1>7. ValidAnswer(u)'
    BY <1>2, SameMeaning DEF Answers, ValidAnswer
  <1> QED
    BY <1>3, <1>6, <1>7 DEF Answers

\* A scope answers after its dual instance was asked, or fails.
LEMMA DualAnswerValid ==
  ASSUME IInv, Annotated, Prenex, AInv, NEW s \in Scopes(circuit), NEW m,
         AssignedLits(s, m) \in OwnMoves(s), DualPropagation(s, m),
         UNCHANGED <<config, sat, local_unsat_core, result, index>>,
         model'[s] = m, \A u \in Scopes(circuit) \ {s} : model'[u] = model[u],
         IsLeaf(s) \/ (InLoop(s) /\ index[s] > 1 /\ result[s] = "good")
  PROVE  AInv'
  <1> PICK q : q = Dual(QType(s))
    OBVIOUS
  <1> PICK dual : dual = negation[s] \cup (IF IsLeaf(s) THEN {} ELSE {DualClause(s)})
    OBVIOUS
  <1> PICK own : own = AssignedLits(s, m) \ Negative(AssumedTDual(s))
    OBVIOUS
  <1> PICK on : on = t_lits[s] \ entry[s]
    OBVIOUS
  <1>1. /\ Static /\ PerScope /\ circuit' = circuit /\ q \in Players
        /\ Answers(s)
    BY Alternation DEF IInv, config, AInv
  <1>2. /\ entry[s] \subseteq t_lits[s] /\ t_lits[s] \subseteq Nat \ {0}
    BY <1>1, Types, Interfaces
  <1>3. \A cl \in dual : Valid(s, q, cl)
    BY <1>1 DEF Answers, ValidInstances, ValidRound
  <1>4. /\ AssumedTDual(s) = Opposite(entry[s]) \cup on
        /\ Negative(AssumedTDual(s)) = Opposite(entry[s])
        /\ t_lits[s] \ on = entry[s] /\ on \subseteq t_lits[s]
    <2>1. t_lits[s] \ on = entry[s] /\ on \subseteq t_lits[s]
      BY <1>2
    <2>2. AssumedTDual(s) = Opposite(entry[s]) \cup on
      <3>1. \A l \in on : -(-l) = l
        BY <1>2, <2>1
      <3> QED
        BY <3>1 DEF AssumedTDual, AssumedT, Opposite
    <2>3. Negative(AssumedTDual(s)) = Opposite(entry[s])
      BY <1>2, <2>1, <2>2 DEF Negative, Opposite
    <2> QED
      BY <2>1, <2>2, <2>3
  <1>5. /\ negation' = [negation EXCEPT ![s] = dual]
        /\ \/ pc' = [pc EXCEPT ![s] = "abort"] /\ entry' = entry
           \/ /\ pc' = [pc EXCEPT ![s] = "good"]
              /\ \E failed \in FailedSets(dual,
                                 (AssignedLits(s, m) \cup AssumedTDual(s))
                                   \ Negative(AssumedTDual(s)), Negative(AssumedTDual(s))) :
                   entry' = [entry EXCEPT ![s] = Opposite(failed)]
    BY DEF DualPropagation
  <1>6. /\ negation'[s] = dual /\ DOMAIN negation' = Scopes(circuit)
        /\ \A u \in Scopes(circuit) \ {s} : negation'[u] = negation[u]
    BY <1>5 DEF AInv
  <1>7. /\ \A u \in Scopes(circuit) \ {s} : pc'[u] = pc[u] /\ entry'[u] = entry[u]
        /\ pc'[s] \in {"good", "abort"}
    BY <1>1, <1>5, Types DEF PerScope
  <1>8. \A u \in Scopes(circuit) \ {s} : Answers(u)'
    BY <1>6, <1>7, KeptAnswers DEF AInv, InLoop
  <1>9. QType(s)' = QType(s) /\ AssignedLits(s, model[s])' = AssignedLits(s, m)
        /\ Dual(QType(s))' = q
    BY <1>1 DEF QType, AssignedLits
  <1>10. ValidInstances(s)'
    BY <1>1, <1>3, <1>6, <1>9, SameMeaning DEF Answers, ValidInstances
  <1>11. ValidRound(s)'
    BY <1>7, <1>9, SameMeaning DEF ValidRound, InLoop
  <1>12. ASSUME pc'[s] = "good"
         PROVE  Beaten(s, q, entry'[s], AssignedLits(s, m))
    <2>1. pc' # [pc EXCEPT ![s] = "abort"]
      BY <1>12, Types
    <2>2. PICK failed \in FailedSets(dual, (AssignedLits(s, m) \cup AssumedTDual(s))
                                       \ Negative(AssumedTDual(s)), Negative(AssumedTDual(s))) :
            entry' = [entry EXCEPT ![s] = Opposite(failed)]
      BY <1>5, <2>1
    <2>3. entry'[s] = Opposite(failed)
      BY <1>1, <2>2 DEF PerScope
    <2>4. /\ failed \subseteq Opposite(entry[s])
          /\ ~Satisfiable(dual, ((AssignedLits(s, m) \cup AssumedTDual(s))
                                   \ Negative(AssumedTDual(s))) \cup failed)
      BY <1>4, <2>2 DEF FailedSets
    <2>5. ((AssignedLits(s, m) \cup AssumedTDual(s)) \ Negative(AssumedTDual(s))) \cup failed
            = own \cup on \cup failed
      <3>1. on \cap Opposite(entry[s]) = {}
        BY <1>2, <1>4 DEF Opposite
      <3> QED
        BY <1>4, <3>1
    <2>6. ~Satisfiable(dual, own \cup on \cup failed) /\ own \subseteq AssignedLits(s, m)
      BY <2>4, <2>5
    <2>7. Beaten(s, q, Opposite(failed), AssignedLits(s, m))
      <3>1. failed \subseteq Opposite(t_lits[s] \ on)
        BY <1>4, <2>4
      <3> QED
        BY <1>1, <1>3, <1>4, <2>6, <3>1, RefutationBeats
    <2> QED
      BY <2>3, <2>7
  <1>13. ValidAnswer(s)'
    BY <1>7, <1>9, <1>12, SameMeaning DEF ValidAnswer
  <1> QED
    BY <1>1, <1>6, <1>8, <1>10, <1>11, <1>13 DEF AInv, Answers
\* The innermost scope finds a model.
LEMMA SolveLeafValid ==
  ASSUME IInv, Annotated, Prenex, AInv, NEW s \in Scopes(circuit), SolveLeaf(s)
  PROVE  AInv'
  <1>1. PICK mm \in Models(s) : /\ model' = [model EXCEPT ![s] = ObservedLits(s, mm)]
                                /\ DualPropagation(s, ObservedLits(s, mm))
    BY DEF SolveLeaf
  <1> PICK m : m = ObservedLits(s, mm)
    OBVIOUS
  <1>2. AssignedLits(s, m) \in OwnMoves(s)
    BY ProposalMoves
  <1>3. model'[s] = m /\ \A u \in Scopes(circuit) \ {s} : model'[u] = model[u]
    BY <1>1 DEF IInv, PerScope
  <1>4. IsLeaf(s) /\ UNCHANGED <<config, sat, local_unsat_core, result, index>>
    BY DEF SolveLeaf
  <1>5. DualPropagation(s, m)
    BY <1>1
  <1>6. IsLeaf(s) \/ (InLoop(s) /\ index[s] > 1 /\ result[s] = "good")
    BY <1>4
  <1>7. UNCHANGED <<config, sat, local_unsat_core, result, index>>
    BY <1>4
  <1>8. model'[s] = m
    BY <1>3
  <1>9. \A u \in Scopes(circuit) \ {s} : model'[u] = model[u]
    BY <1>3
  <1>10. IInv /\ Annotated /\ Prenex /\ AInv
    OBVIOUS
  <1> QED
    BY ONLY <1>2, <1>5, <1>6, <1>7, <1>8, <1>9, <1>10, s \in Scopes(circuit), DualAnswerValid

\* Every child agreed, so the reasons of the last one are in.
LEMMA AllAgreedValid ==
  ASSUME IInv, Annotated, Prenex, AInv, NEW s \in Scopes(circuit), ~IsLeaf(s), AllAgreed(s)
  PROVE  AInv'
  <1>1. /\ pc[s] = "children" /\ index[s] > NumNext(s) /\ result[s] = "good"
        /\ DualPropagation(s, model[s]) /\ model' = model
        /\ UNCHANGED <<config, sat, local_unsat_core, result, index>>
    BY DEF AllAgreed
  <1>2. index[s] > 1 /\ InLoop(s)
    BY <1>1, Types DEF IsLeaf, InLoop
  <1>3. AssignedLits(s, model[s]) \in OwnMoves(s)
    BY <1>1 DEF AInv, Answers, ValidRound
  <1> QED
    BY <1>1, <1>2, <1>3, DualAnswerValid

\* The instance refuses every proposal: the scope loses.
LEMMA SolveUnsatValid ==
  ASSUME IInv, Annotated, Prenex, AInv, NEW s \in Scopes(circuit), SolveUnsat(s)
  PROVE  AInv'
  <1> PICK q : q = QType(s)
    OBVIOUS
  <1> PICK on : on = entry[s]
    OBVIOUS
  <1>1. /\ Static /\ PerScope /\ circuit' = circuit /\ q \in Players /\ Answers(s)
        /\ UNCHANGED config
    BY Alternation DEF IInv, config, AInv, SolveUnsat
  <1>2. /\ on \subseteq t_lits[s] /\ t_lits[s] \subseteq Nat \ {0}
    BY <1>1, Types, Interfaces
  <1>3. /\ AssumedT(s) = on \cup Opposite(t_lits[s] \ on)
        /\ Negative(AssumedT(s)) = Opposite(t_lits[s] \ on)
        /\ AssumedT(s) \ Negative(AssumedT(s)) = on
    <2>1. AssumedT(s) = on \cup Opposite(t_lits[s] \ on)
      BY DEF AssumedT
    <2>2. Negative(AssumedT(s)) = Opposite(t_lits[s] \ on)
      BY <1>2, <2>1 DEF Negative, Opposite
    <2>3. on \cap Opposite(t_lits[s] \ on) = {}
      BY <1>2 DEF Opposite
    <2> QED
      BY <2>1, <2>2, <2>3
  <1>4. PICK failed \in FailedSets(sat[s], AssumedT(s) \ Negative(AssumedT(s)),
                                   Negative(AssumedT(s))) :
          entry' = [entry EXCEPT ![s] = Opposite(failed)]
    BY DEF SolveUnsat
  <1>5. /\ failed \subseteq Opposite(t_lits[s] \ on)
        /\ ~Satisfiable(sat[s], on \cup failed)
    BY <1>3, <1>4 DEF FailedSets
  <1>6. pc' = [pc EXCEPT ![s] = "bad"] /\ sat' = sat /\ negation' = negation /\ model' = model
        /\ UNCHANGED <<local_unsat_core, result, index>>
    BY DEF SolveUnsat
  <1>7. /\ \A u \in Scopes(circuit) \ {s} : pc'[u] = pc[u] /\ entry'[u] = entry[u]
        /\ pc'[s] = "bad" /\ entry'[s] = Opposite(failed)
    BY <1>1, <1>4, <1>6, Types DEF PerScope
  <1>8. \A u \in Scopes(circuit) \ {s} : Answers(u)'
    BY <1>1, <1>6, <1>7, KeptAnswers DEF AInv, InLoop
  <1>9. QType(s)' = q /\ Dual(QType(s))' = Dual(q)
    BY <1>1 DEF QType
  <1>10. ValidInstances(s)'
    BY <1>1, <1>6, <1>9, SameMeaning DEF Answers, ValidInstances
  <1>11. ValidRound(s)'
    BY <1>7 DEF ValidRound, InLoop
  <1>12. Loses(s, q, Opposite(failed))
    <2>1. \A cl \in sat[s] : Valid(s, q, cl)
      BY <1>1 DEF Answers, ValidInstances
    <2>2. ~Satisfiable(sat[s], {} \cup on \cup failed)
      BY <1>5
    <2>3. ASSUME NEW x \in OwnMoves(s)
          PROVE  Beaten(s, q, Opposite(failed), x)
      BY <1>1, <1>2, <1>5, <2>1, <2>2, RefutationBeats
    <2> QED
      BY <1>1, <2>3, NoMoveLoses
  <1>13. ValidAnswer(s)'
    BY <1>1, <1>7, <1>9, <1>12, SameMeaning DEF ValidAnswer
  <1> QED
    BY <1>1, <1>6, <1>8, <1>10, <1>11, <1>13 DEF AInv, Answers

\* The scope proposes; its children, which are entered, have no answer.
LEMMA SolveInnerValid ==
  ASSUME IInv, Annotated, Prenex, AInv, NEW s \in Scopes(circuit), SolveInner(s)
  PROVE  AInv'
  <1>1. PICK mm \in Models(s) : model' = [model EXCEPT ![s] = ObservedLits(s, mm)]
    BY DEF SolveInner
  <1> PICK m : m = ObservedLits(s, mm)
    OBVIOUS
  <1>2. AssignedLits(s, m) \in OwnMoves(s)
    BY ProposalMoves
  <1>3. /\ pc[s] = "solve" /\ pc' = [pc EXCEPT ![s] = "children"] /\ UNCHANGED config
        /\ sat' = sat /\ negation' = negation /\ circuit' = circuit
        /\ result' = [result EXCEPT ![s] = "good"]
        /\ local_unsat_core' = [local_unsat_core EXCEPT ![s] = {}]
        /\ index' = [index EXCEPT ![s] = 1]
        /\ \A u \in Scopes(circuit) \ Children(circuit, s) : entry'[u] = entry[u]
    BY DEF SolveInner, config
  <1>4. Static /\ PerScope /\ Answers(s)
    BY DEF IInv, AInv
  <1>5. ASSUME NEW u \in Children(circuit, s)
        PROVE  u \in Scopes(circuit) \ {s} /\ pc[u] = "idle"
    <2>1. u \in Scopes(circuit) \ {TopLevel} /\ Prev(u) = s
      BY <1>4, TreeChildren DEF Static
    <2>2. u # s
      BY <1>4, <2>1, Tree DEF Static
    <2>3. CalledByParent(u)
      BY <2>1, Types DEF CallsMatch
    <2> QED
      BY <1>3, <2>1, <2>2, <2>3 DEF CalledByParent
  <1>6. /\ \A u \in Scopes(circuit) \ {s} :
             /\ pc'[u] = pc[u] /\ model'[u] = model[u] /\ index'[u] = index[u]
             /\ result'[u] = result[u] /\ local_unsat_core'[u] = local_unsat_core[u]
        /\ pc'[s] = "children" /\ model'[s] = m /\ index'[s] = 1
    BY <1>1, <1>3, <1>4, Types DEF PerScope
  <1>7. \A u \in Scopes(circuit) \ {s} : Answers(u)'
    <2> SUFFICES ASSUME NEW u \in Scopes(circuit) \ {s}
                 PROVE  Answers(u)'
      OBVIOUS
    <2>1. pc'[u] \in {"good", "bad"} => pc'[u] = pc[u] /\ entry'[u] = entry[u]
      BY <1>3, <1>5, <1>6
    <2> QED
      BY <1>3, <1>6, <2>1, KeptAnswers DEF AInv, InLoop
  <1>8. QType(s)' = QType(s) /\ Dual(QType(s))' = Dual(QType(s))
        /\ AssignedLits(s, model[s])' = AssignedLits(s, m)
    BY <1>3, <1>6 DEF QType, AssignedLits
  <1>9. ValidInstances(s)'
    BY <1>3, <1>4, <1>8, SameMeaning DEF Answers, ValidInstances
  <1>10. ValidRound(s)' /\ ValidAnswer(s)'
    BY <1>2, <1>3, <1>6, <1>8, SameMeaning DEF ValidRound, ValidAnswer
  <1> QED
    BY <1>3, <1>7, <1>9, <1>10 DEF AInv, Answers

\* The loop calls its child, which is enabled; or the scope tries again.
LEMMA MoveValid ==
  ASSUME IInv, Annotated, Prenex, AInv, NEW s \in Scopes(circuit), NextChild(s) \/ Retry(s)
  PROVE  AInv'
  <1>1. /\ UNCHANGED <<config, sat, negation, model, entry, local_unsat_core, result>>
        /\ circuit' = circuit /\ pc[s] = "children"
    BY DEF NextChild, Retry, config
  <1>2. CASE NextChild(s)
    <2>1. index[s] \in 1 .. NumNext(s)
      BY <1>1, <1>2, Types DEF NextChild, Round, Places, InLoop
    <2> PICK c : c = CurrentChild(s)
      OBVIOUS
    <2>2. c \in Scopes(circuit) \ {TopLevel, s}
      BY <2>1, Current
    <2>3. pc' = [pc EXCEPT ![s] = "called", ![c] = "solve"] /\ index' = index
      BY <1>2, <2>2 DEF NextChild, AbstractionIsEnabled, Prenex
    <2>4. /\ pc'[s] = "called" /\ pc'[c] = "solve"
          /\ \A u \in Scopes(circuit) \ {s, c} : pc'[u] = pc[u]
      BY <2>2, <2>3, Types
    <2>5. \A u \in Scopes(circuit) : InLoop(u)' => InLoop(u)
      BY <1>1, <2>4 DEF InLoop
    <2>6. \A u \in Scopes(circuit) : pc'[u] \in {"good", "bad"} => pc'[u] = pc[u]
      BY <2>4
    <2>7. \A u \in Scopes(circuit) : Answers(u)'
      BY <1>1, <2>3, <2>5, <2>6, KeptAnswers DEF AInv
    <2> QED
      BY <1>1, <2>7 DEF AInv
  <1>3. CASE Retry(s)
    <2>1. pc' = [pc EXCEPT ![s] = "solve"] /\ index' = index
      BY <1>3 DEF Retry
    <2>2. pc'[s] = "solve" /\ \A u \in Scopes(circuit) \ {s} : pc'[u] = pc[u]
      BY <2>1, Types
    <2>3. \A u \in Scopes(circuit) : InLoop(u)' => InLoop(u)
      BY <2>2 DEF InLoop
    <2>4. \A u \in Scopes(circuit) : pc'[u] \in {"good", "bad"} => pc'[u] = pc[u]
      BY <2>2
    <2>5. \A u \in Scopes(circuit) : Answers(u)'
      BY <1>1, <2>1, <2>3, <2>4, KeptAnswers DEF AInv
    <2> QED
      BY <1>1, <2>5 DEF AInv
  <1> QED
    BY <1>2, <1>3
\* The child that is heard, and what else stays.
LEMMA HeardChild ==
  ASSUME IInv, Annotated, Prenex, AInv, NEW s \in Scopes(circuit), pc[s] = "called",
         NEW c, c = CurrentChild(s), pc[c] \in {"good", "bad"}
  PROVE  /\ c \in Children(circuit, s) /\ c \in Scopes(circuit) \ {TopLevel, s}
         /\ Children(circuit, s) = {c} /\ QType(c) = Dual(QType(s))
         /\ Answers(s) /\ Answers(c) /\ entry[c] \subseteq t_lits[c]
         /\ AssignedLits(c, model[c]) \in OwnMoves(c) \/ pc[c] = "bad"
  <1>1. index[s] \in 1 .. NumNext(s) /\ Static
    BY Types DEF Round, Places, InLoop, IInv
  <1>2. c \in Children(circuit, s) /\ c \in Scopes(circuit) \ {TopLevel, s}
    BY <1>1, Current
  <1>3. Children(circuit, s) \subseteq {s + 1}
    BY <1>1, PrenexIsFlat DEF Flat
  <1>4. Answers(s) /\ Answers(c) /\ entry[c] \subseteq t_lits[c]
    BY <1>2, Types DEF AInv
  <1>5. QType(c) = Dual(QType(s))
    BY <1>1, <1>2, Alternation
  <1> QED
    BY <1>2, <1>3, <1>4, <1>5 DEF Answers, ValidRound

\* The child agrees: its reasons are added to the clause for the dual instance.
LEMMA ChildAgreesValid ==
  ASSUME IInv, Annotated, Prenex, AInv, NEW s \in Scopes(circuit), ChildAgrees(s)
  PROVE  AInv'
  <1> PICK c : c = CurrentChild(s)
    OBVIOUS
  <1>1. /\ pc[s] = "called" /\ pc[c] = "bad"
        /\ pc' = [pc EXCEPT ![s] = "children", ![c] = "idle"]
        /\ index' = [index EXCEPT ![s] = @ + 1]
        /\ UNCHANGED config /\ UNCHANGED <<sat, negation, model, entry, result>>
        /\ local_unsat_core' = [local_unsat_core EXCEPT ![s] = @ \cup entry[c]]
    BY DEF ChildAgrees, Agree
  <1>2. /\ c \in Children(circuit, s) /\ c \in Scopes(circuit) \ {TopLevel, s}
        /\ Children(circuit, s) = {c} /\ QType(c) = Dual(QType(s))
        /\ Answers(s) /\ Answers(c) /\ entry[c] \subseteq t_lits[c]
    BY <1>1, HeardChild
  <1>3. Static /\ PerScope /\ circuit' = circuit /\ b_lits' = b_lits
    BY <1>1 DEF IInv, config
  <1>4. /\ pc'[s] = "children" /\ pc'[c] = "idle"
        /\ local_unsat_core'[s] = local_unsat_core[s] \cup entry[c]
        /\ \A u \in Scopes(circuit) \ {s} :
             /\ index'[u] = index[u] /\ local_unsat_core'[u] = local_unsat_core[u]
             /\ u # c => pc'[u] = pc[u]
    BY <1>1, <1>2, <1>3, Types DEF PerScope
  <1>5. \A u \in Scopes(circuit) \ {s} : Answers(u)'
    <2> SUFFICES ASSUME NEW u \in Scopes(circuit) \ {s}
                 PROVE  Answers(u)'
      OBVIOUS
    <2>1. pc'[u] = "idle" \/ pc'[u] = pc[u]
      BY <1>4
    <2> QED
      BY <1>1, <1>4, <2>1, KeptAnswers DEF AInv, InLoop
  <1>6. QType(s)' = QType(s) /\ Dual(QType(s))' = Dual(QType(s))
        /\ AssignedLits(s, model[s])' = AssignedLits(s, model[s])
    BY <1>1, <1>3 DEF QType, AssignedLits
  <1>7. ValidInstances(s)'
    BY <1>1, <1>2, <1>6, SameMeaning DEF Answers, ValidInstances
  <1>8. Valid(s, Dual(QType(s)), Translated(circuit, b_lits[s], local_unsat_core'[s]))
    <2>1. Loses(c, Dual(QType(s)), entry[c])
      BY <1>1, <1>2 DEF Answers, ValidAnswer
    <2>2. local_unsat_core[s] \subseteq t_lits[c]
      <3>1. local_unsat_core[s] \subseteq UNION {t_lits[t] : t \in Children(circuit, s)}
        BY Types
      <3> QED
        BY <1>2, <3>1
    <2>3. local_unsat_core'[s] \subseteq t_lits[c] /\ entry[c] \subseteq local_unsat_core'[s]
      BY <1>2, <1>4, <2>2
    <2>4. Dual(QType(s)) \in Players
      BY <1>3, Alternation
    <2> QED
      BY <1>2, <1>3, <2>1, <2>3, <2>4, AnswerIsValid
  <1>9. DualClause(s)' = Translated(circuit, b_lits[s], local_unsat_core'[s])
    BY <1>3 DEF DualClause, Translated
  <1>10. ValidRound(s)'
    <2>1. AssignedLits(s, model[s]) \in OwnMoves(s)
      BY <1>1, <1>2 DEF Answers, ValidRound
    <2> QED
      BY <1>1, <1>6, <1>8, <1>9, <2>1, SameMeaning DEF ValidRound
  <1>11. ValidAnswer(s)'
    BY <1>4 DEF ValidAnswer
  <1>12. DOMAIN negation' = Scopes(circuit')
    BY <1>1, <1>3 DEF AInv
  <1> QED
    BY <1>3, <1>5, <1>7, <1>10, <1>11, <1>12 DEF AInv, Answers

\* The child objects: the clause that refine adds is valid.
LEMMA ChildObjectsValid ==
  ASSUME IInv, Annotated, Prenex, AInv, NEW s \in Scopes(circuit), ChildObjects(s)
  PROVE  AInv'
  <1> PICK c : c = CurrentChild(s)
    OBVIOUS
  <1>1. /\ pc[s] = "called" /\ pc[c] = "good"
        /\ sat' = [sat EXCEPT ![s] = @ \cup {RefinementClause(s, c)}]
        /\ result' = [result EXCEPT ![s] = "bad"]
        /\ pc' = [pc EXCEPT ![s] = "children", ![c] = "idle"]
        /\ index' = [index EXCEPT ![s] = @ + 1]
        /\ UNCHANGED config /\ UNCHANGED <<negation, model, entry, local_unsat_core>>
    <2>1. pc[s] = "called" /\ pc[c] = "good"
      BY DEF ChildObjects
    <2>2. FailedBLits(s, c) \subseteq assumptions[s]
      BY <2>1, Objection
    <2> QED
      BY <2>1, <2>2 DEF ChildObjects
  <1>2. /\ c \in Children(circuit, s) /\ c \in Scopes(circuit) \ {TopLevel, s}
        /\ QType(c) = Dual(QType(s)) /\ Answers(s) /\ Answers(c) /\ entry[c] \subseteq t_lits[c]
        /\ AssignedLits(c, model[c]) \in OwnMoves(c)
    BY <1>1, HeardChild
  <1>3. Static /\ PerScope /\ circuit' = circuit /\ b_lits' = b_lits
    BY <1>1 DEF IInv, config
  <1>4. /\ pc'[s] = "children" /\ pc'[c] = "idle" /\ result'[s] = "bad"
        /\ sat'[s] = sat[s] \cup {RefinementClause(s, c)}
        /\ \A u \in Scopes(circuit) \ {s} :
             /\ index'[u] = index[u] /\ sat'[u] = sat[u] /\ result'[u] = result[u]
             /\ u # c => pc'[u] = pc[u]
    BY <1>1, <1>2, <1>3, Types DEF PerScope
  <1>5. \A u \in Scopes(circuit) \ {s} : Answers(u)'
    <2> SUFFICES ASSUME NEW u \in Scopes(circuit) \ {s}
                 PROVE  Answers(u)'
      OBVIOUS
    <2>1. pc'[u] = "idle" \/ pc'[u] = pc[u]
      BY <1>4
    <2> QED
      BY <1>1, <1>4, <2>1, KeptAnswers DEF AInv, InLoop
  <1>6. QType(s)' = QType(s) /\ Dual(QType(s))' = Dual(QType(s))
        /\ AssignedLits(s, model[s])' = AssignedLits(s, model[s])
    BY <1>1, <1>3 DEF QType, AssignedLits
  <1>7. Valid(s, QType(s), RefinementClause(s, c))
    <2>1. QType(s) \in Players /\ Dual(QType(c)) = QType(s)
      BY <1>2, <1>3, Alternation
    <2>2. Beaten(c, QType(s), entry[c], AssignedLits(c, model[c]))
      BY <1>1, <1>2, <2>1 DEF Answers, ValidAnswer
    <2>3. Loses(c, QType(s), entry[c])
      BY <1>2, <1>3, <2>1, <2>2, MoveBeats
    <2>4. Valid(s, QType(s), Translated(circuit, b_lits[s], entry[c]))
      BY <1>2, <1>3, <2>1, <2>3, AnswerIsValid
    <2>5. RefinementClause(s, c) = Translated(circuit, b_lits[s], entry[c])
      <3>1. InPrefix(circuit, c)
        BY <1>2 DEF Prenex
      <3> QED
        BY <3>1 DEF RefinementClause, FailedBLits, Translated
    <2> QED
      BY <2>4, <2>5
  <1>8. ValidInstances(s)'
    BY <1>1, <1>2, <1>4, <1>6, <1>7, SameMeaning DEF Answers, ValidInstances
  <1>9. ValidRound(s)'
    <2>1. AssignedLits(s, model[s]) \in OwnMoves(s)
      BY <1>1, <1>2 DEF Answers, ValidRound
    <2> QED
      BY <1>1, <1>4, <1>6, <2>1, SameMeaning DEF ValidRound
  <1>10. ValidAnswer(s)'
    BY <1>4 DEF ValidAnswer
  <1>11. DOMAIN negation' = Scopes(circuit')
    BY <1>1, <1>3 DEF AInv
  <1> QED
    BY <1>3, <1>5, <1>8, <1>9, <1>10, <1>11 DEF AInv, Answers

\* No step of the solver leaves the invariant.
LEMMA NextValid ==
  ASSUME RInv, Annotated, Prenex, AInv, [Next]_vars
  PROVE  AInv'
  <1>1. IInv
    BY DEF RInv
  <1>2. ASSUME NEW s \in Scopes(circuit), Step(s)
        PROVE  AInv'
    <2>1. AllAgreed(s) => ~IsLeaf(s)
      BY DEF RInv, AllAgreed, InLoop
    <2> QED
      BY <1>1, <1>2, <2>1, SolveLeafValid, SolveInnerValid, SolveUnsatValid, MoveValid,
         ChildAgreesValid, ChildObjectsValid, AllAgreedValid DEF Step
  <1>3. CASE UNCHANGED vars
    <2>1. UNCHANGED config /\ circuit' = circuit
      BY <1>3 DEF vars, config
    <2>2. \A u \in Scopes(circuit) : Answers(u)'
      BY <1>3, <2>1, KeptAnswers DEF vars, AInv, InLoop
    <2> QED
      BY <1>3, <2>1, <2>2 DEF vars, AInv
  <1> QED
    BY <1>2, <1>3 DEF Next, Done

\* The instances start as encodings, and nobody has proposed or answered anything.
LEMMA InitValid ==
  ASSUME Init, Prenex
  PROVE  AInv
  <1>1. Annotated /\ Static
    BY InitInv DEF Init, Annotated, IInv
  <1>2. /\ sat = [s \in Scopes(circuit) |->
                   BuildSatInstance(circuit, s, QType(s), b_lits[s], t_lits[s])]
        /\ negation = [s \in Scopes(circuit) |->
                   BuildSatInstance(circuit, s, Dual(QType(s)), b_lits[s], t_lits[s])]
        /\ pc = [s \in Scopes(circuit) |-> IF s = TopLevel THEN "solve" ELSE "idle"]
    BY DEF Init
  <1>3. ASSUME NEW s \in Scopes(circuit)
        PROVE  Answers(s)
    <2>1. QType(s) \in Players /\ Dual(QType(s)) \in Players
      BY <1>1, Alternation
    <2>2. ValidInstances(s)
      BY <1>1, <1>2, <2>1, EncodingIsValid DEF ValidInstances
    <2>3. pc[s] \in {"solve", "idle"}
      BY <1>2
    <2> QED
      BY <2>2, <2>3 DEF Answers, ValidRound, ValidAnswer, InLoop
  <1> QED
    BY <1>2, <1>3 DEF AInv
-----------------------------------------------------------------------------
(***************************************************************************)
(* What the invariant says of the answers.                                 *)
(***************************************************************************)
\* What is settled for the opponent is not secured for the player, and what is not settled for
\* the opponent is not secured for the opponent.
LEMMA SettledOrSecured ==
  ASSUME Annotated, Static, Prenex, NEW s \in Scopes(circuit), NEW i \in Gates(circuit), NEW a
  PROVE  /\ SettledByOuter(s, i, a) => ~Secured(circuit, QType(s), s, i, a)
         /\ ~SettledByOuter(s, i, a) => ~Secured(circuit, Dual(QType(s)), s, i, a)
  <1> PICK q : q = QType(s)
    OBVIOUS
  <1> PICK o : o = Dual(q)
    OBVIOUS
  <1> PICK mine : mine = DecidedFor(circuit, q, i, a)
    OBVIOUS
  <1> PICK theirs : theirs = DecidedFor(circuit, o, i, a)
    OBVIOUS
  <1>1. Shape(circuit) /\ i \in Nodes(circuit) /\ IsGate(circuit, i)
    BY DEF Static, Gates
  <1>2. q \in Players /\ o \in Players /\ (q = "forall" <=> o # "forall")
    BY Alternation DEF Players, Dual
  <1>3. ASSUME NEW p \in Players
        PROVE  /\ DecidedFor(circuit, p, i, a) \in Truths
               /\ GateTypeFor(circuit, i, p) \in {"and", "or"}
               /\ GateTypeFor(circuit, i, p) = "or" /\ Secured(circuit, p, s, i, a) =>
                    DecidedFor(circuit, p, i, a) = 1
               /\ GateTypeFor(circuit, i, p) = "and" /\ Secured(circuit, p, s, i, a) =>
                    DecidedFor(circuit, p, i, a) # -1
    <2>1. /\ DecidedFor(circuit, p, i, a) \in Truths
          /\ GateTypeFor(circuit, i, p) \in {"and", "or"}
          /\ GateTypeFor(circuit, i, p) = "or" =>
               ((\E l \in Range(circuit.node[i].inputs) : InputFor(circuit, p, l, a) = 1) =>
                  DecidedFor(circuit, p, i, a) = 1)
      BY <1>1, GateFor
    <2>2. Counted(circuit, s, i) \subseteq Range(circuit.node[i].inputs)
      BY DEF Counted
    <2> QED
      BY <2>1, <2>2 DEF Secured
  <1>4. mine \in Truths /\ theirs \in Truths /\ mine = -theirs
    <2>1. DecidedValue(circuit, i, a) \in Truths
      <3>1. DecidedFor(circuit, q, i, a) \in Truths /\ DecidedFor(circuit, o, i, a) \in Truths
        BY <1>2, <1>3
      <3> QED
        BY <1>2, <3>1 DEF DecidedFor, ForPlayer
    <2> QED
      BY <1>2, <2>1 DEF DecidedFor, ForPlayer, Truths
  <1>5. GateTypeFor(circuit, i, q) = "or" <=> GateTypeFor(circuit, i, o) = "and"
    BY <1>2, <1>3 DEF GateTypeFor, DualGate
  <1>6. SettledByOuter(s, i, a) <=>
          IF GateTypeFor(circuit, i, o) = "or" THEN theirs > 0 ELSE theirs >= 0
    BY DEF SettledByOuter, DecidedFor, ForPlayer
  <1>7. /\ mine > 0 <=> mine = 1
        /\ mine < 0 <=> mine = -1
        /\ theirs > 0 <=> theirs = 1
        /\ theirs < 0 <=> theirs = -1
        /\ theirs >= 0 <=> mine # 1
        /\ theirs > 0 <=> mine = -1
    BY <1>4 DEF Truths
  <1>8. SettledByOuter(s, i, a) => ~Secured(circuit, q, s, i, a)
    BY <1>2, <1>3, <1>5, <1>6, <1>7
  <1>9. ~SettledByOuter(s, i, a) => ~Secured(circuit, o, s, i, a)
    <2>1. ~(theirs >= 0) => theirs = -1
      BY <1>4 DEF Truths
    <2> QED
      BY <1>2, <1>3, <1>6, <1>7, <2>1
  <1> QED
    BY <1>8, <1>9

\* The player that an answer speaks against loses.
LEMMA AnswerLoses ==
  ASSUME IInv, Annotated, Prenex, AInv, NEW s \in Scopes(circuit), pc[s] \in {"good", "bad"}
  PROVE  Loses(s, IF pc[s] = "bad" THEN QType(s) ELSE Dual(QType(s)), entry[s])
  <1>1. Answers(s) /\ Static
    BY DEF AInv, IInv
  <1>2. CASE pc[s] = "bad"
    BY <1>1, <1>2 DEF Answers, ValidAnswer
  <1>3. CASE pc[s] = "good"
    <2>1. /\ AssignedLits(s, model[s]) \in OwnMoves(s)
          /\ Beaten(s, Dual(QType(s)), entry[s], AssignedLits(s, model[s]))
      BY <1>1, <1>3 DEF Answers, ValidRound, ValidAnswer
    <2>2. Loses(s, Dual(QType(s)), entry[s])
      BY <1>1, <2>1, MoveBeats
    <2> QED
      BY <1>3, <2>2
  <1> QED
    BY <1>2, <1>3

\* So the answers are sound.
LEMMA ValidIsSound ==
  ASSUME IInv, Annotated, Prenex, AInv
  PROVE  AnswerSound
  <1> SUFFICES ASSUME NEW s \in Scopes(circuit), pc[s] \in {"good", "bad"},
                      NEW a \in OuterAssignments(s),
                      \A t \in entry[s] :
                        SettledByOuter(s, TLitToVarId(circuit, t), a) = (pc[s] = "bad")
               PROVE  Won(s, a) = (pc[s] = "good")
    BY DEF AnswerSound
  <1> PICK p : p = IF pc[s] = "bad" THEN QType(s) ELSE Dual(QType(s))
    OBVIOUS
  <1>1. Static /\ Shape(circuit) /\ Chain /\ Flat(circuit)
    BY PrenexIsFlat, PrenexChain DEF IInv, Static
  <1>2. a \in OuterMoves(s)
    <2>1. Enclosing(circuit, s) = 1 .. s - 1
      BY <1>1, ChainEnclosing
    <2> QED
      BY <2>1 DEF OuterAssignments, OuterMoves, OuterVars
  <1>3. \A t \in entry[s] : TLitToVarId(circuit, t) \in Gates(circuit)
    <2>1. entry[s] \subseteq t_lits[s]
      BY Types
    <2> QED
      BY <1>1, <2>1, TLitsAreGates
  <1>4. NoneSecured(s, p, entry[s], a)
    <2> SUFFICES ASSUME NEW t \in entry[s]
                 PROVE  ~Secured(circuit, p, s, TLitToVarId(circuit, t), a)
      BY DEF NoneSecured
    <2> PICK i : i = TLitToVarId(circuit, t)
      OBVIOUS
    <2>1. i \in Gates(circuit) /\ SettledByOuter(s, i, a) = (pc[s] = "bad")
      BY <1>3
    <2>2. /\ SettledByOuter(s, i, a) => ~Secured(circuit, QType(s), s, i, a)
          /\ ~SettledByOuter(s, i, a) => ~Secured(circuit, Dual(QType(s)), s, i, a)
      BY <1>1, <2>1, SettledOrSecured
    <2>3. CASE pc[s] = "bad"
      BY <2>1, <2>2, <2>3
    <2>4. CASE pc[s] # "bad"
      BY <2>1, <2>2, <2>4
    <2> QED
      BY <2>3, <2>4
  <1>5. ~(PrefixHolds(circuit, s, a) <=> p = "exists")
    BY <1>2, <1>4, AnswerLoses DEF Loses
  <1>6. PrefixHolds(circuit, s, a) \in BOOLEAN
    <2>1. a \subseteq Literals(circuit)
      <3>1. s \in Nat \ {0}
        BY <1>1, ScopeNumbers
      <3>2. OuterVars(circuit, s) \subseteq Nodes(circuit)
        BY <1>1, <3>1, OuterVariables
      <3> QED
        BY <1>1, <1>2, <3>2, AssignedLiterals DEF OuterMoves
    <2> QED
      BY <1>1, <2>1, PrefixScope
  <1>7. ScopeHolds(circuit, s, a) = PrefixHolds(circuit, s, a)
    BY DEF ScopeHolds, Prenex
  <1>8. (QType(s) = "exists" <=> Dual(QType(s)) # "exists")
    BY DEF Dual
  <1>9. CASE pc[s] = "bad"
    BY <1>5, <1>6, <1>7, <1>9 DEF Won
  <1>10. CASE pc[s] = "good"
    BY <1>5, <1>6, <1>7, <1>8, <1>10 DEF Won
  <1> QED
    BY <1>9, <1>10

\* The top level takes nothing up.
LEMMA NothingOutside ==
  ASSUME Annotated, Static, Prenex
  PROVE  t_lits[TopLevel] = {} /\ OuterAssignments(TopLevel) = {{}}
  <1>1. Shape(circuit) /\ Chain /\ TopLevel \in Scopes(circuit) /\ TopLevel = 1
    <2>1. Shape(circuit)
      BY DEF Static
    <2>2. Chain
      BY <2>1, PrenexChain
    <2>3. TopLevel \in Scopes(circuit)
      BY <2>1, Tree
    <2> QED
      BY <2>1, <2>2, <2>3 DEF TopLevel
  <1>2. \A i \in Nodes(circuit) : ~(Innermost(i) < TopLevel)
    <2>1. \A i \in Nodes(circuit) : Innermost(i) \in Scopes(circuit)
      BY <1>1, InnermostScope
    <2>2. \A s \in Scopes(circuit) : ~(s < TopLevel)
      <3>1. Scopes(circuit) = 1 .. Len(circuit.scope) /\ Len(circuit.scope) \in Nat
        BY <1>1, ScopeNumbers
      <3> QED
        BY <1>1, <3>1
    <2> QED
      BY <2>1, <2>2
  <1>3. ASSUME NEW t \in t_lits[TopLevel]
        PROVE  FALSE
    <2> PICK j : j = TLitToVarId(circuit, t)
      OBVIOUS
    <2>1. PICK g \in Nodes(circuit) :
            IsGate(circuit, g) /\ j \in AnalyzeGate(circuit, TopLevel, g).t
      BY <1>1, <1>3, TLitsAreGates
    <2>2. Inputs(circuit, g) \subseteq Nodes(circuit)
      BY <1>1, <2>1, NodeNumbers
    <2> DEFINE tl == AnalyzeGate(circuit, TopLevel, g).t
    <2>3. tl = IF Innermost(g) < TopLevel THEN {}
               ELSE (IF \E m \in VarsOf(g) : Innermost(m) < TopLevel THEN {g} ELSE {})
               \cup (IF ~\E m \in Inputs(circuit, g) : Innermost(m) < TopLevel THEN {}
                     ELSE IF OnlyGatesBelow(g, TopLevel) THEN {g}
                     ELSE {m \in GatesOf(g) : Innermost(m) < TopLevel})
      BY <1>1, PrenexAnalysis
    <2>4. VarsOf(g) \subseteq Nodes(circuit)
      BY <2>2 DEF VarsOf
    <2>5. j \in tl
      BY <2>1
    <2> HIDE DEF tl
    <2> QED
      BY <1>2, <2>2, <2>3, <2>4, <2>5
  <1>4. Enclosing(circuit, TopLevel) = {}
    BY <1>1, ChainEnclosing
  <1>5. OuterAssignments(TopLevel) = Assignments({})
    BY <1>4 DEF OuterAssignments
  <1>6. Assignments({}) = {{}}
    BY DEF Assignments
  <1> QED
    BY <1>3, <1>5, <1>6

\* So the answer at the top level is the truth of the formula.
LEMMA SoundIsTruth ==
  ASSUME IInv, Annotated, Prenex, AnswerSound
  PROVE  ResultIsTruth
  <1> SUFFICES ASSUME Answered
               PROVE  (pc[TopLevel] = "good") = QbfTruth(circuit)
    BY DEF ResultIsTruth
  <1>1. Static /\ TopLevel \in Scopes(circuit) /\ Flat(circuit)
    BY PrenexIsFlat, Tree DEF IInv, Static
  <1>2. entry[TopLevel] = {} /\ {} \in OuterAssignments(TopLevel)
    BY <1>1, NothingOutside, Types
  <1>3. Won(TopLevel, {}) = (pc[TopLevel] = "good")
    BY <1>1, <1>2 DEF AnswerSound, Answered, Prenex
  <1>4. PrefixHolds(circuit, TopLevel, {}) \in BOOLEAN
    BY <1>1, PrefixScope
  <1>5. QType(TopLevel) = "exists"
    BY <1>1, Alternation
  <1>6. ScopeHolds(circuit, TopLevel, {}) = PrefixHolds(circuit, TopLevel, {})
    BY <1>1 DEF ScopeHolds, Prenex
  <1> QED
    BY <1>3, <1>4, <1>5, <1>6 DEF Won, QbfTruth

-----------------------------------------------------------------------------
(***************************************************************************)
(* Theorems                                                                *)
(***************************************************************************)
\* On a prenex circuit, with and without minimisation: whatever the SAT solver answers, the
\* invariant holds in every state that the solver reaches.
LEMMA AnswerInvariance == Spec => [](IInv /\ Annotated /\ (Prenex => AInv))
  <1>1. Init => Annotated /\ (Prenex => AInv)
    BY InitValid DEF Init, Annotated
  <1>2. RInv /\ Annotated /\ (Prenex => AInv) /\ [Next]_vars => Annotated' /\ (Prenex => AInv)'
    <2> SUFFICES ASSUME RInv, Annotated, Prenex => AInv, [Next]_vars
                 PROVE  Annotated' /\ (Prenex' => AInv')
      OBVIOUS
    <2>1. circuit' = circuit
      BY DEF Next, Step, SolveLeaf, SolveInner, SolveUnsat, NextChild, ChildAgrees,
             ChildObjects, AllAgreed, Retry, Done, vars, config
    <2>2. Annotated' /\ (Prenex' <=> Prenex)
      BY <2>1 DEF Annotated, Prenex
    <2>3. Prenex => AInv'
      BY NextValid
    <2> QED
      BY <2>2, <2>3
  <1>3. RInv => IInv
    BY DEF RInv
  <1> QED
    BY RoundInvariance, <1>1, <1>2, <1>3, PTL DEF Spec

\* On a prenex circuit the t-literals that a scope answers with generalise the answer to every
\* assignment of the scopes around it that agrees with them: the clause that refine adds
\* (solver.c:102) and the blocking clause of the dual instance exclude no assignment that wins
\* (circuit_abstraction_get_unsat_core, circuit_abstraction_dual_propagation).
THEOREM AnswersAreSound ==
  Spec => []((\A s \in Scopes(circuit) : InPrefix(circuit, s)) => AnswerSound)
  <1>1. IInv /\ Annotated /\ (Prenex => AInv) =>
          ((\A s \in Scopes(circuit) : InPrefix(circuit, s)) => AnswerSound)
    BY ValidIsSound DEF Prenex
  <1> QED
    BY AnswerInvariance, <1>1, PTL

\* The answer that the solver gives on a prenex circuit is the truth of the formula, whatever
\* the SAT solver answered on the way (solver_sat, solve_recursive).
THEOREM PrenexResultIsTruth ==
  Spec => []((\A s \in Scopes(circuit) : InPrefix(circuit, s)) => ResultIsTruth)
  <1>1. IInv /\ Annotated /\ (Prenex => AInv) =>
          ((\A s \in Scopes(circuit) : InPrefix(circuit, s)) => ResultIsTruth)
    BY ValidIsSound, SoundIsTruth DEF Prenex
  <1> QED
    BY AnswerInvariance, <1>1, PTL

=================================================================================

-------------------------------- MODULE Rounds --------------------------------
(***************************************************************************)
(* What solve_recursive promises, whoever executes it (solver.c): a game   *)
(* in rounds over a tree of scopes.  A scope that has to decide gives up,  *)
(* or proposes something and asks some of its children, all of them at     *)
(* once; every child that was asked decides in the same way and is heard   *)
(* exactly once; and when all were heard, the scope either concludes,      *)
(* because none objected, or decides anew.                                 *)
(*                                                                         *)
(* Nothing is said of the order in which children work and are heard, of   *)
(* threads, or of what is proposed.  Solver and ParallelSolve implement    *)
(* this specification.  The tree is a variable that no step changes.       *)
(***************************************************************************)
CONSTANT Root    \* the top level

VARIABLES
  prev,     \* for every scope but Root its parent
  always,   \* the scopes that every proposal asks
  state,    \* per scope: "idle", "deciding", "asking", or its answer: "good" is in favour
            \* of the scope's own quantifier, hence an objection to the parent
  pending,  \* per scope: the children asked in this round and not heard yet
  verdict   \* per scope: "bad" once a child objected in this round

vars == <<prev, always, state, pending, verdict>>

Tree == {Root} \cup DOMAIN prev
Children(s) == {c \in DOMAIN prev : prev[c] = s}

Init ==
  /\ state = [s \in Tree |-> IF s = Root THEN "deciding" ELSE "idle"]
  /\ pending = [s \in Tree |-> {}]

\* Some proposal, and the children that have a say in it.
Ask(s) ==
  /\ state[s] = "deciding" /\ Children(s) # {}
  /\ \E E \in SUBSET Children(s) :
       /\ Children(s) \cap always \subseteq E
       /\ pending' = [pending EXCEPT ![s] = E]
       /\ state' = [t \in Tree |->
                      IF t = s THEN "asking" ELSE IF t \in E THEN "deciding" ELSE state[t]]
  /\ verdict' = [verdict EXCEPT ![s] = "good"]
  /\ UNCHANGED <<prev, always>>

GiveUp(s) ==
  /\ state[s] = "deciding"
  /\ state' = [state EXCEPT ![s] = "bad"]
  /\ UNCHANGED <<prev, always, pending, verdict>>

\* There is nobody to ask.
WinAlone(s) ==
  /\ state[s] = "deciding" /\ Children(s) = {}
  /\ state' = [state EXCEPT ![s] = "good"]
  /\ UNCHANGED <<prev, always, pending, verdict>>

\* The parent hears the answer of a child that it asked.
Hear(c) ==
  /\ c # Root /\ c \in pending[prev[c]] /\ state[c] \in {"good", "bad"}
  /\ pending' = [pending EXCEPT ![prev[c]] = @ \ {c}]
  /\ verdict' = IF state[c] = "good" THEN [verdict EXCEPT ![prev[c]] = "bad"] ELSE verdict
  /\ state' = [state EXCEPT ![c] = "idle"]
  /\ UNCHANGED <<prev, always>>

RoundIsOver(s) == state[s] = "asking" /\ pending[s] = {}

Conclude(s) ==
  /\ RoundIsOver(s) /\ verdict[s] = "good"
  /\ state' = [state EXCEPT ![s] = "good"]
  /\ UNCHANGED <<prev, always, pending, verdict>>

DecideAnew(s) ==
  /\ RoundIsOver(s) /\ verdict[s] = "bad"
  /\ state' = [state EXCEPT ![s] = "deciding"]
  /\ UNCHANGED <<prev, always, pending, verdict>>

Next ==
  \E s \in Tree :
    \/ Ask(s) \/ GiveUp(s) \/ WinAlone(s) \/ Hear(s) \/ Conclude(s) \/ DecideAnew(s)

Spec == Init /\ [][Next]_vars
===============================================================================

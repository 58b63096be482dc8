---------------------------- MODULE ParallelSolve ----------------------------
(***************************************************************************)
(* The parallel solver (solver.c compiled with PARALLEL_SOLVING): how the  *)
(* rounds of solve_recursive are forked over the child scopes and joined.  *)
(*                                                                         *)
(* A child of a branching scope has a thread of its own, which waits for   *)
(* an entry, then for one of NumThreads permits, solves, reports to the    *)
(* parent under the parent's mutex, and gives the permit back.  An only    *)
(* child is solved by the thread of its parent.                            *)
(*                                                                         *)
(* What a SAT call answers is left open: the instance may be unsatisfiable *)
(* or propose something for any set of children.  Solver models the data.  *)
(* A scope proposes at most MaxRounds times per activation; the code has   *)
(* no such bound, its refinements are finite in number (Solver).           *)
(***************************************************************************)
EXTENDS Integers, Sequences, FiniteSets

CONSTANTS
  Scopes,      \* the scopes (one CircuitAbstraction each)
  Root,        \* the top level, solved by the main thread
  next,        \* for every scope the sequence of its children
  prev,        \* for every scope but Root its parent
  Prefix,      \* the scopes of the quantifier prefix, always enabled
  NumThreads,  \* options->num_threads
  MaxRounds,   \* bound on the proposals of one activation
  Nobody       \* the owner of a free mutex

ASSUME ScopesAssumption == Root \in Scopes /\ Nobody \notin Scopes /\ IsFiniteSet(Scopes)
ASSUME NextAssumption == next \in [Scopes -> Seq(Scopes \ {Root})]
ASSUME PrevAssumption ==
  /\ prev \in [Scopes \ {Root} -> Scopes]
  /\ \A c \in Scopes \ {Root} : prev[c] # c
  /\ \A s \in Scopes : \A i \in DOMAIN next[s] : prev[next[s][i]] = s
  /\ \A s \in Scopes : \A i, j \in DOMAIN next[s] : next[s][i] = next[s][j] => i = j
  /\ \A c \in Scopes \ {Root} : \E i \in DOMAIN next[prev[c]] : next[prev[c]][i] = c
ASSUME BoundsAssumption == NumThreads \in Nat \ {0} /\ MaxRounds \in Nat \ {0}

VARIABLES
  pc,            \* per scope: where the thread that works on it is
  answer,        \* per scope: what solve_recursive last returned; "good" is in favour
                 \* of the scope's own quantifier, hence an objection to the parent
  result,        \* per scope: abstraction->result, in the scope's own terms
  core,          \* per scope: the children whose core is in local_unsat_core
  enabled,       \* per scope: the children that the current assumptions enable
  index,         \* per scope: loop counter of solve_sub_concurrently
  round,         \* per scope: proposals made in this activation
  num_started,   \* per scope: abstraction->num_started
  has_entry,     \* per scope: semaphore, value
  sub_finished,  \* per scope: semaphore, value
  mutex,         \* per scope: the scope whose thread holds abstraction->mutex
  num_threads    \* semaphore of the permits, value

vars == <<pc, answer, result, core, enabled, index, round, num_started, has_entry,
          sub_finished, mutex, num_threads>>

Children(s) == {next[s][i] : i \in DOMAIN next[s]}
IsLeaf(s) == next[s] = <<>>
Branching(s) == Len(next[s]) > 1
IsWorker(c) == c # Root /\ Branching(prev[c])
Current(s) == next[s][index[s]]

\* Where the thread of a scope waits for work; an only child has none.
Waiting(s) == IF IsWorker(s) THEN "entry" ELSE "idle"

Init ==
  /\ pc = [s \in Scopes |-> IF s = Root THEN "solve" ELSE Waiting(s)]
  /\ answer = [s \in Scopes |-> "bad"]
  /\ result = [s \in Scopes |-> "bad"]
  /\ core = [s \in Scopes |-> {}]
  /\ enabled = [s \in Scopes |-> {}]
  /\ index = [s \in Scopes |-> 1]
  /\ round = [s \in Scopes |-> 0]
  /\ num_started = [s \in Scopes |-> 0]
  /\ has_entry = [s \in Scopes |-> 0]
  /\ sub_finished = [s \in Scopes |-> 0]
  /\ mutex = [s \in Scopes |-> Nobody]
  /\ num_threads = NumThreads

Goto(s, l) == pc' = [pc EXCEPT ![s] = l]

\* The semaphores of a scope. WaitOnce: an if for the while around pthread_cond_wait.
Post(sem, s) == sem' = [sem EXCEPT ![s] = @ + 1]
WaitOnce(sem, s) == sem' = [sem EXCEPT ![s] = @ - 1]
Wait(sem, s) == sem[s] > 0 /\ sem' = [sem EXCEPT ![s] = @ - 1]

\* abstraction->mutex. LockNothing: the lock does not exclude anybody.
LockNothing(s, owner) == mutex' = [mutex EXCEPT ![s] = owner]
Lock(s, owner) == mutex[s] = Nobody /\ mutex' = [mutex EXCEPT ![s] = owner]
Unlock(s) == mutex' = [mutex EXCEPT ![s] = Nobody]

\* num_started++. CountUpWorkers: the parent does not count itself.
CountUpWorkers(s) ==
  num_started' = IF pc[s] = "solve" THEN num_started ELSE [num_started EXCEPT ![s] = @ + 1]
CountUp(s) == num_started' = [num_started EXCEPT ![s] = @ + 1]

\* num_started--, and the post of sub_finished by whoever brings it to 0.
\* AccountForAlways: every report posts. AccountForEarly: the test precedes the decrement.
AccountForAlways(s) ==
  num_started' = [num_started EXCEPT ![s] = @ - 1] /\ Post(sub_finished, s)
AccountForEarly(s) ==
  /\ num_started' = [num_started EXCEPT ![s] = @ - 1]
  /\ IF num_started[s] = 0 THEN Post(sub_finished, s) ELSE UNCHANGED sub_finished
AccountFor(s) ==
  /\ num_started' = [num_started EXCEPT ![s] = @ - 1]
  /\ IF num_started[s] = 1 THEN Post(sub_finished, s) ELSE UNCHANGED sub_finished

-----------------------------------------------------------------------------
(***************************************************************************)
(* The worker thread of a child: solve_sub_untyped.                        *)
(***************************************************************************)
TakeEntry(s) ==
  /\ pc[s] = "entry"
  /\ Wait(has_entry, s)
  /\ Goto(s, "permit")
  /\ UNCHANGED <<answer, result, core, enabled, index, round, num_started, sub_finished,
                 mutex, num_threads>>

TakePermit(s) ==
  /\ pc[s] = "permit" /\ num_threads > 0
  /\ num_threads' = num_threads - 1
  /\ round' = [round EXCEPT ![s] = 0]
  /\ Goto(s, "solve")
  /\ UNCHANGED <<answer, result, core, enabled, index, num_started, has_entry,
                 sub_finished, mutex>>

ReleasePermit(s) ==
  /\ pc[s] = "release"
  /\ num_threads' = num_threads + 1
  /\ Goto(s, "entry")
  /\ UNCHANGED <<answer, result, core, enabled, index, round, num_started, has_entry,
                 sub_finished, mutex>>

(***************************************************************************)
(* One round of a scope: solve_recursive and solve_sub_concurrently.       *)
(***************************************************************************)
Return(s, a) == answer' = [answer EXCEPT ![s] = a] /\ Goto(s, "return")

\* The instance is unsatisfiable, or it is satisfiable and there are no children to ask.
AnswerAlone(s) ==
  /\ pc[s] = "solve"
  /\ \E a \in {"good", "bad"} : (a = "good" => IsLeaf(s)) /\ Return(s, a)
  /\ UNCHANGED <<result, core, enabled, index, round, num_started, has_entry,
                 sub_finished, mutex, num_threads>>

\* A proposal: result and local_unsat_core are reset, and num_started counts the parent
\* itself (without the mutex: nobody else may be about to touch it).
Propose(s) ==
  /\ pc[s] = "solve" /\ ~IsLeaf(s) /\ round[s] < MaxRounds
  /\ \E E \in SUBSET Children(s) :
       Children(s) \cap Prefix \subseteq E /\ enabled' = [enabled EXCEPT ![s] = E]
  /\ round' = [round EXCEPT ![s] = @ + 1]
  /\ result' = [result EXCEPT ![s] = "good"]
  /\ core' = [core EXCEPT ![s] = {}]
  /\ CountUp(s)
  /\ index' = [index EXCEPT ![s] = 1]
  /\ Goto(s, "fork")
  /\ UNCHANGED <<answer, has_entry, sub_finished, mutex, num_threads>>

\* abstraction_is_enabled says no.
SkipChild(s) ==
  /\ pc[s] = "fork" /\ index[s] <= Len(next[s]) /\ Current(s) \notin enabled[s]
  /\ index' = [index EXCEPT ![s] = @ + 1]
  /\ UNCHANGED <<pc, answer, result, core, enabled, round, num_started, has_entry,
                 sub_finished, mutex, num_threads>>

LockToCount(s) ==
  /\ pc[s] = "fork" /\ index[s] <= Len(next[s]) /\ Current(s) \in enabled[s]
  /\ Lock(s, s)
  /\ Goto(s, "count")
  /\ UNCHANGED <<answer, result, core, enabled, index, round, num_started, has_entry,
                 sub_finished, num_threads>>

CountChild(s) ==
  /\ pc[s] = "count"
  /\ CountUp(s)
  /\ Unlock(s)
  /\ Goto(s, "start")
  /\ UNCHANGED <<answer, result, core, enabled, index, round, has_entry, sub_finished,
                 num_threads>>

StartWorker(s) ==
  /\ pc[s] = "start" /\ Branching(s)
  /\ Post(has_entry, Current(s))
  /\ index' = [index EXCEPT ![s] = @ + 1]
  /\ Goto(s, "fork")
  /\ UNCHANGED <<answer, result, core, enabled, round, num_started, sub_finished, mutex,
                 num_threads>>

CallChild(s) ==
  /\ pc[s] = "start" /\ ~Branching(s)
  /\ pc' = [pc EXCEPT ![s] = "called", ![Current(s)] = "solve"]
  /\ round' = [round EXCEPT ![Current(s)] = 0]
  /\ UNCHANGED <<answer, result, core, enabled, index, num_started, has_entry,
                 sub_finished, mutex, num_threads>>

LockToJoin(s) ==
  /\ pc[s] = "fork" /\ index[s] > Len(next[s])
  /\ Lock(s, s)
  /\ Goto(s, "join")
  /\ UNCHANGED <<answer, result, core, enabled, index, round, num_started, has_entry,
                 sub_finished, num_threads>>

Join(s) ==
  /\ pc[s] = "join"
  /\ AccountFor(s)
  /\ Unlock(s)
  /\ Goto(s, IF Branching(s) THEN "await" ELSE "joined")
  /\ UNCHANGED <<answer, result, core, enabled, index, round, has_entry, num_threads>>

AwaitChildren(s) ==
  /\ pc[s] = "await"
  /\ Wait(sub_finished, s)
  /\ Goto(s, "joined")
  /\ UNCHANGED <<answer, result, core, enabled, index, round, num_started, has_entry,
                 mutex, num_threads>>

\* All enabled children agreed, or the refined instance is solved again.
AllAgreed(s) ==
  /\ pc[s] = "joined" /\ result[s] = "good"
  /\ Return(s, "good")
  /\ UNCHANGED <<result, core, enabled, index, round, num_started, has_entry,
                 sub_finished, mutex, num_threads>>

Retry(s) ==
  /\ pc[s] = "joined" /\ result[s] = "bad"
  /\ Goto(s, "solve")
  /\ UNCHANGED <<answer, result, core, enabled, index, round, num_started, has_entry,
                 sub_finished, mutex, num_threads>>

(***************************************************************************)
(* The report of a child, under the parent's mutex: solve_sub.             *)
(***************************************************************************)
LockToReport(s) ==
  /\ pc[s] = "return" /\ s # Root
  /\ Lock(prev[s], s)
  /\ Goto(s, "report")
  /\ UNCHANGED <<answer, result, core, enabled, index, round, num_started, has_entry,
                 sub_finished, num_threads>>

\* An objection refines the parent and makes the round a bad one, an agreement adds to the
\* parent's core. ContributeLast: the last report decides the round.
ContributeLast(s, p) ==
  IF answer[s] = "good"
  THEN result' = [result EXCEPT ![p] = "bad"] /\ UNCHANGED core
  ELSE /\ core' = [core EXCEPT ![p] = @ \cup {s}]
       /\ result' = [result EXCEPT ![p] = "good"]
Contribute(s, p) ==
  IF answer[s] = "good"
  THEN result' = [result EXCEPT ![p] = "bad"] /\ UNCHANGED core
  ELSE core' = [core EXCEPT ![p] = @ \cup {s}] /\ UNCHANGED result

Report(s) ==
  /\ pc[s] = "report"
  /\ Contribute(s, prev[s])
  /\ AccountFor(prev[s])
  /\ Goto(s, "reported")
  /\ UNCHANGED <<answer, enabled, index, round, has_entry, mutex, num_threads>>

\* UnlockForgetful: the worker goes back to its loop with the permit still taken.
UnlockForgetful(s) ==
  /\ pc[s] = "reported" /\ IsWorker(s)
  /\ Unlock(prev[s])
  /\ Goto(s, "entry")
  /\ UNCHANGED <<answer, result, core, enabled, index, round, num_started, has_entry,
                 sub_finished, num_threads>>
UnlockWorker(s) ==
  /\ pc[s] = "reported" /\ IsWorker(s)
  /\ Unlock(prev[s])
  /\ Goto(s, "release")
  /\ UNCHANGED <<answer, result, core, enabled, index, round, num_started, has_entry,
                 sub_finished, num_threads>>

ReturnToCaller(s) ==
  /\ pc[s] = "reported" /\ ~IsWorker(s)
  /\ Unlock(prev[s])
  /\ pc' = [pc EXCEPT ![s] = "idle", ![prev[s]] = "fork"]
  /\ index' = [index EXCEPT ![prev[s]] = @ + 1]
  /\ UNCHANGED <<answer, result, core, enabled, round, num_started, has_entry,
                 sub_finished, num_threads>>

Worker(s) == TakeEntry(s) \/ TakePermit(s) \/ ReleasePermit(s)
Round(s) ==
  \/ AnswerAlone(s) \/ Propose(s) \/ SkipChild(s) \/ LockToCount(s) \/ CountChild(s)
  \/ StartWorker(s) \/ CallChild(s) \/ LockToJoin(s) \/ Join(s) \/ AwaitChildren(s)
  \/ AllAgreed(s) \/ Retry(s)
Reporting(s) ==
  LockToReport(s) \/ Report(s) \/ UnlockWorker(s) \/ ReturnToCaller(s)
Step(s) == Worker(s) \/ Round(s) \/ Reporting(s)

Answered == pc[Root] = "return"
Terminated == Answered /\ UNCHANGED vars

Next == (\E s \in Scopes : Step(s)) \/ Terminated

Spec == Init /\ [][Next]_vars
\* Every thread that can take a step eventually does.
FairSpec == Spec /\ \A s \in Scopes : WF_vars(Step(s))

-----------------------------------------------------------------------------
(***************************************************************************)
(* Properties                                                              *)
(***************************************************************************)
Labels == {"idle", "entry", "permit", "release", "solve", "fork", "count", "start", "called",
           "join", "await", "joined", "return", "report", "reported"}

\* The types. The counters are size_t in the code: being natural numbers here, none of
\* them is ever decremented below zero (solver.c:212, semaphore.c:24).
TypeOK ==
  /\ pc \in [Scopes -> Labels]
  /\ answer \in [Scopes -> {"good", "bad"}]
  /\ result \in [Scopes -> {"good", "bad"}]
  /\ core \in [Scopes -> SUBSET Scopes]
  /\ enabled \in [Scopes -> SUBSET Scopes]
  /\ index \in [Scopes -> Nat]
  /\ round \in [Scopes -> 0 .. MaxRounds]
  /\ num_started \in [Scopes -> Nat]
  /\ has_entry \in [Scopes -> Nat]
  /\ sub_finished \in [Scopes -> Nat]
  /\ mutex \in [Scopes -> Scopes \cup {Nobody}]
  /\ num_threads \in Nat

\* The children that were started and are not yet accounted for in num_started.
Busy(c) == has_entry[c] > 0 \/ pc[c] \notin {"entry", "idle", "reported", "release"}
Outstanding(s) == {c \in Children(s) : Busy(c)}

\* What the forking parent holds in num_started itself: 1 for the fork, and 1 for a child
\* it has counted but not yet started.
OwnShare(s) ==
  CASE pc[s] \in {"fork", "count", "called", "join"} -> 1
    [] pc[s] = "start" -> 2
    [] OTHER -> 0

\* num_started is exactly the number of children still to report plus the parent's own
\* share: an increment is never lost although the first one (solver.c:237) is not locked,
\* and the assertion num_started > 0 of solve_sub (line 211) cannot fail.
StartedAccounting ==
  \A s \in Scopes : num_started[s] = Cardinality(Outstanding(s)) + OwnShare(s)

\* Outside a round nothing of the round is left: no child runs or is about to, nothing is
\* counted (the assertion in line 236), and no post of sub_finished is pending that would
\* let the next round return before its children did.
JoinComplete ==
  \A s \in Scopes :
    pc[s] \notin {"fork", "count", "start", "called", "join", "await"} =>
      /\ Outstanding(s) = {}
      /\ num_started[s] = 0
      /\ Branching(s) => sub_finished[s] = 0

\* After the join, local_unsat_core has the contribution of exactly the enabled children
\* that agreed in this round, and the round counts as good iff those are all of them, in
\* whatever order the children reported (solve_sub, line 196, against the resets in line
\* 322).
RoundOutcome ==
  \A s \in Scopes :
    pc[s] = "joined" =>
      /\ core[s] = {c \in enabled[s] : answer[c] = "bad"}
      /\ result[s] = "good" <=> core[s] = enabled[s]

\* At most one thread is inside a critical section of a scope, and it is the owner of the
\* mutex; refine and adjust_local_unsat_core work on the parent's data in there.
Holders(s) ==
  {t \in Scopes : \/ t = s /\ pc[t] \in {"count", "join"}
                  \/ t # Root /\ prev[t] = s /\ pc[t] \in {"report", "reported"}}
MutualExclusion ==
  \A s \in Scopes : Holders(s) = IF mutex[s] = Nobody THEN {} ELSE {mutex[s]}

\* The permits are conserved: besides the main thread at most NumThreads threads are
\* between taking a permit and giving it back (--num-threads, main.c:33).
PermitHolders == {c \in Scopes : IsWorker(c) /\ pc[c] \notin {"entry", "permit"}}
PermitsConserved ==
  num_threads + Cardinality(PermitHolders) = NumThreads

\* The refinement mapping to Rounds: a child that was asked is pending until its report,
\* whether its worker has been started yet or not.
Asking == {"fork", "count", "start", "called", "join", "await", "joined"}
NotStarted(s) ==
  {next[s][i] : i \in {j \in DOMAIN next[s] : j >= index[s] /\ (pc[s] = "called" => j > index[s])}}
Pending(s) ==
  {c \in enabled[s] : pc[s] \in Asking /\ (Busy(c) \/ c \in NotStarted(s))}
State(s) ==
  CASE pc[s] = "solve" -> "deciding"
    [] pc[s] \in Asking -> "asking"
    [] pc[s] \in {"return", "report"} -> answer[s]
    [] OTHER -> IF s # Root /\ s \in Pending(prev[s]) THEN "deciding" ELSE "idle"

R == INSTANCE Rounds WITH
       always <- Prefix,
       state <- [s \in Scopes |-> State(s)],
       pending <- [s \in Scopes |-> Pending(s)],
       verdict <- result

\* The threads implement the recursion in rounds: every child that was asked is heard
\* exactly once, in the round it was asked in, and a round is concluded or repeated only
\* after that (solve_sub_concurrently, solve_sub against solve_recursive).
ImplementsRounds == R!Spec

\* The main thread gets its answer.
Terminates == <>Answered

=============================================================================

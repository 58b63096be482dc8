------------------------- MODULE ParallelSolveProofs -------------------------
(***************************************************************************)
(* Proofs about the fork and join of ParallelSolve, for every scope tree,  *)
(* every number of permits and every number of rounds; and about its       *)
(* rounds: that the threads implement the recursion of Rounds.             *)
(***************************************************************************)
EXTENDS ParallelSolve, FiniteSetTheorems, TLAPS

InRound == {"fork", "count", "start", "called", "join", "await"}

\* The types, without what only the accounting shows: num_started stays above zero.
Types ==
  /\ pc \in [Scopes -> Labels]
  /\ answer \in [Scopes -> {"good", "bad"}]
  /\ result \in [Scopes -> {"good", "bad"}]
  /\ core \in [Scopes -> SUBSET Scopes]
  /\ enabled \in [Scopes -> SUBSET Scopes]
  /\ index \in [Scopes -> Nat]
  /\ round \in [Scopes -> 0 .. MaxRounds]
  /\ num_started \in [Scopes -> Int]
  /\ has_entry \in [Scopes -> Nat]
  /\ sub_finished \in [Scopes -> Nat]
  /\ mutex \in [Scopes -> Scopes \cup {Nobody}]
  /\ num_threads \in Nat

\* Which labels a thread can be at: the loop of solve_sub_untyped belongs to the workers,
\* the idle state to only children, and the main thread reports to nobody.
Places ==
  \A s \in Scopes :
    /\ IF IsWorker(s) THEN pc[s] # "idle" ELSE pc[s] \notin {"entry", "permit", "release"}
    /\ s = Root => pc[s] \notin {"idle", "report", "reported"}
    /\ pc[s] = "called" => ~Branching(s)
    /\ pc[s] = "await" => Branching(s)
    /\ index[s] >= 1
    /\ pc[s] \in {"count", "start", "called"} => index[s] \in DOMAIN next[s]

\* The mutex of s belongs to t exactly while t is in a critical section of s.
Holds(t, s) ==
  \/ t = s /\ pc[t] \in {"count", "join"}
  \/ t # Root /\ prev[t] = s /\ pc[t] \in {"report", "reported"}
Ownership == \A s, t \in Scopes : mutex[s] = t <=> Holds(t, s)

\* A child has work only in the round of its parent: a worker below the loop counter, an
\* only child during the call.
Passed(c, p) == \E i \in DOMAIN next[p] : i < index[p] /\ next[p][i] = c
Forked(c, p) ==
  IF Branching(p)
  THEN pc[p] \in InRound /\ Passed(c, p)
  ELSE pc[p] = "called"
WorkIsForked ==
  \A c \in Scopes \ {Root} :
    /\ Busy(c) => Forked(c, prev[c])
    /\ ~IsWorker(c) /\ pc[c] # "idle" => pc[prev[c]] = "called"

\* An entry waits for at most one activation, and never for one in its critical section.
Entries ==
  \A c \in Scopes :
    /\ has_entry[c] > 0 => has_entry[c] = 1 /\ pc[c] \in {"entry", "release"} /\ IsWorker(c)
    /\ pc[c] \in {"count", "start"} => pc[Current(c)] # "reported"

\* A branching scope finds the post of sub_finished if and only if num_started is zero.
Posted ==
  \A s \in Scopes : Branching(s) =>
    sub_finished[s] = IF pc[s] = "await" /\ num_started[s] = 0 THEN 1 ELSE 0

IInv == /\ Types /\ Places /\ Ownership /\ WorkIsForked /\ Entries /\ Posted /\ StartedAccounting
        /\ PermitsConserved

-----------------------------------------------------------------------------
(***************************************************************************)
(* The tree of the scopes.                                                 *)
(***************************************************************************)
\* next and prev describe the same tree: the children of s are the scopes whose prev is s.
LEMMA TreeChildren ==
  \A s \in Scopes : Children(s) = {c \in Scopes \ {Root} : prev[c] = s}
  BY ScopesAssumption, NextAssumption, PrevAssumption DEF Children

\* Every position of next[s] is a child, and no child has two positions.
LEMMA TreePositions ==
  ASSUME NEW s \in Scopes
  PROVE  /\ Len(next[s]) \in Nat /\ DOMAIN next[s] = 1 .. Len(next[s])
         /\ \A i \in DOMAIN next[s] :
              next[s][i] \in Scopes \ {Root} /\ prev[next[s][i]] = s /\ next[s][i] # s
         /\ \A i, j \in DOMAIN next[s] : next[s][i] = next[s][j] => i = j
  BY NextAssumption, PrevAssumption

\* Every scope but Root has a position below its parent.
LEMMA TreeParents ==
  ASSUME NEW c \in Scopes \ {Root}
  PROVE  prev[c] \in Scopes /\ prev[c] # c /\ \E i \in DOMAIN next[prev[c]] : next[prev[c]][i] = c
  BY PrevAssumption

\* No child of s is s itself.
LEMMA ChildOfIndex ==
  ASSUME NEW s \in Scopes, index[s] \in DOMAIN next[s]
  PROVE  Current(s) \in Scopes \ {Root} /\ prev[Current(s)] = s /\ Current(s) # s
  BY TreePositions DEF Current

\* A scope that does not branch has at most one child.
LEMMA OnlyChild ==
  ASSUME NEW s \in Scopes, ~Branching(s), NEW i \in DOMAIN next[s]
  PROVE  i = 1 /\ Len(next[s]) = 1 /\ \A c \in Scopes \ {Root} : prev[c] = s => c = next[s][i]
  <1>1. Len(next[s]) = 1 /\ i = 1
    <2>1. Len(next[s]) \in Nat /\ i \in 1 .. Len(next[s])
      BY TreePositions
    <2>2. ~(Len(next[s]) > 1)
      BY DEF Branching
    <2>3. \A n \in Nat : \A j \in 1 .. n : ~(n > 1) => n = 1 /\ j = 1
      OBVIOUS
    <2> QED
      BY <2>1, <2>2, <2>3
  <1>2. ASSUME NEW c \in Scopes \ {Root}, prev[c] = s
        PROVE  c = next[s][i]
    <2>1. PICK j \in DOMAIN next[s] : next[s][j] = c
      BY <1>2, TreeParents
    <2>2. j = 1
      BY <1>1, TreePositions
    <2> QED
      BY <1>1, <2>1, <2>2
  <1> QED
    BY <1>1, <1>2

-----------------------------------------------------------------------------
(***************************************************************************)
(* Every conjunct of IInv is preserved by every step.                      *)
(***************************************************************************)
\* The variables keep their types.
LEMMA TypesStep ==
  ASSUME Types, Places, NEW s \in Scopes, Step(s)
  PROVE  Types'
  <1> USE DEF Types, Labels, Goto, Return, Post, Wait, Lock, Unlock, CountUp, AccountFor
  <1>1. CASE TakeEntry(s)
    BY <1>1 DEF TakeEntry
  <1>2. CASE TakePermit(s)
    BY <1>2, BoundsAssumption DEF TakePermit
  <1>3. CASE ReleasePermit(s)
    BY <1>3 DEF ReleasePermit
  <1>4. CASE AnswerAlone(s)
    BY <1>4 DEF AnswerAlone
  <1>5. CASE Propose(s)
    BY <1>5, TreeChildren, BoundsAssumption DEF Propose
  <1>6. CASE SkipChild(s)
    BY <1>6 DEF SkipChild
  <1>7. CASE LockToCount(s)
    BY <1>7 DEF LockToCount
  <1>8. CASE CountChild(s)
    BY <1>8 DEF CountChild
  <1>9. CASE StartWorker(s)
    BY <1>9, ChildOfIndex DEF StartWorker, Places
  <1>10. CASE CallChild(s)
    BY <1>10, ChildOfIndex, BoundsAssumption DEF CallChild, Places
  <1>11. CASE LockToJoin(s)
    BY <1>11 DEF LockToJoin
  <1>12. CASE Join(s)
    BY <1>12 DEF Join
  <1>13. CASE AwaitChildren(s)
    BY <1>13 DEF AwaitChildren
  <1>14. CASE AllAgreed(s)
    BY <1>14 DEF AllAgreed
  <1>15. CASE Retry(s)
    BY <1>15 DEF Retry
  <1>16. CASE LockToReport(s)
    BY <1>16, TreeParents DEF LockToReport
  <1>17. CASE Report(s)
    <2>1. s \in Scopes \ {Root} /\ prev[s] \in Scopes
      BY <1>17, TreeParents DEF Report, Places
    <2> QED
      BY <1>17, <2>1 DEF Report, Contribute
  <1>18. CASE UnlockWorker(s)
    BY <1>18, TreeParents DEF UnlockWorker
  <1>19. CASE ReturnToCaller(s)
    <2>1. s \in Scopes \ {Root} /\ prev[s] \in Scopes
      BY <1>19, TreeParents DEF ReturnToCaller, Places
    <2> QED
      BY <1>19, <2>1 DEF ReturnToCaller
  <1> QED
    BY <1>1, <1>2, <1>3, <1>4, <1>5, <1>6, <1>7, <1>8, <1>9, <1>10,
       <1>11, <1>12, <1>13, <1>14, <1>15, <1>16, <1>17, <1>18, <1>19
    DEF Step, Worker, Round, Reporting

\* Every thread is at a place that its scope has, and the loop counter in range.
LEMMA PlacesStep ==
  ASSUME Types, Places, WorkIsForked, NEW s \in Scopes, Step(s)
  PROVE  Places'
  <1> USE DEF Types, Places, Labels, Goto, Return
  <1>1. CASE TakeEntry(s)
    BY <1>1 DEF TakeEntry
  <1>2. CASE TakePermit(s)
    BY <1>2 DEF TakePermit
  <1>3. CASE ReleasePermit(s)
    BY <1>3 DEF ReleasePermit
  <1>4. CASE AnswerAlone(s)
    BY <1>4 DEF AnswerAlone
  <1>5. CASE Propose(s)
    BY <1>5 DEF Propose
  <1>6. CASE SkipChild(s)
    BY <1>6 DEF SkipChild
  <1>7. CASE LockToCount(s)
    BY <1>7 DEF LockToCount
  <1>8. CASE CountChild(s)
    BY <1>8 DEF CountChild
  <1>9. CASE StartWorker(s)
    BY <1>9 DEF StartWorker
  <1>10. CASE CallChild(s)
    BY <1>10, TreePositions DEF CallChild
  <1>11. CASE LockToJoin(s)
    BY <1>11 DEF LockToJoin
  <1>12. CASE Join(s)
    BY <1>12 DEF Join
  <1>13. CASE AwaitChildren(s)
    BY <1>13 DEF AwaitChildren
  <1>14. CASE AllAgreed(s)
    BY <1>14 DEF AllAgreed
  <1>15. CASE Retry(s)
    BY <1>15 DEF Retry
  <1>16. CASE LockToReport(s)
    BY <1>16 DEF LockToReport
  <1>17. CASE Report(s)
    BY <1>17 DEF Report
  <1>18. CASE UnlockWorker(s)
    BY <1>18 DEF UnlockWorker
  <1>19. CASE ReturnToCaller(s)
    BY <1>19 DEF ReturnToCaller, WorkIsForked
  <1> QED
    BY <1>1, <1>2, <1>3, <1>4, <1>5, <1>6, <1>7, <1>8, <1>9, <1>10,
       <1>11, <1>12, <1>13, <1>14, <1>15, <1>16, <1>17, <1>18, <1>19
    DEF Step, Worker, Round, Reporting

\* A mutex belongs to the thread that is inside one of its critical sections.
LEMMA OwnershipStep ==
  ASSUME Types, Places, Ownership, WorkIsForked, NEW s \in Scopes, Step(s)
  PROVE  Ownership'
  <1> USE DEF Types, Places, Holds, Labels, Goto, Return, Lock, Unlock
  <1> SUFFICES ASSUME NEW u \in Scopes, NEW t \in Scopes
               PROVE  mutex'[u] = t <=> Holds(t, u)'
    BY DEF Ownership
  <1>a. mutex[u] = t <=> Holds(t, u)
    BY DEF Ownership
  <1>1. CASE TakeEntry(s)
    BY <1>1, <1>a DEF TakeEntry
  <1>2. CASE TakePermit(s)
    BY <1>2, <1>a DEF TakePermit
  <1>3. CASE ReleasePermit(s)
    BY <1>3, <1>a DEF ReleasePermit
  <1>4. CASE AnswerAlone(s)
    BY <1>4, <1>a DEF AnswerAlone
  <1>5. CASE Propose(s)
    BY <1>5, <1>a DEF Propose
  <1>6. CASE SkipChild(s)
    BY <1>6, <1>a DEF SkipChild
  <1>7. CASE LockToCount(s)
    BY <1>7, <1>a, ScopesAssumption DEF LockToCount
  <1>8. CASE CountChild(s)
    <2>1. mutex[s] = s
      BY <1>8 DEF CountChild, Ownership
    <2> QED
      BY <1>8, <1>a, <2>1, ScopesAssumption DEF CountChild
  <1>9. CASE StartWorker(s)
    BY <1>9, <1>a DEF StartWorker
  <1>10. CASE CallChild(s)
    <2>1. Current(s) \in Scopes /\ Current(s) # s
      BY <1>10, <1>a, ChildOfIndex DEF CallChild
    <2>2. pc[Current(s)] = "idle"
      BY <1>10, <2>1, ChildOfIndex DEF CallChild, WorkIsForked, IsWorker
    <2> QED
      BY <1>10, <1>a, <2>1, <2>2 DEF CallChild
  <1>11. CASE LockToJoin(s)
    BY <1>11, <1>a, ScopesAssumption DEF LockToJoin
  <1>12. CASE Join(s)
    <2>1. mutex[s] = s
      BY <1>12 DEF Join, Ownership
    <2> QED
      BY <1>12, <1>a, <2>1, ScopesAssumption DEF Join
  <1>13. CASE AwaitChildren(s)
    BY <1>13, <1>a DEF AwaitChildren
  <1>14. CASE AllAgreed(s)
    BY <1>14, <1>a DEF AllAgreed
  <1>15. CASE Retry(s)
    BY <1>15, <1>a DEF Retry
  <1>16. CASE LockToReport(s)
    BY <1>16, <1>a, ScopesAssumption, TreeParents DEF LockToReport
  <1>17. CASE Report(s)
    BY <1>17, <1>a, TreeParents DEF Report
  <1>18. CASE UnlockWorker(s)
    <2>1. s \in Scopes \ {Root} /\ prev[s] \in Scopes /\ prev[s] # s
      BY <1>18, TreeParents DEF UnlockWorker
    <2>2. mutex[prev[s]] = s
      BY <1>18, <2>1 DEF UnlockWorker, Ownership
    <2> QED
      BY <1>18, <1>a, <2>1, <2>2, ScopesAssumption DEF UnlockWorker
  <1>19. CASE ReturnToCaller(s)
    <2>1. s \in Scopes \ {Root} /\ prev[s] \in Scopes /\ prev[s] # s
      BY <1>19, <1>a, TreeParents DEF ReturnToCaller
    <2>2. mutex[prev[s]] = s
      BY <1>19, <2>1 DEF ReturnToCaller, Ownership
    <2>3. pc[prev[s]] = "called"
      BY <1>19, <2>1 DEF ReturnToCaller, WorkIsForked
    <2> QED
      BY <1>19, <1>a, <2>1, <2>2, <2>3, ScopesAssumption DEF ReturnToCaller
  <1> QED
    BY <1>1, <1>2, <1>3, <1>4, <1>5, <1>6, <1>7, <1>8, <1>9, <1>10,
       <1>11, <1>12, <1>13, <1>14, <1>15, <1>16, <1>17, <1>18, <1>19
    DEF Step, Worker, Round, Reporting

\* With nothing counted but the share of the parent itself, no child has work.
LEMMA NoWork ==
  ASSUME NEW s \in Scopes, StartedAccounting, num_started[s] = OwnShare(s), Types
  PROVE  \A c \in Scopes \ {Root} : prev[c] = s => ~Busy(c)
  <1>1. IsFiniteSet(Outstanding(s))
    BY TreeChildren, ScopesAssumption, FS_Subset DEF Outstanding
  <1>2. Cardinality(Outstanding(s)) \in Nat
    BY <1>1, FS_CardinalityType
  <1>3. Cardinality(Outstanding(s)) = 0
    BY <1>2 DEF StartedAccounting, OwnShare
  <1>4. Outstanding(s) = {}
    BY <1>1, <1>3, FS_EmptySet
  <1> QED
    BY <1>4, TreeChildren DEF Outstanding

\* The loop counter only moves forward during a round.
LEMMA PassedStep ==
  ASSUME NEW s \in Scopes, NEW c \in Scopes, index \in [Scopes -> Nat], NEW p \in Scopes,
         index' = [index EXCEPT ![s] = @ + 1]
  PROVE  /\ Passed(c, p) => Passed(c, p)'
         /\ index[s] \in DOMAIN next[s] /\ c = Current(s) => Passed(c, s)'
  <1>1. ASSUME NEW i \in DOMAIN next[p], i < index[p]
        PROVE  i < index'[p]
    <2>1. i \in Nat
      BY TreePositions
    <2> QED
      BY <1>1, <2>1
  <1>2. index[s] < index'[s]
    OBVIOUS
  <1> QED
    BY <1>1, <1>2 DEF Passed, Current

\* Only children that the running round has forked have work.
LEMMA WorkIsForkedStep ==
  ASSUME Types, Places, WorkIsForked, Entries, Posted, StartedAccounting, NEW s \in Scopes, Step(s)
  PROVE  WorkIsForked'
  <1> USE DEF Types, Places, Busy, Forked, InRound, Labels, IsWorker, Goto, Return, Wait, Post
  <1> SUFFICES ASSUME NEW c \in Scopes \ {Root}
               PROVE  /\ Busy(c)' => Forked(c, prev[c])'
                      /\ ~IsWorker(c) /\ pc'[c] # "idle" => pc'[prev[c]] = "called"
    BY DEF WorkIsForked
  <1>a. /\ Busy(c) => Forked(c, prev[c])
        /\ ~IsWorker(c) /\ pc[c] # "idle" => pc[prev[c]] = "called"
    BY DEF WorkIsForked
  <1>b. prev[c] \in Scopes /\ prev[c] # c
    BY TreeParents
  <1>c. index' = index => (Passed(c, prev[c])' <=> Passed(c, prev[c]))
    BY DEF Passed
  <1>1. CASE TakeEntry(s)
    BY <1>1, <1>a, <1>b, <1>c DEF TakeEntry
  <1>2. CASE TakePermit(s)
    BY <1>2, <1>a, <1>b, <1>c DEF TakePermit
  <1>3. CASE ReleasePermit(s)
    BY <1>3, <1>a, <1>b, <1>c DEF ReleasePermit
  <1>4. CASE AnswerAlone(s)
    BY <1>4, <1>a, <1>b, <1>c DEF AnswerAlone
  <1>5. CASE Propose(s)
    <2>1. prev[c] # s => (Passed(c, prev[c])' <=> Passed(c, prev[c]))
      BY <1>5, <1>b DEF Propose, Passed
    <2> QED
      BY <1>5, <1>a, <1>b, <2>1 DEF Propose
  <1>6. CASE SkipChild(s)
    BY <1>6, <1>a, <1>b, PassedStep DEF SkipChild
  <1>7. CASE LockToCount(s)
    BY <1>7, <1>a, <1>b, <1>c DEF LockToCount
  <1>8. CASE CountChild(s)
    BY <1>8, <1>a, <1>b, <1>c DEF CountChild
  <1>9. CASE StartWorker(s)
    <2>1. Current(s) \in Scopes \ {Root} /\ prev[Current(s)] = s /\ Current(s) # s
      BY <1>9, ChildOfIndex DEF StartWorker
    <2>2. (Passed(c, prev[c]) => Passed(c, prev[c])') /\ (c = Current(s) => Passed(c, s)')
      BY <1>9, <1>b, PassedStep DEF StartWorker
    <2> QED
      BY <1>9, <1>a, <1>b, <2>1, <2>2 DEF StartWorker
  <1>10. CASE CallChild(s)
    <2>1. Current(s) \in Scopes \ {Root} /\ prev[Current(s)] = s /\ Current(s) # s
      BY <1>10, ChildOfIndex DEF CallChild
    <2>2. prev[c] = s => c = Current(s)
      BY <1>10, OnlyChild DEF CallChild, Current
    <2>3. pc[Current(s)] = "idle"
      BY <1>10, <2>1 DEF CallChild, WorkIsForked
    <2> QED
      BY <1>10, <1>a, <1>b, <1>c, <2>1, <2>2, <2>3 DEF CallChild
  <1>11. CASE LockToJoin(s)
    BY <1>11, <1>a, <1>b, <1>c DEF LockToJoin
  <1>12. CASE Join(s)
    BY <1>12, <1>a, <1>b, <1>c DEF Join
  <1>13. CASE AwaitChildren(s)
    <2>1. prev[c] = s => ~Busy(c)
      BY <1>13, NoWork DEF AwaitChildren, Posted, OwnShare
    <2> QED
      BY <1>13, <1>a, <1>b, <1>c, <2>1 DEF AwaitChildren
  <1>14. CASE AllAgreed(s)
    BY <1>14, <1>a, <1>b, <1>c DEF AllAgreed
  <1>15. CASE Retry(s)
    BY <1>15, <1>a, <1>b, <1>c DEF Retry
  <1>16. CASE LockToReport(s)
    BY <1>16, <1>a, <1>b, <1>c DEF LockToReport
  <1>17. CASE Report(s)
    BY <1>17, <1>a, <1>b, <1>c DEF Report
  <1>18. CASE UnlockWorker(s)
    BY <1>18, <1>a, <1>b, <1>c DEF UnlockWorker
  <1>19. CASE ReturnToCaller(s)
    <2>1. s \in Scopes \ {Root} /\ prev[s] \in Scopes /\ prev[s] # s /\ ~Branching(prev[s])
      BY <1>19, TreeParents DEF ReturnToCaller
    <2>2. prev[c] = prev[s] => c = s
      BY <2>1, TreeParents, OnlyChild
    <2>3. Passed(c, prev[c]) => Passed(c, prev[c])'
      BY <1>19, <1>b, <2>1, PassedStep DEF ReturnToCaller
    <2>4. pc[prev[s]] = "called"
      BY <1>19, <2>1 DEF ReturnToCaller, WorkIsForked
    <2>5. has_entry[s] = 0
      BY <1>19 DEF ReturnToCaller, Entries
    <2> QED
      BY <1>19, <1>a, <1>b, <2>1, <2>2, <2>3, <2>4, <2>5 DEF ReturnToCaller
  <1> QED
    BY <1>1, <1>2, <1>3, <1>4, <1>5, <1>6, <1>7, <1>8, <1>9, <1>10,
       <1>11, <1>12, <1>13, <1>14, <1>15, <1>16, <1>17, <1>18, <1>19
    DEF Step, Worker, Round, Reporting

\* The child that the loop has reached has no work yet.
LEMMA CurrentHasNoWork ==
  ASSUME Types, Places, WorkIsForked, NEW s \in Scopes, pc[s] \in {"count", "start"}
  PROVE  ~Busy(Current(s))
  <1>1. index[s] \in DOMAIN next[s]
    BY DEF Places
  <1>2. Current(s) \in Scopes \ {Root} /\ prev[Current(s)] = s
    BY <1>1, ChildOfIndex
  <1>3. ~Passed(Current(s), s)
    BY <1>1, TreePositions DEF Passed, Current, Types
  <1> QED
    BY <1>2, <1>3 DEF WorkIsForked, Forked

\* A worker has at most one entry pending, and none while it solves.
LEMMA EntriesStep ==
  ASSUME Types, Places, Ownership, WorkIsForked, Entries, NEW s \in Scopes, Step(s)
  PROVE  Entries'
  <1> USE DEF Types, Places, Labels, IsWorker, Goto, Return, Wait, Post, Lock
  <1> SUFFICES ASSUME NEW c \in Scopes
               PROVE  /\ has_entry'[c] > 0 =>
                            has_entry'[c] = 1 /\ pc'[c] \in {"entry", "release"} /\ IsWorker(c)
                      /\ pc'[c] \in {"count", "start"} => pc'[next[c][index'[c]]] # "reported"
    BY DEF Entries, Current
  <1>a. /\ has_entry[c] > 0 =>
             has_entry[c] = 1 /\ pc[c] \in {"entry", "release"} /\ IsWorker(c)
        /\ pc[c] \in {"count", "start"} =>
             /\ pc[Current(c)] # "reported" /\ Current(c) \in Scopes \ {Root}
             /\ prev[Current(c)] = c /\ Current(c) # c
    BY ChildOfIndex DEF Entries
  <1>1. CASE TakeEntry(s)
    BY <1>1, <1>a DEF TakeEntry, Current
  <1>2. CASE TakePermit(s)
    BY <1>2, <1>a DEF TakePermit, Current
  <1>3. CASE ReleasePermit(s)
    BY <1>3, <1>a DEF ReleasePermit, Current
  <1>4. CASE AnswerAlone(s)
    BY <1>4, <1>a DEF AnswerAlone, Current
  <1>5. CASE Propose(s)
    BY <1>5, <1>a DEF Propose, Current
  <1>6. CASE SkipChild(s)
    BY <1>6, <1>a DEF SkipChild, Current
  <1>7. CASE LockToCount(s)
    <2>1. index[s] \in DOMAIN next[s]
      BY <1>7, TreePositions DEF LockToCount
    <2>2. Current(s) \in Scopes \ {Root} /\ prev[Current(s)] = s /\ Current(s) # s
      BY <2>1, ChildOfIndex
    <2>3. ~Holds(Current(s), s)
      BY <1>7, <2>2, ScopesAssumption DEF LockToCount, Ownership
    <2>4. pc[Current(s)] # "reported"
      BY <2>2, <2>3 DEF Holds
    <2> QED
      BY <1>7, <1>a, <2>2, <2>4 DEF LockToCount, Current
  <1>8. CASE CountChild(s)
    BY <1>8, <1>a DEF CountChild, Current
  <1>9. CASE StartWorker(s)
    <2>1. ~Busy(Current(s))
      BY <1>9, CurrentHasNoWork DEF StartWorker
    <2>2. /\ Current(s) \in Scopes \ {Root} /\ prev[Current(s)] = s
          /\ pc[Current(s)] # "reported"
      BY <1>9, ChildOfIndex DEF StartWorker, Entries
    <2>3. /\ IsWorker(Current(s)) /\ has_entry[Current(s)] = 0
          /\ pc[Current(s)] \in {"entry", "release"}
      BY <1>9, <2>1, <2>2 DEF StartWorker, Busy
    <2> QED
      BY <1>9, <1>a, <2>2, <2>3 DEF StartWorker, Current
  <1>10. CASE CallChild(s)
    <2>1. Current(s) \in Scopes \ {Root} /\ prev[Current(s)] = s /\ ~IsWorker(Current(s))
      BY <1>10, ChildOfIndex DEF CallChild
    <2>2. has_entry[Current(s)] = 0
      BY <2>1 DEF Entries
    <2> QED
      BY <1>10, <1>a, <2>1, <2>2 DEF CallChild, Current
  <1>11. CASE LockToJoin(s)
    BY <1>11, <1>a DEF LockToJoin, Current
  <1>12. CASE Join(s)
    BY <1>12, <1>a DEF Join, Current
  <1>13. CASE AwaitChildren(s)
    BY <1>13, <1>a DEF AwaitChildren, Current
  <1>14. CASE AllAgreed(s)
    BY <1>14, <1>a DEF AllAgreed, Current
  <1>15. CASE Retry(s)
    BY <1>15, <1>a DEF Retry, Current
  <1>16. CASE LockToReport(s)
    BY <1>16, <1>a DEF LockToReport, Current
  <1>17. CASE Report(s)
    <2>1. pc[c] \in {"count", "start"} => Current(c) # s
      BY <1>17, CurrentHasNoWork DEF Report, Busy
    <2> QED
      BY <1>17, <1>a, <2>1 DEF Report, Current
  <1>18. CASE UnlockWorker(s)
    BY <1>18, <1>a DEF UnlockWorker, Current
  <1>19. CASE ReturnToCaller(s)
    <2>1. s \in Scopes \ {Root} /\ prev[s] \in Scopes /\ has_entry[s] = 0
      BY <1>19, TreeParents DEF ReturnToCaller, Entries
    <2>2. pc[prev[s]] = "called"
      BY <1>19, <2>1 DEF ReturnToCaller, WorkIsForked
    <2> QED
      BY <1>19, <1>a, <2>1, <2>2 DEF ReturnToCaller, Current
  <1> QED
    BY <1>1, <1>2, <1>3, <1>4, <1>5, <1>6, <1>7, <1>8, <1>9, <1>10,
       <1>11, <1>12, <1>13, <1>14, <1>15, <1>16, <1>17, <1>18, <1>19
    DEF Step, Worker, Round, Reporting

\* A child with work is counted, besides the share of its parent.
LEMMA ReporterIsCounted ==
  ASSUME Types, StartedAccounting, NEW c \in Scopes \ {Root}, prev[c] \in Scopes, Busy(c)
  PROVE  num_started[prev[c]] >= 1 + OwnShare(prev[c])
  <1>1. IsFiniteSet(Outstanding(prev[c])) /\ c \in Outstanding(prev[c])
    BY TreeChildren, ScopesAssumption, FS_Subset DEF Outstanding
  <1>2. Cardinality(Outstanding(prev[c])) \in Nat /\ Cardinality(Outstanding(prev[c])) # 0
    BY <1>1, FS_CardinalityType, FS_EmptySet
  <1> QED
    BY <1>2 DEF StartedAccounting, OwnShare

\* sub_finished is posted by the step that brings num_started to 0, and only then.
LEMMA PostedStep ==
  ASSUME Types, Places, WorkIsForked, Posted, StartedAccounting, NEW s \in Scopes, Step(s)
  PROVE  Posted'
  <1> USE DEF Types, Places, Labels, Goto, Return, Wait, Post, CountUp, AccountFor
  <1> SUFFICES ASSUME NEW u \in Scopes, Branching(u)
               PROVE  sub_finished'[u] = IF pc'[u] = "await" /\ num_started'[u] = 0 THEN 1 ELSE 0
    BY DEF Posted, Branching
  <1>a. sub_finished[u] = IF pc[u] = "await" /\ num_started[u] = 0 THEN 1 ELSE 0
    BY DEF Posted
  <1>1. CASE TakeEntry(s)
    BY <1>1, <1>a DEF TakeEntry
  <1>2. CASE TakePermit(s)
    BY <1>2, <1>a DEF TakePermit
  <1>3. CASE ReleasePermit(s)
    BY <1>3, <1>a DEF ReleasePermit
  <1>4. CASE AnswerAlone(s)
    BY <1>4, <1>a DEF AnswerAlone
  <1>5. CASE Propose(s)
    BY <1>5, <1>a DEF Propose
  <1>6. CASE SkipChild(s)
    BY <1>6, <1>a DEF SkipChild
  <1>7. CASE LockToCount(s)
    BY <1>7, <1>a DEF LockToCount
  <1>8. CASE CountChild(s)
    BY <1>8, <1>a DEF CountChild
  <1>9. CASE StartWorker(s)
    BY <1>9, <1>a DEF StartWorker
  <1>10. CASE CallChild(s)
    <2>1. Current(s) \in Scopes \ {Root} /\ prev[Current(s)] = s
      BY <1>10, ChildOfIndex DEF CallChild
    <2>2. pc[Current(s)] = "idle"
      BY <1>10, <2>1 DEF CallChild, WorkIsForked, IsWorker
    <2> QED
      BY <1>10, <1>a, <2>1, <2>2 DEF CallChild
  <1>11. CASE LockToJoin(s)
    BY <1>11, <1>a DEF LockToJoin
  <1>12. CASE Join(s)
    BY <1>12, <1>a DEF Join
  <1>13. CASE AwaitChildren(s)
    BY <1>13, <1>a DEF AwaitChildren
  <1>14. CASE AllAgreed(s)
    BY <1>14, <1>a DEF AllAgreed
  <1>15. CASE Retry(s)
    BY <1>15, <1>a DEF Retry
  <1>16. CASE LockToReport(s)
    BY <1>16, <1>a DEF LockToReport
  <1>17. CASE Report(s)
    <2>1. s \in Scopes \ {Root} /\ prev[s] \in Scopes
      BY <1>17, TreeParents DEF Report
    <2>2. num_started[prev[s]] > 0 /\ (num_started[prev[s]] = 1 => OwnShare(prev[s]) = 0)
      BY <1>17, <2>1, ReporterIsCounted DEF Report, Busy, OwnShare
    <2>3. Branching(prev[s]) => pc[prev[s]] \in InRound
      BY <1>17, <2>1 DEF Report, Busy, WorkIsForked, Forked
    <2> QED
      BY <1>17, <1>a, <2>1, <2>2, <2>3 DEF Report, OwnShare, InRound
  <1>18. CASE UnlockWorker(s)
    BY <1>18, <1>a DEF UnlockWorker
  <1>19. CASE ReturnToCaller(s)
    <2>1. s \in Scopes \ {Root} /\ prev[s] \in Scopes
      BY <1>19, TreeParents DEF ReturnToCaller
    <2>2. pc[prev[s]] = "called"
      BY <1>19, <2>1 DEF ReturnToCaller, WorkIsForked
    <2> QED
      BY <1>19, <1>a, <2>1, <2>2 DEF ReturnToCaller
  <1> QED
    BY <1>1, <1>2, <1>3, <1>4, <1>5, <1>6, <1>7, <1>8, <1>9, <1>10,
       <1>11, <1>12, <1>13, <1>14, <1>15, <1>16, <1>17, <1>18, <1>19
    DEF Step, Worker, Round, Reporting

\* How Outstanding follows the children that have work.
LEMMA SameWork ==
  ASSUME NEW u \in Scopes, \A c \in Scopes \ {Root} : prev[c] = u => (Busy(c)' <=> Busy(c))
  PROVE  Outstanding(u)' = Outstanding(u)
  BY TreeChildren DEF Outstanding, Children

\* Giving work to a child adds it to Outstanding.
LEMMA MoreWork ==
  ASSUME NEW u \in Scopes, NEW d \in Scopes \ {Root}, prev[d] = u, ~Busy(d),
         \A c \in Scopes \ {Root} : Busy(c)' <=> Busy(c) \/ c = d
  PROVE  Cardinality(Outstanding(u)') = Cardinality(Outstanding(u)) + 1
  <1>1. IsFiniteSet(Outstanding(u)) /\ d \notin Outstanding(u)
    BY TreeChildren, ScopesAssumption, FS_Subset DEF Outstanding
  <1>2. Outstanding(u)' = Outstanding(u) \cup {d}
    BY TreeChildren DEF Outstanding, Children
  <1> QED
    BY <1>1, <1>2, FS_AddElement

\* A report removes the child from Outstanding.
LEMMA LessWork ==
  ASSUME NEW u \in Scopes, NEW d \in Scopes \ {Root}, prev[d] = u, Busy(d),
         \A c \in Scopes \ {Root} : Busy(c)' <=> Busy(c) /\ c # d
  PROVE  Cardinality(Outstanding(u)') = Cardinality(Outstanding(u)) - 1
  <1>1. IsFiniteSet(Outstanding(u)) /\ d \in Outstanding(u)
    BY TreeChildren, ScopesAssumption, FS_Subset DEF Outstanding
  <1>2. Outstanding(u)' = Outstanding(u) \ {d}
    BY TreeChildren DEF Outstanding, Children
  <1> QED
    BY <1>1, <1>2, FS_RemoveElement

\* num_started follows the children that have work.
LEMMA AccountingStep ==
  ASSUME Types, Places, WorkIsForked, Entries, StartedAccounting, NEW s \in Scopes, Step(s)
  PROVE  StartedAccounting'
  <1> USE DEF Types, Places, Labels, Busy, OwnShare, Goto, Return, Wait, Post, CountUp, AccountFor
  <1> SUFFICES ASSUME NEW u \in Scopes
               PROVE  num_started'[u] = Cardinality(Outstanding(u)') + OwnShare(u)'
    BY DEF StartedAccounting
  <1>a. /\ num_started[u] = Cardinality(Outstanding(u)) + OwnShare(u)
        /\ Cardinality(Outstanding(u)) \in Nat
    <2>1. IsFiniteSet(Outstanding(u))
      BY TreeChildren, ScopesAssumption, FS_Subset DEF Outstanding
    <2> QED
      BY <2>1, FS_CardinalityType DEF StartedAccounting
  <1>1. CASE TakeEntry(s)
    BY <1>1, <1>a, SameWork DEF TakeEntry
  <1>2. CASE TakePermit(s)
    BY <1>2, <1>a, SameWork DEF TakePermit
  <1>3. CASE ReleasePermit(s)
    BY <1>3, <1>a, SameWork DEF ReleasePermit
  <1>4. CASE AnswerAlone(s)
    BY <1>4, <1>a, SameWork DEF AnswerAlone
  <1>5. CASE Propose(s)
    BY <1>5, <1>a, SameWork DEF Propose
  <1>6. CASE SkipChild(s)
    BY <1>6, <1>a, SameWork DEF SkipChild
  <1>7. CASE LockToCount(s)
    BY <1>7, <1>a, SameWork DEF LockToCount
  <1>8. CASE CountChild(s)
    BY <1>8, <1>a, SameWork DEF CountChild
  <1>9. CASE StartWorker(s)
    <2>1. /\ Current(s) \in Scopes \ {Root} /\ prev[Current(s)] = s /\ Current(s) # s
          /\ ~Busy(Current(s))
      BY <1>9, ChildOfIndex, CurrentHasNoWork DEF StartWorker
    <2>2. \A c \in Scopes \ {Root} : Busy(c)' <=> Busy(c) \/ c = Current(s)
      BY <1>9, <2>1 DEF StartWorker
    <2>3. CASE u = s
      <3>1. Cardinality(Outstanding(s)') = Cardinality(Outstanding(s)) + 1
        BY <2>1, <2>2, MoreWork
      <3> QED
        BY <1>9, <1>a, <2>3, <3>1 DEF StartWorker
    <2>4. CASE u # s
      <3>1. Outstanding(u)' = Outstanding(u)
        BY <2>1, <2>2, <2>4, SameWork
      <3> QED
        BY <1>9, <1>a, <2>4, <3>1 DEF StartWorker
    <2> QED
      BY <2>3, <2>4
  <1>10. CASE CallChild(s)
    <2>1. /\ Current(s) \in Scopes \ {Root} /\ prev[Current(s)] = s /\ Current(s) # s
          /\ ~Busy(Current(s))
      BY <1>10, ChildOfIndex, CurrentHasNoWork DEF CallChild
    <2>2. pc[Current(s)] = "idle"
      BY <1>10, <2>1 DEF CallChild, WorkIsForked, IsWorker
    <2>3. \A c \in Scopes \ {Root} : Busy(c)' <=> Busy(c) \/ c = Current(s)
      BY <1>10, <2>1 DEF CallChild
    <2>4. CASE u = s
      <3>1. Cardinality(Outstanding(s)') = Cardinality(Outstanding(s)) + 1
        BY <2>1, <2>3, MoreWork
      <3> QED
        BY <1>10, <1>a, <2>1, <2>4, <3>1 DEF CallChild
    <2>5. CASE u # s
      <3>1. Outstanding(u)' = Outstanding(u)
        BY <2>1, <2>3, <2>5, SameWork
      <3> QED
        BY <1>10, <1>a, <2>1, <2>2, <2>5, <3>1 DEF CallChild
    <2> QED
      BY <2>4, <2>5
  <1>11. CASE LockToJoin(s)
    BY <1>11, <1>a, SameWork DEF LockToJoin
  <1>12. CASE Join(s)
    BY <1>12, <1>a, SameWork DEF Join
  <1>13. CASE AwaitChildren(s)
    BY <1>13, <1>a, SameWork DEF AwaitChildren
  <1>14. CASE AllAgreed(s)
    BY <1>14, <1>a, SameWork DEF AllAgreed
  <1>15. CASE Retry(s)
    BY <1>15, <1>a, SameWork DEF Retry
  <1>16. CASE LockToReport(s)
    BY <1>16, <1>a, SameWork DEF LockToReport
  <1>17. CASE Report(s)
    <2>1. s \in Scopes \ {Root} /\ prev[s] \in Scopes /\ prev[s] # s /\ Busy(s)
      BY <1>17, TreeParents DEF Report
    <2>2. has_entry[s] = 0
      BY <1>17 DEF Report, Entries
    <2>3. \A c \in Scopes \ {Root} : Busy(c)' <=> Busy(c) /\ c # s
      BY <1>17, <2>1, <2>2 DEF Report
    <2>4. CASE u = prev[s]
      <3>1. Cardinality(Outstanding(prev[s])') = Cardinality(Outstanding(prev[s])) - 1
        BY <2>1, <2>3, LessWork
      <3> QED
        BY <1>17, <1>a, <2>1, <2>4, <3>1 DEF Report
    <2>5. CASE u # prev[s]
      <3>1. Outstanding(u)' = Outstanding(u)
        BY <2>1, <2>3, <2>5, SameWork
      <3> QED
        BY <1>17, <1>a, <2>1, <2>5, <3>1 DEF Report
    <2> QED
      BY <2>4, <2>5
  <1>18. CASE UnlockWorker(s)
    BY <1>18, <1>a, SameWork DEF UnlockWorker
  <1>19. CASE ReturnToCaller(s)
    <2>1. s \in Scopes \ {Root} /\ prev[s] \in Scopes /\ has_entry[s] = 0
      BY <1>19, TreeParents DEF ReturnToCaller, Entries
    <2>2. pc[prev[s]] = "called"
      BY <1>19, <2>1 DEF ReturnToCaller, WorkIsForked
    <2> QED
      BY <1>19, <1>a, <2>1, <2>2, SameWork DEF ReturnToCaller
  <1> QED
    BY <1>1, <1>2, <1>3, <1>4, <1>5, <1>6, <1>7, <1>8, <1>9, <1>10,
       <1>11, <1>12, <1>13, <1>14, <1>15, <1>16, <1>17, <1>18, <1>19
    DEF Step, Worker, Round, Reporting

\* A permit taken is a permit held.
LEMMA PermitsStep ==
  ASSUME Types, Places, WorkIsForked, PermitsConserved, NEW s \in Scopes, Step(s)
  PROVE  PermitsConserved'
  <1> USE DEF Types, Places, Labels, IsWorker, Goto, Return, PermitsConserved
  <1>a. IsFiniteSet(PermitHolders) /\ Cardinality(PermitHolders) \in Nat
    BY ScopesAssumption, FS_Subset, FS_CardinalityType DEF PermitHolders
  <1>1. CASE TakeEntry(s)
    <2>1. PermitHolders' = PermitHolders
      BY <1>1 DEF TakeEntry, PermitHolders
    <2> QED
      BY <1>1, <1>a, <2>1 DEF TakeEntry
  <1>2. CASE TakePermit(s)
    <2>1. PermitHolders' = PermitHolders \cup {s} /\ s \notin PermitHolders
      BY <1>2 DEF TakePermit, PermitHolders
    <2>2. Cardinality(PermitHolders') = Cardinality(PermitHolders) + 1
      BY <1>a, <2>1, FS_AddElement
    <2> QED
      BY <1>2, <1>a, <2>2, BoundsAssumption DEF TakePermit
  <1>3. CASE ReleasePermit(s)
    <2>1. PermitHolders' = PermitHolders \ {s} /\ s \in PermitHolders
      BY <1>3 DEF ReleasePermit, PermitHolders
    <2>2. Cardinality(PermitHolders') = Cardinality(PermitHolders) - 1
      BY <1>a, <2>1, FS_RemoveElement
    <2> QED
      BY <1>3, <1>a, <2>2, BoundsAssumption DEF ReleasePermit
  <1>4. CASE AnswerAlone(s)
    <2>1. PermitHolders' = PermitHolders
      BY <1>4 DEF AnswerAlone, PermitHolders
    <2> QED
      BY <1>4, <1>a, <2>1 DEF AnswerAlone
  <1>5. CASE Propose(s)
    <2>1. PermitHolders' = PermitHolders
      BY <1>5 DEF Propose, PermitHolders
    <2> QED
      BY <1>5, <1>a, <2>1 DEF Propose
  <1>6. CASE SkipChild(s)
    <2>1. PermitHolders' = PermitHolders
      BY <1>6 DEF SkipChild, PermitHolders
    <2> QED
      BY <1>6, <1>a, <2>1 DEF SkipChild
  <1>7. CASE LockToCount(s)
    <2>1. PermitHolders' = PermitHolders
      BY <1>7 DEF LockToCount, PermitHolders
    <2> QED
      BY <1>7, <1>a, <2>1 DEF LockToCount
  <1>8. CASE CountChild(s)
    <2>1. PermitHolders' = PermitHolders
      BY <1>8 DEF CountChild, PermitHolders
    <2> QED
      BY <1>8, <1>a, <2>1 DEF CountChild
  <1>9. CASE StartWorker(s)
    <2>1. PermitHolders' = PermitHolders
      BY <1>9 DEF StartWorker, PermitHolders
    <2> QED
      BY <1>9, <1>a, <2>1 DEF StartWorker
  <1>10. CASE CallChild(s)
    <2>1. ~IsWorker(Current(s)) /\ ~ (pc[s] \in {"entry", "permit"})
      BY <1>10, ChildOfIndex DEF CallChild
    <2>2. PermitHolders' = PermitHolders
      BY <1>10, <2>1 DEF CallChild, PermitHolders
    <2> QED
      BY <1>10, <1>a, <2>2 DEF CallChild
  <1>11. CASE LockToJoin(s)
    <2>1. PermitHolders' = PermitHolders
      BY <1>11 DEF LockToJoin, PermitHolders
    <2> QED
      BY <1>11, <1>a, <2>1 DEF LockToJoin
  <1>12. CASE Join(s)
    <2>1. PermitHolders' = PermitHolders
      BY <1>12 DEF Join, PermitHolders
    <2> QED
      BY <1>12, <1>a, <2>1 DEF Join
  <1>13. CASE AwaitChildren(s)
    <2>1. PermitHolders' = PermitHolders
      BY <1>13 DEF AwaitChildren, PermitHolders
    <2> QED
      BY <1>13, <1>a, <2>1 DEF AwaitChildren
  <1>14. CASE AllAgreed(s)
    <2>1. PermitHolders' = PermitHolders
      BY <1>14 DEF AllAgreed, PermitHolders
    <2> QED
      BY <1>14, <1>a, <2>1 DEF AllAgreed
  <1>15. CASE Retry(s)
    <2>1. PermitHolders' = PermitHolders
      BY <1>15 DEF Retry, PermitHolders
    <2> QED
      BY <1>15, <1>a, <2>1 DEF Retry
  <1>16. CASE LockToReport(s)
    <2>1. PermitHolders' = PermitHolders
      BY <1>16 DEF LockToReport, PermitHolders
    <2> QED
      BY <1>16, <1>a, <2>1 DEF LockToReport
  <1>17. CASE Report(s)
    <2>1. PermitHolders' = PermitHolders
      BY <1>17 DEF Report, PermitHolders
    <2> QED
      BY <1>17, <1>a, <2>1 DEF Report
  <1>18. CASE UnlockWorker(s)
    <2>1. PermitHolders' = PermitHolders
      BY <1>18 DEF UnlockWorker, PermitHolders
    <2> QED
      BY <1>18, <1>a, <2>1 DEF UnlockWorker
  <1>19. CASE ReturnToCaller(s)
    <2>1. s \in Scopes \ {Root} /\ prev[s] \in Scopes
      BY <1>19, TreeParents DEF ReturnToCaller
    <2>2. pc[prev[s]] = "called"
      BY <1>19, <2>1 DEF ReturnToCaller, WorkIsForked
    <2>3. PermitHolders' = PermitHolders
      BY <1>19, <2>1, <2>2 DEF ReturnToCaller, PermitHolders
    <2> QED
      BY <1>19, <1>a, <2>3 DEF ReturnToCaller
  <1> QED
    BY <1>1, <1>2, <1>3, <1>4, <1>5, <1>6, <1>7, <1>8, <1>9, <1>10,
       <1>11, <1>12, <1>13, <1>14, <1>15, <1>16, <1>17, <1>18, <1>19
    DEF Step, Worker, Round, Reporting

-----------------------------------------------------------------------------
(***************************************************************************)
(* The inductive invariant.                                                *)
(***************************************************************************)
\* Nobody works at first, and nothing is counted.
LEMMA InitIInv == Init => IInv
  <1> SUFFICES ASSUME Init PROVE IInv
    OBVIOUS
  <1> USE DEF Init, Waiting
  <1>1. Types
    BY BoundsAssumption DEF Types, Labels
  <1>2. Places
    BY DEF Places, IsWorker
  <1>3. Ownership
    BY ScopesAssumption DEF Ownership, Holds
  <1>4. \A c \in Scopes \ {Root} : ~Busy(c)
    BY DEF Busy
  <1>5. WorkIsForked
    BY <1>4 DEF WorkIsForked
  <1>6. Entries /\ Posted
    BY DEF Entries, Posted
  <1>7. StartedAccounting
    <2> SUFFICES ASSUME NEW s \in Scopes
                 PROVE  num_started[s] = Cardinality(Outstanding(s)) + OwnShare(s)
      BY DEF StartedAccounting
    <2>1. Outstanding(s) = {}
      BY <1>4, TreeChildren DEF Outstanding
    <2>2. OwnShare(s) = 0
      BY DEF OwnShare
    <2> QED
      BY <2>1, <2>2, FS_EmptySet
  <1>8. PermitsConserved
    <2>1. PermitHolders = {}
      BY DEF PermitHolders, IsWorker
    <2> QED
      BY <2>1, FS_EmptySet, BoundsAssumption DEF PermitsConserved
  <1> QED
    BY <1>1, <1>2, <1>3, <1>5, <1>6, <1>7, <1>8 DEF IInv

\* Every step, stuttering included, preserves the conjunction.
LEMMA StepIInv == IInv /\ [Next]_vars => IInv'
  <1> SUFFICES ASSUME IInv, [Next]_vars PROVE IInv'
    OBVIOUS
  <1>1. ASSUME NEW s \in Scopes, Step(s) PROVE IInv'
    BY <1>1, TypesStep, PlacesStep, OwnershipStep, WorkIsForkedStep, EntriesStep, PostedStep,
       AccountingStep, PermitsStep DEF IInv
  <1>2. CASE UNCHANGED vars
    <2> USE <1>2 DEF vars
    <2>1. Types' /\ Places' /\ Ownership'
      BY DEF IInv, Types, Places, Ownership, Holds
    <2>2. WorkIsForked' /\ Entries' /\ Posted'
      BY DEF IInv, WorkIsForked, Forked, Passed, Busy, Entries, Current, Posted
    <2>3. StartedAccounting'
      BY DEF IInv, StartedAccounting, Outstanding, Children, Busy, OwnShare
    <2>4. PermitsConserved'
      BY DEF IInv, PermitsConserved, PermitHolders
    <2> QED
      BY <2>1, <2>2, <2>3, <2>4 DEF IInv
  <1> QED
    BY <1>1, <1>2 DEF Next, Terminated

\* The inductive invariant holds in every reachable state.
LEMMA Invariance == Spec => []IInv
  BY InitIInv, StepIInv, PTL DEF Spec

-----------------------------------------------------------------------------
(***************************************************************************)
(* What the runs check on a few trees, for all of them.                    *)
(***************************************************************************)
\* Whatever the threads do, num_started counts the children still to report and the parent
\* itself (solver.c:209-215, 235-267).
THEOREM AccountingHolds == Spec => []StartedAccounting
  BY Invariance, PTL DEF IInv

\* The critical sections on the data of a scope exclude each other (solver.c:202, 249, 259).
THEOREM MutualExclusionHolds == Spec => []MutualExclusion
  <1>1. Types /\ Ownership => MutualExclusion
    BY ScopesAssumption DEF Types, Ownership, Holds, Holders, MutualExclusion
  <1> QED
    BY <1>1, Invariance, PTL DEF IInv

\* solve_recursive looks at the result of a round, and starts the next one, only after
\* every child it started has reported (solver.c:266, against the posts in 214 and 262).
THEOREM JoinIsComplete == Spec => []JoinComplete
  <1>1. IInv => JoinComplete
    <2> SUFFICES ASSUME IInv, NEW s \in Scopes, pc[s] \notin InRound
                 PROVE  /\ Outstanding(s) = {} /\ num_started[s] = 0
                        /\ Branching(s) => sub_finished[s] = 0
      BY DEF JoinComplete, InRound
    <2>1. Outstanding(s) = {}
      BY TreeChildren DEF IInv, WorkIsForked, Forked, Outstanding, InRound
    <2>2. num_started[s] = 0
      BY <2>1, FS_EmptySet DEF IInv, StartedAccounting, OwnShare, InRound
    <2>3. Branching(s) => sub_finished[s] = 0
      BY DEF IInv, Posted, InRound
    <2> QED
      BY <2>1, <2>2, <2>3
  <1> QED
    BY <1>1, Invariance, PTL

\* Never more than NumThreads workers are at work, and every permit comes back
\* (solver.c:229-231).
THEOREM PermitsAreConserved == Spec => []PermitsConserved
  BY Invariance, PTL DEF IInv

\* The types, and with them that no size_t counter is decremented below zero: num_started
\* because of the accounting, the semaphores because they are waited for.
THEOREM TypesAreCorrect == Spec => []TypeOK
  <1>1. IInv => TypeOK
    <2> SUFFICES ASSUME IInv PROVE TypeOK
      OBVIOUS
    <2>1. ASSUME NEW s \in Scopes PROVE num_started[s] \in Nat
      <3>1. IsFiniteSet(Outstanding(s))
        BY TreeChildren, ScopesAssumption, FS_Subset DEF Outstanding
      <3>2. Cardinality(Outstanding(s)) \in Nat
        BY <3>1, FS_CardinalityType
      <3> QED
        BY <3>2 DEF IInv, StartedAccounting, OwnShare
    <2> QED
      BY <2>1 DEF IInv, Types, TypeOK
  <1> QED
    BY <1>1, Invariance, PTL

-----------------------------------------------------------------------------
(***************************************************************************)
(* Rounds: who was heard when a round is over, and that the threads        *)
(* implement the recursion of Rounds.                                      *)
(***************************************************************************)
\* During a round: who may be asked, and that the loop stops at the children it asks.
Asked ==
  \A s \in Scopes : pc[s] \in Asking =>
    /\ enabled[s] \subseteq Children(s)
    /\ pc[s] \in {"count", "start", "called"} => Current(s) \in enabled[s]
    /\ pc[s] \in {"join", "await", "joined"} => NotStarted(s) = {}

\* Only children that the parent asked have work.
Working == \A c \in Scopes \ {Root} : Busy(c) => c \in enabled[prev[c]]

\* core and result say what the children that were heard in this round answered.
Heard(s) == enabled[s] \ Pending(s)
Tally ==
  \A s \in Scopes : pc[s] \in Asking =>
    /\ core[s] = {c \in Heard(s) : answer[c] = "bad"}
    /\ result[s] = "good" <=> \A c \in Heard(s) : answer[c] = "bad"

RInv == IInv /\ Asked /\ Working /\ Tally

-----------------------------------------------------------------------------
(***************************************************************************)
(* The children that the loop has not started.                             *)
(***************************************************************************)
\* They depend on the place and the loop counter of the parent alone.
LEMMA SameNotStarted ==
  ASSUME NEW u \in Scopes, index'[u] = index[u], pc[u] = "called" <=> pc'[u] = "called"
  PROVE  NotStarted(u)' = NotStarted(u)
  BY DEF NotStarted

\* The loop moves on: the current child is passed over, or started.
LEMMA PassCurrent ==
  ASSUME NEW s \in Scopes, index[s] \in DOMAIN next[s], index[s] \in Nat, pc[s] # "called",
         \/ index'[s] = index[s] + 1 /\ pc'[s] # "called"
         \/ index'[s] = index[s] /\ pc'[s] = "called"
  PROVE  NotStarted(s)' = NotStarted(s) \ {Current(s)} /\ Current(s) \in NotStarted(s)
  <1>1. \A j \in DOMAIN next[s] : j \in Nat
    BY TreePositions
  <1>2. NotStarted(s) = {next[s][i] : i \in {j \in DOMAIN next[s] : j >= index[s]}}
    BY DEF NotStarted
  <1>3. NotStarted(s)' = {next[s][i] : i \in {j \in DOMAIN next[s] : j > index[s]}}
    BY <1>1 DEF NotStarted
  <1>4. \A i \in DOMAIN next[s] : next[s][i] = Current(s) => i = index[s]
    BY TreePositions DEF Current
  <1> QED
    BY <1>1, <1>2, <1>3, <1>4 DEF Current

\* The call of an only child is over.
LEMMA PassCalled ==
  ASSUME NEW s \in Scopes, index[s] \in Nat, pc[s] = "called",
         index'[s] = index[s] + 1, pc'[s] # "called"
  PROVE  NotStarted(s)' = NotStarted(s)
  <1>1. \A j \in DOMAIN next[s] : j \in Nat
    BY TreePositions
  <1> QED
    BY <1>1 DEF NotStarted

\* No child is left behind the last position.
LEMMA AllStarted ==
  ASSUME NEW s \in Scopes, index[s] \in Nat, index[s] > Len(next[s])
  PROVE  NotStarted(s) = {}
  BY TreePositions DEF NotStarted

\* At the first position none has been started.
LEMMA NoneStarted ==
  ASSUME NEW s \in Scopes, index'[s] = 1, pc'[s] # "called"
  PROVE  NotStarted(s)' = Children(s)
  BY TreePositions DEF NotStarted, Children

\* Pending follows the children with work and those not started.
LEMMA SamePending ==
  ASSUME NEW u \in Scopes, enabled'[u] = enabled[u], pc[u] \in Asking <=> pc'[u] \in Asking,
         pc[u] \in Asking =>
           \A c \in enabled[u] : (Busy(c) \/ c \in NotStarted(u))'
                                 <=> (Busy(c) \/ c \in NotStarted(u))
  PROVE  Pending(u)' = Pending(u)
  BY DEF Pending

\* With no child at work and none left to start, nobody is pending.
LEMMA NonePending ==
  ASSUME NEW s \in Scopes, Types, Asked, WorkIsForked, pc[s] = "joined"
  PROVE  Pending(s) = {}
  <1>1. \A c \in Children(s) : ~Busy(c)
    BY TreeChildren DEF WorkIsForked, Forked, InRound
  <1> QED
    BY <1>1 DEF Pending, Asked, Asking

\* A child with work has been started.
LEMMA WorkIsStarted ==
  ASSUME Types, Places, WorkIsForked, NEW c \in Scopes \ {Root}, Busy(c)
  PROVE  c \notin NotStarted(prev[c])
  <1> PICK p : p = prev[c]
    OBVIOUS
  <1>1. p \in Scopes /\ Forked(c, p)
    BY TreeParents DEF WorkIsForked
  <1>2. CASE Branching(p)
    <2>1. PICK i \in DOMAIN next[p] : i < index[p] /\ next[p][i] = c
      BY <1>1, <1>2 DEF Forked, Passed
    <2>2. \A j \in DOMAIN next[p] : next[p][j] = c => j = i
      BY <1>1, <2>1, TreePositions
    <2>3. i \in Nat
      BY <1>1, TreePositions
    <2>4. index[p] \in Nat
      BY <1>1 DEF Types
    <2> QED
      BY <2>1, <2>2, <2>3, <2>4 DEF NotStarted
  <1>3. CASE ~Branching(p)
    <2>1. pc[p] = "called" /\ index[p] \in DOMAIN next[p]
      BY <1>1, <1>3 DEF Forked, Places
    <2>2. \A j \in DOMAIN next[p] : j = 1
      BY <1>1, <1>3, OnlyChild
    <2> QED
      BY <2>1, <2>2 DEF NotStarted
  <1> QED
    BY <1>2, <1>3

-----------------------------------------------------------------------------
(***************************************************************************)
(* How the pending children follow the steps: all that are asked are       *)
(* pending at once, and stay so until they report.                         *)
(***************************************************************************)
Proposes(s) == pc[s] = "solve" /\ pc'[s] = "fork"
PendingAfter(s, u) ==
  IF Proposes(s) /\ u = s THEN enabled'[s]
  ELSE IF pc[s] = "report" /\ u = prev[s] THEN Pending(u) \ {s}
  ELSE Pending(u)

\* Every step does to the pending children what the step of Rounds that it implements does.
LEMMA PendingStep ==
  ASSUME IInv, Asked, NEW s \in Scopes, Step(s), NEW u \in Scopes
  PROVE  Pending(u)' = PendingAfter(s, u)
  <1> USE DEF IInv, Types, Places, Labels, Busy, Goto, Return, Wait, Post, Asking, Proposes
  <1>p. (prev[s] \in Scopes /\ prev[s] # s) \/ s = Root
    BY TreeParents
  <1>1. CASE TakeEntry(s)
    BY <1>1, SamePending, SameNotStarted DEF TakeEntry, PendingAfter
  <1>2. CASE TakePermit(s)
    BY <1>2, SamePending, SameNotStarted DEF TakePermit, PendingAfter
  <1>3. CASE ReleasePermit(s)
    BY <1>3, SamePending, SameNotStarted DEF ReleasePermit, PendingAfter
  <1>4. CASE AnswerAlone(s)
    BY <1>4, SamePending, SameNotStarted DEF AnswerAlone, PendingAfter
  <1>5. CASE Propose(s)
    <2>1. CASE u = s
      <3>1. enabled'[s] \subseteq Children(s) /\ pc'[s] = "fork" /\ pc[s] = "solve"
        BY <1>5 DEF Propose
      <3>2. NotStarted(s)' = Children(s)
        BY <1>5, NoneStarted DEF Propose
      <3>3. Pending(s)' = enabled'[s]
        BY <3>1, <3>2 DEF Pending
      <3> QED
        BY <2>1, <3>1, <3>3 DEF PendingAfter
    <2>2. CASE u # s
      BY <1>5, <2>2, SamePending, SameNotStarted DEF Propose, PendingAfter
    <2> QED
      BY <2>1, <2>2
  <1>6. CASE SkipChild(s)
    <2>1. CASE u = s
      <3>1. index[s] \in DOMAIN next[s] /\ index[s] \in Nat
        BY <1>6, TreePositions DEF SkipChild
      <3>2. NotStarted(s)' = NotStarted(s) \ {Current(s)}
        BY <1>6, <3>1, PassCurrent DEF SkipChild
      <3> QED
        BY <1>6, <2>1, <3>2, SamePending DEF SkipChild, PendingAfter
    <2>2. CASE u # s
      BY <1>6, <2>2, SamePending, SameNotStarted DEF SkipChild, PendingAfter
    <2> QED
      BY <2>1, <2>2
  <1>7. CASE LockToCount(s)
    BY <1>7, SamePending, SameNotStarted DEF LockToCount, PendingAfter
  <1>8. CASE CountChild(s)
    BY <1>8, SamePending, SameNotStarted DEF CountChild, PendingAfter
  <1>9. CASE StartWorker(s)
    <2>1. Current(s) \in Scopes \ {Root} /\ prev[Current(s)] = s /\ index[s] \in DOMAIN next[s]
      BY <1>9, ChildOfIndex DEF StartWorker
    <2>2. \A c \in Scopes : Busy(c)' <=> Busy(c) \/ c = Current(s)
      BY <1>9, <2>1 DEF StartWorker
    <2>3. CASE u = s
      <3>1. NotStarted(s)' = NotStarted(s) \ {Current(s)} /\ Current(s) \in NotStarted(s)
        BY <1>9, <2>1, PassCurrent DEF StartWorker
      <3>2. \A c \in enabled[s] : (Busy(c) \/ c \in NotStarted(s))'
                                   <=> (Busy(c) \/ c \in NotStarted(s))
        BY <2>2, <3>1
      <3> QED
        BY <1>9, <2>3, <3>2, SamePending DEF StartWorker, PendingAfter
    <2>4. CASE u # s
      <3>1. pc[u] \in Asking => \A c \in enabled[u] : prev[c] = u
        BY TreeChildren DEF Asked
      <3>2. NotStarted(u)' = NotStarted(u)
        BY <1>9, <2>4, SameNotStarted DEF StartWorker
      <3>3. pc[u] \in Asking =>
              \A c \in enabled[u] : (Busy(c) \/ c \in NotStarted(u))'
                                    <=> (Busy(c) \/ c \in NotStarted(u))
        BY <2>1, <2>2, <2>4, <3>1, <3>2
      <3> QED
        BY <1>9, <2>4, <3>3, SamePending DEF StartWorker, PendingAfter
    <2> QED
      BY <2>3, <2>4
  <1>10. CASE CallChild(s)
    <2>1. /\ Current(s) \in Scopes \ {Root} /\ prev[Current(s)] = s /\ Current(s) # s
          /\ index[s] \in DOMAIN next[s]
      BY <1>10, ChildOfIndex DEF CallChild
    <2>2. ~Busy(Current(s)) /\ pc[Current(s)] = "idle"
      BY <1>10, <2>1, CurrentHasNoWork DEF CallChild, WorkIsForked, IsWorker
    <2>3. \A c \in Scopes : Busy(c)' <=> Busy(c) \/ c = Current(s)
      BY <1>10, <2>1 DEF CallChild
    <2>4. CASE u = s
      <3>1. NotStarted(s)' = NotStarted(s) \ {Current(s)} /\ Current(s) \in NotStarted(s)
        BY <1>10, <2>1, PassCurrent DEF CallChild
      <3>2. \A c \in enabled[s] : (Busy(c) \/ c \in NotStarted(s))'
                                   <=> (Busy(c) \/ c \in NotStarted(s))
        BY <2>3, <3>1
      <3> QED
        BY <1>10, <2>1, <2>4, <3>2, SamePending DEF CallChild, PendingAfter
    <2>5. CASE u = Current(s)
      BY <1>10, <2>1, <2>2, <2>5 DEF CallChild, PendingAfter, Pending
    <2>6. CASE u # s /\ u # Current(s)
      <3>1. pc[u] \in Asking => \A c \in enabled[u] : prev[c] = u
        BY TreeChildren DEF Asked
      <3>2. NotStarted(u)' = NotStarted(u)
        BY <1>10, <2>6, SameNotStarted DEF CallChild
      <3>3. pc[u] \in Asking =>
              \A c \in enabled[u] : (Busy(c) \/ c \in NotStarted(u))'
                                    <=> (Busy(c) \/ c \in NotStarted(u))
        BY <2>1, <2>3, <2>6, <3>1, <3>2
      <3> QED
        BY <1>10, <2>6, <3>3, SamePending DEF CallChild, PendingAfter
    <2> QED
      BY <2>4, <2>5, <2>6
  <1>11. CASE LockToJoin(s)
    BY <1>11, SamePending, SameNotStarted DEF LockToJoin, PendingAfter
  <1>12. CASE Join(s)
    BY <1>12, SamePending, SameNotStarted DEF Join, PendingAfter
  <1>13. CASE AwaitChildren(s)
    BY <1>13, SamePending, SameNotStarted DEF AwaitChildren, PendingAfter
  <1>14. CASE AllAgreed(s)
    <2>1. CASE u = s
      <3>1. Pending(s) = {} /\ Pending(s)' = {}
        BY <1>14, NonePending DEF AllAgreed, Pending
      <3> QED
        BY <1>14, <2>1, <3>1 DEF AllAgreed, PendingAfter
    <2>2. CASE u # s
      BY <1>14, <2>2, SamePending, SameNotStarted DEF AllAgreed, PendingAfter
    <2> QED
      BY <2>1, <2>2
  <1>15. CASE Retry(s)
    <2>1. CASE u = s
      <3>1. Pending(s) = {} /\ Pending(s)' = {}
        BY <1>15, NonePending DEF Retry, Pending
      <3> QED
        BY <1>15, <2>1, <3>1 DEF Retry, PendingAfter
    <2>2. CASE u # s
      BY <1>15, <2>2, SamePending, SameNotStarted DEF Retry, PendingAfter
    <2> QED
      BY <2>1, <2>2
  <1>16. CASE LockToReport(s)
    BY <1>16, SamePending, SameNotStarted DEF LockToReport, PendingAfter
  <1>17. CASE Report(s)
    <2>1. s \in Scopes \ {Root} /\ prev[s] \in Scopes /\ prev[s] # s /\ Busy(s)
      BY <1>17, TreeParents DEF Report
    <2>2. has_entry[s] = 0
      BY <1>17 DEF Report, Entries
    <2>3. \A c \in Scopes : Busy(c)' <=> Busy(c) /\ c # s
      BY <1>17, <2>2 DEF Report
    <2>4. NotStarted(u)' = NotStarted(u)
      BY <1>17, SameNotStarted DEF Report
    <2>5. CASE u = prev[s]
      <3>1. s \notin NotStarted(u)
        BY <2>1, <2>5, WorkIsStarted
      <3>2. enabled'[u] = enabled[u] /\ pc'[u] = pc[u]
        BY <1>17, <2>1, <2>5 DEF Report
      <3>3. Pending(u)' = Pending(u) \ {s}
        BY <2>3, <2>4, <3>1, <3>2 DEF Pending
      <3> QED
        BY <1>17, <2>5, <3>3 DEF Report, PendingAfter
    <2>6. CASE u # prev[s]
      <3>1. pc[u] \in Asking => \A c \in enabled[u] : prev[c] = u
        BY TreeChildren DEF Asked
      <3>2. pc[u] \in Asking =>
              \A c \in enabled[u] : (Busy(c) \/ c \in NotStarted(u))'
                                    <=> (Busy(c) \/ c \in NotStarted(u))
        BY <2>3, <2>4, <2>6, <3>1
      <3> QED
        BY <1>17, <2>6, <3>2, SamePending DEF Report, PendingAfter
    <2> QED
      BY <2>5, <2>6
  <1>18. CASE UnlockWorker(s)
    BY <1>18, SamePending, SameNotStarted DEF UnlockWorker, PendingAfter
  <1>19. CASE ReturnToCaller(s)
    <2>1. s # Root /\ prev[s] \in Scopes /\ prev[s] # s /\ pc[prev[s]] = "called"
      BY <1>19, TreeParents DEF ReturnToCaller, WorkIsForked
    <2>2. \A c \in Scopes : Busy(c)' <=> Busy(c)
      BY <1>19, <2>1 DEF ReturnToCaller
    <2>3. NotStarted(u)' = NotStarted(u)
      <3>1. CASE u = prev[s]
        BY <1>19, <2>1, <3>1, PassCalled DEF ReturnToCaller
      <3>2. CASE u # prev[s]
        BY <1>19, <2>1, <3>2, SameNotStarted DEF ReturnToCaller
      <3> QED
        BY <3>1, <3>2
    <2>4. (pc[u] \in Asking <=> pc'[u] \in Asking) /\ enabled'[u] = enabled[u]
      BY <1>19, <2>1 DEF ReturnToCaller
    <2>5. \A c \in enabled[u] : (Busy(c) \/ c \in NotStarted(u))'
                                 <=> (Busy(c) \/ c \in NotStarted(u))
      BY <2>2, <2>3
    <2>6. Pending(u)' = Pending(u)
      BY <2>4, <2>5, SamePending
    <2> QED
      BY <1>19, <2>1, <2>6 DEF ReturnToCaller, PendingAfter
  <1> QED
    BY <1>1, <1>2, <1>3, <1>4, <1>5, <1>6, <1>7, <1>8, <1>9, <1>10,
       <1>11, <1>12, <1>13, <1>14, <1>15, <1>16, <1>17, <1>18, <1>19
    DEF Step, Worker, Round, Reporting

-----------------------------------------------------------------------------
(***************************************************************************)
(* The conjuncts of RInv are preserved by every step.                      *)
(***************************************************************************)
\* A proposal enables children only, and the loop stops at enabled ones.
LEMMA AskedStep ==
  ASSUME IInv, Asked, NEW s \in Scopes, Step(s)
  PROVE  Asked'
  <1> USE DEF IInv, Types, Places, Labels, Goto, Return, Asking
  <1> SUFFICES ASSUME NEW u \in Scopes, pc'[u] \in Asking
               PROVE  /\ enabled'[u] \subseteq Children(u)
                      /\ pc'[u] \in {"count", "start", "called"} => Current(u)' \in enabled'[u]
                      /\ pc'[u] \in {"join", "await", "joined"} => NotStarted(u)' = {}
    BY DEF Asked, Children
  <1>1. CASE TakeEntry(s)
    <2>1. NotStarted(u)' = NotStarted(u)
      BY <1>1, SameNotStarted DEF TakeEntry
    <2> QED
      BY <1>1, <2>1 DEF TakeEntry, Asked, Current
  <1>2. CASE TakePermit(s)
    <2>1. NotStarted(u)' = NotStarted(u)
      BY <1>2, SameNotStarted DEF TakePermit
    <2> QED
      BY <1>2, <2>1 DEF TakePermit, Asked, Current
  <1>3. CASE ReleasePermit(s)
    <2>1. NotStarted(u)' = NotStarted(u)
      BY <1>3, SameNotStarted DEF ReleasePermit
    <2> QED
      BY <1>3, <2>1 DEF ReleasePermit, Asked, Current
  <1>4. CASE AnswerAlone(s)
    <2>1. NotStarted(u)' = NotStarted(u)
      BY <1>4, SameNotStarted DEF AnswerAlone
    <2> QED
      BY <1>4, <2>1 DEF AnswerAlone, Asked, Current
  <1>5. CASE Propose(s)
    <2>1. CASE u = s
      BY <1>5, <2>1 DEF Propose
    <2>2. CASE u # s
      <3>1. NotStarted(u)' = NotStarted(u)
        BY <1>5, <2>2, SameNotStarted DEF Propose
      <3> QED
        BY <1>5, <2>2, <3>1 DEF Propose, Asked, Current
    <2> QED
      BY <2>1, <2>2
  <1>6. CASE SkipChild(s)
    <2>1. CASE u = s
      BY <1>6, <2>1 DEF SkipChild, Asked
    <2>2. CASE u # s
      <3>1. NotStarted(u)' = NotStarted(u)
        BY <1>6, <2>2, SameNotStarted DEF SkipChild
      <3> QED
        BY <1>6, <2>2, <3>1 DEF SkipChild, Asked, Current
    <2> QED
      BY <2>1, <2>2
  <1>7. CASE LockToCount(s)
    <2>1. NotStarted(u)' = NotStarted(u)
      BY <1>7, SameNotStarted DEF LockToCount
    <2> QED
      BY <1>7, <2>1 DEF LockToCount, Asked, Current
  <1>8. CASE CountChild(s)
    <2>1. NotStarted(u)' = NotStarted(u)
      BY <1>8, SameNotStarted DEF CountChild
    <2> QED
      BY <1>8, <2>1 DEF CountChild, Asked, Current
  <1>9. CASE StartWorker(s)
    <2>1. CASE u = s
      BY <1>9, <2>1 DEF StartWorker, Asked
    <2>2. CASE u # s
      <3>1. NotStarted(u)' = NotStarted(u)
        BY <1>9, <2>2, SameNotStarted DEF StartWorker
      <3> QED
        BY <1>9, <2>2, <3>1 DEF StartWorker, Asked, Current
    <2> QED
      BY <2>1, <2>2
  <1>10. CASE CallChild(s)
    <2>1. Current(s) \in Scopes /\ Current(s) # s
      BY <1>10, ChildOfIndex DEF CallChild
    <2>2. enabled' = enabled /\ index' = index /\ pc'[Current(s)] = "solve"
      BY <1>10, <2>1 DEF CallChild
    <2>3. CASE u = s
      BY <1>10, <2>1, <2>2, <2>3 DEF CallChild, Asked, Current
    <2>4. CASE u # s
      <3>1. pc'[u] = pc[u]
        BY <1>10, <2>1, <2>2, <2>4 DEF CallChild
      <3>2. NotStarted(u)' = NotStarted(u)
        BY <2>2, <3>1, SameNotStarted
      <3> QED
        BY <2>2, <3>1, <3>2 DEF Asked, Current
    <2> QED
      BY <2>3, <2>4
  <1>11. CASE LockToJoin(s)
    <2>1. NotStarted(u)' = NotStarted(u)
      BY <1>11, SameNotStarted DEF LockToJoin
    <2>2. NotStarted(s) = {}
      BY <1>11, AllStarted DEF LockToJoin
    <2> QED
      BY <1>11, <2>1, <2>2 DEF LockToJoin, Asked, Current
  <1>12. CASE Join(s)
    <2>1. NotStarted(u)' = NotStarted(u)
      BY <1>12, SameNotStarted DEF Join
    <2> QED
      BY <1>12, <2>1 DEF Join, Asked, Current
  <1>13. CASE AwaitChildren(s)
    <2>1. NotStarted(u)' = NotStarted(u)
      BY <1>13, SameNotStarted DEF AwaitChildren
    <2> QED
      BY <1>13, <2>1 DEF AwaitChildren, Asked, Current
  <1>14. CASE AllAgreed(s)
    <2>1. NotStarted(u)' = NotStarted(u)
      BY <1>14, SameNotStarted DEF AllAgreed
    <2> QED
      BY <1>14, <2>1 DEF AllAgreed, Asked, Current
  <1>15. CASE Retry(s)
    <2>1. NotStarted(u)' = NotStarted(u)
      BY <1>15, SameNotStarted DEF Retry
    <2> QED
      BY <1>15, <2>1 DEF Retry, Asked, Current
  <1>16. CASE LockToReport(s)
    <2>1. NotStarted(u)' = NotStarted(u)
      BY <1>16, SameNotStarted DEF LockToReport
    <2> QED
      BY <1>16, <2>1 DEF LockToReport, Asked, Current
  <1>17. CASE Report(s)
    <2>1. NotStarted(u)' = NotStarted(u)
      BY <1>17, SameNotStarted DEF Report
    <2> QED
      BY <1>17, <2>1 DEF Report, Asked, Current
  <1>18. CASE UnlockWorker(s)
    <2>1. NotStarted(u)' = NotStarted(u)
      BY <1>18, SameNotStarted DEF UnlockWorker
    <2> QED
      BY <1>18, <2>1 DEF UnlockWorker, Asked, Current
  <1>19. CASE ReturnToCaller(s)
    <2>1. s # Root /\ prev[s] \in Scopes /\ prev[s] # s /\ pc[prev[s]] = "called"
      BY <1>19, TreeParents DEF ReturnToCaller, WorkIsForked
    <2>2. enabled' = enabled
      BY <1>19 DEF ReturnToCaller
    <2>3. CASE u = prev[s]
      BY <1>19, <2>1, <2>2, <2>3 DEF ReturnToCaller, Asked
    <2>4. CASE u # prev[s]
      <3>1. pc'[u] = pc[u] /\ index'[u] = index[u]
        BY <1>19, <2>1, <2>4 DEF ReturnToCaller
      <3>2. NotStarted(u)' = NotStarted(u)
        BY <3>1, SameNotStarted
      <3> QED
        BY <2>2, <3>1, <3>2 DEF Asked, Current
    <2> QED
      BY <2>3, <2>4
  <1> QED
    BY <1>1, <1>2, <1>3, <1>4, <1>5, <1>6, <1>7, <1>8, <1>9, <1>10,
       <1>11, <1>12, <1>13, <1>14, <1>15, <1>16, <1>17, <1>18, <1>19
    DEF Step, Worker, Round, Reporting

\* Work is given to children that were asked, and a new round is for children without work.
LEMMA WorkingStep ==
  ASSUME IInv, Asked, Working, NEW s \in Scopes, Step(s)
  PROVE  Working'
  <1> USE DEF IInv, Types, Places, Labels, Busy, Goto, Return, Wait, Post
  <1> SUFFICES ASSUME NEW c \in Scopes \ {Root}, Busy(c)'
               PROVE  c \in enabled'[prev[c]]
    BY DEF Working
  <1>p. prev[c] \in Scopes
    BY TreeParents
  <1>1. CASE TakeEntry(s)
    BY <1>1 DEF TakeEntry, Working
  <1>2. CASE TakePermit(s)
    BY <1>2 DEF TakePermit, Working
  <1>3. CASE ReleasePermit(s)
    BY <1>3 DEF ReleasePermit, Working
  <1>4. CASE AnswerAlone(s)
    BY <1>4 DEF AnswerAlone, Working
  <1>5. CASE Propose(s)
    <2>1. Busy(c)
      BY <1>5 DEF Propose
    <2>2. prev[c] # s
      BY <1>5, <2>1 DEF Propose, WorkIsForked, Forked, InRound
    <2> QED
      BY <1>5, <1>p, <2>1, <2>2 DEF Propose, Working
  <1>6. CASE SkipChild(s)
    BY <1>6 DEF SkipChild, Working
  <1>7. CASE LockToCount(s)
    BY <1>7 DEF LockToCount, Working
  <1>8. CASE CountChild(s)
    BY <1>8 DEF CountChild, Working
  <1>9. CASE StartWorker(s)
    <2>1. Current(s) \in Scopes \ {Root} /\ prev[Current(s)] = s
      BY <1>9, ChildOfIndex DEF StartWorker
    <2>2. Current(s) \in enabled[s]
      BY <1>9 DEF StartWorker, Asked, Asking
    <2>3. c = Current(s) \/ Busy(c)
      BY <1>9, <2>1 DEF StartWorker
    <2> QED
      BY <1>9, <2>1, <2>2, <2>3 DEF StartWorker, Working
  <1>10. CASE CallChild(s)
    <2>1. Current(s) \in Scopes \ {Root} /\ prev[Current(s)] = s
      BY <1>10, ChildOfIndex DEF CallChild
    <2>2. Current(s) \in enabled[s]
      BY <1>10 DEF CallChild, Asked, Asking
    <2>3. c = Current(s) \/ Busy(c)
      BY <1>10, <2>1 DEF CallChild
    <2> QED
      BY <1>10, <2>1, <2>2, <2>3 DEF CallChild, Working
  <1>11. CASE LockToJoin(s)
    BY <1>11 DEF LockToJoin, Working
  <1>12. CASE Join(s)
    BY <1>12 DEF Join, Working
  <1>13. CASE AwaitChildren(s)
    BY <1>13 DEF AwaitChildren, Working
  <1>14. CASE AllAgreed(s)
    BY <1>14 DEF AllAgreed, Working
  <1>15. CASE Retry(s)
    BY <1>15 DEF Retry, Working
  <1>16. CASE LockToReport(s)
    BY <1>16 DEF LockToReport, Working
  <1>17. CASE Report(s)
    BY <1>17 DEF Report, Working
  <1>18. CASE UnlockWorker(s)
    BY <1>18 DEF UnlockWorker, Working
  <1>19. CASE ReturnToCaller(s)
    <2>1. s # Root /\ prev[s] \in Scopes /\ pc[prev[s]] = "called"
      BY <1>19, TreeParents DEF ReturnToCaller, WorkIsForked
    <2> QED
      BY <1>19, <2>1 DEF ReturnToCaller, Working
  <1> QED
    BY <1>1, <1>2, <1>3, <1>4, <1>5, <1>6, <1>7, <1>8, <1>9, <1>10,
       <1>11, <1>12, <1>13, <1>14, <1>15, <1>16, <1>17, <1>18, <1>19
    DEF Step, Worker, Round, Reporting

\* A child that was heard has no work any more.
LEMMA HeardIsDone ==
  ASSUME Asked, NEW u \in Scopes, pc[u] \in Asking, NEW c \in Heard(u)
  PROVE  c \in Scopes \ {Root} /\ prev[c] = u /\ ~Busy(c)
  BY TreeChildren DEF Asked, Heard, Pending

\* If the answers of the children heard, core and result stay, so does the tally.
LEMMA SameTally ==
  ASSUME NEW u \in Scopes, Tally, pc[u] \in Asking, core'[u] = core[u], result'[u] = result[u],
         Heard(u)' = Heard(u), \A c \in Heard(u) : answer'[c] = answer[c]
  PROVE  /\ core'[u] = {c \in Heard(u)' : answer'[c] = "bad"}
         /\ result'[u] = "good" <=> \A c \in Heard(u)' : answer'[c] = "bad"
  BY DEF Tally

\* The resets of a proposal and the report of a child keep the tally.
LEMMA TallyStep ==
  ASSUME IInv, Asked, Working, Tally, NEW s \in Scopes, Step(s)
  PROVE  Tally'
  <1> USE DEF IInv, Types, Places, Labels, Goto, Return, Asking
  <1> SUFFICES ASSUME NEW u \in Scopes, pc'[u] \in Asking
               PROVE  /\ core'[u] = {c \in Heard(u)' : answer'[c] = "bad"}
                      /\ result'[u] = "good" <=> \A c \in Heard(u)' : answer'[c] = "bad"
    BY DEF Tally
  <1>p. Pending(u)' = PendingAfter(s, u)
    BY PendingStep
  <1>h. enabled'[u] = enabled[u] /\ Pending(u)' = Pending(u) => Heard(u)' = Heard(u)
    BY DEF Heard
  <1>1. CASE TakeEntry(s)
    <2>1. Heard(u)' = Heard(u)
      BY <1>1, <1>p, <1>h DEF TakeEntry, PendingAfter, Proposes
    <2> QED
      BY <1>1, <2>1, SameTally DEF TakeEntry
  <1>2. CASE TakePermit(s)
    <2>1. Heard(u)' = Heard(u)
      BY <1>2, <1>p, <1>h DEF TakePermit, PendingAfter, Proposes
    <2> QED
      BY <1>2, <2>1, SameTally DEF TakePermit
  <1>3. CASE ReleasePermit(s)
    <2>1. Heard(u)' = Heard(u)
      BY <1>3, <1>p, <1>h DEF ReleasePermit, PendingAfter, Proposes
    <2> QED
      BY <1>3, <2>1, SameTally DEF ReleasePermit
  <1>4. CASE AnswerAlone(s)
    <2>1. Heard(u)' = Heard(u)
      BY <1>4, <1>p, <1>h DEF AnswerAlone, PendingAfter, Proposes
    <2>2. pc[u] \in Asking
      BY <1>4 DEF AnswerAlone
    <2>3. Busy(s)
      BY <1>4 DEF AnswerAlone, Busy
    <2>4. \A c \in Heard(u) : answer'[c] = answer[c]
      BY <1>4, <2>2, <2>3, HeardIsDone DEF AnswerAlone
    <2> QED
      BY <1>4, <2>1, <2>2, <2>4, SameTally DEF AnswerAlone
  <1>5. CASE Propose(s)
    <2>1. CASE u = s
      <3>1. Heard(u)' = {}
        BY <1>5, <1>p, <2>1 DEF Propose, PendingAfter, Proposes, Heard
      <3> QED
        BY <1>5, <2>1, <3>1 DEF Propose
    <2>2. CASE u # s
      <3>1. Heard(u)' = Heard(u)
        BY <1>5, <1>p, <1>h, <2>2 DEF Propose, PendingAfter
      <3> QED
        BY <1>5, <2>2, <3>1, SameTally DEF Propose
    <2> QED
      BY <2>1, <2>2
  <1>6. CASE SkipChild(s)
    <2>1. Heard(u)' = Heard(u)
      BY <1>6, <1>p, <1>h DEF SkipChild, PendingAfter, Proposes
    <2> QED
      BY <1>6, <2>1, SameTally DEF SkipChild
  <1>7. CASE LockToCount(s)
    <2>1. Heard(u)' = Heard(u)
      BY <1>7, <1>p, <1>h DEF LockToCount, PendingAfter, Proposes
    <2> QED
      BY <1>7, <2>1, SameTally DEF LockToCount
  <1>8. CASE CountChild(s)
    <2>1. Heard(u)' = Heard(u)
      BY <1>8, <1>p, <1>h DEF CountChild, PendingAfter, Proposes
    <2> QED
      BY <1>8, <2>1, SameTally DEF CountChild
  <1>9. CASE StartWorker(s)
    <2>1. Heard(u)' = Heard(u)
      BY <1>9, <1>p, <1>h DEF StartWorker, PendingAfter, Proposes
    <2> QED
      BY <1>9, <2>1, SameTally DEF StartWorker
  <1>10. CASE CallChild(s)
    <2>1. Current(s) \in Scopes
      BY <1>10, ChildOfIndex DEF CallChild
    <2>2. pc[u] \in Asking
      BY <1>10, <2>1 DEF CallChild
    <2>3. Heard(u)' = Heard(u)
      BY <1>10, <1>p, <1>h DEF CallChild, PendingAfter, Proposes
    <2> QED
      BY <1>10, <2>2, <2>3, SameTally DEF CallChild
  <1>11. CASE LockToJoin(s)
    <2>1. Heard(u)' = Heard(u)
      BY <1>11, <1>p, <1>h DEF LockToJoin, PendingAfter, Proposes
    <2> QED
      BY <1>11, <2>1, SameTally DEF LockToJoin
  <1>12. CASE Join(s)
    <2>1. Heard(u)' = Heard(u)
      BY <1>12, <1>p, <1>h DEF Join, PendingAfter, Proposes
    <2> QED
      BY <1>12, <2>1, SameTally DEF Join
  <1>13. CASE AwaitChildren(s)
    <2>1. Heard(u)' = Heard(u)
      BY <1>13, <1>p, <1>h DEF AwaitChildren, PendingAfter, Proposes
    <2> QED
      BY <1>13, <2>1, SameTally DEF AwaitChildren
  <1>14. CASE AllAgreed(s)
    <2>1. Heard(u)' = Heard(u)
      BY <1>14, <1>p, <1>h DEF AllAgreed, PendingAfter, Proposes
    <2>2. pc[u] \in Asking
      BY <1>14 DEF AllAgreed
    <2>3. Busy(s)
      BY <1>14 DEF AllAgreed, Busy
    <2>4. \A c \in Heard(u) : answer'[c] = answer[c]
      BY <1>14, <2>2, <2>3, HeardIsDone DEF AllAgreed
    <2> QED
      BY <1>14, <2>1, <2>2, <2>4, SameTally DEF AllAgreed
  <1>15. CASE Retry(s)
    <2>1. Heard(u)' = Heard(u)
      BY <1>15, <1>p, <1>h DEF Retry, PendingAfter, Proposes
    <2> QED
      BY <1>15, <2>1, SameTally DEF Retry
  <1>16. CASE LockToReport(s)
    <2>1. Heard(u)' = Heard(u)
      BY <1>16, <1>p, <1>h DEF LockToReport, PendingAfter, Proposes
    <2> QED
      BY <1>16, <2>1, SameTally DEF LockToReport
  <1>17. CASE Report(s)
    <2>1. s \in Scopes \ {Root} /\ prev[s] \in Scopes /\ Busy(s)
      BY <1>17, TreeParents DEF Report, Busy
    <2>2. enabled' = enabled /\ answer' = answer /\ (pc'[u] \in Asking => pc[u] \in Asking)
      BY <1>17 DEF Report
    <2>3. CASE u = prev[s]
      <3>1. s \in enabled[u] /\ s \in Pending(u)
        BY <2>1, <2>2, <2>3 DEF Working, Pending
      <3>2. Heard(u)' = Heard(u) \cup {s}
        BY <1>17, <1>p, <2>2, <2>3, <3>1 DEF Report, PendingAfter, Proposes, Heard
      <3>3. CASE answer[s] = "good"
        BY <1>17, <2>1, <2>2, <2>3, <3>2, <3>3 DEF Report, Contribute, Tally
      <3>4. CASE answer[s] = "bad"
        <4>1. core'[u] = core[u] \cup {s} /\ result'[u] = result[u]
          BY <1>17, <2>1, <2>3, <3>4 DEF Report, Contribute
        <4> QED
          BY <2>2, <3>2, <3>4, <4>1 DEF Tally
      <3> QED
        BY <3>3, <3>4
    <2>4. CASE u # prev[s]
      <3>1. Heard(u)' = Heard(u)
        BY <1>17, <1>p, <1>h, <2>2, <2>4 DEF Report, PendingAfter, Proposes
      <3>2. core'[u] = core[u] /\ result'[u] = result[u]
        BY <1>17, <2>4 DEF Report, Contribute
      <3> QED
        BY <2>2, <3>1, <3>2, SameTally
    <2> QED
      BY <2>3, <2>4
  <1>18. CASE UnlockWorker(s)
    <2>1. Heard(u)' = Heard(u)
      BY <1>18, <1>p, <1>h DEF UnlockWorker, PendingAfter, Proposes
    <2> QED
      BY <1>18, <2>1, SameTally DEF UnlockWorker
  <1>19. CASE ReturnToCaller(s)
    <2>1. s # Root /\ prev[s] \in Scopes /\ pc[prev[s]] = "called"
      BY <1>19, TreeParents DEF ReturnToCaller, WorkIsForked
    <2>2. pc[u] \in Asking
      BY <1>19, <2>1 DEF ReturnToCaller
    <2>3. Heard(u)' = Heard(u)
      BY <1>19, <1>p, <1>h DEF ReturnToCaller, PendingAfter, Proposes
    <2> QED
      BY <1>19, <2>2, <2>3, SameTally DEF ReturnToCaller
  <1> QED
    BY <1>1, <1>2, <1>3, <1>4, <1>5, <1>6, <1>7, <1>8, <1>9, <1>10,
       <1>11, <1>12, <1>13, <1>14, <1>15, <1>16, <1>17, <1>18, <1>19
    DEF Step, Worker, Round, Reporting

\* No child is busy at first and nobody is asking; every step preserves the conjunction.
LEMMA RoundInvariance == Spec => []RInv
  <1>1. Init => Asked /\ Working /\ Tally
    BY DEF Init, Waiting, Asked, Asking, Working, Busy, Tally
  <1>2. ASSUME RInv, NEW s \in Scopes, Step(s) PROVE (Asked /\ Working /\ Tally)'
    BY <1>2, AskedStep, WorkingStep, TallyStep DEF RInv
  <1>3. ASSUME RInv, UNCHANGED vars PROVE (Asked /\ Working /\ Tally)'
    <2> USE <1>3 DEF vars, RInv
    <2>1. \A s \in Scopes : NotStarted(s)' = NotStarted(s) /\ Pending(s)' = Pending(s)
      BY DEF NotStarted, Pending, Busy
    <2>2. Asked'
      BY <2>1 DEF Asked, Current, Children
    <2>3. Working'
      BY DEF Working, Busy
    <2>4. Tally'
      BY <2>1 DEF Tally, Heard
    <2> QED
      BY <2>2, <2>3, <2>4
  <1>4. RInv /\ [Next]_vars => (Asked /\ Working /\ Tally)'
    BY <1>2, <1>3 DEF Next, Terminated
  <1> QED
    BY InitIInv, StepIInv, <1>1, <1>4, PTL DEF Spec, RInv

-----------------------------------------------------------------------------
\* Whatever the order of the reports, a round that is over has gathered the cores of exactly
\* the enabled children that agreed, and is good iff all of them did (solve_sub,
\* solver.c:196).
THEOREM RoundOutcomeHolds == Spec => []RoundOutcome
  <1>1. RInv => RoundOutcome
    <2> SUFFICES ASSUME RInv, NEW s \in Scopes, pc[s] = "joined"
                 PROVE  /\ core[s] = {c \in enabled[s] : answer[c] = "bad"}
                        /\ result[s] = "good" <=> core[s] = enabled[s]
      BY DEF RoundOutcome
    <2>1. Heard(s) = enabled[s]
      BY NonePending DEF Heard, RInv, IInv
    <2> QED
      BY <2>1 DEF RInv, Tally, Asking
  <1> QED
    BY <1>1, RoundInvariance, PTL

-----------------------------------------------------------------------------
(***************************************************************************)
(* ParallelSolve implements Rounds.                                        *)
(***************************************************************************)
\* Both describe the same tree.
LEMMA SameTree ==
  /\ R!Tree = Scopes
  /\ \A s \in Scopes : R!Children(s) = Children(s)
  BY ScopesAssumption, PrevAssumption, TreeChildren DEF R!Tree, R!Children

\* A scope that stays where it is, and pending or not as before, stays in its state.
LEMMA SameState ==
  ASSUME NEW u \in Scopes, pc'[u] = pc[u], answer'[u] = answer[u],
         u # Root => (u \in Pending(prev[u]))' = (u \in Pending(prev[u]))
  PROVE  State(u)' = State(u)
  BY DEF State

\* A child with work is pending.
LEMMA BusyIsPending ==
  ASSUME IInv, Working, NEW c \in Scopes \ {Root}, Busy(c)
  PROVE  c \in Pending(prev[c]) /\ prev[c] \in Scopes
  BY TreeParents DEF IInv, WorkIsForked, Forked, InRound, Asking, Working, Pending

\* The steps that are hidden: between being asked and deciding, or within the loop.
LEMMA HiddenStep ==
  ASSUME RInv, NEW s \in Scopes, Step(s), result' = result,
         \A u \in Scopes : Pending(u)' = Pending(u) /\ State(u)' = State(u)
  PROVE  UNCHANGED R!vars
  BY DEF R!vars

\* What a step that changes one state does to the mapped function.
LEMMA OneState ==
  ASSUME NEW s \in Scopes, \A u \in Scopes \ {s} : State(u)' = State(u)
  PROVE  [u \in Scopes |-> State(u)]' = [[u \in Scopes |-> State(u)] EXCEPT ![s] = State(s)']
  OBVIOUS

\* Every step of a thread is one step of Rounds or hidden.
LEMMA StepIsRound ==
  ASSUME RInv, NEW s \in Scopes, Step(s)
  PROVE  R!Next \/ UNCHANGED R!vars
  <1> USE DEF RInv, IInv, Types, Places, Labels, Goto, Return, Asking, Proposes
  <1>p. \A u \in Scopes : Pending(u)' = PendingAfter(s, u)
    BY PendingStep
  <1>t. \A u \in Scopes \ {Root} : prev[u] \in Scopes /\ prev[u] # u
    BY TreeParents
  <1>1. CASE TakeEntry(s)
    <2>1. \A u \in Scopes : Pending(u)' = Pending(u)
      BY <1>1, <1>p DEF TakeEntry, PendingAfter
    <2>2. \A u \in Scopes \ {s} : State(u)' = State(u)
      BY <1>1, <1>t, <2>1, SameState DEF TakeEntry
    <2>3. State(s)' = State(s)
      BY <1>1, <1>t, <2>1 DEF TakeEntry, State
    <2> QED
      BY <1>1, <2>1, <2>2, <2>3, HiddenStep DEF TakeEntry
  <1>2. CASE TakePermit(s)
    <2>1. \A u \in Scopes : Pending(u)' = Pending(u)
      BY <1>2, <1>p DEF TakePermit, PendingAfter
    <2>2. \A u \in Scopes \ {s} : State(u)' = State(u)
      BY <1>2, <1>t, <2>1, SameState DEF TakePermit
    <2>3. s # Root /\ s \in Pending(prev[s])
      BY <1>2, BusyIsPending DEF TakePermit, Busy, IsWorker
    <2>4. State(s)' = "deciding" /\ State(s) = "deciding"
      BY <1>2, <1>t, <2>1, <2>3 DEF TakePermit, State
    <2> QED
      BY <1>2, <2>1, <2>2, <2>4, HiddenStep DEF TakePermit
  <1>3. CASE ReleasePermit(s)
    <2>1. \A u \in Scopes : Pending(u)' = Pending(u)
      BY <1>3, <1>p DEF ReleasePermit, PendingAfter
    <2>2. \A u \in Scopes \ {s} : State(u)' = State(u)
      BY <1>3, <1>t, <2>1, SameState DEF ReleasePermit
    <2>3. State(s)' = State(s)
      BY <1>3, <1>t, <2>1 DEF ReleasePermit, State
    <2> QED
      BY <1>3, <2>1, <2>2, <2>3, HiddenStep DEF ReleasePermit
  <1>4. CASE AnswerAlone(s)
    <2>1. \A u \in Scopes : Pending(u)' = Pending(u)
      BY <1>4, <1>p DEF AnswerAlone, PendingAfter
    <2>2. \A u \in Scopes \ {s} : State(u)' = State(u)
      BY <1>4, <1>t, <2>1, SameState DEF AnswerAlone
    <2>3. State(s) = "deciding" /\ State(s)' = answer'[s]
      BY <1>4 DEF AnswerAlone, State
    <2>4. UNCHANGED <<prev, Prefix, [u \in Scopes |-> Pending(u)], result>>
      BY <1>4, <2>1 DEF AnswerAlone
    <2>5. [u \in Scopes |-> State(u)]' = [[u \in Scopes |-> State(u)] EXCEPT ![s] = answer'[s]]
      BY <2>2, <2>3, OneState
    <2>6. CASE answer'[s] = "bad"
      <3>1. R!GiveUp(s)
        BY <2>3, <2>4, <2>5, <2>6 DEF R!GiveUp
      <3> QED
        BY <3>1, SameTree DEF R!Next
    <2>7. CASE answer'[s] = "good"
      <3>1. Children(s) = {}
        BY <1>4, <2>7 DEF AnswerAlone, IsLeaf, Children
      <3>2. R!WinAlone(s)
        BY <2>3, <2>4, <2>5, <2>7, <3>1, SameTree DEF R!WinAlone
      <3> QED
        BY <3>2, SameTree DEF R!Next
    <2> QED
      BY <1>4, <2>6, <2>7 DEF AnswerAlone
  <1>5. CASE Propose(s)
    <2> DEFINE E == enabled'[s]
    <2>1. /\ E \subseteq Children(s) /\ Children(s) \cap Prefix \subseteq E
          /\ pc[s] = "solve" /\ pc' = [pc EXCEPT ![s] = "fork"] /\ answer' = answer
      BY <1>5 DEF Propose
    <2>2. Children(s) # {} /\ \A c \in Children(s) : c \in Scopes /\ prev[c] = s /\ c # s
      <3>1. Children(s) # {}
        <4>1. next[s] \in Seq(Scopes \ {Root}) /\ next[s] # <<>>
          BY <1>5, NextAssumption DEF Propose, IsLeaf
        <4>2. 1 \in DOMAIN next[s]
          BY <4>1
        <4>3. next[s][1] \in Children(s)
          BY <4>2 DEF Children
        <4> QED
          BY <4>3
      <3> QED
        BY <1>t, <3>1, TreeChildren
    <2>3. Pending(s)' = E /\ \A u \in Scopes \ {s} : Pending(u)' = Pending(u)
      BY <1>p, <2>1 DEF PendingAfter
    <2>4. \A c \in Children(s) : pc[c] \in {"entry", "idle", "reported", "release"}
      BY <2>1, TreeChildren DEF WorkIsForked, Forked, InRound, Busy
    <2>5. ASSUME NEW u \in Scopes
          PROVE  State(u)' = IF u = s THEN "asking" ELSE IF u \in E THEN "deciding" ELSE State(u)
      <3>1. CASE u = s
        BY <2>1, <3>1 DEF State
      <3>2. CASE u \in Children(s)
        <4>1. u # s /\ u # Root /\ prev[u] = s /\ pc'[u] = pc[u]
          BY <2>1, <2>2, <3>2, TreeChildren
        <4>2. State(u)' = IF u \in E THEN "deciding" ELSE "idle"
          BY <2>3, <2>4, <3>2, <4>1 DEF State
        <4>3. State(u) = "idle"
          BY <2>1, <2>4, <3>2, <4>1 DEF State, Pending
        <4> QED
          BY <4>1, <4>2, <4>3
      <3>3. CASE u # s /\ u \notin Children(s)
        <4>1. u # Root => prev[u] \in Scopes \ {s}
          BY <1>t, <3>3, TreeChildren
        <4> QED
          BY <2>1, <2>3, <3>3, <4>1, SameState
      <3> QED
        BY <3>1, <3>2, <3>3
    <2>6. [u \in Scopes |-> Pending(u)]' = [[u \in Scopes |-> Pending(u)] EXCEPT ![s] = E]
      BY <2>3
    <2>7. [u \in Scopes |-> State(u)]' =
             [u \in Scopes |-> IF u = s THEN "asking" ELSE IF u \in E THEN "deciding"
                               ELSE [v \in Scopes |-> State(v)][u]]
      BY <2>5
    <2>8. State(s) = "deciding" /\ result' = [result EXCEPT ![s] = "good"]
      BY <1>5, <2>1 DEF State, Propose
    <2>9. R!Ask(s)
      <3>1. E \in SUBSET R!Children(s) /\ R!Children(s) \cap Prefix \subseteq E
        BY <2>1, SameTree
      <3>2. [u \in Scopes |-> State(u)][s] = "deciding" /\ R!Children(s) # {}
        BY <2>2, <2>8, SameTree
      <3> QED
        BY <2>6, <2>7, <2>8, <3>1, <3>2, SameTree DEF R!Ask
    <2> QED
      BY <2>9, SameTree DEF R!Next
  <1>6. CASE SkipChild(s)
    <2>1. \A u \in Scopes : Pending(u)' = Pending(u)
      BY <1>6, <1>p DEF SkipChild, PendingAfter
    <2>2. \A u \in Scopes \ {s} : State(u)' = State(u)
      BY <1>6, <1>t, <2>1, SameState DEF SkipChild
    <2>3. State(s)' = State(s)
      BY <1>6, <1>t, <2>1 DEF SkipChild, State
    <2> QED
      BY <1>6, <2>1, <2>2, <2>3, HiddenStep DEF SkipChild
  <1>7. CASE LockToCount(s)
    <2>1. \A u \in Scopes : Pending(u)' = Pending(u)
      BY <1>7, <1>p DEF LockToCount, PendingAfter
    <2>2. \A u \in Scopes \ {s} : State(u)' = State(u)
      BY <1>7, <1>t, <2>1, SameState DEF LockToCount
    <2>3. State(s)' = State(s)
      BY <1>7, <1>t, <2>1 DEF LockToCount, State
    <2> QED
      BY <1>7, <2>1, <2>2, <2>3, HiddenStep DEF LockToCount
  <1>8. CASE CountChild(s)
    <2>1. \A u \in Scopes : Pending(u)' = Pending(u)
      BY <1>8, <1>p DEF CountChild, PendingAfter
    <2>2. \A u \in Scopes \ {s} : State(u)' = State(u)
      BY <1>8, <1>t, <2>1, SameState DEF CountChild
    <2>3. State(s)' = State(s)
      BY <1>8, <1>t, <2>1 DEF CountChild, State
    <2> QED
      BY <1>8, <2>1, <2>2, <2>3, HiddenStep DEF CountChild
  <1>9. CASE StartWorker(s)
    <2>1. \A u \in Scopes : Pending(u)' = Pending(u)
      BY <1>9, <1>p DEF StartWorker, PendingAfter
    <2>2. \A u \in Scopes \ {s} : State(u)' = State(u)
      BY <1>9, <1>t, <2>1, SameState DEF StartWorker
    <2>3. State(s)' = State(s)
      BY <1>9, <1>t, <2>1 DEF StartWorker, State
    <2> QED
      BY <1>9, <2>1, <2>2, <2>3, HiddenStep DEF StartWorker
  <1>10. CASE CallChild(s)
    <2>1. \A u \in Scopes : Pending(u)' = Pending(u)
      BY <1>10, <1>p DEF CallChild, PendingAfter
    <2>2. PICK d \in Scopes \ {Root} : d = Current(s) /\ prev[d] = s /\ d # s
      BY <1>10, ChildOfIndex DEF CallChild
    <2>3. pc[d] = "idle" /\ pc' = [pc EXCEPT ![s] = "called", ![d] = "solve"]
      BY <1>10, <2>2, CurrentHasNoWork DEF CallChild, WorkIsForked, IsWorker
    <2>4. d \in Pending(s)
      <3>1. d \in enabled[s]
        BY <1>10, <2>2 DEF CallChild, Asked
      <3>2. d \in NotStarted(s)
        BY <1>10, <2>2, PassCurrent DEF CallChild
      <3> QED
        BY <1>10, <3>1, <3>2 DEF CallChild, Pending
    <2>5. \A u \in Scopes \ {s, d} : State(u)' = State(u)
      BY <1>10, <1>t, <2>1, <2>3, SameState DEF CallChild
    <2>6. State(s)' = State(s)
      BY <1>10, <2>2, <2>3 DEF CallChild, State
    <2>7. State(d)' = "deciding" /\ State(d) = "deciding"
      BY <2>2, <2>3, <2>4 DEF State
    <2> QED
      BY <1>10, <2>1, <2>5, <2>6, <2>7, HiddenStep DEF CallChild
  <1>11. CASE LockToJoin(s)
    <2>1. \A u \in Scopes : Pending(u)' = Pending(u)
      BY <1>11, <1>p DEF LockToJoin, PendingAfter
    <2>2. \A u \in Scopes \ {s} : State(u)' = State(u)
      BY <1>11, <1>t, <2>1, SameState DEF LockToJoin
    <2>3. State(s)' = State(s)
      BY <1>11, <1>t, <2>1 DEF LockToJoin, State
    <2> QED
      BY <1>11, <2>1, <2>2, <2>3, HiddenStep DEF LockToJoin
  <1>12. CASE Join(s)
    <2>1. \A u \in Scopes : Pending(u)' = Pending(u)
      BY <1>12, <1>p DEF Join, PendingAfter
    <2>2. \A u \in Scopes \ {s} : State(u)' = State(u)
      BY <1>12, <1>t, <2>1, SameState DEF Join
    <2>3. State(s)' = State(s)
      BY <1>12, <1>t, <2>1 DEF Join, State
    <2> QED
      BY <1>12, <2>1, <2>2, <2>3, HiddenStep DEF Join
  <1>13. CASE AwaitChildren(s)
    <2>1. \A u \in Scopes : Pending(u)' = Pending(u)
      BY <1>13, <1>p DEF AwaitChildren, PendingAfter
    <2>2. \A u \in Scopes \ {s} : State(u)' = State(u)
      BY <1>13, <1>t, <2>1, SameState DEF AwaitChildren
    <2>3. State(s)' = State(s)
      BY <1>13, <1>t, <2>1 DEF AwaitChildren, State
    <2> QED
      BY <1>13, <2>1, <2>2, <2>3, HiddenStep DEF AwaitChildren
  <1>14. CASE AllAgreed(s)
    <2>1. \A u \in Scopes : Pending(u)' = Pending(u)
      BY <1>14, <1>p DEF AllAgreed, PendingAfter
    <2>2. \A u \in Scopes \ {s} : State(u)' = State(u)
      BY <1>14, <1>t, <2>1, SameState DEF AllAgreed
    <2>3. State(s) = "asking" /\ State(s)' = "good" /\ Pending(s) = {} /\ result[s] = "good"
      BY <1>14, NonePending DEF AllAgreed, State
    <2>4. UNCHANGED <<prev, Prefix, [u \in Scopes |-> Pending(u)], result>>
      BY <1>14, <2>1 DEF AllAgreed
    <2>5. [u \in Scopes |-> State(u)]' = [[u \in Scopes |-> State(u)] EXCEPT ![s] = "good"]
      BY <2>2, <2>3, OneState
    <2>6. R!Conclude(s)
      BY <2>3, <2>4, <2>5 DEF R!Conclude, R!RoundIsOver
    <2> QED
      BY <2>6, SameTree DEF R!Next
  <1>15. CASE Retry(s)
    <2>1. \A u \in Scopes : Pending(u)' = Pending(u)
      BY <1>15, <1>p DEF Retry, PendingAfter
    <2>2. \A u \in Scopes \ {s} : State(u)' = State(u)
      BY <1>15, <1>t, <2>1, SameState DEF Retry
    <2>3. State(s) = "asking" /\ State(s)' = "deciding" /\ Pending(s) = {} /\ result[s] = "bad"
      BY <1>15, NonePending DEF Retry, State
    <2>4. UNCHANGED <<prev, Prefix, [u \in Scopes |-> Pending(u)], result>>
      BY <1>15, <2>1 DEF Retry
    <2>5. [u \in Scopes |-> State(u)]' = [[u \in Scopes |-> State(u)] EXCEPT ![s] = "deciding"]
      BY <2>2, <2>3, OneState
    <2>6. R!DecideAnew(s)
      BY <2>3, <2>4, <2>5 DEF R!DecideAnew, R!RoundIsOver
    <2> QED
      BY <2>6, SameTree DEF R!Next
  <1>16. CASE LockToReport(s)
    <2>1. \A u \in Scopes : Pending(u)' = Pending(u)
      BY <1>16, <1>p DEF LockToReport, PendingAfter
    <2>2. \A u \in Scopes \ {s} : State(u)' = State(u)
      BY <1>16, <1>t, <2>1, SameState DEF LockToReport
    <2>3. State(s)' = State(s)
      BY <1>16, <1>t, <2>1 DEF LockToReport, State
    <2> QED
      BY <1>16, <2>1, <2>2, <2>3, HiddenStep DEF LockToReport
  <1>17. CASE Report(s)
    <2>1. s # Root /\ prev[s] \in Scopes /\ prev[s] # s /\ s \in Pending(prev[s])
      BY <1>17, <1>t, BusyIsPending DEF Report, Busy
    <2>2. /\ Pending(prev[s])' = Pending(prev[s]) \ {s}
          /\ \A u \in Scopes \ {prev[s]} : Pending(u)' = Pending(u)
      BY <1>17, <1>p, <2>1 DEF Report, PendingAfter
    <2>3. \A u \in Scopes \ {s} : State(u)' = State(u)
      BY <1>17, <1>t, <2>2, SameState DEF Report
    <2>4. State(s) = answer[s] /\ State(s)' = "idle"
      BY <1>17, <2>1, <2>2 DEF Report, State
    <2>5. [u \in Scopes |-> Pending(u)]'
            = [[u \in Scopes |-> Pending(u)] EXCEPT ![prev[s]] = Pending(prev[s]) \ {s}]
      BY <2>2
    <2>6. [u \in Scopes |-> State(u)]' = [[u \in Scopes |-> State(u)] EXCEPT ![s] = "idle"]
      BY <2>3, <2>4, OneState
    <2>7. /\ answer[s] \in {"good", "bad"}
          /\ result' = IF answer[s] = "good" THEN [result EXCEPT ![prev[s]] = "bad"] ELSE result
      BY <1>17 DEF Report, Contribute
    <2>8. R!Hear(s)
      BY <2>1, <2>4, <2>5, <2>6, <2>7 DEF R!Hear
    <2> QED
      BY <2>8, SameTree DEF R!Next
  <1>18. CASE UnlockWorker(s)
    <2>1. \A u \in Scopes : Pending(u)' = Pending(u)
      BY <1>18, <1>p DEF UnlockWorker, PendingAfter
    <2>2. \A u \in Scopes \ {s} : State(u)' = State(u)
      BY <1>18, <1>t, <2>1, SameState DEF UnlockWorker
    <2>3. State(s)' = State(s)
      BY <1>18, <1>t, <2>1 DEF UnlockWorker, State
    <2> QED
      BY <1>18, <2>1, <2>2, <2>3, HiddenStep DEF UnlockWorker
  <1>19. CASE ReturnToCaller(s)
    <2>1. s # Root /\ prev[s] \in Scopes /\ prev[s] # s /\ pc[prev[s]] = "called"
      BY <1>19, <1>t DEF ReturnToCaller, WorkIsForked
    <2>2. \A u \in Scopes : Pending(u)' = Pending(u)
      BY <1>19, <1>p DEF ReturnToCaller, PendingAfter
    <2>3. \A u \in Scopes \ {s, prev[s]} : State(u)' = State(u)
      BY <1>19, <1>t, <2>1, <2>2, SameState DEF ReturnToCaller
    <2>4. State(s)' = State(s) /\ State(prev[s])' = State(prev[s])
      BY <1>19, <2>1, <2>2 DEF ReturnToCaller, State
    <2> QED
      BY <1>19, <2>2, <2>3, <2>4, HiddenStep DEF ReturnToCaller
  <1> QED
    BY <1>1, <1>2, <1>3, <1>4, <1>5, <1>6, <1>7, <1>8, <1>9, <1>10,
       <1>11, <1>12, <1>13, <1>14, <1>15, <1>16, <1>17, <1>18, <1>19
    DEF Step, Worker, Round, Reporting

\* The threads of the parallel solver implement the recursion in rounds: whatever they
\* interleave, no child is heard twice, in another round, or after the round was concluded
\* (solver.c:196-268 against the loop of solve_recursive, 295).
THEOREM ThreadsImplementRounds == Spec => ImplementsRounds
  <1>1. Init => R!Init
    <2> SUFFICES ASSUME Init PROVE R!Init
      OBVIOUS
    <2>1. \A s \in Scopes : Pending(s) = {} /\ State(s) = IF s = Root THEN "deciding" ELSE "idle"
      BY TreeParents DEF Init, Waiting, Pending, Asking, State
    <2> QED
      BY <2>1, SameTree DEF R!Init
  <1>2. RInv /\ [Next]_vars => [R!Next]_R!vars
    <2>1. ASSUME RInv, NEW s \in Scopes, Step(s) PROVE R!Next \/ UNCHANGED R!vars
      BY <2>1, StepIsRound
    <2>2. ASSUME UNCHANGED vars PROVE UNCHANGED R!vars
      <3>1. \A s \in Scopes : Pending(s)' = Pending(s)
        BY <2>2 DEF vars, Pending, NotStarted, Busy
      <3>2. \A s \in Scopes : State(s)' = State(s)
        BY <2>2, <3>1, TreeParents DEF vars, State
      <3> QED
        BY <2>2, <3>1, <3>2 DEF vars, R!vars
    <2> QED
      BY <2>1, <2>2 DEF Next, Terminated
  <1> QED
    BY RoundInvariance, <1>1, <1>2, PTL DEF Spec, ImplementsRounds, R!Spec

=============================================================================

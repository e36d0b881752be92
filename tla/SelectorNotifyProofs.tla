------------------------ MODULE SelectorNotifyProofs ------------------------
(***************************************************************************)
(* Proofs about SelectorNotify, for any set of threads: the types, that no *)
(* wake-up is lost, that no job is lost or reported twice, and that every  *)
(* step is a step of BlockNotifications or leaves it alone.                *)
(***************************************************************************)
EXTENDS SelectorNotify, TLAPS

\* The mutex is held by whoever is between its lock and its unlock.
LockInv ==
    /\ \A w \in Workers : pc[w] \in {"link", "push", "unlock"} <=> mutex = w
    /\ sel \in {"drain", "clear", "unlock"} <=> mutex = SelectorThread

\* pthread_kill has a target as soon as there is a thread to call it.
TargetInv ==
    /\ sel # "idle" => selector_thread = SelectorThread
    /\ \A w \in Workers : pc[w] # "unborn" => selector_thread = SelectorThread

\* What a thread has linked its job to is still the head when it pushes.
LinkInv ==
    \A w \in Workers : pc[w] = "push" => next[w] = resolution_jobs

NoDuplicates(list) ==
    \A a, b \in 1..Len(list) : list[a] = list[b] => a = b

\* The list holds pushed jobs, each once, and so does the rest of it that the
\* cursor has yet to visit; it is empty once cleared.
ListInv ==
    /\ NoDuplicates(resolution_jobs)
    /\ NoDuplicates(j)
    /\ Elements(resolution_jobs) \subseteq Pushed
    /\ sel = "clear" => j = <<>>
    /\ sel = "unlock" => resolution_jobs = <<>>

\* NoLostWakeup, with the steps between the wake-up and the drain.
WakeupInv ==
    resolution_jobs # <<>>
        => \/ sig_pending
           \/ \E w \in Workers : pc[w] \in {"unlock", "kill"}
           \/ sel \in {"iteration", "lock", "drain", "clear"}

IInv == /\ TypeOK /\ LockInv /\ TargetInv /\ LinkInv /\ ListInv
        /\ WakeupInv /\ JobsConserved

-----------------------------------------------------------------------------
(* Lemmas about lists.                                                     *)

\* Pushing a job that is not in a list adds it and keeps the list free of
\* duplicates (selector.c:525-526).
LEMMA PushedList ==
    ASSUME NEW S, NEW w \in S, NEW list \in Seq(S),
           w \notin Elements(list), NoDuplicates(list)
    PROVE  /\ <<w>> \o list \in Seq(S)
           /\ <<w>> \o list # <<>>
           /\ Elements(<<w>> \o list) = {w} \cup Elements(list)
           /\ NoDuplicates(<<w>> \o list)
<1> DEFINE new == <<w>> \o list
<1>1. /\ new \in Seq(S)
      /\ Len(new) = Len(list) + 1
      /\ new[1] = w
      /\ \A k \in 1..Len(list) : new[k + 1] = list[k]
  OBVIOUS
<1>2. \A k \in 1..Len(new) : k # 1 => /\ k - 1 \in 1..Len(list)
                                      /\ new[k] = list[k - 1]
  BY <1>1
<1>3. Len(list) \in Nat
  OBVIOUS
<1> HIDE DEF new
<1>4. Elements(new) = {w} \cup Elements(list)
  <2>1. ASSUME NEW e \in Elements(new) PROVE e \in {w} \cup Elements(list)
    <3>1. PICK k \in 1..Len(new) : e = new[k]
      BY <2>1 DEF Elements
    <3>2. CASE k = 1
      BY <1>1, <3>1, <3>2
    <3>3. CASE k # 1
      BY <1>2, <3>1, <3>3 DEF Elements
    <3> QED
      BY <3>2, <3>3
  <2>2. w \in Elements(new)
    BY <1>1, <1>3 DEF Elements
  <2>3. ASSUME NEW e \in Elements(list) PROVE e \in Elements(new)
    <3>1. PICK k \in 1..Len(list) : e = list[k]
      BY DEF Elements
    <3>2. k + 1 \in 1..Len(new) /\ new[k + 1] = e
      BY <1>1, <1>3, <3>1
    <3> QED
      BY <3>2 DEF Elements
  <2> QED
    BY <2>1, <2>2, <2>3
<1>5. NoDuplicates(new)
  <2> SUFFICES ASSUME NEW a \in 1..Len(new), NEW b \in 1..Len(new),
                      new[a] = new[b]
               PROVE  a = b
    BY DEF NoDuplicates
  <2>1. CASE a = 1 \/ b = 1
    BY <2>1, <1>1, <1>2 DEF Elements
  <2>2. CASE a # 1 /\ b # 1
    <3>1. a - 1 = b - 1
      BY <2>2, <1>2 DEF NoDuplicates
    <3> QED
      BY <3>1
  <2> QED
    BY <2>1, <2>2
<1>6. new # <<>>
  BY <1>1, <1>3
<1> QED
  BY <1>1, <1>4, <1>5, <1>6 DEF new

\* Visiting the head of a list without duplicates leaves the others, and only
\* them (selector.c:500-501).
LEMMA VisitedList ==
    ASSUME NEW S, NEW list \in Seq(S), list # <<>>, NoDuplicates(list)
    PROVE  /\ Head(list) \in S
           /\ Tail(list) \in Seq(S)
           /\ Head(list) \in Elements(list)
           /\ Elements(Tail(list)) = Elements(list) \ {Head(list)}
           /\ NoDuplicates(Tail(list))
<1> DEFINE rest == Tail(list)
<1>1. /\ Len(list) \in Nat \ {0}
      /\ Head(list) = list[1]
      /\ rest \in Seq(S)
      /\ Len(rest) = Len(list) - 1
      /\ \A k \in 1..Len(rest) : rest[k] = list[k + 1]
  OBVIOUS
<1>2. Head(list) \in S /\ Head(list) \in Elements(list)
  BY <1>1 DEF Elements
<1> HIDE DEF rest
<1>3. Elements(rest) = Elements(list) \ {Head(list)}
  <2>1. ASSUME NEW e \in Elements(rest)
        PROVE  e \in Elements(list) \ {Head(list)}
    <3>1. PICK k \in 1..Len(rest) : e = rest[k]
      BY DEF Elements
    <3>2. /\ k + 1 \in 1..Len(list)
          /\ e = list[k + 1]
          /\ 1 \in 1..Len(list)
          /\ k + 1 # 1
      BY <1>1, <3>1
    <3>3. e # list[1]
      BY <3>2 DEF NoDuplicates
    <3> QED
      BY <1>1, <3>2, <3>3 DEF Elements
  <2>2. ASSUME NEW e \in Elements(list) \ {Head(list)}
        PROVE  e \in Elements(rest)
    <3>1. PICK k \in 1..Len(list) : e = list[k]
      BY DEF Elements
    <3>2. k # 1
      BY <1>1, <3>1
    <3>3. k - 1 \in 1..Len(rest) /\ rest[k - 1] = e
      <4>1. k - 1 \in 1..Len(rest)
        BY <1>1, <3>2
      <4>2. rest[k - 1] = list[(k - 1) + 1]
        BY <4>1, <1>1
      <4> QED
        BY <4>1, <4>2, <3>1
    <3> QED
      BY <3>3 DEF Elements
  <2> QED
    BY <2>1, <2>2
<1>4. NoDuplicates(rest)
  <2> SUFFICES ASSUME NEW a \in 1..Len(rest), NEW b \in 1..Len(rest),
                      rest[a] = rest[b]
               PROVE  a = b
    BY DEF NoDuplicates
  <2>1. /\ a + 1 \in 1..Len(list)
        /\ b + 1 \in 1..Len(list)
        /\ list[a + 1] = list[b + 1]
    BY <1>1
  <2>2. a + 1 = b + 1
    BY <2>1 DEF NoDuplicates
  <2> QED
    BY <2>2
<1> QED
  BY <1>1, <1>2, <1>3, <1>4 DEF rest

-----------------------------------------------------------------------------
(* The invariant is inductive.                                             *)

\* The protocol starts in its invariant.
LEMMA InitInvariant == Init => IInv
<1> SUFFICES ASSUME Init PROVE IInv
  OBVIOUS
<1> USE DEF Init
<1>1. TypeOK
  <2>1. <<>> \in Seq(Workers)
    OBVIOUS
  <2>2. errors \in 0..MaxErrors
    BY ThreadsAssumption
  <2> QED
    BY <2>1, <2>2 DEF TypeOK, SelectorSteps, WorkerSteps
<1>2. LockInv /\ TargetInv /\ LinkInv
  BY ThreadsAssumption DEF LockInv, TargetInv, LinkInv
<1>3. Elements(<<>>) = {}
  BY DEF Elements
<1>4. ListInv /\ WakeupInv /\ JobsConserved
  BY <1>3 DEF ListInv, WakeupInv, JobsConserved, NoDuplicates, Waiting, Pushed
<1> QED
  BY <1>1, <1>2, <1>4 DEF IInv

\* The steps of a thread in selector_notify_block.
LEMMA NotifyInvariant ==
    ASSUME IInv, NEW w \in Workers, Notify(w)
    PROVE  IInv'
<1> USE ThreadsAssumption DEF IInv
<1>1. TypeOK'
  <2>1. CASE NotifyPush(w)
    BY <2>1 DEF NotifyPush, WorkerMoves, TypeOK, WorkerSteps
  <2>2. CASE \/ NotifyFails(w) \/ NotifyLock(w) \/ NotifyLink(w) \/ NotifyUnlock(w)
             \/ NotifyKill(w)
    BY <2>2 DEF NotifyFails, NotifyLock, NotifyLink, NotifyUnlock, NotifyKill, WorkerMoves,
                lists, TypeOK, WorkerSteps
  <2> QED
    BY <2>1, <2>2 DEF Notify
<1>2. CASE NotifyLock(w)
  <2> USE <1>2 DEF NotifyLock, WorkerMoves, lists, TypeOK
  <2>1. LockInv'
    BY DEF LockInv
  <2>2. TargetInv' /\ LinkInv' /\ WakeupInv'
    BY DEF TargetInv, LinkInv, WakeupInv
  <2>3. Pushed' = Pushed /\ Waiting' = Waiting
    BY DEF Pushed, Waiting
  <2> QED
    BY <1>1, <2>1, <2>2, <2>3 DEF ListInv, JobsConserved
<1>3. CASE NotifyLink(w)
  <2> USE <1>3 DEF NotifyLink, WorkerMoves, lists, TypeOK
  <2>1. LockInv'
    BY DEF LockInv
  <2>2. TargetInv' /\ LinkInv' /\ WakeupInv'
    BY DEF TargetInv, LinkInv, WakeupInv
  <2>3. Pushed' = Pushed /\ Waiting' = Waiting
    BY DEF Pushed, Waiting
  <2> QED
    BY <1>1, <2>1, <2>2, <2>3 DEF ListInv, JobsConserved
<1>4. CASE NotifyPush(w)
  <2> USE <1>4 DEF NotifyPush, WorkerMoves, TypeOK
  <2>1. /\ mutex = w
        /\ sel \notin {"drain", "clear", "unlock"}
        /\ next[w] = resolution_jobs
        /\ \A v \in Workers : v # w => pc[v] \notin {"link", "push", "unlock"}
    BY DEF LockInv, LinkInv
  <2>2. w \notin Pushed
    BY DEF Pushed
  <2>3. w \notin Elements(resolution_jobs)
    BY <2>2 DEF ListInv
  <2>4. /\ resolution_jobs' # <<>>
        /\ Elements(resolution_jobs') = {w} \cup Elements(resolution_jobs)
        /\ NoDuplicates(resolution_jobs')
    BY <2>1, <2>3, PushedList DEF ListInv
  <2>5. LockInv'
    BY DEF LockInv
  <2>6. TargetInv' /\ LinkInv'
    BY <2>1 DEF TargetInv, LinkInv
  <2>7. WakeupInv'
    BY DEF WakeupInv
  <2>8. Pushed' = {w} \cup Pushed
    BY DEF Pushed
  <2>9. ListInv'
    BY <2>1, <2>4, <2>8 DEF ListInv
  <2>10. Waiting' = {w} \cup Waiting
    BY <2>1, <2>4 DEF Waiting
  <2>11. JobsConserved'
    BY <2>2, <2>8, <2>10 DEF JobsConserved
  <2> QED
    BY <1>1, <2>5, <2>6, <2>7, <2>9, <2>11
<1>5. CASE NotifyUnlock(w)
  <2> USE <1>5 DEF NotifyUnlock, WorkerMoves, lists, TypeOK
  <2>1. LockInv'
    BY DEF LockInv
  <2>2. TargetInv' /\ LinkInv'
    BY DEF TargetInv, LinkInv
  <2>3. WakeupInv'
    BY DEF WakeupInv
  <2>4. Pushed' = Pushed /\ Waiting' = Waiting
    BY DEF Pushed, Waiting
  <2> QED
    BY <1>1, <2>1, <2>2, <2>3, <2>4 DEF ListInv, JobsConserved
<1>6. CASE NotifyKill(w)
  <2> USE <1>6 DEF NotifyKill, WorkerMoves, lists, TypeOK
  <2>1. LockInv'
    BY DEF LockInv
  <2>2. TargetInv' /\ LinkInv'
    BY DEF TargetInv, LinkInv
  <2>3. WakeupInv'
    BY DEF TargetInv, WakeupInv
  <2>4. Pushed' = Pushed /\ Waiting' = Waiting
    BY DEF Pushed, Waiting
  <2> QED
    BY <1>1, <2>1, <2>2, <2>3, <2>4 DEF ListInv, JobsConserved
<1>7. CASE NotifyFails(w)
  <2> USE <1>7 DEF NotifyFails, WorkerMoves, lists, TypeOK
  <2>1. LockInv'
    BY DEF LockInv
  <2>2. TargetInv' /\ LinkInv' /\ WakeupInv'
    BY DEF TargetInv, LinkInv, WakeupInv
  <2>3. Pushed' = Pushed /\ Waiting' = Waiting
    BY DEF Pushed, Waiting
  <2> QED
    BY <1>1, <2>1, <2>2, <2>3 DEF ListInv, JobsConserved
<1> QED
  BY <1>2, <1>3, <1>4, <1>5, <1>6, <1>7 DEF Notify

\* The steps that neither the list nor the mutex takes part in.
LEMMA QuietInvariant ==
    ASSUME IInv,
           \/ SelectBegin \/ PselectSleep \/ PselectInterrupted
           \/ PselectReturns \/ PselectFails \/ IterationEnds
           \/ \E w \in Workers : StartJob(w) \/ Unregister(w)
    PROVE  IInv'
<1> USE ThreadsAssumption DEF IInv
<1>1. CASE SelectBegin \/ PselectSleep \/ PselectInterrupted
              \/ PselectReturns \/ PselectFails \/ IterationEnds
  <2> USE <1>1 DEF SelectBegin, PselectSleep, PselectInterrupted,
                   PselectReturns, PselectFails, IterationEnds, SelectorMoves, lists
  <2>0. errors' \in 0..MaxErrors
    BY DEF TypeOK
  <2>1. TypeOK'
    BY <2>0 DEF TypeOK, SelectorSteps
  <2>2. LockInv' /\ TargetInv' /\ LinkInv'
    BY DEF LockInv, TargetInv, LinkInv
  <2>3. WakeupInv'
    BY DEF WakeupInv
  <2>4. Pushed' = Pushed /\ Waiting' = Waiting
    BY DEF Pushed, Waiting
  <2> QED
    BY <2>1, <2>2, <2>3, <2>4 DEF ListInv, JobsConserved
<1>2. ASSUME NEW w \in Workers, StartJob(w)
      PROVE  IInv'
  <2> USE <1>2 DEF StartJob, WorkerMoves, lists, TypeOK
  <2>1. TypeOK'
    BY DEF WorkerSteps
  <2>2. sel # "idle" /\ selector_thread = SelectorThread
    BY DEF TargetInv
  <2>3. LockInv' /\ TargetInv' /\ LinkInv'
    BY <2>2 DEF LockInv, TargetInv, LinkInv
  <2>4. WakeupInv'
    BY DEF WakeupInv
  <2>5. Pushed' = Pushed /\ Waiting' = Waiting
    BY DEF Pushed, Waiting
  <2> QED
    BY <2>1, <2>3, <2>4, <2>5 DEF ListInv, JobsConserved
<1>3. ASSUME NEW w \in Workers, Unregister(w)
      PROVE  IInv'
  <2> USE <1>3 DEF Unregister, lists
  <2>1. TypeOK'
    BY DEF TypeOK
  <2>2. LockInv' /\ TargetInv' /\ LinkInv' /\ WakeupInv'
    BY DEF LockInv, TargetInv, LinkInv, WakeupInv
  <2>3. Pushed' = Pushed /\ Waiting' = Waiting
    BY DEF Pushed, Waiting
  <2> QED
    BY <2>1, <2>2, <2>3 DEF ListInv, JobsConserved
<1> QED
  BY <1>1, <1>2, <1>3

\* The steps of handle_block_notifications.
LEMMA DrainInvariant ==
    ASSUME IInv,
           DrainLock \/ DrainJob \/ DrainEnds \/ DrainClear \/ DrainUnlock
    PROVE  IInv'
<1> USE ThreadsAssumption DEF IInv, SelectorMoves
<1>1. CASE DrainLock
  <2> USE <1>1 DEF DrainLock
  <2>1. TypeOK'
    BY DEF TypeOK, SelectorSteps
  <2>2. LockInv' /\ TargetInv' /\ LinkInv' /\ WakeupInv'
    BY DEF LockInv, TargetInv, LinkInv, WakeupInv, TypeOK
  <2>3. Pushed' = Pushed /\ Waiting' = Waiting
    BY DEF Pushed, Waiting
  <2>4. ListInv'
    BY <2>3 DEF ListInv
  <2> QED
    BY <2>1, <2>2, <2>3, <2>4 DEF JobsConserved
<1>2. CASE DrainJob
  <2> USE <1>2 DEF DrainJob
  <2>1. /\ Head(j) \in Workers
        /\ Tail(j) \in Seq(Workers)
        /\ Head(j) \in Elements(j)
        /\ Elements(Tail(j)) = Elements(j) \ {Head(j)}
        /\ NoDuplicates(Tail(j))
    BY VisitedList DEF TypeOK, ListInv
  <2>2. TypeOK'
    BY <2>1 DEF TypeOK
  <2>3. LockInv' /\ TargetInv' /\ LinkInv' /\ WakeupInv'
    BY DEF LockInv, TargetInv, LinkInv, WakeupInv
  <2>4. Pushed' = Pushed
    BY DEF Pushed
  <2>5. Waiting' = Waiting \ {Head(j)} /\ Head(j) \in Waiting
    BY <2>1 DEF Waiting
  <2>6. ListInv'
    BY <2>1, <2>4 DEF ListInv
  <2>7. /\ fate'[Head(j)] # "none"
        /\ \A w \in Workers : w # Head(j) => fate'[w] = fate[w]
    BY <2>1 DEF TypeOK
  <2>8. JobsConserved'
    BY <2>1, <2>4, <2>5, <2>7 DEF JobsConserved
  <2> QED
    BY <2>2, <2>3, <2>6, <2>8
<1>3. CASE DrainEnds
  <2> USE <1>3 DEF DrainEnds, lists
  <2>1. TypeOK'
    BY DEF TypeOK, SelectorSteps
  <2>2. LockInv' /\ TargetInv' /\ LinkInv' /\ WakeupInv'
    BY DEF LockInv, TargetInv, LinkInv, WakeupInv
  <2>3. Pushed' = Pushed /\ Waiting' = Waiting
    BY DEF Pushed, Waiting
  <2> QED
    BY <2>1, <2>2, <2>3 DEF ListInv, JobsConserved
<1>4. CASE DrainClear
  <2> USE <1>4 DEF DrainClear
  <2>1. TypeOK'
    BY DEF TypeOK, SelectorSteps
  <2>2. mutex = SelectorThread /\ \A w \in Workers : pc[w] # "push"
    BY DEF LockInv
  <2>3. LockInv' /\ TargetInv' /\ LinkInv' /\ WakeupInv'
    BY <2>2 DEF LockInv, TargetInv, LinkInv, WakeupInv
  <2>4. Elements(<<>>) = {}
    BY DEF Elements
  <2>5. Pushed' = Pushed /\ Waiting' = Waiting
    BY <2>4 DEF Pushed, Waiting, ListInv
  <2>6. ListInv'
    BY <2>4, <2>5 DEF ListInv, NoDuplicates
  <2> QED
    BY <2>1, <2>3, <2>5, <2>6 DEF JobsConserved
<1>5. CASE DrainUnlock
  <2> USE <1>5 DEF DrainUnlock, lists
  <2>1. TypeOK'
    BY DEF TypeOK, SelectorSteps
  <2>2. mutex = SelectorThread /\ resolution_jobs = <<>>
    BY DEF LockInv, ListInv
  <2>3. LockInv' /\ TargetInv' /\ LinkInv' /\ WakeupInv'
    BY <2>2 DEF LockInv, TargetInv, LinkInv, WakeupInv
  <2>4. Pushed' = Pushed /\ Waiting' = Waiting
    BY DEF Pushed, Waiting
  <2> QED
    BY <2>1, <2>3, <2>4 DEF ListInv, JobsConserved
<1> QED
  BY <1>1, <1>2, <1>3, <1>4, <1>5

\* Every step of the selector and of the threads keeps it.
LEMMA StepInvariant == IInv /\ [Next]_vars => IInv'
<1> SUFFICES ASSUME IInv, [Next]_vars PROVE IInv'
  OBVIOUS
<1>1. CASE SelectorRuns
  BY <1>1, QuietInvariant, DrainInvariant DEF SelectorRuns
<1>2. CASE PselectReturns \/ PselectFails
  BY <1>2, QuietInvariant
<1>3. CASE \E w \in Workers : Notify(w) \/ StartJob(w) \/ Unregister(w)
  BY <1>3, QuietInvariant, NotifyInvariant
<1>4. CASE UNCHANGED vars
  BY <1>4 DEF vars, lists, IInv, TypeOK, LockInv, TargetInv, LinkInv, ListInv,
              WakeupInv, JobsConserved, Pushed, Waiting
<1> QED
  BY <1>1, <1>2, <1>3, <1>4 DEF Next

\* Hence it always holds.
LEMMA Invariance == Spec => []IInv
  BY InitInvariant, StepInvariant, PTL DEF Spec

-----------------------------------------------------------------------------
(* The theorems.                                                           *)

\* Every variable keeps its type.
THEOREM TypeCorrect == Spec => []TypeOK
<1>1. IInv => TypeOK
  BY DEF IInv
<1> QED
  BY Invariance, <1>1, PTL

\* pselect never waits over a finished job that nobody will announce
\* (selector.c:525-530, 546).
THEOREM WakeupsAreNotLost == Spec => []NoLostWakeup
<1>1. IInv => NoLostWakeup
  BY DEF IInv, WakeupInv, NoLostWakeup
<1> QED
  BY Invariance, <1>1, PTL

\* The list neither loses nor repeats a job (selector.c:489-505, 524-527).
THEOREM JobsAreConserved == Spec => []JobsConserved
<1>1. IInv => JobsConserved
  BY DEF IInv
<1> QED
  BY Invariance, <1>1, PTL

-----------------------------------------------------------------------------
(* The steps of the threads and of the selector are steps of the promise.  *)

\* No job is finished or consumed at the start.
LEMMA RefinedInit == Init => Promise!Init
  BY DEF Init, Promise!Init, JobState, Pushed

\* A step that changes the state of no job and no registration is a stutter.
LEMMA QuietStep ==
    ASSUME pc' = pc \/ (Pushed' = Pushed
                           /\ \A w \in Workers : pc'[w] = "unborn" <=> pc[w] = "unborn"),
           fate' = fate, registered' = registered
    PROVE  UNCHANGED Promise!promised
<1>1. \A w \in Workers : JobState(w)' = JobState(w)
  BY DEF JobState, Pushed
<1> QED
  BY <1>1 DEF Promise!promised

\* Every step finishes or consumes jobs as the promise allows, or nothing it sees.
LEMMA RefinedStep ==
    IInv /\ [Next]_vars => [Promise!Next]_(Promise!promised)
<1> SUFFICES ASSUME IInv, [Next]_vars
             PROVE  [Promise!Next]_(Promise!promised)
  OBVIOUS
<1> USE DEF IInv, TypeOK
<1>1. CASE DrainJob
  <2>0. Head(j) \in Workers /\ Head(j) \in Waiting
    BY <1>1, VisitedList DEF DrainJob, ListInv, Waiting
  <2>1. PICK w \in Workers : w = Head(j) /\ w \in Waiting
    BY <2>0
  <2>2. w \in Pushed /\ fate[w] = "none"
    BY <2>1 DEF JobsConserved
  <2>3. JobState(w) = "finished"
    BY <2>2 DEF JobState
  <2>4. /\ fate' = [fate EXCEPT ![w] = IF w \in registered
                                          THEN "delivered" ELSE "discarded"]
        /\ pc' = pc
        /\ registered' = registered
    BY <1>1, <2>1 DEF DrainJob
  <2>5. JobState(w)' = IF w \in registered THEN "delivered" ELSE "discarded"
    BY <2>1, <2>4 DEF JobState
  <2>6. \A v \in Workers : v # w => JobState(v)' = JobState(v)
    BY <2>1, <2>4 DEF JobState, Pushed
  <2>7. Promise!Consume(w)
    BY <2>1, <2>3, <2>4, <2>5, <2>6 DEF Promise!Consume
  <2> QED
    BY <2>1, <2>7 DEF Promise!Next
<1>2. CASE SelectorRuns /\ ~DrainJob
  <2>1. pc' = pc /\ fate' = fate /\ registered' = registered
    BY <1>2 DEF SelectorRuns, SelectBegin, PselectSleep, PselectInterrupted,
                IterationEnds, DrainLock, DrainEnds, DrainClear, DrainUnlock
  <2> QED
    BY <2>1, QuietStep
<1>3. CASE PselectReturns \/ PselectFails
  BY <1>3, QuietStep DEF PselectReturns, PselectFails
<1>4. ASSUME NEW w \in Workers, NotifyPush(w)
      PROVE  Promise!Next
  <2>1. /\ pc[w] = "push"
        /\ pc' = [pc EXCEPT ![w] = "unlock"]
        /\ fate' = fate
        /\ registered' = registered
    BY <1>4 DEF NotifyPush, WorkerMoves
  <2>2. w \notin Pushed
    BY <2>1 DEF Pushed
  <2>3. fate[w] = "none"
    BY <2>2 DEF JobsConserved
  <2>4. JobState(w) = "working" /\ JobState(w)' = "finished"
    BY <2>1, <2>3 DEF JobState, Pushed
  <2>5. \A v \in Workers : v # w => JobState(v)' = JobState(v)
    BY <2>1 DEF JobState, Pushed
  <2>6. Promise!Finish(w)
    BY <2>1, <2>4, <2>5 DEF Promise!Finish
  <2> QED
    BY <2>6 DEF Promise!Next
<1>5. ASSUME NEW w \in Workers,
             \/ NotifyFails(w) \/ NotifyLock(w) \/ NotifyLink(w) \/ NotifyUnlock(w)
             \/ NotifyKill(w)
      PROVE  UNCHANGED Promise!promised
  <2>1. /\ Pushed' = Pushed
        /\ \A v \in Workers : pc'[v] = "unborn" <=> pc[v] = "unborn"
        /\ fate' = fate
        /\ registered' = registered
    BY <1>5 DEF NotifyFails, NotifyLock, NotifyLink, NotifyUnlock, NotifyKill, WorkerMoves,
                Pushed
  <2> QED
    BY <2>1, QuietStep
<1>6. ASSUME NEW w \in Workers, StartJob(w)
      PROVE  Promise!Next
  <2>1. /\ w \in registered
        /\ pc[w] = "unborn"
        /\ pc' = [pc EXCEPT ![w] = "working"]
        /\ fate' = fate
        /\ registered' = registered
    BY <1>6 DEF StartJob, WorkerMoves
  <2>2. fate[w] = "none"
    BY <2>1 DEF JobsConserved, Pushed
  <2>3. JobState(w) = "unborn" /\ JobState(w)' = "working"
    BY <2>1, <2>2 DEF JobState, Pushed
  <2>4. \A v \in Workers : v # w => JobState(v)' = JobState(v)
    BY <2>1 DEF JobState, Pushed
  <2>5. Promise!Start(w)
    BY <2>1, <2>3, <2>4 DEF Promise!Start
  <2> QED
    BY <2>5 DEF Promise!Next
<1>7. ASSUME NEW w \in Workers, Unregister(w)
      PROVE  Promise!Next
  <2>1. \A v \in Workers : JobState(v)' = JobState(v)
    BY <1>7 DEF Unregister, JobState, Pushed
  <2>2. Promise!Unregister(w)
    BY <1>7, <2>1 DEF Unregister, Promise!Unregister
  <2> QED
    BY <2>2 DEF Promise!Next
<1>8. CASE UNCHANGED vars
  BY <1>8, QuietStep DEF vars
<1> QED
  BY <1>1, <1>2, <1>3, <1>4, <1>5, <1>6, <1>7, <1>8 DEF Next, Notify

\* The safety half of ImplementsPromise: each step of the list, the mutex and
\* the signal is a step of BlockNotifications or changes nothing it speaks of.
THEOREM KeepsPromise ==
    Spec => Promise!Init /\ [][Promise!Next]_(Promise!promised)
  BY Invariance, RefinedInit, RefinedStep, PTL DEF Spec
=============================================================================

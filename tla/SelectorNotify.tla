--------------------------- MODULE SelectorNotify ---------------------------
(***************************************************************************)
(* The protocol between the selector thread and the threads that run       *)
(* blocking jobs (src/server/selector.c): selector_notify_block pushes a   *)
(* job on resolution_jobs under resolution_mutex and then signals the      *)
(* selector thread; selector_select waits in pselect, which is the only    *)
(* place where the signal is unblocked, and drains the list afterwards.    *)
(*                                                                         *)
(* Each step below is one a different thread can be scheduled between.     *)
(* Descriptors are abstracted to "is the descriptor that owns job w still  *)
(* registered"; the table itself is module SelectorTable.                  *)
(***************************************************************************)
EXTENDS Naturals, Sequences

CONSTANTS
    Workers,          \* threads that run one blocking job each
    SelectorThread,   \* the thread that runs selector_select
    Nobody,           \* a free mutex; a selector_thread never assigned
    MaxErrors         \* bound on the errors of pselect

ASSUME ThreadsAssumption ==
    /\ SelectorThread \notin Workers
    /\ Nobody \notin Workers
    /\ SelectorThread # Nobody
    /\ MaxErrors \in Nat

VARIABLES
    sel,              \* where the selector thread is
    pc,               \* pc[w]: where thread w is in selector_notify_block
    next,             \* next[w]: the field next of the job of w
    resolution_jobs,  \* the list of finished jobs, most recent first
    j,                \* the cursor of handle_block_notifications
    mutex,            \* holder of resolution_mutex
    selector_thread,  \* whom pthread_kill will signal
    sig_pending,      \* conf.signal is pending for the selector thread
    registered,       \* jobs whose descriptor is registered
    fate,             \* what became of the job of w
    errors            \* how often pselect has failed

lists == <<next, resolution_jobs, j>>
vars == <<sel, pc, lists, mutex, selector_thread, sig_pending, registered, fate,
          errors>>

SelectorSteps == {"idle", "pselect", "blocked", "iteration", "lock",
                  "drain", "clear", "unlock"}
WorkerSteps == {"unborn", "working", "link", "push", "unlock", "kill", "done",
                "refused"}

Elements(list) == {list[k] : k \in 1..Len(list)}

Init ==
    /\ sel = "idle"
    /\ pc = [w \in Workers |-> "unborn"]
    /\ next = [w \in Workers |-> <<>>]
    /\ resolution_jobs = <<>>
    /\ j = <<>>
    /\ mutex = Nobody
    /\ selector_thread = Nobody
    /\ sig_pending = FALSE
    /\ registered = Workers
    /\ fate = [w \in Workers |-> "none"]
    /\ errors = 0

-----------------------------------------------------------------------------
(* The threads that run blocking jobs: selector_notify_block.              *)

WorkerMoves(w, from, to) == pc[w] = from /\ pc' = [pc EXCEPT ![w] = to]

\* Deliberate defect: the list is changed without the mutex.
NotifyUnlocked(w) ==
    /\ WorkerMoves(w, "working", "link")
    /\ UNCHANGED <<sel, lists, mutex, selector_thread, sig_pending, registered,
                   fate, errors>>

\* malloc fails: SELECTOR_ENOMEM, and nobody is told of the job.
NotifyFails(w) ==
    /\ WorkerMoves(w, "working", "refused")
    /\ UNCHANGED <<sel, lists, mutex, selector_thread, sig_pending, registered,
                   fate, errors>>

\* The job is allocated and the thread acquires the mutex.
NotifyLock(w) ==
    /\ WorkerMoves(w, "working", "link")
    /\ mutex = Nobody
    /\ mutex' = w
    /\ UNCHANGED <<sel, lists, selector_thread, sig_pending, registered, fate, errors>>

\* job->next = s->resolution_jobs
NotifyLink(w) ==
    /\ WorkerMoves(w, "link", "push")
    /\ next' = [next EXCEPT ![w] = resolution_jobs]
    /\ UNCHANGED <<sel, resolution_jobs, j, mutex, selector_thread,
                   sig_pending, registered, fate, errors>>

\* Deliberate defect: the head becomes the link of the job, not the job.
NotifyPushLink(w) ==
    /\ WorkerMoves(w, "push", "unlock")
    /\ resolution_jobs' = <<next[w]>>
    /\ UNCHANGED <<sel, next, j, mutex, selector_thread, sig_pending,
                   registered, fate, errors>>

\* s->resolution_jobs = job
NotifyPush(w) ==
    /\ WorkerMoves(w, "push", "unlock")
    /\ resolution_jobs' = <<w>> \o next[w]
    /\ UNCHANGED <<sel, next, j, mutex, selector_thread, sig_pending,
                   registered, fate, errors>>

NotifyUnlock(w) ==
    /\ WorkerMoves(w, "unlock", "kill")
    /\ mutex' = Nobody
    /\ UNCHANGED <<sel, lists, selector_thread, sig_pending, registered, fate, errors>>

\* pthread_kill: the signal stays pending until pselect unblocks it; a second
\* one that finds it pending is merged with it.
NotifyKill(w) ==
    /\ WorkerMoves(w, "kill", "done")
    /\ sig_pending' = (sig_pending \/ selector_thread = SelectorThread)
    /\ UNCHANGED <<sel, lists, mutex, selector_thread, registered, fate, errors>>

Notify(w) == NotifyFails(w) \/ NotifyLock(w) \/ NotifyLink(w)
                \/ NotifyPush(w) \/ NotifyUnlock(w) \/ NotifyKill(w)

-----------------------------------------------------------------------------
(* The selector thread: selector_select.                                   *)

SelectorMoves(from, to) == sel = from /\ sel' = to

\* Deliberate defect: the selector never says which thread it runs on.
SelectAnonymous ==
    /\ SelectorMoves("idle", "pselect")
    /\ UNCHANGED <<pc, lists, mutex, selector_thread, sig_pending, registered,
                   fate, errors>>

\* The copies of the sets, and s->selector_thread = pthread_self().
SelectBegin ==
    /\ SelectorMoves("idle", "pselect")
    /\ selector_thread' = SelectorThread
    /\ UNCHANGED <<pc, lists, mutex, sig_pending, registered, fate, errors>>

\* Deliberate defect: the signal is unblocked before select, not by it, so its
\* handler may have run by the time the wait starts.
SelectAfterUnblock ==
    /\ SelectorMoves("pselect", "blocked")
    /\ sig_pending' = FALSE
    /\ UNCHANGED <<pc, lists, mutex, selector_thread, registered, fate, errors>>

\* pselect unblocks the signal and looks at it in one step: with nothing
\* pending it sleeps.
PselectSleep ==
    /\ SelectorMoves("pselect", "blocked")
    /\ ~sig_pending
    /\ UNCHANGED <<pc, lists, mutex, selector_thread, sig_pending, registered,
                   fate, errors>>

\* The signal interrupts pselect (EINTR): no iteration, straight to the jobs.
PselectInterrupted ==
    /\ sel \in {"pselect", "blocked"}
    /\ sig_pending
    /\ sig_pending' = FALSE
    /\ sel' = "lock"
    /\ UNCHANGED <<pc, lists, mutex, selector_thread, registered, fate, errors>>

\* Ready descriptors or the timeout end pselect; a pending signal stays so.
PselectReturns ==
    /\ sel \in {"pselect", "blocked"}
    /\ sel' = "iteration"
    /\ UNCHANGED <<pc, lists, mutex, selector_thread, sig_pending, registered,
                   fate, errors>>

\* Any other error, EBADF among them: SELECTOR_IO, neither iteration nor jobs.
PselectFails ==
    /\ sel \in {"pselect", "blocked"}
    /\ errors < MaxErrors
    /\ errors' = errors + 1
    /\ sel' = "idle"
    /\ UNCHANGED <<pc, lists, mutex, selector_thread, sig_pending, registered,
                   fate>>

\* A callback, of handle_iteration or of a job, starts a blocking job.
StartJob(w) ==
    /\ sel \in {"iteration", "drain"}
    /\ w \in registered
    /\ WorkerMoves(w, "unborn", "working")
    /\ UNCHANGED <<sel, lists, mutex, selector_thread, sig_pending, registered,
                   fate, errors>>

\* A callback, of handle_iteration or of a job, unregisters a descriptor.
Unregister(w) ==
    /\ sel \in {"iteration", "drain"}
    /\ w \in registered
    /\ registered' = registered \ {w}
    /\ UNCHANGED <<sel, pc, lists, mutex, selector_thread, sig_pending, fate, errors>>

IterationEnds ==
    /\ SelectorMoves("iteration", "lock")
    /\ UNCHANGED <<pc, lists, mutex, selector_thread, sig_pending, registered,
                   fate, errors>>

\* handle_block_notifications takes the mutex and the head of the list.
DrainLock ==
    /\ SelectorMoves("lock", "drain")
    /\ mutex = Nobody
    /\ mutex' = SelectorThread
    /\ j' = resolution_jobs
    /\ UNCHANGED <<pc, next, resolution_jobs, selector_thread, sig_pending,
                   registered, fate, errors>>

\* Deliberate defect: handle_block without looking whether the item is used.
DrainUnchecked ==
    /\ sel = "drain"
    /\ j # <<>>
    /\ fate' = [fate EXCEPT ![Head(j)] = "delivered"]
    /\ j' = Tail(j)
    /\ UNCHANGED <<sel, pc, next, resolution_jobs, mutex, selector_thread,
                   sig_pending, registered, errors>>

\* One turn of the loop: handle_block if the descriptor is registered, then
\* the next job.
DrainJob ==
    /\ sel = "drain"
    /\ j # <<>>
    /\ fate' = [fate EXCEPT ![Head(j)] = IF Head(j) \in registered
                                           THEN "delivered" ELSE "discarded"]
    /\ j' = Tail(j)
    /\ UNCHANGED <<sel, pc, next, resolution_jobs, mutex, selector_thread,
                   sig_pending, registered, errors>>

DrainEnds ==
    /\ SelectorMoves("drain", "clear")
    /\ j = <<>>
    /\ UNCHANGED <<pc, lists, mutex, selector_thread, sig_pending, registered,
                   fate, errors>>

\* s->resolution_jobs = 0
DrainClear ==
    /\ SelectorMoves("clear", "unlock")
    /\ resolution_jobs' = <<>>
    /\ UNCHANGED <<pc, next, j, mutex, selector_thread, sig_pending,
                   registered, fate, errors>>

DrainUnlock ==
    /\ SelectorMoves("unlock", "idle")
    /\ mutex' = Nobody
    /\ UNCHANGED <<pc, lists, selector_thread, sig_pending, registered, fate, errors>>

\* The steps the selector thread takes on its own, without any event.
SelectorRuns ==
    \/ SelectBegin \/ PselectSleep \/ PselectInterrupted \/ IterationEnds
    \/ DrainLock \/ DrainJob \/ DrainEnds \/ DrainClear \/ DrainUnlock

-----------------------------------------------------------------------------
Next ==
    \/ SelectorRuns
    \/ PselectReturns \/ PselectFails
    \/ \E w \in Workers : Notify(w) \/ StartJob(w) \/ Unregister(w)

(* Every thread keeps running, and the program calls selector_select again, *)
(* after the few errors of pselect too.  Nothing is assumed of              *)
(* PselectReturns: with silent peers and a long timeout only the signal     *)
(* ends pselect.                                                            *)
Fairness ==
    /\ WF_vars(SelectorRuns)
    /\ \A w \in Workers : WF_vars(Notify(w))

Spec == Init /\ [][Next]_vars /\ Fairness

-----------------------------------------------------------------------------
(* Properties.                                                             *)

\* Type invariant; the list never holds anything but jobs of known threads.
TypeOK ==
    /\ sel \in SelectorSteps
    /\ pc \in [Workers -> WorkerSteps]
    /\ next \in [Workers -> Seq(Workers)]
    /\ resolution_jobs \in Seq(Workers)
    /\ j \in Seq(Workers)
    /\ mutex \in Workers \cup {SelectorThread, Nobody}
    /\ selector_thread \in {SelectorThread, Nobody}
    /\ sig_pending \in BOOLEAN
    /\ registered \in SUBSET Workers
    /\ fate \in [Workers -> {"none", "delivered", "discarded"}]
    /\ errors \in 0..MaxErrors

\* The jobs pushed on the list that handle_block_notifications has not
\* reached: while it runs, those after its cursor.
Waiting == IF sel \in {"drain", "clear"} THEN Elements(j)
                                         ELSE Elements(resolution_jobs)

Pushed == {w \in Workers : pc[w] \in {"unlock", "kill", "done"}}

\* The selector never sleeps over a finished job: if pselect is (or will be)
\* waiting while the list is not empty, the signal that ends the wait is
\* pending or its sender has yet to send it (selector.c:527-530, 546).
NoLostWakeup ==
    sel \in {"idle", "pselect", "blocked"} /\ resolution_jobs # <<>>
        => \/ sig_pending
           \/ \E w \in Workers : pc[w] \in {"unlock", "kill"}

\* No interleaving of pushes and of the drain loses a job or reports it
\* twice: a pushed job either waits or has met its fate, never both.
JobsConserved ==
    \A w \in Workers :
        /\ w \in Pushed <=> (w \in Waiting \/ fate[w] # "none")
        /\ ~(w \in Waiting /\ fate[w] # "none")

\* Every pushed job is consumed, by handle_block or because its descriptor is
\* gone, even if no descriptor ever becomes ready again and although an error of
\* pselect skips the drain (selector.c:566-568).
EveryJobConsumed ==
    \A w \in Workers : pc[w] = "unlock" ~> fate[w] # "none"

-----------------------------------------------------------------------------
(* Refinement: the list, the mutex and the signal implement the promise.   *)

\* A job that selector_notify_block had no memory for stays working for ever.
JobState(w) ==
    IF fate[w] # "none" THEN fate[w]
    ELSE IF w \in Pushed THEN "finished"
    ELSE IF pc[w] = "unborn" THEN "unborn"
    ELSE "working"

Promise == INSTANCE BlockNotifications
    WITH job <- [w \in Workers |-> JobState(w)]

\* selector_notify_block and handle_block_notifications implement
\* BlockNotifications, liveness included.
ImplementsPromise == Promise!Spec
=============================================================================

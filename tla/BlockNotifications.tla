------------------------- MODULE BlockNotifications -------------------------
(***************************************************************************)
(* What selector.h promises about blocking jobs: a descriptor hands a slow *)
(* task to a thread, the thread calls selector_notify_block when the task  *)
(* ends, and the selector then runs handle_block for that descriptor, once *)
(* and only while the descriptor is registered.  No mutex, no list and no  *)
(* signal appear here; SelectorNotify adds them and implements this.       *)
(***************************************************************************)
CONSTANT Workers    \* the threads, one per blocking job

VARIABLES
    job,            \* job[w]: how far the job of thread w has got
    registered      \* the jobs whose descriptor is still registered

promised == <<job, registered>>

JobStates == {"unborn", "working", "finished", "delivered", "discarded"}

Init ==
    /\ job = [w \in Workers |-> "unborn"]
    /\ registered = Workers

\* A callback running in the selector hands the job of w to a new thread.
Start(w) ==
    /\ job[w] = "unborn"
    /\ w \in registered
    /\ job' = [job EXCEPT ![w] = "working"]
    /\ UNCHANGED registered

\* The thread reports the end of its job.
Finish(w) ==
    /\ job[w] = "working"
    /\ job' = [job EXCEPT ![w] = "finished"]
    /\ UNCHANGED registered

\* The selector consumes a finished job, and only tells a registered owner.
Consume(w) ==
    /\ job[w] = "finished"
    /\ job' = [job EXCEPT ![w] = IF w \in registered THEN "delivered"
                                                     ELSE "discarded"]
    /\ UNCHANGED registered

Unregister(w) ==
    /\ w \in registered
    /\ registered' = registered \ {w}
    /\ UNCHANGED job

Next == \E w \in Workers : Start(w) \/ Finish(w) \/ Consume(w) \/ Unregister(w)

\* A finished job is eventually consumed.
Spec == Init /\ [][Next]_promised /\ \A w \in Workers : WF_promised(Consume(w))
=============================================================================

------------------------------ MODULE Selector ------------------------------
(***************************************************************************)
(* The selector at work (src/server/selector.c): selector_select calls     *)
(* pselect, walks the items with handle_iteration and then the finished    *)
(* jobs with handle_block_notifications, and each callback may call the    *)
(* selector again before it returns.  SelectorTable holds the data those   *)
(* calls change; here is the control: which loop is running, the callbacks *)
(* on top of it, and what each has in hand when control comes back.        *)
(*                                                                         *)
(* The program around the selector is open: it may do what Calls lists,    *)
(* under the rules in Discipline.  The threads that finish blocking jobs   *)
(* enter through selector_notify_block, in one step here; SelectorNotify   *)
(* shows why that is enough.                                               *)
(***************************************************************************)
EXTENDS SelectorTable, Sequences, FiniteSets

CONSTANTS
    WithoutClose,   \* the data whose handler has no handle_close
    WithoutWrite,   \* the data whose handler has no handle_write
    Calls,          \* Calls[c]: the calls that the program makes in context c
    Discipline,     \* the rules that the program keeps
    MaxDepth,       \* bound on the callbacks in progress
    MaxJobs         \* bound on the blocking jobs in progress

Callbacks == {"read", "write", "block", "close"}
Contexts == Callbacks \cup {"app"}
ApiCalls == {"register", "unregister", "set_interest", "start_job", "close_fd"}
Rules == {"fresh descriptors",          \* a descriptor that pselect reported is
                                        \* not registered anew in the iteration
          "closing left alone",         \* no handle_close leads to unregistering
                                        \* a descriptor that is being closed
          "interests have handlers",    \* OP_WRITE only with a handle_write
          "growth at rest",             \* no registration makes fds grow where
                                        \* the selector comes back to an item
          "unregister before close"}    \* none is closed while registered

ASSUME SelectorAssumption ==
    /\ WithoutClose \subseteq Data
    /\ WithoutWrite \subseteq Data
    /\ Calls \in [Contexts -> SUBSET ApiCalls]
    /\ Discipline \subseteq Rules
    /\ MaxDepth \in Nat \ {0}
    /\ MaxJobs \in Nat

VARIABLES
    phase,          \* which loop of the selector runs, or "app" for the program
    i, n,           \* the cursor of handle_iteration and its limit
    key_data,       \* key.data, as handle_iteration captured it
    slave_r,        \* what pselect reported
    slave_w,
    stack,          \* the callbacks in progress, the innermost first
    jobs,           \* resolution_jobs
    working,        \* the jobs that their threads have not finished
    life,           \* life[d]: what has become of the registration of d
    ready_r,        \* the registrations that pselect reported
    ready_w,
    closed_fds,     \* registered descriptors that the program has closed
    diagnosed,      \* what the EBADF branch printed
    fault           \* the undefined behaviour that has happened, or "none"

loop == <<phase, i, n, key_data, slave_r, slave_w, ready_r, ready_w>>
job_vars == <<jobs, working>>
bad_fds == <<closed_fds, diagnosed>>
vars == <<table_vars, loop, stack, job_vars, life, bad_fds, fault>>

Phases == {"app", "read", "write", "notify", "io_error", "destroy", "destroyed"}

Frame(call, fd, data) ==
    [call |-> call, fd |-> fd, data |-> data, moved |-> FALSE]

Init ==
    /\ TableInit
    /\ phase = "app"
    /\ i = 0 /\ n = 0
    /\ key_data = NoData
    /\ slave_r = {} /\ slave_w = {}
    /\ stack = <<>>
    /\ jobs = <<>>
    /\ working = {}
    /\ life = [d \in Data |-> "fresh"]
    /\ ready_r = {} /\ ready_w = {}
    /\ closed_fds = {}
    /\ diagnosed = {}
    /\ fault = "none"

-----------------------------------------------------------------------------
(* The program: what the main loop and the callbacks may call.             *)

Context == IF stack # <<>> THEN Head(stack).call
           ELSE IF phase = "app" THEN "app" ELSE "selector"

May(call) == Context \in Contexts /\ call \in Calls[Context]

Closing(fd) == \E k \in 1..Len(stack) : stack[k].call = "close" /\ stack[k].fd = fd

HasHandlers(d, interest) == d \in WithoutWrite => "OP_WRITE" \notin interest

\* Who called the callback looks at its item again when it returns:
\* selector_unregister_fd always, handle_iteration if it has a write to tell.
ComesBack(frame) ==
    frame.call = "close" \/ (frame.call = "read" /\ frame.data \notin WithoutWrite)

\* What the rules ask of a registration.
RegisterRules(fd, interest, d) ==
    /\ "fresh descriptors" \in Discipline /\ phase \in {"read", "write"}
           => fd \notin slave_r \cup slave_w
    /\ "interests have handlers" \in Discipline => HasHandlers(d, interest)
    /\ "growth at rest" \in Discipline /\ SizeFor(fd) # fd_size
           => \A k \in 1..Len(stack) : ~ComesBack(stack[k])

\* realloc may move fds; the items that callbacks came from are then gone.
ItemsMoved == [k \in DOMAIN stack |-> [stack[k] EXCEPT !.moved = TRUE]]

CallRegister(fd, interest, d) ==
    /\ May("register")
    /\ life[d] = "fresh"
    /\ RegisterRules(fd, interest, d)
    /\ selector_register(fd, interest, d)
    /\ \/ stack' = stack
       \/ fd_size' # fd_size /\ stack' = ItemsMoved
    /\ life' = [life EXCEPT ![d] = "registered"]
    /\ UNCHANGED <<out_of_bounds, loop, job_vars, bad_fds, fault>>

CallSetInterest(fd, interest) ==
    /\ May("set_interest")
    /\ selector_set_interest(fd, interest)
    /\ "interests have handlers" \in Discipline => HasHandlers(fds[fd].data, interest)
    /\ UNCHANGED <<out_of_bounds, loop, stack, job_vars, life, bad_fds, fault>>

\* A thread starts on a job for the callback that is running.
CallStartJob ==
    /\ May("start_job")
    /\ stack # <<>>
    /\ Cardinality(working) + Len(jobs) < MaxJobs
    /\ LET job == [fd |-> Head(stack).fd, owner |-> Head(stack).data] IN
        /\ job \notin working
        /\ working' = working \cup {job}
    /\ UNCHANGED <<table_vars, loop, stack, jobs, life, bad_fds, fault>>

\* The program closes a descriptor and forgets to unregister it.
CallClose(fd) ==
    /\ May("close_fd")
    /\ "unregister before close" \notin Discipline
    /\ fd \in Used \ closed_fds
    /\ closed_fds' = closed_fds \cup {fd}
    /\ UNCHANGED <<table_vars, loop, stack, job_vars, life, diagnosed, fault>>

\* A call that uses an item outside fds.
CallOutside(fd) ==
    /\ \/ May("register") /\ RegisterOutside(fd)
       \/ (May("unregister") \/ May("set_interest")) /\ UseOutside(fd)
    /\ out_of_bounds' = TRUE
    /\ UNCHANGED <<table, loop, stack, job_vars, life, bad_fds, fault>>

-----------------------------------------------------------------------------
(* selector_unregister_fd: with a handle_close, first that callback, whose  *)
(* return clears the item; the item is only marked free afterwards.        *)

\* The item is cleared for whoever has it by now: a registration other than the
\* one that was told is lost.
ItemCleared(fd, told) ==
    /\ selector_unregister_fd(fd)
    /\ life' = [life EXCEPT ![fds[fd].data] = IF fds[fd].data = told THEN "closed"
                                                                  ELSE "lost"]
    /\ closed_fds' = closed_fds \ {fd}

Unregister(fd) ==
    LET d == fds[fd].data IN
    \/ /\ d \in WithoutClose
       /\ ItemCleared(fd, d)
       /\ UNCHANGED stack
    \/ /\ d \notin WithoutClose
       /\ stack' = <<Frame("close", fd, d)>> \o stack
       /\ life' = [life EXCEPT ![d] = "closing"]
       /\ UNCHANGED <<table, closed_fds>>

\* The item stays used while its handle_close runs, so that nothing in
\* selector_unregister_fd keeps a callback from unregistering it once more.
CallUnregister(fd) ==
    /\ May("unregister")
    /\ fd \in Used
    /\ "closing left alone" \in Discipline => ~Closing(fd)
    /\ Len(stack) < MaxDepth
    /\ Unregister(fd)
    /\ UNCHANGED <<out_of_bounds, loop, job_vars, diagnosed, fault>>

\* handle_close returns to selector_unregister_fd, which goes on with its item
\* without another look: fds may have moved, or the item may have been freed,
\* and FD_CLR is then given FD_UNUSED.
ReturnFromClose ==
    /\ stack # <<>>
    /\ Head(stack).call = "close"
    /\ \/ /\ Head(stack).moved
          /\ fault' = "stale item"
          /\ UNCHANGED <<table, stack, life, closed_fds>>
       \/ /\ ~Head(stack).moved
          /\ Head(stack).fd \notin Used
          /\ fault' = "negative bit"
          /\ UNCHANGED <<table, stack, life, closed_fds>>
       \/ /\ ~Head(stack).moved
          /\ ItemCleared(Head(stack).fd, Head(stack).data)
          /\ stack' = Tail(stack)
          /\ UNCHANGED fault
    /\ UNCHANGED <<out_of_bounds, loop, job_vars, diagnosed>>

\* Deliberate defect: the interest is looked at before the reported set is.
ReturnFromCallbackEager ==
    /\ stack # <<>>
    /\ Head(stack).call # "close"
    /\ stack' = Tail(stack)
    /\ fault' = IF Head(stack).call = "read" /\ Head(stack).moved
                  THEN "stale item" ELSE "none"
    /\ UNCHANGED <<table_vars, loop, job_vars, life, bad_fds>>

\* The other callbacks; handle_iteration looks at its item again after
\* handle_read when pselect reported it writable.
ReturnFromCallback ==
    /\ stack # <<>>
    /\ Head(stack).call # "close"
    /\ stack' = Tail(stack)
    /\ fault' = IF Head(stack).call = "read" /\ Head(stack).moved /\ i \in slave_w
                  THEN "stale item" ELSE "none"
    /\ UNCHANGED <<table_vars, loop, job_vars, life, bad_fds>>

-----------------------------------------------------------------------------
(* selector_select: pselect.                                               *)

Watched == {fd \in master_r \cup master_w : fd < max_fd + 1}
Beyond(master) == {fd \in master : fd >= max_fd + 1}
Registrations(set) == {fds[fd].data : fd \in set}

\* Some descriptors are ready, or none and the timeout is over.
PselectReturns ==
    /\ phase = "app" /\ stack = <<>>
    /\ Watched \cap closed_fds = {}
    /\ \E r \in SUBSET (Watched \cap master_r), w \in SUBSET (Watched \cap master_w) :
        /\ slave_r' = r \cup Beyond(master_r)
        /\ slave_w' = w \cup Beyond(master_w)
        /\ ready_r' = Registrations(r)
        /\ ready_w' = Registrations(w)
    /\ phase' = "read"
    /\ i' = 0
    /\ n' = max_fd
    /\ UNCHANGED <<table_vars, key_data, stack, job_vars, life, bad_fds, fault>>

\* EINTR or EAGAIN: the iteration is skipped, the jobs are not.
PselectInterrupted ==
    /\ phase = "app" /\ stack = <<>>
    /\ phase' = "notify"
    /\ UNCHANGED <<table_vars, i, n, key_data, slave_r, slave_w, ready_r, ready_w,
                   stack, job_vars, life, bad_fds, fault>>

\* EBADF: the search for closed descriptors stops before max_fd.
PselectBadDescriptor ==
    /\ phase = "app" /\ stack = <<>>
    /\ Watched \cap closed_fds # {}
    /\ diagnosed' = {fd \in closed_fds \cap (master_r \cup master_w) : fd < max_fd}
    /\ phase' = "io_error"
    /\ UNCHANGED <<table_vars, i, n, key_data, slave_r, slave_w, ready_r, ready_w,
                   stack, job_vars, life, closed_fds, fault>>

\* Any other error: straight out, neither items nor jobs.
PselectFails ==
    /\ phase = "app" /\ stack = <<>>
    /\ Watched \cap closed_fds = {}
    /\ phase' = "io_error"
    /\ UNCHANGED <<table_vars, i, n, key_data, slave_r, slave_w, ready_r, ready_w,
                   stack, job_vars, life, bad_fds, fault>>

-----------------------------------------------------------------------------
(* selector_select: handle_iteration.                                      *)

SkipUnused ==
    /\ phase = "read" /\ stack = <<>>
    /\ i <= n
    /\ i \notin Used
    /\ i' = i + 1
    /\ UNCHANGED <<table_vars, phase, n, key_data, slave_r, slave_w, ready_r, ready_w,
                   stack, job_vars, life, bad_fds, fault>>

\* Deliberate defect: the set pselect started from instead of its answer.
ReadItemUnreported ==
    /\ phase = "read" /\ stack = <<>>
    /\ i <= n
    /\ i \in Used
    /\ key_data' = fds[i].data
    /\ stack' = IF i \in master_r THEN <<Frame("read", i, fds[i].data)>> ELSE <<>>
    /\ phase' = "write"
    /\ UNCHANGED <<table_vars, i, n, slave_r, slave_w, ready_r, ready_w, job_vars,
                   life, bad_fds, fault>>

\* The item is used: the key is filled in, and handle_read runs if the
\* descriptor is ready and that still interests it.
ReadItem ==
    /\ phase = "read" /\ stack = <<>>
    /\ i <= n
    /\ i \in Used
    /\ key_data' = fds[i].data
    /\ stack' = IF i \in slave_r /\ "OP_READ" \in fds[i].interest
                  THEN <<Frame("read", i, fds[i].data)>> ELSE <<>>
    /\ phase' = "write"
    /\ UNCHANGED <<table_vars, i, n, slave_r, slave_w, ready_r, ready_w, job_vars,
                   life, bad_fds, fault>>

\* Deliberate defect: the interest is not looked at again after handle_read.
WriteItemUnchecked ==
    /\ phase = "write" /\ stack = <<>>
    /\ stack' = IF i \in slave_w THEN <<Frame("write", i, key_data)>> ELSE <<>>
    /\ phase' = "read"
    /\ i' = i + 1
    /\ UNCHANGED <<table_vars, n, key_data, slave_r, slave_w, ready_r, ready_w,
                   job_vars, life, bad_fds, fault>>

\* The same for handle_write, with the same key and whatever the item has
\* become meanwhile; a handler without handle_write fails an assertion.
WriteItem ==
    /\ phase = "write" /\ stack = <<>>
    /\ LET ready == i \in slave_w /\ "OP_WRITE" \in fds[i].interest IN
        IF ready /\ fds[i].data \in WithoutWrite
          THEN fault' = "no handler" /\ UNCHANGED stack
          ELSE /\ stack' = IF ready THEN <<Frame("write", i, key_data)>> ELSE <<>>
               /\ UNCHANGED fault
    /\ phase' = "read"
    /\ i' = i + 1
    /\ UNCHANGED <<table_vars, n, key_data, slave_r, slave_w, ready_r, ready_w,
                   job_vars, life, bad_fds>>

IterationEnds ==
    /\ phase = "read" /\ stack = <<>>
    /\ i > n
    /\ phase' = "notify"
    /\ UNCHANGED <<table_vars, i, n, key_data, slave_r, slave_w, ready_r, ready_w,
                   stack, job_vars, life, bad_fds, fault>>

handle_iteration == SkipUnused \/ ReadItem \/ WriteItem \/ IterationEnds

-----------------------------------------------------------------------------
(* selector_select: handle_block_notifications, and the threads.           *)

\* Deliberate defect: the key keeps the data of the last item of the iteration.
NotifyJobOldKey ==
    /\ phase = "notify" /\ stack = <<>>
    /\ jobs # <<>>
    /\ LET fd == Head(jobs).fd IN
        stack' = IF fd \in Used THEN <<Frame("block", fd, key_data)>> ELSE <<>>
    /\ jobs' = Tail(jobs)
    /\ UNCHANGED <<table_vars, loop, working, life, bad_fds, fault>>

\* A job names its descriptor only: handle_block runs for whatever is
\* registered there now.
NotifyJob ==
    /\ phase = "notify" /\ stack = <<>>
    /\ jobs # <<>>
    /\ LET fd == Head(jobs).fd IN
        stack' = IF fd \in Used THEN <<Frame("block", fd, fds[fd].data)>> ELSE <<>>
    /\ jobs' = Tail(jobs)
    /\ UNCHANGED <<table_vars, loop, working, life, bad_fds, fault>>

NotifyEnds ==
    /\ phase = "notify" /\ stack = <<>>
    /\ jobs = <<>>
    /\ phase' = "app"
    /\ UNCHANGED <<table_vars, i, n, key_data, slave_r, slave_w, ready_r, ready_w,
                   stack, job_vars, life, bad_fds, fault>>

handle_block_notifications == NotifyJob \/ NotifyEnds

\* A thread finishes.  It waits for the mutex while the selector walks the
\* list; once the selector has been destroyed there is neither.
selector_notify_block(job) ==
    /\ job \in working
    /\ phase # "notify"
    /\ working' = working \ {job}
    /\ IF phase = "destroyed"
         THEN fault' = "freed selector" /\ UNCHANGED jobs
         ELSE jobs' = <<job>> \o jobs /\ UNCHANGED fault
    /\ UNCHANGED <<table_vars, loop, stack, life, bad_fds>>

-----------------------------------------------------------------------------
(* selector_destroy: every used item is unregistered, in order.            *)

DestroyBegins ==
    /\ phase \in {"app", "io_error"} /\ stack = <<>>
    /\ phase' = "destroy"
    /\ i' = 0
    /\ UNCHANGED <<table_vars, n, key_data, slave_r, slave_w, ready_r, ready_w, stack,
                   job_vars, life, bad_fds, fault>>

\* Deliberate defect: the loop runs one element too far.
DestroyItemInclusive ==
    /\ phase = "destroy" /\ stack = <<>>
    /\ i <= fd_size
    /\ i' = i + 1
    /\ \/ i \in Used /\ Unregister(i)
       \/ i \notin Used /\ UNCHANGED <<table, stack, life, closed_fds>>
    /\ UNCHANGED <<out_of_bounds, phase, n, key_data, slave_r, slave_w, ready_r, ready_w,
                   job_vars, diagnosed, fault>>

DestroyItem ==
    /\ phase = "destroy" /\ stack = <<>>
    /\ i < fd_size
    /\ i' = i + 1
    /\ \/ i \in Used /\ Unregister(i)
       \/ i \notin Used /\ UNCHANGED <<table, stack, life, closed_fds>>
    /\ UNCHANGED <<out_of_bounds, phase, n, key_data, slave_r, slave_w, ready_r, ready_w,
                   job_vars, diagnosed, fault>>

\* Deliberate defect: the loop goes up to max_fd, exclusive.
DestroyStopsEarly ==
    /\ phase = "destroy" /\ stack = <<>>
    /\ i >= max_fd
    /\ phase' = "destroyed"
    /\ jobs' = <<>>
    /\ UNCHANGED <<table_vars, i, n, key_data, slave_r, slave_w, ready_r, ready_w, stack,
                   working, life, bad_fds, fault>>

DestroyEnds ==
    /\ phase = "destroy" /\ stack = <<>>
    /\ i >= fd_size
    /\ phase' = "destroyed"
    /\ jobs' = <<>>
    /\ UNCHANGED <<table_vars, i, n, key_data, slave_r, slave_w, ready_r, ready_w, stack,
                   working, life, bad_fds, fault>>

selector_destroy == DestroyBegins \/ DestroyItem \/ DestroyEnds

-----------------------------------------------------------------------------
Program ==
    \/ \E fd \in Descriptors :
        \/ CallUnregister(fd)
        \/ CallClose(fd)
        \/ CallOutside(fd)
        \/ \E interest \in Interests :
            \/ CallSetInterest(fd, interest)
            \/ \E d \in Data : CallRegister(fd, interest, d)
    \/ CallStartJob

Next ==
    /\ ~out_of_bounds
    /\ fault = "none"
    /\ \/ Program
       \/ ReturnFromClose
       \/ ReturnFromCallback
       \/ PselectReturns \/ PselectInterrupted \/ PselectBadDescriptor \/ PselectFails
       \/ handle_iteration
       \/ handle_block_notifications
       \/ \E job \in working : selector_notify_block(job)
       \/ selector_destroy

Spec == Init /\ [][Next]_vars

-----------------------------------------------------------------------------
(* Properties.                                                             *)

Lives == {"fresh", "registered", "closing", "closed", "lost"}
Faults == {"none", "stale item", "negative bit", "no handler", "freed selector"}
Jobs == [fd : 0..FD_SETSIZE - 1, owner : Data]

\* Type invariant; the cursor and the limit of handle_iteration stay within fds.
SelectorTypeOK ==
    /\ TableTypeOK
    /\ phase \in Phases
    /\ i \in 0..fd_size
    /\ n \in 0..fd_size - 1
    /\ key_data \in Data \cup {NoData}
    /\ slave_r \in SUBSET (0..FD_SETSIZE - 1)
    /\ slave_w \in SUBSET (0..FD_SETSIZE - 1)
    /\ stack \in Seq([call : Callbacks, fd : 0..FD_SETSIZE - 1,
                      data : Data, moved : BOOLEAN])
    /\ jobs \in Seq(Jobs)
    /\ working \in SUBSET Jobs
    /\ life \in [Data -> Lives]
    /\ ready_r \in SUBSET Data
    /\ ready_w \in SUBSET Data
    /\ closed_fds \in SUBSET (0..FD_SETSIZE - 1)
    /\ diagnosed \in SUBSET (0..FD_SETSIZE - 1)
    /\ fault \in Faults

Holds(fd, d) == fd \in Used /\ fds[fd].data = d

\* If no handle_close leads to unregistering what is being closed, callbacks may
\* do to each other's descriptors what they like: a registration stays in one
\* item until its handle_close returns, and no item is cleared for another one
\* than was told (selector.c:388-408).
ReleasedOnce ==
    /\ \A d \in Data :
        /\ life[d] # "lost"
        /\ life[d] = "registered" <=> \E fd \in Used : Holds(fd, d) /\ ~Closing(fd)
        /\ life[d] = "closing" <=> \E fd \in Used : Holds(fd, d) /\ Closing(fd)
        /\ \A fd1, fd2 \in Used : Holds(fd1, d) /\ Holds(fd2, d) => fd1 = fd2
    /\ \A k1, k2 \in 1..Len(stack) :
        stack[k1].call = "close" /\ stack[k2].call = "close"
            /\ stack[k1].fd = stack[k2].fd => k1 = k2

\* selector_destroy leaves no data unreleased, whatever the handle_close
\* callbacks unregister on the way (selector.c:313-317).
DestroyReleasesAll ==
    phase = "destroyed" => \A d \in Data : life[d] \in {"fresh", "closed"}

\* fds may grow under callbacks that wait for others, descriptors may be taken
\* over and interests turned on and off: as long as the rules are kept, control
\* never comes back to an item that realloc has moved or that has been freed,
\* and no event meets a handler without its function (selector.c:273, 403, 472,
\* 473).  What a thread does to a selector that is gone (selector.c:526) is not
\* in the hands of the rules.
StaysDefined == fault \in {"none", "freed selector"}

Starts(call) == Len(stack') > Len(stack) /\ Head(stack').call = call
Started == Head(stack')

\* handle_read, handle_write and handle_block receive the data of the
\* registration that is in the table when they are called (selector.c:460-476,
\* 493-497).
KeyIsCurrent ==
    [][\A call \in {"read", "write", "block"} :
        Starts(call) => Holds(Started.fd, Started.data)]_vars

\* Only a registration that pselect reported is told to read or to write, and
\* only while it wants to (selector.c:462-475).
OnlyReportedDispatched ==
    [][/\ Starts("read") => /\ \E d \in ready_r : Holds(Started.fd, d)
                            /\ "OP_READ" \in fds[Started.fd].interest
       /\ Starts("write") => /\ \E d \in ready_w : Holds(Started.fd, d)
                             /\ "OP_WRITE" \in fds[Started.fd].interest]_vars

\* Under any program, each finished job is told to the registration that
\* started it if that is still there, wherever threads, unregistrations and new
\* registrations of other descriptors have got to meanwhile (selector.c:491-503).
JobReachesItsOwner ==
    [][phase = "notify" /\ jobs' # jobs /\ life[Head(jobs).owner] = "registered"
        => Starts("block") /\ Started.data = Head(jobs).owner]_vars

\* handle_close runs when a descriptor is unregistered, and no more for a data that
\* it has been told to release (selector.h:130-135, selector.c:388-401).
ClosedOnce ==
    [][Starts("close") => life[Started.data] = "registered"]_vars

\* handle_block only ever runs for the registration whose job has finished
\* (selector.h:25-28, selector.c:493-497).
BlockRunsForOwner ==
    [][Starts("block") => Started.data = Head(jobs).owner]_vars

\* When pselect fails because of closed descriptors, all of those that are
\* still registered are reported (selector.c:554-563).
BadDescriptorsReported ==
    phase = "io_error" => diagnosed = Watched \cap closed_fds
=============================================================================

-------------------------------- MODULE Stm ---------------------------------
(***************************************************************************)
(* A state machine whose events are those of the selector                  *)
(* (src/server/stm.c).  The program declares its states, an initial one    *)
(* and max_state; the handlers of its descriptors call stm_handler_read,   *)
(* _write, _block and _close, which run the callbacks of the current state *)
(* and jump to the state a callback returns.                               *)
(*                                                                         *)
(* A callback that is NULL where the code allows it (on_arrival and        *)
(* on_departure) stands for one that does nothing.  abort() and a read     *)
(* past the table of states stop the model.                                *)
(***************************************************************************)
EXTENDS Integers, Sequences

CONSTANTS
    N,              \* the number of states in the table
    StateIds,       \* StateIds[i]: the field state of entry i
    Ready,          \* Ready[i]: the events entry i has a callback for
    Fds,            \* the descriptors whose handlers share the machine
    Nested          \* callbacks may unregister descriptors of the machine

Events == {"read", "write", "block"}
States == 0..N - 1
NULL == -1

ASSUME StmAssumption ==
    /\ N \in Nat \ {0}
    /\ StateIds \in [States -> Nat]
    /\ Ready \in [States -> SUBSET Events]
    /\ Fds # {}
    /\ Nested \in BOOLEAN

VARIABLES
    initial,        \* fields of struct state_machine
    max_state,
    current,        \* the index of the current state, or NULL
    status,         \* "new" before stm_init, "ready" after it
    calls,          \* calls in progress, the innermost first
    registered,     \* the descriptors the selector has a registration for
    open            \* open[s]: arrivals at s less departures from s

machine == <<initial, max_state>>
vars == <<machine, current, status, calls, registered, open>>

\* A call of handler op, inside one of its callbacks: at the on_arrival of
\* handle_first, at the on_*_ready, at the on_departure or at the on_arrival of
\* jump.
Call(op, at, next, fd) == [op |-> op, at |-> at, next |-> next, fd |-> fd]

Init ==
    /\ initial \in States
    /\ max_state \in {N - 1, N}     \* the last state, or as stm.h:31 has it
    /\ current = NULL
    /\ status = "new"
    /\ calls = <<>>
    /\ registered = Fds
    /\ open = [s \in States |-> 0]

\* The loop checks the entries up to max_state, inclusive.
stm_init ==
    /\ status = "new"
    /\ status' = IF \E k \in 0..max_state : k < N /\ StateIds[k] # k THEN "aborted"
                 ELSE IF max_state >= N THEN "overrun"
                 ELSE IF initial < max_state THEN "ready" ELSE "aborted"
    /\ UNCHANGED <<machine, current, calls, registered, open>>

Arriving(s) == open' = [open EXCEPT ![s] = @ + 1]
Departing(s) == open' = [open EXCEPT ![s] = @ - 1]

\* on_*_ready of the current state starts, unless there is none.
RunReady(op, outer) ==
    \/ op \in Ready[current] /\ calls' = <<Call(op, "ready", NULL, NULL)>> \o outer
       /\ UNCHANGED status
    \/ op \notin Ready[current] /\ status' = "aborted" /\ UNCHANGED calls

\* Deliberate defect: the machine goes to its first state again.
HandleFirstAgain(op) ==
    /\ calls = <<>> /\ registered # {}
    /\ current' = initial
    /\ Arriving(initial)
    /\ calls' = <<Call(op, "first", NULL, NULL)>>
    /\ UNCHANGED <<machine, status, registered>>

\* The selector calls the handler of a descriptor and the machine is not in any
\* state yet: handle_first arrives at the first one.
HandleFirst(op) ==
    /\ calls = <<>> /\ registered # {}
    /\ current = NULL
    /\ current' = initial
    /\ Arriving(initial)
    /\ calls' = <<Call(op, "first", NULL, NULL)>>
    /\ UNCHANGED <<machine, status, registered>>

\* on_arrival has returned to handle_first.
FirstArrived ==
    /\ calls # <<>> /\ Head(calls).at = "first"
    /\ RunReady(Head(calls).op, Tail(calls))
    /\ UNCHANGED <<machine, current, registered, open>>

\* The machine is in a state already.
HandleAgain(op) ==
    /\ calls = <<>> /\ registered # {}
    /\ current # NULL
    /\ RunReady(op, <<>>)
    /\ UNCHANGED <<machine, current, registered, open>>

\* Deliberate defect: the identifier after the last one is accepted.
JumpPastEnd(next) ==
    \/ /\ next > max_state + 1
       /\ status' = "aborted"
       /\ UNCHANGED <<calls, open>>
    \/ /\ next = current
       /\ calls' = Tail(calls)
       /\ UNCHANGED <<status, open>>
    \/ /\ next <= max_state + 1
       /\ next # current
       /\ Departing(current)
       /\ calls' = <<Call(Head(calls).op, "departure", next, NULL)>> \o Tail(calls)
       /\ UNCHANGED status

\* on_*_ready returns the state to jump to; a state that returns itself is
\* neither left nor arrived at.
JumpTo(next) ==
    \/ /\ next > max_state
       /\ status' = "aborted"
       /\ UNCHANGED <<calls, open>>
    \/ /\ next = current
       /\ calls' = Tail(calls)
       /\ UNCHANGED <<status, open>>
    \/ /\ next <= max_state
       /\ next # current
       /\ Departing(current)
       /\ calls' = <<Call(Head(calls).op, "departure", next, NULL)>> \o Tail(calls)
       /\ UNCHANGED status

Jump(next) ==
    /\ calls # <<>> /\ Head(calls).at = "ready"
    /\ JumpTo(next)
    /\ UNCHANGED <<machine, current, registered>>

\* on_departure has returned to jump.
Departed ==
    /\ calls # <<>> /\ Head(calls).at = "departure" /\ Head(calls).op # "close"
    /\ current' = Head(calls).next
    /\ Arriving(Head(calls).next)
    /\ calls' = <<[Head(calls) EXCEPT !.at = "arrival"]>> \o Tail(calls)
    /\ UNCHANGED <<machine, status, registered>>

Arrived ==
    /\ calls # <<>> /\ Head(calls).at = "arrival"
    /\ calls' = Tail(calls)
    /\ UNCHANGED <<machine, current, status, registered, open>>

\* Deliberate defect: the first state is departed from without an arrival.
CloseDeparts(fd) ==
    /\ Departing(IF current = NULL THEN initial ELSE current)
    /\ calls' = <<Call("close", "departure", NULL, fd)>> \o calls
    /\ UNCHANGED registered

\* stm_handler_close, from the handle_close of fd: current stays as it is.
stm_handler_close(fd) ==
    \/ /\ current # NULL
       /\ Departing(current)
       /\ calls' = <<Call("close", "departure", NULL, fd)>> \o calls
       /\ UNCHANGED registered
    \/ /\ current = NULL
       /\ registered' = registered \ {fd}
       /\ UNCHANGED <<calls, open>>

\* The program unregisters a descriptor, outside the handlers (as with
\* socksv5_done, when they have returned) or, if Nested, in a callback.
Unregister(fd) ==
    /\ calls = <<>> \/ Nested
    /\ fd \in registered
    /\ \A k \in 1..Len(calls) : calls[k].op = "close" => calls[k].fd # fd
    /\ stm_handler_close(fd)
    /\ UNCHANGED <<machine, current, status>>

\* The item of the selector is cleared after the handle_close.
Closed ==
    /\ calls # <<>> /\ Head(calls).op = "close"
    /\ registered' = registered \ {Head(calls).fd}
    /\ calls' = Tail(calls)
    /\ UNCHANGED <<machine, current, status, open>>

Next ==
    \/ stm_init
    \/ /\ status = "ready"
       /\ \/ \E op \in Events : HandleFirst(op) \/ HandleAgain(op)
          \/ FirstArrived
          \/ \E next \in 0..N : Jump(next)
          \/ Departed
          \/ Arrived
          \/ \E fd \in Fds : Unregister(fd)
          \/ Closed

Spec == Init /\ [][Next]_vars

-----------------------------------------------------------------------------
(* Properties.                                                             *)

Frames == [op : Events \cup {"close"}, at : {"first", "ready", "departure", "arrival"},
           next : States \cup {NULL}, fd : Fds \cup {NULL}]

\* Type invariant; a machine that runs is always in a state of its table.
StmTypeOK ==
    /\ initial \in States
    /\ max_state \in {N - 1, N}
    /\ current \in States \cup {NULL}
    /\ status \in {"new", "ready", "aborted", "overrun"}
    /\ calls \in Seq(Frames)
    /\ registered \in SUBSET Fds
    /\ open \in [States -> Int]

Closing == \E k \in 1..Len(calls) : calls[k].op = "close"

\* Arrivals and departures pair up: outside the on_departure of a jump exactly
\* the current state is open, until the machine is closed, and then none is,
\* whatever the events and the states the callbacks return (stm.c:28-53, 91-96).
VisitsBalanced ==
    \A s \in States :
        open[s] = IF s = current /\ registered # {}
                       /\ ~(calls # <<>> /\ Head(calls).at = "departure")
                    THEN 1 ELSE 0

\* stm_init looks at the entries of the table only, also when max_state is what
\* stm.h:31 says it is, the "cantidad de estados".
InitWithinTable == status # "overrun"

-----------------------------------------------------------------------------
(* Refinement: the callbacks implement the promise.                        *)

Visits == INSTANCE StateVisits WITH
    visited <- {s \in States : open[s] # 0},
    over <- registered = {} \/ Closing

\* The handlers' callbacks implement StateVisits.
ImplementsVisits == Visits!Spec
=============================================================================

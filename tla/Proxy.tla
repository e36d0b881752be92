------------------------------- MODULE Proxy -------------------------------
(***************************************************************************)
(* The SOCKS proxy of the guides: src/ArchivosGuia/main(1).c sets a        *)
(* selector up and serves until a signal, src/ArchivosGuia/socks5nio(1).c  *)
(* accepts clients and keeps one struct for each, which the registrations  *)
(* of its client_fd and of its origin_fd share and count.                  *)
(*                                                                         *)
(* The selector is what selector.h promises, FdRegistry.  The file leaves  *)
(* out socks5_new and the states after HELLO_WRITE; they are external here *)
(* and do what the file needs of them.  What arrives from the network is   *)
(* open: any descriptor that is watched may be ready at any select.        *)
(***************************************************************************)
EXTENDS Integers, Sequences, FiniteSets

CONSTANTS
    FD_SETSIZE,     \* bound: descriptors are 0 .. FD_SETSIZE - 1
    Struct,         \* bound: the structs that malloc can provide
    max_pool,
    Passive,        \* the registration of the passive socket
    NoData

ASSUME ProxyAssumption ==
    /\ FD_SETSIZE \in Nat \ {0}
    /\ IsFiniteSet(Struct)
    /\ max_pool \in Nat
    /\ Passive \notin Struct
    /\ NoData \notin Struct \cup {Passive}

VARIABLES
    registry, watch_r, watch_w,     \* the selector
    open,           \* the descriptors that the process has open
    memory,         \* of each struct: none, live or pooled
    references, client_fd, origin_fd, state,
    pool,           \* the list that starts at pool
    main,           \* where main is
    done,
    ready,          \* what pselect reported and the selector has not visited
    closing         \* what socksv5_done has yet to unregister and close

R == INSTANCE FdRegistry WITH Data <- Struct \cup {Passive}

Fd == R!Fd
server == 0         \* stdin has just been closed, so socket returns 0
NoFd == -1

selector == <<registry, watch_r, watch_w>>
fields == <<client_fd, origin_fd, state>>
heap == <<memory, references, pool>>
vars == <<selector, open, heap, fields, main, done, ready, closing>>

Init ==
    /\ R!Init
    /\ open = {} /\ pool = <<>>
    /\ memory = [s \in Struct |-> "none"] /\ references = [s \in Struct |-> 0]
    /\ client_fd = [s \in Struct |-> NoFd] /\ origin_fd = [s \in Struct |-> NoFd]
    /\ state = [s \in Struct |-> "HELLO_READ"]
    /\ main = "setup" /\ done = FALSE
    /\ ready = {} /\ closing = <<>>

Registered == {fd \in Fd : registry[fd] # R!Free}
Registrations(s) == {fd \in Fd : registry[fd].data = s}

\* The kernel gives the lowest descriptor that is not open.
NewFd(fd) == fd \in Fd \ open /\ \A n \in Fd \ open : fd <= n

-----------------------------------------------------------------------------
(* Structs.                                                                *)

\* What socks5_new does with the struct at the head of the pool, or a new one.
TakenFrom(s) ==
    \/ pool # <<>> /\ s = Head(pool) /\ pool' = Tail(pool)
    \/ pool = <<>> /\ memory[s] = "none" /\ UNCHANGED pool

socks5_new(s, fd) ==
    /\ TakenFrom(s)
    /\ memory' = [memory EXCEPT ![s] = "live"]
    /\ references' = [references EXCEPT ![s] = 1]
    /\ client_fd' = [client_fd EXCEPT ![s] = fd]
    /\ origin_fd' = [origin_fd EXCEPT ![s] = NoFd]
    /\ state' = [state EXCEPT ![s] = "HELLO_READ"]

\* Deliberate defect: the size of the pool is not looked at.
ReleasedAlways(s) ==
    /\ pool' = <<s>> \o pool
    /\ memory' = [memory EXCEPT ![s] = "pooled"]

\* The last reference: the struct goes to the pool if there is room.
Released(s) ==
    LET room == Len(pool) < max_pool
    IN  /\ pool' = (IF room THEN <<s>> ELSE <<>>) \o pool
        /\ memory' = [memory EXCEPT ![s] = IF room THEN "pooled" ELSE "none"]

\* Deliberate defect: the reference that is given up is counted twice.
DestroyTwice(s) ==
    \/ references[s] <= 2 /\ Released(s) /\ UNCHANGED references
    \/ /\ references[s] > 2
       /\ references' = [references EXCEPT ![s] = @ - 1]
       /\ UNCHANGED <<memory, pool>>

socks5_destroy(s) ==
    \/ references[s] = 1 /\ Released(s) /\ UNCHANGED references
    \/ /\ references[s] # 1
       /\ references' = [references EXCEPT ![s] = @ - 1]
       /\ UNCHANGED <<memory, pool>>

-----------------------------------------------------------------------------
(* main.                                                                   *)

\* Every stage may fail; the passive socket may be open by then.
Setup ==
    /\ main = "setup"
    /\ \/ main' = "loop" /\ open' = {server} /\ R!Register(server, {"OP_READ"}, Passive)
       \/ main' = "finally" /\ open' \in {{}, {server}} /\ UNCHANGED selector
    /\ UNCHANGED <<heap, fields, done, ready, closing>>

\* sigterm_handler, at any point after signal was called.
Signal ==
    /\ main \notin {"setup", "exited", "aborted"}
    /\ done' = TRUE
    /\ UNCHANGED <<selector, open, heap, fields, main, ready, closing>>

Loop ==
    /\ main = "loop"
    /\ main' = IF done THEN "finally" ELSE "select"
    /\ UNCHANGED <<selector, open, heap, fields, done, ready, closing>>

\* Descriptors that may be ready, and finished resolutions ("block").
Events ==
    (watch_r \X {"OP_READ"}) \cup (watch_w \X {"OP_WRITE"}) \cup
    {<<fd, "block">> : fd \in {n \in Fd : \E s \in Struct : registry[n].data = s /\ state[s] = "HELLO_WRITE"}}

\* Deliberate defect: no timeout.
SelectWaits(reported) ==
    /\ main = "select"
    /\ reported # {}
    /\ main' = "serve" /\ ready' = reported
    /\ UNCHANGED <<selector, open, heap, fields, done, closing>>

\* selector_select returns after 10 seconds at the latest, with nothing to report,
\* so that a signal that came just before it is not forgotten.
Select(reported) ==
    /\ main = "select"
    /\ main' = "serve" /\ ready' = reported
    /\ UNCHANGED <<selector, open, heap, fields, done, closing>>

SelectFails ==
    /\ main = "select"
    /\ main' = "finally"
    /\ UNCHANGED <<selector, open, heap, fields, done, ready, closing>>

\* The selector is destroyed one item after the other, but closes nothing.
DestroySelector ==
    /\ main = "finally"
    /\ \E fd \in Registered :
        /\ \A n \in Registered : fd <= n
        /\ R!Unregister(fd)
        /\ \/ registry[fd].data = Passive /\ UNCHANGED heap
           \/ registry[fd].data # Passive /\ socks5_destroy(registry[fd].data)
    /\ UNCHANGED <<open, fields, main, done, ready, closing>>

\* socksv5_pool_destroy, close and the end of the process.
Exit ==
    /\ main = "finally"
    /\ Registered = {}
    /\ memory' = [s \in Struct |-> IF \E i \in 1..Len(pool) : pool[i] = s THEN "none" ELSE memory[s]]
    /\ pool' = <<>>
    /\ open' = {}
    /\ main' = "exited"
    /\ UNCHANGED <<selector, references, fields, done, ready, closing>>

-----------------------------------------------------------------------------
(* The callbacks.  Each takes its event out of ready.                      *)

\* Items in ascending order, reading first, and then the finished resolutions.
Turn(e) ==
    /\ main = "serve" /\ closing = <<>>
    /\ e \in ready
    /\ \A o \in ready :
        CASE e[2] = "block" -> o[2] = "block"
          [] o[2] = "block" -> TRUE
          [] OTHER          -> e[1] < o[1] \/ (e[1] = o[1] /\ (o[2] = "OP_READ" => e[2] = "OP_READ"))
    /\ ready' = ready \ {e}

Wanted(e) ==
    /\ registry[e[1]] # R!Free
    /\ e[2] = "block" \/ e[2] \in registry[e[1]].interest

Skip(e) ==
    /\ Turn(e)
    /\ ~Wanted(e)
    /\ UNCHANGED <<selector, open, heap, fields, main, done, closing>>

\* socksv5_passive_accept.
PassiveAccept(e) ==
    /\ Turn(e)
    /\ Wanted(e) /\ registry[e[1]].data = Passive
    /\ \E fd \in Fd, s \in Struct :
        /\ NewFd(fd)
        /\ open' = open \cup {fd}
        /\ socks5_new(s, fd)
        /\ R!Register(fd, {"OP_READ"}, s)
    /\ UNCHANGED <<main, done, closing>>

\* accept, selector_fd_set_nio or socks5_new fails; or selector_register does, and
\* socks5_destroy(state) finds one reference: a struct from the pool goes back.
PassiveAcceptFails(e) ==
    /\ Turn(e)
    /\ Wanted(e) /\ registry[e[1]].data = Passive
    /\ \/ UNCHANGED <<memory, pool>>
       \/ /\ pool = <<>>
          /\ \E s \in Struct : memory[s] = "none" /\ Released(s)
    /\ UNCHANGED <<selector, open, references, fields, main, done, closing>>

Connection(e, s) ==
    /\ Turn(e)
    /\ Wanted(e)
    /\ s \in Struct /\ registry[e[1]].data = s

\* hello_read on a message that is not complete, and states that are left out
\* and do nothing the struct shows.
Continues(e, s) ==
    /\ Connection(e, s)
    /\ UNCHANGED <<selector, open, heap, fields, main, done, closing>>

\* hello_read and hello_process.  Nobody gives d->method a value unless the client
\* offers to go without authentication: either answer is possible (and see Ends).
HelloDone(e, s) ==
    /\ Connection(e, s)
    /\ state[s] = "HELLO_READ" /\ e[2] = "OP_READ"
    /\ R!SetInterest(e[1], {"OP_WRITE"})
    /\ state' = [state EXCEPT ![s] = "HELLO_WRITE"]
    /\ UNCHANGED <<open, heap, client_fd, origin_fd, main, done, closing>>

\* One of the states that are left out connects to the origin.
OriginConnects(e, s) ==
    /\ Connection(e, s)
    /\ state[s] = "HELLO_WRITE" /\ origin_fd[s] = NoFd
    /\ \E fd \in Fd :
        /\ NewFd(fd)
        /\ open' = open \cup {fd}
        /\ R!Register(fd, {"OP_WRITE"}, s)
        /\ origin_fd' = [origin_fd EXCEPT ![s] = fd]
    /\ references' = [references EXCEPT ![s] = @ + 1]
    /\ UNCHANGED <<memory, pool, client_fd, state, main, done, closing>>

\* Deliberate defect: only the descriptor of the event is given up.
EndsOne(e, s) ==
    /\ Connection(e, s)
    /\ closing' = <<e[1]>>
    /\ UNCHANGED <<selector, open, heap, fields, main, done>>

\* The state machine reaches DONE or ERROR: socksv5_done starts.
Ends(e, s) ==
    /\ Connection(e, s)
    /\ closing' = <<client_fd[s]>> \o (IF origin_fd[s] = NoFd THEN <<>> ELSE <<origin_fd[s]>>)
    /\ UNCHANGED <<selector, open, heap, fields, main, done>>

\* A round of its loop: selector_unregister_fd, which calls socksv5_close, and
\* close; abort if the descriptor is not registered.
Closes ==
    /\ main = "serve" /\ closing # <<>>
    /\ LET fd == Head(closing)
       IN  IF registry[fd] = R!Free
           THEN main' = "aborted" /\ UNCHANGED <<selector, heap, open, closing>>
           ELSE /\ R!Unregister(fd)
                /\ socks5_destroy(registry[fd].data)
                /\ open' = open \ {fd}
                /\ closing' = Tail(closing)
                /\ UNCHANGED main
    /\ UNCHANGED <<fields, done, ready>>

Served ==
    /\ main = "serve" /\ closing = <<>> /\ ready = {}
    /\ main' = "loop"
    /\ UNCHANGED <<selector, open, heap, fields, done, ready, closing>>

Callback(e) ==
    \/ Skip(e) \/ PassiveAccept(e) \/ PassiveAcceptFails(e)
    \/ \E s \in Struct : Continues(e, s) \/ HelloDone(e, s) \/ OriginConnects(e, s) \/ Ends(e, s)

Program ==
    \/ Setup \/ Loop \/ Select({}) \/ DestroySelector \/ Exit
    \/ Closes \/ Served
    \/ \E e \in ready : Callback(e)

Next ==
    \/ Program
    \/ Signal
    \/ SelectFails \/ \E reported \in SUBSET Events : Select(reported)

\* The process runs, and nothing needs to arrive for select to return.
Spec == Init /\ [][Next]_vars /\ WF_vars(Program)

-----------------------------------------------------------------------------
\* Every variable is of its type: the pool never holds more than max_pool structs,
\* and a struct never more than two references (socks5nio(1).c:121-132).
ProxyTypeOK ==
    /\ registry \in [Fd -> [data : Struct \cup {Passive, NoData}, interest : R!Interests]]
    /\ watch_r \subseteq Fd /\ watch_w \subseteq Fd
    /\ open \subseteq Fd
    /\ memory \in [Struct -> {"none", "live", "pooled"}]
    /\ references \in [Struct -> 0..2]
    /\ client_fd \in [Struct -> Fd \cup {NoFd}] /\ origin_fd \in [Struct -> Fd \cup {NoFd}]
    /\ state \in [Struct -> {"HELLO_READ", "HELLO_WRITE"}]
    /\ pool \in Seq(Struct) /\ Len(pool) <= max_pool
    /\ main \in {"setup", "loop", "select", "serve", "finally", "exited", "aborted"}
    /\ done \in BOOLEAN
    /\ ready \subseteq Fd \X {"OP_READ", "OP_WRITE", "block"}
    /\ closing \in Seq(Fd)

\* A struct lives as long as a registration refers to it, counts these exactly,
\* and is in the pool once if it is there: no sequence of accepts, failures and
\* closes frees or pools a struct twice, or one that a callback may still get from
\* the selector (socks5nio(1).c:80-81, 121-132, 187-197, 332).
ReferencesCounted == \A s \in Struct :
    /\ memory[s] = "live" <=> Registrations(s) # {}
    /\ memory[s] = "live" => references[s] = Cardinality(Registrations(s))
    /\ Cardinality({i \in 1..Len(pool) : pool[i] = s}) = (IF memory[s] = "pooled" THEN 1 ELSE 0)

\* Between two callbacks the open descriptors are the registered ones, and those of
\* a struct are registered with it: none is lost, closed early or closed twice, so
\* that socksv5_done never aborts (socks5nio(1).c:193-195, 330-337).
DescriptorsOwned ==
    /\ main # "aborted"
    /\ main \in {"loop", "select", "serve"} => open = Registered
    /\ \A fd \in Registered \ {server} : fd \in {client_fd[registry[fd].data], origin_fd[registry[fd].data]}
    /\ \A s \in Struct : memory[s] = "live" /\ closing = <<>> /\ main # "finally" =>
        /\ registry[client_fd[s]].data = s
        /\ origin_fd[s] # NoFd => registry[origin_fd[s]].data = s

AllReleased == Registered = {} /\ memory = [s \in Struct |-> "none"]

\* After a signal main ends and has given every struct back, even if nothing ever
\* arrives again and although the signal may come between the test of done and the
\* wait (main(1).c:159-161, 184-189).
TerminatesAfterSignal == done ~> main = "exited" /\ AllReleased
=============================================================================

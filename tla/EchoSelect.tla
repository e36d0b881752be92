----------------------------- MODULE EchoSelect -----------------------------
(***************************************************************************)
(* src/ArchivosGuia/tcpEchoAddrinfo.c: one process echoes to many clients  *)
(* with select, keeps what it could not send yet in a buffer per client,   *)
(* and answers names that arrive as datagrams.                             *)
(*                                                                         *)
(* One round of the loop is a select and then one step per master socket   *)
(* and per entry of client_socket, first to write, then to read; clients   *)
(* may do something between any two steps.  Descriptors are reused from    *)
(* the lowest, as the kernel does.  Bytes carry the client they come from  *)
(* and their place in its stream.                                          *)
(*                                                                         *)
(* select itself does not fail here: the program installs no signal        *)
(* handler and closes no descriptor that it still watches, and after a     *)
(* failure it would only start the round anew (191-195).                   *)
(***************************************************************************)
EXTENDS Integers, Sequences, FiniteSets, FiniteSetsExt

CONSTANTS
    Client,
    MAX_SOCKETS,    \* entries of client_socket
    Masters,        \* how many listening sockets may be had: IPv4 and IPv6
    BUFFSIZE,       \* how many bytes one read may return
    MaxBytes        \* bound: how many bytes each client sends

ASSUME EchoAssumption ==
    /\ IsFiniteSet(Client)
    /\ {MAX_SOCKETS, BUFFSIZE} \subseteq Nat \ {0}
    /\ MaxBytes \in [Client -> Nat]
    /\ Masters \in Nat

Slot == 1..MAX_SOCKETS
Fd == 1..Cardinality(Client)
None == 0                       \* no descriptor, in client_socket and elsewhere

VARIABLES
    status,         \* of the process
    masters,        \* the listening sockets, in master_socket
    place, cursor,  \* where the round is
    readfds,        \* what select found: [udp, masters, clients]
    writefds,       \* kept from round to round, and what select left of it
    client_socket,
    bufferWrite,    \* the bytes of each entry's buffer
    from,           \* how many of them have been sent
    socket,         \* the server's descriptor of each client's connection
    backlog,        \* for each master: the connections that wait for accept
    peer,           \* the client's side of its connection
    sent, taken,    \* bytes that a client sent, and that the server read
    echoed          \* bytes that the server sent to the client

round == <<status, masters, place, cursor, readfds>>
table == <<writefds, client_socket, bufferWrite, from>>
kernel == <<socket, backlog, taken, echoed>>
peers == <<peer, sent>>
vars == <<round, table, kernel, peers>>

NothingReady == [udp |-> FALSE, masters |-> {}, clients |-> {}]

Init ==
    /\ status = "setup" /\ masters = {} /\ place = "select" /\ cursor = 1
    /\ readfds = NothingReady /\ writefds = {}
    /\ client_socket = [s \in Slot |-> None]
    /\ bufferWrite = [s \in Slot |-> <<>>] /\ from = [s \in Slot |-> 0]
    /\ socket = [c \in Client |-> None]
    /\ backlog = [m \in 1..Masters |-> <<>>]
    /\ peer = [c \in Client |-> "idle"]
    /\ sent = [c \in Client |-> 0] /\ taken = [c \in Client |-> 0]
    /\ echoed = [c \in Client |-> <<>>]

Running == status = "running"

-----------------------------------------------------------------------------
(* What the kernel says of a connection.                                   *)

Owner(fd) == CHOOSE c \in Client : socket[c] = fd
Readable(c) == sent[c] > taken[c] \/ peer[c] \in {"left", "reset"}

-----------------------------------------------------------------------------
(* The clients.                                                            *)

Connect(c, m) ==
    /\ Running
    /\ peer[c] = "idle"
    /\ peer' = [peer EXCEPT ![c] = "open"]
    /\ backlog' = [backlog EXCEPT ![m] = Append(@, c)]
    /\ UNCHANGED <<round, table, socket, taken, echoed, sent>>

SendsByte(c) ==
    /\ peer[c] = "open"
    /\ sent[c] < MaxBytes[c]
    /\ sent' = [sent EXCEPT ![c] = @ + 1]
    /\ UNCHANGED <<round, table, kernel, peer>>

\* A client that left may still reset the connection, on an echo it does not take
\* any more.  A connection that was reset gets and gives nothing.
Leaves(c, how) ==
    /\ \/ peer[c] = "open"
       \/ peer[c] = "left" /\ how = "reset"
    /\ peer' = [peer EXCEPT ![c] = how]
    /\ UNCHANGED <<round, table, kernel, sent>>

ClientSteps(c) ==
    \/ \E m \in masters : Connect(c, m)
    \/ SendsByte(c)
    \/ \E how \in {"left", "reset"} : Leaves(c, how)

-----------------------------------------------------------------------------
(* The server.                                                             *)

\* Either listening socket may fail, and is then closed and left out; the
\* program ends without the UDP socket (log(FATAL, ...) exits, logger.h:28).
Setup ==
    /\ status = "setup"
    /\ masters' \in SUBSET (1..Masters)
    /\ status' \in {"running", "exited"}
    /\ UNCHANGED <<place, cursor, readfds, table, kernel, peers>>

Goes(p, n) == place' = p /\ cursor' = n

\* The next entry of a loop, or the next loop.
Advance(last, p) == IF cursor < last THEN Goes(place, cursor + 1) ELSE Goes(p, 1)

Watched == {client_socket[s] : s \in Slot} \ {None}

\* Deliberate defect: every client is taken for ready to be read.
SelectAll(datagram) ==
    /\ Running
    /\ place = "select"
    /\ readfds' = [udp     |-> datagram,
                   masters |-> {m \in masters : backlog[m] # <<>>},
                   clients |-> Watched]
    /\ writefds' \in SUBSET writefds
    /\ {fd \in writefds : peer[Owner(fd)] = "reset"} \subseteq writefds'
    /\ readfds' # NothingReady \/ writefds' # {}
    /\ Goes("udp", 1)
    /\ UNCHANGED <<status, masters, client_socket, bufferWrite, from, kernel, peers>>

\* select waits for something and leaves only what is ready in both sets.  How much
\* room the kernel has for a client is open: any of writefds may be ready, and a
\* connection that was reset is.  So is whether a datagram has arrived.
Select(datagram) ==
    /\ Running
    /\ place = "select"
    /\ readfds' = [udp     |-> datagram,
                   masters |-> {m \in masters : backlog[m] # <<>>},
                   clients |-> {fd \in Watched : Readable(Owner(fd))}]
    /\ writefds' \in SUBSET writefds
    /\ {fd \in writefds : peer[Owner(fd)] = "reset"} \subseteq writefds'
    /\ readfds' # NothingReady \/ writefds' # {}
    /\ Goes("udp", 1)
    /\ UNCHANGED <<status, masters, client_socket, bufferWrite, from, kernel, peers>>

\* The name is looked up and answered before anything else is served.  An empty
\* datagram makes the function read, and a full one write, past the buffer.
handleAddrInfo ==
    /\ Running
    /\ place = "udp"
    /\ status' \in {"running"} \cup (IF readfds.udp THEN {"overrun"} ELSE {})
    /\ Goes("accept", 1)
    /\ UNCHANGED <<masters, readfds, table, kernel, peers>>

FreeFd == Min(Fd \ {socket[c] : c \in Client})

\* The first free entry takes the new connection; with none free it stays open
\* and nobody looks at it again.
Accepts(m) ==
    LET c == Head(backlog[m])
        free == {s \in Slot : client_socket[s] = None}
    IN  /\ backlog' = [backlog EXCEPT ![m] = Tail(@)]
        /\ socket' = [socket EXCEPT ![c] = FreeFd]
        /\ client_socket' = IF free = {} THEN client_socket
                            ELSE [client_socket EXCEPT ![Min(free)] = FreeFd]

\* Nothing to accept, or accept fails.
AcceptStep ==
    /\ Running
    /\ place = "accept"
    /\ \/ cursor \in readfds.masters /\ Accepts(cursor)
       \/ UNCHANGED <<backlog, socket, client_socket>>
    /\ Advance(Masters, "write")
    /\ UNCHANGED <<status, masters, readfds, writefds, bufferWrite, from, taken, echoed, peers>>

\* Deliberate defect: the position of the emptied buffer stays.
ClearedBytes(s) ==
    /\ bufferWrite' = [bufferWrite EXCEPT ![s] = <<>>]
    /\ UNCHANGED from

Cleared(s) ==
    /\ bufferWrite' = [bufferWrite EXCEPT ![s] = <<>>]
    /\ from' = [from EXCEPT ![s] = 0]

BytesToSend(s) == Len(bufferWrite[s]) - from[s]

\* Deliberate defect: the position stays when only a part was sent.
SendsAnew(s, n) ==
    LET c == Owner(client_socket[s])
    IN  /\ peer[c] # "reset"
        /\ echoed' = [echoed EXCEPT ![c] = @ \o SubSeq(bufferWrite[s], from[s] + 1, from[s] + n)]
        /\ IF n = BytesToSend(s)
           THEN Cleared(s) /\ writefds' = writefds \ {client_socket[s]}
           ELSE UNCHANGED <<from, bufferWrite, writefds>>
        /\ UNCHANGED status

\* send takes n of the bytes that are left.
Sends(s, n) ==
    LET c == Owner(client_socket[s])
    IN  /\ peer[c] # "reset"
        /\ echoed' = [echoed EXCEPT ![c] = @ \o SubSeq(bufferWrite[s], from[s] + 1, from[s] + n)]
        /\ IF n = BytesToSend(s)
           THEN Cleared(s) /\ writefds' = writefds \ {client_socket[s]}
           ELSE from' = [from EXCEPT ![s] = @ + n] /\ UNCHANGED <<bufferWrite, writefds>>
        /\ UNCHANGED status

\* To a connection that was reset, send returns -1, which as a size_t is taken
\* for success and moves the position back by one, or SIGPIPE ends the process.
SendFails(s) ==
    /\ peer[Owner(client_socket[s])] = "reset"
    /\ \/ from' = [from EXCEPT ![s] = @ - 1] /\ UNCHANGED status
       \/ status' = "killed" /\ UNCHANGED from
    /\ UNCHANGED <<echoed, bufferWrite, writefds>>

handleWrite(s) ==
    \/ BytesToSend(s) = 0 /\ UNCHANGED <<status, echoed, bufferWrite, from, writefds>>
    \/ \E n \in 1..BytesToSend(s) : Sends(s, n)
    \/ BytesToSend(s) > 0 /\ SendFails(s)

WriteStep ==
    /\ Running
    /\ place = "write"
    /\ \/ client_socket[cursor] \in writefds /\ handleWrite(cursor)
       \/ client_socket[cursor] \notin writefds /\ UNCHANGED <<status, echoed, bufferWrite, from, writefds>>
    /\ Advance(MAX_SOCKETS, "read")
    /\ UNCHANGED <<masters, readfds, client_socket, socket, backlog, taken, peers>>

\* read returns what there is, up to BUFFSIZE bytes.
ReadsBytes(s) ==
    LET c == Owner(client_socket[s])
        n == Min({BUFFSIZE, sent[c] - taken[c]})
    IN  /\ peer[c] # "reset"
        /\ n > 0
        /\ taken' = [taken EXCEPT ![c] = @ + n]
        /\ bufferWrite' = [bufferWrite EXCEPT ![s] = @ \o [k \in 1..n |-> <<c, taken[c] + k>>]]
        /\ writefds' = writefds \cup {client_socket[s]}
        /\ UNCHANGED <<from, socket, client_socket>>

\* Deliberate defect: a closed descriptor keeps its bit and its buffer.
ReadsEndOnly(s) ==
    LET c == Owner(client_socket[s])
    IN  /\ peer[c] = "reset" \/ (peer[c] = "left" /\ sent[c] = taken[c])
        /\ socket' = [socket EXCEPT ![c] = None]
        /\ client_socket' = [client_socket EXCEPT ![s] = None]
        /\ UNCHANGED <<taken, writefds, bufferWrite, from>>

\* Deliberate defect: only the end of a stream closes, not an error.
ReadsEndNotError(s) ==
    LET c == Owner(client_socket[s])
    IN  /\ peer[c] = "reset" \/ (peer[c] = "left" /\ sent[c] = taken[c])
        /\ IF peer[c] = "reset" THEN UNCHANGED <<socket, client_socket, writefds, bufferWrite, from>>
           ELSE /\ socket' = [socket EXCEPT ![c] = None]
                /\ client_socket' = [client_socket EXCEPT ![s] = None]
                /\ writefds' = writefds \ {client_socket[s]}
                /\ Cleared(s)
        /\ UNCHANGED taken

\* End of the stream or an error: what has not been echoed yet is dropped.
ReadsEnd(s) ==
    LET c == Owner(client_socket[s])
    IN  /\ peer[c] = "reset" \/ (peer[c] = "left" /\ sent[c] = taken[c])
        /\ socket' = [socket EXCEPT ![c] = None]
        /\ client_socket' = [client_socket EXCEPT ![s] = None]
        /\ writefds' = writefds \ {client_socket[s]}
        /\ Cleared(s)
        /\ UNCHANGED taken

\* With nothing to read this would block, and the step not be taken.
ReadStep ==
    /\ Running
    /\ place = "read"
    /\ \/ client_socket[cursor] \in readfds.clients /\ (ReadsBytes(cursor) \/ ReadsEnd(cursor))
       \/ /\ client_socket[cursor] \notin readfds.clients
          /\ UNCHANGED <<taken, bufferWrite, from, writefds, socket, client_socket>>
    /\ Advance(MAX_SOCKETS, "select")
    /\ UNCHANGED <<status, masters, readfds, backlog, echoed, peers>>

Server == Setup \/ Select(FALSE) \/ handleAddrInfo \/ AcceptStep \/ WriteStep \/ ReadStep

Next ==
    \/ Server
    \/ \E c \in Client : ClientSteps(c)
    \/ Select(TRUE)

\* The process runs; clients and datagrams may stop at any point.
Spec == Init /\ [][Next]_vars /\ WF_vars(Server)

-----------------------------------------------------------------------------
Byte == Client \X Nat

\* Every variable is of its type, and the unsent part of a buffer stays inside it
\* except on a connection that was reset (tcpEchoAddrinfo.c:290-305).
EchoTypeOK ==
    /\ status \in {"setup", "running", "exited", "killed", "overrun"}
    /\ masters \subseteq 1..Masters
    /\ place \in {"select", "udp", "accept", "write", "read"}
    /\ cursor \in 1..Max({Masters, MAX_SOCKETS, 1})
    /\ writefds \cup readfds.clients \subseteq Fd
    /\ client_socket \in [Slot -> Fd \cup {None}]
    /\ socket \in [Client -> Fd \cup {None}]
    /\ bufferWrite \in [Slot -> Seq(Byte)]
    /\ from \in [Slot -> Int]
    /\ \A s \in Slot : from[s] \in 0..Len(bufferWrite[s]) \/ peer[Owner(client_socket[s])] = "reset"
    /\ echoed \in [Client -> Seq(Byte)]

\* A client gets its own bytes, in order and once, whatever send took of them and
\* whoever used its entry or its descriptor in the rounds before
\* (tcpEchoAddrinfo.c:254, 286).
EchoInOrder == \A c \in Client :
    /\ \A k \in 1..Len(echoed[c]) : echoed[c][k] = <<c, k>>
    /\ Len(echoed[c]) <= taken[c]

\* The server never calls read for a descriptor without something to read, which
\* would make every client wait for one: when read is called, the bit of readfds
\* still belongs to the connection it was set for (tcpEchoAddrinfo.c:240-250).  A
\* descriptor is closed in the last loop of a round only, so it has another owner
\* in the next round at the earliest.
ReadsReady ==
    place = "read" /\ client_socket[cursor] \in readfds.clients =>
        /\ \E c \in Client : socket[c] = client_socket[cursor]
        /\ Readable(Owner(client_socket[cursor]))

\* Entries, descriptors, write bits and buffers agree: an entry holds a descriptor
\* of its own; a free one has no bytes left for its next user; only descriptors in
\* the table are watched for writing (tcpEchoAddrinfo.c:249-255, 301-303).
SlotsConsistent ==
    /\ \A s, t \in Slot : client_socket[s] = client_socket[t] /\ client_socket[s] # None => s = t
    /\ \A s \in Slot : client_socket[s] = None => bufferWrite[s] = <<>> /\ from[s] = 0
    /\ writefds \subseteq Watched
    /\ \A fd \in Watched : \E c \in Client : socket[c] = fd

Tracked(c) == socket[c] # None /\ socket[c] \in Watched

\* An entry comes free when its client leaves, even if nothing else happens and
\* although echoes to it are still pending (tcpEchoAddrinfo.c:243-255).
LeaversReleased == \A c \in Client :
    Running /\ Tracked(c) /\ peer[c] \in {"left", "reset"} ~> ~Tracked(c) \/ ~Running

\* "Si se pudieron mandar todos los bytes limpiamos el buffer y sacamos el fd para
\* el select" (tcpEchoAddrinfo.c:300): until then it stays in.
PendingWatched ==
    Running /\ place = "select" =>
        \A s \in Slot : BytesToSend(s) # 0 => client_socket[s] \in writefds
=============================================================================

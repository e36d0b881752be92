--------------------------- MODULE BlockingServers ---------------------------
(***************************************************************************)
(* The three servers of the repository that serve a connection with        *)
(* blocking calls: src/server/mainServer.c, which answers commands, and    *)
(* the guides tcpEchoServer.c and TCPEchoServer-Fork.c, which echo.  The   *)
(* first two serve one client after the other; the third forks a child per *)
(* client.  Which of them runs is chosen at the start.                     *)
(*                                                                         *)
(* A client's stream is cut into tokens; recv returns any piece of what is *)
(* under way.  A client may leave, or reset its connection, at any time;   *)
(* a send after that may raise SIGPIPE, which none of the three handles.   *)
(***************************************************************************)
EXTENDS Integers, Sequences, FiniteSets, FiniteSetsExt

CONSTANTS
    Programs,       \* the servers to look at
    Client,
    NoClient,       \* the descriptor -1 of an accept that failed
    Script,         \* Script[c]: the tokens that client c may send, in order
    Addresses,      \* how many addresses getaddrinfo offers to listen at
    MaxFailures     \* bound: the calls of accept and fork that fail

ForkServer == "TCPEchoServer-Fork.c"
EchoServer == "tcpEchoServer.c"
MainServer == "mainServer.c"
Token == {"HEL", "LO", "GOODBYE", "EOL"}
Reply == {"Hello, Client!", "Goodbye, Client!", "Unknown command"}

ASSUME BlockingAssumption ==
    /\ Programs \subseteq {ForkServer, EchoServer, MainServer}
    /\ NoClient \notin Client
    /\ IsFiniteSet(Client)
    /\ Script \in [Client -> Seq(Token)]
    /\ {Addresses, MaxFailures} \subseteq Nat

VARIABLES
    program,        \* the server that runs
    server,         \* what its first process is doing
    backlog,        \* connections that wait for accept
    clntSock,       \* what accept returned last
    descriptors,    \* the connections that the first process has open
    children,       \* clients of the child processes that run
    zombies,        \* clients of the children that have ended, not waited for
    childProcCount,
    failedForks,    \* how often fork has failed
    handler,        \* where the function that serves a client is
    peer,           \* the client's side of its connection
    sent, recvd,    \* tokens the client has sent, and its handler received
    answered,       \* tokens the handler has dealt with
    whole,          \* has every recv returned exactly one line?
    replies,        \* what has been sent to the client
    failures

process == <<server, backlog, clntSock, childProcCount, failedForks>>
kernel == <<descriptors, children, zombies, failures>>
stream == <<recvd, answered, whole, replies>>
peers == <<peer, sent>>
vars == <<program, process, kernel, handler, peers, stream>>

Init ==
    /\ program \in Programs
    /\ server = "setup" /\ backlog = <<>> /\ clntSock = NoClient
    /\ childProcCount = 0 /\ failedForks = 0
    /\ descriptors = {} /\ children = {} /\ zombies = {} /\ failures = 0
    /\ handler = [c \in Client |-> "none"]
    /\ peer = [c \in Client |-> "idle"] /\ sent = [c \in Client |-> 0]
    /\ recvd = [c \in Client |-> 0] /\ answered = [c \in Client |-> 0]
    /\ whole = [c \in Client |-> TRUE] /\ replies = [c \in Client |-> <<>>]

Fails == failures < MaxFailures /\ failures' = failures + 1

-----------------------------------------------------------------------------
(* The clients.                                                            *)

Connect(c) ==
    /\ peer[c] = "idle"
    /\ server \notin {"setup", "exited", "killed"}
    /\ peer' = [peer EXCEPT ![c] = "open"]
    /\ backlog' = Append(backlog, c)
    /\ UNCHANGED <<program, server, clntSock, childProcCount, failedForks, kernel, handler, sent, stream>>

SendsToken(c) ==
    /\ peer[c] = "open"
    /\ sent[c] < Len(Script[c])
    /\ sent' = [sent EXCEPT ![c] = @ + 1]
    /\ UNCHANGED <<program, process, kernel, handler, peer, stream>>

\* A client that left may still read; one that reset gets and gives nothing.
Leaves(c, how) ==
    /\ \/ peer[c] = "open"
       \/ peer[c] = "left" /\ how = "reset"
    /\ peer' = [peer EXCEPT ![c] = how]
    /\ UNCHANGED <<program, process, kernel, handler, sent, stream>>

ClientSteps(c) == Connect(c) \/ SendsToken(c) \/ \E how \in {"left", "reset"} : Leaves(c, how)

-----------------------------------------------------------------------------
(* recv and send as the handlers see them.                                 *)

\* What the handler has received and not dealt with, once recv got as far as n.
Piece(c, n) == SubSeq(Script[c], answered[c] + 1, n)

OneLine(tokens) ==
    /\ tokens[Len(tokens)] = "EOL"
    /\ \A i \in 1..Len(tokens) - 1 : tokens[i] # "EOL"

\* recv returns some of what is under way.
Receives(c, n) ==
    /\ handler[c] = "recv"
    /\ peer[c] # "reset"
    /\ n \in recvd[c] + 1..sent[c]
    /\ recvd' = [recvd EXCEPT ![c] = n]
    /\ whole' = [whole EXCEPT ![c] = @ /\ OneLine(Piece(c, n))]

ReceivesEnd(c) ==
    /\ handler[c] = "recv"
    /\ peer[c] = "left"
    /\ recvd[c] = sent[c]

ReceiveFails(c) == handler[c] = "recv" /\ peer[c] = "reset"

HandlerAt(c, place) == handler' = [handler EXCEPT ![c] = place]
Deals(c, n) == answered' = [answered EXCEPT ![c] = n]

\* SIGPIPE ends the process that sends, and the kernel closes what it had open.
Killed(c) ==
    /\ handler[c] = "send"
    /\ peer[c] = "reset"
    /\ HandlerAt(c, "none")
    /\ \/ /\ program = ForkServer
          /\ children' = children \ {c} /\ zombies' = zombies \cup {c}
          /\ UNCHANGED <<server, descriptors>>
       \/ /\ program # ForkServer
          /\ server' = "killed" /\ descriptors' = {}
          /\ UNCHANGED <<children, zombies>>
    /\ UNCHANGED <<program, backlog, clntSock, childProcCount, failedForks, failures, peers, stream>>

-----------------------------------------------------------------------------
(* mainServer.c.                                                           *)

\* Deliberate defect: the line ends after the command are left where they are.
CommandUntrimmed(chunk) ==
    LET kept == {i \in 1..Len(chunk) : chunk[i] # "EOL"}
    IN  IF kept = {} THEN <<>> ELSE SubSeq(chunk, Min(kept), Len(chunk))

\* What is left of a chunk without the line ends at its two ends.
Command(chunk) ==
    LET kept == {i \in 1..Len(chunk) : chunk[i] # "EOL"}
    IN  IF kept = {} THEN <<>> ELSE SubSeq(chunk, Min(kept), Max(kept))

Answer(command) ==
    CASE command = <<"HEL", "LO">> -> "Hello, Client!"
      [] command = <<"GOODBYE">>   -> "Goodbye, Client!"
      [] OTHER                     -> "Unknown command"

MainSetup ==
    /\ program = MainServer
    /\ server = "setup"
    /\ server' \in {"accept", "exited"}
    /\ UNCHANGED <<program, backlog, clntSock, childProcCount, failedForks, kernel, handler, peers, stream>>

\* accept succeeds and the connection is served in the same process.
Serves ==
    /\ server = "accept"
    /\ backlog # <<>>
    /\ server' = "handle"
    /\ clntSock' = Head(backlog) /\ backlog' = Tail(backlog)
    /\ descriptors' = descriptors \cup {clntSock'}
    /\ HandlerAt(clntSock', "recv")
    /\ UNCHANGED <<program, childProcCount, failedForks, children, zombies, failures, peers, stream>>

MainAccepts == program = MainServer /\ Serves

\* The loop ends with the first accept that fails.
MainAcceptFails ==
    /\ program = MainServer
    /\ server = "accept"
    /\ Fails
    /\ server' = "exited"
    /\ UNCHANGED <<program, backlog, clntSock, childProcCount, failedForks, descriptors, children, zombies, handler, peers, stream>>

\* An empty command is skipped.
MainReceives(c) ==
    /\ program = MainServer
    /\ \E n \in 1..sent[c] :
        /\ Receives(c, n)
        /\ \/ Command(Piece(c, n)) = <<>> /\ Deals(c, n) /\ UNCHANGED handler
           \/ Command(Piece(c, n)) # <<>> /\ HandlerAt(c, "send") /\ UNCHANGED answered
    /\ UNCHANGED <<program, process, kernel, peers, replies>>

\* Nobody looks at what send returns.
MainReplies(c) ==
    /\ program = MainServer
    /\ handler[c] = "send"
    /\ replies' = [replies EXCEPT ![c] = IF peer[c] = "reset" THEN @ ELSE Append(@, Answer(Command(Piece(c, recvd[c]))))]
    /\ HandlerAt(c, "recv")
    /\ UNCHANGED <<recvd, whole>> /\ Deals(c, recvd[c])
    /\ UNCHANGED <<program, process, kernel, peers>>

MainEnds(c) ==
    /\ program = MainServer
    /\ ReceivesEnd(c) \/ ReceiveFails(c)
    /\ descriptors' = descriptors \ {c}
    /\ server' = "accept"
    /\ HandlerAt(c, "none")
    /\ UNCHANGED <<program, backlog, clntSock, childProcCount, failedForks, children, zombies, failures, peers, stream>>

-----------------------------------------------------------------------------
(* tcpServerUtil.c, which the two echo servers share.                      *)

\* The addresses are tried in order, up to the first that lets itself be bound
\* and listened at; the sockets of the others are closed.
setupTCPServerSocket ==
    /\ program # MainServer
    /\ server = "setup"
    /\ \E outcome \in [1..Addresses -> {"no socket", "no bind", "listens"}] :
        server' = IF \E a \in 1..Addresses : outcome[a] = "listens" THEN "accept" ELSE "exited"
    /\ UNCHANGED <<program, backlog, clntSock, childProcCount, failedForks, kernel, handler, peers, stream>>

EchoReceives(c) ==
    /\ program # MainServer
    /\ \E n \in 1..sent[c] : Receives(c, n)
    /\ HandlerAt(c, "send")
    /\ UNCHANGED <<program, process, kernel, peers, answered, replies>>

EchoSends(c) ==
    /\ program # MainServer
    /\ handler[c] = "send"
    /\ peer[c] # "reset"
    /\ replies' = [replies EXCEPT ![c] = @ \o Piece(c, recvd[c])]
    /\ HandlerAt(c, "recv")
    /\ UNCHANGED <<recvd, whole>> /\ Deals(c, recvd[c])
    /\ UNCHANGED <<program, process, kernel, peers>>

\* The function returns: to the accept loop, or to the exit of the child.
EchoReturns(c) ==
    /\ HandlerAt(c, "none")
    /\ \/ /\ program = EchoServer
          /\ server' = "accept"
          /\ UNCHANGED <<children, zombies>>
       \/ /\ program = ForkServer
          /\ children' = children \ {c} /\ zombies' = zombies \cup {c}
          /\ UNCHANGED server
    /\ UNCHANGED <<program, backlog, clntSock, childProcCount, failedForks, failures, peers, stream>>

\* A child's close leaves the parent's descriptor alone.
EchoEnds(c) ==
    /\ ReceivesEnd(c)
    /\ descriptors' = IF program = EchoServer THEN descriptors \ {c} ELSE descriptors
    /\ EchoReturns(c)

\* send may take less than it was asked to: the function gives up then.
EchoSendsShort(c) ==
    /\ program # MainServer
    /\ handler[c] = "send"
    /\ peer[c] # "reset"
    /\ \E k \in answered[c] + 1..recvd[c] - 1 :
        /\ replies' = [replies EXCEPT ![c] = @ \o Piece(c, k)]
        /\ Deals(c, k)
    /\ HandlerAt(c, "failed")
    /\ UNCHANGED <<program, process, kernel, peers, recvd, whole>>

\* recv or send failed, or sent less than it was asked: the socket stays open.
EchoFails(c) ==
    /\ \/ ReceiveFails(c)
       \/ handler[c] = "send" /\ peer[c] = "reset"
       \/ handler[c] = "failed"
    /\ UNCHANGED descriptors
    /\ EchoReturns(c)

-----------------------------------------------------------------------------
(* tcpEchoServer.c.                                                        *)

EchoAccepts == program = EchoServer /\ Serves

EchoAcceptFails ==
    /\ program = EchoServer
    /\ server = "accept"
    /\ Fails
    /\ UNCHANGED <<program, process, descriptors, children, zombies, handler, peers, stream>>

-----------------------------------------------------------------------------
(* TCPEchoServer-Fork.c.                                                   *)

\* fork for what accept returned, after so many failures.
Forks(c, before) ==
    \/ /\ children' = children \cup {c}
       /\ handler' = [x \in Client |-> IF x = c THEN "recv" ELSE handler[x]]
       /\ failures' = before
       /\ UNCHANGED failedForks
    \/ /\ before < MaxFailures
       /\ failures' = before + 1
       /\ failedForks' = failedForks + 1
       /\ UNCHANGED <<children, handler>>

ForkAccepts ==
    /\ program = ForkServer
    /\ server = "accept"
    /\ backlog # <<>>
    /\ server' = "close"
    /\ clntSock' = Head(backlog) /\ backlog' = Tail(backlog)
    /\ descriptors' = descriptors \cup {clntSock'}
    /\ Forks(clntSock', failures)
    /\ UNCHANGED <<program, childProcCount, zombies, peers, stream>>

\* Nobody looks at what accept returned.  One child without a connection at a
\* time is enough here.
ForkAcceptFails ==
    /\ program = ForkServer
    /\ server = "accept"
    /\ failures < MaxFailures
    /\ NoClient \notin children \cup zombies
    /\ server' = "close"
    /\ clntSock' = NoClient
    /\ Forks(NoClient, failures + 1)
    /\ UNCHANGED <<program, backlog, descriptors, childProcCount, zombies, peers, stream>>

\* The first recv of a child without a connection fails, and the child exits.
ChildOfNobodyEnds ==
    /\ NoClient \in children
    /\ children' = children \ {NoClient} /\ zombies' = zombies \cup {NoClient}
    /\ UNCHANGED <<program, process, descriptors, failures, handler, peers, stream>>

\* Deliberate defect: the parent keeps its descriptor.
ForkKeepsOpen ==
    /\ server = "close"
    /\ childProcCount' = childProcCount + 1
    /\ server' = "clean"
    /\ UNCHANGED <<program, backlog, clntSock, failedForks, kernel, handler, peers, stream>>

\* The count grows whether or not fork made a child.
ForkCloses ==
    /\ server = "close"
    /\ descriptors' = descriptors \ {clntSock}
    /\ childProcCount' = childProcCount + 1
    /\ server' = "clean"
    /\ UNCHANGED <<program, backlog, clntSock, failedForks, children, zombies, failures, handler, peers, stream>>

\* One round of the loop around waitpid(-1, NULL, WNOHANG).
ForkReaps ==
    /\ childProcCount # 0
    /\ \E z \in zombies : zombies' = zombies \ {z}
    /\ childProcCount' = childProcCount - 1
    /\ UNCHANGED server

ForkReapsNone ==
    /\ \/ childProcCount = 0
       \/ zombies = {} /\ children # {}
    /\ server' = "accept"
    /\ UNCHANGED <<zombies, childProcCount>>

\* Without a child waitpid fails; the error is reported and the loop goes on.
WaitpidFails ==
    /\ childProcCount # 0
    /\ children \cup zombies = {}
    /\ UNCHANGED <<server, zombies, childProcCount>>

\* Deliberate defect: waitpid without WNOHANG.
ForkCleansWaiting ==
    /\ server = "clean"
    /\ \/ ForkReaps
       \/ childProcCount = 0 /\ ForkReapsNone
       \/ WaitpidFails
    /\ UNCHANGED <<program, backlog, clntSock, failedForks, descriptors, children, failures, handler, peers, stream>>

\* Deliberate defect: every round of the loop takes one off.
ForkCleansCounting ==
    /\ server = "clean"
    /\ \/ ForkReaps
       \/ zombies = {} /\ server' = "accept" /\ childProcCount' = childProcCount - 1 /\ UNCHANGED zombies
    /\ UNCHANGED <<program, backlog, clntSock, failedForks, descriptors, children, failures, handler, peers, stream>>

ForkCleans ==
    /\ server = "clean"
    /\ ForkReaps \/ ForkReapsNone \/ WaitpidFails
    /\ UNCHANGED <<program, backlog, clntSock, failedForks, descriptors, children, failures, handler, peers, stream>>

-----------------------------------------------------------------------------
FirstProcess ==
    \/ MainSetup \/ MainAccepts \/ MainAcceptFails
    \/ setupTCPServerSocket
    \/ EchoAccepts \/ EchoAcceptFails
    \/ ForkAccepts \/ ForkAcceptFails \/ ForkCloses \/ ForkCleans

Handler(c) ==
    \/ MainReceives(c) \/ MainReplies(c) \/ MainEnds(c)
    \/ EchoReceives(c) \/ EchoSends(c) \/ EchoSendsShort(c) \/ EchoEnds(c) \/ EchoFails(c)
    \/ Killed(c)

Next ==
    \/ FirstProcess
    \/ ChildOfNobodyEnds
    \/ \E c \in Client : Handler(c) \/ ClientSteps(c)

\* Processes run; clients may stop at any point.
Fairness ==
    /\ WF_vars(FirstProcess)
    /\ WF_vars(ChildOfNobodyEnds)
    /\ \A c \in Client : WF_vars(Handler(c))

Spec == Init /\ [][Next]_vars /\ Fairness

-----------------------------------------------------------------------------
\* Every variable is of its type; childProcCount, an unsigned number, never
\* goes below zero (TCPEchoServer-Fork.c:51).
BlockingTypeOK ==
    /\ program \in Programs
    /\ server \in {"setup", "accept", "handle", "close", "clean", "exited", "killed"}
    /\ backlog \in Seq(Client)
    /\ clntSock \in Client \cup {NoClient}
    /\ descriptors \subseteq Client
    /\ children \subseteq Client \cup {NoClient}
    /\ zombies \subseteq Client \cup {NoClient}
    /\ {childProcCount, failedForks, failures} \subseteq Nat
    /\ handler \in [Client -> {"none", "recv", "send", "failed"}]
    /\ peer \in [Client -> {"idle", "open", "left", "reset"}]
    /\ {sent, recvd, answered} \subseteq [Client -> Nat]
    /\ whole \in [Client -> BOOLEAN]

\* The forking server's count is the "Number of child processes"
\* (TCPEchoServer-Fork.c:24): of those that run, and of those that ended and have
\* not been waited for.  A fork that fails is counted too (line 42).
ChildrenCounted ==
    program = ForkServer =>
        childProcCount + (IF server = "close" THEN 1 ELSE 0)
            = Cardinality(children) + Cardinality(zombies)

\* When a server is back in accept, its own descriptors of the connections it
\* served, or handed to a child, are closed.  The exception is the error path of
\* handleTCPEchoClient (tcpServerUtil.c:94, 103, 107, 114): a connection that was
\* reset, or of which a piece was not sent whole, stays open in tcpEchoServer.c for
\* ever.
DescriptorsReleased ==
    server \in {"accept", "clean"} =>
        descriptors \subseteq {c \in Client :
            program = EchoServer /\ (peer[c] = "reset" \/ answered[c] < recvd[c])}

\* Where the lines that are not empty end among the first n tokens, and the line
\* that ends at k.
LineEnds(tokens, n) == {k \in 2..n : tokens[k] = "EOL" /\ tokens[k - 1] # "EOL"}
Line(tokens, k) ==
    LET start == Min({j \in 1..k : \A h \in j..k - 1 : tokens[h] # "EOL"})
    IN  SubSeq(tokens, start, k - 1)

\* One reply for each line that is not empty, in order.
LinesAnswered(out, tokens, n) ==
    /\ Len(out) = Cardinality(LineEnds(tokens, n))
    /\ \A k \in LineEnds(tokens, n) :
          out[Cardinality(LineEnds(tokens, k))] = Answer(Line(tokens, k))

\* The echo servers return what they dealt with, in order and once.  mainServer.c
\* answers line by line as long as every recv returns one whole line; it knows
\* no other border between commands (mainServer.c:18).
RepliesFaithful == \A c \in Client :
    \/ program # MainServer /\ replies[c] = SubSeq(Script[c], 1, answered[c])
    \/ program = MainServer /\ (whole[c] /\ peer[c] # "reset" => LinesAnswered(replies[c], Script[c], answered[c]))

Waits(c) == \E i \in 1..Len(backlog) : backlog[i] = c

\* A client that waits to be accepted is accepted, unless the server has ended,
\* or stays with one other client for ever (mainServer.c:116, tcpEchoServer.c:30),
\* or cannot leave its loop around waitpid after a fork that failed.
WaitsForAnotherOnly == \A c \in Client :
    \/ <>[](server = "handle")
    \/ Waits(c) ~> (~Waits(c) \/ server \in {"exited", "killed"} \/ failedForks > 0)

\* "Clean up all zombies" (TCPEchoServer-Fork.c:44): the loop ends.
CleanUpEnds == server = "clean" ~> server = "accept"
=============================================================================

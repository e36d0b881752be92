------------------------ MODULE BlockingServersProofs ------------------------
(***************************************************************************)
(* Proofs about BlockingServers for any clients, scripts and failures: the *)
(* forking server counts its children right, and each of the three servers *)
(* closes its descriptors but for the error path that leaks one.           *)
(***************************************************************************)
EXTENDS BlockingServers, FiniteSetTheorems, SequenceTheorems, TLAPS

-----------------------------------------------------------------------------
(* The inductive invariant.                                                *)

Processes == children \cup zombies

\* A client connects once: it is new, or waits, or has been accepted.
BacklogInv ==
    /\ \A i, j \in 1..Len(backlog) : backlog[i] = backlog[j] => i = j
    /\ \A i \in 1..Len(backlog) : peer[backlog[i]] # "idle"

NewInv == \A c \in Client : peer[c] = "idle" \/ Waits(c) =>
    c \notin Processes \cup descriptors /\ handler[c] = "none"

\* Who serves whom: the first process one client, or each child its own.
ServedInv ==
    /\ children \cap zombies = {}
    /\ \A c \in Client : handler[c] # "none" =>
        \/ program = ForkServer /\ c \in children
        \/ program # ForkServer /\ server = "handle" /\ c = clntSock
    /\ \A c \in Client : handler[c] = "failed" => answered[c] < recvd[c]
    /\ server = "handle" => program # ForkServer
    /\ server \in {"close", "clean"} => program = ForkServer

\* What a descriptor of the first process may be besides the one in hand.
Leaked == {c \in Client : program = EchoServer /\ (peer[c] = "reset" \/ answered[c] < recvd[c])}

DescriptorInv ==
    /\ server \in {"accept", "clean"} => descriptors \subseteq Leaked
    /\ server \in {"handle", "close"} => descriptors \subseteq Leaked \cup {clntSock}
    /\ server = "setup" => descriptors = {}

\* What childProcCount does count: children, and forks that failed, for good.
ForksCounted ==
    program = ForkServer =>
        childProcCount + (IF server = "close" THEN 1 ELSE 0)
            = Cardinality(children) + Cardinality(zombies) + failedForks

CountInv ==
    /\ IsFiniteSet(children) /\ IsFiniteSet(zombies)
    /\ ForksCounted

BlockingInv ==
    /\ BlockingTypeOK
    /\ BacklogInv /\ NewInv /\ ServedInv /\ DescriptorInv /\ CountInv

-----------------------------------------------------------------------------
\* Nobody is connected at the start.
LEMMA BlockingInit == Init => BlockingInv
<1> SUFFICES ASSUME Init PROVE BlockingInv
  OBVIOUS
<1>1. IsFiniteSet({}) /\ Cardinality({}) = 0
  BY FS_EmptySet
<1>2. CountInv
  BY <1>1 DEF Init, CountInv, ForksCounted
<1>3. BlockingTypeOK
  BY BlockingAssumption DEF Init, BlockingTypeOK
<1>4. BacklogInv /\ NewInv /\ ServedInv /\ DescriptorInv
  BY DEF Init, BacklogInv, NewInv, ServedInv, DescriptorInv, Waits, Processes
<1> QED
  BY <1>2, <1>3, <1>4 DEF BlockingInv
-----------------------------------------------------------------------------
(* The clients and the calls that move bytes only.                         *)

\* Receiving and sending leaves who serves whom alone.
LEMMA StreamStep ==
    ASSUME BlockingInv, UNCHANGED <<program, process, kernel, peer>>,
           \A c \in Client : handler'[c] = "none" <=> handler[c] = "none",
           \A c \in Client : handler[c] = "none" => recvd'[c] = recvd[c] /\ answered'[c] = answered[c],
           \A c \in Client : handler'[c] = "failed" => answered'[c] < recvd'[c],
           BlockingTypeOK'
    PROVE  BlockingInv'
<1>1. UNCHANGED <<program, server, backlog, clntSock, childProcCount, failedForks,
                  descriptors, children, zombies, failures, peer>>
  BY DEF process, kernel
<1>2. BacklogInv' /\ DescriptorInv'
  <2>1. Leaked \ {clntSock} \subseteq Leaked'
    BY <1>1 DEF BlockingInv, ServedInv, Leaked, ForkServer, EchoServer
  <2>2. server \in {"accept", "clean"} => Leaked \subseteq Leaked'
    BY <1>1 DEF BlockingInv, ServedInv, Leaked, ForkServer, EchoServer
  <2> QED
    BY <1>1, <2>1, <2>2 DEF BlockingInv, BacklogInv, DescriptorInv
<1>3. NewInv'
  BY <1>1 DEF BlockingInv, NewInv, Waits, Processes
<1>4. ServedInv'
  BY <1>1 DEF BlockingInv, ServedInv
<1>5. CountInv'
  BY <1>1 DEF BlockingInv, CountInv, ForksCounted
<1> QED
  BY <1>2, <1>3, <1>4, <1>5 DEF BlockingInv

\* Handlers stay handlers.
LEMMA HandlerStays ==
    ASSUME BlockingInv, NEW c \in Client, handler[c] # "none", NEW place \in {"recv", "send", "failed"},
           HandlerAt(c, place)
    PROVE  /\ handler' \in [Client -> {"none", "recv", "send", "failed"}]
           /\ \A x \in Client : handler'[x] = "none" <=> handler[x] = "none"
BY DEF HandlerAt, BlockingInv, BlockingTypeOK

\* recv counts up.
LEMMA ReceivesType ==
    ASSUME BlockingInv, NEW c \in Client, NEW n \in 1..sent[c], Receives(c, n)
    PROVE  recvd' \in [Client -> Nat] /\ whole' \in [Client -> BOOLEAN] /\ n \in Nat
<1>1. recvd \in [Client -> Nat] /\ sent \in [Client -> Nat] /\ whole \in [Client -> BOOLEAN]
  BY DEF BlockingInv, BlockingTypeOK
<1>2. n \in Nat
  BY <1>1
<1>3. recvd' \in [Client -> Nat]
  BY <1>1, <1>2 DEF Receives
<1>4. whole' = [whole EXCEPT ![c] = whole[c] /\ OneLine(Piece(c, n))]
  BY DEF Receives
<1>5. (whole[c] /\ OneLine(Piece(c, n))) \in BOOLEAN
  OBVIOUS
<1>6. whole' \in [Client -> BOOLEAN]
  BY <1>1, <1>4, <1>5, Zenon
<1> QED
  BY <1>2, <1>3, <1>6

\* Sending, receiving and answering, by any of the servers and by the clients.
LEMMA StreamActions ==
    ASSUME BlockingInv, NEW c \in Client,
           \/ SendsToken(c) \/ MainReceives(c) \/ MainReplies(c)
           \/ EchoReceives(c) \/ EchoSends(c) \/ EchoSendsShort(c)
    PROVE  BlockingInv'
<1>0. answered \in [Client -> Nat] /\ recvd \in [Client -> Nat] /\ sent \in [Client -> Nat]
  BY DEF BlockingInv, BlockingTypeOK
<1>1. CASE SendsToken(c)
  <2>1. UNCHANGED <<program, process, kernel, handler, peer, stream>>
    BY <1>1 DEF SendsToken
  <2>2. sent' \in [Client -> Nat]
    BY <1>0, <1>1 DEF SendsToken
  <2>3. BlockingTypeOK'
    BY <2>1, <2>2 DEF BlockingInv, BlockingTypeOK, process, kernel, stream
  <2> QED
    BY <2>1, <2>3, StreamStep DEF stream, BlockingInv, ServedInv
<1>2. CASE MainReceives(c)
  <2>1. PICK n \in 1..sent[c] :
          /\ Receives(c, n)
          /\ \/ Command(Piece(c, n)) = <<>> /\ Deals(c, n) /\ UNCHANGED handler
             \/ Command(Piece(c, n)) # <<>> /\ HandlerAt(c, "send") /\ UNCHANGED answered
    BY <1>2 DEF MainReceives
  <2>2. UNCHANGED <<program, process, kernel, peer, sent, replies>>
    BY <1>2 DEF MainReceives, peers
  <2>3. recvd' \in [Client -> Nat] /\ whole' \in [Client -> BOOLEAN] /\ n \in Nat
    BY <2>1, ReceivesType
  <2>4. answered' \in [Client -> Nat]
    BY <1>0, <2>1, <2>3 DEF Deals
  <2>5. /\ handler' \in [Client -> {"none", "recv", "send", "failed"}]
        /\ \A x \in Client : handler'[x] = "none" <=> handler[x] = "none"
    <3>1. handler[c] # "none"
      BY <2>1 DEF Receives
    <3>2. handler' = handler \/ HandlerAt(c, "send")
      BY <2>1
    <3> QED
      BY <3>1, <3>2, HandlerStays DEF BlockingInv, BlockingTypeOK
  <2>6. BlockingTypeOK'
    BY <2>2, <2>3, <2>4, <2>5 DEF BlockingInv, BlockingTypeOK, process, kernel
  <2>7. \A x \in Client : handler[x] = "none" => recvd'[x] = recvd[x] /\ answered'[x] = answered[x]
    BY <1>0, <2>1 DEF Receives, Deals
  <2>8. \A x \in Client : handler'[x] = "failed" => answered'[x] < recvd'[x]
    <3>1. handler'[c] # "failed" /\ \A x \in Client : x # c => handler'[x] = handler[x]
      BY <1>0, <2>1 DEF Receives, HandlerAt, BlockingInv, BlockingTypeOK
    <3>2. \A x \in Client : x # c => recvd'[x] = recvd[x] /\ answered'[x] = answered[x]
      BY <1>0, <2>1 DEF Receives, Deals
    <3> QED
      BY <3>1, <3>2 DEF BlockingInv, ServedInv
  <2> QED
    BY <2>2, <2>5, <2>6, <2>7, <2>8, StreamStep
<1>3. CASE MainReplies(c) \/ EchoSends(c) \/ EchoSendsShort(c)
  <2>1. /\ handler[c] # "none"
        /\ \E place \in {"recv", "send", "failed"} : HandlerAt(c, place)
        /\ \E k \in Nat : Deals(c, k) /\ (HandlerAt(c, "failed") => k < recvd[c])
        /\ UNCHANGED <<recvd, whole, program, process, kernel, peer, sent>>
    <3>1. recvd[c] \in Nat /\ \A k \in answered[c] + 1..recvd[c] - 1 : k \in Nat /\ k < recvd[c]
      BY <1>0
    <3>2. HandlerAt(c, "recv") => ~HandlerAt(c, "failed")
      BY DEF HandlerAt, BlockingInv, BlockingTypeOK
    <3> QED
      BY <1>3, <3>1, <3>2 DEF MainReplies, EchoSends, EchoSendsShort, peers
  <2>2. answered' \in [Client -> Nat]
    BY <1>0, <2>1 DEF Deals
  <2>3. /\ handler' \in [Client -> {"none", "recv", "send", "failed"}]
        /\ \A x \in Client : handler'[x] = "none" <=> handler[x] = "none"
    BY <2>1, HandlerStays
  <2>4. BlockingTypeOK'
    BY <2>1, <2>2, <2>3 DEF BlockingInv, BlockingTypeOK, process, kernel
  <2>5. \A x \in Client : handler[x] = "none" => recvd'[x] = recvd[x] /\ answered'[x] = answered[x]
    BY <1>0, <2>1 DEF Deals
  <2>6. \A x \in Client : handler'[x] = "failed" => answered'[x] < recvd'[x]
    <3>1. PICK place \in {"recv", "send", "failed"} : HandlerAt(c, place)
      BY <2>1
    <3>2. PICK k \in Nat : Deals(c, k) /\ (HandlerAt(c, "failed") => k < recvd[c])
      BY <2>1
    <3>3. handler'[c] = place /\ \A x \in Client : x # c => handler'[x] = handler[x]
      BY <3>1 DEF HandlerAt, BlockingInv, BlockingTypeOK
    <3>4. answered'[c] = k /\ \A x \in Client : x # c => answered'[x] = answered[x]
      BY <1>0, <3>2 DEF Deals
    <3> QED
      BY <2>1, <3>1, <3>2, <3>3, <3>4 DEF BlockingInv, ServedInv
  <2> QED
    BY <2>1, <2>3, <2>4, <2>5, <2>6, StreamStep
<1>4. CASE EchoReceives(c)
  <2>1. PICK n \in 1..sent[c] : Receives(c, n)
    BY <1>4 DEF EchoReceives
  <2>2. /\ handler[c] # "none" /\ HandlerAt(c, "send")
        /\ UNCHANGED <<program, process, kernel, peer, sent, answered>>
    BY <1>4, <2>1 DEF EchoReceives, Receives, peers
  <2>3. recvd' \in [Client -> Nat] /\ whole' \in [Client -> BOOLEAN]
    BY <2>1, ReceivesType
  <2>4. /\ handler' \in [Client -> {"none", "recv", "send", "failed"}]
        /\ \A x \in Client : handler'[x] = "none" <=> handler[x] = "none"
    BY <2>2, HandlerStays
  <2>5. BlockingTypeOK'
    BY <2>2, <2>3, <2>4 DEF BlockingInv, BlockingTypeOK, process, kernel
  <2>6. \A x \in Client : handler[x] = "none" => recvd'[x] = recvd[x] /\ answered'[x] = answered[x]
    BY <1>0, <2>1, <2>2 DEF Receives
  <2>7. \A x \in Client : handler'[x] = "failed" => answered'[x] < recvd'[x]
    <3>1. handler'[c] # "failed" /\ \A x \in Client : x # c => handler'[x] = handler[x]
      BY <2>2 DEF HandlerAt, BlockingInv, BlockingTypeOK
    <3>2. UNCHANGED answered /\ \A x \in Client : x # c => recvd'[x] = recvd[x]
      BY <1>0, <2>1, <2>2 DEF Receives
    <3> QED
      BY <3>1, <3>2 DEF BlockingInv, ServedInv
  <2> QED
    BY <2>2, <2>4, <2>5, <2>6, <2>7, StreamStep
<1> QED
  BY <1>1, <1>2, <1>3, <1>4

\* A client that connects is new to everybody.
LEMMA ConnectStep == ASSUME BlockingInv, NEW c \in Client, Connect(c) PROVE BlockingInv'
<1>1. /\ peer[c] = "idle" /\ server \notin {"setup", "exited", "killed"}
      /\ peer' = [peer EXCEPT ![c] = "open"] /\ backlog' = Append(backlog, c)
      /\ UNCHANGED <<program, server, clntSock, childProcCount, failedForks, handler, sent>>
      /\ UNCHANGED <<descriptors, children, zombies, failures, recvd, answered, whole>>
  BY DEF Connect, kernel, stream
<1>2. backlog \in Seq(Client) /\ peer \in [Client -> {"idle", "open", "left", "reset"}]
  BY DEF BlockingInv, BlockingTypeOK
<1>3. /\ Len(backlog') = Len(backlog) + 1 /\ backlog' \in Seq(Client) /\ Len(backlog) \in Nat
      /\ backlog'[Len(backlog) + 1] = c
      /\ \A i \in 1..Len(backlog) : backlog'[i] = backlog[i]
  BY <1>1, <1>2
<1>4. \A i \in 1..Len(backlog') : i \in 1..Len(backlog) \/ i = Len(backlog) + 1
  BY <1>3
<1>5. \A x \in Client : Waits(x)' => x = c \/ Waits(x)
  BY <1>3, <1>4 DEF Waits
<1>6. \A i \in 1..Len(backlog) : backlog[i] # c
  BY <1>1 DEF BlockingInv, BacklogInv
<1>7. BlockingTypeOK'
  BY <1>1, <1>2, <1>3 DEF BlockingInv, BlockingTypeOK
<1>8. BacklogInv'
  <2>1. \A i, j \in 1..Len(backlog') : backlog'[i] = backlog'[j] => i = j
    <3> SUFFICES ASSUME NEW i \in 1..Len(backlog'), NEW j \in 1..Len(backlog'), backlog'[i] = backlog'[j]
                 PROVE  i = j
      OBVIOUS
    <3>1. CASE i \in 1..Len(backlog) /\ j \in 1..Len(backlog)
      BY <3>1, <1>3 DEF BlockingInv, BacklogInv
    <3> QED
      BY <3>1, <1>3, <1>4, <1>6
  <2>2. \A i \in 1..Len(backlog') : peer'[backlog'[i]] # "idle"
    <3> SUFFICES ASSUME NEW i \in 1..Len(backlog') PROVE peer'[backlog'[i]] # "idle"
      OBVIOUS
    <3>1. CASE i \in 1..Len(backlog)
      <4>1. backlog[i] \in Client /\ peer[backlog[i]] # "idle" /\ backlog[i] # c
        BY <3>1, <1>2, <1>6 DEF BlockingInv, BacklogInv
      <4> QED
        BY <3>1, <4>1, <1>1, <1>2, <1>3
    <3>2. CASE i = Len(backlog) + 1
      BY <3>2, <1>1, <1>2, <1>3
    <3> QED
      BY <3>1, <3>2, <1>4
  <2> QED
    BY <2>1, <2>2 DEF BacklogInv
<1>9. NewInv'
  BY <1>1, <1>2, <1>5 DEF BlockingInv, NewInv, Processes
<1>10. ServedInv'
  BY <1>1 DEF BlockingInv, ServedInv
<1>11. DescriptorInv'
  <2>1. Leaked \subseteq Leaked'
    BY <1>1, <1>2 DEF Leaked
  <2> QED
    BY <1>1, <2>1 DEF BlockingInv, DescriptorInv
<1>12. CountInv'
  BY <1>1 DEF BlockingInv, CountInv, ForksCounted
<1> QED
  BY <1>7, <1>8, <1>9, <1>10, <1>11, <1>12 DEF BlockingInv

\* A reset is for good.
LEMMA LeavesStep ==
    ASSUME BlockingInv, NEW c \in Client, NEW how \in {"left", "reset"}, Leaves(c, how)
    PROVE  BlockingInv'
<1>1. /\ peer[c] # "idle" /\ (peer[c] = "reset" => how = "reset")
      /\ peer' = [peer EXCEPT ![c] = how]
      /\ UNCHANGED <<program, server, backlog, clntSock, childProcCount, failedForks>>
      /\ UNCHANGED <<descriptors, children, zombies, failures>>
      /\ UNCHANGED <<handler, sent, recvd, answered, whole>>
  BY DEF Leaves, process, kernel, stream
<1>2. peer \in [Client -> {"idle", "open", "left", "reset"}] /\ backlog \in Seq(Client)
  BY DEF BlockingInv, BlockingTypeOK
<1>3. BlockingTypeOK'
  BY <1>1, <1>2 DEF BlockingInv, BlockingTypeOK
<1>4. BacklogInv'
  BY <1>1, <1>2 DEF BlockingInv, BacklogInv
<1>5. NewInv'
  BY <1>1, <1>2 DEF BlockingInv, NewInv, Processes, Waits
<1>6. ServedInv'
  BY <1>1 DEF BlockingInv, ServedInv
<1>7. DescriptorInv'
  <2>1. Leaked \subseteq Leaked'
    BY <1>1, <1>2 DEF Leaked
  <2> QED
    BY <1>1, <2>1 DEF BlockingInv, DescriptorInv
<1>8. CountInv'
  BY <1>1 DEF BlockingInv, CountInv, ForksCounted
<1> QED
  BY <1>3, <1>4, <1>5, <1>6, <1>7, <1>8 DEF BlockingInv
-----------------------------------------------------------------------------
(* accept.                                                                 *)

\* What accept takes out of the backlog was with nobody else.
LEMMA Accepted ==
    ASSUME BlockingInv, backlog # <<>>, backlog' = Tail(backlog), UNCHANGED peer
    PROVE  /\ backlog' \in Seq(Client) /\ Head(backlog) \in Client
           /\ Waits(Head(backlog)) /\ peer[Head(backlog)] # "idle"
           /\ BacklogInv'
           /\ \A c \in Client : Waits(c)' => Waits(c) /\ c # Head(backlog)
<1>1. backlog \in Seq(Client) /\ Len(backlog) \in Nat /\ Len(backlog) > 0
  BY DEF BlockingInv, BlockingTypeOK
<1>2. /\ backlog' \in Seq(Client) /\ Len(backlog') = Len(backlog) - 1
      /\ Head(backlog) = backlog[1] /\ 1 \in 1..Len(backlog)
      /\ \A i \in 1..Len(backlog') : i + 1 \in 1..Len(backlog) /\ backlog'[i] = backlog[i + 1]
  BY <1>1
<1>3. \A i \in 1..Len(backlog') : backlog[i + 1] # backlog[1]
  <2> SUFFICES ASSUME NEW i \in 1..Len(backlog'), backlog[i + 1] = backlog[1] PROVE FALSE
    OBVIOUS
  <2>1. i + 1 = 1
    BY <1>2 DEF BlockingInv, BacklogInv
  <2> QED
    BY <2>1, <1>2
<1>4. \A i, j \in 1..Len(backlog') : backlog'[i] = backlog'[j] => i = j
  <2> SUFFICES ASSUME NEW i \in 1..Len(backlog'), NEW j \in 1..Len(backlog'), backlog'[i] = backlog'[j]
               PROVE  i = j
    OBVIOUS
  <2>1. i + 1 = j + 1
    BY <1>2 DEF BlockingInv, BacklogInv
  <2> QED
    BY <2>1
<1>5. BacklogInv'
  BY <1>2, <1>4 DEF BlockingInv, BacklogInv
<1>6. Head(backlog) \in Client /\ peer[Head(backlog)] # "idle" /\ Waits(Head(backlog))
  BY <1>1, <1>2 DEF BlockingInv, BacklogInv, Waits
<1>7. \A c \in Client : Waits(c)' => Waits(c) /\ c # Head(backlog)
  BY <1>2, <1>3 DEF Waits
<1> QED
  BY <1>2, <1>5, <1>6, <1>7

\* The first process serves the client itself (mainServer.c, tcpEchoServer.c).
LEMMA ServesStep == ASSUME BlockingInv, Serves, program # ForkServer PROVE BlockingInv'
<1>1. /\ server = "accept" /\ server' = "handle" /\ backlog # <<>> /\ backlog' = Tail(backlog)
      /\ clntSock' = Head(backlog) /\ descriptors' = descriptors \cup {clntSock'}
      /\ handler' = [handler EXCEPT ![clntSock'] = "recv"]
      /\ UNCHANGED <<program, childProcCount, failedForks, children, zombies, failures>>
      /\ UNCHANGED <<peer, sent, recvd, answered, whole>>
  BY DEF Serves, HandlerAt, peers, stream
<1>2. /\ backlog' \in Seq(Client) /\ clntSock' \in Client /\ peer[clntSock'] # "idle"
      /\ BacklogInv' /\ \A c \in Client : Waits(c)' => Waits(c) /\ c # clntSock'
  BY <1>1, Accepted
<1>3. \A c \in Client : handler[c] = "none"
  BY <1>1 DEF BlockingInv, ServedInv
<1>4. handler' \in [Client -> {"none", "recv", "send", "failed"}] /\ \A c \in Client : c # clntSock' => handler'[c] = "none"
  BY <1>1, <1>2, <1>3 DEF BlockingInv, BlockingTypeOK
<1>5. BlockingTypeOK'
  BY <1>1, <1>2, <1>4 DEF BlockingInv, BlockingTypeOK
<1>6. NewInv'
  BY <1>1, <1>2, <1>4 DEF BlockingInv, NewInv, Processes
<1>7. ServedInv'
  BY <1>1, <1>4 DEF BlockingInv, ServedInv
<1>8. DescriptorInv'
  BY <1>1 DEF BlockingInv, DescriptorInv, Leaked
<1>9. CountInv'
  BY <1>1 DEF BlockingInv, CountInv, ForksCounted
<1> QED
  BY <1>2, <1>5, <1>6, <1>7, <1>8, <1>9 DEF BlockingInv

\* fork adds a child that nobody counted yet, or a failure to count.
LEMMA ForksCount ==
    ASSUME BlockingInv, program = ForkServer, server = "accept", server' = "close",
           NEW c \in Client \cup {NoClient}, c \notin Processes, NEW before \in Nat, Forks(c, before),
           UNCHANGED <<program, childProcCount, zombies>>
    PROVE  /\ CountInv'
           /\ children' \in {children, children \cup {c}} /\ failedForks' \in Nat /\ failures' \in Nat
           /\ handler' \in [Client -> {"none", "recv", "send", "failed"}]
           /\ \A x \in Client : handler'[x] # "none" => handler[x] # "none" \/ (x = c /\ c \in children')
           /\ \A x \in Client : handler'[x] = "failed" => handler[x] = "failed"
<1>1. /\ IsFiniteSet(children) /\ IsFiniteSet(zombies)
      /\ childProcCount = Cardinality(children) + Cardinality(zombies) + failedForks
      /\ childProcCount \in Nat /\ failedForks \in Nat
      /\ handler \in [Client -> {"none", "recv", "send", "failed"}]
  BY DEF BlockingInv, CountInv, ForksCounted, BlockingTypeOK
<1>2. Cardinality(children) \in Nat /\ Cardinality(zombies) \in Nat
  BY <1>1, FS_CardinalityType
<1>3. CASE /\ children' = children \cup {c}
           /\ handler' = [x \in Client |-> IF x = c THEN "recv" ELSE handler[x]]
           /\ failures' = before /\ UNCHANGED failedForks
  <2>1. IsFiniteSet(children') /\ Cardinality(children') = Cardinality(children) + 1
    BY <1>1, <1>3, FS_AddElement DEF Processes
  <2>2. CountInv'
    BY <1>1, <1>2, <1>3, <2>1 DEF CountInv, ForksCounted
  <2> QED
    BY <1>1, <1>3, <2>2
<1>4. CASE /\ before < MaxFailures /\ failures' = before + 1 /\ failedForks' = failedForks + 1
           /\ UNCHANGED <<children, handler>>
  <2>1. CountInv'
    BY <1>1, <1>2, <1>4 DEF CountInv, ForksCounted
  <2> QED
    BY <1>1, <1>4, <2>1
<1> QED
  BY <1>3, <1>4 DEF Forks

\* The child serves the client; its descriptor is the parent's for a moment.
LEMMA ForkAcceptsStep == ASSUME BlockingInv, ForkAccepts PROVE BlockingInv'
<1>1. /\ program = ForkServer /\ server = "accept" /\ server' = "close"
      /\ backlog # <<>> /\ backlog' = Tail(backlog)
      /\ clntSock' = Head(backlog) /\ descriptors' = descriptors \cup {clntSock'}
      /\ Forks(clntSock', failures)
      /\ UNCHANGED <<program, childProcCount, zombies, peer, sent, recvd, answered, whole>>
  BY DEF ForkAccepts, peers, stream
<1>2. /\ backlog' \in Seq(Client) /\ clntSock' \in Client /\ peer[clntSock'] # "idle"
      /\ BacklogInv' /\ \A c \in Client : Waits(c)' => Waits(c) /\ c # clntSock'
      /\ clntSock' \notin Processes
  BY <1>1, Accepted DEF BlockingInv, NewInv
<1>3. failures \in Nat
  BY DEF BlockingInv, BlockingTypeOK
<1>4. /\ CountInv'
      /\ children' \in {children, children \cup {clntSock'}} /\ failedForks' \in Nat /\ failures' \in Nat
      /\ handler' \in [Client -> {"none", "recv", "send", "failed"}]
      /\ \A x \in Client : handler'[x] # "none" => handler[x] # "none" \/ (x = clntSock' /\ clntSock' \in children')
      /\ \A x \in Client : handler'[x] = "failed" => handler[x] = "failed"
  BY <1>1, <1>2, <1>3, ForksCount
<1>5. BlockingTypeOK'
  BY <1>1, <1>2, <1>4 DEF BlockingInv, BlockingTypeOK
<1>6. NewInv'
  BY <1>1, <1>2, <1>4 DEF BlockingInv, NewInv, Processes
<1>7. ServedInv'
  BY <1>1, <1>2, <1>4 DEF BlockingInv, ServedInv, Processes
<1>8. DescriptorInv'
  BY <1>1 DEF BlockingInv, DescriptorInv, Leaked
<1> QED
  BY <1>2, <1>4, <1>5, <1>6, <1>7, <1>8 DEF BlockingInv

\* So does a child that has no connection.
LEMMA ForkAcceptFailsStep == ASSUME BlockingInv, ForkAcceptFails PROVE BlockingInv'
<1>1. /\ program = ForkServer /\ server = "accept" /\ server' = "close"
      /\ NoClient \notin Processes /\ clntSock' = NoClient
      /\ Forks(NoClient, failures + 1)
      /\ UNCHANGED <<program, backlog, descriptors, childProcCount, zombies>>
      /\ UNCHANGED <<peer, sent, recvd, answered, whole>>
  BY DEF ForkAcceptFails, peers, stream, Processes
<1>2. failures + 1 \in Nat
  BY DEF BlockingInv, BlockingTypeOK
<1>3. NoClient \notin Client
  BY BlockingAssumption
<1>4. /\ CountInv'
      /\ children' \in {children, children \cup {NoClient}} /\ failedForks' \in Nat /\ failures' \in Nat
      /\ handler' \in [Client -> {"none", "recv", "send", "failed"}]
      /\ \A x \in Client : handler'[x] # "none" => handler[x] # "none" \/ (x = NoClient /\ NoClient \in children')
      /\ \A x \in Client : handler'[x] = "failed" => handler[x] = "failed"
  BY <1>1, <1>2, ForksCount
<1>5. BlockingTypeOK'
  BY <1>1, <1>4 DEF BlockingInv, BlockingTypeOK
<1>6. NewInv'
  BY <1>1, <1>3, <1>4 DEF BlockingInv, NewInv, Processes, Waits
<1>7. ServedInv'
  BY <1>1, <1>3, <1>4 DEF BlockingInv, ServedInv, Processes
<1>8. DescriptorInv'
  BY <1>1 DEF BlockingInv, DescriptorInv, Leaked
<1>9. BacklogInv'
  BY <1>1 DEF BlockingInv, BacklogInv
<1> QED
  BY <1>4, <1>5, <1>6, <1>7, <1>8, <1>9 DEF BlockingInv
-----------------------------------------------------------------------------
(* The ends of connections and processes.                                  *)

\* A child that ends is still counted.
LEMMA ChildEnds ==
    ASSUME BlockingInv, NEW c \in children,
           children' = children \ {c}, zombies' = zombies \cup {c},
           UNCHANGED <<program, server, childProcCount, failedForks>>
    PROVE  CountInv' /\ Processes' = Processes /\ children' \cap zombies' = {}
<1>1. IsFiniteSet(children) /\ IsFiniteSet(zombies) /\ c \notin zombies
  BY DEF BlockingInv, CountInv, ServedInv
<1>2. Cardinality(children) \in Nat /\ Cardinality(zombies) \in Nat
  BY <1>1, FS_CardinalityType
<1>3. IsFiniteSet(children') /\ Cardinality(children') = Cardinality(children) - 1
  BY <1>1, FS_RemoveElement
<1>4. IsFiniteSet(zombies') /\ Cardinality(zombies') = Cardinality(zombies) + 1
  BY <1>1, FS_AddElement
<1>5. CountInv'
  BY <1>2, <1>3, <1>4 DEF BlockingInv, CountInv, ForksCounted
<1>6. Processes' = Processes /\ children' \cap zombies' = {}
  BY DEF Processes, BlockingInv, ServedInv
<1> QED
  BY <1>5, <1>6

\* A child leaves its handler, in whatever way.
LEMMA ChildReturns ==
    ASSUME BlockingInv, program = ForkServer, NEW c \in Client, handler[c] # "none", HandlerAt(c, "none"),
           children' = children \ {c}, zombies' = zombies \cup {c},
           UNCHANGED <<program, server, backlog, clntSock, childProcCount, failedForks, descriptors, failures>>,
           UNCHANGED <<peer, sent, recvd, answered, whole>>
    PROVE  BlockingInv'
<1>1. c \in children
  BY DEF BlockingInv, ServedInv
<1>2. CountInv' /\ Processes' = Processes /\ children' \cap zombies' = {}
  BY <1>1, ChildEnds
<1>3. handler' \in [Client -> {"none", "recv", "send", "failed"}] /\ handler'[c] = "none"
      /\ \A x \in Client : x # c => handler'[x] = handler[x]
  BY DEF HandlerAt, BlockingInv, BlockingTypeOK
<1>4. BlockingTypeOK'
  BY <1>1, <1>3 DEF BlockingInv, BlockingTypeOK
<1>5. NewInv'
  BY <1>2, <1>3 DEF BlockingInv, NewInv, Waits
<1>6. ServedInv'
  BY <1>2, <1>3 DEF BlockingInv, ServedInv
<1>7. BacklogInv' /\ DescriptorInv'
  BY DEF BlockingInv, BacklogInv, DescriptorInv, Leaked
<1> QED
  BY <1>2, <1>4, <1>5, <1>6, <1>7 DEF BlockingInv

\* The first process leaves its handler for accept, or is killed.
LEMMA ServingEnds ==
    ASSUME BlockingInv, program # ForkServer, NEW c \in Client, handler[c] # "none", HandlerAt(c, "none"),
           \/ server' = "accept" /\ descriptors' = descriptors \ {c}
           \/ server' = "accept" /\ descriptors' = descriptors /\ c \in Leaked
           \/ server' = "killed" /\ descriptors' = {},
           UNCHANGED <<program, backlog, clntSock, childProcCount, failedForks, children, zombies, failures>>,
           UNCHANGED <<peer, sent, recvd, answered, whole>>
    PROVE  BlockingInv'
<1>1. server = "handle" /\ c = clntSock /\ \A x \in Client : x # c => handler[x] = "none"
  BY DEF BlockingInv, ServedInv
<1>2. handler' \in [Client -> {"none", "recv", "send", "failed"}] /\ \A x \in Client : handler'[x] = "none"
  BY <1>1 DEF HandlerAt, BlockingInv, BlockingTypeOK
<1>3. BlockingTypeOK'
  BY <1>2 DEF BlockingInv, BlockingTypeOK
<1>4. NewInv'
  BY <1>2 DEF BlockingInv, NewInv, Waits, Processes
<1>5. ServedInv'
  BY <1>2 DEF BlockingInv, ServedInv
<1>6. DescriptorInv'
  BY <1>1 DEF BlockingInv, DescriptorInv, Leaked
<1>7. BacklogInv' /\ CountInv'
  BY DEF BlockingInv, BacklogInv, CountInv, ForksCounted
<1> QED
  BY <1>3, <1>4, <1>5, <1>6, <1>7 DEF BlockingInv

\* The ends of the handlers of the three servers.
LEMMA HandlerEnds ==
    ASSUME BlockingInv, NEW c \in Client,
           MainEnds(c) \/ EchoEnds(c) \/ EchoFails(c) \/ Killed(c)
    PROVE  BlockingInv'
<1>0. ForkServer # EchoServer /\ ForkServer # MainServer /\ EchoServer # MainServer
  BY DEF ForkServer, EchoServer, MainServer
<1>1. /\ handler[c] # "none" /\ HandlerAt(c, "none")
      /\ UNCHANGED <<program, backlog, clntSock, childProcCount, failedForks, failures>>
      /\ UNCHANGED <<peer, sent, recvd, answered, whole>>
  BY DEF MainEnds, EchoEnds, EchoFails, EchoReturns, Killed, ReceivesEnd, ReceiveFails, peers, stream
<1>2. CASE program = ForkServer
  <2>1. children' = children \ {c} /\ zombies' = zombies \cup {c} /\ UNCHANGED <<server, descriptors>>
    BY <1>0, <1>2 DEF MainEnds, EchoEnds, EchoFails, EchoReturns, Killed
  <2> QED
    BY <1>1, <1>2, <2>1, ChildReturns
<1>3. CASE program # ForkServer
  <2>1. UNCHANGED <<children, zombies>>
    BY <1>3 DEF MainEnds, EchoEnds, EchoFails, EchoReturns, Killed
  <2>2. \/ server' = "accept" /\ descriptors' = descriptors \ {c}
        \/ server' = "accept" /\ descriptors' = descriptors /\ c \in Leaked
        \/ server' = "killed" /\ descriptors' = {}
    BY <1>3 DEF MainEnds, EchoEnds, EchoFails, EchoReturns, Killed, ReceiveFails, Leaked, BlockingInv, ServedInv
  <2> QED
    BY <1>1, <1>3, <2>1, <2>2, ServingEnds
<1> QED
  BY <1>2, <1>3

\* A child without a connection has no handler.
LEMMA ChildOfNobodyStep == ASSUME BlockingInv, ChildOfNobodyEnds PROVE BlockingInv'
<1>1. /\ NoClient \in children /\ children' = children \ {NoClient} /\ zombies' = zombies \cup {NoClient}
      /\ UNCHANGED <<program, server, backlog, clntSock, childProcCount, failedForks, descriptors, failures>>
      /\ UNCHANGED <<handler, peer, sent, recvd, answered, whole>>
  BY DEF ChildOfNobodyEnds, process, peers, stream
<1>2. CountInv' /\ Processes' = Processes /\ children' \cap zombies' = {}
  BY <1>1, ChildEnds
<1>3. NoClient \notin Client
  BY BlockingAssumption
<1>4. BlockingTypeOK'
  BY <1>1 DEF BlockingInv, BlockingTypeOK
<1>5. NewInv'
  BY <1>1, <1>2 DEF BlockingInv, NewInv, Waits
<1>6. ServedInv'
  BY <1>1, <1>2, <1>3 DEF BlockingInv, ServedInv
<1>7. BacklogInv' /\ DescriptorInv'
  BY <1>1 DEF BlockingInv, BacklogInv, DescriptorInv, Leaked
<1> QED
  BY <1>2, <1>4, <1>5, <1>6, <1>7 DEF BlockingInv

-----------------------------------------------------------------------------
(* The rest of the first process.                                          *)

\* Nobody is served while a server sets itself up or gives up.
LEMMA FirstProcessMoves ==
    ASSUME BlockingInv,
           \/ server = "setup" /\ server' \in {"accept", "exited"}
           \/ server = "accept" /\ server' \in {"accept", "exited"},
           failures' \in Nat,
           UNCHANGED <<program, backlog, clntSock, childProcCount, failedForks, descriptors, children, zombies>>,
           UNCHANGED <<handler, peer, sent, recvd, answered, whole>>
    PROVE  BlockingInv'
<1>1. BlockingTypeOK'
  BY DEF BlockingInv, BlockingTypeOK
<1>2. NewInv' /\ BacklogInv'
  BY DEF BlockingInv, NewInv, Waits, Processes, BacklogInv
<1>3. ServedInv'
  BY DEF BlockingInv, ServedInv
<1>4. DescriptorInv' /\ CountInv'
  BY DEF BlockingInv, DescriptorInv, Leaked, CountInv, ForksCounted
<1> QED
  BY <1>1, <1>2, <1>3, <1>4 DEF BlockingInv

\* The parent closes what it handed over, and counts (TCPEchoServer-Fork.c:41-42).
LEMMA ForkClosesStep == ASSUME BlockingInv, ForkCloses PROVE BlockingInv'
<1>1. /\ server = "close" /\ server' = "clean" /\ descriptors' = descriptors \ {clntSock}
      /\ childProcCount' = childProcCount + 1
      /\ UNCHANGED <<program, backlog, clntSock, failedForks, children, zombies, failures>>
      /\ UNCHANGED <<handler, peer, sent, recvd, answered, whole>>
  BY DEF ForkCloses, peers, stream
<1>2. program = ForkServer /\ childProcCount \in Nat
  BY <1>1 DEF BlockingInv, ServedInv, BlockingTypeOK
<1>3. BlockingTypeOK'
  BY <1>1, <1>2 DEF BlockingInv, BlockingTypeOK
<1>4. NewInv' /\ BacklogInv'
  BY <1>1 DEF BlockingInv, NewInv, Waits, Processes, BacklogInv
<1>5. ServedInv'
  BY <1>1, <1>2 DEF BlockingInv, ServedInv
<1>6. DescriptorInv'
  BY <1>1 DEF BlockingInv, DescriptorInv, Leaked
<1>7. CountInv'
  <2>1. IsFiniteSet(children) /\ IsFiniteSet(zombies)
        /\ childProcCount + 1 = Cardinality(children) + Cardinality(zombies) + failedForks
    BY <1>1, <1>2 DEF BlockingInv, CountInv, ForksCounted
  <2>2. childProcCount' + 0 = childProcCount + 1
    BY <1>1, <1>2
  <2> QED
    BY <1>1, <2>1, <2>2 DEF CountInv, ForksCounted
<1> QED
  BY <1>3, <1>4, <1>5, <1>6, <1>7 DEF BlockingInv

\* The loop around waitpid takes off what it collects (TCPEchoServer-Fork.c:44-52).
LEMMA ForkCleansStep == ASSUME BlockingInv, ForkCleans PROVE BlockingInv'
<1>1. /\ server = "clean" /\ (ForkReaps \/ ForkReapsNone \/ WaitpidFails)
      /\ UNCHANGED <<program, backlog, clntSock, failedForks, descriptors, children, failures>>
      /\ UNCHANGED <<handler, peer, sent, recvd, answered, whole>>
  BY DEF ForkCleans, peers, stream
<1>2. /\ program = ForkServer /\ childProcCount \in Nat
      /\ \A c \in Client : handler[c] # "none" => c \in children
  BY <1>1 DEF BlockingInv, ServedInv, BlockingTypeOK
<1>3. server' \in {"clean", "accept"} /\ zombies' \subseteq zombies
  BY <1>1 DEF ForkReaps, ForkReapsNone, WaitpidFails
<1>4. CountInv' /\ childProcCount' \in Nat
  <2>1. /\ IsFiniteSet(children) /\ IsFiniteSet(zombies)
        /\ Cardinality(children) \in Nat /\ Cardinality(zombies) \in Nat /\ failedForks \in Nat
        /\ childProcCount = Cardinality(children) + Cardinality(zombies) + failedForks
    BY <1>1, <1>2, FS_CardinalityType DEF BlockingInv, CountInv, ForksCounted, BlockingTypeOK
  <2>2. CASE ForkReaps
    <3>1. PICK z \in zombies : zombies' = zombies \ {z}
      BY <2>2 DEF ForkReaps
    <3>2. childProcCount # 0 /\ childProcCount' = childProcCount - 1 /\ server' = server
      BY <2>2 DEF ForkReaps
    <3>3. IsFiniteSet(zombies') /\ Cardinality(zombies') = Cardinality(zombies) - 1
      BY <2>1, <3>1, FS_RemoveElement
    <3> QED
      BY <1>1, <1>2, <2>1, <3>2, <3>3 DEF CountInv, ForksCounted
  <2>3. CASE ForkReapsNone \/ WaitpidFails
    <3>1. UNCHANGED <<zombies, childProcCount>>
      BY <2>3 DEF ForkReapsNone, WaitpidFails
    <3> QED
      BY <1>1, <1>2, <1>3, <2>1, <3>1 DEF CountInv, ForksCounted
  <2> QED
    BY <1>1, <2>2, <2>3
<1>5. BlockingTypeOK'
  BY <1>1, <1>3, <1>4 DEF BlockingInv, BlockingTypeOK
<1>6. NewInv' /\ BacklogInv'
  BY <1>1, <1>3 DEF BlockingInv, NewInv, Waits, Processes, BacklogInv
<1>7. ServedInv'
  BY <1>1, <1>2, <1>3 DEF BlockingInv, ServedInv
<1>8. DescriptorInv'
  BY <1>1, <1>3 DEF BlockingInv, DescriptorInv, Leaked
<1> QED
  BY <1>4, <1>5, <1>6, <1>7, <1>8 DEF BlockingInv

\* Every step keeps the invariant.
LEMMA BlockingStep == BlockingInv /\ [Next]_vars => BlockingInv'
<1> SUFFICES ASSUME BlockingInv, [Next]_vars PROVE BlockingInv'
  OBVIOUS
<1>0. failures \in Nat /\ ForkServer # EchoServer /\ ForkServer # MainServer
  BY DEF BlockingInv, BlockingTypeOK, ForkServer, EchoServer, MainServer
<1>1. CASE MainSetup \/ setupTCPServerSocket
  <2>1. /\ server = "setup" /\ server' \in {"accept", "exited"}
        /\ UNCHANGED <<program, backlog, clntSock, childProcCount, failedForks, descriptors, children, zombies>>
        /\ UNCHANGED <<failures, handler, peer, sent, recvd, answered, whole>>
    BY <1>1 DEF MainSetup, setupTCPServerSocket, kernel, peers, stream
  <2> QED
    BY <1>0, <2>1, FirstProcessMoves
<1>2. CASE MainAcceptFails \/ EchoAcceptFails
  <2>1. /\ server = "accept" /\ server' \in {"accept", "exited"} /\ failures' = failures + 1
        /\ UNCHANGED <<program, backlog, clntSock, childProcCount, failedForks, descriptors, children, zombies>>
        /\ UNCHANGED <<handler, peer, sent, recvd, answered, whole>>
    BY <1>2 DEF MainAcceptFails, EchoAcceptFails, Fails, process, peers, stream
  <2> QED
    BY <1>0, <2>1, FirstProcessMoves
<1>3. CASE MainAccepts \/ EchoAccepts
  BY <1>0, <1>3, ServesStep DEF MainAccepts, EchoAccepts
<1>4. CASE ForkAccepts
  BY <1>4, ForkAcceptsStep
<1>5. CASE ForkAcceptFails
  BY <1>5, ForkAcceptFailsStep
<1>6. CASE ForkCloses
  BY <1>6, ForkClosesStep
<1>7. CASE ForkCleans
  BY <1>7, ForkCleansStep
<1>8. CASE ChildOfNobodyEnds
  BY <1>8, ChildOfNobodyStep
<1>9. ASSUME NEW c \in Client, Handler(c)
      PROVE  BlockingInv'
  BY <1>9, StreamActions, HandlerEnds DEF Handler
<1>10. ASSUME NEW c \in Client, ClientSteps(c)
       PROVE  BlockingInv'
  BY <1>10, StreamActions, ConnectStep, LeavesStep DEF ClientSteps
<1>11. CASE UNCHANGED vars
  <2>1. UNCHANGED <<program, process, kernel, handler, peer, sent, recvd, answered, whole>>
    BY <1>11 DEF vars, peers, stream
  <2>2. BlockingTypeOK'
    BY <2>1 DEF BlockingInv, BlockingTypeOK, process, kernel
  <2> QED
    BY <2>1, <2>2, StreamStep DEF BlockingInv, ServedInv
<1> QED
  BY <1>1, <1>2, <1>3, <1>4, <1>5, <1>6, <1>7, <1>8, <1>9, <1>10, <1>11 DEF Next, FirstProcess

-----------------------------------------------------------------------------
(* Theorems.                                                               *)

\* The invariant holds in every state.
THEOREM BlockingInvariance == Spec => []BlockingInv
BY BlockingInit, BlockingStep, PTL DEF Spec

\* BlockingTypeOK for any clients and scripts; in particular the unsigned
\* childProcCount is never decremented at zero (TCPEchoServer-Fork.c:46-51).
THEOREM BlockingTypeCorrect == Spec => []BlockingTypeOK
<1>1. BlockingInv => BlockingTypeOK
  BY DEF BlockingInv
<1> QED
  BY <1>1, BlockingInvariance, PTL

\* ChildrenCounted as long as no fork has failed, for any number of clients:
\* childProcCount is the number of children not waited for
\* (TCPEchoServer-Fork.c:42, 51).
THEOREM ChildrenAreCounted == Spec => [](failedForks = 0 => ChildrenCounted)
<1>1. ASSUME BlockingInv, failedForks = 0 PROVE ChildrenCounted
  <2>1. Cardinality(children) \in Nat /\ Cardinality(zombies) \in Nat
    BY <1>1, FS_CardinalityType DEF BlockingInv, CountInv
  <2> QED
    BY <1>1, <2>1 DEF BlockingInv, CountInv, ForksCounted, ChildrenCounted
<1>2. BlockingInv => (failedForks = 0 => ChildrenCounted)
  BY <1>1
<1> QED
  BY <1>2, BlockingInvariance, PTL

\* DescriptorsReleased for any number of clients: only tcpEchoServer.c keeps a
\* descriptor, and only one of a connection that was reset, or of which a piece was
\* not sent whole (tcpServerUtil.c:94-114).
THEOREM DescriptorsAreReleased == Spec => []DescriptorsReleased
<1>1. BlockingInv => DescriptorsReleased
  BY DEF BlockingInv, DescriptorInv, DescriptorsReleased, Leaked
<1> QED
  BY <1>1, BlockingInvariance, PTL

-----------------------------------------------------------------------------
(* Lines, and the pieces that recv cuts a stream into.                     *)

\* The least and the largest element of a set of numbers.
LEMMA MinIs ==
    ASSUME NEW S \in SUBSET Int, NEW x \in S, \A y \in S : x <= y
    PROVE  Min(S) = x
<1>1. \A z \in S : (\A y \in S : z <= y) => z = x
  OBVIOUS
<1> QED
  BY <1>1 DEF Min

LEMMA MaxIs ==
    ASSUME NEW S \in SUBSET Int, NEW x \in S, \A y \in S : x >= y
    PROVE  Max(S) = x
<1>1. \A z \in S : (\A y \in S : z >= y) => z = x
  OBVIOUS
<1> QED
  BY <1>1 DEF Max

\* A border between lines.
Border(tokens, m) == m = 0 \/ tokens[m] = "EOL"

\* The tokens from m + 1 to n are one line.
LineFrom(tokens, m, n) ==
    /\ tokens[n] = "EOL"
    /\ \A h \in m + 1..n - 1 : tokens[h] # "EOL"

\* What OneLine says of a piece of the stream.
LEMMA PieceIsLine ==
    ASSUME NEW tokens \in Seq(Token), NEW m \in Nat, NEW n \in m + 1..Len(tokens)
    PROVE  LET piece == SubSeq(tokens, m + 1, n) IN
           /\ piece \in Seq(Token) /\ Len(piece) = n - m
           /\ \A i \in 1..n - m : piece[i] = tokens[m + i]
           /\ OneLine(piece) => LineFrom(tokens, m, n)
<1> DEFINE piece == SubSeq(tokens, m + 1, n)
<1>1. Len(tokens) \in Nat /\ n \in Int
  OBVIOUS
<1>2. \A i \in m + 1..n : tokens[i] \in Token
  BY <1>1
<1>3. /\ piece \in Seq(Token) /\ Len(piece) = IF m + 1 <= n THEN n - (m + 1) + 1 ELSE 0
      /\ \A i \in 1..n - (m + 1) + 1 : piece[i] = tokens[(m + 1) + i - 1]
  BY <1>1, <1>2, SubSeqProperties
<1>4. Len(piece) = n - m /\ \A i \in 1..n - m : piece[i] = tokens[m + i]
  BY <1>1, <1>3
<1>5. ASSUME OneLine(piece) PROVE LineFrom(tokens, m, n)
  <2>1. piece[n - m] = "EOL" /\ \A i \in 1..n - m - 1 : piece[i] # "EOL"
    BY <1>4, <1>5 DEF OneLine
  <2>2. tokens[n] = "EOL"
    <3>1. n - m \in 1..n - m /\ m + (n - m) = n
      BY <1>1
    <3> QED
      BY <1>4, <2>1, <3>1
  <2>3. ASSUME NEW h \in m + 1..n - 1 PROVE tokens[h] # "EOL"
    <3>1. h - m \in 1..n - m - 1 /\ h - m \in 1..n - m /\ m + (h - m) = h
      BY <1>1
    <3> QED
      BY <1>4, <2>1, <3>1
  <2> QED
    BY <2>2, <2>3 DEF LineFrom
<1> QED
  BY <1>3, <1>4, <1>5

\* mainServer.c takes off a piece that is one line its line end and no more.
LEMMA CommandOfLine ==
    ASSUME NEW tokens \in Seq(Token), NEW m \in Nat, NEW n \in m + 1..Len(tokens),
           LineFrom(tokens, m, n)
    PROVE  LET piece == SubSeq(tokens, m + 1, n) IN
           /\ Command(piece) = <<>> <=> n = m + 1
           /\ n # m + 1 => Command(piece) = SubSeq(tokens, m + 1, n - 1)
<1> DEFINE piece == SubSeq(tokens, m + 1, n)
           kept == {i \in 1..Len(piece) : piece[i] # "EOL"}
<1>0. Len(tokens) \in Nat /\ n \in Int /\ n <= Len(tokens) /\ m + 1 <= n
  OBVIOUS
<1>1. piece \in Seq(Token) /\ Len(piece) = n - m /\ \A i \in 1..n - m : piece[i] = tokens[m + i]
  BY PieceIsLine
<1> HIDE DEF piece
<1>2. \A i \in 1..n - m : piece[i] # "EOL" <=> i # n - m
  <2> SUFFICES ASSUME NEW i \in 1..n - m PROVE piece[i] # "EOL" <=> i # n - m
    OBVIOUS
  <2>1. CASE i = n - m
    <3>1. m + i = n
      BY <1>0, <2>1
    <3> QED
      BY <1>1, <2>1, <3>1 DEF LineFrom
  <2>2. CASE i # n - m
    <3>1. m + i \in m + 1..n - 1
      BY <1>0, <2>2
    <3> QED
      BY <1>1, <2>2, <3>1 DEF LineFrom
  <2> QED
    BY <2>1, <2>2
<1>3. kept = 1..n - m - 1
  <2>1. \A i : i \in 1..Len(piece) <=> i \in 1..n - m
    BY <1>1
  <2>2. \A i : i \in 1..n - m /\ i # n - m <=> i \in 1..n - m - 1
    BY <1>0
  <2>3. \A i : i \in kept <=> i \in 1..n - m /\ i # n - m
    BY <1>2, <2>1
  <2> QED
    BY <2>2, <2>3
<1> HIDE DEF kept
<1>4. CASE n = m + 1
  <2>1. kept = {}
    BY <1>0, <1>3, <1>4
  <2>2. Command(piece) = <<>>
    BY <2>1 DEF Command, kept
  <2> QED
    BY <1>4, <2>2 DEF piece
<1>5. CASE n # m + 1
  <2>1. 1 \in kept /\ n - m - 1 \in kept
    BY <1>0, <1>3, <1>5
  <2>2. kept \in SUBSET Int /\ Min(kept) = 1 /\ Max(kept) = n - m - 1
    <3>1. kept \in SUBSET Int /\ \A y \in kept : 1 <= y /\ n - m - 1 >= y
      BY <1>0, <1>3
    <3> QED
      BY <2>1, <3>1, MinIs, MaxIs
  <2>3. Command(piece) = SubSeq(piece, 1, n - m - 1)
    BY <2>1, <2>2 DEF Command, kept
  <2>4. SubSeq(piece, 1, n - m - 1) = SubSeq(tokens, m + 1, n - 1)
    <3>1. m + 1 \in 1..Len(tokens) /\ n \in 1..Len(tokens)
          /\ 1 \in 1..n - (m + 1) + 1 /\ n - m - 1 \in 1..n - (m + 1) + 1
      BY <1>0, <1>5
    <3>2. SubSeq(piece, 1, n - m - 1) = SubSeq(tokens, (m + 1) + 1 - 1, (m + 1) + (n - m - 1) - 1)
      BY <3>1, SubSeqOfSubSeq DEF piece
    <3>3. (m + 1) + 1 - 1 = m + 1 /\ (m + 1) + (n - m - 1) - 1 = n - 1
      BY <1>0
    <3> QED
      BY <3>2, <3>3
  <2>5. Len(SubSeq(piece, 1, n - m - 1)) # 0
    <3>1. \A i \in 1..n - m - 1 : piece[i] \in Token
      BY <1>0, <1>1
    <3>2. Len(SubSeq(piece, 1, n - m - 1)) = IF 1 <= n - m - 1 THEN (n - m - 1) - 1 + 1 ELSE 0
      BY <1>0, <3>1, SubSeqProperties
    <3> QED
      BY <1>0, <1>5, <3>2
  <2>6. Command(piece) # <<>>
    <3>1. Len(<<>>) = 0
      OBVIOUS
    <3> QED
      BY <2>3, <2>5, <3>1, Zenon
  <2> QED
    BY <1>5, <2>3, <2>4, <2>6 DEF piece
<1> QED
  BY <1>4, <1>5 DEF piece

\* The line that a piece from border to border holds.
LEMMA LineOfPiece ==
    ASSUME NEW tokens \in Seq(Token), NEW m \in Nat, NEW n \in m + 2..Len(tokens),
           Border(tokens, m), LineFrom(tokens, m, n)
    PROVE  Line(tokens, n) = SubSeq(tokens, m + 1, n - 1)
<1> DEFINE starts == {j \in 1..n : \A h \in j..n - 1 : tokens[h] # "EOL"}
<1>0. n \in Int /\ m + 2 <= n
  OBVIOUS
<1>1. m + 1 \in starts
  <2>1. m + 1 \in 1..n
    BY <1>0
  <2> QED
    BY <2>1 DEF LineFrom
<1>2. ASSUME NEW j \in starts PROVE m + 1 <= j
  <2>1. CASE m = 0
    BY <2>1
  <2>2. CASE m # 0 /\ j <= m
    <3>1. m \in j..n - 1 /\ tokens[m] = "EOL"
      BY <1>0, <2>2 DEF Border
    <3> QED
      BY <3>1
  <2> QED
    BY <2>1, <2>2
<1>3. starts \in SUBSET Int
  BY <1>0
<1>4. Min(starts) = m + 1
  BY <1>1, <1>2, <1>3, MinIs
<1> QED
  BY <1>4 DEF Line

\* The ends of lines are finitely many, and one token more is at most one end more.
LEMMA LineEndsGrow ==
    ASSUME NEW tokens \in Seq(Token), NEW n \in Nat
    PROVE  /\ IsFiniteSet(LineEnds(tokens, n)) /\ Cardinality(LineEnds(tokens, n)) \in Nat
           /\ LineEnds(tokens, n) \subseteq 2..n
<1>1. LineEnds(tokens, n) \subseteq 2..n
  BY DEF LineEnds
<1>2. IsFiniteSet(2..n)
  BY FS_Interval
<1> QED
  BY <1>1, <1>2, FS_Subset, FS_CardinalityType

\* Between two borders there is no end but the second, and that one if anything
\* is before it.
LEMMA LineEndsOfPiece ==
    ASSUME NEW tokens \in Seq(Token), NEW m \in Nat, NEW n \in m + 1..Len(tokens),
           Border(tokens, m), LineFrom(tokens, m, n)
    PROVE  /\ n = m + 1 => LineEnds(tokens, n) = LineEnds(tokens, m)
           /\ n # m + 1 => LineEnds(tokens, n) = LineEnds(tokens, m) \cup {n}
<1>0. n \in Int /\ m + 1 <= n
  OBVIOUS
<1>1. ASSUME NEW k \in LineEnds(tokens, m) PROVE k \in LineEnds(tokens, n)
  <2>1. k \in 2..m /\ k \in 2..n /\ tokens[k] = "EOL" /\ tokens[k - 1] # "EOL"
    BY <1>0 DEF LineEnds
  <2> QED
    BY <2>1 DEF LineEnds
<1>2. ASSUME NEW k \in LineEnds(tokens, n), k # n PROVE k \in LineEnds(tokens, m)
  <2>1. k \in 2..n /\ tokens[k] = "EOL" /\ tokens[k - 1] # "EOL"
    BY DEF LineEnds
  <2>2. ~(k \in m + 1..n - 1)
    BY <2>1 DEF LineFrom
  <2>3. k \in 2..m
    BY <1>0, <1>2, <2>1, <2>2
  <2> QED
    BY <2>1, <2>3 DEF LineEnds
<1>3. CASE n = m + 1
  <2>1. n \notin LineEnds(tokens, n)
    <3>1. CASE m = 0
      BY <1>3, <3>1 DEF LineEnds
    <3>2. CASE m # 0
      <4>1. tokens[n - 1] = "EOL"
        BY <1>3, <3>2 DEF Border
      <4> QED
        BY <4>1 DEF LineEnds
    <3> QED
      BY <3>1, <3>2
  <2> QED
    BY <1>1, <1>2, <1>3, <2>1
<1>4. CASE n # m + 1
  <2>1. n \in LineEnds(tokens, n)
    <3>1. n \in 2..n /\ n - 1 \in m + 1..n - 1
      BY <1>0, <1>4
    <3> QED
      BY <3>1 DEF LineEnds, LineFrom
  <2> QED
    BY <1>1, <1>2, <1>4, <2>1
<1> QED
  BY <1>3, <1>4

\* One more line, answered at the end of the replies.
LEMMA OneMoreAnswer ==
    ASSUME NEW tokens \in Seq(Token), NEW m \in Nat, NEW n \in m + 1..Len(tokens),
           Border(tokens, m), LineFrom(tokens, m, n), n # m + 1,
           NEW out \in Seq(Token \cup Reply), LinesAnswered(out, tokens, m),
           Answer(Line(tokens, n)) \in Token \cup Reply
    PROVE  LinesAnswered(Append(out, Answer(Line(tokens, n))), tokens, n)
<1> DEFINE answer == Answer(Line(tokens, n))
           more == Append(out, answer)
<1>0. n \in Nat /\ m + 1 <= n
  OBVIOUS
<1>1. /\ Len(out) \in Nat /\ Len(more) = Len(out) + 1 /\ more[Len(out) + 1] = answer
      /\ \A i \in 1..Len(out) : more[i] = out[i]
  BY AppendProperties
<1>2. LineEnds(tokens, n) = LineEnds(tokens, m) \cup {n}
  BY LineEndsOfPiece
<1>3. n \notin LineEnds(tokens, m)
  BY <1>0 DEF LineEnds
<1>4. IsFiniteSet(LineEnds(tokens, m)) /\ Cardinality(LineEnds(tokens, m)) = Len(out)
  BY LineEndsGrow DEF LinesAnswered
<1>5. Cardinality(LineEnds(tokens, n)) = Len(out) + 1
  BY <1>2, <1>3, <1>4, FS_AddElement
<1> HIDE DEF answer, more
<1>6. Len(more) = Cardinality(LineEnds(tokens, n))
  BY <1>1, <1>5
<1>7. ASSUME NEW k \in LineEnds(tokens, n)
      PROVE  more[Cardinality(LineEnds(tokens, k))] = Answer(Line(tokens, k))
  <2>1. CASE k = n
    BY <1>1, <1>5, <2>1 DEF answer
  <2>2. CASE k # n
    <3>1. k \in LineEnds(tokens, m)
      BY <1>2, <2>2
    <3>2. k \in Nat /\ k \in 2..m
      BY <3>1 DEF LineEnds
    <3>3. out[Cardinality(LineEnds(tokens, k))] = Answer(Line(tokens, k))
      BY <3>1 DEF LinesAnswered
    <3>4. Cardinality(LineEnds(tokens, k)) \in 1..Len(out)
      <4>1. LineEnds(tokens, k) \in SUBSET LineEnds(tokens, m)
        BY <3>2 DEF LineEnds
      <4>2. Cardinality(LineEnds(tokens, k)) <= Len(out)
        BY <1>4, <4>1, FS_Subset
      <4>3. k \in LineEnds(tokens, k)
        BY <3>1, <3>2 DEF LineEnds
      <4>4. IsFiniteSet(LineEnds(tokens, k)) /\ Cardinality(LineEnds(tokens, k)) \in Nat
        BY <3>2, LineEndsGrow
      <4>5. Cardinality(LineEnds(tokens, k)) # 0
        BY <4>3, <4>4, FS_EmptySet
      <4> QED
        BY <1>1, <4>2, <4>4, <4>5
    <3> QED
      BY <1>1, <3>3, <3>4
  <2> QED
    BY <2>1, <2>2
<1> QED
  BY <1>6, <1>7 DEF LinesAnswered, more, answer

-----------------------------------------------------------------------------
(* What has been dealt with has been replied to.                           *)

\* The stream of a client and the replies to it.
StreamInv(c) ==
    /\ answered[c] <= recvd[c] /\ recvd[c] <= sent[c] /\ sent[c] <= Len(Script[c])
    /\ peer[c] = "idle" \/ Waits(c) \/ handler[c] = "recv" => recvd[c] = answered[c]
    /\ program # MainServer => replies[c] = SubSeq(Script[c], 1, answered[c])
    /\ program = MainServer /\ whole[c] =>
          /\ Border(Script[c], answered[c])
          /\ handler[c] = "send" =>
                /\ recvd[c] > answered[c] + 1
                /\ LineFrom(Script[c], answered[c], recvd[c])
          /\ peer[c] # "reset" => LinesAnswered(replies[c], Script[c], answered[c])

RepliesInv ==
    /\ replies \in [Client -> Seq(Token \cup Reply)]
    /\ \A c \in Client : StreamInv(c)

\* Nothing has been sent at the start.
LEMMA RepliesInit == Init => RepliesInv
<1> SUFFICES ASSUME Init PROVE RepliesInv
  OBVIOUS
<1>1. replies = [c \in Client |-> <<>>]
  BY DEF Init
<1>2. replies \in [Client -> Seq(Token \cup Reply)]
  BY <1>1
<1>3. ASSUME NEW c \in Client PROVE StreamInv(c)
  <2>1. Script[c] \in Seq(Token) /\ Len(Script[c]) \in Nat
    BY BlockingAssumption
  <2>2. /\ recvd[c] = 0 /\ answered[c] = 0 /\ sent[c] = 0 /\ replies[c] = <<>> /\ Len(replies[c]) = 0
        /\ handler[c] = "none"
    BY DEF Init
  <2>3. SubSeq(Script[c], 1, 0) = <<>>
    BY SubSeqEmpty
  <2>4. LineEnds(Script[c], 0) = {}
    BY DEF LineEnds
  <2>5. LinesAnswered(replies[c], Script[c], 0)
    BY <2>2, <2>4, FS_EmptySet DEF LinesAnswered
  <2> QED
    BY <2>1, <2>2, <2>3, <2>5 DEF StreamInv, Border
<1> QED
  BY <1>2, <1>3 DEF RepliesInv

\* A step that leaves the stream of client x where it is: at most its connection is
\* opened, accepted, left or closed.
Quiet(x) ==
    /\ handler'[x] \in {handler[x], "none"} \/ (handler'[x] = "recv" /\ Waits(x))
    /\ peer'[x] = "idle" \/ Waits(x)' => peer[x] = "idle" \/ Waits(x)
    /\ peer[x] = "reset" => peer'[x] = "reset"

LEMMA QuietStream ==
    ASSUME NEW x \in Client, StreamInv(x), Quiet(x), program' = program,
           recvd'[x] = recvd[x], answered'[x] = answered[x], whole'[x] = whole[x],
           replies'[x] = replies[x],
           sent'[x] = sent[x] \/ (sent'[x] = sent[x] + 1 /\ sent[x] < Len(Script[x])),
           BlockingTypeOK
    PROVE  StreamInv(x)'
<1>1. /\ sent[x] \in Nat /\ recvd[x] \in Nat /\ answered[x] \in Nat
      /\ Script[x] \in Seq(Token) /\ Len(Script[x]) \in Nat
  BY BlockingAssumption DEF BlockingTypeOK
<1>2. answered'[x] <= recvd'[x] /\ recvd'[x] <= sent'[x] /\ sent'[x] <= Len(Script[x])
  BY <1>1 DEF StreamInv
<1>3. peer'[x] = "idle" \/ Waits(x)' \/ handler'[x] = "recv" => recvd'[x] = answered'[x]
  BY DEF StreamInv, Quiet
<1>4. handler'[x] = "send" => handler[x] = "send"
  BY DEF Quiet
<1> QED
  BY <1>2, <1>3, <1>4 DEF StreamInv, Quiet

\* The steps that move no token.
LEMMA QuietSteps ==
    ASSUME BlockingInv,
           \/ FirstProcess \/ ChildOfNobodyEnds \/ UNCHANGED vars
           \/ \E c \in Client : Connect(c) \/ (\E how \in {"left", "reset"} : Leaves(c, how))
           \/ \E c \in Client : MainEnds(c) \/ EchoEnds(c) \/ EchoFails(c) \/ Killed(c)
    PROVE  UNCHANGED <<program, sent, recvd, answered, whole, replies>> /\ \A x \in Client : Quiet(x)
<1>0. /\ handler \in [Client -> {"none", "recv", "send", "failed"}]
      /\ peer \in [Client -> {"idle", "open", "left", "reset"}]
      /\ backlog \in Seq(Client)
  BY DEF BlockingInv, BlockingTypeOK
<1>1. ASSUME backlog # <<>>, backlog' = Tail(backlog), UNCHANGED peer,
             \/ UNCHANGED handler
             \/ handler' = [handler EXCEPT ![Head(backlog)] = "recv"]
             \/ handler' = [x \in Client |-> IF x = Head(backlog) THEN "recv" ELSE handler[x]]
      PROVE  \A x \in Client : Quiet(x)
  <2>1. Waits(Head(backlog)) /\ \A x \in Client : Waits(x)' => Waits(x)
    BY <1>1, Accepted
  <2>2. \A x \in Client : handler'[x] = handler[x] \/ (handler'[x] = "recv" /\ x = Head(backlog))
    BY <1>0, <1>1
  <2> QED
    BY <1>1, <2>1, <2>2 DEF Quiet
<1>2. CASE Serves
  BY <1>1, <1>2 DEF Serves, HandlerAt, peers, stream
<1>3. CASE ForkAccepts
  BY <1>1, <1>3 DEF ForkAccepts, Forks, peers, stream
<1>4. CASE ForkAcceptFails
  <2>1. \A x \in Client : handler'[x] = handler[x]
    BY <1>0, <1>4, BlockingAssumption DEF ForkAcceptFails, Forks
  <2> QED
    BY <1>4, <2>1 DEF ForkAcceptFails, Quiet, Waits, peers, stream
<1>5. CASE MainSetup \/ MainAcceptFails \/ setupTCPServerSocket \/ EchoAcceptFails
           \/ ForkCloses \/ ForkCleans \/ ChildOfNobodyEnds \/ UNCHANGED vars
  <2>1. UNCHANGED <<program, backlog, handler, peer, sent, recvd, answered, whole, replies>>
    BY <1>5 DEF MainSetup, MainAcceptFails, setupTCPServerSocket, EchoAcceptFails, ForkCloses,
                ForkCleans, ChildOfNobodyEnds, vars, process, peers, stream
  <2> QED
    BY <2>1 DEF Quiet, Waits
<1>6. ASSUME NEW c \in Client, MainEnds(c) \/ EchoEnds(c) \/ EchoFails(c) \/ Killed(c)
      PROVE  UNCHANGED <<program, sent, recvd, answered, whole, replies>> /\ \A x \in Client : Quiet(x)
  <2>1. /\ UNCHANGED <<program, backlog, peer, sent, recvd, answered, whole, replies>>
        /\ HandlerAt(c, "none")
    BY <1>6 DEF MainEnds, EchoEnds, EchoFails, EchoReturns, Killed, peers, stream
  <2>2. \A x \in Client : handler'[x] \in {handler[x], "none"}
    BY <1>0, <2>1 DEF HandlerAt
  <2> QED
    BY <2>1, <2>2 DEF Quiet, Waits
<1>7. ASSUME NEW c \in Client, NEW how \in {"left", "reset"}, Leaves(c, how)
      PROVE  UNCHANGED <<program, sent, recvd, answered, whole, replies>> /\ \A x \in Client : Quiet(x)
  <2>1. /\ UNCHANGED <<program, backlog, handler, sent, recvd, answered, whole, replies>>
        /\ peer[c] # "idle" /\ (peer[c] = "reset" => how = "reset")
        /\ peer' = [peer EXCEPT ![c] = how]
    BY <1>7 DEF Leaves, process, stream
  <2>2. \A x \in Client : (peer'[x] = "idle" => peer[x] = "idle") /\ (peer[x] = "reset" => peer'[x] = "reset")
    BY <1>0, <2>1
  <2> QED
    BY <2>1, <2>2 DEF Quiet, Waits
<1>8. ASSUME NEW c \in Client, Connect(c)
      PROVE  UNCHANGED <<program, sent, recvd, answered, whole, replies>> /\ \A x \in Client : Quiet(x)
  <2>1. /\ UNCHANGED <<program, handler, sent, recvd, answered, whole, replies>>
        /\ peer[c] = "idle" /\ peer' = [peer EXCEPT ![c] = "open"] /\ backlog' = Append(backlog, c)
    BY <1>8 DEF Connect, stream
  <2>2. \A x \in Client : (peer'[x] = "idle" => peer[x] = "idle") /\ (peer[x] = "reset" => peer'[x] = "reset")
    BY <1>0, <2>1
  <2>3. \A x \in Client : Waits(x)' => Waits(x) \/ x = c
    <3>1. /\ Len(backlog) \in Nat /\ Len(backlog') = Len(backlog) + 1
          /\ backlog'[Len(backlog) + 1] = c
          /\ \A i \in 1..Len(backlog) : backlog'[i] = backlog[i]
      BY <1>0, <2>1, AppendProperties
    <3>2. \A i \in 1..Len(backlog') : i \in 1..Len(backlog) \/ i = Len(backlog) + 1
      BY <3>1
    <3> QED
      BY <3>1, <3>2 DEF Waits
  <2> QED
    BY <2>1, <2>2, <2>3 DEF Quiet
<1> QED
  <2>1. CASE FirstProcess
    <3>1. CASE Serves \/ ForkAccepts
      BY <1>2, <1>3, <3>1 DEF Serves, ForkAccepts, peers, stream
    <3>2. CASE ForkAcceptFails
      BY <1>4, <3>2 DEF ForkAcceptFails, peers, stream
    <3>3. CASE MainSetup \/ MainAcceptFails \/ setupTCPServerSocket \/ EchoAcceptFails
               \/ ForkCloses \/ ForkCleans
      BY <1>5, <3>3
      DEF MainSetup, MainAcceptFails, setupTCPServerSocket, EchoAcceptFails, ForkCloses,
          ForkCleans, peers, stream
    <3> QED
      BY <2>1, <3>1, <3>2, <3>3 DEF FirstProcess, MainAccepts, EchoAccepts
  <2>2. CASE ChildOfNobodyEnds \/ UNCHANGED vars
    BY <1>5, <2>2 DEF ChildOfNobodyEnds, vars, peers, stream
  <2> QED
    BY <1>6, <1>7, <1>8, <2>1, <2>2

\* mainServer.c deals with a piece at once if nothing is left of it, or answers it.
LEMMA MainReceivesStream ==
    ASSUME BlockingInv, RepliesInv, NEW c \in Client, MainReceives(c)
    PROVE  StreamInv(c)' /\ UNCHANGED replies
<1>1. PICK n \in 1..sent[c] :
        /\ Receives(c, n)
        /\ \/ Command(Piece(c, n)) = <<>> /\ Deals(c, n) /\ UNCHANGED handler
           \/ Command(Piece(c, n)) # <<>> /\ HandlerAt(c, "send") /\ UNCHANGED answered
  BY DEF MainReceives
<1>2. /\ UNCHANGED <<program, backlog, peer, sent, replies>>
      /\ program = MainServer
  BY DEF MainReceives, process, peers
<1>3. /\ sent \in [Client -> Nat] /\ recvd \in [Client -> Nat] /\ answered \in [Client -> Nat]
      /\ whole \in [Client -> BOOLEAN] /\ handler \in [Client -> {"none", "recv", "send", "failed"}]
      /\ Script[c] \in Seq(Token) /\ Len(Script[c]) \in Nat
  BY BlockingAssumption DEF BlockingInv, BlockingTypeOK
<1>4. StreamInv(c)
  BY DEF RepliesInv
<1> DEFINE m == answered[c]
<1>5. /\ handler[c] = "recv" /\ recvd[c] = m /\ m \in Nat
      /\ n \in m + 1..Len(Script[c]) /\ n <= sent[c]
  BY <1>1, <1>3, <1>4 DEF Receives, StreamInv
<1>6. recvd'[c] = n /\ (whole'[c] => whole[c] /\ OneLine(SubSeq(Script[c], m + 1, n)))
  BY <1>1, <1>3 DEF Receives, Piece
<1>7. whole'[c] => Border(Script[c], m) /\ LineFrom(Script[c], m, n) /\ Border(Script[c], n)
  <2> SUFFICES ASSUME whole'[c]
               PROVE  Border(Script[c], m) /\ LineFrom(Script[c], m, n) /\ Border(Script[c], n)
    OBVIOUS
  <2>1. Border(Script[c], m)
    BY <1>2, <1>4, <1>6 DEF StreamInv
  <2>2. LineFrom(Script[c], m, n)
    BY <1>3, <1>5, <1>6, PieceIsLine
  <2> QED
    BY <2>1, <2>2 DEF LineFrom, Border
<1>8. Waits(c)' = Waits(c) /\ ~Waits(c) /\ peer[c] # "idle"
  <2>1. Waits(c)' = Waits(c)
    BY <1>2 DEF Waits
  <2> QED
    BY <2>1, <1>5 DEF BlockingInv, NewInv
<1>9. CASE Command(Piece(c, n)) = <<>> /\ Deals(c, n) /\ UNCHANGED handler
  <2>1. answered'[c] = n /\ handler'[c] = "recv"
    BY <1>3, <1>5, <1>9 DEF Deals
  <2>2. whole'[c] /\ peer'[c] # "reset" => LinesAnswered(replies'[c], Script[c], n)
    <3> SUFFICES ASSUME whole'[c], peer'[c] # "reset"
                 PROVE  LinesAnswered(replies'[c], Script[c], n)
      OBVIOUS
    <3>1. n = m + 1
      BY <1>3, <1>5, <1>7, <1>9, CommandOfLine DEF Piece
    <3>2. LineEnds(Script[c], n) = LineEnds(Script[c], m)
      BY <1>3, <1>5, <1>7, <3>1, LineEndsOfPiece
    <3>3. LinesAnswered(replies[c], Script[c], m)
      BY <1>2, <1>4, <1>6 DEF StreamInv
    <3> QED
      BY <1>2, <3>2, <3>3 DEF LinesAnswered
  <2>3. n <= n /\ n <= sent'[c] /\ sent'[c] <= Len(Script[c])
    BY <1>2, <1>3, <1>4, <1>5 DEF StreamInv
  <2> QED
    BY <1>2, <1>6, <1>7, <2>1, <2>2, <2>3 DEF StreamInv
<1>10. CASE Command(Piece(c, n)) # <<>> /\ HandlerAt(c, "send") /\ UNCHANGED answered
  <2>1. answered'[c] = m /\ handler'[c] = "send"
    BY <1>3, <1>10 DEF HandlerAt
  <2>2. whole'[c] => n > m + 1
    <3> SUFFICES ASSUME whole'[c] PROVE n > m + 1
      OBVIOUS
    <3>1. n # m + 1
      BY <1>3, <1>5, <1>7, <1>10, CommandOfLine DEF Piece
    <3> QED
      BY <1>3, <1>5, <3>1
  <2>3. whole'[c] /\ peer'[c] # "reset" => LinesAnswered(replies'[c], Script[c], m)
    BY <1>2, <1>4, <1>6 DEF StreamInv
  <2>4. m <= n /\ n <= sent'[c] /\ sent'[c] <= Len(Script[c])
    BY <1>2, <1>3, <1>4, <1>5 DEF StreamInv
  <2> QED
    BY <1>2, <1>6, <1>7, <1>8, <2>1, <2>2, <2>3, <2>4 DEF StreamInv
<1> QED
  BY <1>1, <1>2, <1>9, <1>10

\* Its answer is the one to the line.
LEMMA MainRepliesStream ==
    ASSUME BlockingInv, RepliesInv, NEW c \in Client, MainReplies(c)
    PROVE  StreamInv(c)' /\ replies' \in [Client -> Seq(Token \cup Reply)]
<1>1. /\ program = MainServer /\ handler[c] = "send"
      /\ replies' = [replies EXCEPT ![c] = IF peer[c] = "reset" THEN replies[c]
                         ELSE Append(replies[c], Answer(Command(Piece(c, recvd[c]))))]
      /\ HandlerAt(c, "recv") /\ Deals(c, recvd[c])
      /\ UNCHANGED <<program, backlog, peer, sent, recvd, whole>>
  BY DEF MainReplies, process, peers
<1>2. /\ sent \in [Client -> Nat] /\ recvd \in [Client -> Nat] /\ answered \in [Client -> Nat]
      /\ handler \in [Client -> {"none", "recv", "send", "failed"}]
      /\ Script[c] \in Seq(Token) /\ Len(Script[c]) \in Nat
  BY BlockingAssumption DEF BlockingInv, BlockingTypeOK
<1>3. StreamInv(c) /\ replies \in [Client -> Seq(Token \cup Reply)]
  BY DEF RepliesInv
<1> DEFINE m == answered[c]
           n == recvd[c]
<1>4. answered'[c] = n /\ recvd'[c] = n /\ handler'[c] = "recv"
  BY <1>1, <1>2 DEF Deals, HandlerAt
<1>5. \A command : Answer(command) \in Token \cup Reply
  BY DEF Answer, Reply
<1>6. replies' \in [Client -> Seq(Token \cup Reply)]
  <2>1. Append(replies[c], Answer(Command(Piece(c, recvd[c])))) \in Seq(Token \cup Reply)
    BY <1>3, <1>5, AppendProperties
  <2> QED
    BY <1>1, <1>3, <2>1
<1>7. ASSUME whole[c]
      PROVE  /\ Border(Script[c], m) /\ LineFrom(Script[c], m, n) /\ Border(Script[c], n)
             /\ n # m + 1 /\ n \in m + 1..Len(Script[c]) /\ m \in Nat
  BY <1>1, <1>2, <1>3, <1>7 DEF StreamInv, LineFrom, Border
<1>8. ASSUME whole[c], peer[c] # "reset" PROVE LinesAnswered(replies'[c], Script[c], n)
  <2>1. Command(Piece(c, n)) = Line(Script[c], n)
    <3>1. Command(Piece(c, n)) = SubSeq(Script[c], m + 1, n - 1)
      BY <1>2, <1>7, <1>8, CommandOfLine DEF Piece
    <3>2. n \in m + 2..Len(Script[c])
      BY <1>2, <1>7, <1>8
    <3> QED
      BY <1>2, <1>7, <1>8, <3>1, <3>2, LineOfPiece
  <2>2. replies'[c] = Append(replies[c], Answer(Line(Script[c], n)))
    BY <1>1, <1>3, <1>8, <2>1
  <2>3. LinesAnswered(replies[c], Script[c], m) /\ replies[c] \in Seq(Token \cup Reply)
    BY <1>1, <1>3, <1>8 DEF StreamInv
  <2> QED
    BY <1>2, <1>5, <1>7, <1>8, <2>2, <2>3, OneMoreAnswer
<1>9. n <= sent'[c] /\ sent'[c] <= Len(Script[c]) /\ n <= n
  BY <1>1, <1>2, <1>3 DEF StreamInv
<1> QED
  BY <1>1, <1>4, <1>6, <1>7, <1>8, <1>9 DEF StreamInv

\* The echo servers.
LEMMA EchoStream ==
    ASSUME BlockingInv, RepliesInv, NEW c \in Client, EchoReceives(c) \/ EchoSends(c) \/ EchoSendsShort(c)
    PROVE  StreamInv(c)' /\ replies' \in [Client -> Seq(Token \cup Reply)]
<1>0. /\ program # MainServer /\ UNCHANGED <<program, backlog, peer, sent>> /\ handler[c] # "none"
  BY DEF EchoReceives, EchoSends, EchoSendsShort, Receives, process, peers
<1>1. /\ sent \in [Client -> Nat] /\ recvd \in [Client -> Nat] /\ answered \in [Client -> Nat]
      /\ handler \in [Client -> {"none", "recv", "send", "failed"}]
      /\ Script[c] \in Seq(Token) /\ Len(Script[c]) \in Nat
  BY BlockingAssumption DEF BlockingInv, BlockingTypeOK
<1>2. StreamInv(c) /\ replies \in [Client -> Seq(Token \cup Reply)]
  BY DEF RepliesInv
<1>3. answered[c] <= recvd[c] /\ recvd[c] <= sent[c] /\ sent[c] <= Len(Script[c])
      /\ replies[c] = SubSeq(Script[c], 1, answered[c])
  BY <1>0, <1>2 DEF StreamInv
<1>4. ~Waits(c)' /\ peer'[c] # "idle"
  BY <1>0 DEF BlockingInv, NewInv, Waits
<1>5. CASE EchoReceives(c)
  <2>1. PICK n \in 1..sent[c] : Receives(c, n)
    BY <1>5 DEF EchoReceives
  <2>2. HandlerAt(c, "send") /\ UNCHANGED <<answered, replies>>
    BY <1>5 DEF EchoReceives
  <2>3. recvd'[c] = n /\ handler'[c] = "send"
    BY <1>1, <2>1, <2>2 DEF Receives, HandlerAt
  <2>4. recvd[c] + 1 <= n /\ n <= sent[c] /\ n \in Nat
    BY <1>1, <2>1 DEF Receives
  <2>5. answered'[c] <= recvd'[c] /\ recvd'[c] <= sent'[c] /\ sent'[c] <= Len(Script[c])
    BY <1>0, <1>1, <1>3, <2>2, <2>3, <2>4
  <2> QED
    BY <1>0, <1>2, <1>3, <1>4, <2>2, <2>3, <2>5 DEF StreamInv
<1>6. CASE EchoSends(c)
  <2>1. /\ replies' = [replies EXCEPT ![c] = replies[c] \o Piece(c, recvd[c])]
        /\ HandlerAt(c, "recv") /\ Deals(c, recvd[c]) /\ UNCHANGED recvd
    BY <1>6 DEF EchoSends
  <2>2. answered'[c] = recvd[c] /\ handler'[c] = "recv"
    BY <1>1, <2>1 DEF HandlerAt, Deals
  <2>3. replies[c] \o Piece(c, recvd[c]) = SubSeq(Script[c], 1, recvd[c])
    <3>1. 1 \in 1..Len(Script[c]) + 1 /\ answered[c] \in 1 - 1..Len(Script[c])
          /\ recvd[c] \in answered[c]..Len(Script[c])
      BY <1>1, <1>3
    <3> QED
      BY <1>1, <1>3, <3>1, ConcatAdjacentSubSeq DEF Piece
  <2>4. SubSeq(Script[c], 1, recvd[c]) \in Seq(Token \cup Reply)
    <3>1. \A i \in 1..recvd[c] : Script[c][i] \in Token \cup Reply
      BY <1>1, <1>3
    <3> QED
      BY <1>1, <3>1, SubSeqProperties
  <2>5. replies'[c] = SubSeq(Script[c], 1, recvd[c]) /\ replies' \in [Client -> Seq(Token \cup Reply)]
    BY <1>2, <2>1, <2>3, <2>4
  <2>6. answered'[c] <= recvd'[c] /\ recvd'[c] <= sent'[c] /\ sent'[c] <= Len(Script[c])
        /\ recvd'[c] = answered'[c]
    BY <1>0, <1>1, <1>3, <2>1, <2>2
  <2> QED
    BY <1>0, <2>2, <2>5, <2>6 DEF StreamInv
<1>7. CASE EchoSendsShort(c)
  <2>1. PICK k \in answered[c] + 1..recvd[c] - 1 :
          replies' = [replies EXCEPT ![c] = replies[c] \o Piece(c, k)] /\ Deals(c, k)
    BY <1>7 DEF EchoSendsShort
  <2>2. HandlerAt(c, "failed") /\ UNCHANGED recvd
    BY <1>7 DEF EchoSendsShort
  <2>3. k \in Nat /\ answered[c] < k /\ k < recvd[c] /\ k <= Len(Script[c])
    BY <1>1, <1>3, <2>1
  <2>4. answered'[c] = k /\ handler'[c] = "failed"
    BY <1>1, <2>1, <2>2 DEF HandlerAt, Deals
  <2>5. replies[c] \o Piece(c, k) = SubSeq(Script[c], 1, k)
    <3>1. 1 \in 1..Len(Script[c]) + 1 /\ answered[c] \in 1 - 1..Len(Script[c])
          /\ k \in answered[c]..Len(Script[c])
      BY <1>1, <1>3, <2>3
    <3> QED
      BY <1>1, <1>3, <3>1, ConcatAdjacentSubSeq DEF Piece
  <2>6. SubSeq(Script[c], 1, k) \in Seq(Token \cup Reply)
    <3>1. \A i \in 1..k : Script[c][i] \in Token \cup Reply
      BY <1>1, <2>3
    <3> QED
      BY <1>1, <2>3, <3>1, SubSeqProperties
  <2>7. replies'[c] = SubSeq(Script[c], 1, k) /\ replies' \in [Client -> Seq(Token \cup Reply)]
    BY <1>2, <2>1, <2>5, <2>6
  <2>8. answered'[c] <= recvd'[c] /\ recvd'[c] <= sent'[c] /\ sent'[c] <= Len(Script[c])
    BY <1>0, <1>1, <1>3, <2>2, <2>3, <2>4
  <2> QED
    BY <1>0, <1>4, <2>4, <2>7, <2>8 DEF StreamInv
<1> QED
  BY <1>5, <1>6, <1>7

\* The streams of the other clients.
LEMMA OtherStreams ==
    ASSUME BlockingInv, RepliesInv, NEW c \in Client, NEW x \in Client, x # c,
           \/ SendsToken(c) \/ MainReceives(c) \/ MainReplies(c)
           \/ EchoReceives(c) \/ EchoSends(c) \/ EchoSendsShort(c)
    PROVE  StreamInv(x)'
<1>1. UNCHANGED <<program, backlog, peer>>
  BY DEF SendsToken, MainReceives, MainReplies, EchoReceives, EchoSends, EchoSendsShort, process, peers
<1>2. /\ sent \in [Client -> Nat] /\ recvd \in [Client -> Nat] /\ answered \in [Client -> Nat]
      /\ whole \in [Client -> BOOLEAN] /\ handler \in [Client -> {"none", "recv", "send", "failed"}]
      /\ replies \in [Client -> Seq(Token \cup Reply)]
  BY DEF BlockingInv, BlockingTypeOK, RepliesInv
<1>3. /\ handler'[x] = handler[x] /\ sent'[x] = sent[x] /\ recvd'[x] = recvd[x]
      /\ answered'[x] = answered[x] /\ whole'[x] = whole[x] /\ replies'[x] = replies[x]
  <2>1. CASE SendsToken(c)
    BY <1>2, <2>1 DEF SendsToken, stream
  <2>2. CASE MainReceives(c)
    BY <1>2, <2>2 DEF MainReceives, Receives, HandlerAt, Deals, peers
  <2>3. CASE MainReplies(c) \/ EchoSends(c) \/ EchoSendsShort(c)
    BY <1>2, <2>3 DEF MainReplies, EchoSends, EchoSendsShort, HandlerAt, Deals, peers
  <2>4. CASE EchoReceives(c)
    BY <1>2, <2>4 DEF EchoReceives, Receives, HandlerAt, peers
  <2> QED
    BY <2>1, <2>2, <2>3, <2>4
<1>4. Quiet(x)
  BY <1>1, <1>3 DEF Quiet, Waits
<1> QED
  BY <1>1, <1>3, <1>4, QuietStream DEF RepliesInv, BlockingInv

\* Every step keeps the streams and the replies together.
LEMMA RepliesStep == BlockingInv /\ RepliesInv /\ [Next]_vars => RepliesInv'
<1> SUFFICES ASSUME BlockingInv, RepliesInv, [Next]_vars PROVE RepliesInv'
  OBVIOUS
<1>1. ASSUME UNCHANGED <<program, sent, recvd, answered, whole, replies>>,
             \A x \in Client : Quiet(x)
      PROVE  RepliesInv'
  BY <1>1, QuietStream DEF RepliesInv, BlockingInv
<1>2. ASSUME NEW c \in Client, SendsToken(c) PROVE RepliesInv'
  <2>1. /\ sent[c] < Len(Script[c]) /\ sent' = [sent EXCEPT ![c] = sent[c] + 1]
        /\ UNCHANGED <<program, backlog, handler, peer, recvd, answered, whole, replies>>
    BY <1>2 DEF SendsToken, process, stream
  <2>2. sent'[c] = sent[c] + 1 /\ Quiet(c)
    BY <2>1 DEF BlockingInv, BlockingTypeOK, Quiet, Waits
  <2>3. StreamInv(c)'
    BY <2>1, <2>2, QuietStream DEF RepliesInv, BlockingInv
  <2> QED
    BY <1>2, <2>1, <2>3, OtherStreams DEF RepliesInv
<1>3. ASSUME NEW c \in Client,
             \/ MainReceives(c) \/ MainReplies(c)
             \/ EchoReceives(c) \/ EchoSends(c) \/ EchoSendsShort(c)
      PROVE  RepliesInv'
  <2>1. StreamInv(c)' /\ replies' \in [Client -> Seq(Token \cup Reply)]
    BY <1>3, MainReceivesStream, MainRepliesStream, EchoStream DEF RepliesInv
  <2> QED
    BY <1>3, <2>1, OtherStreams DEF RepliesInv
<1> QED
  BY <1>1, <1>2, <1>3, QuietSteps DEF Next, Handler, ClientSteps

\* RepliesFaithful for any clients and scripts: the echo servers return what they
\* dealt with, in order and once, and mainServer.c answers each line once and in
\* order as long as every recv returns one line (mainServer.c:16-33,
\* tcpServerUtil.c:88-117).
THEOREM RepliesAreFaithful == Spec => []RepliesFaithful
<1>1. RepliesInv => RepliesFaithful
  BY DEF RepliesInv, StreamInv, RepliesFaithful
<1>2. BlockingInv /\ BlockingInv' /\ RepliesInv /\ [Next]_vars => RepliesInv'
  BY RepliesStep
<1> QED
  BY <1>1, <1>2, RepliesInit, BlockingInvariance, PTL DEF Spec
=============================================================================

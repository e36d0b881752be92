-------------------------- MODULE EchoSelectProofs --------------------------
(***************************************************************************)
(* Proofs about EchoSelect for any clients, entries, listening sockets and *)
(* sizes: each client gets its own bytes in order, whoever had its entry   *)
(* or its descriptor before, and no read waits.                            *)
(***************************************************************************)
EXTENDS EchoSelect, FiniteSetTheorems, SequenceTheorems, WellFoundedInduction, TLAPS

-----------------------------------------------------------------------------
(* Least elements, and the descriptor that the kernel gives.               *)

\* A non-empty set of numbers has a least element: Min is one of the set.
LEMMA LeastNumber ==
    ASSUME NEW T \in SUBSET Nat, T # {}
    PROVE  Min(T) \in T
<1>1. PICK x \in T : \A y \in T : ~ (<<y, x>> \in OpToRel(<, Nat))
  BY NatLessThanWellFounded, WFMin
<1>2. OpToRel(<, Nat) = {pair \in Nat \X Nat : pair[1] < pair[2]}
  BY Zenon DEF OpToRel
<1>3. \A y \in T : ~ (y < x)
  BY <1>1, <1>2
<1>4. \A y \in T : x <= y
  BY <1>3
<1>5. \E z \in T : \A y \in T : z <= y
  BY <1>4
<1> QED
  BY <1>5 DEF Min

\* The least of two numbers is at most either.
LEMMA LeastOfTwo ==
    ASSUME NEW a \in Int, NEW b \in Int
    PROVE  Min({a, b}) \in Int /\ Min({a, b}) <= b
<1>1. \E z \in {a, b} : \A y \in {a, b} : z <= y
  OBVIOUS
<1>2. Min({a, b}) \in {a, b} /\ \A y \in {a, b} : Min({a, b}) <= y
  BY <1>1 DEF Min
<1> QED
  BY <1>2

SocketsDiffer == \A c, d \in Client : socket[c] = socket[d] /\ socket[c] # None => c = d

\* There is a descriptor for each client, so that one without has one to get.
LEMMA FreeFdIsFree ==
    ASSUME EchoAssumption, socket \in [Client -> Fd \cup {None}], SocketsDiffer,
           NEW c \in Client, socket[c] = None
    PROVE  FreeFd \in Fd /\ \A d \in Client : socket[d] # FreeFd
<1> DEFINE free == Fd \ {socket[d] : d \in Client}
<1>1. IsFiniteSet(Client) /\ Cardinality(Client) \in Nat
  BY FS_CardinalityType DEF EchoAssumption
<1>2. Fd \subseteq Nat /\ None \notin Fd
  BY <1>1 DEF Fd, None
<1>3. free # {}
  <2> SUFFICES ASSUME free = {} PROVE FALSE
    OBVIOUS
  <2> DEFINE others == Client \ {c}
             user == [fd \in Fd |-> CHOOSE d \in others : socket[d] = fd]
  <2>1. IsFiniteSet(others) /\ Cardinality(others) < Cardinality(Client)
    <3>1. IsFiniteSet(Client \ {c}) /\ Cardinality(Client \ {c}) = Cardinality(Client) - 1
      BY <1>1, FS_RemoveElement
    <3> QED
      BY <3>1, <1>1
  <2>2. IsFiniteSet(Fd) /\ Cardinality(Fd) = Cardinality(Client)
    BY <1>1, FS_Interval DEF Fd
  <2>3. \A fd \in Fd : user[fd] \in others /\ socket[user[fd]] = fd
    <3> SUFFICES ASSUME NEW fd \in Fd PROVE user[fd] \in others /\ socket[user[fd]] = fd
      OBVIOUS
    <3>1. \E d \in others : socket[d] = fd
      BY <1>2
    <3> QED
      BY <3>1
  <2>4. user \in [Fd -> others]
    BY <2>3
  <2>5. \E x, y \in Fd : x # y /\ user[x] = user[y]
    <3> HIDE DEF others, user
    <3> QED
      BY <2>1, <2>2, <2>4, FS_PigeonHole
  <2> QED
    BY <2>3, <2>5
<1>4. Min(free) \in free
  BY <1>2, <1>3, LeastNumber
<1> QED
  BY <1>4 DEF FreeFd
-----------------------------------------------------------------------------
(* The inductive invariant.                                                *)

RoundType ==
    /\ status \in {"setup", "running", "exited", "killed", "overrun"}
    /\ masters \subseteq 1..Masters
    /\ place \in {"select", "udp", "accept", "write", "read"}
    /\ cursor \in Nat \ {0}
    /\ place \in {"select", "udp"} => cursor = 1
    /\ place = "accept" => cursor = 1 \/ cursor <= Masters
    /\ place \in {"write", "read"} => cursor <= MAX_SOCKETS
    /\ readfds \in [udp : BOOLEAN, masters : SUBSET (1..Masters), clients : SUBSET Fd]

TableType ==
    /\ writefds \subseteq Fd
    /\ client_socket \in [Slot -> Fd \cup {None}]
    /\ bufferWrite \in [Slot -> Seq(Byte)]
    /\ from \in [Slot -> Int]

KernelType ==
    /\ socket \in [Client -> Fd \cup {None}]
    /\ backlog \in [1..Masters -> Seq(Client)]
    /\ taken \in [Client -> Nat] /\ sent \in [Client -> Nat]
    /\ echoed \in [Client -> Seq(Byte)]
    /\ peer \in [Client -> {"idle", "open", "left", "reset"}]

\* A client that has not been accepted has no descriptor and no bytes.
Fresh(c) == socket[c] = None /\ taken[c] = 0 /\ echoed[c] = <<>>

BacklogInv ==
    /\ \A c \in Client : peer[c] = "idle" => Fresh(c)
    /\ \A m \in 1..Masters : \A i \in 1..Len(backlog[m]) :
        Fresh(backlog[m][i]) /\ peer[backlog[m][i]] # "idle"
    /\ \A m, n \in 1..Masters : \A i \in 1..Len(backlog[m]), j \in 1..Len(backlog[n]) :
        backlog[m][i] = backlog[n][j] => m = n /\ i = j

\* The buffer of an entry holds what was read last from its client, and what has
\* been sent of it are the last bytes echoed.
Holds(s, c) ==
    /\ Len(bufferWrite[s]) <= taken[c]
    /\ \A i \in 1..Len(bufferWrite[s]) : bufferWrite[s][i] = <<c, taken[c] - Len(bufferWrite[s]) + i>>
    /\ peer[c] # "reset" =>
        /\ from[s] \in 0..Len(bufferWrite[s])
        /\ Len(echoed[c]) = taken[c] - Len(bufferWrite[s]) + from[s]

ContentInv == \A s \in Slot, c \in Client :
    socket[c] = client_socket[s] /\ socket[c] # None => Holds(s, c)

\* What select found is still so when its turn comes.
MastersInv ==
    /\ place = "udp" => \A m \in readfds.masters : backlog[m] # <<>>
    /\ place = "accept" => \A m \in readfds.masters : m >= cursor => backlog[m] # <<>>

ReadableFd(fd) == \A c \in Client : socket[c] = fd => Readable(c)

ReadyInv ==
    /\ place \in {"udp", "accept", "write"} =>
        readfds.clients \subseteq Watched /\ \A fd \in readfds.clients : ReadableFd(fd)
    /\ place = "read" => \A s \in Slot :
        s >= cursor /\ client_socket[s] \in readfds.clients => ReadableFd(client_socket[s])

EchoInv ==
    /\ RoundType /\ TableType /\ KernelType
    /\ SocketsDiffer /\ SlotsConsistent
    /\ BacklogInv /\ ContentInv /\ EchoInOrder
    /\ MastersInv /\ ReadyInv
-----------------------------------------------------------------------------
(* Owners.                                                                 *)

\* A descriptor that some client has is of that client only.
LEMMA OwnerIs ==
    ASSUME SocketsDiffer, NEW c \in Client, socket[c] # None
    PROVE  Owner(socket[c]) = c
BY DEF Owner, SocketsDiffer

\* The descriptor of an entry is a client's.
LEMMA SlotOwner ==
    ASSUME EchoInv, NEW s \in Slot, client_socket[s] # None
    PROVE  /\ client_socket[s] \in Watched
           /\ Owner(client_socket[s]) \in Client /\ socket[Owner(client_socket[s])] = client_socket[s]
           /\ Holds(s, Owner(client_socket[s]))
<1>1. client_socket[s] \in Watched
  BY DEF Watched
<1>2. PICK c \in Client : socket[c] = client_socket[s]
  BY <1>1 DEF EchoInv, SlotsConsistent
<1>3. Owner(client_socket[s]) = c
  BY <1>2, OwnerIs DEF EchoInv
<1> QED
  BY <1>1, <1>2, <1>3 DEF EchoInv, ContentInv

\* No descriptor is 0, which stands for none.
LEMMA NoneIsNoFd == None \notin Fd
BY DEF None, Fd

\* The program starts in the invariant.
LEMMA EchoInit == Init => EchoInv
<1> SUFFICES ASSUME Init PROVE EchoInv
  OBVIOUS
<1>1. RoundType /\ TableType /\ KernelType
  BY EchoAssumption DEF Init, RoundType, TableType, KernelType, NothingReady, Byte
<1>2. SocketsDiffer /\ BacklogInv /\ ContentInv /\ EchoInOrder
  BY DEF Init, SocketsDiffer, BacklogInv, Fresh, ContentInv, EchoInOrder
<1>3. SlotsConsistent /\ MastersInv /\ ReadyInv
  BY DEF Init, SlotsConsistent, Watched, MastersInv, ReadyInv
<1> QED
  BY <1>1, <1>2, <1>3 DEF EchoInv

-----------------------------------------------------------------------------
(* Steps that move no byte.                                                *)

\* Whatever leaves the table and the kernel alone keeps what relates them.
LEMMA SameTable ==
    ASSUME EchoInv, UNCHANGED <<client_socket, bufferWrite, from, kernel, peers>>,
           writefds' \subseteq writefds, RoundType', MastersInv', ReadyInv'
    PROVE  EchoInv'
<1>1. UNCHANGED <<client_socket, bufferWrite, from, socket, backlog, taken, echoed, peer, sent>>
  BY DEF kernel, peers
<1>2. TableType' /\ KernelType'
  BY <1>1 DEF EchoInv, TableType, KernelType
<1>3. SocketsDiffer' /\ BacklogInv' /\ EchoInOrder'
  BY <1>1 DEF EchoInv, SocketsDiffer, BacklogInv, Fresh, EchoInOrder
<1>4. ContentInv'
  BY <1>1 DEF EchoInv, ContentInv, Holds
<1>5. SlotsConsistent'
  BY <1>1 DEF EchoInv, SlotsConsistent, Watched
<1> QED
  BY <1>2, <1>3, <1>4, <1>5 DEF EchoInv

\* Opening the sockets.
LEMMA SetupStep == ASSUME EchoInv, Setup PROVE EchoInv'
<1>1. /\ masters' \in SUBSET (1..Masters) /\ status' \in {"running", "exited"}
      /\ UNCHANGED <<place, cursor, readfds, writefds, client_socket, bufferWrite, from>>
      /\ UNCHANGED <<kernel, peers, socket, backlog, taken, sent, peer>>
  BY DEF Setup, table, kernel, peers
<1>2. RoundType'
  BY <1>1 DEF EchoInv, RoundType
<1>3. MastersInv' /\ ReadyInv'
  BY <1>1 DEF EchoInv, MastersInv, ReadyInv, Watched, ReadableFd, Readable
<1> QED
  BY <1>1, <1>2, <1>3, SameTable

\* What select reports is so.
LEMMA SelectStep == ASSUME EchoInv, NEW datagram \in BOOLEAN, Select(datagram) PROVE EchoInv'
<1>1. /\ readfds' = [udp     |-> datagram,
                     masters |-> {m \in masters : backlog[m] # <<>>},
                     clients |-> {fd \in Watched : Readable(Owner(fd))}]
      /\ place' = "udp" /\ cursor' = 1 /\ writefds' \subseteq writefds
      /\ UNCHANGED <<status, masters, client_socket, bufferWrite, from, kernel, peers>>
      /\ UNCHANGED <<socket, backlog, taken, sent, peer>>
  BY DEF Select, Goes, kernel, peers
<1>2. Watched \subseteq Fd
  BY DEF Watched, EchoInv, TableType
<1>3. RoundType'
  <2>1. {m \in masters : backlog[m] # <<>>} \in SUBSET (1..Masters)
    BY DEF EchoInv, RoundType
  <2>2. {fd \in Watched : Readable(Owner(fd))} \in SUBSET Fd
    BY <1>2
  <2>3. readfds' \in [udp : BOOLEAN, masters : SUBSET (1..Masters), clients : SUBSET Fd]
    BY <1>1, <2>1, <2>2, Zenon
  <2> QED
    BY <1>1, <2>3 DEF EchoInv, RoundType
<1>4. MastersInv'
  BY <1>1 DEF MastersInv
<1>5. ReadyInv'
  <2>1. \A fd \in readfds'.clients : fd \in Watched /\ Readable(Owner(fd))
    BY <1>1
  <2>2. \A fd \in readfds'.clients : ReadableFd(fd)
    <3> SUFFICES ASSUME NEW fd \in readfds'.clients, NEW c \in Client, socket[c] = fd
                 PROVE  Readable(c)
      BY DEF ReadableFd
    <3>1. Owner(fd) = c
      BY <1>2, <2>1, OwnerIs, NoneIsNoFd DEF EchoInv
    <3> QED
      BY <2>1, <3>1
  <2> QED
    BY <1>1, <2>1, <2>2 DEF ReadyInv, ReadableFd, Readable, Watched
<1> QED
  BY <1>1, <1>3, <1>4, <1>5, SameTable

\* Answering a datagram.
LEMMA AddrInfoStep == ASSUME EchoInv, handleAddrInfo PROVE EchoInv'
<1>1. /\ status' \in {"running", "overrun"} /\ place = "udp" /\ place' = "accept" /\ cursor' = 1
      /\ UNCHANGED <<masters, readfds, writefds, client_socket, bufferWrite, from, kernel, peers>>
      /\ UNCHANGED <<socket, backlog, taken, sent, peer>>
  BY DEF handleAddrInfo, Goes, table, kernel, peers
<1>2. RoundType'
  BY <1>1 DEF EchoInv, RoundType
<1>3. MastersInv' /\ ReadyInv'
  BY <1>1 DEF EchoInv, MastersInv, ReadyInv, Watched, ReadableFd, Readable
<1> QED
  BY <1>1, <1>2, <1>3, SameTable

-----------------------------------------------------------------------------
(* The clients.                                                            *)

\* Once there is something to read, it is there until it is read.
LEMMA ReadableStays ==
    ASSUME EchoInv, UNCHANGED <<place, cursor, readfds, client_socket, socket, taken>>,
           sent' \in [Client -> Nat],
           \A c \in Client : sent'[c] >= sent[c] /\ (peer[c] \in {"left", "reset"} => peer'[c] \in {"left", "reset"})
    PROVE  ReadyInv'
<1>1. \A c \in Client : Readable(c) => Readable(c)'
  BY DEF Readable, EchoInv, KernelType
<1>2. \A fd : ReadableFd(fd) => ReadableFd(fd)'
  BY <1>1 DEF ReadableFd
<1>3. Watched' = Watched
  BY DEF Watched
<1> QED
  BY <1>2, <1>3 DEF EchoInv, ReadyInv, ReadableFd

\* A client that connects is the last of one backlog, and in no other.
LEMMA ConnectStep == ASSUME EchoInv, NEW c \in Client, NEW m \in masters, Connect(c, m) PROVE EchoInv'
<1>1. /\ peer[c] = "idle" /\ peer' = [peer EXCEPT ![c] = "open"]
      /\ backlog' = [backlog EXCEPT ![m] = Append(backlog[m], c)]
      /\ UNCHANGED <<status, masters, place, cursor, readfds, writefds, client_socket, bufferWrite, from>>
      /\ UNCHANGED <<socket, taken, echoed, sent>>
  BY DEF Connect, round, table
<1>2. m \in 1..Masters /\ backlog \in [1..Masters -> Seq(Client)] /\ sent \in [Client -> Nat]
      /\ peer \in [Client -> {"idle", "open", "left", "reset"}]
  BY DEF EchoInv, RoundType, KernelType
<1>3. /\ backlog[m] \in Seq(Client) /\ backlog'[m] = Append(backlog[m], c)
      /\ \A n \in 1..Masters : n # m => backlog'[n] = backlog[n]
  BY <1>1, <1>2
<1>4. /\ Len(backlog'[m]) = Len(backlog[m]) + 1 /\ Len(backlog[m]) \in Nat
      /\ backlog'[m][Len(backlog[m]) + 1] = c /\ backlog'[m] # <<>>
      /\ \A i \in 1..Len(backlog[m]) : backlog'[m][i] = backlog[m][i]
  BY <1>3
<1>5. \A n \in 1..Masters : \A i \in 1..Len(backlog'[n]) :
        \/ i \in 1..Len(backlog[n]) /\ backlog'[n][i] = backlog[n][i]
        \/ n = m /\ i = Len(backlog[m]) + 1 /\ backlog'[n][i] = c
  <2> SUFFICES ASSUME NEW n \in 1..Masters, NEW i \in 1..Len(backlog'[n])
               PROVE  \/ i \in 1..Len(backlog[n]) /\ backlog'[n][i] = backlog[n][i]
                      \/ n = m /\ i = Len(backlog[m]) + 1 /\ backlog'[n][i] = c
    OBVIOUS
  <2>1. CASE n = m
    BY <2>1, <1>4
  <2>2. CASE n # m
    BY <2>2, <1>3
  <2> QED
    BY <2>1, <2>2
<1>6. \A n \in 1..Masters : \A i \in 1..Len(backlog[n]) : backlog[n][i] # c /\ backlog[n][i] \in Client
  BY <1>1, <1>2 DEF EchoInv, BacklogInv
<1>7. \A x \in Client : x # c => peer'[x] = peer[x]
  BY <1>1, <1>2
<1>8. peer'[c] = "open" /\ peer' \in [Client -> {"idle", "open", "left", "reset"}]
  BY <1>1, <1>2
<1>9. KernelType'
  BY <1>1, <1>2, <1>3, <1>8 DEF EchoInv, KernelType
<1>10. BacklogInv'
  <2>1. \A x \in Client : peer'[x] = "idle" => Fresh(x)'
    BY <1>1, <1>7, <1>8 DEF EchoInv, BacklogInv, Fresh
  <2>2. ASSUME NEW n \in 1..Masters, NEW i \in 1..Len(backlog'[n])
        PROVE  Fresh(backlog[n][i])' /\ peer'[backlog'[n][i]] # "idle"
    <3>1. CASE i \in 1..Len(backlog[n]) /\ backlog'[n][i] = backlog[n][i]
      BY <3>1, <1>1, <1>6, <1>7 DEF EchoInv, BacklogInv, Fresh
    <3>2. CASE backlog'[n][i] = c
      BY <3>2, <1>1, <1>8 DEF EchoInv, BacklogInv, Fresh
    <3> QED
      BY <3>1, <3>2, <1>5
  <2>3. ASSUME NEW k \in 1..Masters, NEW n \in 1..Masters, NEW i \in 1..Len(backlog'[k]),
               NEW j \in 1..Len(backlog'[n]), backlog'[k][i] = backlog'[n][j]
        PROVE  k = n /\ i = j
    <3>1. CASE i \in 1..Len(backlog[k]) /\ backlog'[k][i] = backlog[k][i]
      <4>1. j \in 1..Len(backlog[n]) /\ backlog'[n][j] = backlog[n][j]
        BY <2>3, <3>1, <1>5, <1>6
      <4>2. backlog[k][i] = backlog[n][j] /\ i \in 1..Len(backlog[k])
        BY <2>3, <3>1, <4>1
      <4> QED
        BY <4>1, <4>2 DEF EchoInv, BacklogInv
    <3>2. CASE k = m /\ i = Len(backlog[m]) + 1 /\ backlog'[k][i] = c
      BY <2>3, <3>2, <1>5, <1>6
    <3> QED
      BY <3>1, <3>2, <1>5
  <2> QED
    BY <2>1, <2>2, <2>3 DEF BacklogInv
<1>11. ContentInv'
  BY <1>1, <1>7, <1>8 DEF EchoInv, ContentInv, Holds
<1>12. MastersInv'
  BY <1>1, <1>3, <1>4 DEF EchoInv, MastersInv, RoundType
<1>13. ReadyInv'
  BY <1>1, <1>2, <1>7, ReadableStays
<1>14. RoundType' /\ TableType'
  BY <1>1 DEF EchoInv, RoundType, TableType
<1>15. SocketsDiffer' /\ EchoInOrder'
  BY <1>1 DEF EchoInv, SocketsDiffer, EchoInOrder
<1>16. SlotsConsistent'
  <2>1. Watched' = Watched
    BY <1>1 DEF Watched
  <2>2. UNCHANGED <<client_socket, writefds, bufferWrite, from, socket>>
    BY <1>1
  <2> QED
    BY <2>1, <2>2 DEF EchoInv, SlotsConsistent
<1> QED
  BY <1>15, <1>16, <1>9, <1>10, <1>11, <1>12, <1>13, <1>14 DEF EchoInv

\* A byte sent or a connection ended changes nothing that the server has.
LEMMA SentOrLeft ==
    ASSUME EchoInv, NEW c \in Client, SendsByte(c) \/ \E how \in {"left", "reset"} : Leaves(c, how)
    PROVE  EchoInv'
<1>1. /\ UNCHANGED <<status, masters, place, cursor, readfds, writefds, client_socket, bufferWrite, from>>
      /\ UNCHANGED <<socket, backlog, taken, echoed>>
  BY DEF SendsByte, Leaves, round, table, kernel
<1>2. /\ sent' \in [Client -> Nat] /\ peer' \in [Client -> {"idle", "open", "left", "reset"}]
      /\ \A x \in Client : /\ sent'[x] >= sent[x]
                           /\ peer[x] \in {"idle", "reset"} => peer'[x] = peer[x]
                           /\ peer[x] = "left" => peer'[x] \in {"left", "reset"}
                           /\ peer[x] = "open" => peer'[x] # "idle"
  <2>1. CASE SendsByte(c)
    BY <2>1 DEF SendsByte, EchoInv, KernelType
  <2>2. CASE \E how \in {"left", "reset"} : Leaves(c, how)
    BY <2>2 DEF Leaves, EchoInv, KernelType
  <2> QED
    BY <2>1, <2>2
<1>3. KernelType'
  BY <1>1, <1>2 DEF EchoInv, KernelType
<1>4. BacklogInv'
  <2>1. \A n \in 1..Masters : \A i \in 1..Len(backlog[n]) : backlog[n][i] \in Client
    <3>1. \A n \in 1..Masters : backlog[n] \in Seq(Client)
      BY DEF EchoInv, KernelType
    <3> QED
      BY <3>1
  <2>2. \A x \in Client : peer'[x] = "idle" <=> peer[x] = "idle"
    BY <1>2 DEF EchoInv, KernelType
  <2>3. \A x \in Client : Fresh(x)' <=> Fresh(x)
    BY <1>1 DEF Fresh
  <2>4. /\ \A x \in Client : peer[x] = "idle" => Fresh(x)
        /\ \A n \in 1..Masters : \A i \in 1..Len(backlog[n]) :
              Fresh(backlog[n][i]) /\ peer[backlog[n][i]] # "idle"
    BY DEF EchoInv, BacklogInv
  <2>5. ASSUME NEW n \in 1..Masters, NEW i \in 1..Len(backlog'[n])
        PROVE  Fresh(backlog[n][i])' /\ peer'[backlog'[n][i]] # "idle"
    <3>1. backlog[n][i] \in Client /\ Fresh(backlog[n][i]) /\ peer[backlog[n][i]] # "idle"
      BY <1>1, <2>1, <2>4
    <3>2. peer'[backlog'[n][i]] # "idle"
      BY <1>1, <2>2, <3>1
    <3>3. Fresh(backlog[n][i])'
      BY <1>1, <3>1 DEF Fresh
    <3> QED
      BY <3>2, <3>3
  <2>6. \A x \in Client : peer'[x] = "idle" => Fresh(x)'
    BY <2>2, <2>3, <2>4
  <2>7. \A m, n \in 1..Masters : \A i \in 1..Len(backlog'[m]), j \in 1..Len(backlog'[n]) :
            backlog'[m][i] = backlog'[n][j] => m = n /\ i = j
    BY <1>1 DEF EchoInv, BacklogInv
  <2> QED
    BY <2>5, <2>6, <2>7, Zenon DEF BacklogInv
<1>5. ContentInv'
  BY <1>1, <1>2 DEF EchoInv, ContentInv, Holds
<1>6. ReadyInv'
  BY <1>1, <1>2, ReadableStays
<1>7. RoundType' /\ TableType' /\ MastersInv'
  BY <1>1 DEF EchoInv, RoundType, TableType, MastersInv
<1>8. SocketsDiffer' /\ EchoInOrder'
  BY <1>1 DEF EchoInv, SocketsDiffer, EchoInOrder
<1>9. SlotsConsistent'
  BY <1>1 DEF EchoInv, SlotsConsistent, Watched
<1> QED
  BY <1>8, <1>9, <1>3, <1>4, <1>5, <1>6, <1>7 DEF EchoInv
-----------------------------------------------------------------------------
(* accept.                                                                 *)

\* The loops go from one element to the next, or to the next loop.
LEMMA AdvanceCases ==
    ASSUME NEW last \in Nat, NEW p, EchoInv, Advance(last, p)
    PROVE  \/ cursor < last /\ place' = place /\ cursor' = cursor + 1
           \/ ~(cursor < last) /\ place' = p /\ cursor' = 1
BY DEF Advance, Goes

\* A connection that is accepted gets a descriptor that nobody has and a free entry
\* whose buffer is empty, or no entry.
LEMMA AcceptStepInv == ASSUME EchoInv, AcceptStep PROVE EchoInv'
<1>1. /\ place = "accept"
      /\ (cursor \in readfds.masters /\ Accepts(cursor)) \/ UNCHANGED <<backlog, socket, client_socket>>
      /\ UNCHANGED <<status, masters, readfds, writefds, bufferWrite, from, taken, echoed, peer, sent>>
  BY DEF AcceptStep, peers
<1>2. \/ cursor < Masters /\ place' = "accept" /\ cursor' = cursor + 1
      \/ ~(cursor < Masters) /\ place' = "write" /\ cursor' = 1
  BY <1>1, AdvanceCases, EchoAssumption DEF AcceptStep, EchoAssumption
<1>3. RoundType'
  BY <1>1, <1>2, EchoAssumption DEF EchoInv, RoundType
<1>4. /\ readfds.masters \subseteq 1..Masters /\ cursor \in Nat
      /\ readfds.clients \subseteq Watched /\ \A fd \in readfds.clients : ReadableFd(fd)
  BY <1>1 DEF EchoInv, RoundType, ReadyInv
<1>5. CASE UNCHANGED <<backlog, socket, client_socket>>
  <2>1. MastersInv'
    BY <1>1, <1>2, <1>4, <1>5 DEF EchoInv, MastersInv
  <2>2. ReadyInv'
    BY <1>1, <1>2, <1>4, <1>5 DEF ReadyInv, Watched, ReadableFd, Readable
  <2> QED
    BY <1>1, <1>3, <1>5, <2>1, <2>2, SameTable DEF kernel, peers
<1>6. CASE cursor \in readfds.masters /\ Accepts(cursor)
  <2> DEFINE m == cursor
             c == Head(backlog[m])
             free == {s \in Slot : client_socket[s] = None}
  <2>1. /\ m \in 1..Masters /\ backlog[m] \in Seq(Client) /\ backlog[m] # <<>>
        /\ backlog \in [1..Masters -> Seq(Client)]
    BY <1>1, <1>4, <1>6 DEF EchoInv, MastersInv, KernelType
  <2>2. c = backlog[m][1] /\ 1 \in 1..Len(backlog[m]) /\ c \in Client
    BY <2>1
  <2>3. Fresh(c) /\ peer[c] # "idle"
    BY <2>1, <2>2 DEF EchoInv, BacklogInv
  <2>4. FreeFd \in Fd /\ \A d \in Client : socket[d] # FreeFd
    BY <2>2, <2>3, EchoAssumption, FreeFdIsFree DEF EchoInv, KernelType, Fresh
  <2>5. /\ backlog' = [backlog EXCEPT ![m] = Tail(backlog[m])]
        /\ socket' = [socket EXCEPT ![c] = FreeFd]
        /\ client_socket' = IF free = {} THEN client_socket ELSE [client_socket EXCEPT ![Min(free)] = FreeFd]
    BY <1>6 DEF Accepts
  <2>6. PICK got \in Slot \cup {None} :
          /\ got # None => client_socket[got] = None /\ client_socket'[got] = FreeFd
          /\ \A s \in Slot : s # got => client_socket'[s] = client_socket[s]
          /\ client_socket' \in [Slot -> Fd \cup {None}]
    <3>0. client_socket \in [Slot -> Fd \cup {None}] /\ None \notin Slot /\ Slot \subseteq Nat
      BY EchoAssumption DEF EchoInv, TableType, Slot, None, EchoAssumption
    <3>1. CASE free = {}
      BY <2>5, <3>0, <3>1
    <3>2. CASE free # {}
      <4>1. Min(free) \in free
        BY <3>0, <3>2, LeastNumber
      <4> QED
        BY <2>4, <2>5, <3>0, <3>2, <4>1
    <3> QED
      BY <3>1, <3>2
  <2>7. /\ socket' \in [Client -> Fd \cup {None}] /\ socket'[c] = FreeFd
        /\ \A d \in Client : d # c => socket'[d] = socket[d]
    BY <2>2, <2>4, <2>5 DEF EchoInv, KernelType
  <2>8. FreeFd # None /\ FreeFd \notin Watched /\ \A s \in Slot : client_socket[s] # FreeFd
    <3>1. FreeFd # None /\ FreeFd \notin Watched
      BY <2>4, NoneIsNoFd DEF EchoInv, SlotsConsistent
    <3> QED
      BY <3>1 DEF Watched
  <2> HIDE DEF c, m, free
  <2>23. /\ \A s \in Slot : \/ client_socket'[s] = client_socket[s] /\ s # got
                            \/ s = got /\ got # None /\ client_socket[s] = None /\ client_socket'[s] = FreeFd
         /\ None \notin Slot
    <3>1. None \notin Slot
      BY EchoAssumption DEF Slot, None, EchoAssumption
    <3> QED
      BY <2>6, <3>1
  <2>9. backlog'[m] = Tail(backlog[m]) /\ backlog' \in [1..Masters -> Seq(Client)]
        /\ \A n \in 1..Masters : n # m => backlog'[n] = backlog[n]
    BY <2>1, <2>5
  <2>10. \A n \in 1..Masters : \A i \in 1..Len(backlog'[n]) : \E k \in 1..Len(backlog[n]) :
            backlog'[n][i] = backlog[n][k] /\ k = (IF n = m THEN i + 1 ELSE i)
    <3> SUFFICES ASSUME NEW n \in 1..Masters, NEW i \in 1..Len(backlog'[n])
                 PROVE  \E k \in 1..Len(backlog[n]) :
                          backlog'[n][i] = backlog[n][k] /\ k = (IF n = m THEN i + 1 ELSE i)
      OBVIOUS
    <3>1. CASE n = m
      <4>1. Len(backlog'[m]) = Len(backlog[m]) - 1 /\ backlog'[m][i] = backlog[m][i + 1]
        BY <3>1, <2>1, <2>9
      <4>2. i + 1 \in 1..Len(backlog[m])
        BY <3>1, <2>1, <4>1
      <4> QED
        BY <3>1, <4>1, <4>2
    <3>2. CASE n # m
      BY <3>2, <2>9
    <3> QED
      BY <3>1, <3>2
  <2>11. \A n \in 1..Masters : \A i \in 1..Len(backlog'[n]) : backlog'[n][i] # c /\ backlog'[n][i] \in Client
    <3> SUFFICES ASSUME NEW n \in 1..Masters, NEW i \in 1..Len(backlog'[n])
                 PROVE  backlog'[n][i] # c /\ backlog'[n][i] \in Client
      OBVIOUS
    <3>1. PICK k \in 1..Len(backlog[n]) : backlog'[n][i] = backlog[n][k] /\ k = (IF n = m THEN i + 1 ELSE i)
      BY <2>10
    <3>2. backlog[n][k] = backlog[m][1] => n = m /\ k = 1
      BY <2>1, <2>2 DEF EchoInv, BacklogInv
    <3>3. backlog'[n][i] \in Client
      BY <2>9
    <3> QED
      BY <2>2, <3>1, <3>2, <3>3
  <2>12. KernelType' /\ TableType'
    BY <1>1, <2>6, <2>7, <2>9 DEF EchoInv, KernelType, TableType
  <2>13. SocketsDiffer'
    BY <2>4, <2>7 DEF EchoInv, SocketsDiffer
  <2>14. \A d \in Client : d # c /\ Fresh(d) => Fresh(d)'
    BY <1>1, <2>7 DEF Fresh
  <2>15. BacklogInv'
    <3>1. \A d \in Client : peer'[d] = "idle" => Fresh(d)'
      BY <1>1, <2>3, <2>14 DEF EchoInv, BacklogInv
    <3>2. ASSUME NEW n \in 1..Masters, NEW i \in 1..Len(backlog'[n])
          PROVE  Fresh(backlog[n][i])' /\ peer'[backlog'[n][i]] # "idle"
      <4>1. PICK k \in 1..Len(backlog[n]) : backlog'[n][i] = backlog[n][k]
        BY <2>10
      <4>2. Fresh(backlog[n][k]) /\ peer[backlog[n][k]] # "idle"
        BY DEF EchoInv, BacklogInv
      <4>3. backlog[n][k] \in Client /\ backlog[n][k] # c
        BY <4>1, <2>11
      <4>4. Fresh(backlog[n][k]) => socket'[backlog[n][k]] = None /\ taken'[backlog[n][k]] = 0 /\ echoed'[backlog[n][k]] = <<>>
        BY <4>3, <1>1, <2>7 DEF Fresh
      <4> QED
        BY <4>1, <4>2, <4>4, <1>1 DEF Fresh
    <3>3. ASSUME NEW k \in 1..Masters, NEW n \in 1..Masters, NEW i \in 1..Len(backlog'[k]),
                 NEW j \in 1..Len(backlog'[n]), backlog'[k][i] = backlog'[n][j]
          PROVE  k = n /\ i = j
      <4>1. PICK i0 \in 1..Len(backlog[k]) : backlog'[k][i] = backlog[k][i0] /\ i0 = (IF k = m THEN i + 1 ELSE i)
        BY <2>10
      <4>2. PICK j0 \in 1..Len(backlog[n]) : backlog'[n][j] = backlog[n][j0] /\ j0 = (IF n = m THEN j + 1 ELSE j)
        BY <2>10
      <4>0. backlog[k][i0] = backlog[n][j0]
        BY <3>3, <4>1, <4>2
      <4>3. k = n /\ i0 = j0
        BY <4>0 DEF EchoInv, BacklogInv
      <4> QED
        BY <4>1, <4>2, <4>3
    <3> QED
      BY <3>1, <3>2, <3>3 DEF BacklogInv
  <2>16. Watched' \subseteq Watched \cup {FreeFd}
    <3> SUFFICES ASSUME NEW s \in Slot, client_socket'[s] # None
                 PROVE  client_socket'[s] \in Watched \cup {FreeFd}
      BY DEF Watched
    <3> QED
      BY <2>23 DEF Watched
  <2>24. Watched \subseteq Watched'
    <3> SUFFICES ASSUME NEW s \in Slot, client_socket[s] # None PROVE client_socket[s] \in Watched'
      BY DEF Watched
    <3>1. client_socket'[s] = client_socket[s]
      BY <2>23
    <3> QED
      BY <3>1 DEF Watched
  <2>17. \A s \in Slot, d \in Client : socket'[d] = client_socket'[s] /\ socket'[d] # None =>
            \/ d # c /\ s # got /\ socket[d] = client_socket[s] /\ socket[d] # None
            \/ d = c /\ s = got /\ got # None
    <3> SUFFICES ASSUME NEW s \in Slot, NEW d \in Client, socket'[d] = client_socket'[s], socket'[d] # None
                 PROVE  \/ d # c /\ s # got /\ socket[d] = client_socket[s] /\ socket[d] # None
                        \/ d = c /\ s = got /\ got # None
      OBVIOUS
    <3>1. CASE client_socket'[s] = client_socket[s] /\ s # got
      BY <3>1, <2>7, <2>8
    <3>2. CASE s = got /\ got # None /\ client_socket'[s] = FreeFd
      BY <3>2, <2>4, <2>7
    <3> QED
      BY <3>1, <3>2, <2>23
  <2>18. ContentInv'
    <3> SUFFICES ASSUME NEW s \in Slot, NEW d \in Client, socket'[d] = client_socket'[s], socket'[d] # None
                 PROVE  Holds(s, d)'
      BY DEF ContentInv
    <3>1. CASE d # c /\ socket[d] = client_socket[s] /\ socket[d] # None
      BY <3>1, <1>1 DEF EchoInv, ContentInv, Holds
    <3>2. CASE d = c /\ s = got /\ got # None
      <4>1. client_socket[s] = None
        BY <3>2, <2>6
      <4>2. bufferWrite'[s] = <<>> /\ from'[s] = 0 /\ taken'[d] = 0 /\ echoed'[d] = <<>>
        BY <4>1, <3>2, <1>1, <2>3 DEF EchoInv, SlotsConsistent, Fresh
      <4>3. Len(bufferWrite'[s]) = 0 /\ Len(echoed'[d]) = 0
        BY <4>2
      <4>4. Len(bufferWrite'[s]) <= taken'[d] /\ from'[s] \in 0..Len(bufferWrite'[s])
        BY <4>2, <4>3
      <4>5. Len(echoed'[d]) = taken'[d] - Len(bufferWrite'[s]) + from'[s]
        <5>1. taken'[d] - Len(bufferWrite'[s]) + from'[s] = 0 - 0 + 0
          BY <4>2, <4>3, Zenon
        <5>2. 0 - 0 + 0 = 0
          OBVIOUS
        <5> QED
          BY <4>3, <5>1, <5>2
      <4>6. \A i \in 1..Len(bufferWrite'[s]) :
              bufferWrite'[s][i] = <<d, taken'[d] - Len(bufferWrite'[s]) + i>>
        BY <4>3
      <4> QED
        BY <4>4, <4>5, <4>6 DEF Holds
    <3> QED
      BY <3>1, <3>2, <2>17
  <2>19. SlotsConsistent'
    <3>1. \A s, t \in Slot : client_socket'[s] = client_socket'[t] /\ client_socket'[s] # None => s = t
      BY <2>8, <2>23 DEF EchoInv, SlotsConsistent
    <3>2. \A s \in Slot : client_socket'[s] = None => bufferWrite'[s] = <<>> /\ from'[s] = 0
      BY <1>1, <2>8, <2>23 DEF EchoInv, SlotsConsistent
    <3>3. Watched \subseteq Watched'
      BY <2>24
    <3>4. \A fd \in Watched' : \E d \in Client : socket'[d] = fd
      <4> SUFFICES ASSUME NEW fd \in Watched' PROVE \E d \in Client : socket'[d] = fd
        OBVIOUS
      <4>1. CASE fd = FreeFd
        BY <4>1, <2>2, <2>7
      <4>2. CASE fd # FreeFd
        <5>1. fd \in Watched /\ fd # None
          BY <4>2, <2>16 DEF Watched
        <5>2. PICK d \in Client : socket[d] = fd
          BY <5>1 DEF EchoInv, SlotsConsistent
        <5>3. d # c
          BY <5>1, <5>2, <2>3 DEF Fresh
        <5> QED
          BY <5>2, <5>3, <2>7
      <4> QED
        BY <4>1, <4>2
    <3>5. writefds' \subseteq Watched'
      BY <3>3, <1>1 DEF EchoInv, SlotsConsistent
    <3> QED
      BY <3>1, <3>2, <3>4, <3>5 DEF SlotsConsistent
  <2>20. EchoInOrder'
    BY <1>1 DEF EchoInv, EchoInOrder
  <2>21. MastersInv'
    BY <1>1, <1>2, <1>4, <2>9 DEF EchoInv, MastersInv, RoundType, m
  <2>22. ReadyInv'
    <3>1. Watched \subseteq Watched' /\ \A fd \in Watched : fd # FreeFd /\ fd # None
      BY <2>8, <2>24 DEF Watched
    <3>2. \A fd \in readfds.clients : ReadableFd(fd)'
      <4> SUFFICES ASSUME NEW fd \in readfds.clients, NEW d \in Client, socket'[d] = fd
                   PROVE  Readable(d)'
        BY DEF ReadableFd
      <4>1. fd # FreeFd
        BY <1>4, <3>1
      <4>2. d # c /\ socket[d] = fd
        BY <4>1, <2>7
      <4> QED
        BY <4>2, <1>1, <1>4 DEF ReadableFd, Readable
    <3> QED
      BY <1>1, <1>2, <1>4, <3>1, <3>2 DEF ReadyInv
  <2> QED
    BY <1>3, <2>12, <2>13, <2>15, <2>18, <2>19, <2>20, <2>21, <2>22 DEF EchoInv
<1> QED
  BY <1>1, <1>5, <1>6
-----------------------------------------------------------------------------
(* Serving one entry.                                                      *)

\* A step that changes what one entry and its client have keeps the invariant when
\* the two still agree with each other.
LEMMA EntryStep ==
    ASSUME EchoInv, NEW k \in Slot, client_socket[k] # None,
           NEW c \in Client, socket[c] = client_socket[k],
           UNCHANGED <<client_socket, socket, backlog, peer, sent>>,
           writefds' \subseteq Watched, RoundType', MastersInv', ReadyInv',
           bufferWrite' \in [Slot -> Seq(Byte)], from' \in [Slot -> Int],
           echoed' \in [Client -> Seq(Byte)], taken' \in [Client -> Nat],
           \A s \in Slot : s # k => bufferWrite'[s] = bufferWrite[s] /\ from'[s] = from[s],
           \A d \in Client : d # c => echoed'[d] = echoed[d] /\ taken'[d] = taken[d],
           Holds(k, c)',
           \A j \in 1..Len(echoed'[c]) : echoed'[c][j] = <<c, j>>,
           Len(echoed'[c]) <= taken'[c]
    PROVE  EchoInv'
<1>1. Watched' = Watched /\ Watched \subseteq Fd
  BY DEF Watched, EchoInv, TableType
<1>2. TableType' /\ KernelType'
  <2>1. writefds' \subseteq Fd
    BY <1>1
  <2> QED
    BY <2>1 DEF EchoInv, TableType, KernelType
<1>3. SocketsDiffer' /\ EchoInOrder'
  <2>1. SocketsDiffer'
    BY DEF EchoInv, SocketsDiffer
  <2>2. ASSUME NEW d \in Client
        PROVE  /\ \A j \in 1..Len(echoed'[d]) : echoed'[d][j] = <<d, j>>
               /\ Len(echoed'[d]) <= taken'[d]
    <3>1. CASE d = c
      BY <3>1
    <3>2. CASE d # c
      <4>1. echoed'[d] = echoed[d] /\ taken'[d] = taken[d]
        BY <3>2
      <4> QED
        BY <4>1 DEF EchoInv, EchoInOrder
    <3> QED
      BY <3>1, <3>2
  <2> QED
    BY <2>1, <2>2 DEF EchoInOrder
<1>4. \A d \in Client : Fresh(d) => d # c /\ Fresh(d)'
  BY DEF Fresh
<1>8. \A m, n \in 1..Masters : \A i \in 1..Len(backlog[m]), j \in 1..Len(backlog[n]) :
        backlog[m][i] = backlog[n][j] => m = n /\ i = j
  BY DEF EchoInv, BacklogInv
<1>5. BacklogInv'
  <2>1. \A d \in Client : peer'[d] = "idle" => Fresh(d)'
    BY <1>4 DEF EchoInv, BacklogInv
  <2>2. ASSUME NEW m \in 1..Masters, NEW i \in 1..Len(backlog'[m])
        PROVE  Fresh(backlog[m][i])' /\ peer'[backlog'[m][i]] # "idle"
    <3>1. backlog[m] \in Seq(Client) /\ i \in 1..Len(backlog[m])
      BY DEF EchoInv, KernelType
    <3>2. backlog[m][i] \in Client /\ Fresh(backlog[m][i]) /\ peer[backlog[m][i]] # "idle"
      BY <3>1 DEF EchoInv, BacklogInv
    <3>3. Fresh(backlog[m][i]) => /\ socket'[backlog[m][i]] = None /\ taken'[backlog[m][i]] = 0
                                  /\ echoed'[backlog[m][i]] = <<>>
      BY <3>2, <1>4 DEF Fresh
    <3> QED
      BY <3>2, <3>3 DEF Fresh
  <2>3. ASSUME NEW m \in 1..Masters, NEW n \in 1..Masters, NEW i \in 1..Len(backlog'[m]),
               NEW j \in 1..Len(backlog'[n]), backlog'[m][i] = backlog'[n][j]
        PROVE  m = n /\ i = j
    <3>1. i \in 1..Len(backlog[m]) /\ j \in 1..Len(backlog[n]) /\ backlog[m][i] = backlog[n][j]
      BY <2>3
    <3> QED
      BY <3>1, <1>8
  <2> QED
    BY <2>1, <2>2, <2>3 DEF BacklogInv
<1>6. ContentInv'
  <2> SUFFICES ASSUME NEW s \in Slot, NEW d \in Client, socket[d] = client_socket[s], socket[d] # None
               PROVE  Holds(s, d)'
    BY DEF ContentInv
  <2>1. CASE s = k
    <3>1. d = c
      BY <2>1 DEF EchoInv, SocketsDiffer
    <3> QED
      BY <2>1, <3>1
  <2>2. CASE s # k
    <3>1. d # c
      BY <2>2 DEF EchoInv, SlotsConsistent
    <3>2. Holds(s, d)
      BY DEF EchoInv, ContentInv
    <3> QED
      BY <2>2, <3>1, <3>2 DEF Holds
  <2> QED
    BY <2>1, <2>2
<1>7. SlotsConsistent'
  <2>1. \A s \in Slot : client_socket'[s] = None => bufferWrite'[s] = <<>> /\ from'[s] = 0
    BY DEF EchoInv, SlotsConsistent
  <2> QED
    BY <1>1, <2>1 DEF EchoInv, SlotsConsistent
<1> QED
  BY <1>2, <1>3, <1>5, <1>6, <1>7 DEF EchoInv

\* The entry whose turn it is to be written to.
LEMMA WriteRound ==
    ASSUME EchoInv, place = "write", Advance(MAX_SOCKETS, "read"),
           status' \in {"running", "killed"},
           UNCHANGED <<masters, readfds, client_socket, socket, taken, peer, sent>>
    PROVE  cursor \in Slot /\ RoundType' /\ MastersInv' /\ ReadyInv'
<1>1. MAX_SOCKETS \in Nat /\ MAX_SOCKETS > 0
  BY EchoAssumption DEF EchoAssumption
<1>2. \/ cursor < MAX_SOCKETS /\ place' = "write" /\ cursor' = cursor + 1
      \/ ~(cursor < MAX_SOCKETS) /\ place' = "read" /\ cursor' = 1
  BY <1>1, AdvanceCases
<1>3. cursor \in Slot
  BY <1>1 DEF EchoInv, RoundType, Slot
<1>4. RoundType'
  BY <1>1, <1>2 DEF EchoInv, RoundType
<1>5. MastersInv'
  BY <1>2 DEF MastersInv
<1>6. ReadyInv'
  <2>1. readfds.clients \subseteq Watched /\ \A fd \in readfds.clients : ReadableFd(fd)
    BY DEF EchoInv, ReadyInv
  <2>2. Watched' = Watched /\ \A fd \in readfds.clients : ReadableFd(fd)'
    BY <2>1 DEF Watched, ReadableFd, Readable
  <2> QED
    BY <1>2, <2>1, <2>2 DEF ReadyInv
<1> QED
  BY <1>3, <1>4, <1>5, <1>6

\* A part of a buffer.
LEMMA PartOf ==
    ASSUME NEW S, NEW q \in Seq(S), NEW lo \in 1..Len(q), NEW hi \in lo..Len(q)
    PROVE  /\ SubSeq(q, lo, hi) \in Seq(S) /\ Len(SubSeq(q, lo, hi)) = hi - lo + 1
           /\ \A i \in 1..Len(SubSeq(q, lo, hi)) : SubSeq(q, lo, hi)[i] = q[lo + i - 1]
<1>1. lo \in Int /\ hi \in Int /\ lo <= hi /\ \A i \in lo..hi : q[i] \in S
  OBVIOUS
<1>2. /\ SubSeq(q, lo, hi) \in Seq(S)
      /\ Len(SubSeq(q, lo, hi)) = IF lo <= hi THEN hi - lo + 1 ELSE 0
      /\ \A i \in 1..hi - lo + 1 : SubSeq(q, lo, hi)[i] = q[lo + i - 1]
  BY <1>1, SubSeqProperties
<1> QED
  BY <1>1, <1>2

\* What send took goes to the client whose bytes the entry holds.
LEMMA SendsStep ==
    ASSUME EchoInv, RoundType', MastersInv', ReadyInv',
           UNCHANGED <<client_socket, socket, backlog, taken, peer, sent>>,
           NEW k \in Slot, client_socket[k] \in writefds,
           NEW n \in 1..BytesToSend(k), Sends(k, n)
    PROVE  EchoInv'
<1>1. client_socket[k] # None
  BY NoneIsNoFd DEF EchoInv, TableType
<1>2. PICK c \in Client : /\ c = Owner(client_socket[k]) /\ socket[c] = client_socket[k]
                          /\ Holds(k, c) /\ peer[c] # "reset"
  BY <1>1, SlotOwner DEF Sends
<1>0. PICK b, part : b = bufferWrite[k] /\ part = SubSeq(b, from[k] + 1, from[k] + n)
  OBVIOUS
<1>3. /\ b \in Seq(Byte) /\ Len(b) \in Nat /\ from[k] \in 0..Len(b)
      /\ taken[c] \in Nat /\ Len(b) <= taken[c]
      /\ echoed[c] \in Seq(Byte) /\ Len(echoed[c]) = taken[c] - Len(b) + from[k]
      /\ \A i \in 1..Len(b) : b[i] = <<c, taken[c] - Len(b) + i>>
  BY <1>0, <1>2 DEF Holds, EchoInv, TableType, KernelType
<1>4. n \in Nat /\ n > 0 /\ from[k] + n <= Len(b)
  BY <1>0, <1>3 DEF BytesToSend
<1>5. part \in Seq(Byte) /\ Len(part) = n /\ \A i \in 1..n : part[i] = b[from[k] + i]
  <2>1. from[k] + 1 \in 1..Len(b) /\ from[k] + n \in (from[k] + 1)..Len(b)
    BY <1>3, <1>4
  <2>2. /\ part \in Seq(Byte) /\ Len(part) = n
        /\ \A i \in 1..Len(part) : part[i] = b[from[k] + 1 + i - 1]
    <3>1. b \in Seq(Byte)
      BY <1>3
    <3>2. PICK lo \in 1..Len(b) : lo = from[k] + 1
      BY <2>1
    <3>5. PICK hi \in lo..Len(b) : hi = from[k] + n
      BY <2>1, <3>2
    <3>3. /\ SubSeq(b, lo, hi) \in Seq(Byte) /\ Len(SubSeq(b, lo, hi)) = hi - lo + 1
          /\ \A i \in 1..Len(SubSeq(b, lo, hi)) : SubSeq(b, lo, hi)[i] = b[lo + i - 1]
      BY <3>1, PartOf
    <3>4. part = SubSeq(b, lo, hi)
      BY <1>0, <3>2, <3>5
    <3> QED
      <4>1. /\ part \in Seq(Byte) /\ Len(part) = hi - lo + 1
            /\ \A i \in 1..Len(part) : part[i] = b[lo + i - 1]
        BY <3>3, <3>4, Zenon
      <4>2. Len(part) = n
        <5>1. from[k] \in Nat /\ n \in Nat /\ lo \in Nat /\ hi \in Nat
          BY <1>3, <1>4
        <5>2. hi - lo + 1 = n
          BY <5>1, <3>2, <3>5
        <5> QED
          BY <4>1, <5>2
      <4>3. \A i \in 1..Len(part) : part[i] = b[from[k] + 1 + i - 1]
        BY <4>1, <3>2
      <4> QED
        BY <4>1, <4>2, <4>3
  <2>4. \A i \in 1..n : from[k] + 1 + i - 1 = from[k] + i
    BY <1>3
  <2> QED
    BY <2>2, <2>4
<1>6. \A i \in 1..n : part[i] = <<c, Len(echoed[c]) + i>>
  <2> SUFFICES ASSUME NEW i \in 1..n PROVE part[i] = <<c, Len(echoed[c]) + i>>
    OBVIOUS
  <2>1. from[k] + i \in 1..Len(b)
    BY <1>3, <1>4
  <2>2. part[i] = <<c, taken[c] - Len(b) + (from[k] + i)>>
    BY <1>3, <1>5, <2>1
  <2>3. taken[c] - Len(b) + (from[k] + i) = Len(echoed[c]) + i
    BY <1>3
  <2> QED
    BY <2>2, <2>3
<1>7. echoed' = [echoed EXCEPT ![c] = echoed[c] \o part]
  BY <1>0, <1>2 DEF Sends
<1>8. /\ echoed' \in [Client -> Seq(Byte)] /\ echoed'[c] = echoed[c] \o part
      /\ \A d \in Client : d # c => echoed'[d] = echoed[d]
  BY <1>2, <1>3, <1>5, <1>7 DEF EchoInv, KernelType
<1>9. /\ Len(echoed'[c]) = Len(echoed[c]) + n
      /\ \A j \in 1..Len(echoed'[c]) :
           echoed'[c][j] = IF j <= Len(echoed[c]) THEN echoed[c][j] ELSE part[j - Len(echoed[c])]
  BY <1>3, <1>4, <1>5, <1>8
<1>10. \A j \in 1..Len(echoed'[c]) : echoed'[c][j] = <<c, j>>
  <2> SUFFICES ASSUME NEW j \in 1..Len(echoed'[c]) PROVE echoed'[c][j] = <<c, j>>
    OBVIOUS
  <2>1. CASE j <= Len(echoed[c])
    <3>1. j \in 1..Len(echoed[c]) /\ echoed'[c][j] = echoed[c][j]
      BY <2>1, <1>3, <1>9
    <3> QED
      BY <3>1, <1>2 DEF EchoInv, EchoInOrder
  <2>2. CASE j > Len(echoed[c])
    <3>0. ~(j <= Len(echoed[c])) /\ j \in Nat
      BY <2>2, <1>3
    <3>4. j <= Len(echoed[c]) + n
      BY <1>9
    <3>5. j - Len(echoed[c]) \in 1..n
      BY <3>0, <3>4, <1>3, <1>4
    <3>6. echoed'[c][j] = part[j - Len(echoed[c])]
      BY <3>0, <1>9
    <3>1. j - Len(echoed[c]) \in 1..n /\ echoed'[c][j] = part[j - Len(echoed[c])]
      BY <3>5, <3>6
    <3>2. part[j - Len(echoed[c])] = <<c, Len(echoed[c]) + (j - Len(echoed[c]))>>
      BY <3>1, <1>6
    <3>3. Len(echoed[c]) + (j - Len(echoed[c])) = j
      BY <1>3
    <3> QED
      BY <3>1, <3>2, <3>3
  <2> QED
    BY <2>1, <2>2, <1>3
<1>11. Len(echoed'[c]) <= taken'[c]
  BY <1>3, <1>4, <1>9
<1>12. /\ bufferWrite' \in [Slot -> Seq(Byte)] /\ from' \in [Slot -> Int]
       /\ \A s \in Slot : s # k => bufferWrite'[s] = bufferWrite[s] /\ from'[s] = from[s]
       /\ \/ n = BytesToSend(k) /\ bufferWrite'[k] = <<>> /\ from'[k] = 0
          \/ bufferWrite'[k] = b /\ from'[k] = from[k] + n
       /\ writefds' \subseteq writefds
  <2>1. bufferWrite \in [Slot -> Seq(Byte)] /\ from \in [Slot -> Int] /\ from[k] + n \in Int
    BY <1>3, <1>4 DEF EchoInv, TableType
  <2>2. CASE n = BytesToSend(k)
    <3>1. /\ bufferWrite' = [bufferWrite EXCEPT ![k] = <<>>] /\ from' = [from EXCEPT ![k] = 0]
          /\ writefds' = writefds \ {client_socket[k]}
      BY <2>2 DEF Sends, Cleared
    <3> QED
      BY <2>1, <2>2, <3>1
  <2>3. CASE n # BytesToSend(k)
    <3>1. from' = [from EXCEPT ![k] = from[k] + n] /\ UNCHANGED <<bufferWrite, writefds>>
      BY <2>3 DEF Sends
    <3> QED
      BY <1>0, <2>1, <3>1
  <2> QED
    BY <2>2, <2>3
<1>13. Holds(k, c)'
  <2>1. CASE n = BytesToSend(k) /\ bufferWrite'[k] = <<>> /\ from'[k] = 0
    <3>1. Len(bufferWrite'[k]) = 0
      BY <2>1
    <3>2. Len(echoed'[c]) = taken'[c]
      BY <2>1, <1>0, <1>3, <1>9 DEF BytesToSend
    <3>3. Len(bufferWrite'[k]) <= taken'[c] /\ from'[k] \in 0..Len(bufferWrite'[k])
      BY <3>1, <2>1, <1>3
    <3>4. Len(echoed'[c]) = taken'[c] - Len(bufferWrite'[k]) + from'[k]
      BY <3>1, <3>2, <2>1, <1>3
    <3>5. \A i \in 1..Len(bufferWrite'[k]) :
            bufferWrite'[k][i] = <<c, taken'[c] - Len(bufferWrite'[k]) + i>>
      BY <3>1
    <3> QED
      BY <3>3, <3>4, <3>5 DEF Holds
  <2>2. CASE bufferWrite'[k] = b /\ from'[k] = from[k] + n
    <3>1. from'[k] \in 0..Len(bufferWrite'[k])
      BY <2>2, <1>3, <1>4
    <3>2. Len(echoed'[c]) = taken'[c] - Len(bufferWrite'[k]) + from'[k]
      BY <2>2, <1>3, <1>4, <1>9
    <3> QED
      BY <2>2, <3>1, <3>2, <1>3 DEF Holds
  <2> QED
    BY <2>1, <2>2, <1>12
<1>14. writefds' \subseteq Watched /\ taken' \in [Client -> Nat]
  BY <1>12 DEF EchoInv, SlotsConsistent, KernelType
<1> QED
  BY <1>1, <1>2, <1>8, <1>10, <1>11, <1>12, <1>13, <1>14, EntryStep

\* A send that fails moves the position of an entry whose connection is gone.
LEMMA SendFailsStep ==
    ASSUME EchoInv, RoundType', MastersInv', ReadyInv',
           UNCHANGED <<client_socket, socket, backlog, taken, peer, sent>>,
           NEW k \in Slot, client_socket[k] \in writefds, SendFails(k)
    PROVE  EchoInv'
<1>1. client_socket[k] # None
  BY NoneIsNoFd DEF EchoInv, TableType
<1>2. PICK c \in Client : c = Owner(client_socket[k]) /\ socket[c] = client_socket[k] /\ Holds(k, c)
  BY <1>1, SlotOwner
<1>3. peer[c] = "reset" /\ UNCHANGED <<echoed, bufferWrite, writefds>>
      /\ (from' = [from EXCEPT ![k] = from[k] - 1] \/ from' = from)
  BY <1>2 DEF SendFails
<1>4. /\ from' \in [Slot -> Int] /\ \A s \in Slot : s # k => from'[s] = from[s]
      /\ bufferWrite' \in [Slot -> Seq(Byte)] /\ echoed' \in [Client -> Seq(Byte)]
      /\ taken' \in [Client -> Nat] /\ writefds' \subseteq Watched
  BY <1>3 DEF EchoInv, TableType, KernelType, SlotsConsistent
<1>5. Holds(k, c)'
  BY <1>2, <1>3 DEF Holds
<1>6. /\ \A j \in 1..Len(echoed'[c]) : echoed'[c][j] = <<c, j>>
      /\ Len(echoed'[c]) <= taken'[c]
  BY <1>2, <1>3 DEF EchoInv, EchoInOrder
<1> QED
  BY <1>1, <1>2, <1>3, <1>4, <1>5, <1>6, EntryStep

\* Whether or not the entry can be written to.
LEMMA WriteStepInv == ASSUME EchoInv, WriteStep PROVE EchoInv'
<1>1. /\ place = "write" /\ status = "running" /\ Advance(MAX_SOCKETS, "read")
      /\ UNCHANGED <<masters, readfds, client_socket, socket, backlog, taken, peer, sent>>
      /\ \/ client_socket[cursor] \in writefds /\ handleWrite(cursor)
         \/ UNCHANGED <<status, echoed, bufferWrite, from, writefds>>
  BY DEF WriteStep, Running, peers
<1>2. \/ UNCHANGED <<status, echoed, bufferWrite, from, writefds>>
      \/ client_socket[cursor] \in writefds /\ \E n \in 1..BytesToSend(cursor) : Sends(cursor, n)
      \/ client_socket[cursor] \in writefds /\ SendFails(cursor)
  BY <1>1 DEF handleWrite
<1>3. status' \in {"running", "killed"}
  BY <1>1, <1>2 DEF Sends, SendFails
<1>4. cursor \in Slot /\ RoundType' /\ MastersInv' /\ ReadyInv'
  BY <1>1, <1>3, WriteRound
<1>5. CASE UNCHANGED <<status, echoed, bufferWrite, from, writefds>>
  BY <1>1, <1>4, <1>5, SameTable DEF kernel, peers
<1>6. CASE client_socket[cursor] \in writefds /\ \E n \in 1..BytesToSend(cursor) : Sends(cursor, n)
  BY <1>1, <1>4, <1>6, SendsStep
<1>7. CASE client_socket[cursor] \in writefds /\ SendFails(cursor)
  BY <1>1, <1>4, <1>7, SendFailsStep
<1> QED
  BY <1>2, <1>5, <1>6, <1>7
-----------------------------------------------------------------------------
(* read.                                                                   *)

\* The entry whose turn it is to be read from.
LEMMA ReadRound ==
    ASSUME EchoInv, place = "read", Advance(MAX_SOCKETS, "select"), UNCHANGED <<status, masters, readfds>>
    PROVE  /\ cursor \in Slot /\ RoundType' /\ MastersInv'
           /\ (place' = "read" /\ cursor' > cursor) \/ place' = "select"
<1>1. MAX_SOCKETS \in Nat /\ MAX_SOCKETS > 0
  BY EchoAssumption DEF EchoAssumption
<1>2. \/ cursor < MAX_SOCKETS /\ place' = "read" /\ cursor' = cursor + 1
      \/ ~(cursor < MAX_SOCKETS) /\ place' = "select" /\ cursor' = 1
  BY <1>1, AdvanceCases
<1>3. cursor \in Slot
  BY <1>1 DEF EchoInv, RoundType, Slot
<1>4. RoundType'
  BY <1>1, <1>2 DEF EchoInv, RoundType
<1>5. MastersInv'
  BY <1>2 DEF MastersInv
<1>6. (place' = "read" /\ cursor' > cursor) \/ place' = "select"
  BY <1>2, <1>3 DEF Slot
<1> QED
  BY <1>3, <1>4, <1>5, <1>6

\* The entries that come later are still readable when this one has been served.
LEMMA LaterReady ==
    ASSUME EchoInv, place = "read", cursor \in Slot,
           (place' = "read" /\ cursor' > cursor) \/ place' = "select", cursor' \in Nat,
           UNCHANGED <<readfds, peer, sent>>, client_socket[cursor] # None,
           NEW c \in Client, socket[c] = client_socket[cursor],
           \A s \in Slot : s # cursor => client_socket'[s] = client_socket[s],
           \A d \in Client : d # c => socket'[d] = socket[d] /\ taken'[d] = taken[d],
           socket'[c] \in {socket[c], None}
    PROVE  ReadyInv'
<1> SUFFICES ASSUME place' = "read", NEW s \in Slot, s >= cursor', client_socket'[s] \in readfds.clients,
                    NEW d \in Client, socket'[d] = client_socket'[s]
             PROVE  Readable(d)'
  BY DEF ReadyInv, ReadableFd
<1>1. Slot \subseteq Nat /\ s > cursor
  BY DEF Slot
<1>2. client_socket'[s] = client_socket[s] /\ s >= cursor /\ s # cursor
  BY <1>1
<1>3. client_socket[s] # None
  BY <1>2, NoneIsNoFd DEF EchoInv, RoundType
<1>4. d # c /\ socket[d] = client_socket[s]
  <2>1. client_socket[s] # client_socket[cursor]
    BY <1>2, <1>3 DEF EchoInv, SlotsConsistent
  <2> QED
    BY <1>2, <1>3, <2>1
<1>5. Readable(d)
  BY <1>2, <1>4 DEF EchoInv, ReadyInv, ReadableFd
<1> QED
  BY <1>4, <1>5 DEF Readable

\* The bytes that are read are the next ones of the entry's client.
LEMMA ReadsBytesStep ==
    ASSUME EchoInv, RoundType', MastersInv',
           place = "read", cursor \in Slot, (place' = "read" /\ cursor' > cursor) \/ place' = "select",
           UNCHANGED <<readfds, backlog, echoed, peer, sent>>,
           client_socket[cursor] \in readfds.clients, ReadsBytes(cursor)
    PROVE  EchoInv'
<1>1. client_socket[cursor] # None /\ cursor' \in Nat
  BY NoneIsNoFd DEF EchoInv, RoundType
<1>2. PICK c \in Client : /\ c = Owner(client_socket[cursor]) /\ socket[c] = client_socket[cursor]
                          /\ Holds(cursor, c) /\ client_socket[cursor] \in Watched
  BY <1>1, SlotOwner
<1>3. PICK k \in Slot : k = cursor
  OBVIOUS
<1>4. PICK n : n = Min({BUFFSIZE, sent[c] - taken[c]})
  OBVIOUS
<1>5. PICK more : more = [i \in 1..n |-> <<c, taken[c] + i>>]
  OBVIOUS
<1>6. /\ peer[c] # "reset" /\ n > 0
      /\ taken' = [taken EXCEPT ![c] = taken[c] + n]
      /\ bufferWrite' = [bufferWrite EXCEPT ![k] = bufferWrite[k] \o more]
      /\ writefds' = writefds \cup {client_socket[k]}
      /\ UNCHANGED <<from, socket, client_socket>>
  BY <1>2, <1>3, <1>4, <1>5 DEF ReadsBytes
<1>7. taken[c] \in Nat /\ sent[c] \in Nat /\ BUFFSIZE \in Nat
  BY EchoAssumption DEF EchoInv, KernelType, EchoAssumption
<1>8. n \in Nat
  <2>1. sent[c] - taken[c] \in Int /\ BUFFSIZE \in Int
    BY <1>7
  <2>2. n \in Int
    BY <1>4, <2>1, LeastOfTwo
  <2> QED
    BY <1>6, <2>2
<1>9. more \in Seq(Byte) /\ Len(more) = n /\ \A i \in 1..n : more[i] = <<c, taken[c] + i>>
  BY <1>5, <1>7, <1>8 DEF Byte
<1>10. PICK b : b = bufferWrite[k]
  OBVIOUS
<1>11. /\ b \in Seq(Byte) /\ Len(b) \in Nat /\ Len(b) <= taken[c]
       /\ \A i \in 1..Len(b) : b[i] = <<c, taken[c] - Len(b) + i>>
       /\ from[k] \in 0..Len(b) /\ Len(echoed[c]) = taken[c] - Len(b) + from[k]
  BY <1>2, <1>3, <1>6, <1>10 DEF Holds, EchoInv, TableType
<1>12. /\ bufferWrite' \in [Slot -> Seq(Byte)] /\ bufferWrite'[k] = b \o more
       /\ \A s \in Slot : s # k => bufferWrite'[s] = bufferWrite[s] /\ from'[s] = from[s]
       /\ from' \in [Slot -> Int] /\ echoed' \in [Client -> Seq(Byte)] /\ from'[k] = from[k]
  BY <1>6, <1>9, <1>10, <1>11 DEF EchoInv, TableType, KernelType
<1>13. /\ taken' \in [Client -> Nat] /\ taken'[c] = taken[c] + n
       /\ \A d \in Client : d # c => echoed'[d] = echoed[d] /\ taken'[d] = taken[d]
  BY <1>6, <1>7, <1>8 DEF EchoInv, KernelType
<1>14. /\ Len(b \o more) = Len(b) + n
       /\ \A i \in 1..Len(b \o more) : (b \o more)[i] = IF i <= Len(b) THEN b[i] ELSE more[i - Len(b)]
  <2>1. b \in Seq(Byte) /\ more \in Seq(Byte) /\ Len(more) = n
    BY <1>9, <1>11
  <2> QED
    BY <2>1
<1>15. Holds(k, c)'
  <2>1. Len(b \o more) <= taken'[c] /\ from'[k] \in 0..Len(b \o more)
    BY <1>7, <1>8, <1>11, <1>12, <1>13, <1>14
  <2>2. Len(echoed'[c]) = taken'[c] - Len(b \o more) + from'[k]
    BY <1>7, <1>8, <1>11, <1>12, <1>13, <1>14
  <2>3. \A i \in 1..Len(b \o more) : (b \o more)[i] = <<c, taken'[c] - Len(b \o more) + i>>
    <3> SUFFICES ASSUME NEW i \in 1..Len(b \o more)
                 PROVE  (b \o more)[i] = <<c, taken'[c] - Len(b \o more) + i>>
      OBVIOUS
    <3>1. taken'[c] - Len(b \o more) = taken[c] - Len(b)
      BY <1>7, <1>8, <1>11, <1>13, <1>14
    <3>2. CASE i <= Len(b)
      <4>1. i \in 1..Len(b) /\ (b \o more)[i] = b[i]
        BY <3>2, <1>11, <1>14
      <4> QED
        BY <3>1, <4>1, <1>11
    <3>3. CASE ~(i <= Len(b))
      <4>1. i - Len(b) \in 1..n /\ (b \o more)[i] = more[i - Len(b)]
        BY <3>3, <1>8, <1>11, <1>14
      <4>2. taken[c] + (i - Len(b)) = taken[c] - Len(b) + i
        BY <1>7, <1>11
      <4>3. more[i - Len(b)] = <<c, taken[c] + (i - Len(b))>>
        BY <4>1, <1>9
      <4> QED
        BY <3>1, <4>1, <4>2, <4>3
    <3> QED
      BY <3>2, <3>3
  <2> QED
    BY <1>12, <2>1, <2>2, <2>3 DEF Holds
<1>16. (\A j \in 1..Len(echoed'[c]) : echoed'[c][j] = <<c, j>>) /\ Len(echoed'[c]) <= taken'[c]
  <2>1. Len(echoed[c]) <= taken'[c]
    BY <1>7, <1>8, <1>11, <1>13
  <2> QED
    BY <2>1 DEF EchoInv, EchoInOrder
<1>17. writefds' \subseteq Watched
  BY <1>2, <1>3, <1>6 DEF EchoInv, SlotsConsistent
<1>18. ReadyInv'
  BY <1>1, <1>2, <1>6, <1>13, LaterReady
<1> QED
  BY <1>1, <1>2, <1>3, <1>6, <1>12, <1>13, <1>15, <1>16, <1>17, <1>18, EntryStep

\* A connection that has ended takes its entry, its bit and its bytes with it.
LEMMA ReadsEndStep ==
    ASSUME EchoInv, RoundType', MastersInv',
           place = "read", cursor \in Slot, (place' = "read" /\ cursor' > cursor) \/ place' = "select",
           UNCHANGED <<readfds, backlog, echoed, peer, sent>>,
           client_socket[cursor] \in readfds.clients, ReadsEnd(cursor)
    PROVE  EchoInv'
<1>1. client_socket[cursor] # None /\ cursor' \in Nat
  BY NoneIsNoFd DEF EchoInv, RoundType
<1>2. PICK c \in Client : c = Owner(client_socket[cursor]) /\ socket[c] = client_socket[cursor]
  BY <1>1, SlotOwner
<1>3. PICK k \in Slot : k = cursor
  OBVIOUS
<1>4. /\ socket' = [socket EXCEPT ![c] = None]
      /\ client_socket' = [client_socket EXCEPT ![k] = None]
      /\ writefds' = writefds \ {client_socket[k]}
      /\ bufferWrite' = [bufferWrite EXCEPT ![k] = <<>>] /\ from' = [from EXCEPT ![k] = 0]
      /\ UNCHANGED taken
  BY <1>2, <1>3 DEF ReadsEnd, Cleared
<1>5. /\ socket' \in [Client -> Fd \cup {None}] /\ socket'[c] = None
      /\ \A d \in Client : d # c => socket'[d] = socket[d]
  BY <1>4 DEF EchoInv, KernelType
<1>6. /\ client_socket' \in [Slot -> Fd \cup {None}] /\ client_socket'[k] = None
      /\ \A s \in Slot : s # k => client_socket'[s] = client_socket[s]
  BY <1>4 DEF EchoInv, TableType
<1>7. /\ bufferWrite' \in [Slot -> Seq(Byte)] /\ bufferWrite'[k] = <<>>
      /\ \A s \in Slot : s # k => bufferWrite'[s] = bufferWrite[s]
  BY <1>4 DEF EchoInv, TableType
<1>8. /\ from' \in [Slot -> Int] /\ from'[k] = 0
      /\ \A s \in Slot : s # k => from'[s] = from[s]
  BY <1>4 DEF EchoInv, TableType
<1>9. TableType' /\ KernelType'
  BY <1>4, <1>5, <1>6, <1>7, <1>8 DEF EchoInv, TableType, KernelType
<1>10. SocketsDiffer' /\ EchoInOrder'
  <2>1. SocketsDiffer'
    BY <1>5 DEF EchoInv, SocketsDiffer
  <2>2. EchoInOrder'
    BY <1>4 DEF EchoInv, EchoInOrder
  <2> QED
    BY <2>1, <2>2
<1>11. BacklogInv'
  <2>1. \A d \in Client : Fresh(d) => socket'[d] = None /\ taken'[d] = 0 /\ echoed'[d] = <<>>
    BY <1>4, <1>5 DEF Fresh
  <2>2. \A d \in Client : peer'[d] = "idle" => Fresh(d)'
    BY <2>1 DEF EchoInv, BacklogInv, Fresh
  <2>3. ASSUME NEW m \in 1..Masters, NEW i \in 1..Len(backlog'[m])
        PROVE  Fresh(backlog[m][i])' /\ peer'[backlog'[m][i]] # "idle"
    <3>1. backlog[m] \in Seq(Client) /\ i \in 1..Len(backlog[m])
      BY DEF EchoInv, KernelType
    <3>2. backlog[m][i] \in Client /\ Fresh(backlog[m][i]) /\ peer[backlog[m][i]] # "idle"
      BY <3>1 DEF EchoInv, BacklogInv
    <3> QED
      BY <2>1, <3>2 DEF Fresh
  <2>4. \A m, n \in 1..Masters : \A i \in 1..Len(backlog[m]), j \in 1..Len(backlog[n]) :
          backlog[m][i] = backlog[n][j] => m = n /\ i = j
    BY DEF EchoInv, BacklogInv
  <2>5. ASSUME NEW m \in 1..Masters, NEW n \in 1..Masters, NEW i \in 1..Len(backlog'[m]),
               NEW j \in 1..Len(backlog'[n]), backlog'[m][i] = backlog'[n][j]
        PROVE  m = n /\ i = j
    <3>1. i \in 1..Len(backlog[m]) /\ j \in 1..Len(backlog[n]) /\ backlog[m][i] = backlog[n][j]
      BY <2>5
    <3> QED
      BY <3>1, <2>4
  <2> QED
    BY <2>2, <2>3, <2>5 DEF BacklogInv
<1>12. ContentInv'
  <2> SUFFICES ASSUME NEW s \in Slot, NEW d \in Client, socket'[d] = client_socket'[s], socket'[d] # None
               PROVE  Holds(s, d)'
    BY DEF ContentInv
  <2>1. d # c /\ s # k
    BY <1>5, <1>6
  <2>2. Holds(s, d)
    BY <2>1, <1>5, <1>6 DEF EchoInv, ContentInv
  <2> QED
    BY <2>1, <2>2, <1>4, <1>7, <1>8 DEF Holds
<1>13. SlotsConsistent'
  <2>1. \A s, t \in Slot : client_socket'[s] = client_socket'[t] /\ client_socket'[s] # None => s = t
    BY <1>6 DEF EchoInv, SlotsConsistent
  <2>2. \A s \in Slot : client_socket'[s] = None => bufferWrite'[s] = <<>> /\ from'[s] = 0
    BY <1>6, <1>7, <1>8 DEF EchoInv, SlotsConsistent
  <2>3. \A fd \in Watched : fd # client_socket[k] => fd \in Watched'
    <3> SUFFICES ASSUME NEW s \in Slot, client_socket[s] # None, client_socket[s] # client_socket[k]
                 PROVE  client_socket[s] \in Watched'
      BY DEF Watched
    <3>1. client_socket'[s] = client_socket[s]
      BY <1>6
    <3> QED
      BY <3>1 DEF Watched
  <2>4. writefds' \subseteq Watched'
    BY <1>4, <2>3 DEF EchoInv, SlotsConsistent
  <2>5. ASSUME NEW fd \in Watched' PROVE \E d \in Client : socket'[d] = fd
    <3>1. PICK s \in Slot : client_socket'[s] = fd /\ fd # None
      BY DEF Watched
    <3>2. s # k /\ client_socket[s] = fd
      BY <3>1, <1>6
    <3>3. fd # client_socket[k] /\ fd \in Watched
      BY <3>1, <3>2 DEF EchoInv, SlotsConsistent, Watched
    <3>4. PICK d \in Client : socket[d] = fd
      BY <3>3 DEF EchoInv, SlotsConsistent
    <3> QED
      BY <3>3, <3>4, <1>2, <1>3, <1>5
  <2> QED
    BY <2>1, <2>2, <2>4, <2>5 DEF SlotsConsistent
<1>14. ReadyInv'
  BY <1>1, <1>2, <1>3, <1>4, <1>5, <1>6, LaterReady
<1> QED
  BY <1>9, <1>10, <1>11, <1>12, <1>13, <1>14 DEF EchoInv

\* Whether or not the entry can be read from.
LEMMA ReadStepInv == ASSUME EchoInv, ReadStep PROVE EchoInv'
<1>1. /\ place = "read" /\ Advance(MAX_SOCKETS, "select")
      /\ UNCHANGED <<status, masters, readfds, backlog, echoed, peer, sent>>
      /\ \/ client_socket[cursor] \in readfds.clients /\ (ReadsBytes(cursor) \/ ReadsEnd(cursor))
         \/ UNCHANGED <<taken, bufferWrite, from, writefds, socket, client_socket>>
  BY DEF ReadStep, peers
<1>2. /\ cursor \in Slot /\ RoundType' /\ MastersInv'
      /\ (place' = "read" /\ cursor' > cursor) \/ place' = "select"
  BY <1>1, ReadRound
<1>3. CASE client_socket[cursor] \in readfds.clients /\ ReadsBytes(cursor)
  BY <1>1, <1>2, <1>3, ReadsBytesStep
<1>4. CASE client_socket[cursor] \in readfds.clients /\ ReadsEnd(cursor)
  BY <1>1, <1>2, <1>4, ReadsEndStep
<1>5. CASE UNCHANGED <<taken, bufferWrite, from, writefds, socket, client_socket>>
  <2>1. ReadyInv'
    <3> SUFFICES ASSUME place' = "read", NEW s \in Slot, s >= cursor', client_socket'[s] \in readfds'.clients
                 PROVE  ReadableFd(client_socket[s])'
      BY <1>2 DEF ReadyInv
    <3>1. s >= cursor /\ client_socket[s] \in readfds.clients
      BY <1>1, <1>2, <1>5 DEF Slot, RoundType
    <3>2. ReadableFd(client_socket[s])
      BY <1>1, <3>1 DEF EchoInv, ReadyInv
    <3> QED
      BY <3>2, <1>1, <1>5 DEF ReadableFd, Readable
  <2> QED
    BY <1>1, <1>2, <1>5, <2>1, SameTable DEF kernel, peers
<1> QED
  BY <1>1, <1>3, <1>4, <1>5

-----------------------------------------------------------------------------
(* The theorems.                                                           *)

\* Every step keeps the invariant.
LEMMA EchoStep == EchoInv /\ [Next]_vars => EchoInv'
<1> SUFFICES ASSUME EchoInv, [Next]_vars PROVE EchoInv'
  OBVIOUS
<1>1. CASE Setup
  BY <1>1, SetupStep
<1>2. CASE \E datagram \in BOOLEAN : Select(datagram)
  BY <1>2, SelectStep
<1>3. CASE handleAddrInfo
  BY <1>3, AddrInfoStep
<1>4. CASE AcceptStep
  BY <1>4, AcceptStepInv
<1>5. CASE WriteStep
  BY <1>5, WriteStepInv
<1>6. CASE ReadStep
  BY <1>6, ReadStepInv
<1>7. ASSUME NEW c \in Client, ClientSteps(c) PROVE EchoInv'
  BY <1>7, ConnectStep, SentOrLeft DEF ClientSteps
<1>8. CASE UNCHANGED vars
  <2>1. /\ UNCHANGED <<status, masters, place, cursor, readfds, writefds, client_socket, bufferWrite, from>>
        /\ UNCHANGED <<kernel, peers, socket, backlog, taken, echoed, peer, sent>>
    BY <1>8 DEF vars, round, table, kernel, peers
  <2>2. RoundType' /\ MastersInv'
    BY <2>1 DEF EchoInv, RoundType, MastersInv
  <2>3. ReadyInv'
    BY <2>1 DEF EchoInv, ReadyInv, Watched, ReadableFd, Readable
  <2> QED
    BY <2>1, <2>2, <2>3, SameTable
<1> QED
  BY <1>1, <1>2, <1>3, <1>4, <1>5, <1>6, <1>7, <1>8 DEF Next, Server

\* The invariant holds for any clients, entries, sockets and sizes.
THEOREM EchoInvariance == Spec => []EchoInv
<1>1. Init => EchoInv
  BY EchoInit
<1>2. EchoInv /\ [Next]_vars => EchoInv'
  BY EchoStep
<1> QED
  BY <1>1, <1>2, PTL DEF Spec

\* A client gets its own bytes, in order and once: bufferWrite and its position, which
\* tcpEchoAddrinfo.c keeps per entry, are those of the client that has the entry.
THEOREM EchoesInOrder == Spec => []EchoInOrder
<1>1. EchoInv => EchoInOrder
  BY DEF EchoInv
<1> QED
  BY <1>1, EchoInvariance, PTL

\* Entries, descriptors, write bits and buffers of tcpEchoAddrinfo.c agree.
THEOREM EntriesAgree == Spec => []SlotsConsistent
<1>1. EchoInv => SlotsConsistent
  BY DEF EchoInv
<1> QED
  BY <1>1, EchoInvariance, PTL

\* No read of tcpEchoAddrinfo.c waits: what select reported of a descriptor is still
\* so of the connection that has it when its turn comes.
THEOREM ReadsDoNotWait == Spec => []ReadsReady
<1>1. EchoInv => ReadsReady
  <2> SUFFICES ASSUME EchoInv, place = "read", client_socket[cursor] \in readfds.clients
               PROVE  /\ \E c \in Client : socket[c] = client_socket[cursor]
                      /\ Readable(Owner(client_socket[cursor]))
    BY DEF ReadsReady
  <2>1. cursor \in Slot
    BY EchoAssumption DEF EchoInv, RoundType, Slot, EchoAssumption
  <2>2. client_socket[cursor] # None
    BY NoneIsNoFd DEF EchoInv, RoundType
  <2>3. /\ Owner(client_socket[cursor]) \in Client
        /\ socket[Owner(client_socket[cursor])] = client_socket[cursor]
    BY <2>1, <2>2, SlotOwner
  <2>4. ReadableFd(client_socket[cursor])
    BY <2>1 DEF EchoInv, ReadyInv, RoundType
  <2> QED
    BY <2>3, <2>4 DEF ReadableFd
<1> QED
  BY <1>1, EchoInvariance, PTL

\* The cursor stays within the longest of the loops.
LEMMA CursorBound == EchoInv => cursor \in 1..Max({Masters, MAX_SOCKETS, 1})
<1> SUFFICES ASSUME EchoInv PROVE cursor \in 1..Max({Masters, MAX_SOCKETS, 1})
  OBVIOUS
<1>1. Masters \in Nat /\ MAX_SOCKETS \in Nat
  BY EchoAssumption DEF EchoAssumption
<1>2. \E x \in {Masters, MAX_SOCKETS, 1} : \A y \in {Masters, MAX_SOCKETS, 1} : x >= y
  BY <1>1
<1>3. /\ Max({Masters, MAX_SOCKETS, 1}) \in {Masters, MAX_SOCKETS, 1}
      /\ \A y \in {Masters, MAX_SOCKETS, 1} : Max({Masters, MAX_SOCKETS, 1}) >= y
  BY <1>2 DEF Max
<1>4. cursor \in Nat \ {0} /\ (cursor = 1 \/ cursor <= Masters \/ cursor <= MAX_SOCKETS)
  BY DEF EchoInv, RoundType
<1> QED
  BY <1>1, <1>3, <1>4

\* Every variable of the model is of its type, and an entry's position stays within
\* its bytes unless its connection was reset.
THEOREM EchoTypeCorrect == Spec => []EchoTypeOK
<1>1. EchoInv => EchoTypeOK
  <2> SUFFICES ASSUME EchoInv PROVE EchoTypeOK
    OBVIOUS
  <2>1. ASSUME NEW s \in Slot
        PROVE  from[s] \in 0..Len(bufferWrite[s]) \/ peer[Owner(client_socket[s])] = "reset"
    <3>1. CASE client_socket[s] = None
      <4>1. bufferWrite[s] = <<>> /\ from[s] = 0
        BY <3>1 DEF EchoInv, SlotsConsistent
      <4>2. Len(bufferWrite[s]) = 0
        BY <4>1
      <4> QED
        BY <4>1, <4>2
    <3>2. CASE client_socket[s] # None
      BY <3>2, SlotOwner DEF Holds
    <3> QED
      BY <3>1, <3>2
  <2>2. /\ status \in {"setup", "running", "exited", "killed", "overrun"}
        /\ masters \subseteq 1..Masters
        /\ place \in {"select", "udp", "accept", "write", "read"}
        /\ writefds \cup readfds.clients \subseteq Fd
    BY DEF EchoInv, RoundType, TableType
  <2>3. /\ client_socket \in [Slot -> Fd \cup {None}] /\ bufferWrite \in [Slot -> Seq(Byte)]
        /\ from \in [Slot -> Int]
        /\ socket \in [Client -> Fd \cup {None}] /\ echoed \in [Client -> Seq(Byte)]
    BY DEF EchoInv, TableType, KernelType
  <2> QED
    BY <2>1, <2>2, <2>3, CursorBound DEF EchoTypeOK
<1> QED
  BY <1>1, EchoInvariance, PTL
=============================================================================

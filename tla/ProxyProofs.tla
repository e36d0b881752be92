----------------------------- MODULE ProxyProofs -----------------------------
(***************************************************************************)
(* Proofs about Proxy for any number of descriptors and structs and any    *)
(* size of the pool: the references of a struct count its registrations,   *)
(* nothing is freed or pooled twice, and socksv5_done never aborts.        *)
(***************************************************************************)
EXTENDS Proxy, FiniteSetTheorems, TLAPS

\* Is fd registered with struct s?
Has(fd, s) == fd \in Fd /\ registry[fd].data = s
One(condition) == IF condition THEN 1 ELSE 0

-----------------------------------------------------------------------------
(* The inductive invariant.                                                *)

RegistrationInv == \A fd \in Fd :
    /\ registry[fd] # R!Free => registry[fd].data \in Struct \cup {Passive}
    /\ registry[fd].data = Passive => fd = server

HeldInv == \A s \in Struct, fd \in Fd :
    registry[fd].data = s => memory[s] = "live" /\ fd \in {client_fd[s], origin_fd[s]}

LiveInv == \A s \in Struct : memory[s] = "live" =>
    /\ client_fd[s] # origin_fd[s]
    /\ references[s] = One(Has(client_fd[s], s)) + One(Has(origin_fd[s], s))
    /\ references[s] > 0

\* While a connection is being closed, and no other, what is left to close is
\* what is left of its registrations.
ClosingInv == closing # <<>> =>
    /\ main = "serve"
    /\ Len(closing) <= 2
    /\ Len(closing) = 2 => closing[1] # closing[2]
    /\ \E s \in Struct :
        /\ references[s] = Len(closing)
        /\ \A i \in 1..Len(closing) : Has(closing[i], s)

WholeInv == \A s \in Struct :
    memory[s] = "live" /\ main # "finally" /\ (closing = <<>> \/ registry[Head(closing)].data # s) =>
        /\ Has(client_fd[s], s)
        /\ origin_fd[s] # NoFd => Has(origin_fd[s], s)

PoolInv ==
    /\ \A i, j \in 1..Len(pool) : pool[i] = pool[j] => i = j
    /\ \A s \in Struct : memory[s] = "pooled" <=> \E i \in 1..Len(pool) : pool[i] = s

OpenInv ==
    /\ main # "aborted"
    /\ main \in {"loop", "select", "serve"} => open = Registered
    /\ main = "setup" => Registered = {} /\ memory = [s \in Struct |-> "none"] /\ pool = <<>>

IInv ==
    /\ ProxyTypeOK
    /\ RegistrationInv /\ HeldInv /\ LiveInv /\ ClosingInv /\ WholeInv
    /\ PoolInv /\ OpenInv

-----------------------------------------------------------------------------
(* The selector.                                                           *)

Registry == [Fd -> [data : Struct \cup {Passive, NoData}, interest : R!Interests]]

\* A descriptor is free exactly if it carries no data.
LEMMA FreeData ==
    ASSUME ProxyTypeOK, RegistrationInv, NEW fd \in Fd
    PROVE  registry[fd] = R!Free <=> registry[fd].data = NoData
BY ProxyAssumption DEF RegistrationInv, R!Free

\* Registering gives one free descriptor its data and touches no other.
LEMMA RegisterEffect ==
    ASSUME ProxyTypeOK, RegistrationInv, NEW fd \in Fd, NEW interest \in R!Interests,
           NEW data \in Struct \cup {Passive}, R!Register(fd, interest, data)
    PROVE  /\ registry[fd].data = NoData
           /\ registry' \in Registry /\ watch_r' \subseteq Fd /\ watch_w' \subseteq Fd
           /\ registry'[fd].data = data /\ registry'[fd] # R!Free
           /\ \A n \in Fd : n # fd => registry'[n] = registry[n]
<1>1. registry \in Registry
  BY DEF ProxyTypeOK, Registry
<1>2. registry' = [registry EXCEPT ![fd] = [data |-> data, interest |-> interest]]
  BY DEF R!Register
<1>3. watch_r' \subseteq Fd /\ watch_w' \subseteq Fd
  BY DEF R!Register, R!Watch, Fd, R!Fd
<1>4. registry[fd].data = NoData
  BY DEF R!Register, R!Free
<1>5. registry'[fd] = [data |-> data, interest |-> interest]
  BY <1>1, <1>2 DEF Registry
<1> QED
  BY <1>1, <1>2, <1>3, <1>4, <1>5, ProxyAssumption DEF Registry, R!Free

\* Unregistering frees one descriptor and touches no other.
LEMMA UnregisterEffect ==
    ASSUME ProxyTypeOK, NEW fd \in Fd, R!Unregister(fd)
    PROVE  /\ registry' \in Registry /\ watch_r' \subseteq Fd /\ watch_w' \subseteq Fd
           /\ registry'[fd].data = NoData /\ registry'[fd] = R!Free
           /\ \A n \in Fd : n # fd => registry'[n] = registry[n]
<1>1. registry \in Registry
  BY DEF ProxyTypeOK, Registry
<1>2. registry' = [registry EXCEPT ![fd] = R!Free]
  BY DEF R!Unregister
<1>3. watch_r' \subseteq Fd /\ watch_w' \subseteq Fd
  BY DEF R!Unregister, R!Watch, Fd, R!Fd
<1>4. R!Free \in [data : Struct \cup {Passive, NoData}, interest : R!Interests] /\ R!Free.data = NoData
  BY DEF R!Free, R!Interests, R!OP_NOOP
<1> QED
  BY <1>1, <1>2, <1>3, <1>4 DEF Registry

\* Setting interests leaves every descriptor its data.
LEMMA SetInterestEffect ==
    ASSUME ProxyTypeOK, RegistrationInv, NEW fd \in Fd, NEW interest \in R!Interests,
           R!SetInterest(fd, interest)
    PROVE  /\ registry' \in Registry /\ watch_r' \subseteq Fd /\ watch_w' \subseteq Fd
           /\ \A n \in Fd : registry'[n].data = registry[n].data
           /\ \A n \in Fd : registry'[n] = R!Free <=> registry[n] = R!Free
<1>1. registry \in Registry
  BY DEF ProxyTypeOK, Registry
<1>2. registry' = [registry EXCEPT ![fd] = [registry[fd] EXCEPT !.interest = interest]]
  BY DEF R!SetInterest
<1>3. watch_r' \subseteq Fd /\ watch_w' \subseteq Fd
  BY DEF R!SetInterest, R!Watch, Fd, R!Fd
<1>4. registry[fd].data # NoData
  BY FreeData DEF R!SetInterest
<1> QED
  BY <1>1, <1>2, <1>3, <1>4 DEF Registry, R!Free
-----------------------------------------------------------------------------
(* Structs.                                                                *)

HeapType ==
    /\ memory \in [Struct -> {"none", "live", "pooled"}]
    /\ references \in [Struct -> 0..2]
    /\ pool \in Seq(Struct) /\ Len(pool) <= max_pool

\* A struct that is released is no longer live and is in the pool at most once.
LEMMA ReleasedEffect ==
    ASSUME HeapType, PoolInv, NEW s \in Struct, memory[s] # "pooled", Released(s)
    PROVE  /\ memory' \in [Struct -> {"none", "live", "pooled"}]
           /\ pool' \in Seq(Struct) /\ Len(pool') <= max_pool
           /\ memory'[s] # "live" /\ \A t \in Struct : t # s => memory'[t] = memory[t]
           /\ PoolInv'
<1>0. max_pool \in Nat
  BY ProxyAssumption
<1>1. CASE Len(pool) < max_pool
  <2>1. pool' = <<s>> \o pool /\ memory' = [memory EXCEPT ![s] = "pooled"]
    BY <1>1 DEF Released
  <2>2. Len(pool') = Len(pool) + 1 /\ pool' \in Seq(Struct)
    BY <2>1 DEF HeapType
  <2>3. pool'[1] = s /\ \A i \in 1..Len(pool) : pool'[i + 1] = pool[i]
    BY <2>1 DEF HeapType
  <2>4. \A i \in 1..Len(pool') : i = 1 \/ (i - 1 \in 1..Len(pool) /\ pool'[i] = pool[i - 1])
    BY <2>2, <2>3 DEF HeapType
  <2>5. \A i \in 1..Len(pool) : pool[i] # s
    BY DEF PoolInv
  <2>6. \A i, j \in 1..Len(pool') : pool'[i] = pool'[j] => i = j
    <3> SUFFICES ASSUME NEW i \in 1..Len(pool'), NEW j \in 1..Len(pool'), pool'[i] = pool'[j]
                 PROVE  i = j
      OBVIOUS
    <3>1. CASE i = 1 \/ j = 1
      BY <3>1, <2>3, <2>4, <2>5
    <3>2. CASE i # 1 /\ j # 1
      <4>1. i - 1 \in 1..Len(pool) /\ j - 1 \in 1..Len(pool) /\ pool[i - 1] = pool[j - 1]
        BY <3>2, <2>4
      <4>2. i - 1 = j - 1
        BY <4>1 DEF PoolInv
      <4> QED
        BY <4>2
    <3> QED
      BY <3>1, <3>2
  <2>7. \A t \in Struct : memory'[t] = "pooled" <=> \E i \in 1..Len(pool') : pool'[i] = t
    <3> SUFFICES ASSUME NEW t \in Struct
                 PROVE  memory'[t] = "pooled" <=> \E i \in 1..Len(pool') : pool'[i] = t
      OBVIOUS
    <3>1. CASE t = s
      <4>1. memory'[t] = "pooled" /\ pool'[1] = t /\ 1 \in 1..Len(pool')
        BY <3>1, <2>1, <2>2, <2>3 DEF HeapType
      <4> QED
        BY <4>1
    <3>2. CASE t # s
      <4>1. memory'[t] = memory[t]
        BY <3>2, <2>1 DEF HeapType
      <4>2. ASSUME NEW i \in 1..Len(pool), pool[i] = t
            PROVE  i + 1 \in 1..Len(pool') /\ pool'[i + 1] = t
        BY <4>2, <2>2, <2>3 DEF HeapType
      <4>3. ASSUME NEW i \in 1..Len(pool'), pool'[i] = t
            PROVE  i - 1 \in 1..Len(pool) /\ pool[i - 1] = t
        BY <4>3, <3>2, <2>3, <2>4
      <4> QED
        BY <4>1, <4>2, <4>3 DEF PoolInv
    <3> QED
      BY <3>1, <3>2
  <2> QED
    BY <1>0, <1>1, <2>1, <2>2, <2>6, <2>7 DEF HeapType, PoolInv
<1>2. CASE ~(Len(pool) < max_pool)
  <2>1. pool' = <<>> \o pool /\ memory' = [memory EXCEPT ![s] = "none"]
    BY <1>2, Zenon DEF Released
  <2>2. pool' = pool
    BY <2>1 DEF HeapType
  <2> QED
    BY <2>1, <2>2 DEF HeapType, PoolInv
<1> QED
  BY <1>1, <1>2

\* A reference is given up: the last one releases the struct, another is counted.
LEMMA DestroyEffect ==
    ASSUME HeapType, PoolInv, NEW s \in Struct, memory[s] = "live", references[s] > 0,
           socks5_destroy(s)
    PROVE  /\ HeapType' /\ PoolInv'
           /\ \A t \in Struct : t # s => memory'[t] = memory[t] /\ references'[t] = references[t]
           /\ IF references[s] = 1 THEN memory'[s] # "live"
              ELSE memory'[s] = "live" /\ references[s] = 2 /\ references'[s] = 1
<1>1. CASE references[s] = 1
  <2>1. Released(s) /\ references' = references
    BY <1>1 DEF socks5_destroy
  <2> QED
    BY <1>1, <2>1, ReleasedEffect DEF HeapType
<1>2. CASE references[s] # 1
  <2>1. references' = [references EXCEPT ![s] = @ - 1] /\ memory' = memory /\ pool' = pool
    BY <1>2 DEF socks5_destroy
  <2>2. references[s] = 2
    BY <1>2 DEF HeapType
  <2> QED
    BY <1>2, <2>1, <2>2 DEF HeapType, PoolInv
<1> QED
  BY <1>1, <1>2

\* What socks5_new returns was nobody's: it leaves the pool if it was there.
LEMMA NewEffect ==
    ASSUME HeapType, PoolInv, NEW s \in Struct, NEW fd, socks5_new(s, fd)
    PROVE  /\ HeapType' /\ PoolInv'
           /\ memory[s] # "live" /\ memory'[s] = "live" /\ references'[s] = 1
           /\ \A t \in Struct : t # s => memory'[t] = memory[t] /\ references'[t] = references[t]
<1>1. /\ memory' = [memory EXCEPT ![s] = "live"]
      /\ references' = [references EXCEPT ![s] = 1]
      /\ TakenFrom(s)
  BY DEF socks5_new
<1>2. CASE pool # <<>> /\ s = Head(pool) /\ pool' = Tail(pool)
  <2>1. Len(pool) > 0 /\ pool[1] = s /\ pool' \in Seq(Struct) /\ Len(pool') = Len(pool) - 1
    BY <1>2 DEF HeapType
  <2>2. \A i \in 1..Len(pool') : pool'[i] = pool[i + 1]
    BY <1>2, <2>1 DEF HeapType
  <2>3. memory[s] = "pooled"
    BY <2>1 DEF PoolInv, HeapType
  <2>4. \A t \in Struct : memory'[t] = "pooled" <=> \E i \in 1..Len(pool') : pool'[i] = t
    <3> SUFFICES ASSUME NEW t \in Struct
                 PROVE  memory'[t] = "pooled" <=> \E i \in 1..Len(pool') : pool'[i] = t
      OBVIOUS
    <3>1. CASE t = s
      <4>1. memory'[t] = "live"
        BY <3>1, <1>1 DEF HeapType
      <4>2. ASSUME NEW i \in 1..Len(pool'), pool'[i] = t
            PROVE  FALSE
        <5>1. i + 1 \in 1..Len(pool) /\ 1 \in 1..Len(pool) /\ pool[i + 1] = pool[1]
          BY <3>1, <4>2, <2>1, <2>2 DEF HeapType
        <5> QED
          BY <5>1 DEF PoolInv
      <4> QED
        BY <4>1, <4>2
    <3>2. CASE t # s
      <4>1. memory'[t] = memory[t]
        BY <3>2, <1>1 DEF HeapType
      <4>2. ASSUME NEW i \in 1..Len(pool), pool[i] = t
            PROVE  i - 1 \in 1..Len(pool') /\ pool'[i - 1] = t
        BY <4>2, <3>2, <2>1, <2>2 DEF HeapType
      <4>3. ASSUME NEW i \in 1..Len(pool'), pool'[i] = t
            PROVE  i + 1 \in 1..Len(pool) /\ pool[i + 1] = t
        BY <4>3, <2>1, <2>2 DEF HeapType
      <4> QED
        BY <4>1, <4>2, <4>3 DEF PoolInv
    <3> QED
      BY <3>1, <3>2
  <2>5. \A i, j \in 1..Len(pool') : pool'[i] = pool'[j] => i = j
    <3> SUFFICES ASSUME NEW i \in 1..Len(pool'), NEW j \in 1..Len(pool'), pool'[i] = pool'[j]
                 PROVE  i = j
      OBVIOUS
    <3>1. i + 1 \in 1..Len(pool) /\ j + 1 \in 1..Len(pool) /\ pool[i + 1] = pool[j + 1]
      BY <2>1, <2>2 DEF HeapType
    <3>2. i + 1 = j + 1
      BY <3>1 DEF PoolInv
    <3> QED
      BY <3>2
  <2> QED
    BY <1>1, <2>1, <2>3, <2>4, <2>5, ProxyAssumption DEF HeapType, PoolInv
<1>3. CASE pool = <<>> /\ memory[s] = "none" /\ UNCHANGED pool
  BY <1>1, <1>3 DEF HeapType, PoolInv
<1> QED
  BY <1>1, <1>2, <1>3 DEF TakenFrom
-----------------------------------------------------------------------------
(* The steps.                                                              *)

\* Steps that leave owners and structs alone keep what relates them.
LEMMA SameOwners ==
    ASSUME IInv, UNCHANGED <<heap, client_fd, origin_fd>>,
           \A fd \in Fd : registry'[fd].data = registry[fd].data,
           \A fd \in Fd : registry'[fd] = R!Free <=> registry[fd] = R!Free
    PROVE  RegistrationInv' /\ HeldInv' /\ LiveInv' /\ PoolInv' /\ Registered' = Registered
<1>1. \A fd, s : Has(fd, s)' <=> Has(fd, s)
  BY DEF Has
<1>2. UNCHANGED <<memory, references, pool, client_fd, origin_fd>>
  BY DEF heap
<1>3. RegistrationInv'
  BY DEF IInv, RegistrationInv
<1>4. HeldInv'
  BY <1>2 DEF IInv, HeldInv
<1>5. LiveInv'
  BY <1>2 DEF IInv, LiveInv, Has, One, ProxyTypeOK
<1>6. PoolInv'
  BY <1>2 DEF IInv, PoolInv
<1> QED
  BY <1>3, <1>4, <1>5, <1>6 DEF Registered

\* So do steps that change nothing of the selector.
LEMMA SameSelector ==
    ASSUME IInv, UNCHANGED <<selector, heap, client_fd, origin_fd>>
    PROVE  RegistrationInv' /\ HeldInv' /\ LiveInv' /\ PoolInv' /\ Registered' = Registered
BY SameOwners DEF selector

\* Init sets up no connection.
LEMMA InitInv == Init => IInv
<1> SUFFICES ASSUME Init PROVE IInv
  OBVIOUS
<1>1. registry = [fd \in Fd |-> R!Free] /\ watch_r = {} /\ watch_w = {}
  BY DEF Init, R!Init, Fd
<1>2. R!Free \in [data : Struct \cup {Passive, NoData}, interest : R!Interests] /\ R!Free.data = NoData
  BY DEF R!Free, R!Interests, R!OP_NOOP
<1>3. ProxyTypeOK
  <2>1. registry \in [Fd -> [data : Struct \cup {Passive, NoData}, interest : R!Interests]]
    BY <1>1, <1>2, Zenon
  <2>2. pool = <<>> /\ closing = <<>> /\ Len(pool) <= max_pool
    BY ProxyAssumption DEF Init
  <2>3. pool \in Seq(Struct) /\ closing \in Seq(Fd)
    BY <2>2
  <2>4. done \in BOOLEAN
    BY DEF Init
  <2> QED
    BY <1>1, <2>1, <2>2, <2>3, <2>4 DEF Init, ProxyTypeOK
<1>4. \A fd \in Fd : registry[fd] = R!Free /\ registry[fd].data = NoData
  BY <1>1, <1>2
<1>5. RegistrationInv /\ HeldInv /\ Registered = {}
  BY <1>4, ProxyAssumption DEF RegistrationInv, HeldInv, Registered
<1>6. LiveInv /\ ClosingInv /\ WholeInv /\ PoolInv /\ OpenInv
  BY <1>5 DEF Init, LiveInv, ClosingInv, WholeInv, PoolInv, OpenInv
<1> QED
  BY <1>3, <1>5, <1>6 DEF IInv

\* Signal, Loop, Select, SelectFails, Skip, Continues and Served, of which the
\* invariant sees at most that main moves on.
LEMMA QuietStep ==
    ASSUME IInv, UNCHANGED <<selector, open, heap, fields>>,
           \/ UNCHANGED <<main, closing>>
           \/ closing = <<>> /\ UNCHANGED closing /\ main \in {"loop", "select", "serve"}
              /\ main' \in {"loop", "select", "serve", "finally"},
           done' \in BOOLEAN, ready' \subseteq Fd \X {"OP_READ", "OP_WRITE", "block"}
    PROVE  IInv'
<1>1. UNCHANGED <<registry, watch_r, watch_w, open, memory, references, pool, client_fd, origin_fd, state>>
  BY DEF selector, heap, fields
<1>2. RegistrationInv' /\ HeldInv' /\ LiveInv' /\ PoolInv' /\ Registered' = Registered
  BY <1>1, SameSelector DEF selector, heap
<1>3. ProxyTypeOK'
  BY <1>1 DEF IInv, ProxyTypeOK
<1>4. ClosingInv'
  <2>1. UNCHANGED <<main, closing>> => ClosingInv'
    BY <1>1 DEF IInv, ClosingInv, Has
  <2>2. closing' = <<>> => ClosingInv'
    BY DEF ClosingInv
  <2> QED
    BY <2>1, <2>2
<1>5. WholeInv'
  <2> SUFFICES ASSUME NEW s \in Struct, memory[s] = "live", main' # "finally",
                      closing = <<>> \/ registry[Head(closing)].data # s
               PROVE  /\ Has(client_fd[s], s)
                      /\ origin_fd[s] # NoFd => Has(origin_fd[s], s)
    BY <1>1 DEF WholeInv, Has
  <2>1. main # "finally"
    OBVIOUS
  <2> QED
    BY <2>1 DEF IInv, WholeInv
<1>6. OpenInv'
  BY <1>1, <1>2 DEF IInv, OpenInv
<1> QED
  BY <1>2, <1>3, <1>4, <1>5, <1>6 DEF IInv
\* A registration more, for struct s or for the passive socket.
LEMMA Gained ==
    ASSUME IInv, NEW fd \in Fd, NEW interest \in R!Interests, NEW data \in Struct \cup {Passive},
           R!Register(fd, interest, data), data = Passive => fd = server
    PROVE  /\ \A n, s : Has(n, s)' <=> (n # fd /\ Has(n, s)) \/ (n = fd /\ s = data)
           /\ Registered' = Registered \cup {fd} /\ fd \notin Registered
           /\ RegistrationInv'
<1>1. /\ registry'[fd].data = data /\ registry'[fd] # R!Free
      /\ \A n \in Fd : n # fd => registry'[n] = registry[n]
  BY RegisterEffect DEF IInv
<1>2. registry[fd] = R!Free
  BY DEF R!Register
<1> QED
  BY <1>1, <1>2, ProxyAssumption DEF Has, Registered, RegistrationInv, IInv

\* A registration less.
LEMMA Lost ==
    ASSUME IInv, NEW fd \in Fd, R!Unregister(fd)
    PROVE  /\ \A n : \A s \in Struct : Has(n, s)' <=> n # fd /\ Has(n, s)
           /\ Registered' = Registered \ {fd}
           /\ RegistrationInv'
<1>1. /\ registry'[fd].data = NoData /\ registry'[fd] = R!Free
      /\ \A n \in Fd : n # fd => registry'[n] = registry[n]
  BY UnregisterEffect DEF IInv
<1> QED
  BY <1>1, ProxyAssumption DEF Has, Registered, RegistrationInv, IInv

\* The first registration is the passive socket's (main(1).c:64-154).
LEMMA SetupStep == ASSUME IInv, Setup PROVE IInv'
<1>0. /\ main = "setup" /\ Registered = {} /\ memory = [s \in Struct |-> "none"] /\ pool = <<>>
      /\ closing = <<>>
  BY DEF Setup, IInv, OpenInv, ClosingInv
<1>1. UNCHANGED <<memory, references, pool, client_fd, origin_fd, state, done, ready, closing>>
  BY DEF Setup, heap, fields
<1>2. \A s \in Struct : memory[s] # "live"
  BY <1>0
<1>3. server \in Fd
  BY ProxyAssumption DEF server, Fd, R!Fd
<1>4. CASE main' = "loop" /\ open' = {server} /\ R!Register(server, {"OP_READ"}, Passive)
  <2>1. {"OP_READ"} \in R!Interests
    BY DEF R!Interests
  <2>2. Registered' = {server} /\ RegistrationInv'
    BY <1>0, <1>3, <1>4, <2>1, Gained
  <2>3. registry' \in Registry /\ watch_r' \subseteq Fd /\ watch_w' \subseteq Fd
    BY <1>3, <1>4, <2>1, RegisterEffect DEF IInv
  <2>4. ProxyTypeOK'
    BY <1>1, <1>3, <1>4, <2>3 DEF IInv, ProxyTypeOK, Registry
  <2>5. HeldInv'
    <3>1. \A fd \in Fd, s \in Struct : ~Has(fd, s)
      BY <1>2 DEF IInv, HeldInv, Has
    <3>2. \A fd \in Fd, s \in Struct : ~Has(fd, s)'
      BY <1>3, <1>4, <2>1, <3>1, Gained, ProxyAssumption
    <3> QED
      BY <3>2 DEF HeldInv, Has
  <2>6. LiveInv' /\ ClosingInv' /\ WholeInv' /\ OpenInv'
    BY <1>0, <1>1, <1>2, <1>4, <2>2 DEF LiveInv, ClosingInv, WholeInv, OpenInv
  <2>7. PoolInv'
    BY <1>1 DEF IInv, PoolInv
  <2> QED
    BY <2>2, <2>4, <2>5, <2>6, <2>7 DEF IInv
<1>5. CASE main' = "finally" /\ open' \in {{}, {server}} /\ UNCHANGED selector
  <2>1. RegistrationInv' /\ HeldInv' /\ LiveInv' /\ PoolInv'
    BY <1>1, <1>5, SameSelector DEF heap
  <2>2. ProxyTypeOK'
    BY <1>1, <1>3, <1>5 DEF IInv, ProxyTypeOK, selector
  <2>3. ClosingInv' /\ WholeInv' /\ OpenInv'
    BY <1>0, <1>1, <1>5 DEF ClosingInv, WholeInv, OpenInv
  <2> QED
    BY <2>1, <2>2, <2>3 DEF IInv
<1> QED
  BY <1>4, <1>5 DEF Setup

\* A callback that runs finds no connection half closed.
LEMMA TurnFacts ==
    ASSUME IInv, NEW e, Turn(e)
    PROVE  /\ main = "serve" /\ closing = <<>> /\ open = Registered
           /\ e[1] \in Fd
           /\ ready' \subseteq Fd \X {"OP_READ", "OP_WRITE", "block"}
           /\ \A s \in Struct : memory[s] = "live" =>
                Has(client_fd[s], s) /\ (origin_fd[s] # NoFd => Has(origin_fd[s], s))
BY DEF Turn, IInv, ProxyTypeOK, OpenInv, WholeInv

\* accept gives a descriptor that nothing refers to (socks5nio(1).c:162-191).
LEMMA PassiveAcceptStep == ASSUME IInv, NEW e, PassiveAccept(e) PROVE IInv'
<1>1. Turn(e) /\ main' = main /\ done' = done /\ closing' = closing
  BY DEF PassiveAccept
<1>2. PICK fd \in Fd, s \in Struct :
        /\ NewFd(fd) /\ open' = open \cup {fd}
        /\ socks5_new(s, fd) /\ R!Register(fd, {"OP_READ"}, s)
  BY DEF PassiveAccept
<1>3. HeapType' /\ PoolInv' /\ memory[s] # "live" /\ memory'[s] = "live" /\ references'[s] = 1
      /\ \A t \in Struct : t # s => memory'[t] = memory[t] /\ references'[t] = references[t]
  BY <1>2, NewEffect DEF IInv, ProxyTypeOK, HeapType
<1>4. /\ client_fd' = [client_fd EXCEPT ![s] = fd]
      /\ origin_fd' = [origin_fd EXCEPT ![s] = NoFd]
      /\ state' = [state EXCEPT ![s] = "HELLO_READ"]
  BY <1>2 DEF socks5_new
<1>5. /\ client_fd'[s] = fd /\ origin_fd'[s] = NoFd
      /\ \A t \in Struct : t # s => client_fd'[t] = client_fd[t] /\ origin_fd'[t] = origin_fd[t]
  BY <1>4 DEF IInv, ProxyTypeOK
<1>6. {"OP_READ"} \in R!Interests
  BY DEF R!Interests
<1>7. /\ \A n, t : Has(n, t)' <=> (n # fd /\ Has(n, t)) \/ (n = fd /\ t = s)
      /\ Registered' = Registered \cup {fd} /\ fd \notin Registered /\ RegistrationInv'
  BY <1>2, <1>6, Gained, ProxyAssumption
<1>8. registry' \in Registry /\ watch_r' \subseteq Fd /\ watch_w' \subseteq Fd
  BY <1>2, <1>6, RegisterEffect DEF IInv
<1>9. NoFd \notin Fd
  BY DEF NoFd, Fd, R!Fd
<1>10. ~Has(fd, s) /\ \A t \in Struct : ~Has(fd, t)
  BY <1>2, <1>7, ProxyAssumption DEF Has, Registered, R!Free
<1>11. ProxyTypeOK'
  BY <1>1, <1>2, <1>3, <1>4, <1>8, TurnFacts DEF IInv, ProxyTypeOK, HeapType, Registry
<1>12. HeldInv'
  <2> SUFFICES ASSUME NEW t \in Struct, NEW n \in Fd, Has(n, t)'
               PROVE  memory'[t] = "live" /\ n \in {client_fd'[t], origin_fd'[t]}
    BY DEF HeldInv, Has
  <2>1. CASE n = fd
    BY <2>1, <1>3, <1>5, <1>7
  <2>2. CASE n # fd
    <3>1. memory[t] = "live" /\ n \in {client_fd[t], origin_fd[t]}
      BY <2>2, <1>7 DEF IInv, HeldInv, Has
    <3> QED
      BY <3>1, <1>3, <1>5
  <2> QED
    BY <2>1, <2>2
<1>13. LiveInv'
  <2> SUFFICES ASSUME NEW t \in Struct, memory'[t] = "live"
               PROVE  /\ client_fd'[t] # origin_fd'[t]
                      /\ references'[t] = One(Has(client_fd[t], t)') + One(Has(origin_fd[t], t)')
                      /\ references'[t] > 0
    BY DEF LiveInv, One
  <2>1. CASE t = s
    <3>1. Has(client_fd[t], t)' /\ ~Has(origin_fd[t], t)'
      BY <2>1, <1>5, <1>7, <1>9 DEF Has
    <3> QED
      BY <2>1, <3>1, <1>2, <1>3, <1>5, <1>9 DEF One
  <2>2. CASE t # s
    <3>1. \A n : Has(n, t)' <=> Has(n, t)
      BY <2>2, <1>7, <1>10
    <3>2. /\ client_fd[t] # origin_fd[t]
          /\ references[t] = One(Has(client_fd[t], t)) + One(Has(origin_fd[t], t))
          /\ references[t] > 0
      BY <2>2, <1>3 DEF IInv, LiveInv
    <3>3. (Has(client_fd[t], t)' <=> Has(client_fd[t], t)) /\ (Has(origin_fd[t], t)' <=> Has(origin_fd[t], t))
      BY <2>2, <3>1, <1>5 DEF Has
    <3> QED
      BY <2>2, <3>2, <3>3, <1>3, <1>5 DEF One
  <2> QED
    BY <2>1, <2>2
<1>14. WholeInv'
  <2> SUFFICES ASSUME NEW t \in Struct, memory'[t] = "live"
               PROVE  Has(client_fd[t], t)' /\ (origin_fd'[t] # NoFd => Has(origin_fd[t], t)')
    BY DEF WholeInv
  <2>1. CASE t = s
    BY <2>1, <1>5, <1>7, <1>2 DEF Has
  <2>2. CASE t # s
    <3>1. \A n : Has(n, t)' <=> Has(n, t)
      BY <2>2, <1>7, <1>10
    <3>2. Has(client_fd[t], t) /\ (origin_fd[t] # NoFd => Has(origin_fd[t], t))
      BY <2>2, <1>1, <1>3, TurnFacts
    <3> QED
      BY <2>2, <3>1, <3>2, <1>5 DEF Has
  <2> QED
    BY <2>1, <2>2
<1>15. ClosingInv' /\ OpenInv'
  BY <1>1, <1>2, <1>7, TurnFacts DEF ClosingInv, OpenInv
<1> QED
  BY <1>3, <1>7, <1>11, <1>12, <1>13, <1>14, <1>15 DEF IInv
\* What a failure gives back was not live (socks5nio(1).c:171-197).
LEMMA PassiveAcceptFailsStep == ASSUME IInv, NEW e, PassiveAcceptFails(e) PROVE IInv'
<1>1. /\ Turn(e) /\ UNCHANGED <<registry, watch_r, watch_w, open, references>>
      /\ UNCHANGED <<client_fd, origin_fd, state, main, done, closing>>
  BY DEF PassiveAcceptFails, selector, fields
<1>2. /\ PoolInv' /\ memory' \in [Struct -> {"none", "live", "pooled"}]
      /\ pool' \in Seq(Struct) /\ Len(pool') <= max_pool
      /\ \A s \in Struct : memory'[s] = "live" <=> memory[s] = "live"
  <2>1. CASE UNCHANGED <<memory, pool>>
    BY <2>1 DEF IInv, PoolInv, ProxyTypeOK
  <2>2. CASE \E s \in Struct : memory[s] = "none" /\ Released(s)
    <3>1. PICK s \in Struct : memory[s] = "none" /\ Released(s)
      BY <2>2
    <3> QED
      BY <3>1, ReleasedEffect DEF IInv, ProxyTypeOK, HeapType
  <2> QED
    BY <2>1, <2>2 DEF PassiveAcceptFails
<1>3. ProxyTypeOK'
  BY <1>1, <1>2, TurnFacts DEF IInv, ProxyTypeOK
<1>4. RegistrationInv' /\ Registered' = Registered
  BY <1>1 DEF IInv, RegistrationInv, Registered
<1>5. HeldInv' /\ LiveInv'
  BY <1>1, <1>2 DEF IInv, HeldInv, LiveInv, Has, One
<1>6. WholeInv'
  BY <1>1, <1>2, TurnFacts DEF WholeInv, Has
<1>7. ClosingInv' /\ OpenInv'
  BY <1>1, <1>4, TurnFacts DEF ClosingInv, OpenInv
<1> QED
  BY <1>2, <1>3, <1>4, <1>5, <1>6, <1>7 DEF IInv

\* hello_process sets interests only (socks5nio(1).c:228-271).
LEMMA HelloDoneStep == ASSUME IInv, NEW e, NEW s \in Struct, HelloDone(e, s) PROVE IInv'
<1>1. /\ Turn(e) /\ R!SetInterest(e[1], {"OP_WRITE"})
      /\ state' = [state EXCEPT ![s] = "HELLO_WRITE"]
      /\ UNCHANGED <<open, memory, references, pool, client_fd, origin_fd, main, done, closing>>
  BY DEF HelloDone, Connection, heap
<1>2. {"OP_WRITE"} \in R!Interests
  BY DEF R!Interests
<1>3. /\ registry' \in Registry /\ watch_r' \subseteq Fd /\ watch_w' \subseteq Fd
      /\ \A n \in Fd : registry'[n].data = registry[n].data
      /\ \A n \in Fd : registry'[n] = R!Free <=> registry[n] = R!Free
  BY <1>1, <1>2, TurnFacts, SetInterestEffect DEF IInv
<1>4. RegistrationInv' /\ HeldInv' /\ LiveInv' /\ PoolInv' /\ Registered' = Registered
  BY <1>1, <1>3, SameOwners DEF heap
<1>5. ProxyTypeOK'
  BY <1>1, <1>3, TurnFacts DEF IInv, ProxyTypeOK, Registry
<1>6. WholeInv'
  BY <1>1, <1>3, TurnFacts DEF WholeInv, Has
<1>7. ClosingInv' /\ OpenInv'
  BY <1>1, <1>4, TurnFacts DEF ClosingInv, OpenInv
<1> QED
  BY <1>4, <1>5, <1>6, <1>7 DEF IInv

\* The event of a connection is for a live struct.
LEMMA ConnectionFacts ==
    ASSUME IInv, NEW e, NEW s \in Struct, Connection(e, s)
    PROVE  /\ Turn(e) /\ memory[s] = "live"
           /\ Has(client_fd[s], s) /\ (origin_fd[s] # NoFd => Has(origin_fd[s], s))
           /\ references[s] = IF origin_fd[s] = NoFd THEN 1 ELSE 2
<1>1. Turn(e) /\ registry[e[1]].data = s /\ e[1] \in Fd
  BY TurnFacts DEF Connection
<1>2. memory[s] = "live"
  BY <1>1 DEF IInv, HeldInv
<1>3. Has(client_fd[s], s) /\ (origin_fd[s] # NoFd => Has(origin_fd[s], s))
  BY <1>1, <1>2, TurnFacts
<1>4. ~Has(NoFd, s)
  BY DEF Has, NoFd, Fd, R!Fd
<1> QED
  BY <1>1, <1>2, <1>3, <1>4 DEF IInv, LiveInv, One

\* The second registration of a struct is its second reference.
LEMMA OriginConnectsStep == ASSUME IInv, NEW e, NEW s \in Struct, OriginConnects(e, s) PROVE IInv'
<1>1. /\ Connection(e, s) /\ origin_fd[s] = NoFd
      /\ references' = [references EXCEPT ![s] = @ + 1]
      /\ UNCHANGED <<memory, pool, client_fd, state, main, done, closing>>
  BY DEF OriginConnects
<1>2. PICK fd \in Fd : /\ NewFd(fd) /\ open' = open \cup {fd}
                       /\ R!Register(fd, {"OP_WRITE"}, s)
                       /\ origin_fd' = [origin_fd EXCEPT ![s] = fd]
  BY DEF OriginConnects
<1>3. /\ memory[s] = "live" /\ Has(client_fd[s], s) /\ references[s] = 1
      /\ main = "serve" /\ closing = <<>> /\ open = Registered
      /\ ready' \subseteq Fd \X {"OP_READ", "OP_WRITE", "block"}
  BY <1>1, ConnectionFacts, TurnFacts
<1>4. /\ references'[s] = 2 /\ origin_fd'[s] = fd
      /\ \A t \in Struct : t # s => references'[t] = references[t] /\ origin_fd'[t] = origin_fd[t]
  BY <1>1, <1>2, <1>3 DEF IInv, ProxyTypeOK
<1>5. {"OP_WRITE"} \in R!Interests
  BY DEF R!Interests
<1>6. /\ \A n, t : Has(n, t)' <=> (n # fd /\ Has(n, t)) \/ (n = fd /\ t = s)
      /\ Registered' = Registered \cup {fd} /\ fd \notin Registered /\ RegistrationInv'
  BY <1>2, <1>5, Gained, ProxyAssumption
<1>7. \A t \in Struct : ~Has(fd, t)
  BY <1>2, ProxyAssumption DEF Has, R!Register, R!Free
<1>8. client_fd[s] # fd
  BY <1>3, <1>7
<1>9. ProxyTypeOK'
  <2>1. registry' \in Registry /\ watch_r' \subseteq Fd /\ watch_w' \subseteq Fd
    BY <1>2, <1>5, RegisterEffect DEF IInv
  <2>2. references' \in [Struct -> 0..2]
    BY <1>1, <1>3 DEF IInv, ProxyTypeOK
  <2> QED
    BY <1>1, <1>2, <1>3, <2>1, <2>2 DEF IInv, ProxyTypeOK, Registry
<1>10. HeldInv'
  <2> SUFFICES ASSUME NEW t \in Struct, NEW n \in Fd, Has(n, t)'
               PROVE  memory[t] = "live" /\ n \in {client_fd[t], origin_fd'[t]}
    BY <1>1 DEF HeldInv, Has
  <2>1. CASE n = fd
    BY <2>1, <1>3, <1>4, <1>6, <1>7
  <2>2. CASE n # fd
    <3>1. memory[t] = "live" /\ n \in {client_fd[t], origin_fd[t]}
      BY <2>2, <1>6 DEF IInv, HeldInv, Has
    <3>2. n # NoFd
      BY DEF NoFd, Fd, R!Fd
    <3> QED
      BY <3>1, <3>2, <1>1, <1>4
  <2> QED
    BY <2>1, <2>2
<1>11. LiveInv'
  <2> SUFFICES ASSUME NEW t \in Struct, memory[t] = "live"
               PROVE  /\ client_fd[t] # origin_fd'[t]
                      /\ references'[t] = One(Has(client_fd[t], t)') + One(Has(origin_fd[t], t)')
                      /\ references'[t] > 0
    BY <1>1 DEF LiveInv, One
  <2>1. CASE t = s
    <3>1. Has(client_fd[t], t)' /\ Has(origin_fd[t], t)'
      <4>1. registry'[client_fd[s]].data = s /\ client_fd[s] \in Fd
        BY <1>3, <1>6, <1>8 DEF Has
      <4>2. registry'[fd].data = s
        BY <1>6 DEF Has
      <4> QED
        BY <2>1, <4>1, <4>2, <1>1, <1>4 DEF Has
    <3>2. client_fd[t] # origin_fd'[t]
      BY <2>1, <1>4, <1>8
    <3> QED
      BY <2>1, <3>1, <3>2, <1>4 DEF One
  <2>2. CASE t # s
    <3>1. /\ client_fd[t] # origin_fd[t]
          /\ references[t] = One(Has(client_fd[t], t)) + One(Has(origin_fd[t], t))
          /\ references[t] > 0
      BY DEF IInv, LiveInv
    <3>2. (Has(client_fd[t], t)' <=> Has(client_fd[t], t)) /\ (Has(origin_fd[t], t)' <=> Has(origin_fd[t], t))
      BY <2>2, <1>1, <1>4, <1>6, <1>7 DEF Has
    <3> QED
      BY <2>2, <3>1, <3>2, <1>4 DEF One
  <2> QED
    BY <2>1, <2>2
<1>12. WholeInv'
  <2> SUFFICES ASSUME NEW t \in Struct, memory[t] = "live"
               PROVE  Has(client_fd[t], t)' /\ (origin_fd'[t] # NoFd => Has(origin_fd[t], t)')
    BY <1>1 DEF WholeInv
  <2>1. Has(client_fd[t], t) /\ (origin_fd[t] # NoFd => Has(origin_fd[t], t))
    BY <1>1, ConnectionFacts, TurnFacts
  <2> QED
    BY <2>1, <1>1, <1>2, <1>4, <1>6, <1>7 DEF Has
<1>13. PoolInv' /\ ClosingInv' /\ OpenInv'
  BY <1>1, <1>2, <1>3, <1>6 DEF IInv, PoolInv, ClosingInv, OpenInv
<1> QED
  BY <1>6, <1>9, <1>10, <1>11, <1>12, <1>13 DEF IInv

\* socksv5_done collects exactly the descriptors that the references count
\* (socks5nio(1).c:324-329).
LEMMA EndsStep == ASSUME IInv, NEW e, NEW s \in Struct, Ends(e, s) PROVE IInv'
<1>1. /\ Connection(e, s)
      /\ closing' = <<client_fd[s]>> \o (IF origin_fd[s] = NoFd THEN <<>> ELSE <<origin_fd[s]>>)
      /\ UNCHANGED <<selector, open, heap, fields, main, done>>
  BY DEF Ends
<1>2. UNCHANGED <<registry, watch_r, watch_w, memory, references, pool, client_fd, origin_fd, state>>
  BY <1>1 DEF selector, heap, fields
<1>3. /\ memory[s] = "live" /\ Has(client_fd[s], s) /\ (origin_fd[s] # NoFd => Has(origin_fd[s], s))
      /\ references[s] = (IF origin_fd[s] = NoFd THEN 1 ELSE 2)
      /\ main = "serve" /\ closing = <<>> /\ open = Registered
      /\ ready' \subseteq Fd \X {"OP_READ", "OP_WRITE", "block"}
  BY <1>1, ConnectionFacts, TurnFacts
<1>4. client_fd[s] # origin_fd[s]
  BY <1>3 DEF IInv, LiveInv
<1>5. RegistrationInv' /\ HeldInv' /\ LiveInv' /\ PoolInv' /\ Registered' = Registered
  BY <1>2, SameSelector DEF selector, heap
<1>6. closing' \in Seq(Fd) /\ ClosingInv'
  <2>1. CASE origin_fd[s] = NoFd
    <3>1. closing' = <<client_fd[s]>>
      BY <2>1, <1>1
    <3>2. closing' \in Seq(Fd) /\ Len(closing') = 1 /\ closing'[1] = client_fd[s]
      BY <3>1, <1>3 DEF Has
    <3>3. \A i \in 1..Len(closing') : Has(closing[i], s)'
      BY <3>2, <1>2, <1>3 DEF Has
    <3> QED
      BY <2>1, <3>2, <3>3, <1>1, <1>2, <1>3 DEF ClosingInv
  <2>2. CASE origin_fd[s] # NoFd
    <3>1. closing' = <<client_fd[s]>> \o <<origin_fd[s]>>
      BY <2>2, <1>1
    <3>2. client_fd[s] \in Fd /\ origin_fd[s] \in Fd
      BY <2>2, <1>3 DEF Has
    <3>3. /\ closing' \in Seq(Fd) /\ Len(closing') = 2
          /\ closing'[1] = client_fd[s] /\ closing'[2] = origin_fd[s]
      <4>1. closing' \in Seq(Fd) /\ Len(closing') = 2
        BY <3>1, <3>2
      <4> QED
        BY <3>1, <4>1
    <3>4. \A i \in 1..Len(closing') : Has(closing[i], s)'
      BY <2>2, <3>3, <1>2, <1>3 DEF Has
    <3> QED
      BY <2>2, <3>3, <3>4, <1>1, <1>2, <1>3, <1>4 DEF ClosingInv
  <2> QED
    BY <2>1, <2>2
<1>7. ProxyTypeOK'
  BY <1>1, <1>2, <1>3, <1>6 DEF IInv, ProxyTypeOK
<1>8. WholeInv'
  BY <1>1, <1>2, ConnectionFacts, TurnFacts DEF WholeInv, Has
<1>9. OpenInv'
  BY <1>1, <1>3, <1>5 DEF OpenInv
<1> QED
  BY <1>5, <1>6, <1>7, <1>8, <1>9 DEF IInv
\* A registration of struct s is given up, with the reference it counts for.
LEMMA Dropped ==
    ASSUME IInv, NEW fd \in Fd, NEW s \in Struct, Has(fd, s),
           R!Unregister(fd), socks5_destroy(s), UNCHANGED <<client_fd, origin_fd>>
    PROVE  /\ HeapType' /\ PoolInv' /\ RegistrationInv' /\ HeldInv' /\ LiveInv'
           /\ registry' \in Registry /\ watch_r' \subseteq Fd /\ watch_w' \subseteq Fd
           /\ Registered' = Registered \ {fd}
           /\ \A n : \A t \in Struct : Has(n, t)' <=> n # fd /\ Has(n, t)
           /\ \A t \in Struct : t # s => memory'[t] = memory[t]
           /\ IF references[s] = 1 THEN memory'[s] # "live"
              ELSE references[s] = 2 /\ references'[s] = 1
<1>1. memory[s] = "live" /\ fd \in {client_fd[s], origin_fd[s]}
  BY DEF IInv, HeldInv, Has
<1>2. /\ client_fd[s] # origin_fd[s]
      /\ references[s] = One(Has(client_fd[s], s)) + One(Has(origin_fd[s], s))
      /\ references[s] > 0
  BY <1>1 DEF IInv, LiveInv
<1>3. /\ HeapType' /\ PoolInv'
      /\ \A t \in Struct : t # s => memory'[t] = memory[t] /\ references'[t] = references[t]
      /\ IF references[s] = 1 THEN memory'[s] # "live"
         ELSE memory'[s] = "live" /\ references[s] = 2 /\ references'[s] = 1
  BY <1>1, <1>2, DestroyEffect DEF IInv, ProxyTypeOK, HeapType
<1>4. /\ \A n : \A t \in Struct : Has(n, t)' <=> n # fd /\ Has(n, t)
      /\ Registered' = Registered \ {fd} /\ RegistrationInv'
  BY Lost
<1>5. \A t \in Struct : t # s => ~Has(fd, t)
  BY DEF Has
<1>6. HeldInv'
  <2> SUFFICES ASSUME NEW t \in Struct, NEW n \in Fd, Has(n, t)'
               PROVE  memory'[t] = "live" /\ n \in {client_fd[t], origin_fd[t]}
    BY DEF HeldInv, Has
  <2>1. n # fd /\ Has(n, t) /\ memory[t] = "live" /\ n \in {client_fd[t], origin_fd[t]}
    BY <1>4 DEF IInv, HeldInv, Has
  <2>2. CASE t = s
    <3>1. Has(client_fd[s], s) /\ Has(origin_fd[s], s)
      BY <2>1, <2>2, <1>1
    <3>2. references[s] = 2
      BY <3>1, <1>2 DEF One
    <3> QED
      BY <2>1, <2>2, <3>2, <1>3
  <2> QED
    BY <2>1, <2>2, <1>3
<1>7. LiveInv'
  <2> SUFFICES ASSUME NEW t \in Struct, memory'[t] = "live"
               PROVE  /\ client_fd[t] # origin_fd[t]
                      /\ references'[t] = One(Has(client_fd[t], t)') + One(Has(origin_fd[t], t)')
                      /\ references'[t] > 0
    BY DEF LiveInv, One
  <2>0. /\ Has(client_fd[t], t)' <=> client_fd[t] # fd /\ Has(client_fd[t], t)
        /\ Has(origin_fd[t], t)' <=> origin_fd[t] # fd /\ Has(origin_fd[t], t)
    BY <1>4 DEF Has
  <2>1. CASE t = s
    <3>1. references[s] = 2 /\ references'[s] = 1
      BY <2>1, <1>3
    <3>2. Has(client_fd[s], s) /\ Has(origin_fd[s], s)
      BY <3>1, <1>2 DEF One
    <3> QED
      BY <2>0, <2>1, <3>1, <3>2, <1>1, <1>2 DEF One
  <2>2. CASE t # s
    <3>1. /\ client_fd[t] # origin_fd[t]
          /\ references[t] = One(Has(client_fd[t], t)) + One(Has(origin_fd[t], t))
          /\ references[t] > 0
      BY <2>2, <1>3 DEF IInv, LiveInv
    <3> QED
      BY <2>0, <2>2, <3>1, <1>3, <1>5 DEF One
  <2> QED
    BY <2>1, <2>2
<1>8. registry' \in Registry /\ watch_r' \subseteq Fd /\ watch_w' \subseteq Fd
  BY UnregisterEffect DEF IInv
<1> QED
  BY <1>3, <1>4, <1>6, <1>7, <1>8

\* Each round finds its descriptor registered, with the struct still live
\* (socks5nio(1).c:330-337).
LEMMA ClosesStep == ASSUME IInv, Closes PROVE IInv'
<1> DEFINE fd == Head(closing)
<1>1. /\ main = "serve" /\ closing # <<>> /\ closing \in Seq(Fd) /\ (Len(closing) = 1 \/ Len(closing) = 2)
      /\ UNCHANGED <<client_fd, origin_fd, state, done, ready>>
  <2>1. /\ main = "serve" /\ closing # <<>>
        /\ UNCHANGED <<client_fd, origin_fd, state, done, ready>>
    BY DEF Closes, fields
  <2>2. closing \in Seq(Fd) /\ Len(closing) <= 2
    BY <2>1 DEF IInv, ProxyTypeOK, ClosingInv
  <2>3. Len(closing) \in Nat /\ Len(closing) > 0
    BY <2>1, <2>2
  <2>4. ASSUME NEW n \in Nat, n > 0, n <= 2
        PROVE  n = 1 \/ n = 2
    BY <2>4
  <2> QED
    BY <2>1, <2>2, <2>3, <2>4
<1>2. fd = closing[1] /\ fd \in Fd
  BY <1>1
<1>3. PICK s \in Struct : references[s] = Len(closing) /\ \A i \in 1..Len(closing) : Has(closing[i], s)
  BY <1>1 DEF IInv, ClosingInv
<1>4. Has(fd, s) /\ registry[fd].data = s /\ registry[fd] # R!Free
  BY <1>1, <1>2, <1>3, ProxyAssumption DEF Has, R!Free
<1>5. /\ R!Unregister(fd) /\ socks5_destroy(s) /\ main' = main
      /\ open' = open \ {fd} /\ closing' = Tail(closing)
  BY <1>4 DEF Closes
<1>6. /\ HeapType' /\ PoolInv' /\ RegistrationInv' /\ HeldInv' /\ LiveInv'
      /\ registry' \in Registry /\ watch_r' \subseteq Fd /\ watch_w' \subseteq Fd
      /\ Registered' = Registered \ {fd}
      /\ \A n : \A t \in Struct : Has(n, t)' <=> n # fd /\ Has(n, t)
      /\ \A t \in Struct : t # s => memory'[t] = memory[t]
      /\ IF references[s] = 1 THEN memory'[s] # "live"
         ELSE references[s] = 2 /\ references'[s] = 1
  BY <1>1, <1>2, <1>4, <1>5, Dropped
<1>7. closing' \in Seq(Fd)
  BY <1>1, <1>5
<1>8. ProxyTypeOK'
  BY <1>1, <1>5, <1>6, <1>7 DEF IInv, ProxyTypeOK, HeapType, Registry
<1>9. OpenInv'
  BY <1>1, <1>5, <1>6 DEF IInv, OpenInv
<1>10. \A t \in Struct : t # s /\ memory'[t] = "live" =>
          Has(client_fd[t], t)' /\ (origin_fd'[t] # NoFd => Has(origin_fd[t], t)')
  <2> SUFFICES ASSUME NEW t \in Struct, t # s, memory'[t] = "live"
               PROVE  Has(client_fd[t], t)' /\ (origin_fd'[t] # NoFd => Has(origin_fd[t], t)')
    OBVIOUS
  <2>1. Has(client_fd[t], t) /\ (origin_fd[t] # NoFd => Has(origin_fd[t], t))
    BY <1>1, <1>4, <1>6 DEF IInv, WholeInv
  <2> QED
    BY <2>1, <1>1, <1>4, <1>6 DEF Has
<1>11. ClosingInv' /\ WholeInv'
  <2>1. CASE Len(closing) = 1
    <3>1. closing' = <<>> /\ memory'[s] # "live"
      BY <2>1, <1>1, <1>3, <1>5, <1>6
    <3> QED
      BY <3>1, <1>10 DEF ClosingInv, WholeInv
  <2>2. CASE Len(closing) = 2
    <3>1. Len(closing') = 1 /\ closing'[1] = closing[2] /\ Head(closing') = closing[2]
      BY <2>2, <1>1, <1>5
    <3>2. Has(closing[2], s) /\ closing[2] # fd /\ closing[2] \in Fd
      BY <2>2, <1>1, <1>2, <1>3 DEF IInv, ClosingInv
    <3>3. registry'[closing[2]].data = s
      BY <3>2, <1>6 DEF Has
    <3>4. references'[s] = 1
      BY <2>2, <1>3, <1>6
    <3>5. ClosingInv'
      BY <3>1, <3>2, <3>3, <3>4, <1>1, <1>5 DEF ClosingInv, Has
    <3>6. WholeInv'
      BY <3>1, <3>3, <1>7, <1>10 DEF WholeInv
    <3> QED
      BY <3>5, <3>6
  <2> QED
    BY <2>1, <2>2, <1>1
<1> QED
  BY <1>6, <1>8, <1>9, <1>11 DEF IInv
\* selector_destroy gives one reference up for each item (socks5nio(1).c:319-322).
LEMMA DestroySelectorStep == ASSUME IInv, DestroySelector PROVE IInv'
<1>1. /\ main = "finally" /\ closing = <<>>
      /\ UNCHANGED <<open, client_fd, origin_fd, state, main, done, ready, closing>>
  BY DEF DestroySelector, fields, IInv, ClosingInv
<1>2. PICK fd \in Registered :
        /\ R!Unregister(fd)
        /\ \/ registry[fd].data = Passive /\ UNCHANGED heap
           \/ registry[fd].data # Passive /\ socks5_destroy(registry[fd].data)
  BY DEF DestroySelector
<1>3. fd \in Fd /\ registry[fd].data \in Struct \cup {Passive}
  BY DEF Registered, IInv, RegistrationInv
<1>4. ClosingInv' /\ WholeInv' /\ OpenInv'
  BY <1>1 DEF ClosingInv, WholeInv, OpenInv
<1>5. CASE registry[fd].data = Passive
  <2>1. UNCHANGED <<memory, references, pool>>
    BY <1>2, <1>5 DEF heap
  <2>2. /\ \A n : \A t \in Struct : Has(n, t)' <=> n # fd /\ Has(n, t)
        /\ RegistrationInv'
    BY <1>2, <1>3, Lost
  <2>3. \A n : \A t \in Struct : Has(n, t)' <=> Has(n, t)
    BY <1>5, <2>2, ProxyAssumption DEF Has
  <2>4. HeldInv'
    <3> SUFFICES ASSUME NEW t \in Struct, NEW n \in Fd, Has(n, t)'
                 PROVE  memory[t] = "live" /\ n \in {client_fd[t], origin_fd[t]}
      BY <1>1, <2>1 DEF HeldInv, Has
    <3> QED
      BY <2>3 DEF IInv, HeldInv, Has
  <2>5. LiveInv'
    <3> SUFFICES ASSUME NEW t \in Struct, memory[t] = "live"
                 PROVE  /\ client_fd[t] # origin_fd[t]
                        /\ references[t] = One(Has(client_fd[t], t)') + One(Has(origin_fd[t], t)')
                        /\ references[t] > 0
      BY <1>1, <2>1 DEF LiveInv, One
    <3>1. (Has(client_fd[t], t)' <=> Has(client_fd[t], t)) /\ (Has(origin_fd[t], t)' <=> Has(origin_fd[t], t))
      BY <1>1, <2>3 DEF Has
    <3> QED
      BY <3>1 DEF IInv, LiveInv, One
  <2>6. PoolInv'
    BY <2>1 DEF IInv, PoolInv
  <2>7. ProxyTypeOK'
    <3>1. registry' \in Registry /\ watch_r' \subseteq Fd /\ watch_w' \subseteq Fd
      BY <1>2, <1>3, UnregisterEffect DEF IInv
    <3> QED
      BY <1>1, <2>1, <3>1 DEF IInv, ProxyTypeOK, Registry
  <2> QED
    BY <1>4, <2>2, <2>4, <2>5, <2>6, <2>7 DEF IInv
<1>6. CASE registry[fd].data # Passive
  <2> DEFINE s == registry[fd].data
  <2>1. s \in Struct /\ Has(fd, s) /\ socks5_destroy(s)
    BY <1>2, <1>3, <1>6 DEF Has
  <2>2. /\ HeapType' /\ PoolInv' /\ RegistrationInv' /\ HeldInv' /\ LiveInv'
        /\ registry' \in Registry /\ watch_r' \subseteq Fd /\ watch_w' \subseteq Fd
    <3> HIDE DEF s
    <3> QED
      BY <1>1, <1>2, <1>3, <2>1, Dropped
  <2>3. ProxyTypeOK'
    BY <1>1, <2>2 DEF IInv, ProxyTypeOK, HeapType, Registry
  <2> QED
    BY <1>4, <2>2, <2>3 DEF IInv
<1> QED
  BY <1>5, <1>6

\* Nothing is registered, so nothing is live when the pool is freed (socks5nio(1).c:137-144).
LEMMA ExitStep == ASSUME IInv, Exit PROVE IInv'
<1>1. /\ main = "finally" /\ Registered = {} /\ closing = <<>>
      /\ memory' = [s \in Struct |-> IF \E i \in 1..Len(pool) : pool[i] = s THEN "none" ELSE memory[s]]
      /\ pool' = <<>> /\ open' = {} /\ main' = "exited"
      /\ UNCHANGED <<registry, watch_r, watch_w, references, client_fd, origin_fd, state>>
      /\ UNCHANGED <<done, ready, closing>>
  BY DEF Exit, selector, fields, IInv, ClosingInv
<1>2. \A s \in Struct : memory[s] # "live"
  <2> SUFFICES ASSUME NEW s \in Struct, memory[s] = "live" PROVE FALSE
    OBVIOUS
  <2>1. Has(client_fd[s], s) \/ Has(origin_fd[s], s)
    BY DEF IInv, LiveInv, One
  <2>2. PICK fd \in Fd : registry[fd].data = s
    BY <2>1 DEF Has
  <2> QED
    BY <1>1, <2>2, ProxyAssumption DEF Registered, R!Free
<1>3. \A s \in Struct : memory'[s] = "none"
  BY <1>1, <1>2 DEF IInv, PoolInv, ProxyTypeOK
<1>4. ProxyTypeOK'
  <2>1. memory' \in [Struct -> {"none", "live", "pooled"}]
    BY <1>1 DEF IInv, ProxyTypeOK
  <2>2. pool' \in Seq(Struct) /\ Len(pool') <= max_pool
    BY <1>1, ProxyAssumption
  <2> QED
    BY <1>1, <2>1, <2>2 DEF IInv, ProxyTypeOK
<1>5. RegistrationInv'
  BY <1>1 DEF IInv, RegistrationInv
<1>6. HeldInv'
  BY <1>1, <1>2 DEF IInv, HeldInv
<1>7. LiveInv' /\ ClosingInv' /\ WholeInv' /\ OpenInv'
  BY <1>1, <1>3 DEF LiveInv, ClosingInv, WholeInv, OpenInv
<1>8. PoolInv'
  BY <1>1, <1>3 DEF PoolInv
<1> QED
  BY <1>4, <1>5, <1>6, <1>7, <1>8 DEF IInv

\* Every step keeps the invariant.
LEMMA StepInv == IInv /\ [Next]_vars => IInv'
<1> SUFFICES ASSUME IInv, [Next]_vars PROVE IInv'
  OBVIOUS
<1>0. done \in BOOLEAN /\ ready \subseteq Fd \X {"OP_READ", "OP_WRITE", "block"}
  BY DEF IInv, ProxyTypeOK
<1>a. main # "serve" => closing = <<>>
  BY DEF IInv, ClosingInv
<1>1. CASE Setup
  BY <1>1, SetupStep
<1>2. CASE Loop
  BY <1>0, <1>a, <1>2, QuietStep DEF Loop
<1>3. ASSUME NEW reported \in SUBSET Events, Select(reported)
      PROVE  IInv'
  <2>1. Events \subseteq Fd \X {"OP_READ", "OP_WRITE", "block"}
    BY DEF Events, IInv, ProxyTypeOK
  <2> QED
    BY <1>0, <1>a, <1>3, <2>1, QuietStep DEF Select
<1>4. CASE DestroySelector
  BY <1>4, DestroySelectorStep
<1>5. CASE Exit
  BY <1>5, ExitStep
<1>6. CASE Closes
  BY <1>6, ClosesStep
<1>7. CASE Served
  BY <1>0, <1>7, QuietStep DEF Served
<1>8. ASSUME NEW e \in ready, Callback(e)
      PROVE  IInv'
  <2>1. CASE Skip(e)
    BY <1>0, <2>1, TurnFacts, QuietStep DEF Skip
  <2>2. CASE PassiveAccept(e)
    BY <2>2, PassiveAcceptStep
  <2>3. CASE PassiveAcceptFails(e)
    BY <2>3, PassiveAcceptFailsStep
  <2>4. ASSUME NEW s \in Struct, Continues(e, s)
        PROVE  IInv'
    BY <1>0, <2>4, TurnFacts, QuietStep DEF Continues, Connection
  <2>5. ASSUME NEW s \in Struct, HelloDone(e, s)
        PROVE  IInv'
    BY <2>5, HelloDoneStep
  <2>6. ASSUME NEW s \in Struct, OriginConnects(e, s)
        PROVE  IInv'
    BY <2>6, OriginConnectsStep
  <2>7. ASSUME NEW s \in Struct, Ends(e, s)
        PROVE  IInv'
    BY <2>7, EndsStep
  <2> QED
    BY <1>8, <2>1, <2>2, <2>3, <2>4, <2>5, <2>6, <2>7 DEF Callback
<1>9. CASE Signal
  BY <1>0, <1>9, QuietStep DEF Signal
<1>10. CASE SelectFails
  BY <1>0, <1>a, <1>10, QuietStep DEF SelectFails
<1>11. CASE UNCHANGED vars
  BY <1>0, <1>11, QuietStep DEF vars
<1> QED
  BY <1>1, <1>2, <1>3, <1>4, <1>5, <1>6, <1>7, <1>8, <1>9, <1>10, <1>11 DEF Next, Program
-----------------------------------------------------------------------------
(* What the invariant implies.                                             *)

\* The sizes of the sets that are counted.
LEMMA SetOfOne ==
    ASSUME NEW S, NEW x \in S, \A y \in S : y = x
    PROVE  Cardinality(S) = 1
<1>1. S = {x}
  OBVIOUS
<1> QED
  BY <1>1, FS_Singleton

\* Two different elements make a set of two.
LEMMA SetOfTwo ==
    ASSUME NEW x, NEW y, x # y
    PROVE  Cardinality({x, y}) = 2
<1>1. IsFiniteSet({x}) /\ Cardinality({x}) = 1
  BY FS_Singleton
<1>2. {x, y} = {x} \cup {y} /\ y \notin {x}
  OBVIOUS
<1> QED
  BY <1>1, <1>2, FS_AddElement

\* A struct has at most the registrations of client_fd and origin_fd, which differ.
LEMMA CountedInv == IInv => ReferencesCounted
<1> SUFFICES ASSUME IInv, NEW s \in Struct
             PROVE  /\ memory[s] = "live" <=> Registrations(s) # {}
                    /\ memory[s] = "live" => references[s] = Cardinality(Registrations(s))
                    /\ Cardinality({i \in 1..Len(pool) : pool[i] = s}) = (IF memory[s] = "pooled" THEN 1 ELSE 0)
  BY DEF ReferencesCounted
<1>1. \A n : n \in Registrations(s) <=> Has(n, s)
  BY DEF Registrations, Has
<1>2. \A n \in Registrations(s) : memory[s] = "live" /\ n \in {client_fd[s], origin_fd[s]}
  BY <1>1 DEF IInv, HeldInv, Has
<1>3. memory[s] = "live" =>
        Registrations(s) # {} /\ references[s] = Cardinality(Registrations(s))
  <2> SUFFICES ASSUME memory[s] = "live"
               PROVE  Registrations(s) # {} /\ references[s] = Cardinality(Registrations(s))
    OBVIOUS
  <2>1. /\ client_fd[s] # origin_fd[s]
        /\ references[s] = One(Has(client_fd[s], s)) + One(Has(origin_fd[s], s))
        /\ references[s] > 0
    BY DEF IInv, LiveInv
  <2>2. CASE Has(client_fd[s], s) /\ Has(origin_fd[s], s)
    <3>1. Registrations(s) = {client_fd[s], origin_fd[s]} /\ references[s] = 2
      BY <1>1, <1>2, <2>1, <2>2 DEF One
    <3>2. Cardinality({client_fd[s], origin_fd[s]}) = 2
      BY <2>1, SetOfTwo, Zenon
    <3> QED
      BY <2>1, <3>1, <3>2
  <2>3. CASE Has(client_fd[s], s) /\ ~Has(origin_fd[s], s)
    <3>1. references[s] = 1 /\ client_fd[s] \in Registrations(s)
      BY <1>1, <2>1, <2>3 DEF One
    <3>2. \A n \in Registrations(s) : n = client_fd[s]
      BY <1>1, <1>2, <2>3
    <3> QED
      BY <3>1, <3>2, SetOfOne
  <2>4. CASE ~Has(client_fd[s], s) /\ Has(origin_fd[s], s)
    <3>1. references[s] = 1 /\ origin_fd[s] \in Registrations(s)
      BY <1>1, <2>1, <2>4 DEF One
    <3>2. \A n \in Registrations(s) : n = origin_fd[s]
      BY <1>1, <1>2, <2>4
    <3> QED
      BY <3>1, <3>2, SetOfOne
  <2>5. CASE ~Has(client_fd[s], s) /\ ~Has(origin_fd[s], s)
    BY <2>1, <2>5 DEF One
  <2> QED
    BY <2>2, <2>3, <2>4, <2>5
<1>4. Cardinality({i \in 1..Len(pool) : pool[i] = s}) = (IF memory[s] = "pooled" THEN 1 ELSE 0)
  <2> DEFINE places == {i \in 1..Len(pool) : pool[i] = s}
  <2>1. CASE memory[s] = "pooled"
    <3>1. PICK i \in places : TRUE
      BY <2>1 DEF IInv, PoolInv
    <3>2. \A j \in places : j = i
      BY <3>1 DEF IInv, PoolInv
    <3>3. Cardinality(places) = 1
      <4> HIDE DEF places
      <4> QED
        BY <3>1, <3>2, SetOfOne
    <3> QED
      BY <2>1, <3>3
  <2>2. CASE memory[s] # "pooled"
    <3>1. places = {}
      BY <2>2 DEF IInv, PoolInv
    <3> QED
      BY <2>2, <3>1, FS_EmptySet
  <2> QED
    BY <2>1, <2>2
<1> QED
  BY <1>2, <1>3, <1>4

\* The parts of DescriptorsOwned are parts of the invariant.
LEMMA OwnedInv == IInv => DescriptorsOwned
<1> SUFFICES ASSUME IInv PROVE DescriptorsOwned
  OBVIOUS
<1>1. main # "aborted" /\ (main \in {"loop", "select", "serve"} => open = Registered)
  BY DEF IInv, OpenInv
<1>2. \A fd \in Registered \ {server} :
        fd \in {client_fd[registry[fd].data], origin_fd[registry[fd].data]}
  BY DEF IInv, RegistrationInv, HeldInv, Registered
<1>3. \A s \in Struct : memory[s] = "live" /\ closing = <<>> /\ main # "finally" =>
        /\ registry[client_fd[s]].data = s
        /\ origin_fd[s] # NoFd => registry[origin_fd[s]].data = s
  BY DEF IInv, WholeInv, Has
<1> QED
  BY <1>1, <1>2, <1>3 DEF DescriptorsOwned

-----------------------------------------------------------------------------
(* Theorems.                                                               *)

\* The invariant holds in every state.
THEOREM Invariance == Spec => []IInv
<1> QED
  BY InitInv, StepInv, PTL DEF Spec

\* ProxyTypeOK for every limit of the pool and number of descriptors: in particular
\* no struct ever has a third reference, and the pool stays within max_pool
\* (socks5nio(1).c:80-81, 121-132).
THEOREM TypeCorrect == Spec => []ProxyTypeOK
<1>1. IInv => ProxyTypeOK
  BY DEF IInv
<1> QED
  BY <1>1, Invariance, PTL

\* ReferencesCounted for every limit of the pool and number of descriptors: no
\* struct is freed or pooled twice, or while a registration refers to it
\* (socks5nio(1).c:103-134, 319-322).
THEOREM References == Spec => []ReferencesCounted
BY Invariance, CountedInv, PTL

\* DescriptorsOwned for every limit of the pool and number of descriptors: no
\* descriptor is lost or closed twice, and socksv5_done never calls abort
\* (socks5nio(1).c:324-337).
THEOREM Descriptors == Spec => []DescriptorsOwned
BY Invariance, OwnedInv, PTL
=============================================================================

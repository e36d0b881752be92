----------------------------- MODULE FdRegistry -----------------------------
(***************************************************************************)
(* What selector.h promises of a selector's registrations: a descriptor    *)
(* carries at most one registration, with its handler and data and the     *)
(* interests the program last asked for, and pselect watches exactly the   *)
(* registered descriptors for exactly those interests.  SelectorTable      *)
(* keeps an array, two descriptor sets and a maximum to implement this.    *)
(***************************************************************************)
EXTENDS Integers

CONSTANTS
    FD_SETSIZE,     \* descriptors are 0 .. FD_SETSIZE - 1
    Data,           \* handler and attachment of a registration
    NoData          \* the data of a descriptor that is not registered

Fd == 0..FD_SETSIZE - 1
OP_NOOP == {}
Interests == SUBSET {"OP_READ", "OP_WRITE"}

VARIABLES
    registry,       \* registry[fd]: the registration of fd, or Free
    watch_r,        \* what pselect watches for reading
    watch_w         \* what pselect watches for writing

promised == <<registry, watch_r, watch_w>>

Free == [data |-> NoData, interest |-> OP_NOOP]

Watch ==
    /\ watch_r' = {fd \in Fd : "OP_READ" \in registry'[fd].interest}
    /\ watch_w' = {fd \in Fd : "OP_WRITE" \in registry'[fd].interest}

Init ==
    /\ registry = [fd \in Fd |-> Free]
    /\ watch_r = {}
    /\ watch_w = {}

\* "No se puede registrar dos veces un mismo fd" (selector.h:146).
Register(fd, interest, data) ==
    /\ registry[fd] = Free
    /\ registry' = [registry EXCEPT ![fd] = [data |-> data, interest |-> interest]]
    /\ Watch

Unregister(fd) ==
    /\ registry[fd] # Free
    /\ registry' = [registry EXCEPT ![fd] = Free]
    /\ Watch

SetInterest(fd, interest) ==
    /\ registry[fd] # Free
    /\ registry' = [registry EXCEPT ![fd].interest = interest]
    /\ Watch

Next == \E fd \in Fd :
    \/ Unregister(fd)
    \/ \E interest \in Interests :
        SetInterest(fd, interest) \/ \E data \in Data : Register(fd, interest, data)

Spec == Init /\ [][Next]_promised
=============================================================================

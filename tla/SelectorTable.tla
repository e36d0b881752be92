--------------------------- MODULE SelectorTable ----------------------------
(***************************************************************************)
(* The registrations of a selector (src/server/selector.c): the array fds, *)
(* indexed by descriptor, that grows on demand, and what selector_select   *)
(* hands to pselect, the sets master_r and master_w and the maximum max_fd.*)
(*                                                                         *)
(* An item's handler and data are set and cleared together and stand here  *)
(* as one value.  A call that fails (SELECTOR_IARGS, SELECTOR_FDINUSE,     *)
(* SELECTOR_ENOMEM) leaves all of this as it was and is a stuttering step. *)
(* An access outside fds is undefined behaviour: the model records it and  *)
(* goes no further.                                                        *)
(***************************************************************************)
EXTENDS Integers

CONSTANTS
    FD_SETSIZE,         \* the limit of select(2), ITEMS_MAX_SIZE
    InitialElements,    \* the argument of selector_new
    Descriptors,        \* the descriptors the program passes
    Data,               \* handler and attachment of a registration
    NoData              \* what memset leaves in an item that is not used

VARIABLES
    fds,                \* the jump table
    fd_size,            \* its number of elements
    max_fd,             \* the largest descriptor for pselect
    master_r,           \* prototypical descriptor sets
    master_w,
    out_of_bounds       \* an item outside fds has been used

table == <<fds, fd_size, max_fd, master_r, master_w>>
table_vars == <<table, out_of_bounds>>

FD_UNUSED == -1
OP_NOOP == {}
Interests == SUBSET {"OP_READ", "OP_WRITE"}

\* Deliberate defect: the limit itself is taken for a descriptor.
InvalidPastLimit(fd) == fd < 0 \/ fd > FD_SETSIZE

INVALID_FD(fd) == fd < 0 \/ fd >= FD_SETSIZE
UnusedItem == [fd |-> FD_UNUSED, interest |-> OP_NOOP, data |-> NoData]
ITEM_USED(i) == fds[i].fd # FD_UNUSED
Used == {i \in DOMAIN fds : ITEM_USED(i)}

\* The loop that counts the bits of n.
bits[n \in Nat] == IF n = 0 THEN 0 ELSE 1 + bits[n \div 2]

\* The least power of two above n, at most the limit, and one element more.
next_capacity(n) ==
    LET tmp == 2 ^ bits[n] IN IF tmp > FD_SETSIZE THEN FD_SETSIZE + 1 ELSE tmp + 1

(* The program creates selectors that fit (selector_new returns NULL above  *)
(* ITEMS_MAX_SIZE), and the assertion inside next_capacity (selector.c:182) *)
(* holds on this platform.                                                  *)
ASSUME TableAssumption ==
    /\ FD_SETSIZE \in Nat \ {0}
    /\ InitialElements \in 0..FD_SETSIZE
    /\ Descriptors \subseteq Int
    /\ NoData \notin Data
    /\ \A n \in 0..FD_SETSIZE : next_capacity(n) \in (n + 1)..(FD_SETSIZE + 1)

\* fds with room for n more-than-current elements: realloc keeps the old items
\* and items_init marks the new ones.
Grown(size) ==
    [i \in 0..size - 1 |-> IF i < fd_size THEN fds[i] ELSE UnusedItem]

\* The size of fds after the first step of selector_register, "tenemos
\* espacio?": it compares with > and so does nothing for fd = fd_size.
SizeFor(fd) == IF fd > fd_size THEN next_capacity(fd) ELSE fd_size

items_update_fdset_for_fd(fd, interest) ==
    /\ master_r' = IF "OP_READ" \in interest THEN master_r \cup {fd}
                                             ELSE master_r \ {fd}
    /\ master_w' = IF "OP_WRITE" \in interest THEN master_w \cup {fd}
                                              ELSE master_w \ {fd}

\* max is what items_max_fd finds: it looks no further than the old max_fd,
\* and starts from 0.
items_max_fd(items, max) ==
    /\ max \in 0..max_fd
    /\ max = 0 \/ items[max].fd # FD_UNUSED
    /\ \A i \in 0..max_fd : items[i].fd # FD_UNUSED => i <= max

-----------------------------------------------------------------------------
TableInit ==
    /\ fd_size = next_capacity(InitialElements)
    /\ fds = [i \in 0..fd_size - 1 |-> UnusedItem]
    /\ max_fd = 0
    /\ master_r = {}
    /\ master_w = {}
    /\ out_of_bounds = FALSE

\* Deliberate defect: nobody checks that the descriptor is free.
RegisterInUse(fd, interest, data) ==
    /\ ~INVALID_FD(fd)
    /\ fd < SizeFor(fd)
    /\ fd_size' = SizeFor(fd)
    /\ fds' = [Grown(SizeFor(fd)) EXCEPT ![fd] =
                  [fd |-> fd, interest |-> interest, data |-> data]]
    /\ max_fd' = IF fd > max_fd THEN fd ELSE max_fd
    /\ items_update_fdset_for_fd(fd, interest)

selector_register(fd, interest, data) ==
    /\ ~INVALID_FD(fd)
    /\ fd < SizeFor(fd)
    /\ fd \notin Used
    /\ fd_size' = SizeFor(fd)
    /\ fds' = [Grown(SizeFor(fd)) EXCEPT ![fd] =
                  [fd |-> fd, interest |-> interest, data |-> data]]
    /\ max_fd' = IF fd > max_fd THEN fd ELSE max_fd
    /\ items_update_fdset_for_fd(fd, interest)

\* Deliberate defect: max_fd is left where it was.
UnregisterKeepingMax(fd) ==
    /\ fd \in Used
    /\ fds' = [fds EXCEPT ![fd] = UnusedItem]
    /\ items_update_fdset_for_fd(fd, OP_NOOP)
    /\ UNCHANGED <<fd_size, max_fd>>

\* selector_unregister_fd, once handle_close has returned.
selector_unregister_fd(fd) ==
    /\ fd \in Used
    /\ items_update_fdset_for_fd(fd, OP_NOOP)
    /\ fds' = [fds EXCEPT ![fd] = UnusedItem]
    /\ \E max \in 0..max_fd : items_max_fd(fds', max) /\ max_fd' = max
    /\ UNCHANGED fd_size

selector_set_interest(fd, interest) ==
    /\ fd \in Used
    /\ fds' = [fds EXCEPT ![fd].interest = interest]
    /\ items_update_fdset_for_fd(fd, interest)
    /\ UNCHANGED <<fd_size, max_fd>>

\* selector_register looks at an item that is not there.
RegisterOutside(fd) == ~INVALID_FD(fd) /\ fd >= SizeFor(fd)

\* selector_unregister_fd and selector_set_interest do not compare with
\* fd_size at all.
UseOutside(fd) == ~INVALID_FD(fd) /\ fd >= fd_size

TableStep ==
    \E fd \in Descriptors :
        \/ selector_unregister_fd(fd)
        \/ \E interest \in Interests :
            \/ selector_set_interest(fd, interest)
            \/ \E data \in Data : selector_register(fd, interest, data)

GoesOutside ==
    /\ \E fd \in Descriptors : RegisterOutside(fd) \/ UseOutside(fd)
    /\ out_of_bounds' = TRUE
    /\ UNCHANGED table

TableNext ==
    /\ ~out_of_bounds
    /\ \/ TableStep /\ UNCHANGED out_of_bounds
       \/ GoesOutside

TableSpec == TableInit /\ [][TableNext]_table_vars

-----------------------------------------------------------------------------
(* Properties.                                                             *)

Items == [fd : {FD_UNUSED} \cup 0..FD_SETSIZE - 1, interest : Interests,
          data : Data \cup {NoData}]

\* Type invariant; fds never has more elements than the platform allows.
TableTypeOK ==
    /\ fd_size \in 1..FD_SETSIZE + 1
    /\ fds \in [0..fd_size - 1 -> Items]
    /\ max_fd \in 0..fd_size - 1
    /\ master_r \in SUBSET (0..FD_SETSIZE - 1)
    /\ master_w \in SUBSET (0..FD_SETSIZE - 1)
    /\ out_of_bounds \in BOOLEAN

\* The sets that pselect starts from hold a descriptor exactly when its item
\* is used and has the interest, and max_fd is the largest used descriptor, so
\* that no client is left unwatched and no freed descriptor is watched
\* (selector.c:139-143, 225-238, 368-371, 403-408).
WatchesExactly ==
    /\ \A fd \in Used : fds[fd].fd = fd /\ fd <= max_fd
    /\ max_fd = 0 \/ max_fd \in Used
    /\ master_r = {fd \in Used : "OP_READ" \in fds[fd].interest}
    /\ master_w = {fd \in Used : "OP_WRITE" \in fds[fd].interest}

\* The program never makes the selector use an item outside fds.
StaysInBounds == ~out_of_bounds

-----------------------------------------------------------------------------
(* Refinement: array, sets and maximum implement the promise.              *)

Registration(fd) ==
    IF fd \in Used THEN [data |-> fds[fd].data, interest |-> fds[fd].interest]
    ELSE [data |-> NoData, interest |-> OP_NOOP]

\* pselect looks at the descriptors below its first argument, max_fd + 1.
Registry == INSTANCE FdRegistry WITH
    registry <- [fd \in 0..FD_SETSIZE - 1 |-> Registration(fd)],
    watch_r <- {fd \in master_r : fd < max_fd + 1},
    watch_w <- {fd \in master_w : fd < max_fd + 1}

\* Growing, clearing and recomputing implement FdRegistry.
ImplementsRegistry == Registry!Spec
=============================================================================

--------------------------- MODULE SelectorProofs ---------------------------
(***************************************************************************)
(* Proofs about SelectorTable and Selector.  Of the table, for every limit,*)
(* initial size and set of descriptors: its types, that pselect watches    *)
(* exactly what is registered, and that it implements FdRegistry.  Of the  *)
(* selector, for any program around it: that this stays so while callbacks *)
(* re-enter it, the types, and that a finished job reaches its owner; and  *)
(* for a program that keeps one rule or another: what each rule is for.    *)
(***************************************************************************)
EXTENDS Selector, TLAPS

-----------------------------------------------------------------------------
(* The table: its invariant.                                               *)

HoldsData == \A fd \in Used : fds[fd].data \in Data

FreeAreEmpty == \A f \in DOMAIN fds : f \notin Used => fds[f].interest = OP_NOOP

TableInv == TableTypeOK /\ WatchesExactly /\ HoldsData /\ FreeAreEmpty

\* An unused item is an item.
LEMMA UnusedItemType ==
    /\ UnusedItem \in Items
    /\ UnusedItem.fd = FD_UNUSED
    /\ UnusedItem.interest = OP_NOOP
  BY DEF UnusedItem, Items, Interests, OP_NOOP

\* Room is only ever added, and there is room for the descriptor that is then
\* registered (selector.c:349-354).
LEMMA SizeIsEnough ==
    ASSUME TableTypeOK, NEW fd \in Int, ~INVALID_FD(fd), fd < SizeFor(fd)
    PROVE  /\ fd \in 0..FD_SETSIZE - 1
           /\ SizeFor(fd) \in 1..FD_SETSIZE + 1
           /\ fd_size <= SizeFor(fd)
<1> USE TableAssumption
<1>1. fd \in 0..FD_SETSIZE - 1
  BY DEF INVALID_FD
<1>2. CASE fd > fd_size
  <2>1. SizeFor(fd) = next_capacity(fd)
    BY <1>2 DEF SizeFor
  <2>2. next_capacity(fd) \in (fd + 1)..(FD_SETSIZE + 1)
    BY <1>1
  <2> QED
    BY <1>1, <1>2, <2>1, <2>2 DEF TableTypeOK
<1>3. CASE ~(fd > fd_size)
  BY <1>1, <1>3 DEF SizeFor, TableTypeOK
<1> QED
  BY <1>2, <1>3

\* The empty table is in the invariant.
LEMMA TableInitInvariant == TableInit => TableInv
<1> SUFFICES ASSUME TableInit PROVE TableInv
  OBVIOUS
<1> USE TableAssumption DEF TableInit
<1>1. fd_size \in (InitialElements + 1)..(FD_SETSIZE + 1)
  OBVIOUS
<1>2. fd_size \in 1..FD_SETSIZE + 1
  BY <1>1
<1>3. TableTypeOK
  <2>1. fds \in [0..fd_size - 1 -> Items]
    BY UnusedItemType
  <2>2. 0 \in 0..fd_size - 1
    BY <1>2
  <2> QED
    BY <1>2, <2>1, <2>2 DEF TableTypeOK
<1>4. Used = {}
  BY DEF Used, ITEM_USED, UnusedItem
<1>5. WatchesExactly
  BY <1>4 DEF WatchesExactly
<1>6. HoldsData
  BY <1>4 DEF HoldsData
<1>7. FreeAreEmpty
  BY UnusedItemType DEF FreeAreEmpty
<1> QED
  BY <1>3, <1>5, <1>6, <1>7 DEF TableInv

\* A registration uses one more item and leaves the others alone.
LEMMA RegisterInvariant ==
    ASSUME TableInv, NEW fd \in Int, NEW interest \in Interests, NEW data \in Data,
           selector_register(fd, interest, data), UNCHANGED out_of_bounds
    PROVE  /\ TableInv'
           /\ fd_size <= fd_size'
           /\ fd_size' = SizeFor(fd)
           /\ Used' = Used \cup {fd}
           /\ fds'[fd] = [fd |-> fd, interest |-> interest, data |-> data]
           /\ \A f \in Used : fds'[f] = fds[f]
<1> USE TableAssumption DEF TableInv
<1>1. /\ fd \in 0..FD_SETSIZE - 1
      /\ fd_size' \in 1..FD_SETSIZE + 1
      /\ fd_size <= fd_size'
      /\ fd < fd_size'
      /\ fd_size' = SizeFor(fd)
  BY SizeIsEnough DEF selector_register
<1>2. DOMAIN fds = 0..fd_size - 1 /\ DOMAIN fds' = 0..fd_size' - 1
  BY <1>1 DEF selector_register, TableTypeOK, Grown
<1>3. /\ fds'[fd] = [fd |-> fd, interest |-> interest, data |-> data]
      /\ \A f \in 0..fd_size' - 1 : f # fd =>
            fds'[f] = IF f < fd_size THEN fds[f] ELSE UnusedItem
  BY <1>1 DEF selector_register, Grown
<1>4. TableTypeOK'
  <2>1. fds'[fd] \in Items
    BY <1>1, <1>3 DEF Items
  <2>2. fds' \in [0..fd_size' - 1 -> Items]
    <3>1. \A f \in 0..fd_size' - 1 : f < fd_size => fds[f] \in Items
      BY <1>1 DEF TableTypeOK
    <3>2. UnusedItem \in Items
      BY UnusedItemType
    <3>3. \A f \in 0..fd_size' - 1 : fds'[f] \in Items
      BY <1>3, <2>1, <3>1, <3>2
    <3> QED
      BY <3>3, <1>1 DEF selector_register, Grown
  <2>3. max_fd' \in 0..fd_size' - 1
    BY <1>1 DEF selector_register, TableTypeOK
  <2>4. master_r' \in SUBSET (0..FD_SETSIZE - 1) /\ master_w' \in SUBSET (0..FD_SETSIZE - 1)
    BY <1>1 DEF selector_register, items_update_fdset_for_fd, TableTypeOK
  <2> QED
    BY <1>1, <2>2, <2>3, <2>4 DEF TableTypeOK
<1>5. fd \notin Used
  BY DEF selector_register
<1>6. Used' = Used \cup {fd}
  <2>1. \A f \in DOMAIN fds' : f # fd => (fds'[f].fd # FD_UNUSED <=> f \in Used)
    <3> SUFFICES ASSUME NEW f \in 0..fd_size' - 1, f # fd
                 PROVE  fds'[f].fd # FD_UNUSED <=> f \in Used
      BY <1>2
    <3>1. fd_size \in Int /\ fd_size' \in Int
      BY <1>1 DEF TableTypeOK
    <3>2. CASE f < fd_size
      <4> HIDE DEF TableInv
      <4>0. f \in 0..fd_size - 1
        BY <3>1, <3>2
      <4>1. fds'[f] = fds[f]
        BY <1>3, <3>2
      <4>2. f \in Used <=> fds[f].fd # FD_UNUSED
        BY <1>2, <4>0 DEF Used, ITEM_USED
      <4> QED
        BY <4>1, <4>2
    <3>3. CASE ~(f < fd_size)
      <4>1. f \notin Used
        BY <1>2, <3>1, <3>3 DEF Used
      <4>2. fds'[f].fd = FD_UNUSED
        BY <1>3, <3>3 DEF UnusedItem
      <4> QED
        BY <4>1, <4>2
    <3> QED
      BY <3>2, <3>3
  <2>2. fds'[fd].fd # FD_UNUSED
    BY <1>1, <1>3 DEF FD_UNUSED
  <2>3. Used \subseteq DOMAIN fds'
    BY <1>1, <1>2 DEF Used, TableTypeOK
  <2>4. Used' = {f \in DOMAIN fds' : fds'[f].fd # FD_UNUSED}
    BY DEF Used, ITEM_USED
  <2> QED
    BY <1>1, <1>2, <2>1, <2>2, <2>3, <2>4
<1>7. \A f \in Used : f # fd /\ fds'[f] = fds[f]
  <2> SUFFICES ASSUME NEW f \in Used PROVE f # fd /\ fds'[f] = fds[f]
    OBVIOUS
  <2>1. f \in 0..fd_size - 1
    BY <1>2 DEF Used
  <2>2. f \in 0..fd_size' - 1 /\ f < fd_size
    BY <2>1, <1>1 DEF TableTypeOK
  <2> QED
    BY <2>2, <1>3, <1>5
<1>8. WatchesExactly'
  <2>1. \A f \in Used' : fds'[f].fd = f /\ f <= max_fd'
    BY <1>1, <1>3, <1>6, <1>7 DEF selector_register, WatchesExactly, TableTypeOK, Used
  <2>2. max_fd' = 0 \/ max_fd' \in Used'
    BY <1>6 DEF selector_register, WatchesExactly
  <2>3. master_r' = {f \in Used' : "OP_READ" \in fds'[f].interest}
    BY <1>3, <1>5, <1>6, <1>7
    DEF selector_register, items_update_fdset_for_fd, WatchesExactly
  <2>4. master_w' = {f \in Used' : "OP_WRITE" \in fds'[f].interest}
    BY <1>3, <1>5, <1>6, <1>7
    DEF selector_register, items_update_fdset_for_fd, WatchesExactly
  <2> QED
    BY <2>1, <2>2, <2>3, <2>4 DEF WatchesExactly
<1>9. HoldsData'
  BY <1>3, <1>6, <1>7 DEF HoldsData
<1>10. FreeAreEmpty'
  <2> SUFFICES ASSUME NEW f \in 0..fd_size' - 1, f \notin Used' PROVE fds'[f].interest = OP_NOOP
    BY <1>2 DEF FreeAreEmpty
  <2>1. f # fd /\ f \notin Used
    BY <1>6
  <2>2. CASE f < fd_size
    <3>1. f \in DOMAIN fds /\ fds'[f] = fds[f]
      BY <1>1, <1>2, <1>3, <2>1, <2>2 DEF TableTypeOK
    <3> QED
      BY <2>1, <3>1 DEF FreeAreEmpty
  <2>3. CASE ~(f < fd_size)
    BY <1>3, <2>1, <2>3, UnusedItemType
  <2> QED
    BY <2>2, <2>3
<1> QED
  BY <1>1, <1>3, <1>4, <1>6, <1>7, <1>8, <1>9, <1>10

\* An unregistration frees its item; the new maximum is the greatest of the rest.
LEMMA UnregisterInvariant ==
    ASSUME TableInv, NEW fd, selector_unregister_fd(fd), UNCHANGED out_of_bounds
    PROVE  /\ TableInv'
           /\ Used' = Used \ {fd}
           /\ \A f \in Used' : fds'[f] = fds[f]
<1> USE TableAssumption DEF TableInv
<1>1. /\ fd \in Used
      /\ DOMAIN fds = 0..fd_size - 1
      /\ fd \in 0..fd_size - 1
      /\ fds' = [fds EXCEPT ![fd] = UnusedItem]
      /\ fd_size' = fd_size
  BY DEF selector_unregister_fd, TableTypeOK, Used
<1>2. PICK max \in 0..max_fd : items_max_fd(fds', max) /\ max_fd' = max
  BY DEF selector_unregister_fd
<1>3. TableTypeOK'
  <2>1. fds' \in [0..fd_size' - 1 -> Items]
    BY <1>1, UnusedItemType DEF TableTypeOK
  <2>2. max_fd' \in 0..fd_size' - 1
    BY <1>1, <1>2 DEF TableTypeOK
  <2>3. master_r' \in SUBSET (0..FD_SETSIZE - 1) /\ master_w' \in SUBSET (0..FD_SETSIZE - 1)
    BY DEF selector_unregister_fd, items_update_fdset_for_fd, TableTypeOK, OP_NOOP
  <2> QED
    BY <1>1, <2>1, <2>2, <2>3 DEF TableTypeOK
<1>4. /\ \A f \in Used \ {fd} : fds'[f] = fds[f]
      /\ Used' = Used \ {fd}
  <2>1. \A f \in DOMAIN fds : f # fd => fds'[f] = fds[f]
    BY <1>1
  <2>2. fds'[fd].fd = FD_UNUSED
    BY <1>1, UnusedItemType
  <2>3. DOMAIN fds' = DOMAIN fds
    BY <1>1
  <2>4. Used' = {f \in DOMAIN fds' : fds'[f].fd # FD_UNUSED}
    BY DEF Used, ITEM_USED
  <2> QED
    BY <2>1, <2>2, <2>3, <2>4 DEF Used, ITEM_USED
<1>5. WatchesExactly'
  <2>1. \A f \in Used' : fds'[f].fd = f /\ f <= max_fd'
    <3> SUFFICES ASSUME NEW f \in Used' PROVE fds'[f].fd = f /\ f <= max_fd'
      OBVIOUS
    <3>1. f \in Used /\ fds'[f] = fds[f] /\ fds[f].fd = f /\ f <= max_fd
      BY <1>4 DEF WatchesExactly
    <3>2. f \in 0..max_fd /\ fds'[f].fd # FD_UNUSED
      BY <3>1, <1>1 DEF Used, ITEM_USED, TableTypeOK
    <3> QED
      BY <3>1, <3>2, <1>2 DEF items_max_fd
  <2>2. max_fd' = 0 \/ max_fd' \in Used'
    BY <1>1, <1>2 DEF items_max_fd, Used, ITEM_USED, TableTypeOK
  <2>3. master_r' = {f \in Used' : "OP_READ" \in fds'[f].interest}
    BY <1>4 DEF selector_unregister_fd, items_update_fdset_for_fd, WatchesExactly, OP_NOOP
  <2>4. master_w' = {f \in Used' : "OP_WRITE" \in fds'[f].interest}
    BY <1>4 DEF selector_unregister_fd, items_update_fdset_for_fd, WatchesExactly, OP_NOOP
  <2> QED
    BY <2>1, <2>2, <2>3, <2>4 DEF WatchesExactly
<1>6. HoldsData'
  BY <1>4 DEF HoldsData
<1>7. FreeAreEmpty'
  BY <1>1, <1>4, UnusedItemType DEF FreeAreEmpty, TableTypeOK
<1> QED
  BY <1>3, <1>4, <1>5, <1>6, <1>7

\* A change of interest moves the descriptor's bits only.
LEMMA SetInterestInvariant ==
    ASSUME TableInv, NEW fd, NEW interest \in Interests,
           selector_set_interest(fd, interest), UNCHANGED out_of_bounds
    PROVE  /\ TableInv'
           /\ Used' = Used
           /\ fd \in Used
           /\ fds'[fd] = [fds[fd] EXCEPT !.interest = interest]
           /\ \A f \in Used : f # fd => fds'[f] = fds[f]
<1> USE TableAssumption DEF TableInv
<1>1. /\ fd \in Used
      /\ DOMAIN fds = 0..fd_size - 1
      /\ fd \in 0..fd_size - 1
      /\ fds' = [fds EXCEPT ![fd].interest = interest]
      /\ fd_size' = fd_size
      /\ max_fd' = max_fd
  BY DEF selector_set_interest, TableTypeOK, Used
<1>2. /\ fds'[fd] = [fds[fd] EXCEPT !.interest = interest]
      /\ fds[fd] \in Items
      /\ \A f \in DOMAIN fds : f # fd => fds'[f] = fds[f]
  BY <1>1 DEF TableTypeOK
<1>3. /\ fds'[fd] \in Items
      /\ fds'[fd].fd = fds[fd].fd
      /\ fds'[fd].interest = interest
  BY <1>2 DEF Items
<1>4. TableTypeOK'
  <2>1. fds' \in [0..fd_size' - 1 -> Items]
    BY <1>1, <1>2, <1>3 DEF TableTypeOK
  <2>2. fd \in 0..FD_SETSIZE - 1
    BY <1>1, <1>2 DEF Items, Used, ITEM_USED, WatchesExactly
  <2>3. master_r' \in SUBSET (0..FD_SETSIZE - 1) /\ master_w' \in SUBSET (0..FD_SETSIZE - 1)
    BY <2>2 DEF selector_set_interest, items_update_fdset_for_fd, TableTypeOK
  <2> QED
    BY <1>1, <2>1, <2>3 DEF TableTypeOK
<1>5. Used' = Used
  <2>1. DOMAIN fds' = DOMAIN fds
    BY <1>1
  <2>2. Used' = {f \in DOMAIN fds' : fds'[f].fd # FD_UNUSED}
    BY DEF Used, ITEM_USED
  <2> QED
    BY <1>1, <1>2, <1>3, <2>1, <2>2 DEF Used, ITEM_USED
<1>6. \A f \in Used : f # fd => fds'[f] = fds[f]
  BY <1>2 DEF Used
<1>7. WatchesExactly'
  <2>1. \A f \in Used' : fds'[f].fd = f /\ f <= max_fd'
    BY <1>1, <1>3, <1>5, <1>6 DEF WatchesExactly
  <2>2. max_fd' = 0 \/ max_fd' \in Used'
    BY <1>1, <1>5 DEF WatchesExactly
  <2>3. master_r' = {f \in Used' : "OP_READ" \in fds'[f].interest}
    BY <1>1, <1>3, <1>5, <1>6
    DEF selector_set_interest, items_update_fdset_for_fd, WatchesExactly
  <2>4. master_w' = {f \in Used' : "OP_WRITE" \in fds'[f].interest}
    BY <1>1, <1>3, <1>5, <1>6
    DEF selector_set_interest, items_update_fdset_for_fd, WatchesExactly
  <2> QED
    BY <2>1, <2>2, <2>3, <2>4 DEF WatchesExactly
<1>8. HoldsData'
  <2>1. fds'[fd].data = fds[fd].data
    BY <1>2 DEF Items
  <2> QED
    BY <1>5, <1>6, <2>1 DEF HoldsData
<1>9. FreeAreEmpty'
  BY <1>1, <1>2, <1>5 DEF FreeAreEmpty
<1> QED
  BY <1>1, <1>2, <1>4, <1>5, <1>6, <1>7, <1>8, <1>9

\* A used item holds a registration of a valid descriptor.
LEMMA UsedAreDescriptors ==
    ASSUME TableInv, NEW fd \in Used
    PROVE  fd \in 0..FD_SETSIZE - 1 /\ fds[fd] \in Items /\ fds[fd].data # NoData
  BY TableAssumption
  DEF TableInv, TableTypeOK, Items, Used, ITEM_USED, WatchesExactly, HoldsData

\* What an item that is not used is asked for.
LEMMA InterestedAreUsed ==
    ASSUME TableInv, NEW fd \in 0..fd_size - 1, fds[fd].interest # {}
    PROVE  fd \in Used
  BY DEF TableInv, TableTypeOK, FreeAreEmpty, OP_NOOP

\* A refused call changes nothing.
LEMMA TableQuietInvariant ==
    TableInv /\ out_of_bounds' \in BOOLEAN /\ UNCHANGED table => TableInv'
  BY DEF TableInv, TableTypeOK, WatchesExactly, HoldsData, FreeAreEmpty, Used, ITEM_USED,
         table

\* Every call keeps the invariant.
LEMMA TableStepInvariant == TableInv /\ [TableNext]_table_vars => TableInv'
<1> SUFFICES ASSUME TableInv, [TableNext]_table_vars PROVE TableInv'
  OBVIOUS
<1>1. CASE TableStep /\ UNCHANGED out_of_bounds
  BY <1>1, RegisterInvariant, UnregisterInvariant, SetInterestInvariant, TableAssumption
  DEF TableStep
<1>2. CASE GoesOutside
  BY <1>2, TableQuietInvariant DEF GoesOutside
<1>3. CASE UNCHANGED table_vars
  BY <1>3, TableQuietInvariant DEF table_vars, TableInv, TableTypeOK
<1> QED
  BY <1>1, <1>2, <1>3 DEF TableNext

\* Hence it always holds.
LEMMA TableInvariance == TableSpec => []TableInv
  BY TableInitInvariant, TableStepInvariant, PTL DEF TableSpec

-----------------------------------------------------------------------------
(* The table: its theorems.                                                *)

\* Every variable keeps its type: fds grows, and never beyond the platform.
THEOREM TableTypeCorrect == TableSpec => []TableTypeOK
<1>1. TableInv => TableTypeOK
  BY DEF TableInv
<1> QED
  BY TableInvariance, <1>1, PTL

\* What pselect is given is exactly what is registered, after any sequence of
\* calls (selector.c:225-238, 368-371, 403-408, 427-428).
THEOREM TableWatchesExactly == TableSpec => []WatchesExactly
<1>1. TableInv => WatchesExactly
  BY DEF TableInv
<1> QED
  BY TableInvariance, <1>1, PTL

-----------------------------------------------------------------------------
(* The array, the sets and the maximum implement FdRegistry.               *)

Promised == [fd \in 0..FD_SETSIZE - 1 |-> Registration(fd)]

WatchAgrees ==
    /\ {fd \in master_r : fd < max_fd + 1}
          = {fd \in 0..FD_SETSIZE - 1 : "OP_READ" \in Promised[fd].interest}
    /\ {fd \in master_w : fd < max_fd + 1}
          = {fd \in 0..FD_SETSIZE - 1 : "OP_WRITE" \in Promised[fd].interest}

\* What pselect looks at is all of the two sets, and just what the registry
\* says to watch.
LEMMA PromisedWatch == TableInv => WatchAgrees
<1> SUFFICES ASSUME TableInv PROVE WatchAgrees
  OBVIOUS
<1>1. max_fd \in Int /\ Used \subseteq Int
  BY DEF TableInv, TableTypeOK, Used
<1>2. \A fd \in Used : fd < max_fd + 1
  BY <1>1 DEF TableInv, WatchesExactly
<1>3. Used \subseteq 0..FD_SETSIZE - 1
  BY TableAssumption DEF TableInv, TableTypeOK, Items, Used, ITEM_USED, WatchesExactly
<1>4. \A fd \in 0..FD_SETSIZE - 1 :
          Promised[fd].interest = IF fd \in Used THEN fds[fd].interest ELSE {}
  BY DEF Promised, Registration, OP_NOOP
<1> QED
  BY <1>2, <1>3, <1>4 DEF TableInv, WatchesExactly, WatchAgrees

\* What PromisedWatch says holds in the next state too.
LEMMA PromisedWatchNext == TableInv' => WatchAgrees'
  BY PromisedWatch, PTL

\* The empty table is the empty registry.
LEMMA RegistryInit == TableInit => Registry!Init
<1> SUFFICES ASSUME TableInit PROVE Registry!Init
  OBVIOUS
<1>1. Used = {} /\ master_r = {} /\ master_w = {}
  BY DEF TableInit, Used, ITEM_USED, UnusedItem
<1> QED
  BY <1>1 DEF Registry!Init, Registry!Fd, Registry!Free, Registry!OP_NOOP,
              Registration, OP_NOOP

\* Every call is one of the registry's.
LEMMA RegistryStep ==
    TableInv /\ [TableNext]_table_vars => [Registry!Next]_(Registry!promised)
<1> SUFFICES ASSUME TableInv, [TableNext]_table_vars
             PROVE  [Registry!Next]_(Registry!promised)
  OBVIOUS
<1> USE TableAssumption
<1>1. CASE TableStep /\ UNCHANGED out_of_bounds
  <2>1. TableInv'
    BY TableStepInvariant
  <2>2. Registry!Watch
    BY <2>1, PromisedWatchNext DEF WatchAgrees, Registry!Watch, Registry!Fd, Promised
  <2>3. PICK fd \in Descriptors :
            \/ selector_unregister_fd(fd)
            \/ \E interest \in Interests :
                \/ selector_set_interest(fd, interest)
                \/ \E data \in Data : selector_register(fd, interest, data)
    BY <1>1 DEF TableStep
  <2> DEFINE R == [f \in 0..FD_SETSIZE - 1 |-> Registration(f)]
  <2>4. CASE selector_unregister_fd(fd)
    <3>1. /\ fd \in Used
          /\ Used' = Used \ {fd}
          /\ \A f \in Used' : fds'[f] = fds[f]
      BY <1>1, <2>4, UnregisterInvariant DEF selector_unregister_fd
    <3>2. fd \in 0..FD_SETSIZE - 1
      BY <3>1, UsedAreDescriptors
    <3>3. Registration(fd) # [data |-> NoData, interest |-> {}]
      BY <3>1, UsedAreDescriptors DEF Registration
    <3>4. R' = [R EXCEPT ![fd] = [data |-> NoData, interest |-> {}]]
      BY <3>1, <3>2 DEF Registration, OP_NOOP
    <3>5. Registry!Unregister(fd)
      BY <2>2, <3>2, <3>3, <3>4
      DEF Registry!Unregister, Registry!Free, Registry!OP_NOOP
    <3> QED
      BY <3>2, <3>5 DEF Registry!Next, Registry!Fd
  <2>5. ASSUME NEW interest \in Interests, selector_set_interest(fd, interest)
        PROVE  Registry!Next
    <3>1. /\ fd \in Used
          /\ Used' = Used
          /\ fds'[fd] = [fds[fd] EXCEPT !.interest = interest]
          /\ \A f \in Used : f # fd => fds'[f] = fds[f]
      BY <1>1, <2>5, SetInterestInvariant
    <3>2. fd \in 0..FD_SETSIZE - 1 /\ fds[fd] \in Items
      BY <3>1, UsedAreDescriptors
    <3>3. fds'[fd].interest = interest /\ fds'[fd].data = fds[fd].data
      BY <3>1, <3>2 DEF Items
    <3>4. Registration(fd) # [data |-> NoData, interest |-> {}]
      BY <3>1, UsedAreDescriptors DEF Registration
    <3>5. Registration(fd)' = [Registration(fd) EXCEPT !.interest = interest]
      BY <3>1, <3>3 DEF Registration
    <3>6. \A f \in 0..FD_SETSIZE - 1 : f # fd => Registration(f)' = Registration(f)
      BY <3>1 DEF Registration
    <3>7. R' = [R EXCEPT ![fd].interest = interest]
      BY <3>2, <3>5, <3>6
    <3>8. Registry!SetInterest(fd, interest)
      BY <2>2, <3>2, <3>4, <3>7
      DEF Registry!SetInterest, Registry!Free, Registry!OP_NOOP
    <3> QED
      BY <2>5, <3>2, <3>8
      DEF Registry!Next, Registry!Fd, Registry!Interests, Interests
  <2>6. ASSUME NEW interest \in Interests, NEW data \in Data,
               selector_register(fd, interest, data)
        PROVE  Registry!Next
    <3>1. /\ fd \notin Used
          /\ Used' = Used \cup {fd}
          /\ fds'[fd] = [fd |-> fd, interest |-> interest, data |-> data]
          /\ \A f \in Used : fds'[f] = fds[f]
      BY <1>1, <2>6, RegisterInvariant DEF selector_register
    <3>2. fd \in 0..FD_SETSIZE - 1
      BY <2>6 DEF selector_register, INVALID_FD
    <3>3. Registration(fd) = [data |-> NoData, interest |-> {}]
      BY <3>1 DEF Registration, OP_NOOP
    <3>4. Registration(fd)' = [data |-> data, interest |-> interest]
      BY <3>1 DEF Registration
    <3>5. \A f \in 0..FD_SETSIZE - 1 : f # fd => Registration(f)' = Registration(f)
      BY <3>1 DEF Registration
    <3>6. R' = [R EXCEPT ![fd] = [data |-> data, interest |-> interest]]
      BY <3>2, <3>4, <3>5
    <3>7. Registry!Register(fd, interest, data)
      BY <2>2, <3>2, <3>3, <3>6
      DEF Registry!Register, Registry!Free, Registry!OP_NOOP
    <3> QED
      BY <2>6, <3>2, <3>7
      DEF Registry!Next, Registry!Fd, Registry!Interests, Interests
  <2> QED
    BY <2>3, <2>4, <2>5, <2>6
<1>2. CASE UNCHANGED table
  BY <1>2 DEF table, Registry!promised, Registration, Used, ITEM_USED
<1> QED
  BY <1>1, <1>2 DEF TableNext, GoesOutside, table_vars

\* Every sequence of registrations, removals and changes of interest is one of
\* FdRegistry, whatever the array had to do meanwhile.
THEOREM TableImplementsRegistry == TableSpec => ImplementsRegistry
  BY TableInvariance, RegistryInit, RegistryStep, PTL
  DEF TableSpec, ImplementsRegistry, Registry!Spec

-----------------------------------------------------------------------------
(* The selector.                                                           *)

\* The steps that are no calls of the selector but for selector_notify_block.
Loops ==
    \/ PselectReturns \/ PselectInterrupted \/ PselectBadDescriptor \/ PselectFails
    \/ handle_iteration \/ handle_block_notifications
    \/ DestroyBegins \/ DestroyEnds
    \/ ReturnFromCallback
    \/ CallStartJob
    \/ \E job \in working : selector_notify_block(job)
    \/ \E fd \in Descriptors : CallClose(fd)

\* The loops, the waits and the returns of callbacks change no item and no set.
LEMMA LoopsLeaveTable ==
    ASSUME Loops
    PROVE  UNCHANGED table_vars /\ UNCHANGED life
  BY DEF Loops, PselectReturns, PselectInterrupted, PselectBadDescriptor, PselectFails,
         handle_iteration, SkipUnused, ReadItem, WriteItem, IterationEnds,
         handle_block_notifications, NotifyJob, NotifyEnds, DestroyBegins, DestroyEnds,
         ReturnFromCallback, CallStartJob, selector_notify_block, CallClose

-----------------------------------------------------------------------------
(* The table underneath.                                                   *)

\* What becomes of the table in a step of the selector.
TableEffect ==
    \/ UNCHANGED table_vars
    \/ /\ ~out_of_bounds
       /\ UNCHANGED out_of_bounds
       /\ \E fd \in Int :
            \/ selector_unregister_fd(fd)
            \/ \E interest \in Interests :
                \/ selector_set_interest(fd, interest)
                \/ fd \in Descriptors /\ \E d \in Data : selector_register(fd, interest, d)
    \/ ~out_of_bounds /\ GoesOutside

\* An unregistration is that of the table, whether or not it calls handle_close.
LEMMA UnregisterEffect ==
    ASSUME TableInv, NEW fd \in Used, Unregister(fd), UNCHANGED out_of_bounds,
           ~out_of_bounds
    PROVE  TableEffect
<1>1. fd \in Int
  BY UsedAreDescriptors
<1>2. CASE \E told : ItemCleared(fd, told)
  BY <1>1, <1>2 DEF ItemCleared, TableEffect
<1>3. CASE UNCHANGED table
  BY <1>3 DEF TableEffect, table_vars
<1> QED
  BY <1>2, <1>3 DEF Unregister

\* Every step has one of the effects on the table.
LEMMA StepEffect ==
    ASSUME TableInv, [Next]_vars
    PROVE  TableEffect
<1> USE TableAssumption
<1>1. CASE Loops
  BY <1>1, LoopsLeaveTable DEF TableEffect
<1>2. CASE UNCHANGED vars
  BY <1>2 DEF TableEffect, vars
<1>3. ASSUME ~out_of_bounds, NEW fd \in Descriptors, CallUnregister(fd)
      PROVE  TableEffect
  BY <1>3, UnregisterEffect DEF CallUnregister
<1>4. ASSUME ~out_of_bounds, DestroyItem
      PROVE  TableEffect
  <2>1. CASE i \in Used /\ Unregister(i)
    BY <1>4, <2>1, UnregisterEffect DEF DestroyItem
  <2>2. CASE i \notin Used
    BY <1>4, <2>2 DEF DestroyItem, TableEffect, table_vars
  <2> QED
    BY <1>4, <2>1, <2>2 DEF DestroyItem
<1>5. ASSUME ~out_of_bounds, ReturnFromClose
      PROVE  TableEffect
  <2>1. CASE ItemCleared(Head(stack).fd, Head(stack).data)
    <3>1. Head(stack).fd \in Int
      BY <2>1, UsedAreDescriptors DEF ItemCleared, selector_unregister_fd
    <3> QED
      BY <1>5, <2>1, <3>1 DEF ReturnFromClose, ItemCleared, TableEffect
  <2>2. CASE UNCHANGED table
    BY <1>5, <2>2 DEF ReturnFromClose, TableEffect, table_vars
  <2> QED
    BY <1>5, <2>1, <2>2 DEF ReturnFromClose
<1>6. ASSUME ~out_of_bounds, NEW fd \in Descriptors, CallOutside(fd)
      PROVE  TableEffect
  BY <1>6 DEF CallOutside, TableEffect, GoesOutside
<1>7. ASSUME ~out_of_bounds, NEW fd \in Descriptors, NEW interest \in Interests,
             \/ CallSetInterest(fd, interest)
             \/ \E d \in Data : CallRegister(fd, interest, d)
      PROVE  TableEffect
  BY <1>7 DEF CallSetInterest, CallRegister, TableEffect
<1> QED
  BY <1>1, <1>2, <1>3, <1>4, <1>5, <1>6, <1>7 DEF Next, Program, Loops, selector_destroy

\* Used items hold descriptors that the program has passed.
SelectorTableInv == TableInv /\ Used \subseteq Descriptors

\* Each effect keeps the table's invariant.
LEMMA EffectInvariant == SelectorTableInv /\ TableEffect => SelectorTableInv'
<1> SUFFICES ASSUME SelectorTableInv, TableEffect PROVE SelectorTableInv'
  OBVIOUS
<1> USE DEF SelectorTableInv
<1>1. CASE UNCHANGED table_vars
  BY <1>1, TableQuietInvariant
  DEF table_vars, table, TableInv, TableTypeOK, Used, ITEM_USED
<1>2. CASE GoesOutside
  BY <1>2, TableQuietInvariant DEF GoesOutside, table, Used, ITEM_USED
<1>3. ASSUME NEW fd \in Int, selector_unregister_fd(fd), UNCHANGED out_of_bounds
      PROVE  SelectorTableInv'
  BY <1>3, UnregisterInvariant
<1>4. ASSUME NEW fd \in Int, NEW interest \in Interests,
             selector_set_interest(fd, interest), UNCHANGED out_of_bounds
      PROVE  SelectorTableInv'
  BY <1>4, SetInterestInvariant
<1>5. ASSUME NEW fd \in Int, NEW interest \in Interests, NEW d \in Data,
             fd \in Descriptors, selector_register(fd, interest, d),
             UNCHANGED out_of_bounds
      PROVE  SelectorTableInv'
  BY <1>5, RegisterInvariant
<1> QED
  BY <1>1, <1>2, <1>3, <1>4, <1>5 DEF TableEffect

\* Each effect is a step of SelectorTable, or none.
LEMMA EffectIsTableStep ==
    SelectorTableInv /\ TableEffect => [TableNext]_table_vars
<1> SUFFICES ASSUME SelectorTableInv, TableEffect PROVE [TableNext]_table_vars
  OBVIOUS
<1>1. \A fd \in Used : fd \in Descriptors
  BY DEF SelectorTableInv
<1>2. ASSUME NEW fd \in Int, selector_unregister_fd(fd)
      PROVE  TableStep
  BY <1>1, <1>2 DEF TableStep, selector_unregister_fd
<1>3. ASSUME NEW fd \in Int, NEW interest \in Interests,
             selector_set_interest(fd, interest)
      PROVE  TableStep
  BY <1>1, <1>3 DEF TableStep, selector_set_interest
<1>4. ASSUME NEW fd \in Descriptors, NEW interest \in Interests, NEW d \in Data,
             selector_register(fd, interest, d)
      PROVE  TableStep
  BY <1>4 DEF TableStep
<1> QED
  BY <1>2, <1>3, <1>4 DEF TableEffect, TableNext

\* The table's invariant holds whatever the program does.
LEMMA SelectorTableInvariance == Spec => []SelectorTableInv
<1>1. Init => SelectorTableInv
  <2>1. TableInit => Used = {}
    BY DEF TableInit, Used, ITEM_USED, UnusedItem
  <2> QED
    BY <2>1, TableInitInvariant DEF Init, SelectorTableInv
<1>2. SelectorTableInv /\ [Next]_vars => SelectorTableInv'
  BY StepEffect, EffectInvariant DEF SelectorTableInv
<1> QED
  BY <1>1, <1>2, PTL DEF Spec

\* What the callbacks do to the table by re-entering the selector is calls of
\* SelectorTable.
LEMMA SelectorImplementsTable == Spec => TableSpec
<1>1. Init => TableInit
  BY DEF Init
<1>2. SelectorTableInv /\ [Next]_vars => [TableNext]_table_vars
  BY StepEffect, EffectIsTableStep DEF SelectorTableInv
<1> QED
  BY SelectorTableInvariance, <1>1, <1>2, PTL DEF Spec, TableSpec

\* While callbacks run and when they have returned, pselect would watch exactly
\* the registered descriptors for their interests.
THEOREM SelectorWatchesExactly == Spec => []WatchesExactly
<1>1. SelectorTableInv => WatchesExactly
  BY DEF SelectorTableInv, TableInv
<1> QED
  BY SelectorTableInvariance, <1>1, PTL

-----------------------------------------------------------------------------
(* Any program: what is in the items, and who has a key in hand.           *)

Frames == [call : Callbacks, fd : 0..FD_SETSIZE - 1, data : Data, moved : BOOLEAN]

Alive == {"registered", "closing"}

\* The registrations that are not over are in the used items, each in one.
HeldInv ==
    /\ \A fd \in Used : life[fds[fd].data] \in Alive
    /\ \A d \in Data : life[d] \in Alive => \E fd \in Used : Holds(fd, d)
    /\ \A fd1, fd2 \in Used : fds[fd1].data = fds[fd2].data => fd1 = fd2

\* What handle_iteration carries from one item to the next.
LoopInv ==
    /\ slave_r \subseteq 0..FD_SETSIZE - 1
    /\ slave_w \subseteq 0..FD_SETSIZE - 1
    /\ key_data \in Data \cup {NoData}
    /\ phase = "write" => key_data \in Data

SelectorInv ==
    /\ SelectorTableInv
    /\ stack \in Seq(Frames)
    /\ life \in [Data -> Lives]
    /\ HeldInv
    /\ LoopInv

\* The selector starts in its invariant.
LEMMA SelectorInit == Init => SelectorInv
<1> SUFFICES ASSUME Init PROVE SelectorInv
  OBVIOUS
<1> USE DEF Init
<1>1. Used = {}
  BY DEF TableInit, Used, ITEM_USED, UnusedItem
<1>2. SelectorTableInv
  BY <1>1, TableInitInvariant DEF SelectorTableInv
<1>3. HeldInv
  BY <1>1 DEF HeldInv, Alive
<1>4. stack \in Seq(Frames) /\ life \in [Data -> Lives]
  BY DEF Lives
<1> QED
  BY <1>2, <1>3, <1>4 DEF SelectorInv, LoopInv

SameData == \A fd \in Used' : fd \in Used => fds'[fd].data = fds[fd].data

\* What a step does to the items' data and to the registrations.
DataEffect ==
    \/ life' = life /\ Used' = Used /\ SameData
    \/ \E fd \in Descriptors, interest \in Interests, d \in Data :
        CallRegister(fd, interest, d)
    \/ /\ \E fd \in Used : life' = [life EXCEPT ![fds[fd].data] = "closing"]
       /\ Used' = Used /\ SameData
    \/ UNCHANGED out_of_bounds /\ \E fd, told : ItemCleared(fd, told)

\* selector_unregister_fd, wherever it is called.
LEMMA UnregisterData ==
    ASSUME NEW fd \in Used, Unregister(fd), UNCHANGED out_of_bounds
    PROVE  DataEffect
  BY DEF Unregister, DataEffect, SameData, table, Used, ITEM_USED

\* Every step has one of the effects on the data.
LEMMA StepData == ASSUME SelectorTableInv, [Next]_vars PROVE DataEffect
<1> USE TableAssumption
<1>1. CASE Loops
  BY <1>1, LoopsLeaveTable DEF DataEffect, SameData, table_vars, table, Used, ITEM_USED
<1>2. CASE UNCHANGED vars
  BY <1>2 DEF DataEffect, SameData, vars, table_vars, table, Used, ITEM_USED
<1>3. ASSUME NEW fd \in Descriptors, NEW interest \in Interests, NEW d \in Data,
             CallRegister(fd, interest, d)
      PROVE  DataEffect
  BY <1>3 DEF DataEffect
<1>4. ASSUME NEW fd \in Descriptors, NEW interest \in Interests,
             CallSetInterest(fd, interest)
      PROVE  DataEffect
  <2>1. /\ Used' = Used
        /\ fd \in Used
        /\ fds'[fd] = [fds[fd] EXCEPT !.interest = interest]
        /\ \A f \in Used : f # fd => fds'[f] = fds[f]
        /\ life' = life
    BY <1>4, SetInterestInvariant DEF CallSetInterest, SelectorTableInv
  <2>2. fds[fd] \in Items
    BY <2>1, UsedAreDescriptors DEF SelectorTableInv
  <2>3. SameData
    BY <2>1, <2>2 DEF SameData, Items
  <2> QED
    BY <2>1, <2>3 DEF DataEffect
<1>5. ASSUME NEW fd \in Descriptors, CallUnregister(fd)
      PROVE  DataEffect
  BY <1>5, UnregisterData DEF CallUnregister
<1>6. ASSUME NEW fd \in Descriptors, CallOutside(fd)
      PROVE  DataEffect
  BY <1>6 DEF CallOutside, DataEffect, SameData, table, Used, ITEM_USED
<1>7. CASE ReturnFromClose
  BY <1>7 DEF ReturnFromClose, DataEffect, SameData, table, Used, ITEM_USED
<1>8. CASE DestroyItem
  <2>1. CASE i \in Used /\ Unregister(i)
    BY <1>8, <2>1, UnregisterData DEF DestroyItem
  <2>2. CASE UNCHANGED <<table, life>>
    BY <2>2 DEF DataEffect, SameData, table, Used, ITEM_USED
  <2> QED
    BY <1>8, <2>1, <2>2 DEF DestroyItem
<1> QED
  BY <1>1, <1>2, <1>3, <1>4, <1>5, <1>6, <1>7, <1>8
  DEF Next, Program, Loops, selector_destroy

\* A registration takes a free item for a data that was never registered.
LEMMA RegisterData ==
    ASSUME SelectorInv, NEW fd \in Descriptors, NEW interest \in Interests, NEW d \in Data,
           CallRegister(fd, interest, d)
    PROVE  /\ fd \notin Used /\ Used' = Used \cup {fd}
           /\ fds'[fd] = [fd |-> fd, interest |-> interest, data |-> d]
           /\ \A f \in Used : fds'[f] = fds[f]
           /\ life[d] = "fresh" /\ \A f \in Used : fds[f].data # d
           /\ life' \in [Data -> Lives] /\ life'[d] = "registered"
           /\ \A e \in Data : e # d => life'[e] = life[e]
<1>1. /\ Used' = Used \cup {fd}
      /\ fds'[fd] = [fd |-> fd, interest |-> interest, data |-> d]
      /\ \A f \in Used : fds'[f] = fds[f]
  BY RegisterInvariant, TableAssumption DEF CallRegister, SelectorInv, SelectorTableInv
<1>2. fd \notin Used
  BY DEF CallRegister, selector_register
<1>3. life[d] = "fresh" /\ life' = [life EXCEPT ![d] = "registered"]
  BY DEF CallRegister
<1>4. \A f \in Used : fds[f].data # d
  BY <1>3 DEF SelectorInv, HeldInv, Alive
<1> QED
  BY <1>1, <1>2, <1>3, <1>4 DEF SelectorInv, Lives

\* An item is cleared, and the registration that was in it is over.
LEMMA ClearData ==
    ASSUME SelectorInv, NEW fd, NEW told, ItemCleared(fd, told), UNCHANGED out_of_bounds
    PROVE  /\ fd \in Used /\ Used' = Used \ {fd}
           /\ \A f \in Used' : fds'[f] = fds[f]
           /\ fds[fd].data \in Data
           /\ life' \in [Data -> Lives]
           /\ life'[fds[fd].data] = IF fds[fd].data = told THEN "closed" ELSE "lost"
           /\ \A e \in Data : e # fds[fd].data => life'[e] = life[e]
<1>1. /\ fd \in Used
      /\ Used' = Used \ {fd}
      /\ \A f \in Used' : fds'[f] = fds[f]
  BY UnregisterInvariant DEF ItemCleared, selector_unregister_fd, SelectorInv, SelectorTableInv
<1>2. PICK d \in Data : d = fds[fd].data
  BY <1>1 DEF SelectorInv, SelectorTableInv, TableInv, HoldsData
<1>3. life' = [life EXCEPT ![d] = IF d = told THEN "closed" ELSE "lost"]
  BY <1>2 DEF ItemCleared
<1> QED
  BY <1>1, <1>2, <1>3 DEF SelectorInv, Lives

\* Nothing but a registration brings a data to an item.
LEMMA ItemsStay ==
    ASSUME SelectorInv, [Next]_vars, NEW fd \in Used',
           \A interest \in Interests, d \in Data : ~CallRegister(fd, interest, d)
    PROVE  fd \in Used /\ fds'[fd].data = fds[fd].data
<1>1. DataEffect
  BY StepData DEF SelectorInv
<1>2. CASE Used' = Used /\ SameData
  BY <1>2 DEF SameData
<1>3. ASSUME NEW f \in Descriptors, NEW interest \in Interests, NEW d \in Data,
             CallRegister(f, interest, d)
      PROVE  fd \in Used /\ fds'[fd].data = fds[fd].data
  <2>1. f # fd
    BY <1>3
  <2>2. Used' = Used \cup {f} /\ \A g \in Used : fds'[g] = fds[g]
    BY <1>3, RegisterData
  <2> QED
    BY <2>1, <2>2
<1>4. ASSUME NEW f, NEW told, ItemCleared(f, told), UNCHANGED out_of_bounds
      PROVE  fd \in Used /\ fds'[fd].data = fds[fd].data
  BY <1>4, ClearData
<1> QED
  BY <1>1, <1>2, <1>3, <1>4 DEF DataEffect

\* Registrations stay where they are until they are over.
LEMMA HeldStep ==
    ASSUME SelectorInv, [Next]_vars
    PROVE  HeldInv' /\ life' \in [Data -> Lives]
<1>1. DataEffect
  BY StepData DEF SelectorInv
<1>2. HeldInv /\ life \in [Data -> Lives] /\ \A fd \in Used : fds[fd].data \in Data
  BY DEF SelectorInv, SelectorTableInv, TableInv, HoldsData
<1>3. CASE life' = life /\ Used' = Used /\ SameData
  BY <1>2, <1>3 DEF HeldInv, SameData, Holds
<1>4. ASSUME NEW fd \in Descriptors, NEW interest \in Interests, NEW d \in Data,
             CallRegister(fd, interest, d)
      PROVE  HeldInv' /\ life' \in [Data -> Lives]
  <2>1. /\ fd \notin Used /\ Used' = Used \cup {fd}
        /\ fds'[fd] = [fd |-> fd, interest |-> interest, data |-> d]
        /\ \A f \in Used : fds'[f] = fds[f]
        /\ life[d] = "fresh" /\ \A f \in Used : fds[f].data # d
        /\ life' \in [Data -> Lives] /\ life'[d] = "registered"
        /\ \A e \in Data : e # d => life'[e] = life[e]
    BY <1>4, RegisterData
  <2>2. fds'[fd].data = d
    BY <2>1
  <2> QED
    BY <1>2, <2>1, <2>2 DEF HeldInv, Holds, Alive
<1>5. ASSUME NEW fd \in Used, life' = [life EXCEPT ![fds[fd].data] = "closing"],
             Used' = Used, SameData
      PROVE  HeldInv' /\ life' \in [Data -> Lives]
  <2>1. PICK d \in Data : d = fds[fd].data
    BY <1>2
  <2>2. /\ life' \in [Data -> Lives] /\ life'[d] = "closing"
        /\ \A e \in Data : e # d => life'[e] = life[e]
    BY <1>2, <1>5, <2>1 DEF Lives
  <2>3. \A f \in Used : fds'[f].data = fds[f].data
    BY <1>5 DEF SameData
  <2> QED
    BY <1>2, <1>5, <2>1, <2>2, <2>3 DEF HeldInv, Holds, Alive
<1>6. ASSUME NEW fd, NEW told, ItemCleared(fd, told), UNCHANGED out_of_bounds
      PROVE  HeldInv' /\ life' \in [Data -> Lives]
  <2>1. PICK d : d = fds[fd].data
    OBVIOUS
  <2>2. /\ fd \in Used /\ Used' = Used \ {fd} /\ d \in Data
        /\ \A f \in Used' : fds'[f] = fds[f]
        /\ life' \in [Data -> Lives] /\ life'[d] \in {"closed", "lost"}
        /\ \A e \in Data : e # d => life'[e] = life[e]
    BY <1>6, <2>1, ClearData
  <2>3. \A f \in Used' : fds[f].data # d
    BY <1>2, <2>1, <2>2 DEF HeldInv
  <2> QED
    BY <1>2, <2>1, <2>2, <2>3 DEF HeldInv, Holds, Alive
<1> QED
  BY <1>1, <1>3, <1>4, <1>5, <1>6 DEF DataEffect

\* Only the loops and selector_destroy move the cursor, and only they and the
\* threads change the jobs.
LEMMA CallsLeaveLoop ==
    ASSUME [Next]_vars
    PROVE  Loops \/ DestroyItem \/ UNCHANGED <<loop, job_vars>>
  BY DEF Next, Program, Loops, selector_destroy, vars, CallRegister, CallSetInterest,
         CallUnregister, CallOutside, ReturnFromClose

\* selector_destroy changes nothing of the loop but the cursor.
LEMMA DestroyItemLoop ==
    ASSUME DestroyItem
    PROVE  /\ phase = "destroy" /\ phase' = "destroy"
           /\ i < fd_size /\ i' = i + 1
           /\ UNCHANGED <<n, key_data, slave_r, slave_w, ready_r, ready_w, job_vars, fault>>
  BY DEF DestroyItem

\* What becomes of the loop when handle_iteration runs.
LEMMA IterationLoop ==
    ASSUME [Next]_vars, phase' \in {"read", "write"}
    PROVE  \/ PselectReturns
           \/ /\ phase = "read" /\ phase' = "write" /\ ReadItem
              /\ UNCHANGED <<slave_r, slave_w, ready_r, ready_w>>
           \/ /\ phase \in {"read", "write"}
              /\ phase' = "read" \/ (phase' = phase /\ UNCHANGED <<i, key_data>>)
              /\ UNCHANGED <<slave_r, slave_w, ready_r, ready_w>>
<1>1. CASE Loops
  BY <1>1
  DEF Loops, PselectInterrupted, PselectBadDescriptor, PselectFails, handle_iteration,
      SkipUnused, ReadItem, WriteItem, IterationEnds, handle_block_notifications, NotifyJob,
      NotifyEnds, DestroyBegins, DestroyEnds, ReturnFromCallback, CallStartJob,
      selector_notify_block, CallClose, loop
<1>2. CASE UNCHANGED loop
  BY <1>2 DEF loop
<1> QED
  BY <1>1, <1>2, CallsLeaveLoop, DestroyItemLoop

\* The key is filled in before handle_iteration uses it.
LEMMA LoopStep == ASSUME SelectorInv, [Next]_vars PROVE LoopInv'
<1> USE DEF SelectorInv, LoopInv
<1>1. CASE PselectReturns
  <2>1. slave_r' \subseteq master_r /\ slave_w' \subseteq master_w
    BY <1>1 DEF PselectReturns, Beyond
  <2>2. key_data' = key_data /\ phase' = "read"
    BY <1>1 DEF PselectReturns
  <2> QED
    BY <2>1, <2>2 DEF SelectorTableInv, TableInv, TableTypeOK
<1>2. CASE ReadItem
  <2>1. key_data' = fds[i].data /\ i \in Used /\ UNCHANGED <<slave_r, slave_w>>
    BY <1>2 DEF ReadItem
  <2> QED
    BY <2>1 DEF SelectorTableInv, TableInv, HoldsData
<1>3. CASE ~PselectReturns /\ ~ReadItem
  <2>1. UNCHANGED <<slave_r, slave_w, key_data>>
    <3>1. CASE Loops
      BY <1>3, <3>1
      DEF Loops, PselectInterrupted, PselectBadDescriptor, PselectFails, handle_iteration,
          SkipUnused, WriteItem, IterationEnds, handle_block_notifications, NotifyJob,
          NotifyEnds, DestroyBegins, DestroyEnds, ReturnFromCallback, CallStartJob,
          selector_notify_block, CallClose, loop
    <3> QED
      BY <3>1, CallsLeaveLoop, DestroyItemLoop DEF loop
  <2>2. phase' = "write" => phase = "write"
    BY <1>3, IterationLoop
  <2> QED
    BY <2>1, <2>2
<1> QED
  BY <1>1, <1>2, <1>3

-----------------------------------------------------------------------------
(* Any program: how callbacks start and return.                            *)

Unregisters(fd) == (fd \in Descriptors /\ CallUnregister(fd)) \/ (DestroyItem /\ fd = i)

CloseStarts(f) ==
    /\ Unregisters(f.fd)
    /\ f.fd \in Used
    /\ f = Frame("close", f.fd, fds[f.fd].data)
    /\ life' = [life EXCEPT ![f.data] = "closing"]
    /\ UNCHANGED table

ReadStarts(f) ==
    /\ ReadItem
    /\ i \in slave_r /\ "OP_READ" \in fds[i].interest
    /\ f = Frame("read", i, fds[i].data)

WriteStarts(f) ==
    /\ WriteItem
    /\ i \in slave_w /\ "OP_WRITE" \in fds[i].interest
    /\ f = Frame("write", i, key_data)

BlockStarts(f) ==
    /\ NotifyJob
    /\ Head(jobs).fd \in Used
    /\ f = Frame("block", Head(jobs).fd, fds[Head(jobs).fd].data)

LoopStarts(f) == ReadStarts(f) \/ WriteStarts(f) \/ BlockStarts(f)

Starting(f) == CloseStarts(f) \/ LoopStarts(f)

\* A registration that makes fds grow.
Growing == fd_size' # fd_size /\ \E fd \in Descriptors, interest \in Interests, d \in Data :
    CallRegister(fd, interest, d)

\* What becomes of the callbacks in progress in a step.
StackEffect ==
    \/ stack' = stack
    \/ stack' = ItemsMoved /\ Growing
    \/ stack # <<>> /\ stack' = Tail(stack)
    \/ \E f \in Frames : Starting(f) /\ stack' = <<f>> \o stack

\* A callback starts for an item and with a data.
LEMMA FrameTypes ==
    ASSUME NEW call \in Callbacks, NEW fd \in 0..FD_SETSIZE - 1, NEW d \in Data
    PROVE  /\ Frame(call, fd, d) \in Frames
           /\ Frame(call, fd, d).call = call
           /\ Frame(call, fd, d).fd = fd
           /\ Frame(call, fd, d).data = d
           /\ ~Frame(call, fd, d).moved
  BY DEF Frame, Frames

\* selector_unregister_fd enters handle_close or no callback.
LEMMA UnregisterStack ==
    ASSUME SelectorInv, NEW fd \in Used, Unregister(fd), Unregisters(fd)
    PROVE  StackEffect
<1>1. CASE stack' = stack
  BY <1>1 DEF StackEffect
<1>2. CASE /\ stack' = <<Frame("close", fd, fds[fd].data)>> \o stack
           /\ life' = [life EXCEPT ![fds[fd].data] = "closing"]
           /\ UNCHANGED table
  <2>1. PICK f : f = Frame("close", fd, fds[fd].data)
    OBVIOUS
  <2>2. fd \in 0..FD_SETSIZE - 1 /\ fds[fd].data \in Data
    BY UsedAreDescriptors DEF SelectorInv, SelectorTableInv, TableInv, HoldsData
  <2>3. f \in Frames /\ f.fd = fd /\ f.data = fds[fd].data
    BY <2>1, <2>2, FrameTypes DEF Callbacks
  <2>4. CloseStarts(f)
    BY <1>2, <2>1, <2>3 DEF CloseStarts
  <2> QED
    BY <1>2, <2>1, <2>3, <2>4 DEF StackEffect, Starting
<1> QED
  BY <1>1, <1>2 DEF Unregister

\* What becomes of them in a step of the selector's own loops.
LoopStack ==
    \/ stack' = stack
    \/ stack # <<>> /\ Head(stack).call # "close" /\ stack' = Tail(stack)
    \/ \E f \in Frames : LoopStarts(f) /\ stack' = <<f>> \o stack

\* A loop starts a callback while none is in progress.
LEMMA LoopPush ==
    ASSUME stack = <<>>, NEW f \in Frames, LoopStarts(f), stack' = <<f>>
    PROVE  LoopStack
<1>1. stack' = <<f>> \o stack
  OBVIOUS
<1> QED
  BY <1>1 DEF LoopStack

\* The loops start and end no handle_close.
LEMMA LoopsStep == ASSUME SelectorInv, Loops PROVE LoopStack
<1> USE TableAssumption
<1>1. CASE ReadItem
  <2>1. stack = <<>> /\ i \in Used
    BY <1>1 DEF ReadItem
  <2>2. CASE i \in slave_r /\ "OP_READ" \in fds[i].interest
    <3>1. PICK f : f = Frame("read", i, fds[i].data)
      OBVIOUS
    <3>2. i \in 0..FD_SETSIZE - 1 /\ fds[i].data \in Data
      BY <2>1, UsedAreDescriptors DEF SelectorInv, SelectorTableInv, TableInv, HoldsData
    <3>3. f \in Frames
      BY <3>1, <3>2, FrameTypes DEF Callbacks
    <3>4. ReadStarts(f) /\ stack' = <<f>>
      BY <1>1, <2>2, <3>1 DEF ReadStarts, ReadItem
    <3> QED
      BY <2>1, <3>3, <3>4, LoopPush DEF LoopStarts
  <2>3. CASE ~(i \in slave_r /\ "OP_READ" \in fds[i].interest)
    BY <1>1, <2>3 DEF ReadItem, LoopStack
  <2> QED
    BY <2>2, <2>3
<1>2. CASE WriteItem
  <2>1. stack = <<>> /\ phase = "write"
    BY <1>2 DEF WriteItem
  <2>2. CASE stack' = <<Frame("write", i, key_data)>> /\ i \in slave_w
                /\ "OP_WRITE" \in fds[i].interest
    <3>1. PICK f : f = Frame("write", i, key_data)
      OBVIOUS
    <3>2. f \in Frames
      BY <2>1, <2>2, <3>1, FrameTypes DEF SelectorInv, LoopInv, Callbacks
    <3>3. WriteStarts(f) /\ stack' = <<f>>
      BY <1>2, <2>2, <3>1 DEF WriteStarts
    <3> QED
      BY <2>1, <3>2, <3>3, LoopPush DEF LoopStarts
  <2>3. CASE stack' = stack
    BY <2>3 DEF LoopStack
  <2> QED
    BY <1>2, <2>1, <2>2, <2>3 DEF WriteItem
<1>3. CASE NotifyJob
  <2>1. stack = <<>>
    BY <1>3 DEF NotifyJob
  <2>2. CASE Head(jobs).fd \in Used
    <3>1. PICK fd : fd = Head(jobs).fd
      OBVIOUS
    <3>2. PICK f : f = Frame("block", fd, fds[fd].data)
      OBVIOUS
    <3>3. fd \in 0..FD_SETSIZE - 1 /\ fds[fd].data \in Data
      BY <2>2, <3>1, UsedAreDescriptors DEF SelectorInv, SelectorTableInv, TableInv, HoldsData
    <3>4. f \in Frames
      BY <3>2, <3>3, FrameTypes DEF Callbacks
    <3>5. BlockStarts(f) /\ stack' = <<f>>
      BY <1>3, <2>2, <3>1, <3>2 DEF BlockStarts, NotifyJob
    <3> QED
      BY <2>1, <3>4, <3>5, LoopPush DEF LoopStarts
  <2>3. CASE Head(jobs).fd \notin Used
    BY <1>3, <2>3 DEF NotifyJob, LoopStack
  <2> QED
    BY <2>2, <2>3
<1>4. CASE ReturnFromCallback
  BY <1>4 DEF ReturnFromCallback, LoopStack
<1>5. CASE \/ PselectReturns \/ PselectInterrupted \/ PselectBadDescriptor \/ PselectFails
           \/ SkipUnused \/ IterationEnds \/ NotifyEnds \/ DestroyBegins \/ DestroyEnds
           \/ CallStartJob
           \/ (\E job \in working : selector_notify_block(job))
           \/ (\E fd \in Descriptors : CallClose(fd))
  BY <1>5
  DEF PselectReturns, PselectInterrupted, PselectBadDescriptor, PselectFails, SkipUnused,
      IterationEnds, NotifyEnds, DestroyBegins, DestroyEnds, CallStartJob,
      selector_notify_block, CallClose, LoopStack
<1> QED
  BY <1>1, <1>2, <1>3, <1>4, <1>5
  DEF Loops, handle_iteration, handle_block_notifications

\* Every step has one of the effects on the callbacks.
LEMMA StackStep == ASSUME SelectorInv, [Next]_vars PROVE StackEffect
<1> USE TableAssumption
<1>1. CASE Loops
  BY <1>1, LoopsStep DEF LoopStack, StackEffect, Starting
<1>2. CASE \/ (\E fd \in Descriptors : CallOutside(fd))
           \/ (\E fd \in Descriptors, interest \in Interests : CallSetInterest(fd, interest))
           \/ UNCHANGED vars
  BY <1>2 DEF CallOutside, CallSetInterest, vars, StackEffect
<1>3. ASSUME NEW fd \in Descriptors, NEW interest \in Interests, NEW d \in Data,
             CallRegister(fd, interest, d)
      PROVE  StackEffect
  <2>1. CASE stack' = stack
    BY <2>1 DEF StackEffect
  <2>2. CASE fd_size' # fd_size /\ stack' = ItemsMoved
    BY <1>3, <2>2 DEF StackEffect, Growing
  <2> QED
    BY <1>3, <2>1, <2>2 DEF CallRegister
<1>4. ASSUME NEW fd \in Descriptors, CallUnregister(fd) PROVE StackEffect
  BY <1>4, UnregisterStack DEF CallUnregister, Unregisters
<1>5. CASE ReturnFromClose
  BY <1>5 DEF ReturnFromClose, StackEffect
<1>6. CASE DestroyItem
  <2>1. CASE i \in Used /\ Unregister(i)
    BY <1>6, <2>1, UnregisterStack DEF Unregisters
  <2> QED
    BY <1>6, <2>1 DEF DestroyItem, StackEffect
<1> QED
  BY <1>1, <1>2, <1>3, <1>4, <1>5, <1>6 DEF Next, Program, Loops, selector_destroy

SameFrame(f, g) == f.call = g.call /\ f.fd = g.fd /\ f.data = g.data

\* Entering a callback adds its frame to those that wait for it.
LEMMA PushedFrames ==
    ASSUME stack \in Seq(Frames), NEW f \in Frames, stack' = <<f>> \o stack
    PROVE  /\ stack' \in Seq(Frames)
           /\ Len(stack) \in Nat /\ Len(stack') = Len(stack) + 1
           /\ stack'[1] = f /\ Head(stack') = f
           /\ 1 \in 1..Len(stack')
           /\ \A k \in 1..Len(stack) : k + 1 \in 1..Len(stack') /\ stack'[k + 1] = stack[k]
           /\ \A k \in 1..Len(stack') :
                k # 1 => k - 1 \in 1..Len(stack) /\ stack'[k] = stack[k - 1]
<1>1. /\ stack' \in Seq(Frames)
      /\ Len(stack) \in Nat
      /\ Len(stack') = Len(stack) + 1
      /\ stack'[1] = f /\ Head(stack') = f
      /\ \A k \in 1..Len(stack) : stack'[k + 1] = stack[k]
  OBVIOUS
<1>2. \A k \in 1..Len(stack') : k # 1 => /\ k - 1 \in 1..Len(stack)
                                         /\ stack'[k] = stack[k - 1]
  BY <1>1
<1>3. 1 \in 1..Len(stack') /\ \A k \in 1..Len(stack) : k + 1 \in 1..Len(stack')
  BY <1>1
<1> QED
  BY <1>1, <1>2, <1>3

\* Returning from a callback leaves the others.
LEMMA PoppedFrames ==
    ASSUME stack \in Seq(Frames), stack # <<>>, stack' = Tail(stack)
    PROVE  /\ stack' \in Seq(Frames)
           /\ Head(stack) = stack[1] /\ Head(stack) \in Frames /\ 1 \in 1..Len(stack)
           /\ Len(stack) \in Nat /\ Len(stack') = Len(stack) - 1
           /\ \A k \in 1..Len(stack') : k + 1 \in 1..Len(stack) /\ stack'[k] = stack[k + 1]
           /\ \A k \in 1..Len(stack) :
                k # 1 => k - 1 \in 1..Len(stack') /\ stack'[k - 1] = stack[k]
<1>1. /\ Len(stack) \in Nat \ {0}
      /\ Head(stack) = stack[1]
      /\ Head(stack) \in Frames
      /\ stack' \in Seq(Frames)
      /\ Len(stack') = Len(stack) - 1
      /\ \A k \in 1..Len(stack') : stack'[k] = stack[k + 1]
  OBVIOUS
<1>2. 1 \in 1..Len(stack) /\ \A k \in 1..Len(stack') : k + 1 \in 1..Len(stack)
  BY <1>1
<1>3. ASSUME NEW k \in 1..Len(stack), k # 1
      PROVE  k - 1 \in 1..Len(stack') /\ stack'[k - 1] = stack[k]
  <2>1. k - 1 \in 1..Len(stack') /\ (k - 1) + 1 = k
    BY <1>1, <1>3
  <2>2. stack'[k - 1] = stack[(k - 1) + 1]
    BY <1>1, <2>1
  <2> QED
    BY <2>1, <2>2
<1> QED
  BY <1>1, <1>2, <1>3

\* realloc changes nothing of the callbacks in progress but where their item was.
LEMMA MovedFrames ==
    ASSUME stack \in Seq(Frames), stack' = ItemsMoved
    PROVE  /\ stack' \in Seq(Frames)
           /\ Len(stack) \in Nat /\ Len(stack') = Len(stack)
           /\ \A k \in 1..Len(stack) : SameFrame(stack'[k], stack[k])
<1>1. /\ DOMAIN stack = 1..Len(stack)
      /\ Len(stack) \in Nat
      /\ \A k \in 1..Len(stack) : stack[k] \in Frames
  OBVIOUS
<1>2. \A k \in 1..Len(stack) :
          /\ stack'[k] = [stack[k] EXCEPT !.moved = TRUE]
          /\ stack'[k] \in Frames
          /\ stack'[k].call = stack[k].call
          /\ stack'[k].fd = stack[k].fd
          /\ stack'[k].data = stack[k].data
  BY <1>1 DEF ItemsMoved, Frames
<1>3. stack' = [k \in 1..Len(stack) |-> stack'[k]]
  BY <1>1 DEF ItemsMoved
<1>4. stack' \in [1..Len(stack) -> Frames]
  BY <1>2, <1>3
<1>5. stack' \in Seq(Frames) /\ Len(stack') = Len(stack)
  BY <1>1, <1>4
<1> QED
  BY <1>1, <1>2, <1>5 DEF SameFrame

\* A callback in progress was so before the step, or has just started.
LEMMA FrameOrigin ==
    ASSUME stack \in Seq(Frames), StackEffect
    PROVE  /\ stack' \in Seq(Frames)
           /\ \A k \in 1..Len(stack') :
                \/ /\ \E j \in 1..Len(stack) : /\ SameFrame(stack'[k], stack[j])
                                               /\ stack'[k].moved => stack[j].moved \/ Growing
                \/ \E f \in Frames : Starting(f) /\ stack'[k] = f
<1>1. CASE stack' = stack
  BY <1>1 DEF SameFrame
<1>2. CASE stack' = ItemsMoved /\ Growing
  BY <1>2, MovedFrames
<1>3. CASE stack # <<>> /\ stack' = Tail(stack)
  BY <1>3, PoppedFrames DEF SameFrame
<1>4. ASSUME NEW f \in Frames, Starting(f), stack' = <<f>> \o stack
      PROVE  /\ stack' \in Seq(Frames)
             /\ \A k \in 1..Len(stack') :
                  \/ \E j \in 1..Len(stack) : /\ SameFrame(stack'[k], stack[j])
                                              /\ stack'[k].moved => stack[j].moved \/ Growing
                  \/ \E g \in Frames : Starting(g) /\ stack'[k] = g
  <2>1. stack' \in Seq(Frames) /\ stack'[1] = f
    BY <1>4, PushedFrames
  <2>2. \A k \in 1..Len(stack') : k # 1 => k - 1 \in 1..Len(stack) /\ stack'[k] = stack[k - 1]
    BY <1>4, PushedFrames
  <2>3. ASSUME NEW k \in 1..Len(stack'), k # 1
        PROVE  \E j \in 1..Len(stack) : stack'[k] = stack[j]
    BY <2>2, <2>3
  <2> QED
    BY <1>4, <2>1, <2>3 DEF SameFrame
<1> QED
  BY <1>1, <1>2, <1>3, <1>4 DEF StackEffect

\* Every step of dispatch keeps the invariant.
LEMMA SelectorStep == SelectorInv /\ [Next]_vars => SelectorInv'
<1> SUFFICES ASSUME SelectorInv, [Next]_vars PROVE SelectorInv'
  OBVIOUS
<1>1. SelectorTableInv'
  BY StepEffect, EffectInvariant DEF SelectorInv, SelectorTableInv
<1>2. stack' \in Seq(Frames)
  BY StackStep, FrameOrigin DEF SelectorInv
<1> QED
  BY <1>1, <1>2, HeldStep, LoopStep DEF SelectorInv

-----------------------------------------------------------------------------
(* Types.                                                                  *)

\* fds never shrinks.
LEMMA SizeGrows == ASSUME SelectorTableInv, TableEffect PROVE fd_size <= fd_size'
<1>1. fd_size \in Int
  BY DEF SelectorTableInv, TableInv, TableTypeOK
<1>2. CASE fd_size' = fd_size
  BY <1>1, <1>2
<1>3. ASSUME NEW fd \in Int, NEW interest \in Interests, NEW d \in Data,
             selector_register(fd, interest, d), UNCHANGED out_of_bounds
      PROVE  fd_size <= fd_size'
  BY <1>3, RegisterInvariant DEF SelectorTableInv
<1> QED
  BY <1>2, <1>3 DEF TableEffect, table_vars, table, GoesOutside, selector_unregister_fd,
                    selector_set_interest

\* The cursor of a loop and its limit, which fds does not outrun as it only grows.
CursorInv ==
    /\ phase \in Phases
    /\ i \in 0..fd_size
    /\ n \in 0..fd_size - 1
    /\ phase = "write" => i <= n

RecordInv ==
    /\ ready_r \subseteq Data /\ ready_w \subseteq Data
    /\ jobs \in Seq(Jobs) /\ working \subseteq Jobs
    /\ closed_fds \subseteq 0..FD_SETSIZE - 1
    /\ diagnosed \subseteq 0..FD_SETSIZE - 1
    /\ fault \in Faults

\* A range only gets longer.
LEMMA LongerRange ==
    ASSUME NEW a \in Int, NEW b \in Int, a <= b
    PROVE  /\ 0..a \subseteq 0..b
           /\ 0..a - 1 \subseteq 0..b - 1
  OBVIOUS

\* handle_iteration stops at the max_fd it started with, and selector_destroy at
\* the size fds has in each round (selector.c:315, 455).
LEMMA CursorStep ==
    ASSUME SelectorInv, CursorInv, [Next]_vars
    PROVE  CursorInv'
<1>1. /\ fd_size \in Int /\ fd_size' \in Int /\ fd_size <= fd_size'
      /\ 0..fd_size \subseteq 0..fd_size' /\ 0..fd_size - 1 \subseteq 0..fd_size' - 1
  <2>1. SelectorTableInv' /\ TableEffect
    BY StepEffect, EffectInvariant DEF SelectorInv, SelectorTableInv
  <2>2. fd_size \in Int /\ fd_size' \in Int /\ fd_size <= fd_size'
    BY <2>1, SizeGrows DEF SelectorInv, SelectorTableInv, TableInv, TableTypeOK
  <2> QED
    BY <2>2, LongerRange
<1>2. CASE UNCHANGED loop
  <2>1. UNCHANGED <<phase, i, n>>
    BY <1>2 DEF loop
  <2>2. i' \in 0..fd_size' /\ n' \in 0..fd_size' - 1
    BY <1>1, <2>1 DEF CursorInv
  <2>3. phase' \in Phases /\ (phase' = "write" => i' <= n')
    BY <2>1 DEF CursorInv
  <2> QED
    BY <2>2, <2>3 DEF CursorInv
<1>3. CASE DestroyItem
  <2>1. phase' = phase /\ phase = "destroy" /\ i < fd_size /\ i' = i + 1 /\ n' = n
    BY <1>3, DestroyItemLoop
  <2>2. i' \in 0..fd_size /\ n' \in 0..fd_size - 1
    BY <1>1, <2>1 DEF CursorInv
  <2>3. phase' \in Phases /\ phase' # "write"
    BY <2>1 DEF CursorInv
  <2> QED
    BY <1>1, <2>2, <2>3 DEF CursorInv
<1>4. CASE Loops
  <2>1. fd_size' = fd_size
    BY <1>4, LoopsLeaveTable DEF table_vars, table
  <2>2. max_fd \in 0..fd_size - 1
    BY DEF SelectorInv, SelectorTableInv, TableInv, TableTypeOK
  <2>3. CASE PselectReturns
    BY <1>1, <2>1, <2>2, <2>3 DEF PselectReturns, CursorInv, Phases
  <2>4. CASE \/ PselectInterrupted \/ PselectBadDescriptor \/ PselectFails
             \/ IterationEnds \/ NotifyEnds \/ DestroyEnds
    BY <1>1, <2>1, <2>4
    DEF PselectInterrupted, PselectBadDescriptor, PselectFails, IterationEnds, NotifyEnds,
        DestroyEnds, CursorInv, Phases
  <2>5. CASE SkipUnused \/ ReadItem \/ WriteItem \/ DestroyBegins
    <3>1. /\ \/ i' = i /\ i <= n
             \/ i' = i + 1 /\ i <= n /\ phase' # "write"
             \/ i' = 0 /\ phase' # "write"
          /\ n' = n
          /\ phase' \in Phases
      BY <2>5 DEF SkipUnused, ReadItem, WriteItem, DestroyBegins, CursorInv, Phases
    <3> QED
      BY <1>1, <2>1, <3>1 DEF CursorInv
  <2>6. CASE \/ NotifyJob \/ ReturnFromCallback \/ CallStartJob
             \/ (\E job \in working : selector_notify_block(job))
             \/ (\E fd \in Descriptors : CallClose(fd))
    BY <1>2, <2>6
    DEF NotifyJob, ReturnFromCallback, CallStartJob, selector_notify_block, CallClose
  <2> QED
    BY <1>4, <2>3, <2>4, <2>5, <2>6
    DEF Loops, handle_iteration, handle_block_notifications
<1> QED
  BY <1>2, <1>3, <1>4, CallsLeaveLoop

\* Every record of the program and of its jobs is about descriptors and data.
LEMMA RecordStep ==
    ASSUME SelectorInv, RecordInv, [Next]_vars
    PROVE  RecordInv'
<1> USE DEF SelectorInv, SelectorTableInv
<1>1. \A fd \in Used : /\ fd \in 0..FD_SETSIZE - 1 /\ fd \in Descriptors
                       /\ fds[fd].data \in Data
  BY UsedAreDescriptors DEF TableInv, HoldsData
<1>2. CASE PselectReturns
  <2>1. master_r \subseteq Used /\ master_w \subseteq Used
    BY DEF TableInv, WatchesExactly
  <2>2. PICK r \in SUBSET (Watched \cap master_r), w \in SUBSET (Watched \cap master_w) :
            ready_r' = Registrations(r) /\ ready_w' = Registrations(w)
    BY <1>2 DEF PselectReturns
  <2>3. ready_r' \subseteq Data /\ ready_w' \subseteq Data
    BY <1>1, <2>1, <2>2 DEF Registrations
  <2> QED
    BY <1>2, <2>3 DEF PselectReturns, RecordInv, job_vars, bad_fds
<1>3. CASE PselectBadDescriptor
  BY <1>3 DEF PselectBadDescriptor, RecordInv, job_vars
<1>4. CASE CallStartJob
  <2>1. /\ stack # <<>>
        /\ working' = working \cup {[fd |-> Head(stack).fd, owner |-> Head(stack).data]}
    BY <1>4 DEF CallStartJob
  <2>2. Head(stack) \in Frames
    BY <2>1
  <2>3. working' \subseteq Jobs
    BY <2>1, <2>2 DEF RecordInv, Jobs, Frames
  <2> QED
    BY <1>4, <2>3 DEF CallStartJob, RecordInv, loop, bad_fds
<1>5. ASSUME NEW job \in working, selector_notify_block(job)
      PROVE  RecordInv'
  <2>1. job \in Jobs /\ <<job>> \o jobs \in Seq(Jobs)
    BY DEF RecordInv
  <2>2. jobs' \in Seq(Jobs) /\ working' \subseteq Jobs /\ fault' \in Faults
    BY <1>5, <2>1 DEF selector_notify_block, RecordInv, Faults
  <2> QED
    BY <1>5, <2>2 DEF selector_notify_block, RecordInv, loop, bad_fds
<1>6. CASE NotifyJob
  <2>1. jobs' \in Seq(Jobs)
    BY <1>6 DEF NotifyJob, RecordInv
  <2> QED
    BY <1>6, <2>1 DEF NotifyJob, RecordInv, loop, bad_fds
<1>7. CASE DestroyEnds
  BY <1>7 DEF DestroyEnds, RecordInv, bad_fds
<1>8. CASE ReturnFromCallback
  <2>1. fault' \in Faults
    BY <1>8 DEF ReturnFromCallback, Faults
  <2> QED
    BY <1>8, <2>1 DEF ReturnFromCallback, RecordInv, loop, job_vars, bad_fds
<1>9. ASSUME NEW fd \in Descriptors, CallClose(fd)
      PROVE  RecordInv'
  BY <1>1, <1>9 DEF CallClose, RecordInv, loop, job_vars
<1>10. CASE \/ PselectInterrupted \/ PselectFails \/ SkipUnused \/ ReadItem \/ WriteItem
            \/ IterationEnds \/ NotifyEnds \/ DestroyBegins
  BY <1>10 DEF PselectInterrupted, PselectFails, SkipUnused, ReadItem, WriteItem,
               IterationEnds, NotifyEnds, DestroyBegins, RecordInv, job_vars, bad_fds, Faults
<1>11. ASSUME UNCHANGED <<ready_r, ready_w, job_vars, diagnosed>>,
              closed_fds' \subseteq closed_fds, fault' \in Faults
       PROVE  RecordInv'
  BY <1>11 DEF RecordInv, job_vars
<1>12. ASSUME NEW fd, Unregister(fd) PROVE closed_fds' \subseteq closed_fds
  BY <1>12 DEF Unregister, ItemCleared
<1>13. CASE DestroyItem
  BY <1>11, <1>12, <1>13 DEF DestroyItem, RecordInv
<1>14. CASE ReturnFromClose
  <2>1. UNCHANGED <<ready_r, ready_w, job_vars, diagnosed>>
    BY <1>14 DEF ReturnFromClose, loop
  <2>2. closed_fds' \subseteq closed_fds /\ fault' \in Faults
    BY <1>14 DEF ReturnFromClose, ItemCleared, RecordInv, Faults
  <2> QED
    BY <1>11, <2>1, <2>2
<1>15. ASSUME NEW fd \in Descriptors, CallUnregister(fd)
       PROVE  RecordInv'
  BY <1>11, <1>12, <1>15 DEF CallUnregister, RecordInv, loop
<1>16. CASE \/ \E fd \in Descriptors : CallOutside(fd)
            \/ \E fd \in Descriptors, interest \in Interests :
                \/ CallSetInterest(fd, interest)
                \/ \E d \in Data : CallRegister(fd, interest, d)
            \/ UNCHANGED vars
  BY <1>11, <1>16 DEF CallOutside, CallSetInterest, CallRegister, RecordInv, vars, loop, bad_fds
<1> QED
  BY <1>2, <1>3, <1>4, <1>5, <1>6, <1>7, <1>8, <1>9, <1>10, <1>13, <1>14, <1>15, <1>16
  DEF Next, Program, handle_iteration, handle_block_notifications, selector_destroy

\* The two hold from the start.
LEMMA CursorInit == Init => CursorInv /\ RecordInv
<1> SUFFICES ASSUME Init PROVE CursorInv /\ RecordInv
  OBVIOUS
<1>1. fd_size \in 1..FD_SETSIZE + 1
  BY TableInitInvariant DEF Init, TableInv, TableTypeOK
<1>2. CursorInv
  BY <1>1 DEF Init, CursorInv, Phases
<1>3. jobs \in Seq(Jobs)
  BY DEF Init
<1> QED
  BY <1>2, <1>3 DEF Init, RecordInv, Faults

-----------------------------------------------------------------------------
(* Any program: whoever has a key in hand has a registration's.            *)

\* d has been registered at fd, and is in its item until it is over.
At(fd, d) == life[d] # "fresh" /\ (life[d] \in Alive => Holds(fd, d))

Pending == working \cup {jobs[k] : k \in 1..Len(jobs)}

KeysInv ==
    /\ \A k \in 1..Len(stack) : At(stack[k].fd, stack[k].data)
    /\ phase = "write" => At(i, key_data)
    /\ \A job \in Pending : At(job.fd, job.owner)

\* A registration does not change its descriptor.
LEMMA AtStays ==
    ASSUME SelectorInv, [Next]_vars, NEW fd, NEW d \in Data, At(fd, d)
    PROVE  At(fd, d)'
<1>1. DataEffect
  BY StepData DEF SelectorInv
<1>2. CASE life' = life /\ Used' = Used /\ SameData
  BY <1>2 DEF At, Holds, SameData
<1>3. ASSUME NEW f \in Descriptors, NEW interest \in Interests, NEW e \in Data,
             CallRegister(f, interest, e)
      PROVE  At(fd, d)'
  <2>1. /\ f \notin Used /\ Used' = Used \cup {f}
        /\ fds'[f] = [fd |-> f, interest |-> interest, data |-> e]
        /\ \A g \in Used : fds'[g] = fds[g]
        /\ life[e] = "fresh" /\ \A g \in Used : fds[g].data # e
        /\ life' \in [Data -> Lives] /\ life'[e] = "registered"
        /\ \A c \in Data : c # e => life'[c] = life[c]
    BY <1>3, RegisterData
  <2>2. d # e /\ life'[d] = life[d]
    BY <2>1 DEF At
  <2>3. Holds(fd, d) => Holds(fd, d)'
    BY <2>1 DEF Holds
  <2> QED
    BY <2>2, <2>3 DEF At
<1>4. ASSUME NEW f \in Used, life' = [life EXCEPT ![fds[f].data] = "closing"],
             Used' = Used, SameData
      PROVE  At(fd, d)'
  <2>1. Holds(fd, d) => Holds(fd, d)'
    BY <1>4 DEF Holds, SameData
  <2>2. CASE d = fds[f].data
    <3>1. life[d] \in Alive /\ life' = [life EXCEPT ![d] = "closing"]
      BY <1>4, <2>2 DEF SelectorInv, HeldInv
    <3>2. life'[d] = "closing"
      BY <3>1 DEF SelectorInv
    <3> QED
      BY <2>1, <3>1, <3>2 DEF At
  <2>3. CASE d # fds[f].data
    <3>1. life'[d] = life[d]
      BY <1>4, <2>3 DEF SelectorInv
    <3> QED
      BY <2>1, <3>1 DEF At
  <2> QED
    BY <2>2, <2>3
<1>5. ASSUME NEW f, NEW told, ItemCleared(f, told), UNCHANGED out_of_bounds
      PROVE  At(fd, d)'
  <2>1. PICK e : e = fds[f].data
    OBVIOUS
  <2>2. /\ f \in Used /\ Used' = Used \ {f} /\ e \in Data
        /\ \A g \in Used' : fds'[g] = fds[g]
        /\ life' \in [Data -> Lives] /\ life'[e] \in {"closed", "lost"}
        /\ \A c \in Data : c # e => life'[c] = life[c]
    BY <1>5, <2>1, ClearData
  <2>3. CASE d = e
    BY <2>2, <2>3 DEF At, Alive
  <2>4. CASE d # e
    <3>1. Holds(fd, d) => fd # f
      BY <2>1, <2>4 DEF Holds
    <3>2. Holds(fd, d) => Holds(fd, d)'
      BY <2>2, <3>1 DEF Holds
    <3> QED
      BY <2>2, <2>4, <3>2 DEF At
  <2> QED
    BY <2>3, <2>4
<1> QED
  BY <1>1, <1>2, <1>3, <1>4, <1>5 DEF DataEffect

\* What is in an item is registered there.
LEMMA UsedAreAt ==
    ASSUME SelectorInv, NEW fd \in Used
    PROVE  fds[fd].data \in Data /\ At(fd, fds[fd].data)
<1>1. fds[fd].data \in Data /\ life[fds[fd].data] \in Alive
  BY DEF SelectorInv, SelectorTableInv, TableInv, HoldsData, HeldInv
<1>2. life[fds[fd].data] # "fresh"
  BY <1>1 DEF Alive
<1> QED
  BY <1>1, <1>2 DEF At, Holds

\* A callback starts with a registration's key.
LEMMA StartingAt ==
    ASSUME SelectorInv, KeysInv, NEW f, Starting(f)
    PROVE  At(f.fd, f.data)
<1>1. CASE CloseStarts(f)
  BY <1>1, UsedAreAt DEF CloseStarts, Frame
<1>2. CASE ReadStarts(f)
  BY <1>2, UsedAreAt DEF ReadStarts, ReadItem, Frame
<1>3. CASE WriteStarts(f)
  BY <1>3 DEF WriteStarts, WriteItem, Frame, KeysInv
<1>4. CASE BlockStarts(f)
  BY <1>4, UsedAreAt DEF BlockStarts, Frame
<1> QED
  BY <1>1, <1>2, <1>3, <1>4 DEF Starting, LoopStarts

\* A job that is in progress after a step was so before it, or is the one that
\* the running callback has just started.
LEMMA JobsMove ==
    ASSUME RecordInv, [Next]_vars
    PROVE  \/ Pending' \subseteq Pending
           \/ /\ CallStartJob
              /\ Pending' \subseteq Pending \cup {[fd |-> Head(stack).fd,
                                                  owner |-> Head(stack).data]}
<1>0. jobs \in Seq(Jobs) /\ Len(jobs) \in Nat /\ working \subseteq Jobs
  BY DEF RecordInv
<1>1. CASE UNCHANGED job_vars
  BY <1>1 DEF Pending, job_vars
<1>2. CASE NotifyJob
  <2>1. jobs # <<>> /\ jobs' = Tail(jobs) /\ working' = working
    BY <1>2 DEF NotifyJob
  <2>2. \A k \in 1..Len(jobs') : k + 1 \in 1..Len(jobs) /\ jobs'[k] = jobs[k + 1]
    BY <1>0, <2>1
  <2> QED
    BY <2>1, <2>2 DEF Pending
<1>3. ASSUME NEW job \in working, selector_notify_block(job)
      PROVE  Pending' \subseteq Pending
  <2>1. CASE jobs' = jobs
    BY <1>3, <2>1 DEF selector_notify_block, Pending
  <2>2. CASE jobs' = <<job>> \o jobs
    <3>1. Len(jobs') = Len(jobs) + 1 /\ jobs'[1] = job
      BY <1>0, <2>2
    <3>2. \A k \in 1..Len(jobs') : k # 1 => k - 1 \in 1..Len(jobs) /\ jobs'[k] = jobs[k - 1]
      BY <1>0, <2>2
    <3>3. \A k \in 1..Len(jobs') : jobs'[k] \in Pending
      BY <3>1, <3>2 DEF Pending
    <3> QED
      BY <1>3, <3>3 DEF selector_notify_block, Pending
  <2> QED
    BY <1>3, <2>1, <2>2 DEF selector_notify_block
<1>4. CASE DestroyEnds
  <2>1. jobs' = <<>> /\ working' = working
    BY <1>4 DEF DestroyEnds
  <2>2. Len(jobs') = 0
    BY <2>1
  <2> QED
    BY <2>1, <2>2 DEF Pending
<1>5. CASE CallStartJob
  BY <1>5 DEF CallStartJob, Pending
<1>6. \/ UNCHANGED job_vars \/ NotifyJob \/ DestroyEnds \/ CallStartJob
      \/ \E job \in working : selector_notify_block(job)
  <2>1. CASE Loops
    BY <2>1
    DEF Loops, PselectReturns, PselectInterrupted, PselectBadDescriptor, PselectFails,
        handle_iteration, SkipUnused, ReadItem, WriteItem, IterationEnds,
        handle_block_notifications, NotifyEnds, DestroyBegins, ReturnFromCallback,
        CallClose, job_vars
  <2> QED
    BY <2>1, CallsLeaveLoop, DestroyItemLoop DEF job_vars
<1> QED
  BY <1>1, <1>2, <1>3, <1>4, <1>5, <1>6

\* Keys are filled in from items, and jobs from keys.
LEMMA KeysStep ==
    ASSUME SelectorInv, RecordInv, KeysInv, [Next]_vars
    PROVE  KeysInv'
<1>1. ASSUME NEW k \in 1..Len(stack')
      PROVE  \E fd, d : fd = stack'[k].fd /\ d = stack'[k].data /\ At(fd, d)'
  <2>1. CASE \E j \in 1..Len(stack) : SameFrame(stack'[k], stack[j])
    <3>1. PICK j \in 1..Len(stack) : SameFrame(stack'[k], stack[j])
      BY <2>1
    <3>2. stack[j] \in Frames
      BY DEF SelectorInv
    <3>3. PICK fd, d : fd = stack[j].fd /\ d = stack[j].data
      OBVIOUS
    <3>4. d \in Data /\ At(fd, d)
      BY <3>2, <3>3 DEF KeysInv, Frames
    <3>5. At(fd, d)'
      BY <3>4, AtStays
    <3> QED
      BY <3>1, <3>3, <3>5 DEF SameFrame
  <2>2. ASSUME NEW f \in Frames, Starting(f), stack'[k] = f
        PROVE  \E fd, d : fd = stack'[k].fd /\ d = stack'[k].data /\ At(fd, d)'
    <3>1. PICK fd, d : fd = f.fd /\ d = f.data
      OBVIOUS
    <3>2. d \in Data /\ At(fd, d)
      BY <2>2, <3>1, StartingAt DEF Frames
    <3>3. At(fd, d)'
      BY <3>2, AtStays
    <3> QED
      BY <2>2, <3>1, <3>3
  <2> QED
    BY <2>1, <2>2, StackStep, FrameOrigin DEF SelectorInv
<1>2. ASSUME phase' = "write"
      PROVE  \E fd, d : fd = i' /\ d = key_data' /\ At(fd, d)'
  <2>1. CASE ReadItem
    <3>1. PICK fd, d : fd = i /\ d = fds[i].data
      OBVIOUS
    <3>2. i' = fd /\ key_data' = d /\ fd \in Used
      BY <2>1, <3>1 DEF ReadItem
    <3>3. d \in Data /\ At(fd, d)
      BY <3>1, <3>2, UsedAreAt
    <3> QED
      BY <3>2, <3>3, AtStays
  <2>2. CASE phase = "write" /\ UNCHANGED <<i, key_data>>
    <3>1. PICK fd, d : fd = i /\ d = key_data
      OBVIOUS
    <3>2. d \in Data /\ At(fd, d)
      BY <2>2, <3>1 DEF KeysInv, SelectorInv, LoopInv
    <3> QED
      BY <2>2, <3>1, <3>2, AtStays
  <2> QED
    BY <1>2, <2>1, <2>2, IterationLoop DEF PselectReturns
<1>3. ASSUME NEW job \in Pending'
      PROVE  \E fd, d : fd = job.fd /\ d = job.owner /\ At(fd, d)'
  <2>1. CASE job \in Pending
    <3>1. PICK fd, d : fd = job.fd /\ d = job.owner
      OBVIOUS
    <3>2. jobs \in Seq(Jobs) /\ working \subseteq Jobs
      BY DEF RecordInv
    <3>4. job \in Jobs
      BY <2>1, <3>2 DEF Pending
    <3>5. d \in Data
      BY <3>1, <3>4 DEF Jobs
    <3>3. At(fd, d)
      BY <2>1, <3>1 DEF KeysInv
    <3> QED
      BY <3>1, <3>5, <3>3, AtStays
  <2>2. CASE CallStartJob /\ job = [fd |-> Head(stack).fd, owner |-> Head(stack).data]
    <3>1. stack # <<>>
      BY <2>2 DEF CallStartJob
    <3>2. PICK f : f = Head(stack)
      OBVIOUS
    <3>3. f \in Frames /\ f = stack[1] /\ 1 \in 1..Len(stack)
      BY <3>1, <3>2 DEF SelectorInv
    <3>4. PICK fd, d : fd = f.fd /\ d = f.data
      OBVIOUS
    <3>5. d \in Data /\ At(fd, d)
      BY <3>3, <3>4 DEF KeysInv, Frames
    <3>6. At(fd, d)'
      BY <3>5, AtStays
    <3>7. job.fd = fd /\ job.owner = d
      BY <2>2, <3>2, <3>4
    <3> QED
      BY <3>6, <3>7
  <2> QED
    BY <2>1, <2>2, JobsMove
<1> QED
  BY <1>1, <1>2, <1>3 DEF KeysInv, At, Holds, Used, ITEM_USED

\* The invariant of dispatch, for any program.
DispatchInv == SelectorInv /\ CursorInv /\ RecordInv /\ KeysInv

LEMMA DispatchStep == DispatchInv /\ [Next]_vars => DispatchInv'
  BY SelectorStep, CursorStep, RecordStep, KeysStep DEF DispatchInv

LEMMA DispatchInvariance == Spec => []DispatchInv
<1>1. Init => DispatchInv
  <2> SUFFICES ASSUME Init PROVE DispatchInv
    OBVIOUS
  <2>1. stack = <<>> /\ jobs = <<>> /\ working = {} /\ phase # "write"
    BY DEF Init
  <2>2. Len(stack) = 0 /\ Len(jobs) = 0
    BY <2>1
  <2>3. KeysInv
    BY <2>1, <2>2 DEF KeysInv, Pending
  <2> QED
    BY <2>3, SelectorInit, CursorInit DEF DispatchInv
<1> QED
  BY <1>1, DispatchStep, PTL DEF Spec

-----------------------------------------------------------------------------
(* Any program: its theorems.                                              *)

\* Every variable keeps its type whatever the program does: although fds grows and
\* max_fd moves while handle_iteration runs, its cursor never leaves fds
\* (selector.c:315, 455-457).
THEOREM SelectorTypeCorrect == Spec => []SelectorTypeOK
<1>1. DispatchInv => SelectorTypeOK
  <2> SUFFICES ASSUME DispatchInv PROVE SelectorTypeOK
    OBVIOUS
  <2>1. TableTypeOK /\ key_data \in Data \cup {NoData}
    BY DEF DispatchInv, SelectorInv, SelectorTableInv, TableInv, LoopInv
  <2>2. /\ slave_r \in SUBSET (0..FD_SETSIZE - 1) /\ slave_w \in SUBSET (0..FD_SETSIZE - 1)
        /\ stack \in Seq(Frames)
        /\ life \in [Data -> Lives]
    BY DEF DispatchInv, SelectorInv, LoopInv
  <2> QED
    BY <2>1, <2>2 DEF DispatchInv, CursorInv, RecordInv, SelectorTypeOK, Frames
<1> QED
  BY DispatchInvariance, <1>1, PTL

\* The items, sets and maximum of a selector at work implement FdRegistry.
THEOREM SelectorImplementsRegistry == Spec => ImplementsRegistry
  BY SelectorImplementsTable, TableImplementsRegistry, PTL

\* The list of jobs changes under handle_block_notifications by its own step only.
LEMMA NotifyTakes ==
    ASSUME [Next]_vars, phase = "notify", jobs' # jobs
    PROVE  NotifyJob /\ stack = <<>> /\ jobs # <<>>
<1>1. CASE Loops
  BY <1>1
  DEF Loops, PselectReturns, PselectInterrupted, PselectBadDescriptor, PselectFails,
      handle_iteration, SkipUnused, ReadItem, WriteItem, IterationEnds,
      handle_block_notifications, NotifyJob, NotifyEnds, DestroyBegins, DestroyEnds,
      ReturnFromCallback, CallStartJob, selector_notify_block, CallClose, job_vars
<1> QED
  BY <1>1, CallsLeaveLoop, DestroyItemLoop DEF job_vars

\* handle_block runs for a job's owner if that is registered.
LEMMA JobIsTold ==
    ASSUME DispatchInv, [Next]_vars, phase = "notify", jobs' # jobs,
           life[Head(jobs).owner] = "registered"
    PROVE  Starts("block") /\ Started.data = Head(jobs).owner
<1>1. NotifyJob /\ stack = <<>> /\ jobs # <<>>
  BY NotifyTakes
<1>2. jobs \in Seq(Jobs)
  BY DEF DispatchInv, RecordInv
<1>3. PICK job : job = Head(jobs)
  OBVIOUS
<1>4. 1 \in 1..Len(jobs) /\ job = jobs[1]
  BY <1>1, <1>2, <1>3
<1>5. At(job.fd, job.owner)
  BY <1>4 DEF DispatchInv, KeysInv, Pending
<1>6. Holds(job.fd, job.owner)
  BY <1>3, <1>5 DEF At, Alive
<1>7. PICK f : f = Frame("block", job.fd, job.owner)
  OBVIOUS
<1>8. stack' = <<f>>
  BY <1>1, <1>3, <1>6, <1>7 DEF NotifyJob, Holds
<1>9. Len(stack') = 1 /\ Len(stack) = 0 /\ Head(stack') = f
  BY <1>1, <1>8
<1> QED
  BY <1>3, <1>7, <1>9 DEF Starts, Started, Frame

\* Whatever the program does, descriptors that are taken over and callbacks that
\* unregister their own or each other's descriptor included, each job that the
\* selector takes off its list is told to the registration that started it if that
\* is still there: a registration does not change its descriptor, and the thread got
\* the descriptor from a key (selector.c:491-503).
THEOREM JobsReachTheirOwners == Spec => JobReachesItsOwner
<1>1. DispatchInv /\ [Next]_vars =>
        (phase = "notify" /\ jobs' # jobs /\ life[Head(jobs).owner] = "registered"
            => Starts("block") /\ Started.data = Head(jobs).owner)
  BY JobIsTold
<1> QED
  BY DispatchInvariance, <1>1, PTL DEF Spec, JobReachesItsOwner

-----------------------------------------------------------------------------
(* A program that leaves alone what is being closed.                       *)

\* No two handle_close callbacks in progress are for the same descriptor.
DistinctCloses ==
    \A k1, k2 \in 1..Len(stack) :
        stack[k1].call = "close" /\ stack[k2].call = "close"
            /\ stack[k1].fd = stack[k2].fd => k1 = k2

\* The item of a handle_close in progress still is what it was called for.
CloseFrames ==
    \A k \in 1..Len(stack) :
        stack[k].call = "close" => Holds(stack[k].fd, stack[k].data)

CloseInv ==
    /\ \A d \in Data : life[d] # "lost"
    /\ \A fd \in Used : life[fds[fd].data] = "closing" <=> Closing(fd)
    /\ DistinctCloses
    /\ CloseFrames

\* With no callback in progress nothing is being closed.
LEMMA NoneClosing == stack = <<>> => \A fd : ~Closing(fd)
<1> SUFFICES ASSUME stack = <<>> PROVE \A fd : ~Closing(fd)
  OBVIOUS
<1>1. Len(stack) = 0
  OBVIOUS
<1>2. \A k \in 1..Len(stack) : FALSE
  BY <1>1
<1> QED
  BY <1>2 DEF Closing

\* The items with their data, the registrations and the callbacks together.
LEMMA ReleasedByClose == SelectorInv /\ CloseInv => ReleasedOnce
<1> SUFFICES ASSUME SelectorInv, CloseInv PROVE ReleasedOnce
  OBVIOUS
<1> USE DEF SelectorInv, HeldInv, CloseInv
<1>1. ASSUME NEW d \in Data
      PROVE  /\ life[d] # "lost"
             /\ life[d] = "registered" <=> \E fd \in Used : Holds(fd, d) /\ ~Closing(fd)
             /\ life[d] = "closing" <=> \E fd \in Used : Holds(fd, d) /\ Closing(fd)
             /\ \A fd1, fd2 \in Used : Holds(fd1, d) /\ Holds(fd2, d) => fd1 = fd2
  <2>1. ASSUME NEW fd \in Used, Holds(fd, d)
        PROVE  life[d] \in Alive /\ (life[d] = "closing" <=> Closing(fd))
    BY <2>1 DEF Holds
  <2>2. life[d] \in Alive => \E fd \in Used : Holds(fd, d)
    OBVIOUS
  <2>3. \A fd1, fd2 \in Used : Holds(fd1, d) /\ Holds(fd2, d) => fd1 = fd2
    BY DEF Holds
  <2> QED
    BY <2>1, <2>2, <2>3 DEF Alive
<1> QED
  BY <1>1 DEF ReleasedOnce, DistinctCloses

\* A frame more, and that of no descriptor that is being closed already.
LEMMA PushedCloses ==
    ASSUME SelectorInv, CloseInv, NEW f \in Frames, stack' = <<f>> \o stack,
           f.call = "close" => ~Closing(f.fd)
    PROVE  /\ DistinctCloses'
           /\ \A fd : Closing(fd)' <=> Closing(fd) \/ (f.call = "close" /\ f.fd = fd)
<1>1. /\ stack'[1] = f /\ 1 \in 1..Len(stack')
      /\ \A k \in 1..Len(stack) : k + 1 \in 1..Len(stack') /\ stack'[k + 1] = stack[k]
      /\ \A k \in 1..Len(stack') : k # 1 => k - 1 \in 1..Len(stack) /\ stack'[k] = stack[k - 1]
  BY PushedFrames DEF SelectorInv
<1>2. ASSUME NEW fd
      PROVE  Closing(fd)' <=> Closing(fd) \/ (f.call = "close" /\ f.fd = fd)
  <2>1. ASSUME Closing(fd)' PROVE Closing(fd) \/ (f.call = "close" /\ f.fd = fd)
    <3>1. PICK k \in 1..Len(stack') : stack'[k].call = "close" /\ stack'[k].fd = fd
      BY <2>1 DEF Closing
    <3>2. CASE k # 1
      BY <1>1, <3>1, <3>2 DEF Closing
    <3> QED
      BY <1>1, <3>1, <3>2
  <2>2. ASSUME Closing(fd) PROVE Closing(fd)'
    <3>1. PICK k \in 1..Len(stack) : stack[k].call = "close" /\ stack[k].fd = fd
      BY <2>2 DEF Closing
    <3> QED
      BY <1>1, <3>1 DEF Closing
  <2> QED
    BY <1>1, <2>1, <2>2 DEF Closing
<1>3. DistinctCloses'
  <2> SUFFICES ASSUME NEW k1 \in 1..Len(stack'), NEW k2 \in 1..Len(stack'),
                      stack'[k1].call = "close", stack'[k2].call = "close",
                      stack'[k1].fd = stack'[k2].fd
               PROVE  k1 = k2
    BY DEF DistinctCloses
  <2>1. CASE k1 = 1 /\ k2 # 1
    BY <2>1, <1>1 DEF Closing
  <2>2. CASE k1 # 1 /\ k2 = 1
    BY <2>2, <1>1 DEF Closing
  <2>3. CASE k1 # 1 /\ k2 # 1
    <3>1. DistinctCloses
      BY DEF CloseInv
    <3>2. k1 - 1 = k2 - 1
      BY <2>3, <1>1, <3>1 DEF DistinctCloses
    <3> QED
      BY <3>2
  <2> QED
    BY <2>1, <2>2, <2>3
<1> QED
  BY <1>2, <1>3

\* The innermost frame less.
LEMMA PoppedCloses ==
    ASSUME SelectorInv, CloseInv, stack # <<>>, stack' = Tail(stack)
    PROVE  /\ DistinctCloses'
           /\ \A fd : Closing(fd)' <=>
                  Closing(fd) /\ ~(Head(stack).call = "close" /\ Head(stack).fd = fd)
<1>1. /\ Head(stack) = stack[1] /\ 1 \in 1..Len(stack)
      /\ \A k \in 1..Len(stack') : k + 1 \in 1..Len(stack) /\ stack'[k] = stack[k + 1]
      /\ \A k \in 1..Len(stack) : k # 1 => k - 1 \in 1..Len(stack') /\ stack'[k - 1] = stack[k]
  BY PoppedFrames DEF SelectorInv
<1>2. \A k \in 1..Len(stack') : k + 1 # 1
  BY <1>1
<1>3. ASSUME NEW fd
      PROVE  Closing(fd)' <=>
                Closing(fd) /\ ~(Head(stack).call = "close" /\ Head(stack).fd = fd)
  <2>1. ASSUME Closing(fd)'
        PROVE  Closing(fd) /\ ~(Head(stack).call = "close" /\ Head(stack).fd = fd)
    <3>1. PICK k \in 1..Len(stack') : stack'[k].call = "close" /\ stack'[k].fd = fd
      BY <2>1 DEF Closing
    <3>2. k + 1 \in 1..Len(stack) /\ k + 1 # 1 /\ stack[k + 1] = stack'[k]
      BY <1>1, <1>2
    <3>3. Closing(fd)
      BY <3>1, <3>2 DEF Closing
    <3>4. ~(stack[1].call = "close" /\ stack[1].fd = fd)
      BY <1>1, <3>1, <3>2 DEF CloseInv, DistinctCloses
    <3> QED
      BY <1>1, <3>3, <3>4
  <2>2. ASSUME Closing(fd), ~(Head(stack).call = "close" /\ Head(stack).fd = fd)
        PROVE  Closing(fd)'
    <3>1. PICK k \in 1..Len(stack) : stack[k].call = "close" /\ stack[k].fd = fd
      BY <2>2 DEF Closing
    <3>2. k # 1
      BY <1>1, <2>2, <3>1
    <3>3. k - 1 \in 1..Len(stack') /\ stack'[k - 1] = stack[k]
      BY <1>1, <3>2
    <3> QED
      BY <3>1, <3>3 DEF Closing
  <2> QED
    BY <2>1, <2>2
<1>4. DistinctCloses'
  <2> SUFFICES ASSUME NEW k1 \in 1..Len(stack'), NEW k2 \in 1..Len(stack'),
                      stack'[k1].call = "close", stack'[k2].call = "close",
                      stack'[k1].fd = stack'[k2].fd
               PROVE  k1 = k2
    BY DEF DistinctCloses
  <2>1. k1 + 1 = k2 + 1
    BY <1>1 DEF CloseInv, DistinctCloses
  <2> QED
    BY <2>1
<1> QED
  BY <1>3, <1>4

\* What the loops start is no handle_close.
LEMMA LoopStartsOthers == ASSUME NEW f, LoopStarts(f) PROVE f.call # "close"
  BY DEF LoopStarts, ReadStarts, WriteStarts, BlockStarts, Frame

\* The frames of handle_close stay right if their items do.
LEMMA CloseFramesStep ==
    ASSUME SelectorInv, CloseInv, StackEffect,
           \A fd \in Used : Closing(fd) /\ Closing(fd)'
               => fd \in Used' /\ fds'[fd].data = fds[fd].data
    PROVE  CloseFrames'
<1> SUFFICES ASSUME NEW k \in 1..Len(stack'), stack'[k].call = "close"
             PROVE  \E fd, d : /\ fd = stack'[k].fd /\ d = stack'[k].data
                              /\ Holds(fd, d)'
  BY DEF CloseFrames, Holds, Used, ITEM_USED
<1>1. CASE \E j \in 1..Len(stack) : SameFrame(stack'[k], stack[j])
  <2>1. PICK j \in 1..Len(stack) : SameFrame(stack'[k], stack[j])
    BY <1>1
  <2>2. PICK fd, d : fd = stack[j].fd /\ d = stack[j].data
    OBVIOUS
  <2>3. stack[j].call = "close" /\ stack'[k].fd = fd /\ stack'[k].data = d
    BY <2>1, <2>2 DEF SameFrame
  <2>4. Holds(fd, d) /\ Closing(fd) /\ Closing(fd)'
    BY <2>2, <2>3 DEF CloseInv, CloseFrames, Closing
  <2>5. fd \in Used /\ fds[fd].data = d
    BY <2>4 DEF Holds
  <2>6. fd \in Used' /\ fds'[fd].data = d
    BY <2>4, <2>5
  <2> QED
    BY <2>3, <2>6 DEF Holds
<1>2. ASSUME NEW f \in Frames, Starting(f), stack'[k] = f
      PROVE  \E fd, d : fd = stack'[k].fd /\ d = stack'[k].data /\ Holds(fd, d)'
  <2>1. CloseStarts(f)
    BY <1>2, LoopStartsOthers DEF Starting
  <2>2. PICK fd, d : fd = f.fd /\ d = f.data
    OBVIOUS
  <2>3. fd \in Used' /\ fds'[fd].data = d
    BY <2>1, <2>2 DEF CloseStarts, Frame, table, Used, ITEM_USED
  <2> QED
    BY <1>2, <2>2, <2>3 DEF Holds
<1> QED
  BY <1>1, <1>2, FrameOrigin DEF SelectorInv

\* A step that leaves the registrations alone, and starts or ends no handle_close.
LEMMA QuietClose ==
    ASSUME SelectorInv, CloseInv, [Next]_vars, life' = life, Used' = Used, SameData,
           LoopStack
    PROVE  CloseInv'
<1>2. DistinctCloses' /\ \A fd : Closing(fd)' <=> Closing(fd)
  <2>1. CASE stack' = stack
    BY <2>1 DEF CloseInv, DistinctCloses, Closing
  <2>2. CASE stack # <<>> /\ Head(stack).call # "close" /\ stack' = Tail(stack)
    BY <2>2, PoppedCloses
  <2>3. ASSUME NEW f \in Frames, LoopStarts(f), stack' = <<f>> \o stack
        PROVE  DistinctCloses' /\ \A fd : Closing(fd)' <=> Closing(fd)
    BY <2>3, PushedCloses, LoopStartsOthers
  <2> QED
    BY <2>1, <2>2, <2>3 DEF LoopStack
<1>3. CloseFrames'
  BY <1>2, StackStep, CloseFramesStep DEF SameData
<1>4. \A fd \in Used' : life'[fds'[fd].data] = "closing" <=> Closing(fd)'
  BY <1>2 DEF CloseInv, SameData
<1> QED
  BY <1>2, <1>3, <1>4 DEF CloseInv

\* A registration is not one of those that are being closed.
LEMMA RegisterClose ==
    ASSUME SelectorInv, CloseInv, [Next]_vars, NEW fd \in Descriptors,
           NEW interest \in Interests, NEW d \in Data, CallRegister(fd, interest, d)
    PROVE  CloseInv'
<1>1. /\ fd \notin Used /\ Used' = Used \cup {fd}
      /\ fds'[fd] = [fd |-> fd, interest |-> interest, data |-> d]
      /\ \A f \in Used : fds'[f] = fds[f]
      /\ life[d] = "fresh" /\ \A f \in Used : fds[f].data # d
      /\ life' \in [Data -> Lives] /\ life'[d] = "registered"
      /\ \A e \in Data : e # d => life'[e] = life[e]
  BY RegisterData
<1>2. fds'[fd].data = d
  BY <1>1
<1>3. DistinctCloses' /\ \A f : Closing(f)' <=> Closing(f)
  <2>1. CASE stack' = stack
    BY <2>1 DEF CloseInv, DistinctCloses, Closing
  <2>2. CASE stack' = ItemsMoved
    <3>1. Len(stack') = Len(stack) /\ \A k \in 1..Len(stack) : SameFrame(stack'[k], stack[k])
      BY <2>2, MovedFrames DEF SelectorInv
    <3> QED
      BY <3>1 DEF CloseInv, DistinctCloses, Closing, SameFrame
  <2> QED
    BY <2>1, <2>2 DEF CallRegister
<1>4. CloseFrames'
  BY <1>1, <1>3, StackStep, CloseFramesStep
<1>5. ~Closing(fd)
  BY <1>1 DEF CloseInv, CloseFrames, Closing, Holds
<1>6. ASSUME NEW f \in Used'
      PROVE  life'[fds'[f].data] = "closing" <=> Closing(f)'
  <2>1. CASE f = fd
    BY <1>1, <1>2, <1>3, <1>5, <2>1
  <2>2. CASE f # fd
    <3>1. f \in Used /\ fds'[f] = fds[f] /\ fds[f].data # d /\ fds[f].data \in Data
      BY <1>1, <2>2 DEF SelectorInv, SelectorTableInv, TableInv, HoldsData
    <3> QED
      BY <1>1, <1>3, <3>1 DEF CloseInv
  <2> QED
    BY <2>1, <2>2
<1>7. \A e \in Data : life'[e] # "lost"
  BY <1>1 DEF CloseInv
<1> QED
  BY <1>3, <1>4, <1>6, <1>7 DEF CloseInv

\* An item is cleared for the registration that was told, and nobody else closes it.
LEMMA ClearClose ==
    ASSUME SelectorInv, CloseInv, [Next]_vars, NEW fd, NEW told, ItemCleared(fd, told),
           UNCHANGED out_of_bounds, told = fds[fd].data,
           DistinctCloses', \A f : Closing(f)' <=> Closing(f) /\ f # fd
    PROVE  CloseInv'
<1>1. /\ fd \in Used /\ Used' = Used \ {fd}
      /\ \A f \in Used' : fds'[f] = fds[f]
      /\ told \in Data
      /\ life'[told] = "closed"
      /\ \A e \in Data : e # told => life'[e] = life[e]
  BY ClearData
<1>2. CloseFrames'
  BY <1>1, StackStep, CloseFramesStep
<1>3. ASSUME NEW f \in Used'
      PROVE  life'[fds'[f].data] = "closing" <=> Closing(f)'
  <2>1. f \in Used /\ f # fd /\ fds'[f] = fds[f] /\ fds[f].data # told /\ fds[f].data \in Data
    BY <1>1 DEF SelectorInv, HeldInv, SelectorTableInv, TableInv, HoldsData
  <2> QED
    BY <1>1, <2>1 DEF CloseInv
<1>4. \A e \in Data : life'[e] # "lost"
  BY <1>1 DEF CloseInv
<1> QED
  BY <1>2, <1>3, <1>4 DEF CloseInv

\* selector_unregister_fd of an item that is not being closed.
LEMMA UnregisterClose ==
    ASSUME SelectorInv, CloseInv, [Next]_vars, NEW fd \in Used, ~Closing(fd),
           Unregister(fd), UNCHANGED out_of_bounds
    PROVE  CloseInv'
<1>1. CASE ItemCleared(fd, fds[fd].data) /\ stack' = stack
  <2>1. DistinctCloses' /\ \A f : Closing(f)' <=> Closing(f) /\ f # fd
    BY <1>1 DEF CloseInv, DistinctCloses, Closing
  <2> QED
    BY <1>1, <2>1, ClearClose
<1>2. CASE /\ stack' = <<Frame("close", fd, fds[fd].data)>> \o stack
           /\ life' = [life EXCEPT ![fds[fd].data] = "closing"]
           /\ UNCHANGED table
  <2>1. PICK d \in Data : d = fds[fd].data
    BY DEF SelectorInv, SelectorTableInv, TableInv, HoldsData
  <2>2. PICK f : f = Frame("close", fd, d)
    OBVIOUS
  <2>3. f \in Frames /\ f.call = "close" /\ f.fd = fd
    BY <2>1, <2>2, FrameTypes, UsedAreDescriptors DEF Callbacks, SelectorInv, SelectorTableInv
  <2>4. DistinctCloses' /\ \A g : Closing(g)' <=> Closing(g) \/ g = fd
    BY <1>2, <2>1, <2>2, <2>3, PushedCloses
  <2>5. Used' = Used /\ fds' = fds
    BY <1>2 DEF table, Used, ITEM_USED
  <2>6. CloseFrames'
    BY <2>5, StackStep, CloseFramesStep
  <2>7. life'[d] = "closing" /\ \A e \in Data : e # d => life'[e] = life[e]
    BY <1>2, <2>1 DEF SelectorInv
  <2>8. ASSUME NEW g \in Used
        PROVE  life'[fds[g].data] = "closing" <=> Closing(g)'
    <3>1. fds[g].data \in Data /\ (fds[g].data = d => g = fd)
      BY <2>1 DEF SelectorInv, SelectorTableInv, TableInv, HoldsData, HeldInv
    <3>2. g = fd => fds[g].data = d
      BY <2>1
    <3> QED
      BY <2>4, <2>7, <3>1, <3>2 DEF CloseInv
  <2>9. \A e \in Data : life'[e] # "lost"
    BY <2>7 DEF CloseInv
  <2> QED
    BY <2>4, <2>5, <2>6, <2>8, <2>9 DEF CloseInv
<1> QED
  BY <1>1, <1>2 DEF Unregister

\* Every step of such a program.
LEMMA CloseStep ==
    ASSUME "closing left alone" \in Discipline, SelectorInv, CloseInv, [Next]_vars
    PROVE  CloseInv'
<1> USE TableAssumption
<1>1. CASE Loops
  BY <1>1, LoopsLeaveTable, LoopsStep, QuietClose
  DEF SameData, table_vars, table, Used, ITEM_USED
<1>2. CASE \/ (\E fd \in Descriptors : CallOutside(fd)) \/ UNCHANGED vars
  <2>1. UNCHANGED <<table, life, stack>>
    BY <1>2 DEF CallOutside, vars, table_vars
  <2> QED
    BY <2>1, QuietClose DEF SameData, table, Used, ITEM_USED, LoopStack
<1>3. ASSUME NEW fd \in Descriptors, NEW interest \in Interests,
             CallSetInterest(fd, interest)
      PROVE  CloseInv'
  <2>1. /\ Used' = Used
        /\ fd \in Used
        /\ fds'[fd] = [fds[fd] EXCEPT !.interest = interest]
        /\ \A f \in Used : f # fd => fds'[f] = fds[f]
        /\ life' = life /\ stack' = stack
    BY <1>3, SetInterestInvariant DEF CallSetInterest, SelectorInv, SelectorTableInv
  <2>2. fds[fd] \in Items
    BY <2>1, UsedAreDescriptors DEF SelectorInv, SelectorTableInv
  <2>3. SameData
    BY <2>1, <2>2 DEF SameData, Items
  <2> QED
    BY <2>1, <2>3, QuietClose DEF LoopStack
<1>4. ASSUME NEW fd \in Descriptors, NEW interest \in Interests, NEW d \in Data,
             CallRegister(fd, interest, d)
      PROVE  CloseInv'
  BY <1>4, RegisterClose
<1>5. ASSUME NEW fd \in Descriptors, CallUnregister(fd) PROVE CloseInv'
  BY <1>5, UnregisterClose DEF CallUnregister
<1>6. CASE DestroyItem
  <2>1. stack = <<>> /\ UNCHANGED out_of_bounds
    BY <1>6 DEF DestroyItem
  <2>2. CASE i \in Used /\ Unregister(i)
    BY <2>1, <2>2, NoneClosing, UnregisterClose
  <2>3. CASE UNCHANGED <<table, stack, life>>
    BY <2>3, QuietClose DEF SameData, table, Used, ITEM_USED, LoopStack
  <2> QED
    BY <1>6, <2>2, <2>3 DEF DestroyItem
<1>7. CASE ReturnFromClose
  <2>1. CASE UNCHANGED <<table, stack, life>>
    BY <2>1, QuietClose DEF SameData, table, Used, ITEM_USED, LoopStack
  <2>2. CASE ItemCleared(Head(stack).fd, Head(stack).data) /\ stack' = Tail(stack)
    <3>1. PICK fd, told : fd = Head(stack).fd /\ told = Head(stack).data
      OBVIOUS
    <3>2. stack # <<>> /\ Head(stack).call = "close" /\ UNCHANGED out_of_bounds
      BY <1>7 DEF ReturnFromClose
    <3>3. Head(stack) = stack[1] /\ 1 \in 1..Len(stack)
      BY <2>2, <3>2, PoppedFrames DEF SelectorInv
    <3>4. told = fds[fd].data
      BY <3>1, <3>2, <3>3 DEF CloseInv, CloseFrames, Holds
    <3>5. DistinctCloses' /\ \A f : Closing(f)' <=> Closing(f) /\ f # fd
      BY <2>2, <3>1, <3>2, PoppedCloses
    <3> QED
      BY <2>2, <3>1, <3>2, <3>4, <3>5, ClearClose
  <2> QED
    BY <1>7, <2>1, <2>2 DEF ReturnFromClose
<1> QED
  BY <1>1, <1>2, <1>3, <1>4, <1>5, <1>6, <1>7 DEF Next, Program, Loops, selector_destroy

\* Nothing is being closed at the start.
LEMMA CloseInit == Init => CloseInv
<1> SUFFICES ASSUME Init PROVE CloseInv
  OBVIOUS
<1>1. Used = {} /\ stack = <<>>
  BY DEF Init, TableInit, Used, ITEM_USED, UnusedItem
<1>2. Len(stack) = 0
  BY <1>1
<1> QED
  BY <1>1, <1>2 DEF Init, CloseInv, DistinctCloses, CloseFrames

\* However callbacks nest, and whatever else they unregister or register from inside
\* one another: if none of them unregisters what is being closed, each registration
\* has its handle_close once and its item until then, and no item is cleared for
\* another registration (selector.c:388-408).
THEOREM DataReleasedOnce ==
    ASSUME "closing left alone" \in Discipline
    PROVE  Spec => []ReleasedOnce
<1>1. SelectorInv /\ CloseInv /\ [Next]_vars => CloseInv'
  BY CloseStep
<1>2. Spec => []SelectorInv
  BY SelectorInit, SelectorStep, PTL DEF Spec
<1> QED
  BY CloseInit, <1>1, <1>2, ReleasedByClose, PTL DEF Spec

-----------------------------------------------------------------------------
(* The destruction of the selector.                                        *)

\* Inside selector_destroy only handle_close callbacks run.  What the loop has
\* passed is free, or its handle_close is still to return.
ClosesOnly == phase \in {"destroy", "destroyed"} =>
    \A k \in 1..Len(stack) : stack[k].call = "close"

DestroyInv ==
    /\ ClosesOnly
    /\ phase = "destroy" => \A fd \in Used : fd < i => Closing(fd)
    /\ phase = "destroyed" => stack = <<>> /\ Used = {}

\* The context of a call from inside selector_destroy is a handle_close.
LEMMA DestroyContext ==
    ASSUME SelectorInv, ClosesOnly, phase \in {"destroy", "destroyed"}, NEW call, May(call)
    PROVE  /\ stack # <<>> /\ call \in Calls["close"]
           /\ Head(stack).call = "close" /\ Closing(Head(stack).fd)
<1>1. stack # <<>>
  BY DEF May, Context, Contexts, Callbacks
<1>2. 1 \in 1..Len(stack) /\ Head(stack) = stack[1]
  BY <1>1 DEF SelectorInv
<1> QED
  BY <1>1, <1>2 DEF May, Context, ClosesOnly, Closing

\* No other callback starts there.
LEMMA ClosesOnlyStep ==
    ASSUME DispatchInv, ClosesOnly, [Next]_vars
    PROVE  ClosesOnly'
<1> USE DEF DispatchInv
<1> SUFFICES ASSUME phase' \in {"destroy", "destroyed"},
                    NEW k \in 1..Len(stack')
             PROVE  stack'[k].call = "close"
  BY DEF ClosesOnly
<1>0. stack \in Seq(Frames)
  BY DEF SelectorInv
<1>1. CASE stack' = stack /\ phase' = phase
  BY <1>1 DEF ClosesOnly
<1>2. ASSUME stack # <<>>, stack' = Tail(stack), phase' = phase
      PROVE  stack'[k].call = "close"
  <2>1. k + 1 \in 1..Len(stack) /\ stack'[k] = stack[k + 1]
    BY <1>0, <1>2
  <2> QED
    BY <1>2, <2>1 DEF ClosesOnly
<1>3. ASSUME NEW fd, NEW d, stack' = <<Frame("close", fd, d)>> \o stack, phase' = phase
      PROVE  stack'[k].call = "close"
  <2>1. Len(stack) \in Nat /\ Len(stack') = Len(stack) + 1 /\ stack'[1] = Frame("close", fd, d)
    BY <1>0, <1>3
  <2>2. CASE k = 1
    BY <2>1, <2>2 DEF Frame
  <2>3. CASE k # 1
    <3>1. k - 1 \in 1..Len(stack) /\ stack'[k] = stack[k - 1]
      BY <1>0, <1>3, <2>1, <2>3
    <3> QED
      BY <1>3, <3>1 DEF ClosesOnly
  <2> QED
    BY <2>2, <2>3
<1>4. ASSUME NEW fd, Unregister(fd), phase' = phase
      PROVE  stack'[k].call = "close"
  BY <1>1, <1>3, <1>4 DEF Unregister
<1>5. CASE Loops
  <2>1. CASE DestroyBegins
    <3>1. stack = <<>> /\ stack' = <<>>
      BY <2>1 DEF DestroyBegins
    <3>2. Len(stack') = 0
      BY <3>1
    <3> QED
      BY <3>2
  <2>2. CASE \/ DestroyEnds \/ CallStartJob
             \/ (\E job \in working : selector_notify_block(job))
             \/ (\E fd \in Descriptors : CallClose(fd))
    BY <1>0, <2>2 DEF DestroyEnds, CallStartJob, selector_notify_block, CallClose, loop,
                      ClosesOnly
  <2>3. CASE ReturnFromCallback
    BY <1>2, <2>3 DEF ReturnFromCallback, loop
  <2>4. CASE \/ PselectReturns \/ PselectInterrupted \/ PselectBadDescriptor
             \/ PselectFails \/ handle_iteration \/ handle_block_notifications
    BY <2>4 DEF PselectReturns, PselectInterrupted, PselectBadDescriptor, PselectFails,
                handle_iteration, SkipUnused, ReadItem, WriteItem, IterationEnds,
                handle_block_notifications, NotifyJob, NotifyEnds, loop
  <2> QED
    BY <1>5, <2>1, <2>2, <2>3, <2>4 DEF Loops
<1>6. ASSUME NEW fd \in Descriptors, NEW interest \in Interests, NEW d \in Data,
             CallRegister(fd, interest, d)
      PROVE  stack'[k].call = "close"
  <2>1. phase' = phase
    BY <1>6 DEF CallRegister, loop
  <2>2. CASE stack' = ItemsMoved
    <3>1. Len(stack') = Len(stack) /\ \A j \in 1..Len(stack) : SameFrame(stack'[j], stack[j])
      BY <1>0, <2>2, MovedFrames
    <3> QED
      BY <2>1, <3>1 DEF ClosesOnly, SameFrame
  <2> QED
    BY <1>1, <1>6, <2>1, <2>2 DEF CallRegister
<1>7. CASE DestroyItem
  BY <1>1, <1>4, <1>7 DEF DestroyItem
<1>8. CASE ReturnFromClose
  BY <1>1, <1>2, <1>8 DEF ReturnFromClose, loop
<1>9. ASSUME NEW fd \in Descriptors, CallUnregister(fd)
      PROVE  stack'[k].call = "close"
  BY <1>4, <1>9 DEF CallUnregister, loop
<1>10. CASE \/ \E fd \in Descriptors : CallOutside(fd)
            \/ \E fd \in Descriptors, interest \in Interests : CallSetInterest(fd, interest)
            \/ UNCHANGED vars
  BY <1>1, <1>10 DEF CallOutside, CallSetInterest, vars, loop
<1> QED
  BY <1>5, <1>6, <1>7, <1>8, <1>9, <1>10 DEF Next, Program, Loops, selector_destroy

\* What is being closed is so until its item is freed.
LEMMA ClosingStays ==
    ASSUME "closing left alone" \in Discipline, SelectorInv, CloseInv, [Next]_vars,
           NEW fd \in Used, fd \in Used', Closing(fd), fds'[fd].data = fds[fd].data
    PROVE  Closing(fd)'
<1>1. PICK d \in Data : d = fds[fd].data
  BY DEF SelectorInv, SelectorTableInv, TableInv, HoldsData
<1>2. life[d] = "closing"
  BY <1>1 DEF CloseInv
<1>3. life'[d] = "closing"
  <2>1. CASE life' = life
    BY <1>2, <2>1
  <2>2. ASSUME NEW f \in Descriptors, NEW interest \in Interests, NEW e \in Data,
               CallRegister(f, interest, e)
        PROVE  life'[d] = "closing"
    <3>1. life[e] = "fresh" /\ life' = [life EXCEPT ![e] = "registered"]
      BY <2>2 DEF CallRegister
    <3> QED
      BY <1>2, <3>1 DEF SelectorInv
  <2>3. ASSUME NEW f \in Used, life' = [life EXCEPT ![fds[f].data] = "closing"]
        PROVE  life'[d] = "closing"
    BY <1>2, <2>3 DEF SelectorInv
  <2>4. ASSUME NEW f, NEW told, ItemCleared(f, told), UNCHANGED out_of_bounds
        PROVE  life'[d] = "closing"
    <3>1. PICK e : e = fds[f].data
      OBVIOUS
    <3>2. /\ f \in Used /\ Used' = Used \ {f}
          /\ \A c \in Data : c # e => life'[c] = life[c]
      BY <2>4, <3>1, ClearData
    <3>3. e # d
      BY <1>1, <3>1, <3>2 DEF SelectorInv, HeldInv
    <3> QED
      BY <1>2, <3>2, <3>3
  <2> QED
    BY <2>1, <2>2, <2>3, <2>4, StepData DEF SelectorInv, DataEffect
<1>4. CloseInv'
  BY CloseStep
<1> QED
  BY <1>1, <1>3, <1>4 DEF CloseInv

\* The cursor and the used items are numbers.
LEMMA CursorBounds ==
    ASSUME SelectorInv, CursorInv
    PROVE  /\ fd_size \in Int /\ i \in Int
           /\ \A fd \in Used : fd \in Int /\ 0 <= fd /\ fd < fd_size
<1>1. fd_size \in Int /\ fds \in [0..fd_size - 1 -> Items]
  BY DEF SelectorInv, SelectorTableInv, TableInv, TableTypeOK
<1>2. i \in 0..fd_size
  BY DEF CursorInv
<1>3. \A fd \in Used : fd \in 0..fd_size - 1
  BY <1>1 DEF Used
<1> QED
  BY <1>1, <1>2, <1>3

ClosingLeftAlone == "closing left alone" \in Discipline

\* An item that a handle_close frees does not get behind the loop.
LEMMA DestroyStep ==
    ASSUME ClosingLeftAlone, "register" \notin Calls["close"],
           DispatchInv, CloseInv, DestroyInv, [Next]_vars
    PROVE  DestroyInv'
<1> USE DEF DispatchInv
<1>1. ClosesOnly' /\ ClosesOnly /\ CloseInv'
  BY ClosesOnlyStep, CloseStep DEF DestroyInv, ClosingLeftAlone
<1>2. fd_size \in Int /\ i \in Int /\ \A fd \in Used : fd \in Int /\ 0 <= fd /\ fd < fd_size
  BY CursorBounds
<1>3. ASSUME phase = "destroy", NEW fd \in Used'
      PROVE  fd \in Used /\ fds'[fd].data = fds[fd].data /\ (Closing(fd) => Closing(fd)')
  <2>1. \A interest \in Interests, d \in Data : ~CallRegister(fd, interest, d)
    BY <1>1, <1>3, DestroyContext DEF CallRegister
  <2>2. fd \in Used /\ fds'[fd].data = fds[fd].data
    BY <2>1, ItemsStay
  <2> QED
    BY <2>2, ClosingStays DEF ClosingLeftAlone
<1>4. ASSUME phase' = "destroy", NEW fd \in Used', fd < i'
      PROVE  Closing(fd)'
  <2>1. CASE DestroyBegins
    <3>1. i' = 0 /\ fd \in Used
      BY <2>1, LoopsLeaveTable DEF DestroyBegins, Loops, table_vars, table, Used, ITEM_USED
    <3>2. fd \in Int /\ fd >= 0
      BY <1>2, <3>1
    <3> QED
      BY <1>4, <3>1, <3>2
  <2>2. CASE phase = "destroy" /\ i' = i
    BY <1>3, <1>4, <2>2 DEF DestroyInv
  <2>3. CASE DestroyItem
    <3>1. phase = "destroy" /\ i' = i + 1
      BY <2>3 DEF DestroyItem
    <3>2. CASE fd # i
      <4>1. fd < i
        BY <1>2, <1>3, <1>4, <3>1, <3>2
      <4> QED
        BY <1>3, <3>1, <4>1 DEF DestroyInv
    <3>3. CASE fd = i
      <4>1. fd \in Used /\ fds'[fd].data = fds[fd].data
        BY <1>3, <3>1
      <4>2. Unregister(fd) /\ UNCHANGED out_of_bounds
        BY <2>3, <3>3, <4>1 DEF DestroyItem
      <4>3. ~ItemCleared(fd, fds[fd].data)
        BY <1>4, <4>2, ClearData
      <4>4. PICK d \in Data : d = fds[fd].data
        BY <4>1 DEF SelectorInv, SelectorTableInv, TableInv, HoldsData
      <4>5. life'[d] = "closing"
        BY <4>2, <4>3, <4>4 DEF Unregister, SelectorInv
      <4> QED
        BY <1>1, <4>1, <4>4, <4>5 DEF CloseInv
    <3> QED
      BY <3>2, <3>3
  <2>4. DestroyBegins \/ (phase = "destroy" /\ i' = i) \/ DestroyItem
    <3>1. CASE Loops
      BY <1>4, <3>1
      DEF Loops, PselectReturns, PselectInterrupted, PselectBadDescriptor, PselectFails,
          handle_iteration, SkipUnused, ReadItem, WriteItem, IterationEnds,
          handle_block_notifications, NotifyJob, NotifyEnds, DestroyEnds,
          ReturnFromCallback, CallStartJob, selector_notify_block, CallClose, loop
    <3> QED
      BY <1>4, <3>1, CallsLeaveLoop DEF loop
  <2> QED
    BY <2>1, <2>2, <2>3, <2>4
<1>5. ASSUME phase' = "destroyed"
      PROVE  stack' = <<>> /\ Used' = {}
  <2>1. CASE DestroyEnds
    <3>1. Used' = Used /\ stack' = stack /\ stack = <<>> /\ phase = "destroy" /\ i >= fd_size
      BY <2>1, LoopsLeaveTable DEF DestroyEnds, Loops, table_vars, table, Used, ITEM_USED
    <3>2. \A fd \in Used : fd < i
      BY <1>2, <3>1
    <3>3. \A fd : ~Closing(fd)
      BY <3>1, NoneClosing
    <3> QED
      BY <3>1, <3>2, <3>3 DEF DestroyInv
  <2>2. CASE phase = "destroyed" /\ ~DestroyEnds
    <3>1. stack = <<>> /\ Used = {}
      BY <2>2 DEF DestroyInv
    <3>2. \A call : ~May(call)
      BY <1>1, <2>2, <3>1, DestroyContext
    <3>3. UNCHANGED <<table, stack>>
      BY <2>2, <3>1, <3>2
      DEF Next, Program, vars, table_vars, handle_iteration, handle_block_notifications,
          selector_destroy, CallUnregister, CallClose, CallOutside, CallSetInterest,
          CallRegister, CallStartJob, ReturnFromClose, ReturnFromCallback, PselectReturns,
          PselectInterrupted, PselectBadDescriptor, PselectFails, SkipUnused, ReadItem,
          WriteItem, IterationEnds, NotifyJob, NotifyEnds, selector_notify_block,
          DestroyBegins, DestroyItem
    <3> QED
      BY <3>1, <3>3 DEF table, Used, ITEM_USED
  <2>3. DestroyEnds \/ phase = "destroyed"
    <3>1. CASE Loops
      BY <1>5, <3>1
      DEF Loops, PselectReturns, PselectInterrupted, PselectBadDescriptor, PselectFails,
          handle_iteration, SkipUnused, ReadItem, WriteItem, IterationEnds,
          handle_block_notifications, NotifyJob, NotifyEnds, DestroyBegins,
          ReturnFromCallback, CallStartJob, selector_notify_block, CallClose, loop
    <3> QED
      BY <1>5, <3>1, CallsLeaveLoop, DestroyItemLoop DEF loop
  <2> QED
    BY <2>1, <2>2, <2>3
<1> QED
  BY <1>1, <1>4, <1>5 DEF DestroyInv

\* selector_destroy releases everything if no handle_close registers a descriptor,
\* whatever other descriptors the handle_close callbacks unregister, those that the
\* loop has still to reach and those that it has passed (selector.c:313-317).
THEOREM DestroyReleases ==
    ASSUME "closing left alone" \in Discipline, "register" \notin Calls["close"]
    PROVE  Spec => []DestroyReleasesAll
<1>1. Init => DestroyInv
  BY DEF Init, DestroyInv, ClosesOnly
<1>2. DispatchInv /\ CloseInv /\ [Next]_vars => CloseInv'
  BY CloseStep DEF DispatchInv
<1>3. DispatchInv /\ CloseInv /\ DestroyInv /\ [Next]_vars => DestroyInv'
  BY DestroyStep DEF ClosingLeftAlone
<1>4. DispatchInv /\ CloseInv /\ DestroyInv => DestroyReleasesAll
  BY DEF DispatchInv, SelectorInv, HeldInv, Alive, Lives, CloseInv, DestroyInv,
         DestroyReleasesAll
<1> QED
  BY DispatchInvariance, CloseInit, <1>1, <1>2, <1>3, <1>4, PTL DEF Spec


-----------------------------------------------------------------------------
(* A program that registers no reported descriptor anew: what callbacks get. *)

\* A callback that runs after a step and did not before has just started.
LEMMA WhatStarts ==
    ASSUME SelectorInv, [Next]_vars, NEW call, Starts(call)
    PROVE  \E f \in Frames : Starting(f) /\ Started = f /\ f.call = call
<1>0. stack \in Seq(Frames) /\ Len(stack) \in Nat /\ Len(stack') > Len(stack)
      /\ Head(stack').call = call
  BY DEF SelectorInv, Starts
<1>1. stack' # stack
  BY <1>0
<1>2. stack' # ItemsMoved
  BY <1>0, MovedFrames
<1>3. ~(stack # <<>> /\ stack' = Tail(stack))
  BY <1>0, PoppedFrames
<1>4. PICK f \in Frames : Starting(f) /\ stack' = <<f>> \o stack
  BY <1>1, <1>2, <1>3, StackStep DEF StackEffect
<1>5. Head(stack') = f
  BY <1>0, <1>4, PushedFrames
<1> QED
  BY <1>0, <1>4, <1>5 DEF Started

\* Where the three callbacks other than handle_close start.
LEMMA WhereStarts ==
    ASSUME NEW f, Starting(f), f.call \in {"read", "write", "block"}
    PROVE  \/ f.call = "read" /\ ReadStarts(f)
           \/ f.call = "write" /\ WriteStarts(f)
           \/ f.call = "block" /\ BlockStarts(f)
<1>1. CASE CloseStarts(f)
  BY <1>1 DEF CloseStarts, Frame
<1>2. CASE ReadStarts(f)
  BY <1>2 DEF ReadStarts, Frame
<1>3. CASE WriteStarts(f)
  BY <1>3 DEF WriteStarts, Frame
<1>4. CASE BlockStarts(f)
  BY <1>4 DEF BlockStarts, Frame
<1> QED
  BY <1>1, <1>2, <1>3, <1>4 DEF Starting, LoopStarts

\* The key that handle_iteration has captured is that of the item, if the item is
\* still used and there is an event left to report.
KeyInv == phase = "write" /\ i \in slave_w /\ i \in Used => fds[i].data = key_data

\* The reported descriptors that are still used carry the reported registrations.
ReportedInv == phase \in {"read", "write"} =>
    /\ \A fd \in slave_r \cap Used : fds[fd].data \in ready_r
    /\ \A fd \in slave_w \cap Used : fds[fd].data \in ready_w

\* In an iteration a reported descriptor is not used anew.
LEMMA ReportedItems ==
    ASSUME "fresh descriptors" \in Discipline, SelectorInv, [Next]_vars,
           phase \in {"read", "write"}, NEW fd \in Used', fd \in slave_r \cup slave_w
    PROVE  fd \in Used /\ fds'[fd].data = fds[fd].data
<1>1. \A interest \in Interests, d \in Data : ~CallRegister(fd, interest, d)
  BY DEF CallRegister, RegisterRules
<1> QED
  BY <1>1, ItemsStay

\* A registration at a reported descriptor would break both; the rule forbids it.
LEMMA KeyStep ==
    ASSUME "fresh descriptors" \in Discipline, SelectorInv, KeyInv, [Next]_vars
    PROVE  KeyInv'
<1> SUFFICES ASSUME phase' = "write", i' \in slave_w', i' \in Used'
             PROVE  fds'[i'].data = key_data'
  BY DEF KeyInv
<1>1. CASE ReadItem
  BY <1>1 DEF ReadItem, table_vars, table
<1>2. CASE phase = "write" /\ UNCHANGED <<i, key_data, slave_w>>
  BY <1>2, ReportedItems DEF KeyInv
<1> QED
  BY <1>1, <1>2, IterationLoop DEF PselectReturns

\* max_fd is the largest descriptor of the sets.
LEMMA NoneBeyond == TableInv => Beyond(master_r) = {} /\ Beyond(master_w) = {}
<1> SUFFICES ASSUME TableInv PROVE Beyond(master_r) = {} /\ Beyond(master_w) = {}
  OBVIOUS
<1>1. max_fd \in Int /\ Used \subseteq Int
  BY DEF TableInv, TableTypeOK, Used
<1>2. \A fd \in Used : ~(fd >= max_fd + 1)
  BY <1>1 DEF TableInv, WatchesExactly
<1>3. master_r \subseteq Used /\ master_w \subseteq Used
  BY DEF TableInv, WatchesExactly
<1> QED
  BY <1>2, <1>3 DEF Beyond

\* pselect reports registrations, and they stay where they were reported.
LEMMA ReportedStep ==
    ASSUME "fresh descriptors" \in Discipline, SelectorInv, ReportedInv, [Next]_vars
    PROVE  ReportedInv'
<1> SUFFICES ASSUME phase' \in {"read", "write"} PROVE ReportedInv'
  BY DEF ReportedInv
<1>1. CASE PselectReturns
  <2>1. Beyond(master_r) = {} /\ Beyond(master_w) = {}
    BY NoneBeyond DEF SelectorInv, SelectorTableInv
  <2>2. /\ ready_r' = Registrations(slave_r')
        /\ ready_w' = Registrations(slave_w')
        /\ fds' = fds
    BY <1>1, <2>1 DEF PselectReturns, table_vars, table
  <2> QED
    BY <2>2 DEF ReportedInv, Registrations
<1>2. CASE phase \in {"read", "write"} /\ UNCHANGED <<slave_r, slave_w, ready_r, ready_w>>
  <2>1. \A fd \in Used' : fd \in slave_r \cup slave_w => fd \in Used /\ fds'[fd].data = fds[fd].data
    BY <1>2, ReportedItems
  <2> QED
    BY <1>2, <2>1 DEF ReportedInv
<1> QED
  BY <1>1, <1>2, IterationLoop

\* An item that is to be written is used: a free one is asked for nothing.
LEMMA WrittenAreUsed ==
    ASSUME SelectorInv, CursorInv, phase = "write", "OP_WRITE" \in fds[i].interest
    PROVE  i \in Used
<1>1. i \in 0..fd_size - 1
  BY DEF CursorInv, SelectorInv, SelectorTableInv, TableInv, TableTypeOK
<1> QED
  BY <1>1, InterestedAreUsed DEF SelectorInv, SelectorTableInv

\* A program that registers no reported descriptor anew within the iteration gets
\* the data of the registration in the table with each event, although
\* handle_iteration fills in its key once for two callbacks (selector.c:460-476).
THEOREM KeysAreCurrent ==
    ASSUME "fresh descriptors" \in Discipline
    PROVE  Spec => KeyIsCurrent
<1>1. Init => KeyInv
  BY DEF Init, KeyInv
<1>2. SelectorInv /\ KeyInv /\ [Next]_vars => KeyInv'
  BY KeyStep
<1>3. SelectorInv /\ CursorInv /\ KeyInv /\ [Next]_vars =>
          \A call \in {"read", "write", "block"} :
              Starts(call) => Holds(Started.fd, Started.data)
  <2> SUFFICES ASSUME SelectorInv, CursorInv, KeyInv, [Next]_vars,
                      NEW call \in {"read", "write", "block"}, Starts(call)
               PROVE  Holds(Started.fd, Started.data)
    OBVIOUS
  <2>1. PICK f \in Frames : Starting(f) /\ Started = f /\ f.call = call
    BY WhatStarts
  <2>2. CASE ReadStarts(f)
    BY <2>1, <2>2 DEF ReadStarts, ReadItem, Frame, Holds
  <2>3. CASE WriteStarts(f)
    BY <2>1, <2>3, WrittenAreUsed DEF WriteStarts, WriteItem, KeyInv, Frame, Holds
  <2>4. CASE BlockStarts(f)
    BY <2>1, <2>4 DEF BlockStarts, Frame, Holds
  <2> QED
    BY <2>1, <2>2, <2>3, <2>4, WhereStarts
<1>4. DispatchInv => SelectorInv /\ CursorInv
  BY DEF DispatchInv
<1> QED
  BY DispatchInvariance, <1>1, <1>2, <1>3, <1>4, PTL DEF Spec, KeyIsCurrent

\* Under the same rule an event never reaches a registration that pselect did not
\* report, nor one that has lost its interest meanwhile (selector.c:462-475).
THEOREM OnlyReportedAreDispatched ==
    ASSUME "fresh descriptors" \in Discipline
    PROVE  Spec => OnlyReportedDispatched
<1> DEFINE Dispatched ==
        /\ Starts("read") => /\ \E d \in ready_r : Holds(Started.fd, d)
                             /\ "OP_READ" \in fds[Started.fd].interest
        /\ Starts("write") => /\ \E d \in ready_w : Holds(Started.fd, d)
                              /\ "OP_WRITE" \in fds[Started.fd].interest
<1>1. Init => ReportedInv
  BY DEF Init, ReportedInv
<1>2. SelectorInv /\ ReportedInv /\ [Next]_vars => ReportedInv'
  BY ReportedStep
<1>3. SelectorInv /\ CursorInv /\ ReportedInv /\ [Next]_vars => Dispatched
  <2> SUFFICES ASSUME SelectorInv, CursorInv, ReportedInv, [Next]_vars PROVE Dispatched
    OBVIOUS
  <2>1. ASSUME Starts("read")
        PROVE  /\ \E d \in ready_r : Holds(Started.fd, d)
               /\ "OP_READ" \in fds[Started.fd].interest
    <3>1. PICK f \in Frames : Starting(f) /\ Started = f /\ f.call = "read"
      BY <2>1, WhatStarts
    <3>2. ReadStarts(f)
      BY <3>1, WhereStarts
    <3> QED
      BY <3>1, <3>2 DEF ReadStarts, ReadItem, ReportedInv, Frame, Holds
  <2>2. ASSUME Starts("write")
        PROVE  /\ \E d \in ready_w : Holds(Started.fd, d)
               /\ "OP_WRITE" \in fds[Started.fd].interest
    <3>1. PICK f \in Frames : Starting(f) /\ Started = f /\ f.call = "write"
      BY <2>2, WhatStarts
    <3>2. WriteStarts(f)
      BY <3>1, WhereStarts
    <3> QED
      BY <3>1, <3>2, WrittenAreUsed DEF WriteStarts, WriteItem, ReportedInv, Frame, Holds
  <2> QED
    BY <2>1, <2>2
<1>4. DispatchInv => SelectorInv /\ CursorInv
  BY DEF DispatchInv
<1> QED
  BY DispatchInvariance, <1>1, <1>2, <1>3, <1>4, PTL DEF Spec, OnlyReportedDispatched

-----------------------------------------------------------------------------
(* A program that keeps the rules: nothing undefined happens.              *)

KeepsRules == Rules \ {"unregister before close"} \subseteq Discipline

\* The rules, one by one.
LEMMA RulesKept ==
    ASSUME KeepsRules
    PROVE  /\ "fresh descriptors" \in Discipline
           /\ "closing left alone" \in Discipline
           /\ "interests have handlers" \in Discipline
           /\ "growth at rest" \in Discipline
  BY DEF KeepsRules, Rules

\* Who is asked whether it can be written has a handle_write.
WritersInv ==
    /\ \A fd \in Used : HasHandlers(fds[fd].data, fds[fd].interest)
    /\ phase \in {"read", "write"} => \A d \in ready_w : d \notin WithoutWrite

\* The item is looked at again after no callback whose item has moved: either it
\* has not, or the callback was handle_read of a descriptor that was not reported
\* writable, as its handler has no handle_write.
ComeBackInv ==
    \A k \in 1..Len(stack) :
        /\ stack[k].moved => ~ComesBack(stack[k])
        /\ stack[k].call = "read" /\ stack[k].data \in WithoutWrite => i \notin slave_w

\* An interest comes with a registration or with selector_set_interest.
LEMMA WritersStep ==
    ASSUME KeepsRules, SelectorInv, WritersInv, [Next]_vars
    PROVE  WritersInv'
<1> DEFINE Writers == \A fd \in Used : HasHandlers(fds[fd].data, fds[fd].interest)
<1>1. Writers'
  <2>1. CASE UNCHANGED fds
    BY <2>1 DEF WritersInv, HasHandlers, Used, ITEM_USED
  <2>2. ASSUME NEW fd \in Descriptors, NEW interest \in Interests, NEW d \in Data,
               CallRegister(fd, interest, d)
        PROVE  Writers'
    <3>1. /\ Used' = Used \cup {fd}
          /\ fds'[fd] = [fd |-> fd, interest |-> interest, data |-> d]
          /\ \A f \in Used : fds'[f] = fds[f]
      BY <2>2, RegisterData
    <3>2. HasHandlers(d, interest)
      BY <2>2, RulesKept DEF CallRegister, RegisterRules
    <3>3. HasHandlers(fds'[fd].data, fds'[fd].interest)
      BY <3>1, <3>2
    <3> QED
      BY <3>1, <3>3 DEF WritersInv, HasHandlers
  <2>3. ASSUME NEW fd \in Descriptors, NEW interest \in Interests,
               CallSetInterest(fd, interest)
        PROVE  Writers'
    <3>1. /\ Used' = Used
          /\ fd \in Used
          /\ fds'[fd] = [fds[fd] EXCEPT !.interest = interest]
          /\ \A f \in Used : f # fd => fds'[f] = fds[f]
      BY <2>3, SetInterestInvariant DEF CallSetInterest, SelectorInv, SelectorTableInv
    <3>2. HasHandlers(fds[fd].data, interest)
      BY <2>3, RulesKept DEF CallSetInterest
    <3>3. fds[fd] \in Items
      BY <3>1, UsedAreDescriptors DEF SelectorInv, SelectorTableInv
    <3>4. HasHandlers(fds'[fd].data, fds'[fd].interest)
      BY <3>1, <3>2, <3>3 DEF Items
    <3> QED
      BY <3>1, <3>4 DEF WritersInv, HasHandlers
  <2>4. ASSUME NEW fd, NEW told, ItemCleared(fd, told), UNCHANGED out_of_bounds
        PROVE  Writers'
    <3>1. /\ Used' = Used \ {fd} /\ \A f \in Used' : fds'[f] = fds[f]
      BY <2>4, ClearData
    <3> QED
      BY <3>1 DEF WritersInv, HasHandlers
  <2>5. ASSUME NEW fd, Unregister(fd), UNCHANGED out_of_bounds PROVE Writers'
    BY <2>1, <2>4, <2>5 DEF Unregister, table
  <2>6. CASE Loops
    BY <2>1, <2>6, LoopsLeaveTable DEF table_vars, table
  <2>7. CASE ReturnFromClose
    BY <2>1, <2>4, <2>7 DEF ReturnFromClose, table
  <2>8. CASE DestroyItem
    BY <2>1, <2>5, <2>8 DEF DestroyItem, table
  <2>9. ASSUME NEW fd \in Descriptors, CallUnregister(fd) PROVE Writers'
    BY <2>5, <2>9 DEF CallUnregister
  <2>10. CASE (\E fd \in Descriptors : CallOutside(fd)) \/ UNCHANGED vars
    BY <2>1, <2>10 DEF CallOutside, vars, table_vars, table
  <2> HIDE DEF Writers
  <2> QED
    BY <2>2, <2>3, <2>6, <2>7, <2>8, <2>9, <2>10 DEF Next, Program, Loops, selector_destroy
<1>2. ASSUME phase' \in {"read", "write"}, NEW d \in ready_w'
      PROVE  d \notin WithoutWrite
  <2>1. CASE PselectReturns
    <3>1. PICK w \in SUBSET (Watched \cap master_w) : ready_w' = Registrations(w)
      BY <2>1 DEF PselectReturns
    <3>2. PICK fd \in w : d = fds[fd].data
      BY <1>2, <3>1 DEF Registrations
    <3>3. fd \in Used /\ "OP_WRITE" \in fds[fd].interest
      BY <3>1, <3>2 DEF SelectorInv, SelectorTableInv, TableInv, WatchesExactly
    <3> QED
      BY <3>2, <3>3 DEF WritersInv, HasHandlers
  <2>2. CASE phase \in {"read", "write"} /\ ready_w' = ready_w
    BY <1>2, <2>2 DEF WritersInv
  <2> QED
    BY <1>2, <2>1, <2>2, IterationLoop
<1> QED
  BY <1>1, <1>2 DEF WritersInv

\* While callbacks are in progress handle_iteration does not move on.
LEMMA CursorWaits ==
    ASSUME [Next]_vars, stack # <<>>
    PROVE  i' = i /\ slave_w' = slave_w
<1>1. CASE Loops
  BY <1>1
  DEF Loops, PselectReturns, PselectInterrupted, PselectBadDescriptor, PselectFails,
      handle_iteration, SkipUnused, ReadItem, WriteItem, IterationEnds,
      handle_block_notifications, NotifyJob, NotifyEnds, DestroyBegins, DestroyEnds,
      ReturnFromCallback, CallStartJob, selector_notify_block, CallClose, loop
<1>2. CASE DestroyItem
  BY <1>2 DEF DestroyItem
<1> QED
  BY <1>1, <1>2, CallsLeaveLoop DEF loop

\* fds grows only where nobody comes back.
LEMMA GrowsAtRest ==
    ASSUME KeepsRules, SelectorInv, Growing, NEW k \in 1..Len(stack)
    PROVE  ~ComesBack(stack[k])
<1>1. PICK fd \in Descriptors, interest \in Interests, d \in Data :
          CallRegister(fd, interest, d)
  BY DEF Growing
<1>2. SizeFor(fd) # fd_size
  BY <1>1 DEF Growing, CallRegister, selector_register
<1> QED
  BY <1>1, <1>2, RulesKept DEF CallRegister, RegisterRules

\* handle_read is called for a descriptor that is also reported writable only if
\* there is a handle_write, and fds grows under no callback that is waited for.
LEMMA ComeBackStep ==
    ASSUME KeepsRules, SelectorInv, ReportedInv, WritersInv, ComeBackInv, [Next]_vars
    PROVE  ComeBackInv'
<1> SUFFICES ASSUME NEW k \in 1..Len(stack')
             PROVE  /\ stack'[k].moved => ~ComesBack(stack'[k])
                    /\ stack'[k].call = "read" /\ stack'[k].data \in WithoutWrite
                          => i' \notin slave_w'
  BY DEF ComeBackInv, ComesBack
<1>1. ASSUME NEW j \in 1..Len(stack), SameFrame(stack'[k], stack[j]),
             stack'[k].moved => stack[j].moved \/ Growing
      PROVE  /\ stack'[k].moved => ~ComesBack(stack'[k])
             /\ stack'[k].call = "read" /\ stack'[k].data \in WithoutWrite
                   => i' \notin slave_w'
  <2>1. stack # <<>>
    <3>1. Len(stack) # 0
      BY DEF SelectorInv
    <3> QED
      BY <3>1
  <2>2. i' = i /\ slave_w' = slave_w
    BY <2>1, CursorWaits
  <2>3. stack'[k].moved => ~ComesBack(stack[j])
    BY <1>1, GrowsAtRest DEF ComeBackInv
  <2> QED
    BY <1>1, <2>2, <2>3 DEF ComeBackInv, SameFrame, ComesBack
<1>2. ASSUME NEW f \in Frames, Starting(f), stack'[k] = f
      PROVE  /\ ~stack'[k].moved
             /\ stack'[k].call = "read" /\ stack'[k].data \in WithoutWrite
                   => i' \notin slave_w'
  <2>1. ~f.moved
    BY <1>2 DEF Starting, CloseStarts, LoopStarts, ReadStarts, WriteStarts, BlockStarts, Frame
  <2>2. ASSUME f.call = "read", f.data \in WithoutWrite PROVE i' \notin slave_w'
    <3>1. ReadStarts(f)
      BY <1>2, <2>2, WhereStarts
    <3>2. phase = "read" /\ i \in Used /\ f.data = fds[i].data /\ i' = i /\ slave_w' = slave_w
      BY <3>1 DEF ReadStarts, ReadItem, Frame
    <3> QED
      BY <2>2, <3>2 DEF ReportedInv, WritersInv
  <2> QED
    BY <1>2, <2>1, <2>2
<1> QED
  BY <1>1, <1>2, StackStep, FrameOrigin DEF SelectorInv

\* The innermost callback is a frame.
LEMMA FirstFrame ==
    ASSUME stack \in Seq(Frames), stack # <<>>
    PROVE  Head(stack) = stack[1] /\ 1 \in 1..Len(stack)
  OBVIOUS

\* Each of the accesses that could go wrong finds what it expects.
LEMMA DefinedStep ==
    ASSUME SelectorInv, CursorInv, CloseInv, WritersInv, ComeBackInv, StaysDefined, [Next]_vars
    PROVE  StaysDefined'
<1> USE DEF StaysDefined
<1>1. stack # <<>> => Head(stack) = stack[1] /\ 1 \in 1..Len(stack)
  BY FirstFrame DEF SelectorInv
<1>2. CASE ReturnFromClose
  <2>1. ~Head(stack).moved
    BY <1>1, <1>2 DEF ReturnFromClose, ComeBackInv, ComesBack
  <2>2. Head(stack).fd \in Used
    BY <1>1, <1>2 DEF ReturnFromClose, CloseInv, CloseFrames, Holds
  <2> QED
    BY <1>2, <2>1, <2>2 DEF ReturnFromClose
<1>3. CASE ReturnFromCallback
  <2>1. ~(Head(stack).call = "read" /\ Head(stack).moved /\ i \in slave_w)
    BY <1>1, <1>3 DEF ReturnFromCallback, ComeBackInv, ComesBack
  <2> QED
    BY <1>3, <2>1 DEF ReturnFromCallback
<1>4. CASE WriteItem
  <2>1. ASSUME "OP_WRITE" \in fds[i].interest PROVE fds[i].data \notin WithoutWrite
    BY <1>4, <2>1, WrittenAreUsed DEF WriteItem, WritersInv, HasHandlers
  <2> QED
    BY <1>4, <2>1 DEF WriteItem
<1>5. CASE Loops /\ ~ReturnFromCallback /\ ~WriteItem
  BY <1>5
  DEF Loops, PselectReturns, PselectInterrupted, PselectBadDescriptor, PselectFails,
      handle_iteration, SkipUnused, ReadItem, IterationEnds, handle_block_notifications,
      NotifyJob, NotifyEnds, DestroyBegins, DestroyEnds, CallStartJob,
      selector_notify_block, CallClose
<1>6. CASE \/ \E fd \in Descriptors : CallOutside(fd) \/ CallUnregister(fd)
           \/ \E fd \in Descriptors, interest \in Interests :
                \/ CallSetInterest(fd, interest)
                \/ \E d \in Data : CallRegister(fd, interest, d)
           \/ DestroyItem \/ UNCHANGED vars
  BY <1>6 DEF CallOutside, CallUnregister, CallSetInterest, CallRegister, DestroyItem, vars
<1> QED
  BY <1>2, <1>3, <1>4, <1>5, <1>6 DEF Next, Program, Loops, selector_destroy

\* Everything that a program which keeps the rules can rely on.
RuledInv ==
    /\ SelectorInv /\ CursorInv /\ CloseInv
    /\ ReportedInv /\ WritersInv /\ ComeBackInv
    /\ StaysDefined

LEMMA RuledStep == ASSUME KeepsRules, RuledInv, [Next]_vars PROVE RuledInv'
<1> USE DEF RuledInv
<1>1. SelectorInv' /\ CursorInv'
  BY SelectorStep, CursorStep
<1>2. CloseInv' /\ ReportedInv'
  BY RulesKept, CloseStep, ReportedStep
<1>3. WritersInv' /\ ComeBackInv' /\ StaysDefined'
  BY WritersStep, ComeBackStep, DefinedStep
<1> QED
  BY <1>1, <1>2, <1>3

LEMMA RuledInit == Init => RuledInv
<1> SUFFICES ASSUME Init PROVE RuledInv
  OBVIOUS
<1>1. SelectorInv /\ CursorInv /\ CloseInv
  BY SelectorInit, CursorInit, CloseInit
<1>2. Used = {} /\ stack = <<>> /\ fault = "none" /\ phase = "app"
  BY DEF Init, TableInit, Used, ITEM_USED, UnusedItem
<1>3. Len(stack) = 0
  BY <1>2
<1>4. \A k \in 1..Len(stack) : FALSE
  BY <1>3
<1>5. ReportedInv /\ WritersInv /\ ComeBackInv
  BY <1>2, <1>4 DEF ReportedInv, WritersInv, ComeBackInv
<1> QED
  BY <1>1, <1>2, <1>5 DEF RuledInv, StaysDefined

\* Four rules are enough for any program, however many descriptors and callbacks it
\* has and wherever fds grows: descriptors that pselect reported are not registered
\* anew in the iteration, what is being closed is left alone, OP_WRITE is for
\* handlers that can write, and no registration that grows fds is made from inside a
\* handle_close or from a handle_read whose item may be looked at again.  Then no
\* pointer into fds is used after realloc, no freed item is cleared again, and no
\* NULL handler is called (selector.c:273, 403-408, 471-475).
THEOREM RulesKeepItDefined ==
    ASSUME Rules \ {"unregister before close"} \subseteq Discipline
    PROVE  Spec => []StaysDefined
<1>1. RuledInv /\ [Next]_vars => RuledInv'
  BY RuledStep DEF KeepsRules
<1>2. RuledInv => StaysDefined
  BY DEF RuledInv
<1> QED
  BY RuledInit, <1>1, <1>2, PTL DEF Spec
=============================================================================

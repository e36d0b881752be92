---------------------------- MODULE ClientBuffer ----------------------------
(***************************************************************************)
(* The buffer of the client (src/client/buffer.c): an array and a pointer  *)
(* to read from and one to write to, here offsets from its start.  Unlike  *)
(* the server's, it can move what is still to be read to the start.        *)
(*                                                                         *)
(* The assertions of buffer_read_adv and buffer_write_adv are guards here: *)
(* callers pass at most what buffer_read_ptr or buffer_write_ptr returned. *)
(***************************************************************************)
EXTENDS Integers, Sequences

CONSTANTS
    Limit,      \* limit - data
    Garbage     \* what the array holds before anything is written

VARIABLES data, read, write

buffer == <<data, read, write>>

buffer_can_write == Limit - write > 0
buffer_can_read == write - read > 0

\* What buffer_write_ptr and buffer_read_ptr give access to.
Room == Limit - write
Readable == [k \in 1..write - read |-> data[read + k - 1]]

buffer_init ==
    /\ data = [k \in 0..Limit - 1 |-> Garbage]
    /\ read = 0
    /\ write = 0

buffer_reset == read' = 0 /\ write' = 0 /\ UNCHANGED data

\* Deliberate defect: the failure of a recv moves the write pointer back.
WriteAdvUnchecked(n, bytes) ==
    /\ n <= Room
    /\ data' = [k \in 0..Limit - 1 |-> IF k \in write..write + n - 1
                                         THEN bytes[k - write + 1] ELSE data[k]]
    /\ write' = write + n
    /\ UNCHANGED read

\* A negative number, the failure of a recv, is ignored.
buffer_write_adv(n, bytes) ==
    /\ n <= Room
    /\ data' = [k \in 0..Limit - 1 |-> IF n > -1 /\ k \in write..write + n - 1
                                         THEN bytes[k - write + 1] ELSE data[k]]
    /\ write' = IF n > -1 THEN write + n ELSE write
    /\ UNCHANGED read

\* Deliberate defect: the write pointer moves by what has been read.
CompactByRead ==
    /\ LET n == write - read IN
        /\ data' = [k \in 0..Limit - 1 |-> IF k < n THEN data[read + k] ELSE data[k]]
        /\ write' = read
    /\ read' = 0

buffer_compact ==
    \/ /\ read = 0
       /\ UNCHANGED buffer
    \/ /\ read # 0
       /\ read = write
       /\ buffer_reset
    \/ /\ read # 0
       /\ read # write
       /\ LET n == write - read IN
            /\ data' = [k \in 0..Limit - 1 |-> IF k < n THEN data[read + k] ELSE data[k]]
            /\ write' = n
       /\ read' = 0

\* Deliberate defect: an emptied buffer is left where it is.
ReadAdvOnly(n) ==
    /\ n <= write - read
    /\ read' = IF n > -1 THEN read + n ELSE read
    /\ UNCHANGED <<data, write>>

\* A negative number, the failure of a send, is ignored; an emptied buffer is
\* compacted, which is cheap.
buffer_read_adv(n) ==
    /\ n <= write - read
    /\ IF n > -1 /\ read + n = write
         THEN buffer_reset
         ELSE read' = (IF n > -1 THEN read + n ELSE read) /\ UNCHANGED <<data, write>>

buffer_read == IF buffer_can_read THEN buffer_read_adv(1) ELSE UNCHANGED buffer

buffer_write(byte) ==
    IF buffer_can_write THEN buffer_write_adv(1, <<byte>>) ELSE UNCHANGED buffer
=============================================================================

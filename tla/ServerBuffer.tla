---------------------------- MODULE ServerBuffer ----------------------------
(***************************************************************************)
(* The buffer of the server (src/server/buffer.c): an array, a position to *)
(* read from and a position to write to.  Space before the read position   *)
(* comes back only when the buffer is reset, by buffer_reset or by a       *)
(* buffer_read_adv that empties it.                                        *)
(*                                                                         *)
(* The assertions of buffer_read_adv and buffer_write_adv are guards here: *)
(* callers pass at most what buffer_available_read or _write returned.     *)
(***************************************************************************)
EXTENDS Naturals, Sequences

CONSTANTS
    Size,       \* the capacity
    Garbage     \* what the array holds before anything is written

VARIABLES data, read, write

buffer == <<data, read, write>>

buffer_can_write == write < Size
buffer_can_read == read < write
buffer_available_read == write - read
buffer_available_write == Size - write

\* The bytes that buffer_read_ptr gives access to.
Readable == [k \in 1..buffer_available_read |-> data[read + k - 1]]

buffer_init ==
    /\ data = [k \in 0..Size - 1 |-> Garbage]
    /\ read = 0
    /\ write = 0

\* The byte is dropped without a word if there is no room.
buffer_write(byte) ==
    /\ data' = IF buffer_can_write THEN [data EXCEPT ![write] = byte] ELSE data
    /\ write' = IF buffer_can_write THEN write + 1 ELSE write
    /\ UNCHANGED read

\* The caller copies bytes to where the write position is, then buffer_write_adv.
buffer_write_adv(bytes) ==
    /\ Len(bytes) <= buffer_available_write
    /\ data' = [k \in 0..Size - 1 |-> IF k \in write..write + Len(bytes) - 1
                                        THEN bytes[k - write + 1] ELSE data[k]]
    /\ write' = write + Len(bytes)
    /\ UNCHANGED read

\* The byte is data[read]; nothing is reset, even if it was the last one.
buffer_read ==
    /\ read' = IF buffer_can_read THEN read + 1 ELSE read
    /\ UNCHANGED <<data, write>>

buffer_reset ==
    /\ read' = 0
    /\ write' = 0
    /\ UNCHANGED data

\* A buffer that this empties is reset.
buffer_read_adv(n) ==
    /\ n <= buffer_available_read
    /\ IF read + n = write THEN buffer_reset
                           ELSE read' = read + n /\ UNCHANGED <<data, write>>
=============================================================================

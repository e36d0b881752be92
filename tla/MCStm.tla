------------------------------- MODULE MCStm --------------------------------
(* Small instances of Stm for TLC: three states, as in test/stm_test.c, the *)
(* last of which has no callback for the end of a blocking job.             *)
EXTENDS Stm

CONSTANTS client

MCStateIds == [s \in 0..N - 1 |-> s]
MCReady == [s \in 0..N - 1 |-> IF s = N - 1 THEN {"read", "write"} ELSE Events]
=============================================================================

-------------------------- MODULE MCSelectorNotify --------------------------
(* A small instance of SelectorNotify for TLC: three jobs, so that one can  *)
(* be pushed while another is drained and a third waits for the mutex.      *)
EXTENDS SelectorNotify

CONSTANTS w1, w2, w3

MCWorkers == {w1, w2, w3}
=============================================================================

---------------------------- MODULE MCEchoSelect ----------------------------
(***************************************************************************)
(* Three clients for two entries: one sends two bytes, the others only     *)
(* come and go.                                                            *)
(***************************************************************************)
EXTENDS EchoSelect, TLC

CONSTANTS a, b, d

\* Bound: two bytes, so that send may take a part of them.
MCMaxBytes == (a :> 2) @@ (b :> 0) @@ (d :> 0)

\* Two clients that each send.
MCEachSends == (a :> 1) @@ (b :> 1)
=============================================================================

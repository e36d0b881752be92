----------------------------- MODULE MCSelector -----------------------------
(* Small instances of Selector for TLC.                                     *)
(*                                                                          *)
(* The passive socket has data passive and a handler with handle_read only; *)
(* a and b are clients.  Program1 does what programs of this kind do: the   *)
(* accept registers, a client's callbacks register the other end, unregister *)
(* either, change interests and start blocking jobs, and a handle_close     *)
(* unregisters a peer.  Program2 does it anywhere, a handle_close included. *)
EXTENDS Selector, TLC

CONSTANTS passive, a, b

MCData == {passive, a, b}
MCWithoutClose == {passive}
MCWithoutWrite == {passive}

Program1 == [app |-> {"register"},
             read |-> {"register", "unregister", "set_interest", "start_job"},
             write |-> {"register", "unregister"},
             block |-> {"set_interest", "unregister"},
             close |-> {"unregister"}]

Program2 == [app |-> {"register", "close_fd"},
             read |-> {"register", "unregister", "start_job"},
             write |-> {},
             block |-> {"register"},
             close |-> {"register", "unregister"}]

Symmetry == Permutations({a, b})
=============================================================================

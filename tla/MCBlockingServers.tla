-------------------------- MODULE MCBlockingServers --------------------------
(* Instances of BlockingServers: one client with two commands, the first of *)
(* which may arrive in two pieces, and one that only connects.               *)
EXTENDS BlockingServers, TLC

CONSTANTS a, b

MCScript == (a :> <<"HEL", "LO", "EOL", "GOODBYE", "EOL">>) @@ (b :> <<>>)
MCPrograms == {ForkServer, EchoServer, MainServer}
MCForkOnly == {ForkServer}
=============================================================================

------------------------------- MODULE MCRcon -------------------------------
(***************************************************************************)
(* An instance of Rcon: two clients, one thread beside the main thread.    *)
(***************************************************************************)
EXTENDS Rcon

CONSTANTS c1, c2, t1, main
=============================================================================

---------------------------- MODULE MCDemonware ----------------------------
(***************************************************************************)
(* An instance of Demonware: a stream server with two sockets and threads, *)
(* two datagram servers with one socket.                                   *)
(***************************************************************************)
EXTENDS Demonware

CONSTANTS lobby, v1, v2

MCOrder == <<lobby, v1, v2>>
=============================================================================

------------------------------ MODULE MCConnect -----------------------------
(* Two servers, and a few attempts to connect.                               *)
EXTENDS Connect

MCServer == {"red", "blue"}
=============================================================================

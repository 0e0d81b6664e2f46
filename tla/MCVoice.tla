------------------------------ MODULE MCVoice ------------------------------
(***************************************************************************)
(* An instance of Voice with few packets per byte, message and queue.      *)
(***************************************************************************)
EXTENDS Voice
=============================================================================

------------------------------ MODULE Channel -------------------------------
(***************************************************************************)
(* What a stream server of the Demonware emulation promises: packets are   *)
(* served in the order in which they were sent, each once, and the bytes   *)
(* of the answers are read in that order, each once.                       *)
(***************************************************************************)
EXTENDS Naturals, Sequences

CONSTANTS
  Packet,  \* what can be asked
  Reply    \* the bytes that answer each packet

VARIABLES
  asked,   \* packets sent and not served yet
  stream,  \* bytes answered and not read yet
  given    \* all bytes read so far

vars == <<asked, stream, given>>

Init == asked = <<>> /\ stream = <<>> /\ given = <<>>

Ask(p) == asked' = Append(asked, p) /\ UNCHANGED <<stream, given>>

Serve ==
  /\ asked # <<>>
  /\ asked' = Tail(asked)
  /\ stream' = stream \o Reply[Head(asked)]
  /\ UNCHANGED given

Take(n) ==
  /\ given' = given \o SubSeq(stream, 1, n)
  /\ stream' = SubSeq(stream, n + 1, Len(stream))
  /\ UNCHANGED asked

Next ==
  \/ \E p \in Packet : Ask(p)
  \/ Serve
  \/ \E n \in 1 .. Len(stream) : Take(n)

Spec == Init /\ [][Next]_vars
=============================================================================

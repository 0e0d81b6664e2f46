---------------------------- MODULE MCDedicated ----------------------------
(***************************************************************************)
(* An instance of Dedicated: rotations with and without gametypes, with a  *)
(* map that is missing, with an entry that cannot be parsed, without a map *)
(* and without an entry.                                                   *)
(***************************************************************************)
EXTENDS Dedicated

Map(m) == [key |-> "map", value |-> m]
Type(g) == [key |-> "gametype", value |-> g]
Bad == [key |-> "bad", value |-> "?"]

Fixed(data) == [rotation |-> data, random |-> FALSE]
Random(data) == [rotation |-> data, random |-> TRUE]

MCSettings ==
  {Fixed(<<Type("war"), Map("crash"), Type("dm"), Map("bog")>>),
   Fixed(<<Map("crash"), Type("war"), Map("gone"), Map("bog")>>),
   Fixed(<<Map("crash"), Bad, Map("bog")>>),
   Fixed(<<Type("war")>>),
   Fixed(<<>>),
   Random(<<Type("war"), Map("crash"), Map("bog")>>)}
MCCurrents == {<<>>, <<Type("dom")>>, <<Type("dom"), Map("crash")>>}
=============================================================================

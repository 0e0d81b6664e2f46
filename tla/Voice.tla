------------------------------- MODULE Voice --------------------------------
(***************************************************************************)
(* voice/hmw_voice_chat.cpp: voice packets go from a client to the server, *)
(* which queues them for those who may hear them and sends each client its *)
(* queue with the next snapshot.  component/logfile.cpp tells who killed   *)
(* whom.                                                                   *)
(***************************************************************************)
EXTENDS Integers, Sequences, SequencesExt, FiniteSets

CONSTANTS
  Slots,     \* the number of client slots, 18 in the code
  MaxQueue,  \* MAX_SERVER_QUEUED_VOICE_PACKETS
  Room,      \* how many packets the message buffer of 0x20000 bytes takes
  Byte,      \* how many values a byte has
  None,      \* no client
  MaxSaid,   \* bound: voice messages sent to the server
  MaxGame    \* bound: changes of the game's state

ASSUME SlotsAssumption == Slots \in Nat
ASSUME QueueAssumption == MaxQueue \in Nat /\ Room \in Nat /\ Byte \in Nat \ {0}
ASSUME NoneAssumption == None \notin Nat

Slot == 0 .. Slots - 1
Team == {"allies", "axis", "free"}
Session == {"playing", "dead", "intermission"}

\* A queued packet: its talker, and how the two stood to each other when it
\* was queued: their session states, whether they were in one team, and
\* whether the talker was the last to have killed the listener.
Packet == [by : Slot, from : Session, to : Session, mates : BOOLEAN,
           free : BOOLEAN, killer : BOOLEAN]

VARIABLES
  rule,      \* the dvars sv_voice, sv_voice_all, _team, _death_chat, sv_mapvote_active
  state,     \* header.state of each slot: off, loading or active
  team,      \* team of each slot's gclient_s
  sess,      \* sessionState of each slot's gclient_s
  killedBy,  \* voice_chat_globals::last_killed_by
  killed,    \* voice_chat_globals::last_player_killed
  queue,     \* voice_packets up to voice_packet_count
  wire,      \* messages under way to each client: a count and packets
  owed,      \* history: how many packets queued for each client it has not read
  cut,       \* history: some were lost, or the byte for the count overflowed
  said, games

server == <<rule, state, team, sess>>
kills == <<killedBy, killed>>
clients == <<owed, cut>>
vars == <<server, kills, queue, wire, clients, said, games>>

Init ==
  /\ rule \in [on : {TRUE}, all : BOOLEAN, team : BOOLEAN, death : BOOLEAN,
               vote : {FALSE}]
  /\ state = [c \in Slot |-> "active"]
  /\ team \in [Slot -> Team]
  /\ sess = [c \in Slot |-> "playing"]
  /\ killedBy = [c \in Slot |-> None] /\ killed = [c \in Slot |-> None]
  /\ queue = [c \in Slot |-> <<>>] /\ wire = [c \in Slot |-> <<>>]
  /\ owed = [c \in Slot |-> 0]
  /\ cut = [c \in Slot |-> FALSE]
  /\ said = 0 /\ games = 0

-----------------------------------------------------------------------------
(* Who hears whom: g_broadcast_voice.                                      *)

Others(t, present) == present \ {t}

\* With sv_voice_all the first other player is served, and the loop is left.
ServedOfAll(t, present) ==
  {c \in Others(t, present) : \A d \in Others(t, present) : c <= d}

SameSession(t, c) == sess[t] = sess[c]

\* All are in intermission, or vote on the next map.
Intermission(t, c) == (sess[c] = "intermission" \/ rule.vote) /\ SameSession(t, c)

\* Mutant: team voice does not compare the session states.
TeamVoiceAcross(t, c) == rule.team /\ team[t] = team[c]

\* Players of one team, both dead or both alive, hear each other.
TeamVoice(t, c) == rule.team /\ team[t] = team[c] /\ SameSession(t, c)

\* Free players hear each other.
Spectators(t, c) == team[t] = "free" /\ SameSession(t, c)

\* "Killer of talker": the test is the other way round.
ToKiller(t, c) == rule.death /\ killedBy[c] = t /\ sess[t] = "dead"

\* "Talker of killer": the test assigns last_player_killed, and is true.
ToVictim(t, c) == rule.death /\ sess[c] = "dead"

CopyOf(test) == IF test THEN 1 ELSE 0

\* How often a packet of t is queued for c: each rule queues it on its own.
CopiesFor(t, c, present) ==
  IF c \notin Others(t, present) THEN 0
  ELSE IF rule.all THEN CopyOf(c \in ServedOfAll(t, present))
  ELSE   CopyOf(Intermission(t, c)) + CopyOf(TeamVoice(t, c)) + CopyOf(Spectators(t, c))
       + CopyOf(ToKiller(t, c)) + CopyOf(ToVictim(t, c))

\* last_player_killed of the talker after the loop: the last other player.
KilledAfter(t, present) ==
  IF ~rule.death \/ rule.all \/ Others(t, present) = {} THEN {killed[t]}
  ELSE {c \in Others(t, present) : \A d \in Others(t, present) : d <= c}

PacketFor(t, c) ==
  [by |-> t, from |-> sess[t], to |-> sess[c], mates |-> team[t] = team[c],
   free |-> team[t] = "free", killer |-> killedBy[c] = t]

\* sv_queue_voice_packet, n times: what finds the queue full is dropped.
RoomFor(c, n) ==
  IF Len(queue[c]) + n <= MaxQueue THEN n
  ELSE IF Len(queue[c]) <= MaxQueue THEN MaxQueue - Len(queue[c]) ELSE 0

Queued(c, p, n) == queue[c] \o [i \in 1 .. RoomFor(c, n) |-> p]

\* sv_voice_packet and sv_user_voice: a message of n good packets, which ends
\* at the first one of a bad size.  Entities of free slots may have kept their
\* client, so that packets are queued for them too.
Speak(t, n) ==
  /\ said < MaxSaid
  /\ rule.on /\ state[t] = "active"
  /\ \E present \in {Slot, {c \in Slot : state[c] # "off"}} :
       /\ queue' = [c \in Slot |-> Queued(c, PacketFor(t, c), n * CopiesFor(t, c, present))]
       /\ owed' = [c \in Slot |-> owed[c] + RoomFor(c, n * CopiesFor(t, c, present))]
       /\ \E c \in KilledAfter(t, present) : killed' = [killed EXCEPT ![t] = c]
  /\ said' = said + 1
  /\ UNCHANGED <<server, killedBy, wire, cut, games>>

-----------------------------------------------------------------------------
(* Delivery.                                                               *)

SendFrom(c, least) ==
  /\ state[c] = "active"
  /\ Len(queue[c]) \in least .. Room
  /\ wire' = [wire EXCEPT ![c] =
       Append(@, [count |-> Len(queue[c]) % Byte, packets |-> queue[c]])]
  /\ queue' = [queue EXCEPT ![c] = <<>>]
  /\ cut' = [cut EXCEPT ![c] = @ \/ Len(queue[c]) >= Byte]
  /\ UNCHANGED <<server, kills, owed, said, games>>

\* Mutant: a single packet waits for a second one.
SendPairs(c) == SendFrom(c, 2)

\* sv_send_client_voice_data, when the message does not overflow.  When it
\* does the code warns, and leaves the queue as it is.
Send(c) == SendFrom(c, 1)

\* The datagram is lost, or finds a client without cgame or with cl_voice off.
Lose(c, i) ==
  /\ i \in DOMAIN wire[c]
  /\ wire' = [wire EXCEPT ![c] = RemoveAt(@, i)]
  /\ cut' = [cut EXCEPT ![c] = TRUE]
  /\ UNCHANGED <<server, kills, queue, owed, said, games>>

\* Mutant: the client leaves out the last packet.
ReadButLast(m) == SubSeq(m.packets, 1, m.count - 1)

\* The packets of a message that the client reads: as many as the byte says.
ReadOf(m) == SubSeq(m.packets, 1, m.count)

\* cl_voice_packet: each packet read is played, or its talker is muted.
Receive(c, i) ==
  /\ i \in DOMAIN wire[c]
  /\ wire' = [wire EXCEPT ![c] = RemoveAt(@, i)]
  /\ owed' = [owed EXCEPT ![c] = @ - Len(ReadOf(wire[c][i]))]
  /\ UNCHANGED <<server, kills, queue, cut, said, games>>

-----------------------------------------------------------------------------
(* The game, which the server runs.                                        *)

GameStep ==
  /\ games < MaxGame
  /\ games' = games + 1
  /\ UNCHANGED <<queue, said>>

\* scr_player_killed_stub: killed by a player, by oneself, by the world, or
\* by nothing; without damage the game is not told.
Kill(v, by) ==
  /\ GameStep
  /\ state[v] = "active" /\ sess[v] = "playing"
  /\ \/ /\ by \in Slot /\ state[by] = "active"
        /\ killedBy' = [killedBy EXCEPT ![v] = by]
        /\ killed' = [killed EXCEPT ![by] = v]
     \/ /\ by = None
        /\ killedBy' \in {killedBy, [killedBy EXCEPT ![v] = None]}
        /\ UNCHANGED killed
  /\ \E s \in {"dead", "playing"} : sess' = [sess EXCEPT ![v] = s]
  /\ UNCHANGED <<rule, state, team, wire, clients>>

Spawn(c) ==
  /\ state[c] = "active" /\ sess[c] = "dead"
  /\ sess' = [sess EXCEPT ![c] = "playing"]
  /\ UNCHANGED <<rule, state, team, kills, wire, clients, queue, said, games>>

\* The match ends, for all at once or with a vote on the next map.
EndMatch ==
  /\ GameStep
  /\ \/ sess' = [c \in Slot |-> "intermission"] /\ UNCHANGED rule
     \/ rule' = [rule EXCEPT !.vote = TRUE] /\ UNCHANGED sess
  /\ UNCHANGED <<state, team, kills, wire, clients>>

\* Voice is switched off or on; what is queued is sent all the same.
SwitchVoice ==
  /\ GameStep
  /\ rule' = [rule EXCEPT !.on = ~rule.on]
  /\ UNCHANGED <<state, team, sess, kills, wire, clients>>

\* A client drops; voice_packet_count stays as it is.
Leave(c) ==
  /\ GameStep
  /\ state[c] # "off"
  /\ state' = [state EXCEPT ![c] = "off"]
  /\ wire' = [wire EXCEPT ![c] = <<>>]
  /\ UNCHANGED <<rule, team, sess, kills, clients>>

\* Another takes the slot, and finds what was queued for the one before.
Join(c) ==
  /\ state[c] = "off"
  /\ state' = [state EXCEPT ![c] = "loading"]
  /\ owed' = [owed EXCEPT ![c] = Len(queue[c])] /\ cut' = [cut EXCEPT ![c] = FALSE]
  /\ UNCHANGED <<rule, team, sess, kills, wire, queue, said, games>>

\* The client is through with loading, and in a team.
Enter(c) ==
  /\ state[c] = "loading"
  /\ state' = [state EXCEPT ![c] = "active"]
  /\ sess' = [sess EXCEPT ![c] = "playing"]
  /\ \E side \in Team : team' = [team EXCEPT ![c] = side]
  /\ UNCHANGED <<rule, kills, queue, wire, clients, said, games>>

-----------------------------------------------------------------------------

Next ==
  \/ \E t \in Slot, n \in 1 .. 2 : Speak(t, n)
  \/ \E c \in Slot : Send(c)
  \/ \E c \in Slot : \E i \in DOMAIN wire[c] : Lose(c, i)
  \/ \E c \in Slot : \E i \in DOMAIN wire[c] : Receive(c, i)
  \/ \E v \in Slot, by \in Slot \union {None} : Kill(v, by)
  \/ \E c \in Slot : Spawn(c)
  \/ EndMatch
  \/ SwitchVoice
  \/ \E c \in Slot : Leave(c)
  \/ \E c \in Slot : Join(c)
  \/ \E c \in Slot : Enter(c)

\* The server sends every client its snapshots.
SendFairly(c) == WF_vars(Send(c))
Spec == Init /\ [][Next]_vars /\ \A c \in Slot : SendFairly(c)

-----------------------------------------------------------------------------
(* Properties.                                                             *)

\* The types of the variables (the globals of hmw_voice_chat.cpp, and the
\* game's clients), and the bound of each queue.
TypeOK ==
  /\ rule \in [on : BOOLEAN, all : BOOLEAN, team : BOOLEAN, death : BOOLEAN, vote : BOOLEAN]
  /\ state \in [Slot -> {"off", "loading", "active"}]
  /\ team \in [Slot -> Team] /\ sess \in [Slot -> Session]
  /\ killedBy \in [Slot -> Slot \union {None}]
  /\ killed \in [Slot -> Slot \union {None}]
  /\ queue \in [Slot -> Seq(Packet)] /\ \A c \in Slot : Len(queue[c]) <= MaxQueue
  /\ wire \in [Slot -> Seq([count : 0 .. Byte - 1, packets : Seq(Packet)])]
  /\ owed \in [Slot -> Int] /\ cut \in [Slot -> BOOLEAN]
  /\ said \in Nat /\ games \in Nat

\* What may be said to whom, for everything that is queued or on its way,
\* whatever has changed since: with neither sv_voice_all nor a vote, the
\* living and the dead do not hear each other, unless death chat is on, and
\* then the living hear only a dead player who was the last to kill them; and
\* members of other teams hear each other in intermission, as free players or
\* through death chat only.
UnderWay(c) ==
  Range(queue[c]) \union UNION {Range(wire[c][i].packets) : i \in DOMAIN wire[c]}
HearingIsAllowed ==
  \A c \in Slot : \A p \in UnderWay(c) :
    rule.all \/ rule.vote
    \/ /\ p.from # p.to => rule.death /\ (p.to = "dead" \/ (p.from = "dead" /\ p.killer))
       /\ ~p.mates /\ ~p.free /\ p.from # "intermission" =>
            rule.death /\ (p.to = "dead" \/ p.from = "dead")

\* As long as no datagram is lost and no message has more packets than a byte
\* counts, each client gets every packet that was queued for it, once: what it
\* has not read is queued or under way.
Places(ms) == UNION {{i} \X DOMAIN ms[i].packets : i \in DOMAIN ms}
LenOfWire(c) == Cardinality(Places(wire[c]))
NoneDropped ==
  \A c \in Slot :
    state[c] # "off" /\ ~cut[c] => owed[c] = Len(queue[c]) + LenOfWire(c)

\* What is queued for an active client is sent in the end, unless there is
\* more of it than a message takes: then it is never sent, neither to the
\* client nor to those who take the slot after it.
QueueIsSent ==
  \A c \in Slot :
    (state[c] = "active" /\ queue[c] # <<>>) ~>
      (queue[c] = <<>> \/ state[c] # "active" \/ Len(queue[c]) > Room)

\* "Forward VC to killer of talker" (hmw_voice_chat.cpp:208): with death chat
\* on, the killer of a dead player is among those who get his voice.
KillerHears ==
  \A t, k \in Slot :
    /\ rule.on /\ rule.death /\ ~rule.all
    /\ state[t] = "active" /\ sess[t] = "dead" /\ killedBy[t] = k /\ k # t
    /\ state[k] = "active"
    => CopiesFor(t, k, Slot) > 0
=============================================================================

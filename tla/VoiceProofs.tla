---------------------------- MODULE VoiceProofs -----------------------------
(***************************************************************************)
(* What is proved about Voice, for any number of slots, queue length and   *)
(* message size: the type invariant with the bound of the queues, that     *)
(* nothing is queued or sent to one who may not hear it, that nothing is   *)
(* read twice or left out, and what becomes of a queue that is too long.   *)
(***************************************************************************)
EXTENDS Voice, SequenceTheorems, FiniteSetTheorems, TLAPS

\* A remainder is less than what was divided by.
LEMMA Remainder ==
  ASSUME NEW n \in Nat, NEW b \in Nat \ {0}
  PROVE  n % b \in 0 .. b - 1
  OBVIOUS

\* What is less is its own remainder.
LEMMA SmallRemainder ==
  ASSUME NEW n \in Nat, NEW b \in Nat \ {0}, n < b
  PROVE  n % b = n
  OBVIOUS

USE SlotsAssumption, QueueAssumption, NoneAssumption

\* A message on its way to a client.
Message == [count : 0 .. Byte - 1, packets : Seq(Packet)]

\* What HearingIsAllowed says of one packet.
Allowed(p) ==
  rule.all \/ rule.vote
  \/ /\ p.from # p.to => rule.death /\ (p.to = "dead" \/ (p.from = "dead" /\ p.killer))
     /\ ~p.mates /\ ~p.free /\ p.from # "intermission" =>
          rule.death /\ (p.to = "dead" \/ p.from = "dead")

\* All packets of a sequence are allowed.
AllAllowed(ps) == \A p \in Range(ps) : Allowed(p)

\* HearingIsAllowed, by queues and messages.
QueuesAllowed == \A c \in Slot : AllAllowed(queue[c])
WiresAllowed == \A c \in Slot : \A i \in DOMAIN wire[c] : AllAllowed(wire[c][i].packets)

IInv == TypeOK /\ QueuesAllowed /\ WiresAllowed

\* The two say the same.
LEMMA HearingByParts == HearingIsAllowed <=> QueuesAllowed /\ WiresAllowed
  <1>1. HearingIsAllowed <=> \A c \in Slot : \A p \in UnderWay(c) : Allowed(p)
    BY DEF HearingIsAllowed, Allowed
  <1>2. ASSUME NEW c \in Slot
        PROVE  (\A p \in UnderWay(c) : Allowed(p))
               <=> AllAllowed(queue[c]) /\ \A i \in DOMAIN wire[c] : AllAllowed(wire[c][i].packets)
    BY DEF UnderWay, AllAllowed
  <1>3. QED
    BY <1>1, <1>2 DEF QueuesAllowed, WiresAllowed

-----------------------------------------------------------------------------
(* Sequences.                                                              *)

\* RemoveAt takes one element out.
LEMMA RemoveAtShifts ==
  ASSUME NEW S, NEW s \in Seq(S), NEW i \in 1 .. Len(s)
  PROVE  /\ RemoveAt(s, i) \in Seq(S) /\ Len(RemoveAt(s, i)) = Len(s) - 1
         /\ \A j \in 1 .. Len(s) - 1 :
              RemoveAt(s, i)[j] = IF j < i THEN s[j] ELSE s[j + 1]
  <1> DEFINE a == SubSeq(s, 1, i - 1)
             b == SubSeq(s, i + 1, Len(s))
  <1>1. Len(s) \in Nat /\ i \in Nat \ {0} /\ i <= Len(s)
    OBVIOUS
  <1>2. /\ a \in Seq(S) /\ Len(a) = i - 1
        /\ \A j \in 1 .. i - 1 : a[j] = s[j]
    BY <1>1
  <1>3. /\ b \in Seq(S) /\ Len(b) = Len(s) - i
        /\ \A j \in 1 .. Len(s) - i : b[j] = s[j + i]
    BY <1>1
  <1>4. RemoveAt(s, i) = a \o b
    BY DEF RemoveAt
  <1> HIDE DEF a, b
  <1>5. /\ a \o b \in Seq(S) /\ Len(a \o b) = Len(a) + Len(b)
        /\ \A j \in 1 .. Len(a) + Len(b) :
             (a \o b)[j] = IF j <= Len(a) THEN a[j] ELSE b[j - Len(a)]
    <2>1. a \in Seq(S) /\ b \in Seq(S)
      BY <1>2, <1>3
    <2>2. QED
      BY <2>1, ConcatProperties
  <1>6. Len(a) + Len(b) = Len(s) - 1
    BY <1>1, <1>2, <1>3
  <1>7. ASSUME NEW j \in 1 .. Len(s) - 1
        PROVE  (a \o b)[j] = IF j < i THEN s[j] ELSE s[j + 1]
    <2>1. CASE j < i
      <3>1. j \in 1 .. Len(a) + Len(b) /\ j <= Len(a) /\ j \in 1 .. i - 1
        BY <1>1, <1>2, <1>6, <2>1
      <3>2. QED
        BY <1>2, <1>5, <2>1, <3>1
    <2>2. CASE ~(j < i)
      <3>1. /\ j \in 1 .. Len(a) + Len(b) /\ ~(j <= Len(a)) /\ j - Len(a) \in 1 .. Len(s) - i
            /\ (j - Len(a)) + i = j + 1
        BY <1>1, <1>2, <1>6, <2>2
      <3>2. (a \o b)[j] = b[j - Len(a)] /\ b[j - Len(a)] = s[(j - Len(a)) + i]
        BY <1>3, <1>5, <3>1
      <3>3. QED
        BY <2>2, <3>1, <3>2
    <2>3. QED
      BY <2>1, <2>2
  <1>8. QED
    BY <1>4, <1>5, <1>6, <1>7

\* RemoveAt keeps the type, and each element was one before.
LEMMA RemoveAtIs ==
  ASSUME NEW S, NEW s \in Seq(S), NEW i \in DOMAIN s
  PROVE  /\ RemoveAt(s, i) \in Seq(S)
         /\ \A j \in DOMAIN RemoveAt(s, i) : \E k \in DOMAIN s : RemoveAt(s, i)[j] = s[k]
  <1>1. DOMAIN s = 1 .. Len(s) /\ Len(s) \in Nat /\ i \in 1 .. Len(s)
    OBVIOUS
  <1>2. /\ RemoveAt(s, i) \in Seq(S) /\ Len(RemoveAt(s, i)) = Len(s) - 1
        /\ \A j \in 1 .. Len(s) - 1 : RemoveAt(s, i)[j] = IF j < i THEN s[j] ELSE s[j + 1]
    BY <1>1, RemoveAtShifts
  <1> DEFINE r == RemoveAt(s, i)
  <1> HIDE DEF r
  <1>3. DOMAIN r = 1 .. Len(s) - 1
    BY <1>2 DEF r
  <1>4. ASSUME NEW j \in DOMAIN r PROVE \E k \in DOMAIN s : r[j] = s[k]
    <2>1. j \in DOMAIN s /\ j + 1 \in DOMAIN s
      BY <1>1, <1>3
    <2>2. r[j] = IF j < i THEN s[j] ELSE s[j + 1]
      BY <1>2, <1>3 DEF r
    <2>3. QED
      BY <2>1, <2>2
  <1>5. QED
    BY <1>2, <1>4 DEF r

\* Append keeps the type, and each element is the new one or was one before.
LEMMA AppendIs ==
  ASSUME NEW S, NEW s \in Seq(S), NEW e \in S
  PROVE  /\ Append(s, e) \in Seq(S)
         /\ \A j \in DOMAIN Append(s, e) :
              Append(s, e)[j] = e \/ (j \in DOMAIN s /\ Append(s, e)[j] = s[j])
  <1>1. /\ Append(s, e) \in Seq(S) /\ DOMAIN s = 1 .. Len(s) /\ Len(s) \in Nat
        /\ DOMAIN Append(s, e) = 1 .. Len(s) + 1
        /\ Append(s, e)[Len(s) + 1] = e
        /\ \A i \in 1 .. Len(s) : Append(s, e)[i] = s[i]
    OBVIOUS
  <1>2. ASSUME NEW j \in DOMAIN Append(s, e)
        PROVE  Append(s, e)[j] = e \/ (j \in DOMAIN s /\ Append(s, e)[j] = s[j])
    <2>1. j \in 1 .. Len(s) + 1
      BY <1>1, <1>2
    <2>2. CASE j = Len(s) + 1
      BY <1>1, <2>2
    <2>3. CASE j # Len(s) + 1
      <3>1. j \in 1 .. Len(s) /\ Len(s) \in Nat
        BY <1>1, <2>1, <2>3
      <3>2. Append(s, e)[j] = s[j]
        BY <1>1, <3>1
      <3>3. j \in DOMAIN s
        BY <1>1, <3>1
      <3>4. QED
        BY <3>2, <3>3
    <2>4. QED
      BY <2>2, <2>3
  <1>3. QED
    BY <1>1, <1>2

\* So with n copies of a packet at the end.
LEMMA CopiesAre ==
  ASSUME NEW s \in Seq(Packet), NEW p \in Packet, NEW n \in Nat,
         NEW t, t = [i \in 1 .. n |-> p]
  PROVE  /\ s \o t \in Seq(Packet) /\ Len(s \o t) = Len(s) + n
         /\ \A x \in Range(s \o t) : x \in Range(s) \/ (x = p /\ n > 0)
  <1>1. t \in Seq(Packet) /\ Len(t) = n /\ \A i \in 1 .. n : t[i] = p
    OBVIOUS
  <1>0. t \in Seq(Packet) /\ Len(t) = n
    BY <1>1
  <1>2. /\ s \o t \in Seq(Packet) /\ Len(s \o t) = Len(s) + n
        /\ DOMAIN (s \o t) = 1 .. Len(s) + n /\ DOMAIN s = 1 .. Len(s) /\ Len(s) \in Nat
        /\ \A i \in 1 .. Len(s) + n :
             (s \o t)[i] = IF i <= Len(s) THEN s[i] ELSE t[i - Len(s)]
    BY <1>0, ConcatProperties
  <1>3. ASSUME NEW x \in Range(s \o t) PROVE x \in Range(s) \/ (x = p /\ n > 0)
    <2>1. PICK i \in 1 .. Len(s) + n : x = (s \o t)[i]
      BY <1>2, <1>3 DEF Range
    <2>2. CASE i <= Len(s)
      <3>1. i \in DOMAIN s /\ x = s[i]
        BY <1>2, <2>1, <2>2
      <3>2. QED
        BY <3>1 DEF Range
    <2>3. CASE ~(i <= Len(s))
      BY <1>1, <1>2, <2>1, <2>3
    <2>4. QED
      BY <2>2, <2>3
  <1>4. QED
    BY <1>2, <1>3

-----------------------------------------------------------------------------
(* Speaking.                                                               *)

\* A packet of t is queued for c only where one of the rules lets c hear it.
LEMMA CopiesAllowed ==
  ASSUME TypeOK, NEW t \in Slot, NEW c \in Slot, NEW present, CopiesFor(t, c, present) # 0
  PROVE  Allowed(PacketFor(t, c))
  <1> DEFINE p == PacketFor(t, c)
  <1>1. /\ p.from = sess[t] /\ p.to = sess[c] /\ p.mates = (team[t] = team[c])
        /\ p.free = (team[t] = "free") /\ p.killer = (killedBy[c] = t)
    BY DEF PacketFor
  <1> HIDE DEF p
  <1>2. \/ rule.all
        \/ Intermission(t, c) \/ TeamVoice(t, c) \/ Spectators(t, c)
        \/ ToKiller(t, c) \/ ToVictim(t, c)
    BY DEF CopiesFor, CopyOf
  <1>3. ASSUME rule.all PROVE Allowed(p)
    BY <1>3 DEF Allowed
  <1>4. ASSUME Intermission(t, c) PROVE Allowed(p)
    BY <1>1, <1>4 DEF Allowed, Intermission, SameSession
  <1>5. ASSUME TeamVoice(t, c) PROVE Allowed(p)
    BY <1>1, <1>5 DEF Allowed, TeamVoice, SameSession
  <1>6. ASSUME Spectators(t, c) PROVE Allowed(p)
    BY <1>1, <1>6 DEF Allowed, Spectators, SameSession
  <1>7. ASSUME ToKiller(t, c) PROVE Allowed(p)
    BY <1>1, <1>7 DEF Allowed, ToKiller
  <1>8. ASSUME ToVictim(t, c) PROVE Allowed(p)
    BY <1>1, <1>8 DEF Allowed, ToVictim
  <1>9. Allowed(p)
    BY <1>2, <1>3, <1>4, <1>5, <1>6, <1>7, <1>8
  <1>10. QED
    BY <1>9 DEF p

\* The number of copies is a number of those, and none where it is zero.
LEMMA CopiesType ==
  ASSUME NEW t, NEW c, NEW present, NEW n \in 1 .. 2
  PROVE  /\ n * CopiesFor(t, c, present) \in Nat
         /\ CopiesFor(t, c, present) = 0 => n * CopiesFor(t, c, present) = 0
  <1>1. CopiesFor(t, c, present) \in Nat
    BY DEF CopiesFor, CopyOf
  <1>2. n = 1 \/ n = 2
    OBVIOUS
  <1>3. QED
    BY <1>1, <1>2

\* There is no more room than is asked for, nor more than the queue has.
LEMMA RoomType ==
  ASSUME TypeOK, NEW c \in Slot, NEW n \in Nat
  PROVE  RoomFor(c, n) \in Nat /\ RoomFor(c, n) <= n /\ Len(queue[c]) + RoomFor(c, n) <= MaxQueue
  <1>1. Len(queue[c]) \in Nat /\ Len(queue[c]) <= MaxQueue
    <2>1. queue[c] \in Seq(Packet)
      BY DEF TypeOK
    <2>2. Len(queue[c]) \in Nat
      BY <2>1
    <2>3. QED
      BY <2>2 DEF TypeOK
  <1>2. MaxQueue \in Nat
    OBVIOUS
  <1>3. CASE Len(queue[c]) + n <= MaxQueue
    BY <1>1, <1>2, <1>3 DEF RoomFor
  <1>4. CASE ~(Len(queue[c]) + n <= MaxQueue)
    BY <1>1, <1>2, <1>4 DEF RoomFor
  <1>5. QED
    BY <1>3, <1>4

\* A packet is typed.
LEMMA PacketType ==
  ASSUME TypeOK, NEW t \in Slot, NEW c \in Slot
  PROVE  PacketFor(t, c) \in Packet
  BY DEF TypeOK, PacketFor, Packet

\* A message to the server keeps the invariant.
LEMMA SpeakKeeps ==
  ASSUME IInv, NEW t \in Slot, NEW n \in 1 .. 2, Speak(t, n)
  PROVE  IInv'
  <1>t. TypeOK /\ QueuesAllowed /\ WiresAllowed
    BY DEF IInv
  <1>1. PICK present \in {Slot, {c \in Slot : state[c] # "off"}} :
          /\ queue' = [c \in Slot |-> Queued(c, PacketFor(t, c), n * CopiesFor(t, c, present))]
          /\ owed' = [c \in Slot |-> owed[c] + RoomFor(c, n * CopiesFor(t, c, present))]
          /\ \E c \in KilledAfter(t, present) : killed' = [killed EXCEPT ![t] = c]
    BY DEF Speak
  <1>u. /\ rule' = rule /\ state' = state /\ team' = team /\ sess' = sess
        /\ killedBy' = killedBy /\ wire' = wire /\ cut' = cut /\ games' = games
        /\ said' = said + 1
    BY DEF Speak, server
  <1>2. ASSUME NEW c \in Slot
        PROVE  /\ queue'[c] \in Seq(Packet) /\ Len(queue'[c]) <= MaxQueue
               /\ \A x \in Range(queue'[c]) : Allowed(x)
               /\ owed'[c] \in Int
    <2> DEFINE m == n * CopiesFor(t, c, present)
               k == RoomFor(c, m)
               p == PacketFor(t, c)
               added == [i \in 1 .. k |-> p]
    <2>1. m \in Nat /\ (CopiesFor(t, c, present) = 0 => m = 0)
      BY CopiesType
    <2> HIDE DEF m
    <2>2. k \in Nat /\ k <= m /\ Len(queue[c]) + k <= MaxQueue
      BY <1>t, <2>1, RoomType
    <2>3. p \in Packet
      BY <1>t, PacketType
    <2>4. k > 0 => Allowed(p)
      BY <1>t, <2>1, <2>2, CopiesAllowed
    <2>5. queue'[c] = queue[c] \o added /\ owed'[c] = owed[c] + k
      BY <1>1 DEF Queued, m
    <2> HIDE DEF k, p
    <2>6. queue[c] \in Seq(Packet) /\ owed[c] \in Int
      BY <1>t DEF TypeOK
    <2>7. /\ queue[c] \o added \in Seq(Packet) /\ Len(queue[c] \o added) = Len(queue[c]) + k
          /\ \A x \in Range(queue[c] \o added) : x \in Range(queue[c]) \/ (x = p /\ k > 0)
      <3>1. added = [i \in 1 .. k |-> p] /\ queue[c] \in Seq(Packet) /\ k \in Nat
        BY <2>2, <2>6
      <3> HIDE DEF added
      <3>2. QED
        BY <2>3, <3>1, CopiesAre
    <2> HIDE DEF added
    <2>8. \A x \in Range(queue[c]) : Allowed(x)
      BY <1>t DEF QueuesAllowed, AllAllowed
    <2>9. QED
      BY <2>2, <2>4, <2>5, <2>6, <2>7, <2>8
  <1>3. TypeOK'
    <2>1. killed' \in [Slot -> Slot \union {None}]
      <3>1. killed \in [Slot -> Slot \union {None}]
        BY <1>t DEF TypeOK
      <3>2. ASSUME NEW c \in KilledAfter(t, present) PROVE c \in Slot \union {None}
        BY <3>1 DEF KilledAfter, Others
      <3>3. QED
        BY <1>1, <3>1, <3>2
    <2>2. queue' \in [Slot -> Seq(Packet)] /\ \A c \in Slot : Len(queue'[c]) <= MaxQueue
      BY <1>1, <1>2
    <2>3. owed' \in [Slot -> Int]
      BY <1>1, <1>2
    <2>4. said' \in Nat
      BY <1>t, <1>u DEF TypeOK
    <2>5. /\ rule' \in [on : BOOLEAN, all : BOOLEAN, team : BOOLEAN, death : BOOLEAN,
                       vote : BOOLEAN]
          /\ state' \in [Slot -> {"off", "loading", "active"}]
          /\ team' \in [Slot -> Team] /\ sess' \in [Slot -> Session]
          /\ killedBy' \in [Slot -> Slot \union {None}]
          /\ wire' \in [Slot -> Seq([count : 0 .. Byte - 1, packets : Seq(Packet)])]
          /\ cut' \in [Slot -> BOOLEAN] /\ games' \in Nat
      BY <1>t, <1>u DEF TypeOK
    <2>6. QED
      BY <2>1, <2>2, <2>3, <2>4, <2>5 DEF TypeOK
  <1>4. \A x : Allowed(x)' <=> Allowed(x)
    BY <1>u DEF Allowed
  <1>5. QueuesAllowed'
    BY <1>2, <1>4 DEF QueuesAllowed, AllAllowed
  <1>6. WiresAllowed'
    BY <1>t, <1>u, <1>4 DEF WiresAllowed, AllAllowed
  <1>7. QED
    BY <1>3, <1>5, <1>6 DEF IInv

-----------------------------------------------------------------------------
(* Delivery.                                                               *)

\* A queue is sent.
LEMMA SendKeeps ==
  ASSUME IInv, NEW c \in Slot, Send(c)
  PROVE  IInv'
  <1> DEFINE m == [count |-> Len(queue[c]) % Byte, packets |-> queue[c]]
  <1>t. TypeOK /\ QueuesAllowed /\ WiresAllowed
    BY DEF IInv
  <1>1. /\ wire' = [wire EXCEPT ![c] = Append(@, m)]
        /\ queue' = [queue EXCEPT ![c] = <<>>]
        /\ cut' = [cut EXCEPT ![c] = @ \/ Len(queue[c]) >= Byte]
        /\ owed' = owed
        /\ rule' = rule /\ state' = state /\ team' = team /\ sess' = sess
        /\ killedBy' = killedBy /\ killed' = killed /\ said' = said /\ games' = games
    BY DEF Send, SendFrom, server, kills
  <1>2. queue[c] \in Seq(Packet) /\ wire \in [Slot -> Seq(Message)]
    BY <1>t DEF TypeOK, Message
  <1>3. m \in Message /\ m.packets = queue[c]
    <2>1. Len(queue[c]) \in Nat
      BY <1>2
    <2>2. Len(queue[c]) % Byte \in 0 .. Byte - 1
      BY <2>1, Remainder
    <2>3. QED
      BY <1>2, <2>2 DEF Message
  <1> HIDE DEF m
  <1>4. /\ Append(wire[c], m) \in Seq(Message)
        /\ \A j \in DOMAIN Append(wire[c], m) :
             Append(wire[c], m)[j] = m
             \/ (j \in DOMAIN wire[c] /\ Append(wire[c], m)[j] = wire[c][j])
    BY <1>2, <1>3, AppendIs
  <1>5. TypeOK'
    <2>1. wire' \in [Slot -> Seq([count : 0 .. Byte - 1, packets : Seq(Packet)])]
      BY <1>1, <1>2, <1>4 DEF Message
    <2>2. queue' \in [Slot -> Seq(Packet)] /\ \A d \in Slot : Len(queue'[d]) <= MaxQueue
      <3>1. queue \in [Slot -> Seq(Packet)] /\ \A d \in Slot : Len(queue[d]) <= MaxQueue
        BY <1>t DEF TypeOK
      <3>2. <<>> \in Seq(Packet) /\ Len(<<>>) = 0 /\ MaxQueue \in Nat
        OBVIOUS
      <3>3. QED
        BY <1>1, <3>1, <3>2
    <2>3. cut' \in [Slot -> BOOLEAN]
      <3>1. cut \in [Slot -> BOOLEAN] /\ cut[c] \in BOOLEAN
        BY <1>t DEF TypeOK
      <3>2. (cut[c] \/ Len(queue[c]) >= Byte) \in BOOLEAN
        BY <3>1
      <3>3. cut' = [cut EXCEPT ![c] = cut[c] \/ Len(queue[c]) >= Byte]
        BY <1>1
      <3>4. QED
        BY <3>1, <3>2, <3>3
    <2>4. /\ rule' \in [on : BOOLEAN, all : BOOLEAN, team : BOOLEAN, death : BOOLEAN,
                       vote : BOOLEAN]
          /\ state' \in [Slot -> {"off", "loading", "active"}]
          /\ team' \in [Slot -> Team] /\ sess' \in [Slot -> Session]
          /\ killedBy' \in [Slot -> Slot \union {None}]
          /\ killed' \in [Slot -> Slot \union {None}]
          /\ owed' \in [Slot -> Int] /\ said' \in Nat /\ games' \in Nat
      BY <1>t, <1>1 DEF TypeOK
    <2>5. QED
      BY <2>1, <2>2, <2>3, <2>4 DEF TypeOK
  <1>6. \A x : Allowed(x)' <=> Allowed(x)
    BY <1>1 DEF Allowed
  <1>7. QueuesAllowed'
    <2>1. \A d \in Slot : queue'[d] = IF d = c THEN <<>> ELSE queue[d]
      BY <1>t, <1>1 DEF TypeOK
    <2>2. Range(<<>>) = {}
      BY DEF Range
    <2>3. QED
      BY <1>t, <1>6, <2>1, <2>2 DEF QueuesAllowed, AllAllowed
  <1>8. WiresAllowed'
    <2> SUFFICES ASSUME NEW d \in Slot, NEW i \in DOMAIN wire'[d]
                 PROVE  \A x \in Range(wire'[d][i].packets) : Allowed(x)
      BY <1>6 DEF WiresAllowed, AllAllowed
    <2>1. CASE d = c
      <3>1. wire'[d] = Append(wire[c], m)
        BY <1>1, <1>2, <2>1
      <3>2. CASE wire'[d][i] = m
        BY <1>t, <1>3, <3>2 DEF QueuesAllowed, AllAllowed
      <3>3. CASE i \in DOMAIN wire[c] /\ wire'[d][i] = wire[c][i]
        BY <1>t, <3>3 DEF WiresAllowed, AllAllowed
      <3>4. QED
        BY <1>4, <3>1, <3>2, <3>3
    <2>2. CASE d # c
      <3>1. wire'[d] = wire[d]
        BY <1>1, <1>2, <2>2
      <3>2. QED
        BY <1>t, <3>1 DEF WiresAllowed, AllAllowed
    <2>3. QED
      BY <2>1, <2>2
  <1>9. QED
    BY <1>5, <1>7, <1>8 DEF IInv

\* A message is taken off the wire, lost or read.
LEMMA TakeKeeps ==
  ASSUME IInv, NEW c \in Slot, NEW i \in DOMAIN wire[c],
         wire' = [wire EXCEPT ![c] = RemoveAt(@, i)],
         UNCHANGED <<server, kills, queue, said, games>>,
         owed' \in [Slot -> Int], cut' \in [Slot -> BOOLEAN]
  PROVE  IInv'
  <1>t. TypeOK /\ QueuesAllowed /\ WiresAllowed
    BY DEF IInv
  <1>1. wire \in [Slot -> Seq(Message)] /\ wire[c] \in Seq(Message)
    BY <1>t DEF TypeOK, Message
  <1>2. /\ RemoveAt(wire[c], i) \in Seq(Message)
        /\ \A j \in DOMAIN RemoveAt(wire[c], i) :
             \E k \in DOMAIN wire[c] : RemoveAt(wire[c], i)[j] = wire[c][k]
    BY <1>1, RemoveAtIs
  <1>3. /\ queue' = queue
        /\ rule' = rule /\ state' = state /\ team' = team /\ sess' = sess
        /\ killedBy' = killedBy /\ killed' = killed /\ said' = said /\ games' = games
    BY DEF server, kills
  <1>4. TypeOK'
    <2>1. wire' \in [Slot -> Seq([count : 0 .. Byte - 1, packets : Seq(Packet)])]
      BY <1>1, <1>2 DEF Message
    <2>2. /\ rule' \in [on : BOOLEAN, all : BOOLEAN, team : BOOLEAN, death : BOOLEAN,
                       vote : BOOLEAN]
          /\ state' \in [Slot -> {"off", "loading", "active"}]
          /\ team' \in [Slot -> Team] /\ sess' \in [Slot -> Session]
          /\ killedBy' \in [Slot -> Slot \union {None}]
          /\ killed' \in [Slot -> Slot \union {None}]
          /\ queue' \in [Slot -> Seq(Packet)] /\ \A d \in Slot : Len(queue'[d]) <= MaxQueue
          /\ said' \in Nat /\ games' \in Nat
      BY <1>t, <1>3 DEF TypeOK
    <2>3. QED
      BY <2>1, <2>2 DEF TypeOK
  <1>5. \A x : Allowed(x)' <=> Allowed(x)
    BY <1>3 DEF Allowed
  <1>6. QueuesAllowed'
    BY <1>t, <1>3, <1>5 DEF QueuesAllowed, AllAllowed
  <1>7. WiresAllowed'
    <2> SUFFICES ASSUME NEW d \in Slot, NEW j \in DOMAIN wire'[d]
                 PROVE  \A x \in Range(wire'[d][j].packets) : Allowed(x)
      BY <1>5 DEF WiresAllowed, AllAllowed
    <2>1. \E k \in DOMAIN wire[d] : wire'[d][j] = wire[d][k]
      <3>1. wire'[d] = IF d = c THEN RemoveAt(wire[c], i) ELSE wire[d]
        BY <1>1
      <3>2. QED
        BY <1>2, <3>1
    <2>2. QED
      BY <1>t, <2>1 DEF WiresAllowed, AllAllowed
  <1>8. QED
    BY <1>4, <1>6, <1>7 DEF IInv

-----------------------------------------------------------------------------
(* The game.                                                               *)

\* A step of the game leaves queues and messages as they are, or takes the
\* messages of a client that has gone.
LEMMA GameKeeps ==
  ASSUME IInv, TypeOK', queue' = queue,
         \A c \in Slot : wire'[c] = wire[c] \/ wire'[c] = <<>>,
         rule'.all = rule.all, rule'.death = rule.death, rule.vote => rule'.vote
  PROVE  IInv'
  <1>1. QueuesAllowed /\ WiresAllowed
    BY DEF IInv
  <1>2. \A x : Allowed(x) => Allowed(x)'
    BY DEF Allowed
  <1>3. QueuesAllowed'
    BY <1>1, <1>2 DEF QueuesAllowed, AllAllowed
  <1>4. DOMAIN <<>> = {}
    OBVIOUS
  <1>5. WiresAllowed'
    BY <1>1, <1>2, <1>4 DEF WiresAllowed, AllAllowed
  <1>6. QED
    BY <1>3, <1>5 DEF IInv

\* What kills, joins and the like leave alone keeps its type.
LEMMA GameTypes ==
  ASSUME TypeOK, UNCHANGED <<queue, said>>, games' \in Nat,
         rule' \in [on : BOOLEAN, all : BOOLEAN, team : BOOLEAN, death : BOOLEAN, vote : BOOLEAN],
         state' \in [Slot -> {"off", "loading", "active"}],
         team' \in [Slot -> Team], sess' \in [Slot -> Session],
         killedBy' \in [Slot -> Slot \union {None}], killed' \in [Slot -> Slot \union {None}],
         wire' \in [Slot -> Seq(Message)],
         owed' \in [Slot -> Int], cut' \in [Slot -> BOOLEAN]
  PROVE  TypeOK'
  <1>1. queue' \in [Slot -> Seq(Packet)] /\ (\A c \in Slot : Len(queue'[c]) <= MaxQueue)
        /\ said' \in Nat
    BY DEF TypeOK
  <1>2. QED
    BY <1>1 DEF TypeOK, Message

\* The type of the messages, by its name.
LEMMA WireType == TypeOK => wire \in [Slot -> Seq(Message)]
  BY DEF TypeOK, Message

\* A kill, with what it does to the history of kills.
LEMMA KillKeeps ==
  ASSUME IInv, NEW v \in Slot, NEW by \in Slot \union {None}, Kill(v, by)
  PROVE  IInv'
  <1>t. TypeOK
    BY DEF IInv
  <1>1. /\ games' = games + 1 /\ queue' = queue /\ said' = said
        /\ rule' = rule /\ state' = state /\ team' = team /\ wire' = wire
        /\ owed' = owed /\ cut' = cut
    BY DEF Kill, GameStep, clients
  <1>2. killedBy' \in [Slot -> Slot \union {None}] /\ killed' \in [Slot -> Slot \union {None}]
    <2>1. killedBy \in [Slot -> Slot \union {None}] /\ killed \in [Slot -> Slot \union {None}]
      BY <1>t DEF TypeOK
    <2>2. CASE by \in Slot /\ killedBy' = [killedBy EXCEPT ![v] = by]
                          /\ killed' = [killed EXCEPT ![by] = v]
      BY <2>1, <2>2
    <2>3. CASE killedBy' \in {killedBy, [killedBy EXCEPT ![v] = None]} /\ killed' = killed
      BY <2>1, <2>3
    <2>4. QED
      BY <2>2, <2>3 DEF Kill
  <1>3. sess' \in [Slot -> Session]
    BY <1>t DEF Kill, TypeOK, Session
  <1>4. TypeOK'
    <2>1. /\ games' \in Nat
          /\ rule' \in [on : BOOLEAN, all : BOOLEAN, team : BOOLEAN, death : BOOLEAN, vote : BOOLEAN]
          /\ state' \in [Slot -> {"off", "loading", "active"}] /\ team' \in [Slot -> Team]
          /\ owed' \in [Slot -> Int] /\ cut' \in [Slot -> BOOLEAN]
      BY <1>t, <1>1 DEF TypeOK
    <2>2. wire' \in [Slot -> Seq(Message)]
      BY <1>t, <1>1, WireType
    <2>3. QED
      BY <1>t, <1>1, <1>2, <1>3, <2>1, <2>2, GameTypes
  <1>5. QED
    BY <1>1, <1>4, GameKeeps

\* The match ends, or voice is switched.
LEMMA RulesKeep ==
  ASSUME IInv, EndMatch \/ SwitchVoice
  PROVE  IInv'
  <1>t. TypeOK
    BY DEF IInv
  <1>1. /\ games' = games + 1 /\ queue' = queue /\ said' = said
        /\ state' = state /\ team' = team /\ wire' = wire
        /\ killedBy' = killedBy /\ killed' = killed /\ owed' = owed /\ cut' = cut
    BY DEF EndMatch, SwitchVoice, GameStep, clients, kills
  <1>2. sess' \in [Slot -> Session]
    BY <1>t DEF EndMatch, SwitchVoice, TypeOK, Session
  <1>3. /\ rule' \in [on : BOOLEAN, all : BOOLEAN, team : BOOLEAN, death : BOOLEAN, vote : BOOLEAN]
        /\ rule'.all = rule.all /\ rule'.death = rule.death /\ (rule.vote => rule'.vote)
    <2>1. rule' = rule \/ rule' = [rule EXCEPT !.vote = TRUE] \/ rule' = [rule EXCEPT !.on = ~rule.on]
      BY DEF EndMatch, SwitchVoice
    <2>2. rule \in [on : BOOLEAN, all : BOOLEAN, team : BOOLEAN, death : BOOLEAN, vote : BOOLEAN]
      BY <1>t DEF TypeOK
    <2>3. QED
      BY <2>1, <2>2
  <1>4. TypeOK'
    <2>1. /\ games' \in Nat
          /\ state' \in [Slot -> {"off", "loading", "active"}] /\ team' \in [Slot -> Team]
          /\ killedBy' \in [Slot -> Slot \union {None}] /\ killed' \in [Slot -> Slot \union {None}]
          /\ owed' \in [Slot -> Int] /\ cut' \in [Slot -> BOOLEAN]
      BY <1>t, <1>1 DEF TypeOK
    <2>2. wire' \in [Slot -> Seq(Message)]
      BY <1>t, <1>1, WireType
    <2>3. QED
      BY <1>t, <1>1, <1>2, <1>3, <2>1, <2>2, GameTypes
  <1>5. QED
    BY <1>1, <1>3, <1>4, GameKeeps

\* Clients spawn, leave, join and enter.
LEMMA ClientKeeps ==
  ASSUME IInv, NEW c \in Slot, Spawn(c) \/ Leave(c) \/ Join(c) \/ Enter(c)
  PROVE  IInv'
  <1>t. TypeOK
    BY DEF IInv
  <1>1. /\ (games' = games \/ games' = games + 1) /\ queue' = queue /\ said' = said
        /\ rule' = rule /\ killedBy' = killedBy /\ killed' = killed
    BY DEF Spawn, Leave, Join, Enter, GameStep, kills
  <1>2. sess' \in [Slot -> Session]
    BY <1>t DEF Spawn, Leave, Join, Enter, TypeOK, Session
  <1>3. state' \in [Slot -> {"off", "loading", "active"}]
    <2>1. state \in [Slot -> {"off", "loading", "active"}]
      BY <1>t DEF TypeOK
    <2>2. state' = state \/ \E s \in {"off", "loading", "active"} : state' = [state EXCEPT ![c] = s]
      BY DEF Spawn, Leave, Join, Enter
    <2>3. QED
      BY <2>1, <2>2
  <1>4. team' \in [Slot -> Team]
    BY <1>t DEF Spawn, Leave, Join, Enter, TypeOK
  <1>5. wire' = wire \/ wire' = [wire EXCEPT ![c] = <<>>]
    BY DEF Spawn, Leave, Join, Enter
  <1>s. <<>> \in Seq(Message)
    OBVIOUS
  <1>6. wire \in [Slot -> Seq(Message)] /\ <<>> \in Seq(Message)
    BY <1>t, <1>s, WireType
  <1>7. wire' \in [Slot -> Seq(Message)] /\ \A d \in Slot : wire'[d] = wire[d] \/ wire'[d] = <<>>
    BY <1>5, <1>6
  <1>8. owed' \in [Slot -> Int] /\ cut' \in [Slot -> BOOLEAN]
    <2>1. queue[c] \in Seq(Packet)
      BY <1>t DEF TypeOK
    <2>2. Len(queue[c]) \in Int
      BY <2>1
    <2>3. owed \in [Slot -> Int] /\ cut \in [Slot -> BOOLEAN]
      BY <1>t DEF TypeOK
    <2>4. \/ owed' = owed /\ cut' = cut
          \/ owed' = [owed EXCEPT ![c] = Len(queue[c])] /\ cut' = [cut EXCEPT ![c] = FALSE]
      BY DEF Spawn, Leave, Join, Enter, clients
    <2>5. QED
      BY <2>2, <2>3, <2>4
  <1>9. TypeOK'
    <2>1. /\ games' \in Nat
          /\ rule' \in [on : BOOLEAN, all : BOOLEAN, team : BOOLEAN, death : BOOLEAN, vote : BOOLEAN]
          /\ killedBy' \in [Slot -> Slot \union {None}] /\ killed' \in [Slot -> Slot \union {None}]
      BY <1>t, <1>1 DEF TypeOK
    <2>2. QED
      BY <1>t, <1>1, <1>2, <1>3, <1>4, <1>7, <1>8, <2>1, GameTypes
  <1>10. QED
    BY <1>1, <1>7, <1>9, GameKeeps

-----------------------------------------------------------------------------
(* The theorems.                                                           *)

\* Nothing is queued at first.
LEMMA InitIInv == Init => IInv
  <1> SUFFICES ASSUME Init PROVE IInv
    OBVIOUS
  <1>1. /\ rule \in [on : BOOLEAN, all : BOOLEAN, team : BOOLEAN, death : BOOLEAN, vote : BOOLEAN]
        /\ state \in [Slot -> {"off", "loading", "active"}]
        /\ team \in [Slot -> Team] /\ sess \in [Slot -> Session]
    BY DEF Init, Session
  <1>2. /\ killedBy \in [Slot -> Slot \union {None}] /\ killed \in [Slot -> Slot \union {None}]
        /\ owed \in [Slot -> Int] /\ cut \in [Slot -> BOOLEAN] /\ said \in Nat /\ games \in Nat
    BY DEF Init
  <1>3. queue = [c \in Slot |-> <<>>] /\ wire = [c \in Slot |-> <<>>]
    BY DEF Init
  <1>4. <<>> \in Seq(Packet) /\ <<>> \in Seq(Message) /\ Len(<<>>) = 0
    OBVIOUS
  <1>5. queue \in [Slot -> Seq(Packet)] /\ wire \in [Slot -> Seq(Message)]
    BY <1>3, <1>4
  <1>6. \A c \in Slot : Len(queue[c]) <= MaxQueue
    BY <1>3, <1>4
  <1>7. TypeOK
    BY <1>1, <1>2, <1>5, <1>6 DEF TypeOK, Message
  <1>8. Range(<<>>) = {} /\ DOMAIN <<>> = {}
    BY DEF Range
  <1>9. QueuesAllowed /\ WiresAllowed
    BY <1>3, <1>8 DEF QueuesAllowed, WiresAllowed, AllAllowed
  <1>10. QED
    BY <1>7, <1>9 DEF IInv

\* Every step keeps the invariant.
LEMMA NextIInv == IInv /\ [Next]_vars => IInv'
  <1> SUFFICES ASSUME IInv, [Next]_vars PROVE IInv'
    OBVIOUS
  <1>t. TypeOK
    BY DEF IInv
  <1>1. ASSUME NEW t \in Slot, NEW n \in 1 .. 2, Speak(t, n) PROVE IInv'
    BY <1>1, SpeakKeeps
  <1>2. ASSUME NEW c \in Slot, Send(c) PROVE IInv'
    BY <1>2, SendKeeps
  <1>3. ASSUME NEW c \in Slot, NEW i \in DOMAIN wire[c], Lose(c, i) PROVE IInv'
    <2>1. owed' \in [Slot -> Int] /\ cut' \in [Slot -> BOOLEAN]
      BY <1>t, <1>3 DEF Lose, TypeOK
    <2>2. QED
      BY <1>3, <2>1, TakeKeeps DEF Lose
  <1>4. ASSUME NEW c \in Slot, NEW i \in DOMAIN wire[c], Receive(c, i) PROVE IInv'
    <2>1. wire[c] \in Seq(Message)
      BY <1>t DEF TypeOK, Message
    <2>2. wire[c][i] \in Message
      BY <2>1
    <2>3. wire[c][i].packets \in Seq(Packet) /\ wire[c][i].count \in Int
      BY <2>2 DEF Message
    <2>4. ReadOf(wire[c][i]) \in Seq(Packet) \/ Len(ReadOf(wire[c][i])) \in Int
      BY <2>3 DEF ReadOf
    <2>5. Len(ReadOf(wire[c][i])) \in Int
      BY <2>4
    <2>6. owed' \in [Slot -> Int] /\ cut' \in [Slot -> BOOLEAN]
      BY <1>t, <1>4, <2>5 DEF Receive, TypeOK
    <2>7. QED
      BY <1>4, <2>6, TakeKeeps DEF Receive
  <1>5. ASSUME NEW v \in Slot, NEW by \in Slot \union {None}, Kill(v, by) PROVE IInv'
    BY <1>5, KillKeeps
  <1>6. CASE EndMatch \/ SwitchVoice
    BY <1>6, RulesKeep
  <1>7. ASSUME NEW c \in Slot, Spawn(c) \/ Leave(c) \/ Join(c) \/ Enter(c) PROVE IInv'
    BY <1>7, ClientKeeps
  <1>8. CASE UNCHANGED vars
    <2>1. /\ queue' = queue /\ wire' = wire /\ rule' = rule /\ state' = state /\ team' = team
          /\ sess' = sess /\ killedBy' = killedBy /\ killed' = killed /\ owed' = owed
          /\ cut' = cut /\ said' = said /\ games' = games
      BY <1>8 DEF vars, server, kills, clients
    <2>2. TypeOK'
      BY <1>t, <2>1 DEF TypeOK
    <2>3. QED
      BY <2>1, <2>2, GameKeeps
  <1>9. QED
    BY <1>1, <1>2, <1>3, <1>4, <1>5, <1>6, <1>7, <1>8 DEF Next

\* The invariant holds in every state.
THEOREM Invariance == Spec => []IInv
  BY InitIInv, NextIInv, PTL DEF Spec

\* The variables have their types, and no queue (sv_queue_voice_packet) holds
\* more than MaxQueue packets, for any number of slots.
THEOREM TypeCorrect == Spec => []TypeOK
  <1>1. IInv => TypeOK
    BY DEF IInv
  <1>2. QED
    BY <1>1, Invariance, PTL

\* Nobody has queued or under way what he may not hear (g_broadcast_voice).
THEOREM HearingAllowed == Spec => []HearingIsAllowed
  <1>1. IInv => HearingIsAllowed
    BY HearingByParts DEF IInv
  <1>2. QED
    BY <1>1, Invariance, PTL

\* A message from a talker takes nothing off a queue, and what it adds is owed.
LEMMA SpeakAdds ==
  ASSUME TypeOK, NEW t \in Slot, NEW n \in 1 .. 2, Speak(t, n), NEW c \in Slot
  PROVE  /\ Len(queue'[c]) \in Nat /\ Len(queue'[c]) >= Len(queue[c])
         /\ owed'[c] = owed[c] + (Len(queue'[c]) - Len(queue[c]))
  <1>1. PICK present :
          /\ queue' = [d \in Slot |-> Queued(d, PacketFor(t, d), n * CopiesFor(t, d, present))]
          /\ owed' = [d \in Slot |-> owed[d] + RoomFor(d, n * CopiesFor(t, d, present))]
    BY DEF Speak
  <1> DEFINE m == n * CopiesFor(t, c, present)
             k == RoomFor(c, m)
             p == PacketFor(t, c)
             added == [i \in 1 .. k |-> p]
  <1>2. m \in Nat
    BY CopiesType
  <1>3. queue'[c] = Queued(c, p, m) /\ owed'[c] = owed[c] + k
    BY <1>1
  <1> HIDE DEF m
  <1>4. k \in Nat
    BY <1>2, RoomType
  <1>5. queue'[c] = queue[c] \o added
    BY <1>3 DEF Queued
  <1>6. p \in Packet
    BY PacketType
  <1> HIDE DEF k, p
  <1>7. added \in Seq(Packet) /\ Len(added) = k
    BY <1>4, <1>6
  <1>8. queue[c] \in Seq(Packet) /\ Len(queue[c]) \in Nat
    <2>1. queue[c] \in Seq(Packet)
      BY DEF TypeOK
    <2>2. QED
      BY <2>1
  <1> HIDE DEF added
  <1>9. Len(queue[c] \o added) = Len(queue[c]) + k
    BY <1>7, <1>8, ConcatProperties
  <1>10. owed[c] \in Int
    BY DEF TypeOK
  <1>11. QED
    BY <1>3, <1>4, <1>5, <1>8, <1>9, <1>10

-----------------------------------------------------------------------------
(* Every packet is counted.                                                *)

\* The packets of one message, as places.
Column(i, n) == {i} \X (1 .. n)

\* They are as many as the message has.
LEMMA ColumnSize ==
  ASSUME NEW i, NEW n \in Nat
  PROVE  IsFiniteSet(Column(i, n)) /\ Cardinality(Column(i, n)) = n
  <1>1. IsFiniteSet({i}) /\ Cardinality({i}) = 1
    BY FS_Singleton
  <1>2. IsFiniteSet(1 .. n) /\ Cardinality(1 .. n) = n
    BY FS_Interval
  <1>3. /\ IsFiniteSet({i} \X (1 .. n))
        /\ Cardinality({i} \X (1 .. n)) = Cardinality({i}) * Cardinality(1 .. n)
    BY <1>1, <1>2, FS_Product
  <1>4. Cardinality({i}) * Cardinality(1 .. n) = n
    BY <1>1, <1>2
  <1>5. QED
    BY <1>3, <1>4 DEF Column

\* The length of a message, and what its places are.
LEMMA MessageIs ==
  ASSUME NEW ms \in Seq(Message), NEW i \in 1 .. Len(ms)
  PROVE  /\ ms[i] \in Message /\ Len(ms[i].packets) \in Nat
         /\ {i} \X DOMAIN ms[i].packets = Column(i, Len(ms[i].packets))
  <1>1. ms[i] \in Message
    OBVIOUS
  <1>2. ms[i].packets \in Seq(Packet)
    BY <1>1 DEF Message
  <1>3. Len(ms[i].packets) \in Nat /\ DOMAIN ms[i].packets = 1 .. Len(ms[i].packets)
    BY <1>2
  <1>4. QED
    BY <1>1, <1>3 DEF Column

\* The places are those of each message.
LEMMA PlacesAre ==
  ASSUME NEW ms \in Seq(Message)
  PROVE  Places(ms) = UNION {Column(i, Len(ms[i].packets)) : i \in 1 .. Len(ms)}
  <1>1. DOMAIN ms = 1 .. Len(ms)
    OBVIOUS
  <1>2. QED
    BY <1>1, MessageIs DEF Places

\* A message more has its packets more.
LEMMA PlacesAppend ==
  ASSUME NEW ms \in Seq(Message), NEW m \in Message, IsFiniteSet(Places(ms))
  PROVE  /\ IsFiniteSet(Places(Append(ms, m)))
         /\ Cardinality(Places(Append(ms, m))) = Cardinality(Places(ms)) + Len(m.packets)
  <1> DEFINE k == Len(ms)
             n == Len(m.packets)
             all == Append(ms, m)
  <1>1. k \in Nat /\ m.packets \in Seq(Packet) /\ n \in Nat
    BY DEF Message
  <1>2. /\ all \in Seq(Message) /\ Len(all) = k + 1 /\ all[k + 1] = m
        /\ \A i \in 1 .. k : all[i] = ms[i]
    OBVIOUS
  <1> HIDE DEF all
  <1>3. 1 .. k + 1 = (1 .. k) \union {k + 1}
    BY <1>1
  <1>4. Places(all) = UNION {Column(i, Len(all[i].packets)) : i \in 1 .. k + 1}
    BY <1>2, PlacesAre
  <1>5. Places(ms) = UNION {Column(i, Len(ms[i].packets)) : i \in 1 .. k}
    BY PlacesAre
  <1> HIDE DEF k, n
  <1>6. Places(all) = Places(ms) \union Column(k + 1, n)
    <2>1. Places(all) = (UNION {Column(i, Len(all[i].packets)) : i \in 1 .. k})
                        \union Column(k + 1, Len(all[k + 1].packets))
      BY <1>3, <1>4
    <2>2. {Column(i, Len(all[i].packets)) : i \in 1 .. k}
          = {Column(i, Len(ms[i].packets)) : i \in 1 .. k}
      BY <1>2
    <2>3. QED
      BY <1>2, <1>5, <2>1, <2>2 DEF n
  <1>7. Places(ms) \intersect Column(k + 1, n) = {}
    <2>1. ASSUME NEW x \in Places(ms), x \in Column(k + 1, n) PROVE FALSE
      <3>1. PICK i \in 1 .. k : x \in Column(i, Len(ms[i].packets))
        BY <1>5, <2>1
      <3>2. i = x[1] /\ k + 1 = x[1]
        BY <2>1, <3>1 DEF Column
      <3>3. QED
        BY <1>1, <3>1, <3>2
    <2>2. QED
      BY <2>1
  <1>8. IsFiniteSet(Column(k + 1, n)) /\ Cardinality(Column(k + 1, n)) = n
    BY <1>1, ColumnSize
  <1>9. /\ IsFiniteSet(Places(all))
        /\ Cardinality(Places(all)) = Cardinality(Places(ms)) + n - Cardinality({})
    <2> DEFINE P == Places(ms)
               C == Column(k + 1, n)
    <2>1. IsFiniteSet(P) /\ IsFiniteSet(C) /\ Cardinality(C) = n /\ P \intersect C = {}
      BY <1>7, <1>8
    <2>2. Places(all) = P \union C
      BY <1>6
    <2> HIDE DEF P, C
    <2>3. /\ IsFiniteSet(P \union C)
          /\ Cardinality(P \union C) = Cardinality(P) + Cardinality(C) - Cardinality(P \intersect C)
      BY <2>1, FS_Union
    <2>4. Cardinality(Places(ms)) = Cardinality(P)
      BY DEF P
    <2>5. QED
      BY <2>1, <2>2, <2>3, <2>4
  <1>10. Cardinality({}) = 0 /\ Cardinality(Places(ms)) \in Nat
    BY FS_EmptySet, FS_CardinalityType
  <1>11. QED
    BY <1>1, <1>9, <1>10 DEF all, n

\* A message less has its packets less.
LEMMA PlacesRemoved ==
  ASSUME NEW ms \in Seq(Message), NEW i \in 1 .. Len(ms), IsFiniteSet(Places(ms))
  PROVE  /\ IsFiniteSet(Places(RemoveAt(ms, i)))
         /\ Cardinality(Places(RemoveAt(ms, i))) = Cardinality(Places(ms)) - Len(ms[i].packets)
  <1> DEFINE k == Len(ms)
             n == Len(ms[i].packets)
             rest == RemoveAt(ms, i)
             other == Places(ms) \ Column(i, n)
             Up(j) == IF j < i THEN j ELSE j + 1
  <1>1. k \in Nat /\ i \in 1 .. k /\ n \in Nat
    BY MessageIs
  <1>2. /\ rest \in Seq(Message) /\ Len(rest) = k - 1
        /\ \A j \in 1 .. k - 1 : rest[j] = IF j < i THEN ms[j] ELSE ms[j + 1]
    BY RemoveAtShifts
  <1> HIDE DEF rest
  <1>3. Places(ms) = UNION {Column(j, Len(ms[j].packets)) : j \in 1 .. k}
    BY PlacesAre
  <1>4. Places(rest) = UNION {Column(j, Len(rest[j].packets)) : j \in 1 .. k - 1}
    BY <1>2, PlacesAre
  <1> HIDE DEF k, n
  <1>5. ASSUME NEW j \in 1 .. k - 1
        PROVE  Up(j) \in 1 .. k /\ Up(j) # i /\ rest[j] = ms[Up(j)]
    <2>1. rest[j] = IF j < i THEN ms[j] ELSE ms[j + 1]
      BY <1>2
    <2>2. QED
      BY <1>1, <2>1
  <1>6. \A j, h \in 1 .. k - 1 : Up(j) = Up(h) => j = h
    BY <1>1
  <1>7. ASSUME NEW h \in 1 .. k, h # i PROVE \E j \in 1 .. k - 1 : Up(j) = h
    <2>1. CASE h < i
      <3>1. h \in 1 .. k - 1 /\ Up(h) = h
        BY <1>1, <2>1
      <3>2. QED
        BY <3>1
    <2>2. CASE ~(h < i)
      <3>1. h - 1 \in 1 .. k - 1 /\ Up(h - 1) = h
        BY <1>1, <1>7, <2>2
      <3>2. QED
        BY <3>1
    <2>3. QED
      BY <2>1, <2>2
  <1> HIDE DEF Up
  <1>8. Column(i, n) \subseteq Places(ms)
    BY <1>1, <1>3 DEF n
  <1>9. other = UNION {Column(j, Len(ms[j].packets)) : j \in (1 .. k) \ {i}}
    <2>1. ASSUME NEW j \in (1 .. k) \ {i}, NEW x \in Column(j, Len(ms[j].packets))
          PROVE  x \notin Column(i, n)
      BY <2>1 DEF Column
    <2>2. QED
      BY <1>1, <1>3, <2>1 DEF n
  <1> DEFINE f == [x \in Places(rest) |-> <<Up(x[1]), x[2]>>]
  <1>10. ASSUME NEW x \in Places(rest)
         PROVE  /\ x[1] \in 1 .. k - 1 /\ x[2] \in 1 .. Len(rest[x[1]].packets)
                /\ x = <<x[1], x[2]>>
    <2>1. PICK j \in 1 .. k - 1 : x \in Column(j, Len(rest[j].packets))
      BY <1>4
    <2>2. x[1] = j /\ x[2] \in 1 .. Len(rest[j].packets) /\ x = <<x[1], x[2]>>
      BY <2>1 DEF Column
    <2>3. QED
      BY <2>2
  <1>11. ASSUME NEW x \in Places(rest) PROVE f[x] \in other
    <2>1. x[1] \in 1 .. k - 1 /\ x[2] \in 1 .. Len(rest[x[1]].packets)
      BY <1>10
    <2>2. Up(x[1]) \in (1 .. k) \ {i} /\ rest[x[1]] = ms[Up(x[1])]
      BY <1>5, <2>1
    <2>3. <<Up(x[1]), x[2]>> \in Column(Up(x[1]), Len(ms[Up(x[1])].packets))
      BY <2>1, <2>2 DEF Column
    <2>4. QED
      BY <1>9, <2>2, <2>3
  <1>12. ASSUME NEW x \in Places(rest), NEW y \in Places(rest), f[x] = f[y] PROVE x = y
    <2>1. Up(x[1]) = Up(y[1]) /\ x[2] = y[2]
      BY <1>12
    <2>2. x[1] = y[1]
      BY <1>6, <1>10, <2>1
    <2>3. QED
      BY <1>10, <2>1, <2>2
  <1>13. ASSUME NEW y \in other PROVE \E x \in Places(rest) : f[x] = y
    <2>1. PICK h \in (1 .. k) \ {i} : y \in Column(h, Len(ms[h].packets))
      BY <1>9
    <2>2. PICK j \in 1 .. k - 1 : Up(j) = h
      BY <1>7, <2>1
    <2>3. y = <<h, y[2]>> /\ y[2] \in 1 .. Len(ms[h].packets)
      BY <2>1 DEF Column
    <2>4. rest[j] = ms[h]
      BY <1>5, <2>2
    <2>5. <<j, y[2]>> \in Column(j, Len(rest[j].packets))
      BY <2>3, <2>4 DEF Column
    <2>6. <<j, y[2]>> \in Places(rest)
      BY <1>4, <2>5
    <2>7. f[<<j, y[2]>>] = y
      BY <2>2, <2>3, <2>6
    <2>8. QED
      BY <2>6, <2>7
  <1> HIDE DEF f
  <1>14. f \in [Places(rest) -> other]
    <2>1. f = [x \in Places(rest) |-> f[x]]
      BY DEF f
    <2>2. QED
      BY <1>11, <2>1
  <1> HIDE DEF other
  <1>15. f \in Injection(Places(rest), other) /\ f \in Surjection(Places(rest), other)
    BY <1>12, <1>13, <1>14 DEF Injection, Surjection, IsInjective
  <1>16. IsFiniteSet(other) /\ Cardinality(other) = Cardinality(Places(ms)) - n
    <2>1. Places(ms) \intersect Column(i, n) = Column(i, n)
      BY <1>8
    <2>2. Cardinality(Column(i, n)) = n
      BY <1>1, ColumnSize
    <2>3. /\ IsFiniteSet(Places(ms) \ Column(i, n))
          /\ Cardinality(Places(ms) \ Column(i, n))
             = Cardinality(Places(ms)) - Cardinality(Places(ms) \intersect Column(i, n))
      BY FS_Difference
    <2>4. QED
      BY <2>1, <2>2, <2>3 DEF other
  <1>17. IsFiniteSet(Places(rest)) /\ Cardinality(Places(rest)) = Cardinality(other)
    BY <1>15, <1>16, FS_Injection
  <1>18. QED
    BY <1>16, <1>17 DEF rest, n

\* Nothing is on its way to a free slot; and while nothing was cut, a message
\* counts what it has, and what a client has not read is queued or on its way.
Settled(c) ==
  /\ IsFiniteSet(Places(wire[c]))
  /\ state[c] = "off" => wire[c] = <<>>
  /\ state[c] # "off" /\ ~cut[c] =>
       /\ \A i \in DOMAIN wire[c] : wire[c][i].count = Len(wire[c][i].packets)
       /\ owed[c] = Len(queue[c]) + LenOfWire(c)

\* The types of what Settled speaks of.
LEMMA SettledTypes ==
  ASSUME TypeOK, NEW c \in Slot
  PROVE  /\ wire \in [Slot -> Seq(Message)] /\ wire[c] \in Seq(Message)
         /\ queue \in [Slot -> Seq(Packet)]
         /\ queue[c] \in Seq(Packet) /\ Len(queue[c]) \in Nat
         /\ owed[c] \in Int /\ cut[c] \in BOOLEAN
  <1>1. wire \in [Slot -> Seq(Message)]
    BY WireType
  <1>2. queue \in [Slot -> Seq(Packet)] /\ owed[c] \in Int /\ cut[c] \in BOOLEAN
    BY DEF TypeOK
  <1>3. wire[c] \in Seq(Message) /\ queue[c] \in Seq(Packet)
    BY <1>1, <1>2
  <1>4. Len(queue[c]) \in Nat
    BY <1>3
  <1>5. QED
    BY <1>1, <1>2, <1>3, <1>4

\* A slot of which nothing changes stays settled.
LEMMA SettledSame ==
  ASSUME NEW c \in Slot, Settled(c), wire'[c] = wire[c], queue'[c] = queue[c],
         owed'[c] = owed[c], cut'[c] = cut[c], state'[c] = "off" <=> state[c] = "off"
  PROVE  Settled(c)'
  BY DEF Settled, LenOfWire

\* No messages have no places.
LEMMA NoPlaces == IsFiniteSet(Places(<<>>)) /\ Cardinality(Places(<<>>)) = 0
  <1>1. Places(<<>>) = {}
    <2>1. DOMAIN <<>> = {}
      OBVIOUS
    <2>2. QED
      BY <2>1 DEF Places
  <1>2. QED
    BY <1>1, FS_EmptySet

\* A talker's message.
LEMMA SpeakSettles ==
  ASSUME TypeOK, NEW t \in Slot, NEW n \in 1 .. 2, Speak(t, n), NEW c \in Slot, Settled(c)
  PROVE  Settled(c)'
  <1>1. wire' = wire /\ cut' = cut /\ state' = state
    BY DEF Speak, server
  <1>2. /\ Len(queue'[c]) \in Nat /\ owed'[c] = owed[c] + (Len(queue'[c]) - Len(queue[c]))
        /\ Len(queue[c]) \in Nat
    BY SpeakAdds, SettledTypes
  <1>3. LenOfWire(c)' = LenOfWire(c)
    BY <1>1 DEF LenOfWire
  <1>4. LenOfWire(c) \in Nat
    BY FS_CardinalityType DEF Settled, LenOfWire
  <1>5. owed[c] = Len(queue[c]) + LenOfWire(c) => owed'[c] = Len(queue'[c]) + LenOfWire(c)
    <2> DEFINE w == LenOfWire(c)
               q == Len(queue[c])
               r == Len(queue'[c])
    <2>1. w \in Nat /\ q \in Nat /\ r \in Nat /\ owed'[c] = owed[c] + (r - q)
      BY <1>2, <1>4
    <2> HIDE DEF w, q, r
    <2>2. owed[c] = q + w => owed'[c] = r + w
      BY <2>1
    <2>3. QED
      BY <2>2 DEF w, q, r
  <1>6. QED
    BY <1>1, <1>3, <1>5 DEF Settled

\* A queue is sent.
LEMMA SendSettles ==
  ASSUME TypeOK, NEW c \in Slot, Send(c), Settled(c)
  PROVE  Settled(c)'
  <1> DEFINE m == [count |-> Len(queue[c]) % Byte, packets |-> queue[c]]
  <1>t. /\ wire \in [Slot -> Seq(Message)] /\ wire[c] \in Seq(Message)
        /\ queue[c] \in Seq(Packet) /\ Len(queue[c]) \in Nat
    BY SettledTypes
  <1>1. /\ wire' = [wire EXCEPT ![c] = Append(@, m)] /\ queue' = [queue EXCEPT ![c] = <<>>]
        /\ cut' = [cut EXCEPT ![c] = @ \/ Len(queue[c]) >= Byte]
        /\ owed' = owed /\ state' = state /\ state[c] = "active"
    BY DEF Send, SendFrom, server
  <1>2. wire'[c] = Append(wire[c], m) /\ queue'[c] = <<>> /\ Len(queue'[c]) = 0
    BY <1>1, <1>t, SettledTypes
  <1>3. m \in Message /\ m.packets = queue[c] /\ m.count = Len(queue[c]) % Byte
    BY <1>t, Remainder DEF Message
  <1>4. cut'[c] = (cut[c] \/ Len(queue[c]) >= Byte)
    BY <1>1 DEF TypeOK
  <1> HIDE DEF m
  <1>5. /\ IsFiniteSet(Places(wire'[c]))
        /\ Cardinality(Places(wire'[c])) = Cardinality(Places(wire[c])) + Len(queue[c])
    BY <1>t, <1>2, <1>3, PlacesAppend DEF Settled
  <1>6. ASSUME ~cut'[c]
        PROVE  /\ \A i \in DOMAIN wire'[c] : wire'[c][i].count = Len(wire'[c][i].packets)
               /\ owed'[c] = Len(queue'[c]) + LenOfWire(c)'
    <2>1. ~cut[c] /\ Len(queue[c]) < Byte
      <3>1. ~cut[c] /\ ~(Len(queue[c]) >= Byte)
        BY <1>4, <1>6, Zenon
      <3>2. Len(queue[c]) < Byte
        BY <1>t, <3>1
      <3>3. QED
        BY <3>1, <3>2
    <2>2. m.count = Len(m.packets)
      <3>1. Len(queue[c]) % Byte = Len(queue[c])
        BY <1>t, <2>1, SmallRemainder
      <3>2. QED
        BY <1>3, <3>1
    <2>3. ASSUME NEW i \in DOMAIN wire'[c] PROVE wire'[c][i].count = Len(wire'[c][i].packets)
      <3>1. wire'[c][i] = m \/ (i \in DOMAIN wire[c] /\ wire'[c][i] = wire[c][i])
        BY <1>2, <1>3, <1>t, <2>3, AppendIs
      <3>2. QED
        BY <1>1, <2>1, <2>2, <3>1 DEF Settled
    <2>4. owed[c] = Len(queue[c]) + Cardinality(Places(wire[c]))
      BY <1>1, <2>1 DEF Settled, LenOfWire
    <2>5. Cardinality(Places(wire[c])) \in Nat
      BY FS_CardinalityType DEF Settled
    <2>6. owed'[c] = owed[c] /\ LenOfWire(c)' = Cardinality(Places(wire'[c]))
      BY <1>1 DEF LenOfWire
    <2>7. owed'[c] = Len(queue'[c]) + LenOfWire(c)'
      BY <1>2, <1>5, <1>t, <2>4, <2>5, <2>6
    <2>8. QED
      BY <2>3, <2>7
  <1>7. state'[c] # "off"
    BY <1>1
  <1>8. QED
    BY <1>5, <1>6, <1>7 DEF Settled

\* A message is read, or lost.
LEMMA TakeSettles ==
  ASSUME TypeOK, NEW c \in Slot, NEW i \in DOMAIN wire[c], Lose(c, i) \/ Receive(c, i), Settled(c)
  PROVE  Settled(c)'
  <1>t. /\ wire \in [Slot -> Seq(Message)] /\ wire[c] \in Seq(Message)
        /\ Len(queue[c]) \in Nat /\ owed[c] \in Int /\ i \in 1 .. Len(wire[c])
    <2>1. /\ wire \in [Slot -> Seq(Message)] /\ wire[c] \in Seq(Message)
          /\ Len(queue[c]) \in Nat /\ owed[c] \in Int
      BY SettledTypes
    <2>2. QED
      BY <2>1
  <1> DEFINE n == Len(wire[c][i].packets)
             rest == RemoveAt(wire[c], i)
  <1>1. wire' = [wire EXCEPT ![c] = rest] /\ queue' = queue /\ state' = state
    BY DEF Lose, Receive, server
  <1>2. wire'[c] = rest
    BY <1>1, <1>t
  <1>m. wire[c][i] \in Message /\ n \in Nat
    BY <1>t, MessageIs
  <1>3. /\ IsFiniteSet(Places(rest))
        /\ Cardinality(Places(rest)) = Cardinality(Places(wire[c])) - n
    BY <1>t, PlacesRemoved DEF Settled
  <1>4. \A j \in DOMAIN rest : \E k \in DOMAIN wire[c] : rest[j] = wire[c][k]
    BY <1>t, RemoveAtIs
  <1> HIDE DEF rest
  <1>5. state[c] # "off"
    <2>1. DOMAIN <<>> = {}
      OBVIOUS
    <2>2. QED
      BY <2>1 DEF Settled
  <1>6. ASSUME ~cut'[c]
        PROVE  /\ \A j \in DOMAIN wire'[c] : wire'[c][j].count = Len(wire'[c][j].packets)
               /\ owed'[c] = Len(queue'[c]) + LenOfWire(c)'
    <2>1. Receive(c, i) /\ cut' = cut
      <3>1. Lose(c, i) => cut'[c] = TRUE
        BY DEF Lose, TypeOK
      <3>2. QED
        BY <1>6, <3>1 DEF Receive
    <2>2. \A k \in DOMAIN wire[c] : wire[c][k].count = Len(wire[c][k].packets)
      BY <1>5, <1>6, <2>1 DEF Settled
    <2>3. \A j \in DOMAIN wire'[c] : wire'[c][j].count = Len(wire'[c][j].packets)
      BY <1>2, <1>4, <2>2
    <2>4. Len(ReadOf(wire[c][i])) = n
      <3>1. wire[c][i].packets \in Seq(Packet) /\ wire[c][i].count = n
        BY <1>m, <2>2 DEF Message
      <3> DEFINE ps == wire[c][i].packets
      <3>2. ReadOf(wire[c][i]) = SubSeq(ps, 1, Len(ps))
        BY <3>1 DEF ReadOf
      <3> HIDE DEF ps
      <3>3. ps \in Seq(Packet)
        BY <3>1 DEF ps
      <3>4. Len(SubSeq(ps, 1, Len(ps))) = Len(ps)
        BY <3>3
      <3>5. QED
        BY <3>2, <3>4 DEF ps
    <2>5. owed'[c] = owed[c] - n
      <3>1. owed' = [owed EXCEPT ![c] = @ - Len(ReadOf(wire[c][i]))]
        BY <2>1 DEF Receive
      <3>2. QED
        BY <2>4, <3>1 DEF TypeOK
    <2>6. owed[c] = Len(queue[c]) + Cardinality(Places(wire[c]))
      BY <1>5, <1>6, <2>1 DEF Settled, LenOfWire
    <2>7. Cardinality(Places(wire[c])) \in Nat
      BY FS_CardinalityType DEF Settled
    <2>8. LenOfWire(c)' = Cardinality(Places(rest)) /\ queue'[c] = queue[c]
      BY <1>1, <1>2 DEF LenOfWire
    <2> HIDE DEF n
    <2>9. QED
      BY <1>3, <1>m, <1>t, <2>3, <2>5, <2>6, <2>7, <2>8
  <1>7. QED
    BY <1>1, <1>2, <1>3, <1>5, <1>6 DEF Settled

\* A client leaves, or another takes the slot.
LEMMA SlotSettles ==
  ASSUME TypeOK, NEW c \in Slot, Leave(c) \/ Join(c), Settled(c)
  PROVE  Settled(c)'
  <1>t. wire \in [Slot -> Seq(Message)] /\ Len(queue[c]) \in Nat
    BY SettledTypes
  <1>1. CASE Leave(c)
    <2>1. state'[c] = "off" /\ wire'[c] = <<>>
      BY <1>1, <1>t DEF Leave, TypeOK
    <2>2. QED
      BY <2>1, NoPlaces DEF Settled
  <1>2. CASE Join(c)
    <2>1. /\ wire'[c] = <<>> /\ state'[c] # "off" /\ queue' = queue
          /\ owed'[c] = Len(queue[c])
      BY <1>2 DEF Join, TypeOK, Settled
    <2>2. LenOfWire(c)' = 0
      BY <2>1, NoPlaces DEF LenOfWire
    <2>3. DOMAIN <<>> = {} /\ owed'[c] = Len(queue'[c]) + 0
      BY <1>t, <2>1
    <2>4. QED
      BY <2>1, <2>2, <2>3, NoPlaces DEF Settled
  <1>3. QED
    BY <1>1, <1>2

\* Every step leaves every slot settled.
LEMMA SettledStep ==
  ASSUME TypeOK, [Next]_vars, NEW c \in Slot, Settled(c)
  PROVE  Settled(c)'
  <1>1. ASSUME NEW t \in Slot, NEW n \in 1 .. 2, Speak(t, n) PROVE Settled(c)'
    BY <1>1, SpeakSettles
  <1>2. ASSUME NEW d \in Slot, Send(d) PROVE Settled(c)'
    <2>1. CASE d = c
      BY <1>2, <2>1, SendSettles
    <2>2. CASE d # c
      <3>1. /\ wire'[c] = wire[c] /\ queue'[c] = queue[c] /\ cut'[c] = cut[c]
            /\ owed' = owed /\ state' = state
        BY <1>2, <2>2 DEF Send, SendFrom, server, TypeOK
      <3>2. QED
        BY <3>1, SettledSame
    <2>3. QED
      BY <2>1, <2>2
  <1>3. ASSUME NEW d \in Slot, NEW i \in DOMAIN wire[d], Lose(d, i) \/ Receive(d, i)
        PROVE  Settled(c)'
    <2>1. CASE d = c
      BY <1>3, <2>1, TakeSettles
    <2>2. CASE d # c
      <3>1. /\ wire'[c] = wire[c] /\ queue' = queue /\ cut'[c] = cut[c]
            /\ owed'[c] = owed[c] /\ state' = state
        BY <1>3, <2>2 DEF Lose, Receive, server, TypeOK
      <3>2. QED
        BY <3>1, SettledSame
    <2>3. QED
      BY <2>1, <2>2
  <1>4. ASSUME NEW d \in Slot, Leave(d) \/ Join(d) PROVE Settled(c)'
    <2>1. CASE d = c
      BY <1>4, <2>1, SlotSettles
    <2>2. CASE d # c
      <3>1. /\ wire'[c] = wire[c] /\ queue' = queue /\ cut'[c] = cut[c]
            /\ owed'[c] = owed[c] /\ state'[c] = state[c]
        BY <1>4, <2>2 DEF Leave, Join, GameStep, clients, TypeOK
      <3>2. QED
        BY <3>1, SettledSame
    <2>3. QED
      BY <2>1, <2>2
  <1>5. ASSUME NEW d \in Slot, Enter(d) PROVE Settled(c)'
    <2>1. wire' = wire /\ queue' = queue /\ cut' = cut /\ owed' = owed
      BY <1>5 DEF Enter, clients
    <2>2. state'[c] = "off" <=> state[c] = "off"
      BY <1>5 DEF Enter, TypeOK
    <2>3. QED
      BY <2>1, <2>2, SettledSame
  <1>6. ASSUME \/ EndMatch \/ SwitchVoice \/ UNCHANGED vars \/ \E d \in Slot : Spawn(d)
               \/ \E d \in Slot, by \in Slot \union {None} : Kill(d, by)
        PROVE  Settled(c)'
    <2>1. wire' = wire /\ queue' = queue /\ cut' = cut /\ owed' = owed /\ state' = state
      BY <1>6 DEF EndMatch, SwitchVoice, Spawn, Kill, GameStep, clients, vars, server
    <2>2. QED
      BY <2>1, SettledSame
  <1>7. QED
    BY <1>1, <1>2, <1>3, <1>4, <1>5, <1>6 DEF Next

\* As long as nothing is lost or cut off, every client gets each packet that
\* was queued for it, once (NoneDropped): sv_send_client_voice_data empties the
\* queue into a message, and cl_voice_packet reads as many as it counts.
THEOREM EachIsCounted == Spec => []NoneDropped
  <1> DEFINE AllSettled == \A c \in Slot : Settled(c)
  <1>1. Init => AllSettled
    <2> SUFFICES ASSUME Init, NEW c \in Slot PROVE Settled(c)
      OBVIOUS
    <2>1. wire[c] = <<>> /\ queue[c] = <<>> /\ owed[c] = 0
      BY DEF Init
    <2>2. DOMAIN <<>> = {} /\ Len(<<>>) = 0
      OBVIOUS
    <2>3. owed[c] = Len(queue[c]) + LenOfWire(c)
      BY <2>1, <2>2, NoPlaces DEF LenOfWire
    <2>4. QED
      BY <2>1, <2>2, <2>3, NoPlaces DEF Settled
  <1>2. TypeOK /\ AllSettled /\ [Next]_vars => AllSettled'
    BY SettledStep
  <1>3. AllSettled => NoneDropped
    BY DEF Settled, NoneDropped
  <1> HIDE DEF AllSettled
  <1>4. QED
    BY <1>1, <1>2, <1>3, TypeCorrect, PTL DEF Spec
-----------------------------------------------------------------------------
(* That a queue is sent.  The provers do not look into ENABLED: that a     *)
(* queue that fits into a message can be sent is taken as a hypothesis,    *)
(* SendCanRun, which TLC finds true in all states of MCVoice.              *)

Sendable(c) == state[c] = "active" /\ queue[c] # <<>> /\ Len(queue[c]) <= Room
CanSend(c) == Sendable(c) => ENABLED <<Send(c)>>_vars
SendCanRun == \A c \in Slot : CanSend(c)

\* What was queued for a client that stays in the game reaches the wire,
\* whoever else speaks, leaves or joins, as long as the queue fits into the
\* message buffer.
THEOREM QueueLeaves == Spec /\ []SendCanRun => QueueIsSent
  <1> DEFINE Full(c) == state[c] = "active" /\ queue[c] # <<>>
             Over(c) == queue[c] = <<>> \/ state[c] # "active" \/ Len(queue[c]) > Room
  <1> SUFFICES ASSUME NEW c \in Slot
               PROVE  Spec /\ []SendCanRun => (Full(c) ~> Over(c))
    BY DEF QueueIsSent
  <1>1. Spec => SendFairly(c)
    BY DEF Spec
  <1>2. SendCanRun => CanSend(c)
    BY DEF SendCanRun
  <1>3. TypeOK => (Full(c) => Sendable(c) \/ Over(c)) /\ (Sendable(c) \/ Over(c))
    <2>1. ASSUME TypeOK PROVE Len(queue[c]) \in Nat /\ Room \in Nat
      BY <2>1, QueueAssumption DEF TypeOK
    <2>2. QED
      BY <2>1 DEF Sendable
  <1>4. TypeOK /\ Sendable(c) /\ <<Send(c)>>_vars => (queue[c] = <<>>)'
    BY DEF TypeOK, Send, SendFrom
  <1>5. Spec => []TypeOK
    BY TypeCorrect
  <1>6. QED
    BY <1>1, <1>2, <1>3, <1>4, <1>5, PTL DEF Spec, SendFairly, CanSend, Full, Over
=============================================================================

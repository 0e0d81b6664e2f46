-------------------------- MODULE DemonwareProofs ---------------------------
(***************************************************************************)
(* What is proved about Demonware, for any servers, sockets, threads and   *)
(* bounds: a stream server is a channel, connections that meet nothing of  *)
(* another read their own bytes, keys agree with the client's, answers to  *)
(* datagrams are kept, and shutting down ends.                             *)
(*                                                                         *)
(* For the last of these the provers lack ENABLED and induction over the   *)
(* natural numbers for temporal formulas.  That the guard of a fair step   *)
(* is all it needs is the hypothesis StepsCanRun, which TLC finds true in  *)
(* all states of MCDemonware.  The step of the induction is FrameDescends; *)
(* its rule is the hypothesis FrameInduction, which every behaviour        *)
(* satisfies.                                                              *)
(***************************************************************************)
EXTENDS Demonware, FiniteSetTheorems, SequenceTheorems, TLAPS

USE OrderAssumption, NoneAssumption, BoundAssumption

\* The lobby is one of the servers.
LEMMA LobbyIsServer == Lobby \in Server
  <1>1. Order[1] \in Server
    BY DEF Server, Range
  <1>2. QED
    BY <1>1 DEF Lobby

-----------------------------------------------------------------------------
(* Types.                                                                  *)

\* A byte of an answer, and an entry of the transcript.
Byte == [n : 1 .. MaxSent, conn : 1 .. MaxConns, i : 1 .. 2, kind : Kind]
Heard == [conn : 1 .. MaxConns, what : {"hello", "ack", "auth"}]

LobbyPopped == [server : {Lobby}, packet : StreamPacket]
StunPopped == [server : Stun, packet : Datagram]

ThreadTypes ==
  /\ at \in {"new", "top", "frame", "ended"}
  /\ todo \in Seq(Server) /\ (at = "frame" => todo # <<>>)

QueueTypes ==
  /\ in \in [Server -> Seq(StreamPacket \union Datagram)]
  /\ in[Lobby] \in Seq(StreamPacket)
  /\ \A v \in Stun : in[v] \in Seq(Datagram)
  /\ hand \in {None} \union LobbyPopped \union StunPopped
  /\ out \in Seq(Byte) /\ given \in Seq(Byte)

LineTypes ==
  /\ link \in [Socket -> {Lobby, None}]
  /\ conns \in 0 .. MaxConns
  /\ conn \in [Socket -> 0 .. MaxConns]
  /\ \A s \in Socket : link[s] # None => conn[s] \in 1 .. conns
  /\ spoke \in [Socket -> SUBSET Kind]
  /\ mixed \in [Socket -> BOOLEAN]
  /\ got \in [Socket -> Seq(Byte)]
  /\ reader \in [Thread -> Socket \union {None}]
  /\ rival \in [Thread -> BOOLEAN]

KeyTypes == transcript \in Seq(Heard) /\ key \in Seq(Heard)

Question == [n : Nat \ {0}, from : Port, to : Stun, known : BOOLEAN]
UdpTypes ==
  /\ boxes \in [Stun -> [Port -> Seq(Nat \ {0})]]
  /\ questions \subseteq Question /\ IsFiniteSet(questions)
  /\ answered \subseteq Nat \ {0}
  /\ overlap \in [Port -> BOOLEAN]
  /\ sent \in Nat /\ sent + Cardinality(questions) <= MaxSent

Types == ThreadTypes /\ QueueTypes /\ LineTypes /\ KeyTypes /\ UdpTypes

-----------------------------------------------------------------------------
(* Sequences, and the answers.                                             *)

\* The parts of a sequence that SubSeq takes off, and that it leaves.
LEMMA SplitAt ==
  ASSUME NEW S, NEW s \in Seq(S), NEW n \in 0 .. Len(s)
  PROVE  /\ SubSeq(s, 1, n) \in Seq(S) /\ Len(SubSeq(s, 1, n)) = n
         /\ \A i \in 1 .. n : SubSeq(s, 1, n)[i] = s[i]
         /\ SubSeq(s, n + 1, Len(s)) \in Seq(S)
         /\ Len(SubSeq(s, n + 1, Len(s))) = Len(s) - n
         /\ \A i \in 1 .. Len(s) - n : SubSeq(s, n + 1, Len(s))[i] = s[n + i]
  <1>1. Len(s) \in Nat /\ \A i \in 1 .. Len(s) : s[i] \in S
    BY ElementOfSeq
  <1>2. \A i \in 1 .. n : s[i] \in S
    BY <1>1
  <1>3. \A i \in n + 1 .. Len(s) : s[i] \in S
    BY <1>1
  <1>4. /\ SubSeq(s, 1, n) \in Seq(S)
        /\ Len(SubSeq(s, 1, n)) = IF 1 <= n THEN n - 1 + 1 ELSE 0
        /\ \A i \in 1 .. n - 1 + 1 : SubSeq(s, 1, n)[i] = s[1 + i - 1]
    <2>1. 1 \in Int /\ n \in Int
      OBVIOUS
    <2>2. QED
      BY <1>2, <2>1, SubSeqProperties
  <1>5. /\ SubSeq(s, n + 1, Len(s)) \in Seq(S)
        /\ Len(SubSeq(s, n + 1, Len(s))) = IF n + 1 <= Len(s) THEN Len(s) - (n + 1) + 1 ELSE 0
        /\ \A i \in 1 .. Len(s) - (n + 1) + 1 :
             SubSeq(s, n + 1, Len(s))[i] = s[(n + 1) + i - 1]
    <2>1. n + 1 \in Int /\ Len(s) \in Int
      BY <1>1
    <2>2. QED
      BY <1>3, <2>1, SubSeqProperties
  <1>6. QED
    BY <1>1, <1>4, <1>5

\* What an answer is.
LEMMA ReplyIs ==
  ASSUME NEW p \in StreamPacket
  PROVE  /\ Reply[p] \in Seq(Byte)
         /\ \A i \in 1 .. Len(Reply[p]) :
              Reply[p][i] = [n |-> p.n, conn |-> p.conn, i |-> i, kind |-> p.kind]
  <1> DEFINE k == AnswerLen[p.kind]
             r == [i \in 1 .. k |-> [n |-> p.n, conn |-> p.conn, i |-> i, kind |-> p.kind]]
  <1>1. p.n \in 1 .. MaxSent /\ p.conn \in 1 .. MaxConns /\ p.kind \in Kind
    BY DEF StreamPacket
  <1>2. k \in 0 .. 2
    BY <1>1 DEF AnswerLen, Kind
  <1>3. Reply[p] = r
    BY DEF Reply
  <1> HIDE DEF k
  <1>4. \A i \in 1 .. k : r[i] \in Byte
    BY <1>1, <1>2 DEF Byte
  <1>5. r \in [1 .. k -> Byte]
    BY <1>4
  <1>6. r \in Seq(Byte) /\ Len(r) = k
    BY <1>2, <1>5
  <1>7. QED
    BY <1>3, <1>6

-----------------------------------------------------------------------------
(* The types hold.                                                         *)

\* They hold at first.
LEMMA InitTypes == Init => Types
  <1> SUFFICES ASSUME Init PROVE Types
    OBVIOUS
  <1>1. ThreadTypes
    BY DEF Init, ThreadTypes
  <1>2. QueueTypes
    BY LobbyIsServer DEF Init, QueueTypes, Stun
  <1>3. LineTypes
    BY DEF Init, LineTypes
  <1>4. KeyTypes
    BY DEF Init, KeyTypes
  <1>5. UdpTypes
    BY FS_EmptySet DEF Init, UdpTypes
  <1>6. QED
    BY <1>1, <1>2, <1>3, <1>4, <1>5 DEF Types

\* The servers' thread.
LEMMA NextThreadTypes ==
  ASSUME Types, [Next]_vars
  PROVE  ThreadTypes'
  <1> USE DEF Types, ThreadTypes
  <1>1. CASE Turn
    BY <1>1 DEF Turn
  <1>2. CASE Pass
    <2>1. Tail(todo) \in Seq(Server)
      BY <1>2 DEF Pass
    <2>2. QED
      BY <1>2, <2>1 DEF Pass
  <1>3. CASE Begin
    BY <1>3 DEF Begin
  <1>4. CASE UNCHANGED <<at, todo>>
    BY <1>4
  <1>5. QED
    BY <1>1, <1>2, <1>3, <1>4
       DEF Next, vars, thread, Pop, HandleStream, HandleDatagram, Connect, Close, Send,
           FindData, TakeData, SendTo, RecvFrom, PreDestroy, Joined

\* The queues, what the thread has popped, and the stream.
LEMMA NextQueueTypes ==
  ASSUME Types, [Next]_vars
  PROVE  QueueTypes'
  <1> USE DEF Types, QueueTypes
  <1>q. Lobby \in Server /\ Stun = Server \ {Lobby}
    BY LobbyIsServer DEF Stun
  <1>1. CASE Pop
    <2> DEFINE v == Head(todo)
    <2>1. v \in Server
      BY <1>1 DEF Pop, ThreadTypes
    <2> HIDE DEF v
    <2>2. hand' = [server |-> v, packet |-> Head(in[v])] /\ in' = [in EXCEPT ![v] = Tail(@)]
          /\ in[v] # <<>>
      BY <1>1 DEF Pop, v
    <2>3. \A S : in[v] \in Seq(S) => Head(in[v]) \in S /\ Tail(in[v]) \in Seq(S)
      BY <2>2, HeadTailProperties
    <2>4. in' \in [Server -> Seq(StreamPacket \union Datagram)]
      BY <2>1, <2>2, <2>3
    <2>5. in'[Lobby] \in Seq(StreamPacket) /\ \A w \in Stun : in'[w] \in Seq(Datagram)
      BY <1>q, <2>1, <2>2, <2>3
    <2>6. hand' \in LobbyPopped \union StunPopped
      BY <1>q, <2>1, <2>2, <2>3 DEF LobbyPopped, StunPopped
    <2>7. QED
      BY <1>1, <2>4, <2>5, <2>6 DEF Pop, tcp, reading
  <1>2. CASE HandleStream
    <2>1. hand.packet \in StreamPacket
      BY <1>2, <1>q DEF HandleStream, LobbyPopped, StunPopped
    <2>2. out \o Reply[hand.packet] \in Seq(Byte)
      BY <2>1, ReplyIs, ConcatProperties
    <2>3. QED
      BY <1>2, <2>2 DEF HandleStream, tcp, reading
  <1>3. CASE HandleDatagram
    BY <1>3 DEF HandleDatagram, tcp, reading
  <1>4. ASSUME NEW s \in Socket, NEW k \in Kind, Send(s, k)
        PROVE  QueueTypes'
    <2> DEFINE p == [n |-> sent + 1, conn |-> conn[s], kind |-> k]
    <2>1. p \in StreamPacket
      <3>1. conn[s] \in 1 .. MaxConns
        BY <1>4 DEF Send, LineTypes
      <3>2. Cardinality(questions) \in Nat
        BY FS_CardinalityType DEF UdpTypes
      <3>3. sent + 1 \in 1 .. MaxSent
        BY <1>4, <3>2 DEF Send, UdpTypes
      <3>4. QED
        BY <3>1, <3>3 DEF StreamPacket
    <2>2. in' = [in EXCEPT ![Lobby] = Append(@, p)]
      BY <1>4 DEF Send
    <2> HIDE DEF p
    <2>3. \A S : in[Lobby] \in Seq(S) /\ p \in S => Append(in[Lobby], p) \in Seq(S)
      OBVIOUS
    <2>4. in' \in [Server -> Seq(StreamPacket \union Datagram)]
      BY <2>1, <2>2, <2>3
    <2>5. in'[Lobby] \in Seq(StreamPacket)
      BY <1>q, <2>1, <2>2, <2>3
    <2>6. \A w \in Stun : in'[w] \in Seq(Datagram)
      BY <1>q, <2>2
    <2>7. QED
      BY <1>4, <2>4, <2>5, <2>6 DEF Send, thread, reading
  <1>5. ASSUME NEW r \in Thread, NEW len \in 1 .. 2, TakeData(r, len)
        PROVE  QueueTypes'
    <2> DEFINE n == IF len <= Len(out) THEN len ELSE Len(out)
    <2>1. n \in 0 .. Len(out)
      OBVIOUS
    <2>2. given' = given \o SubSeq(out, 1, n) /\ out' = SubSeq(out, n + 1, Len(out))
      BY <1>5 DEF TakeData, Rest
    <2> HIDE DEF n
    <2>3. SubSeq(out, 1, n) \in Seq(Byte) /\ out' \in Seq(Byte)
      BY <2>1, <2>2, SplitAt
    <2>4. given' \in Seq(Byte)
      BY <2>2, <2>3, ConcatProperties
    <2>5. QED
      BY <1>5, <2>3, <2>4 DEF TakeData, thread
  <1>6. ASSUME NEW p \in Port, NEW v \in Stun, NEW known \in BOOLEAN, SendTo(p, v, known)
        PROVE  QueueTypes'
    <2> DEFINE d == [n |-> Number, from |-> p, known |-> known]
    <2>1. d \in Datagram
      <3>1. Cardinality(questions) \in Nat
        BY FS_CardinalityType DEF UdpTypes
      <3>2. QED
        BY <3>1 DEF Datagram, Number
    <2>2. in' = [in EXCEPT ![v] = Append(@, d)]
      BY <1>6 DEF SendTo
    <2> HIDE DEF d
    <2>3. \A S : in[v] \in Seq(S) /\ d \in S => Append(in[v], d) \in Seq(S)
      OBVIOUS
    <2>4. in' \in [Server -> Seq(StreamPacket \union Datagram)]
      BY <1>q, <2>1, <2>2, <2>3
    <2>5. in'[Lobby] \in Seq(StreamPacket)
      BY <1>q, <2>2
    <2>6. \A w \in Stun : in'[w] \in Seq(Datagram)
      BY <1>q, <2>1, <2>2, <2>3
    <2>7. QED
      BY <1>6, <2>4, <2>5, <2>6 DEF SendTo, thread, tcp, reading
  <1>7. CASE UNCHANGED <<in, hand, out, given>>
    BY <1>7
  <1>8. QED
    BY <1>1, <1>2, <1>3, <1>4, <1>5, <1>6, <1>7
       DEF Next, vars, thread, tcp, reading, Begin, Turn, Pass, Connect, Close,
           FindData, RecvFrom, PreDestroy, Joined

\* The stream sockets and the threads that read.
LEMMA NextLineTypes ==
  ASSUME Types, [Next]_vars
  PROVE  LineTypes'
  <1> USE DEF Types, LineTypes
  <1>q. Lobby # None
    BY LobbyIsServer
  <1>1. ASSUME NEW s \in Socket, Connect(s)
        PROVE  LineTypes'
    <2>1. UNCHANGED <<spoke, reader, rival, got>>
      BY <1>1 DEF Connect, reading
    <2>2. mixed' \in [Socket -> BOOLEAN]
      BY <1>1 DEF Connect
    <2>3. link' \in [Socket -> {Lobby, None}] /\ conns' \in 0 .. MaxConns
          /\ conn' \in [Socket -> 0 .. MaxConns]
      BY <1>1 DEF Connect
    <2>4. \A t \in Socket : link'[t] # None => conn'[t] \in 1 .. conns'
      BY <1>1 DEF Connect
    <2>5. QED
      BY <2>1, <2>2, <2>3, <2>4
  <1>2. ASSUME NEW s \in Socket, Close(s)
        PROVE  LineTypes'
    <2>1. <<>> \in Seq(Byte)
      OBVIOUS
    <2>2. QED
      BY <1>2, <2>1 DEF Close
  <1>3. ASSUME NEW s \in Socket, NEW k \in Kind, Send(s, k)
        PROVE  LineTypes'
    BY <1>3 DEF Send, reading
  <1>4. ASSUME NEW r \in Thread, NEW s \in Socket, FindData(r, s)
        PROVE  LineTypes'
    BY <1>4 DEF FindData, line
  <1>5. ASSUME NEW r \in Thread, NEW len \in 1 .. 2, TakeData(r, len)
        PROVE  LineTypes'
    <2> DEFINE n == IF len <= Len(out) THEN len ELSE Len(out)
               s == reader[r]
    <2>1. n \in 0 .. Len(out) /\ out \in Seq(Byte)
      BY DEF QueueTypes
    <2>2. /\ reader' = [reader EXCEPT ![r] = None]
          /\ rival' = [q \in Thread |-> rival[q] \/ (q # r /\ reader[q] # None)]
          /\ got' = IF link[s] = None THEN got ELSE [got EXCEPT ![s] = @ \o SubSeq(out, 1, n)]
          /\ UNCHANGED <<link, conn, spoke, conns, mixed>>
      BY <1>5 DEF TakeData, line
    <2>3. s \in Socket
      BY <1>5 DEF TakeData
    <2>4. got \in [Socket -> Seq(Byte)]
      OBVIOUS
    <2> HIDE DEF n, s
    <2>5. SubSeq(out, 1, n) \in Seq(Byte)
      BY <2>1, SplitAt
    <2>6. got[s] \in Seq(Byte)
      BY <2>3, <2>4
    <2>7. got[s] \o SubSeq(out, 1, n) \in Seq(Byte)
      BY <2>5, <2>6, ConcatProperties
    <2>8. got' \in [Socket -> Seq(Byte)]
      <3> HIDE DEF LineTypes
      <3>1. [got EXCEPT ![s] = @ \o SubSeq(out, 1, n)] \in [Socket -> Seq(Byte)]
        BY <2>4, <2>7
      <3>2. QED
        BY <2>2, <2>4, <3>1
    <2>9. reader' \in [Thread -> Socket \union {None}]
      BY <2>2
    <2>10. rival' \in [Thread -> BOOLEAN]
      BY <2>2
    <2>11. QED
      BY <2>2, <2>8, <2>9, <2>10
  <1>6. CASE UNCHANGED <<line, reading>>
    BY <1>6 DEF line, reading
  <1>7. QED
    BY <1>1, <1>2, <1>3, <1>4, <1>5, <1>6
       DEF Next, vars, tcp, Begin, Turn, Pass, Pop, HandleStream, HandleDatagram,
           SendTo, RecvFrom, PreDestroy, Joined

\* The transcript and the keys.
LEMMA NextKeyTypes ==
  ASSUME Types, [Next]_vars
  PROVE  KeyTypes'
  <1> USE DEF Types, KeyTypes
  <1>1. CASE HandleStream
    <2> DEFINE p == hand.packet
    <2>1. p \in StreamPacket
      BY <1>1, LobbyIsServer DEF HandleStream, QueueTypes, LobbyPopped, StunPopped, Stun
    <2>2. Learn(p)
      BY <1>1 DEF HandleStream
    <2> HIDE DEF p
    <2>3. \A w \in {"hello", "ack", "auth"} : Entry(p, w) \in Heard
      BY <2>1 DEF Entry, Heard, StreamPacket
    <2>4. <<Entry(p, "hello"), Entry(p, "ack")>> \in Seq(Heard)
      BY <2>3
    <2>5. transcript \o <<Entry(p, "hello"), Entry(p, "ack")>> \in Seq(Heard)
      BY <2>4, ConcatProperties
    <2>6. Append(transcript, Entry(p, "auth")) \in Seq(Heard)
      BY <2>3
    <2>7. QED
      BY <2>2, <2>5, <2>6 DEF Learn, keys
  <1>2. CASE UNCHANGED keys
    BY <1>2 DEF keys
  <1>3. QED
    BY <1>1, <1>2
       DEF Next, vars, Begin, Turn, Pass, Pop, HandleDatagram, Connect, Close, Send,
           FindData, TakeData, SendTo, RecvFrom, PreDestroy, Joined

\* The datagrams.
LEMMA NextUdpTypes ==
  ASSUME Types, [Next]_vars
  PROVE  UdpTypes'
  <1> USE DEF Types, UdpTypes
  <1>c. Cardinality(questions) \in Nat
    BY FS_CardinalityType
  <1>1. CASE HandleDatagram
    <2>1. hand.server \in Stun /\ hand.packet \in Datagram
      BY <1>1 DEF HandleDatagram, QueueTypes, LobbyPopped, StunPopped, Stun
    <2>2. \A b \in Seq(Nat \ {0}) : Append(b, hand.packet.n) \in Seq(Nat \ {0})
      BY <2>1 DEF Datagram
    <2>3. hand.packet.from \in Port
      BY <2>1 DEF Datagram
    <2>4. boxes' \in [Stun -> [Port -> Seq(Nat \ {0})]]
      BY <1>1, <2>1, <2>2, <2>3 DEF HandleDatagram, Deliver
    <2>5. QED
      BY <1>1, <2>4 DEF HandleDatagram, tcp
  <1>2. ASSUME NEW s \in Socket, NEW k \in Kind, Send(s, k)
        PROVE  UdpTypes'
    BY <1>2, <1>c DEF Send, udp
  <1>3. ASSUME NEW p \in Port, NEW v \in Stun, NEW known \in BOOLEAN, SendTo(p, v, known)
        PROVE  UdpTypes'
    <2> DEFINE q == [n |-> Number, from |-> p, to |-> v, known |-> known]
    <2>1. q \in Question
      BY <1>c DEF Question, Number
    <2>2. questions' = questions \union {q}
          /\ overlap' = [overlap EXCEPT ![p] = @ \/ \E z \in Waiting(p) : z.to # v]
          /\ UNCHANGED <<boxes, answered, sent>>
          /\ sent + Cardinality(questions) < MaxSent
      BY <1>3 DEF SendTo, tcp
    <2> HIDE DEF q
    <2>3. /\ IsFiniteSet(questions')
          /\ Cardinality(questions') \in {Cardinality(questions), Cardinality(questions) + 1}
      BY <2>2, FS_AddElement
    <2>4. QED
      BY <1>c, <2>1, <2>2, <2>3
  <1>4. ASSUME NEW p \in Port, RecvFrom(p)
        PROVE  UdpTypes'
    <2>1. PICK found \in SUBSET {v \in Stun : boxes[v][p] # <<>>} :
            /\ boxes' = [v \in Stun |->
                           IF v \in found THEN [boxes[v] EXCEPT ![p] = Tail(@)] ELSE boxes[v]]
            /\ \E last \in found : answered' = answered \union {Head(boxes[last][p])}
      BY <1>4 DEF RecvFrom
    <2>2. \A v \in found : Head(boxes[v][p]) \in Nat \ {0} /\ Tail(boxes[v][p]) \in Seq(Nat \ {0})
      <3>1. SUFFICES ASSUME NEW v \in found
                     PROVE  Head(boxes[v][p]) \in Nat \ {0} /\ Tail(boxes[v][p]) \in Seq(Nat \ {0})
        OBVIOUS
      <3>2. boxes[v][p] \in Seq(Nat \ {0}) /\ boxes[v][p] # <<>>
        OBVIOUS
      <3>3. QED
        BY <3>2, HeadTailProperties
    <2>3. boxes' \in [Stun -> [Port -> Seq(Nat \ {0})]] /\ answered' \subseteq Nat \ {0}
      BY <2>1, <2>2
    <2>4. QED
      BY <1>4, <2>3 DEF RecvFrom, tcp
  <1>5. CASE UNCHANGED <<udp, sent>>
    BY <1>5 DEF udp
  <1>6. QED
    BY <1>1, <1>2, <1>3, <1>4, <1>5
       DEF Next, vars, udp, tcp, Begin, Turn, Pass, Pop, HandleStream, Connect, Close,
           FindData, TakeData, PreDestroy, Joined

\* All of them.
LEMMA NextTypes == Types /\ [Next]_vars => Types'
  BY NextThreadTypes, NextQueueTypes, NextLineTypes, NextKeyTypes, NextUdpTypes DEF Types

\* The types hold in every reachable state.
LEMMA TypesHold == Spec => []Types
  BY InitTypes, NextTypes, PTL DEF Spec

-----------------------------------------------------------------------------
(* What the lobby has been asked and has not answered.                     *)

Asked == InHand \o in[Lobby]

NewPacket(s, k) == [n |-> sent + 1, conn |-> conn[s], kind |-> k]

\* It is a sequence of packets.
LEMMA AskedType ==
  ASSUME Types
  PROVE  /\ InHand \in Seq(StreamPacket) /\ in[Lobby] \in Seq(StreamPacket)
         /\ Asked \in Seq(StreamPacket)
         /\ hand # None /\ hand.server = Lobby =>
              hand.packet \in StreamPacket /\ InHand = <<hand.packet>>
         /\ hand = None \/ hand.server # Lobby => InHand = <<>> /\ Asked = in[Lobby]
  <1>1. in[Lobby] \in Seq(StreamPacket)
    BY DEF Types, QueueTypes
  <1>2. hand # None /\ hand.server = Lobby => hand.packet \in StreamPacket
    BY DEF Types, QueueTypes, LobbyPopped, StunPopped, Stun
  <1>3. InHand \in Seq(StreamPacket)
    <2>1. \A p \in StreamPacket : <<p>> \in Seq(StreamPacket)
      OBVIOUS
    <2>2. <<>> \in Seq(StreamPacket)
      OBVIOUS
    <2>3. QED
      BY <1>2, <2>1, <2>2 DEF InHand
  <1>4. Asked \in Seq(StreamPacket)
    BY <1>1, <1>3, ConcatProperties DEF Asked
  <1>5. <<>> \o in[Lobby] = in[Lobby]
    BY <1>1, ConcatEmptySeq
  <1>6. QED
    BY <1>1, <1>2, <1>3, <1>4, <1>5 DEF InHand, Asked

\* Popping moves a packet within it.
LEMMA AskedPop ==
  ASSUME Types, Pop
  PROVE  Asked' = Asked
  <1> DEFINE v == Head(todo)
  <1>1. v \in Server
    BY DEF Pop, Types, ThreadTypes
  <1>2. /\ hand = None /\ in[v] # <<>>
        /\ hand' = [server |-> v, packet |-> Head(in[v])]
        /\ in' = [in EXCEPT ![v] = Tail(@)]
    BY DEF Pop
  <1> HIDE DEF v
  <1>3. in \in [Server -> Seq(StreamPacket \union Datagram)] /\ in[Lobby] \in Seq(StreamPacket)
    BY DEF Types, QueueTypes
  <1>4. Asked = in[Lobby]
    BY <1>2, AskedType
  <1>5. hand' # None
    <2>1. Head(in[v]) \in StreamPacket \union Datagram
      BY <1>1, <1>2, <1>3, HeadTailProperties
    <2>2. QED
      BY <1>1, <1>2, <2>1 DEF Popped
  <1>6. CASE v = Lobby
    <2>1. InHand' = <<Head(in[Lobby])>> /\ in'[Lobby] = Tail(in[Lobby])
      BY <1>2, <1>3, <1>5, <1>6, LobbyIsServer DEF InHand
    <2>2. in[Lobby] = <<Head(in[Lobby])>> \o Tail(in[Lobby])
      <3> DEFINE t == in[Lobby]
      <3>1. t \in Seq(StreamPacket) /\ t # <<>>
        BY <1>2, <1>3, <1>6
      <3> HIDE DEF t
      <3>2. t = <<Head(t)>> \o Tail(t)
        <4>1. Head(t) \in StreamPacket /\ Tail(t) \in Seq(StreamPacket)
              /\ Len(Tail(t)) = Len(t) - 1 /\ \A i \in 1 .. Len(Tail(t)) : Tail(t)[i] = t[i + 1]
          BY <3>1, HeadTailProperties
        <4>2. <<Head(t)>> \in Seq(StreamPacket)
          BY <4>1
        <4>3. Len(<<Head(t)>>) = 1 /\ <<Head(t)>>[1] = t[1]
          OBVIOUS
        <4>4. /\ <<Head(t)>> \o Tail(t) \in Seq(StreamPacket)
              /\ Len(<<Head(t)>> \o Tail(t)) = 1 + Len(Tail(t))
              /\ \A i \in 1 .. 1 + Len(Tail(t)) : (<<Head(t)>> \o Tail(t))[i] =
                   IF i <= 1 THEN <<Head(t)>>[i] ELSE Tail(t)[i - 1]
          BY <4>1, <4>2, <4>3, ConcatProperties
        <4>5. Len(t) \in Nat /\ Len(t) # 0
          BY <3>1, EmptySeq
        <4>6. \A i \in 1 .. Len(t) : t[i] = (<<Head(t)>> \o Tail(t))[i]
          BY <4>1, <4>3, <4>4, <4>5
        <4>7. Len(t) = Len(<<Head(t)>> \o Tail(t))
          BY <4>1, <4>4, <4>5
        <4>8. QED
          BY <3>1, <4>4, <4>6, <4>7, SeqEqual
      <3>3. QED
        BY <3>2 DEF t
    <2>3. QED
      BY <1>4, <2>1, <2>2 DEF Asked
  <1>7. CASE v # Lobby
    <2>1. InHand' = <<>> /\ in'[Lobby] = in[Lobby]
      BY <1>1, <1>2, <1>3, <1>7, LobbyIsServer DEF InHand
    <2>2. <<>> \o in[Lobby] = in[Lobby]
      BY <1>3, ConcatEmptySeq
    <2>3. QED
      BY <1>4, <2>1, <2>2 DEF Asked
  <1>8. QED
    BY <1>6, <1>7

\* Handling takes its first packet.
LEMMA AskedHandle ==
  ASSUME Types, HandleStream
  PROVE  /\ Asked # <<>> /\ Head(Asked) = hand.packet /\ hand.packet \in StreamPacket
         /\ Asked' = Tail(Asked)
  <1>1. hand # None /\ hand.server = Lobby /\ hand' = None /\ in' = in
    BY DEF HandleStream
  <1> DEFINE p == hand.packet
             t == in[Lobby]
  <1>2. p \in StreamPacket /\ t \in Seq(StreamPacket) /\ InHand = <<p>>
    BY <1>1, AskedType
  <1>3. Asked = <<p>> \o t
    BY <1>2 DEF Asked
  <1>4. Asked' = <<>> \o t
    BY <1>1 DEF Asked, InHand
  <1> HIDE DEF p, t
  <1>5. <<p>> \in Seq(StreamPacket) /\ Len(<<p>>) = 1 /\ <<p>>[1] = p
    BY <1>2
  <1>6. /\ Asked \in Seq(StreamPacket)
        /\ Len(Asked) = 1 + Len(t)
        /\ \A i \in 1 .. 1 + Len(t) : Asked[i] = IF i <= 1 THEN <<p>>[i] ELSE t[i - 1]
    BY <1>2, <1>3, <1>5, ConcatProperties
  <1>7. Len(t) \in Nat
    BY <1>2
  <1>8. Asked # <<>> /\ Head(Asked) = p
    <2>1. Len(Asked) # 0
      BY <1>6, <1>7
    <2>2. Asked # <<>>
      BY <2>1, EmptySeq
    <2>3. Asked[1] = p
      BY <1>5, <1>6, <1>7
    <2>4. QED
      BY <2>2, <2>3
  <1>9. /\ Tail(Asked) \in Seq(StreamPacket) /\ Len(Tail(Asked)) = Len(Asked) - 1
        /\ \A i \in 1 .. Len(Tail(Asked)) : Tail(Asked)[i] = Asked[i + 1]
    BY <1>6, <1>8, HeadTailProperties
  <1>10. \A i \in 1 .. Len(t) : t[i] = Tail(Asked)[i]
    BY <1>6, <1>7, <1>9
  <1>11. Len(t) = Len(Tail(Asked))
    BY <1>6, <1>7, <1>9
  <1>12. t = Tail(Asked)
    BY <1>2, <1>9, <1>10, <1>11, SeqEqual
  <1>13. QED
    BY <1>2, <1>4, <1>8, <1>12, ConcatEmptySeq DEF p

\* Sending appends a packet.
LEMMA AskedSend ==
  ASSUME Types, NEW s \in Socket, NEW k \in Kind, Send(s, k)
  PROVE  NewPacket(s, k) \in StreamPacket /\ Asked' = Append(Asked, NewPacket(s, k))
  <1> DEFINE p == NewPacket(s, k)
             t == in[Lobby]
  <1>1. p \in StreamPacket
    <2>1. conn[s] \in 1 .. MaxConns
      BY DEF Send, Types, LineTypes
    <2>2. Cardinality(questions) \in Nat
      BY FS_CardinalityType DEF Types, UdpTypes
    <2>3. sent + 1 \in 1 .. MaxSent
      BY <2>2 DEF Send, Types, UdpTypes
    <2>4. QED
      BY <2>1, <2>3 DEF StreamPacket, NewPacket
  <1>2. in'[Lobby] = Append(t, p) /\ hand' = hand
    BY LobbyIsServer DEF Send, Types, QueueTypes, thread, NewPacket
  <1>3. InHand' = InHand
    BY <1>2 DEF InHand
  <1>4. Asked = InHand \o t /\ InHand \in Seq(StreamPacket) /\ t \in Seq(StreamPacket)
    BY AskedType DEF Asked
  <1>5. Asked' = InHand \o Append(t, p)
    BY <1>2, <1>3 DEF Asked
  <1> HIDE DEF p, t
  <1>6. Append(t, p) = t \o <<p>>
    BY <1>1, <1>4, AppendIsConcat
  <1>7. <<p>> \in Seq(StreamPacket)
    BY <1>1
  <1>8. InHand \o (t \o <<p>>) = (InHand \o t) \o <<p>>
    BY <1>4, <1>7, ConcatAssociative
  <1>9. Asked \in Seq(StreamPacket)
    BY AskedType
  <1>10. Append(Asked, p) = Asked \o <<p>>
    BY <1>1, <1>9, AppendIsConcat
  <1>11. QED
    BY <1>1, <1>4, <1>5, <1>6, <1>8, <1>10 DEF p

\* Nothing else changes it.
LEMMA AskedStays ==
  ASSUME Types, [Next]_vars, ~HandleStream,
         \A s \in Socket, k \in Kind : ~Send(s, k)
  PROVE  Asked' = Asked
  <1>1. CASE Pop
    BY <1>1, AskedPop
  <1>2. CASE HandleDatagram
    <2>1. hand # None /\ hand.server # Lobby /\ hand' = None /\ in' = in
      BY <1>2 DEF HandleDatagram, Stun
    <2>2. QED
      BY <2>1 DEF Asked, InHand
  <1>3. ASSUME NEW p \in Port, NEW v \in Stun, NEW known \in BOOLEAN, SendTo(p, v, known)
        PROVE  Asked' = Asked
    <2>1. in'[Lobby] = in[Lobby] /\ hand' = hand
      BY <1>3, LobbyIsServer DEF SendTo, Stun, Types, QueueTypes, thread
    <2>2. QED
      BY <2>1 DEF Asked, InHand
  <1>4. CASE UNCHANGED <<in, hand>>
    BY <1>4 DEF Asked, InHand
  <1>5. QED
    BY <1>1, <1>2, <1>3, <1>4
       DEF Next, vars, thread, Begin, Turn, Pass, Connect, Close,
           FindData, TakeData, RecvFrom, PreDestroy, Joined

-----------------------------------------------------------------------------
(* The lobby is a channel.                                                 *)

\* Reading is taking, or nothing when there was nothing left.
LEMMA TakeIsTake ==
  ASSUME Types, NEW r \in Thread, NEW len \in 1 .. 2, TakeData(r, len)
  PROVE  [\E n \in 1 .. Len(out) : C!Take(n)]_<<Asked, out, given>>
  <1> DEFINE n == IF len <= Len(out) THEN len ELSE Len(out)
  <1>1. out \in Seq(Byte) /\ given \in Seq(Byte)
    BY DEF Types, QueueTypes
  <1>2. n \in 0 .. Len(out)
    BY <1>1
  <1>3. /\ given' = given \o SubSeq(out, 1, n) /\ out' = SubSeq(out, n + 1, Len(out))
        /\ UNCHANGED <<in, hand>>
    BY DEF TakeData, Rest, thread
  <1>4. Asked' = Asked
    BY <1>3 DEF Asked, InHand
  <1> HIDE DEF n
  <1>5. CASE n = 0
    <2>1. SubSeq(out, 1, n) = <<>>
      BY <1>5, SubSeqEmpty
    <2>2. SubSeq(out, n + 1, Len(out)) = out
      BY <1>1, <1>5, SubSeqFull
    <2>3. QED
      BY <1>1, <1>3, <1>4, <2>1, <2>2, ConcatEmptySeq
  <1>6. CASE n \in 1 .. Len(out)
    BY <1>3, <1>4, <1>6 DEF C!Take, Asked
  <1>7. QED
    BY <1>2, <1>5, <1>6

\* Every step is one of the channel, or none.
LEMMA ChannelStep ==
  ASSUME Types, [Next]_vars
  PROVE  [C!Next]_<<Asked, out, given>>
  <1>1. CASE HandleStream
    <2>1. Asked # <<>> /\ Head(Asked) = hand.packet /\ Asked' = Tail(Asked)
      BY <1>1, AskedHandle
    <2>2. out' = out \o Reply[Head(Asked)] /\ given' = given
      BY <1>1, <2>1 DEF HandleStream, tcp, reading
    <2>3. QED
      BY <2>1, <2>2 DEF C!Next, C!Serve, Asked
  <1>2. ASSUME NEW s \in Socket, NEW k \in Kind, Send(s, k)
        PROVE  [C!Next]_<<Asked, out, given>>
    <2>1. NewPacket(s, k) \in StreamPacket /\ Asked' = Append(Asked, NewPacket(s, k))
      BY <1>2, AskedSend
    <2>2. UNCHANGED <<out, given>>
      BY <1>2 DEF Send, reading
    <2>3. C!Ask(NewPacket(s, k))
      BY <2>1, <2>2 DEF C!Ask, Asked
    <2>4. QED
      BY <2>1, <2>3 DEF C!Next
  <1>3. ASSUME NEW r \in Thread, NEW len \in 1 .. 2, TakeData(r, len)
        PROVE  [C!Next]_<<Asked, out, given>>
    BY <1>3, TakeIsTake DEF C!Next
  <1>4. ASSUME ~HandleStream, \A s \in Socket, k \in Kind : ~Send(s, k),
               \A r \in Thread, len \in 1 .. 2 : ~TakeData(r, len)
        PROVE  [C!Next]_<<Asked, out, given>>
    <2>1. Asked' = Asked
      BY <1>4, AskedStays
    <2>2. UNCHANGED <<out, given>>
      BY <1>4 DEF Next, vars, tcp, reading, Begin, Turn, Pass, Pop, HandleDatagram, Connect,
           Close, FindData, SendTo, RecvFrom, PreDestroy, Joined
    <2>3. QED
      BY <2>1, <2>2
  <1>5. QED
    BY <1>1, <1>2, <1>3, <1>4

\* The lobby, from what the game has sent to what it has read, is a channel
\* (IsChannel).
THEOREM LobbyIsChannel == Spec => IsChannel
  <1>1. Init => C!Init
    <2>1. Init => InHand \o in[Lobby] = <<>>
      BY LobbyIsServer DEF Init, InHand
    <2>2. QED
      BY <2>1 DEF Init, C!Init
  <1>2. Types /\ [Next]_vars => [C!Next]_C!vars
    BY ChannelStep DEF C!vars, Asked
  <1>3. QED
    BY <1>1, <1>2, TypesHold, PTL DEF Spec, IsChannel, C!Spec

-----------------------------------------------------------------------------
(* The keys.                                                               *)

\* Whether a packet asked, or an entry of the transcript, is of connection c.
AskedIn(a, c, k) == \E i \in 1 .. Len(a) : a[i].conn = c /\ a[i].kind = k
HeardIn(t, c, w) == \E i \in 1 .. Len(t) : t[i] = [conn |-> c, what |-> w]

\* A transcript in which nobody speaks twice: an acknowledgement follows its
\* hello, and an authentication comes after its hello.
WellFormed(t) ==
  /\ \A i, j \in 1 .. Len(t) : t[i] = t[j] => i = j
  /\ \A i \in 1 .. Len(t) : t[i].what = "hello" =>
       i + 1 \in 1 .. Len(t) /\ t[i + 1] = [conn |-> t[i].conn, what |-> "ack"]
  /\ \A i \in 1 .. Len(t) : t[i].what = "ack" =>
       i - 1 \in 1 .. Len(t) /\ t[i - 1] = [conn |-> t[i].conn, what |-> "hello"]
  /\ \A i \in 1 .. Len(t) : t[i].what = "auth" =>
       \E j \in 1 .. i - 1 : t[j] = [conn |-> t[i].conn, what |-> "hello"]

\* The connections that are known are numbered, and each has its socket.
Numbered ==
  /\ \A i \in 1 .. Len(Asked) : Asked[i].conn <= conns
  /\ \A i \in 1 .. Len(transcript) : transcript[i].conn <= conns
  /\ \A s, t \in Socket : link[s] # None /\ link[t] # None /\ conn[s] = conn[t] => s = t
  /\ \A s \in Socket : link[s] = None => spoke[s] = {}

\* What a socket has not said is not there, and its hello is.
SpokenIsKnown ==
  \A s \in Socket : link[s] # None =>
    /\ \A k \in {"hello", "auth"} :
         k \notin spoke[s] => ~AskedIn(Asked, conn[s], k) /\ ~HeardIn(transcript, conn[s], k)
    /\ "hello" \in spoke[s] => AskedIn(Asked, conn[s], "hello") \/ HeardIn(transcript, conn[s], "hello")

\* Nobody says hello or authenticates twice, and the hello comes first.
SaidOnce ==
  /\ \A i, j \in 1 .. Len(Asked) :
       Asked[i].kind \in {"hello", "auth"} /\ Asked[i].kind = Asked[j].kind
       /\ Asked[i].conn = Asked[j].conn => i = j
  /\ \A i \in 1 .. Len(Asked) :
       Asked[i].kind \in {"hello", "auth"} => ~HeardIn(transcript, Asked[i].conn, Asked[i].kind)
  /\ \A i \in 1 .. Len(Asked) : Asked[i].kind = "auth" =>
       \/ \E j \in 1 .. i - 1 : Asked[j].kind = "hello" /\ Asked[j].conn = Asked[i].conn
       \/ HeardIn(transcript, Asked[i].conn, "hello")

\* The keys derive from a transcript that ends with an authentication.
KeyShape == key = <<>> \/ (WellFormed(key) /\ key[Len(key)].what = "auth")

KeyInv == Numbered /\ SpokenIsKnown /\ SaidOnce /\ WellFormed(transcript) /\ KeyShape

\* A well-formed transcript of one connection that ends with its
\* authentication is that of the client.
LEMMA ShapeIsClientKey ==
  ASSUME NEW t \in Seq(Heard), t # <<>>, WellFormed(t), t[Len(t)].what = "auth",
         NEW c, \A i \in 1 .. Len(t) : t[i].conn = c
  PROVE  t = ClientKey(c)
  <1> DEFINE n == Len(t)
  <1>1. n \in Nat \ {0} /\ DOMAIN t = 1 .. n
    BY EmptySeq
  <1>2. \A i \in 1 .. n : t[i] \in Heard
    BY ElementOfSeq
  <1>3. \A i \in 1 .. n : \E w \in {"hello", "ack", "auth"} : t[i] = [conn |-> c, what |-> w]
    BY <1>2 DEF Heard
  <1>4. \A i, j \in 1 .. n : t[i].what = t[j].what => i = j
    BY <1>3 DEF WellFormed
  <1>5. PICK j \in 1 .. n - 1 : t[j] = [conn |-> c, what |-> "hello"]
    BY <1>1 DEF WellFormed
  <1>6. t[j + 1] = [conn |-> c, what |-> "ack"] /\ j + 1 \in 1 .. n
    BY <1>5 DEF WellFormed
  <1> HIDE DEF n
  <1>l. t[n].what = "auth" /\ t[j].what = "hello" /\ t[j + 1].what = "ack" /\ n \in 1 .. n
    BY <1>1, <1>5, <1>6 DEF n
  <1>7. \A i \in 1 .. n : i = j \/ i = j + 1 \/ i = n
    <2>1. SUFFICES ASSUME NEW i \in 1 .. n PROVE i = j \/ i = j + 1 \/ i = n
      OBVIOUS
    <2>2. t[i].what \in {"hello", "ack", "auth"}
      <3>1. PICK w \in {"hello", "ack", "auth"} : t[i] = [conn |-> c, what |-> w]
        BY <1>3
      <3>2. t[i].what = w
        BY <3>1
      <3>3. QED
        BY <3>2
    <2>3. j \in 1 .. n
      BY <1>1
    <2>4. CASE t[i].what = "hello"
      BY <1>4, <1>l, <2>3, <2>4
    <2>5. CASE t[i].what = "ack"
      BY <1>4, <1>6, <1>l, <2>5
    <2>6. CASE t[i].what = "auth"
      BY <1>4, <1>l, <2>6
    <2>7. QED
      BY <2>2, <2>4, <2>5, <2>6
  <1>8. j = 1
    <2>1. 1 \in 1 .. n
      BY <1>1
    <2>2. 1 = j \/ 1 = j + 1 \/ 1 = n
      BY <1>7, <2>1
    <2>3. j \in Nat \ {0} /\ j < n
      BY <1>1
    <2>4. QED
      BY <1>1, <2>2, <2>3
  <1>9. n = 3
    <2>1. n # 2
      BY <1>8, <1>l
    <2>2. n >= 3
      BY <1>1, <1>6, <1>8, <2>1
    <2>3. 3 = j \/ 3 = j + 1 \/ 3 = n
      <3>1. 3 \in 1 .. n
        BY <1>1, <2>2
      <3>2. QED
        BY <1>7, <3>1
    <2>4. QED
      BY <1>8, <2>3
  <1>10. t[3] = [conn |-> c, what |-> "auth"]
    BY <1>1, <1>3, <1>9, <1>l
  <1>11. ClientKey(c) \in Seq(Heard) /\ Len(ClientKey(c)) = 3
    <2>1. /\ [conn |-> c, what |-> "hello"] \in Heard /\ [conn |-> c, what |-> "ack"] \in Heard
          /\ [conn |-> c, what |-> "auth"] \in Heard
      BY <1>2, <1>5, <1>6, <1>9, <1>10, <1>1
    <2>2. QED
      BY <2>1 DEF ClientKey
  <1>12. \A i \in 1 .. 3 : t[i] = ClientKey(c)[i]
    BY <1>5, <1>6, <1>8, <1>10 DEF ClientKey
  <1>13. QED
    BY <1>9, <1>11, <1>12, SeqEqual DEF n

\* The invariant says what KeysAgree says.
LEMMA KeyInvImplies == Types /\ KeyShape => KeysAgree
  <1> SUFFICES ASSUME Types, KeyShape, key # <<>>,
                      \A i \in DOMAIN key : key[i].conn = Last(key).conn
               PROVE  key = ClientKey(Last(key).conn)
    BY DEF KeysAgree
  <1>1. key \in Seq(Heard)
    BY DEF Types, KeyTypes
  <1>2. DOMAIN key = 1 .. Len(key)
    BY <1>1
  <1>3. QED
    BY <1>1, <1>2, ShapeIsClientKey DEF KeyShape

\* At first.
LEMMA InitKeyInv == Init => KeyInv
  <1> SUFFICES ASSUME Init PROVE KeyInv
    OBVIOUS
  <1>1. Asked = <<>>
    BY LobbyIsServer DEF Init, Asked, InHand
  <1>2. transcript = <<>> /\ key = <<>>
    BY DEF Init
  <1>3. Len(Asked) = 0 /\ Len(transcript) = 0
    BY <1>1, <1>2
  <1>4. Numbered
    BY <1>3 DEF Numbered, Init
  <1>5. SpokenIsKnown
    BY <1>3 DEF SpokenIsKnown, Init
  <1>6. SaidOnce
    BY <1>3 DEF SaidOnce
  <1>7. WellFormed(transcript)
    BY <1>3 DEF WellFormed
  <1>8. QED
    BY <1>2, <1>4, <1>5, <1>6, <1>7 DEF KeyInv, KeyShape

\* What a step of the lobby does to what is asked and to the transcript.
LEMMA Handled ==
  ASSUME Types, HandleStream
  PROVE  LET p == Asked[1]
             n == Len(transcript)
         IN /\ Len(Asked) \in Nat \ {0} /\ n \in Nat /\ p \in StreamPacket
            /\ Len(Asked') = Len(Asked) - 1
            /\ \A i \in 1 .. Len(Asked') : Asked'[i] = Asked[i + 1]
            /\ \A i \in 1 .. n : transcript'[i] = transcript[i]
            /\ p.kind = "hello" =>
                 /\ Len(transcript') = n + 2 /\ key' = key
                 /\ transcript'[n + 1] = [conn |-> p.conn, what |-> "hello"]
                 /\ transcript'[n + 2] = [conn |-> p.conn, what |-> "ack"]
            /\ p.kind = "auth" =>
                 /\ Len(transcript') = n + 1 /\ key' = transcript'
                 /\ transcript'[n + 1] = [conn |-> p.conn, what |-> "auth"]
            /\ p.kind \notin {"hello", "auth"} => transcript' = transcript /\ key' = key
            /\ UNCHANGED <<link, conn, conns, spoke>>
  <1> DEFINE p == Asked[1]
             n == Len(transcript)
             h == <<Entry(p, "hello"), Entry(p, "ack")>>
  <1>1. Asked \in Seq(StreamPacket) /\ Asked # <<>> /\ p = hand.packet /\ Asked' = Tail(Asked)
        /\ p \in StreamPacket
    <2>1. Head(Asked) = Asked[1]
      OBVIOUS
    <2>2. QED
      BY <2>1, AskedType, AskedHandle
  <1>2. Len(Asked) \in Nat \ {0} /\ Len(Asked') = Len(Asked) - 1
        /\ \A i \in 1 .. Len(Asked') : Asked'[i] = Asked[i + 1]
    BY <1>1, HeadTailProperties, EmptySeq
  <1>3. Learn(p) /\ UNCHANGED <<link, conn, conns, spoke>>
    BY <1>1 DEF HandleStream, tcp, line
  <1>4. transcript \in Seq(Heard) /\ n \in Nat
    BY DEF Types, KeyTypes
  <1> HIDE DEF p
  <1>5. Entry(p, "hello") \in Heard /\ Entry(p, "ack") \in Heard /\ Entry(p, "auth") \in Heard
    BY <1>1 DEF Entry, Heard, StreamPacket
  <1>6. h \in Seq(Heard) /\ Len(h) = 2 /\ h[1] = Entry(p, "hello") /\ h[2] = Entry(p, "ack")
    BY <1>5
  <1>7. /\ Len(transcript \o h) = n + Len(h)
        /\ \A i \in 1 .. n + Len(h) : (transcript \o h)[i] =
             IF i <= n THEN transcript[i] ELSE h[i - n]
    BY <1>4, <1>6, ConcatProperties
  <1>8. /\ Len(transcript \o h) = n + 2
        /\ \A i \in 1 .. n : (transcript \o h)[i] = transcript[i]
        /\ (transcript \o h)[n + 1] = Entry(p, "hello")
        /\ (transcript \o h)[n + 2] = Entry(p, "ack")
    BY <1>4, <1>6, <1>7
  <1> DEFINE a == Append(transcript, Entry(p, "auth"))
  <1>9. /\ Len(a) = n + 1 /\ a[n + 1] = Entry(p, "auth")
        /\ \A i \in 1 .. n : a[i] = transcript[i]
    BY <1>4, <1>5, AppendProperties
  <1>10. p.kind = "hello" => transcript' = transcript \o h /\ key' = key
    BY <1>3 DEF Learn
  <1>11. p.kind = "auth" => transcript' = a /\ key' = transcript'
    BY <1>3 DEF Learn
  <1>12. p.kind \notin {"hello", "auth"} => transcript' = transcript /\ key' = key
    BY <1>3 DEF Learn, keys
  <1> HIDE DEF h, a, n
  <1>13. \A i \in 1 .. n : transcript'[i] = transcript[i]
    BY <1>8, <1>9, <1>10, <1>11, <1>12
  <1>14. p.kind = "hello" =>
           /\ Len(transcript') = n + 2 /\ key' = key
           /\ transcript'[n + 1] = [conn |-> p.conn, what |-> "hello"]
           /\ transcript'[n + 2] = [conn |-> p.conn, what |-> "ack"]
    BY <1>8, <1>10 DEF Entry
  <1>15. p.kind = "auth" =>
           /\ Len(transcript') = n + 1 /\ key' = transcript'
           /\ transcript'[n + 1] = [conn |-> p.conn, what |-> "auth"]
    BY <1>9, <1>11 DEF Entry
  <1>16. QED
    BY <1>1, <1>2, <1>3, <1>4, <1>12, <1>13, <1>14, <1>15 DEF p, n

\* What is heard then: what was heard, and what was first asked.
LEMMA HandledHeard ==
  ASSUME Types, HandleStream
  PROVE  /\ \A c, w : HeardIn(transcript, c, w) => HeardIn(transcript', c, w)
         /\ Asked[1].kind \in {"hello", "auth"} => HeardIn(transcript', Asked[1].conn, Asked[1].kind)
         /\ \A c, w : HeardIn(transcript', c, w) /\ w # "ack" =>
              HeardIn(transcript, c, w) \/ (Asked[1].conn = c /\ Asked[1].kind = w)
  <1> DEFINE p == Asked[1]
             n == Len(transcript)
             t == transcript
             u == transcript'
  <1>1. /\ n \in Nat /\ \A i \in 1 .. n : u[i] = t[i]
        /\ p.kind = "hello" =>
             /\ Len(u) = n + 2 /\ u[n + 1] = [conn |-> p.conn, what |-> "hello"]
             /\ u[n + 2] = [conn |-> p.conn, what |-> "ack"]
        /\ p.kind = "auth" =>
             Len(u) = n + 1 /\ u[n + 1] = [conn |-> p.conn, what |-> "auth"]
        /\ p.kind \notin {"hello", "auth"} => u = t
    BY Handled
  <1> HIDE DEF p, u
  <1>2. Len(u) = n \/ Len(u) = n + 1 \/ Len(u) = n + 2
    BY <1>1
  <1>3. ASSUME NEW c, NEW w, HeardIn(transcript, c, w)
        PROVE  \E i \in 1 .. Len(u) : u[i] = [conn |-> c, what |-> w]
    BY <1>1, <1>2, <1>3 DEF HeardIn
  <1>4. p.kind \in {"hello", "auth"} =>
          \E i \in 1 .. Len(u) : u[i] = [conn |-> p.conn, what |-> p.kind]
    BY <1>1
  <1>5. ASSUME NEW c, NEW w, w # "ack", NEW i \in 1 .. Len(u), u[i] = [conn |-> c, what |-> w]
        PROVE  HeardIn(transcript, c, w) \/ (p.conn = c /\ p.kind = w)
    <2>1. CASE i \in 1 .. n
      BY <1>1, <1>5, <2>1 DEF HeardIn
    <2>2. CASE i \notin 1 .. n
      <3>0. i = n + 1 \/ i = n + 2
        BY <1>1, <1>2, <2>2
      <3>1. Len(u) # n
        BY <1>1, <1>2, <2>2
      <3>2. p.kind = "hello" \/ p.kind = "auth"
        BY <1>1, <3>1
      <3>3. CASE p.kind = "hello"
        BY <1>1, <1>5, <3>0, <3>3
      <3>4. CASE p.kind = "auth"
        <4>1. i = n + 1
          BY <1>1, <3>0, <3>4
        <4>2. QED
          BY <1>1, <1>5, <3>4, <4>1
      <3>5. QED
        BY <3>2, <3>3, <3>4
    <2>3. QED
      BY <2>1, <2>2
  <1>6. \A c, w : HeardIn(transcript, c, w) => HeardIn(u, c, w)
    BY <1>3 DEF HeardIn
  <1>7. p.kind \in {"hello", "auth"} => HeardIn(u, p.conn, p.kind)
    BY <1>4 DEF HeardIn
  <1>8. \A c, w : HeardIn(u, c, w) /\ w # "ack" =>
          HeardIn(transcript, c, w) \/ (p.conn = c /\ p.kind = w)
    BY <1>5 DEF HeardIn
  <1>9. QED
    BY <1>6, <1>7, <1>8 DEF p, u

\* The lobby's step keeps the transcript well formed.
LEMMA HandledWellFormed ==
  ASSUME Types, HandleStream, WellFormed(transcript), SaidOnce
  PROVE  WellFormed(transcript')
  <1> DEFINE p == Asked[1]
             n == Len(transcript)
             t == transcript
             u == transcript'
  <1>1. /\ n \in Nat /\ \A i \in 1 .. n : u[i] = t[i]
        /\ p.kind = "hello" =>
             /\ Len(u) = n + 2 /\ u[n + 1] = [conn |-> p.conn, what |-> "hello"]
             /\ u[n + 2] = [conn |-> p.conn, what |-> "ack"]
        /\ p.kind = "auth" =>
             Len(u) = n + 1 /\ u[n + 1] = [conn |-> p.conn, what |-> "auth"]
        /\ p.kind \notin {"hello", "auth"} => u = t
        /\ Len(Asked) \in Nat \ {0}
    BY Handled
  <1>2. p.kind \in {"hello", "auth"} =>
          \A i \in 1 .. n : t[i] # [conn |-> p.conn, what |-> p.kind]
    <2>1. 1 \in 1 .. Len(Asked)
      BY <1>1
    <2>2. p.kind \in {"hello", "auth"} => ~HeardIn(transcript, p.conn, p.kind)
      BY <2>1 DEF SaidOnce
    <2>3. QED
      BY <2>2 DEF HeardIn
  <1>3. p.kind = "auth" => \E j \in 1 .. n : t[j] = [conn |-> p.conn, what |-> "hello"]
    BY <1>1 DEF SaidOnce, HeardIn
  <1>4. /\ \A i, j \in 1 .. n : t[i] = t[j] => i = j
        /\ \A i \in 1 .. n : t[i].what = "hello" =>
             i + 1 \in 1 .. n /\ t[i + 1] = [conn |-> t[i].conn, what |-> "ack"]
        /\ \A i \in 1 .. n : t[i].what = "ack" =>
             i - 1 \in 1 .. n /\ t[i - 1] = [conn |-> t[i].conn, what |-> "hello"]
        /\ \A i \in 1 .. n : t[i].what = "auth" =>
             \E j \in 1 .. i - 1 : t[j] = [conn |-> t[i].conn, what |-> "hello"]
    BY DEF WellFormed
  <1> HIDE DEF p, u, t, n
  <1>a. \A i \in 1 .. n : u[i].what = "auth" =>
          \E j \in 1 .. i - 1 : u[j] = [conn |-> u[i].conn, what |-> "hello"]
    <2>1. SUFFICES ASSUME NEW i \in 1 .. n, u[i].what = "auth"
                   PROVE  \E j \in 1 .. i - 1 : u[j] = [conn |-> u[i].conn, what |-> "hello"]
      OBVIOUS
    <2>2. PICK j \in 1 .. i - 1 : t[j] = [conn |-> t[i].conn, what |-> "hello"]
      BY <1>1, <1>4, <2>1
    <2>3. j \in 1 .. n /\ u[j] = t[j] /\ u[i] = t[i]
      BY <1>1
    <2>4. QED
      BY <2>2, <2>3
  <1>5. CASE p.kind = "hello"
    <2>0. \A i \in 1 .. Len(u) : i \in 1 .. n \/ i = n + 1 \/ i = n + 2
      BY <1>1, <1>5
    <2>1. \A i \in 1 .. n : t[i] # [conn |-> p.conn, what |-> "ack"]
      BY <1>2, <1>4, <1>5
    <2>2. \A i \in 1 .. n : t[i] # [conn |-> p.conn, what |-> "hello"]
      BY <1>2, <1>5
    <2>3. \A i, j \in 1 .. Len(u) : u[i] = u[j] => i = j
      <3>1. u[n + 1] # u[n + 2]
        BY <1>1, <1>5
      <3>2. \A i \in 1 .. n : u[i] # u[n + 1] /\ u[i] # u[n + 2]
        BY <1>1, <1>5, <2>1, <2>2
      <3>3. QED
        BY <1>1, <1>4, <2>0, <3>1, <3>2
    <2>4. \A i \in 1 .. Len(u) : u[i].what = "hello" =>
            i + 1 \in 1 .. Len(u) /\ u[i + 1] = [conn |-> u[i].conn, what |-> "ack"]
      <3>1. u[n + 2].what = "ack" /\ u[n + 1].conn = p.conn
        BY <1>1, <1>5
      <3>2. \A i \in 1 .. n : u[i].what = "hello" =>
              i + 1 \in 1 .. n /\ u[i + 1] = [conn |-> u[i].conn, what |-> "ack"]
        BY <1>1, <1>4
      <3>3. (n + 1) + 1 \in 1 .. Len(u) /\ u[(n + 1) + 1] = [conn |-> u[n + 1].conn, what |-> "ack"]
        BY <1>1, <1>5, <3>1
      <3>4. 1 .. n \subseteq 1 .. Len(u)
        BY <1>1, <1>5
      <3>5. QED
        BY <2>0, <3>1, <3>2, <3>3, <3>4
    <2>5. \A i \in 1 .. Len(u) : u[i].what = "ack" =>
            i - 1 \in 1 .. Len(u) /\ u[i - 1] = [conn |-> u[i].conn, what |-> "hello"]
      BY <1>1, <1>4, <1>5, <2>0
    <2>6. \A i \in 1 .. Len(u) : u[i].what = "auth" =>
            \E j \in 1 .. i - 1 : u[j] = [conn |-> u[i].conn, what |-> "hello"]
      <3>1. u[n + 1].what # "auth" /\ u[n + 2].what # "auth"
        BY <1>1, <1>5
      <3>2. QED
        BY <1>a, <2>0, <3>1
    <2>7. QED
      BY <2>3, <2>4, <2>5, <2>6 DEF WellFormed, u
  <1>6. CASE p.kind = "auth"
    <2>0. \A i \in 1 .. Len(u) : i \in 1 .. n \/ i = n + 1
      BY <1>1, <1>6
    <2>2. \A i \in 1 .. n : t[i] # [conn |-> p.conn, what |-> "auth"]
      BY <1>2, <1>6
    <2>3. \A i, j \in 1 .. Len(u) : u[i] = u[j] => i = j
      <3>2. \A i \in 1 .. n : u[i] # u[n + 1]
        BY <1>1, <1>6, <2>2
      <3>3. QED
        BY <1>1, <1>4, <2>0, <3>2
    <2>4. \A i \in 1 .. Len(u) : u[i].what = "hello" =>
            i + 1 \in 1 .. Len(u) /\ u[i + 1] = [conn |-> u[i].conn, what |-> "ack"]
      BY <1>1, <1>4, <1>6, <2>0
    <2>5. \A i \in 1 .. Len(u) : u[i].what = "ack" =>
            i - 1 \in 1 .. Len(u) /\ u[i - 1] = [conn |-> u[i].conn, what |-> "hello"]
      BY <1>1, <1>4, <1>6, <2>0
    <2>6. \A i \in 1 .. Len(u) : u[i].what = "auth" =>
            \E j \in 1 .. i - 1 : u[j] = [conn |-> u[i].conn, what |-> "hello"]
      <3>1. u[n + 1].conn = p.conn
        BY <1>1, <1>6
      <3>2. \E j \in 1 .. n : u[j] = [conn |-> p.conn, what |-> "hello"]
        BY <1>1, <1>3, <1>6
      <3>3. \E j \in 1 .. (n + 1) - 1 : u[j] = [conn |-> u[n + 1].conn, what |-> "hello"]
        BY <1>1, <3>1, <3>2
      <3>4. QED
        BY <1>a, <2>0, <3>3
    <2>7. QED
      BY <2>3, <2>4, <2>5, <2>6 DEF WellFormed, u
  <1>7. CASE p.kind \notin {"hello", "auth"}
    BY <1>1, <1>7 DEF u, t
  <1>8. QED
    BY <1>5, <1>6, <1>7

\* The lobby's step keeps the invariant of the keys.
LEMMA HandledKeyInv ==
  ASSUME Types, HandleStream, KeyInv
  PROVE  KeyInv'
  <1> DEFINE p == Asked[1]
             n == Len(transcript)
             a == Asked
             b == Asked'
             u == transcript'
  <1>1. /\ Len(a) \in Nat \ {0} /\ n \in Nat
        /\ Len(b) = Len(a) - 1 /\ \A i \in 1 .. Len(b) : b[i] = a[i + 1]
        /\ \A i \in 1 .. n : u[i] = transcript[i]
        /\ p.kind = "hello" =>
             /\ Len(u) = n + 2 /\ key' = key
             /\ u[n + 1] = [conn |-> p.conn, what |-> "hello"]
             /\ u[n + 2] = [conn |-> p.conn, what |-> "ack"]
        /\ p.kind = "auth" =>
             /\ Len(u) = n + 1 /\ key' = u
             /\ u[n + 1] = [conn |-> p.conn, what |-> "auth"]
        /\ p.kind \notin {"hello", "auth"} => u = transcript /\ key' = key
        /\ UNCHANGED <<link, conn, conns, spoke>>
    BY Handled
  <1>2. /\ \A c, w : HeardIn(transcript, c, w) => HeardIn(u, c, w)
        /\ p.kind \in {"hello", "auth"} => HeardIn(u, p.conn, p.kind)
        /\ \A c, w : HeardIn(u, c, w) /\ w # "ack" =>
             HeardIn(transcript, c, w) \/ (p.conn = c /\ p.kind = w)
    BY HandledHeard
  <1>3. WellFormed(u)
    BY HandledWellFormed DEF KeyInv
  <1>4. 1 \in 1 .. Len(a) /\ a[1] = p
    BY <1>1
  <1> HIDE DEF p, b, u
  <1>5. \A i \in 1 .. Len(b) : i + 1 \in 1 .. Len(a) /\ b[i] = a[i + 1]
    BY <1>1
  <1>6. \A c, k : AskedIn(b, c, k) => AskedIn(a, c, k)
    BY <1>5 DEF AskedIn
  <1>7. \A c, k : AskedIn(a, c, k) => AskedIn(b, c, k) \/ (p.conn = c /\ p.kind = k)
    <2>1. SUFFICES ASSUME NEW c, NEW k, NEW i \in 1 .. Len(a), a[i].conn = c, a[i].kind = k
                   PROVE  AskedIn(b, c, k) \/ (p.conn = c /\ p.kind = k)
      BY DEF AskedIn
    <2>2. CASE i = 1
      BY <1>4, <2>1, <2>2
    <2>3. CASE i # 1
      <3>1. i - 1 \in 1 .. Len(b) /\ b[i - 1] = a[i]
        BY <1>1, <2>3
      <3>2. QED
        BY <2>1, <3>1 DEF AskedIn
    <2>4. QED
      BY <2>2, <2>3
  <1>8. /\ \A i \in 1 .. Len(b) : b[i].conn <= conns
        /\ \A i \in 1 .. Len(u) : u[i].conn <= conns
    <2>1. /\ \A i \in 1 .. Len(a) : a[i].conn <= conns
          /\ \A i \in 1 .. n : transcript[i].conn <= conns
      BY DEF KeyInv, Numbered
    <2>2. p.conn <= conns
      BY <1>4, <2>1
    <2>3. \A i \in 1 .. Len(u) : i \in 1 .. n \/ u[i].conn = p.conn \/ u = transcript
      <3>1. CASE p.kind = "hello"
        <4>0. n \in Nat /\ Len(u) = n + 2
          BY <1>1, <3>1
        <4>1. \A i \in 1 .. Len(u) : i \in 1 .. n \/ i = n + 1 \/ i = n + 2
          BY <4>0
        <4>2. u[n + 1].conn = p.conn /\ u[n + 2].conn = p.conn
          BY <1>1, <3>1
        <4>3. QED
          BY <4>1, <4>2
      <3>2. CASE p.kind = "auth"
        <4>0. n \in Nat /\ Len(u) = n + 1
          BY <1>1, <3>2
        <4>1. \A i \in 1 .. Len(u) : i \in 1 .. n \/ i = n + 1
          BY <4>0
        <4>2. u[n + 1].conn = p.conn
          BY <1>1, <3>2
        <4>3. QED
          BY <4>1, <4>2
      <3>3. QED
        BY <1>1, <3>1, <3>2
    <2>4. \A i \in 1 .. Len(u) : u[i].conn <= conns
      BY <1>1, <2>1, <2>2, <2>3
    <2>5. QED
      BY <1>5, <2>1, <2>4
  <1>9. Numbered'
    <2>1. /\ \A s, t \in Socket : link[s] # None /\ link[t] # None /\ conn[s] = conn[t] => s = t
          /\ \A s \in Socket : link[s] = None => spoke[s] = {}
      BY DEF KeyInv, Numbered
    <2>2. QED
      BY <1>1, <1>8, <2>1 DEF Numbered, b, u
  <1>10. SpokenIsKnown'
    <2>1. SUFFICES ASSUME NEW s \in Socket, link[s] # None
                   PROVE  /\ \A k \in {"hello", "auth"} :
                               k \notin spoke[s] => ~AskedIn(b, conn[s], k) /\ ~HeardIn(u, conn[s], k)
                          /\ "hello" \in spoke[s] =>
                               AskedIn(b, conn[s], "hello") \/ HeardIn(u, conn[s], "hello")
      BY <1>1 DEF SpokenIsKnown, b, u
    <2>2. /\ \A k \in {"hello", "auth"} :
               k \notin spoke[s] => ~AskedIn(a, conn[s], k) /\ ~HeardIn(transcript, conn[s], k)
          /\ "hello" \in spoke[s] =>
               AskedIn(a, conn[s], "hello") \/ HeardIn(transcript, conn[s], "hello")
      BY <2>1 DEF KeyInv, SpokenIsKnown
    <2>3. AskedIn(a, p.conn, p.kind)
      BY <1>4 DEF AskedIn
    <2>4. QED
      BY <1>2, <1>6, <1>7, <2>2, <2>3
  <1>11. SaidOnce'
    <2>0. /\ \A i, j \in 1 .. Len(a) :
               a[i].kind \in {"hello", "auth"} /\ a[i].kind = a[j].kind
               /\ a[i].conn = a[j].conn => i = j
          /\ \A i \in 1 .. Len(a) :
               a[i].kind \in {"hello", "auth"} => ~HeardIn(transcript, a[i].conn, a[i].kind)
          /\ \A i \in 1 .. Len(a) : a[i].kind = "auth" =>
               \/ \E j \in 1 .. i - 1 : a[j].kind = "hello" /\ a[j].conn = a[i].conn
               \/ HeardIn(transcript, a[i].conn, "hello")
      BY DEF KeyInv, SaidOnce
    <2>1. ASSUME NEW i \in 1 .. Len(b), NEW j \in 1 .. Len(b),
                 b[i].kind \in {"hello", "auth"}, b[i].kind = b[j].kind, b[i].conn = b[j].conn
          PROVE  i = j
      <3>1. i + 1 = j + 1
        BY <1>5, <2>0, <2>1
      <3>2. QED
        BY <3>1
    <2>2. ASSUME NEW i \in 1 .. Len(b), b[i].kind \in {"hello", "auth"}
          PROVE  ~HeardIn(u, b[i].conn, b[i].kind)
      <3>1. i + 1 \in 1 .. Len(a) /\ b[i] = a[i + 1] /\ i + 1 # 1
        BY <1>5
      <3>2. ~HeardIn(transcript, b[i].conn, b[i].kind)
        BY <2>0, <2>2, <3>1
      <3>3. ~(p.conn = b[i].conn /\ p.kind = b[i].kind)
        BY <1>4, <2>0, <2>2, <3>1
      <3>4. b[i].kind # "ack"
        BY <2>2
      <3>5. QED
        BY <1>2, <3>2, <3>3, <3>4
    <2>3. ASSUME NEW i \in 1 .. Len(b), b[i].kind = "auth"
          PROVE  \/ \E j \in 1 .. i - 1 : b[j].kind = "hello" /\ b[j].conn = b[i].conn
                 \/ HeardIn(u, b[i].conn, "hello")
      <3>1. i + 1 \in 1 .. Len(a) /\ b[i] = a[i + 1]
        BY <1>5
      <3>2. CASE HeardIn(transcript, a[i + 1].conn, "hello")
        BY <1>2, <3>1, <3>2
      <3>3. ASSUME NEW j \in 1 .. (i + 1) - 1, a[j].kind = "hello", a[j].conn = a[i + 1].conn
            PROVE  \/ \E m \in 1 .. i - 1 : b[m].kind = "hello" /\ b[m].conn = b[i].conn
                   \/ HeardIn(u, b[i].conn, "hello")
        <4>1. CASE j = 1
          BY <1>2, <1>4, <3>1, <3>3, <4>1
        <4>2. CASE j # 1
          <5>1. j - 1 \in 1 .. i - 1 /\ j - 1 \in 1 .. Len(b) /\ (j - 1) + 1 = j
            BY <1>1, <4>2
          <5>2. b[j - 1] = a[j]
            BY <1>5, <5>1
          <5>3. QED
            BY <3>1, <3>3, <5>1, <5>2
        <4>3. QED
          BY <4>1, <4>2
      <3>4. QED
        BY <2>0, <2>3, <3>1, <3>2, <3>3
    <2>4. QED
      BY <2>1, <2>2, <2>3 DEF SaidOnce, b, u
  <1>12. KeyShape'
    <2>1. CASE p.kind = "auth"
      <3>1. u[Len(u)].what = "auth"
        BY <1>1, <2>1
      <3>2. key' = u
        BY <1>1, <2>1
      <3>3. QED
        BY <1>3, <3>1, <3>2 DEF KeyShape, u
    <2>2. CASE p.kind # "auth"
      <3>1. key' = key
        BY <1>1, <2>2
      <3>2. QED
        BY <3>1 DEF KeyInv, KeyShape, WellFormed
    <2>3. QED
      BY <2>1, <2>2
  <1>13. QED
    BY <1>3, <1>9, <1>10, <1>11, <1>12 DEF KeyInv, u

\* Sending keeps it, because the client says hello and authenticates once.
LEMMA SentKeyInv ==
  ASSUME Types, NEW s \in Socket, NEW k \in Kind, Send(s, k), KeyInv
  PROVE  KeyInv'
  <1> DEFINE p == NewPacket(s, k)
             a == Asked
             b == Asked'
  <1>1. /\ p \in StreamPacket /\ b = Append(a, p) /\ a \in Seq(StreamPacket)
        /\ UNCHANGED <<transcript, key, link, conn, conns>>
        /\ spoke' = [spoke EXCEPT ![s] = @ \union {k}]
        /\ link[s] # None /\ MaySay(s, k)
    BY AskedSend, AskedType DEF Send, keys
  <1>2. p.conn = conn[s] /\ p.kind = k
    BY DEF NewPacket
  <1>3. spoke \in [Socket -> SUBSET Kind] /\ conn[s] \in 1 .. conns /\ conns \in Nat
    BY <1>1 DEF Types, LineTypes
  <1> HIDE DEF p, a, b
  <1>4. /\ Len(a) \in Nat /\ Len(b) = Len(a) + 1 /\ b[Len(a) + 1] = p
        /\ \A i \in 1 .. Len(a) : b[i] = a[i]
    BY <1>1, AppendProperties
  <1>5. \A i \in 1 .. Len(b) : i \in 1 .. Len(a) \/ i = Len(a) + 1
    BY <1>4
  <1>6. \A c, w : AskedIn(a, c, w) => AskedIn(b, c, w)
    BY <1>4 DEF AskedIn
  <1>7. \A c, w : AskedIn(b, c, w) => AskedIn(a, c, w) \/ (c = conn[s] /\ w = k)
    BY <1>2, <1>4, <1>5 DEF AskedIn
  <1>8. AskedIn(b, conn[s], k)
    BY <1>2, <1>4 DEF AskedIn
  <1>9. /\ k \in {"hello", "auth"} => k \notin spoke[s]
        /\ k # "hello" => "hello" \in spoke[s]
    BY <1>1 DEF MaySay, Kind
  <1>10. k \in {"hello", "auth"} => ~AskedIn(a, conn[s], k) /\ ~HeardIn(transcript, conn[s], k)
    BY <1>1, <1>9 DEF KeyInv, SpokenIsKnown, a
  <1>11. Numbered'
    <2>1. /\ \A i \in 1 .. Len(a) : a[i].conn <= conns
          /\ \A i \in 1 .. Len(transcript) : transcript[i].conn <= conns
          /\ \A x, y \in Socket : link[x] # None /\ link[y] # None /\ conn[x] = conn[y] => x = y
          /\ \A x \in Socket : link[x] = None => spoke[x] = {}
      BY DEF KeyInv, Numbered, a
    <2>2. \A i \in 1 .. Len(b) : b[i].conn <= conns
      BY <1>2, <1>3, <1>4, <1>5, <2>1
    <2>3. \A x \in Socket : link[x] = None => spoke'[x] = {}
      BY <1>1, <1>3, <2>1
    <2>4. QED
      BY <1>1, <2>1, <2>2, <2>3 DEF Numbered, b
  <1>12. SpokenIsKnown'
    <2>1. SUFFICES ASSUME NEW t \in Socket, link[t] # None
                   PROVE  /\ \A w \in {"hello", "auth"} :
                               w \notin spoke'[t] =>
                                 ~AskedIn(b, conn[t], w) /\ ~HeardIn(transcript, conn[t], w)
                          /\ "hello" \in spoke'[t] =>
                               AskedIn(b, conn[t], "hello") \/ HeardIn(transcript, conn[t], "hello")
      BY <1>1 DEF SpokenIsKnown, b
    <2>2. /\ \A w \in {"hello", "auth"} :
               w \notin spoke[t] => ~AskedIn(a, conn[t], w) /\ ~HeardIn(transcript, conn[t], w)
          /\ "hello" \in spoke[t] =>
               AskedIn(a, conn[t], "hello") \/ HeardIn(transcript, conn[t], "hello")
      BY <2>1 DEF KeyInv, SpokenIsKnown, a
    <2>3. CASE t = s
      <3>1. spoke'[t] = spoke[t] \union {k}
        BY <1>1, <1>3, <2>3
      <3>2. QED
        BY <1>6, <1>7, <1>8, <2>2, <2>3, <3>1
    <2>4. CASE t # s
      <3>1. spoke'[t] = spoke[t]
        BY <1>1, <1>3, <2>4
      <3>2. conn[t] # conn[s]
        BY <1>1, <2>1, <2>4 DEF KeyInv, Numbered
      <3>3. QED
        BY <1>6, <1>7, <2>2, <3>1, <3>2
    <2>5. QED
      BY <2>3, <2>4
  <1>13. SaidOnce'
    <2>0. /\ \A i, j \in 1 .. Len(a) :
               a[i].kind \in {"hello", "auth"} /\ a[i].kind = a[j].kind
               /\ a[i].conn = a[j].conn => i = j
          /\ \A i \in 1 .. Len(a) :
               a[i].kind \in {"hello", "auth"} => ~HeardIn(transcript, a[i].conn, a[i].kind)
          /\ \A i \in 1 .. Len(a) : a[i].kind = "auth" =>
               \/ \E j \in 1 .. i - 1 : a[j].kind = "hello" /\ a[j].conn = a[i].conn
               \/ HeardIn(transcript, a[i].conn, "hello")
      BY DEF KeyInv, SaidOnce, a
    <2>n. k \in {"hello", "auth"} =>
            \A i \in 1 .. Len(a) : ~(a[i].conn = conn[s] /\ a[i].kind = k)
      BY <1>10 DEF AskedIn
    <2>1. ASSUME NEW i \in 1 .. Len(b), NEW j \in 1 .. Len(b),
                 b[i].kind \in {"hello", "auth"}, b[i].kind = b[j].kind, b[i].conn = b[j].conn
          PROVE  i = j
      <3>1. CASE i \in 1 .. Len(a) /\ j \in 1 .. Len(a)
        BY <1>4, <2>0, <2>1, <3>1
      <3>2. CASE i \in 1 .. Len(a) /\ j = Len(a) + 1
        BY <1>2, <1>4, <2>1, <2>n, <3>2
      <3>3. CASE i = Len(a) + 1 /\ j \in 1 .. Len(a)
        BY <1>2, <1>4, <2>1, <2>n, <3>3
      <3>4. QED
        BY <1>5, <3>1, <3>2, <3>3
    <2>2. ASSUME NEW i \in 1 .. Len(b), b[i].kind \in {"hello", "auth"}
          PROVE  ~HeardIn(transcript, b[i].conn, b[i].kind)
      BY <1>2, <1>4, <1>5, <1>10, <2>0, <2>2
    <2>3. ASSUME NEW i \in 1 .. Len(b), b[i].kind = "auth"
          PROVE  \/ \E j \in 1 .. i - 1 : b[j].kind = "hello" /\ b[j].conn = b[i].conn
                 \/ HeardIn(transcript, b[i].conn, "hello")
      <3>1. CASE i \in 1 .. Len(a)
        <4>1. \A j \in 1 .. i - 1 : b[j] = a[j]
          BY <1>4, <3>1
        <4>2. b[i] = a[i]
          BY <1>4, <3>1
        <4>3. QED
          BY <2>0, <2>3, <3>1, <4>1, <4>2
      <3>2. CASE i = Len(a) + 1
        <4>1. k = "auth" /\ b[i].conn = conn[s]
          BY <1>2, <1>4, <2>3, <3>2
        <4>2. AskedIn(a, conn[s], "hello") \/ HeardIn(transcript, conn[s], "hello")
          BY <1>1, <1>9, <4>1 DEF KeyInv, SpokenIsKnown, a
        <4>3. CASE AskedIn(a, conn[s], "hello")
          <5>1. PICK j \in 1 .. Len(a) : a[j].conn = conn[s] /\ a[j].kind = "hello"
            BY <4>3 DEF AskedIn
          <5>2. j \in 1 .. i - 1 /\ b[j] = a[j]
            BY <1>4, <3>2
          <5>3. QED
            BY <4>1, <5>1, <5>2
        <4>4. QED
          BY <4>1, <4>2, <4>3
      <3>3. QED
        BY <1>5, <3>1, <3>2
    <2>4. QED
      BY <1>1, <2>1, <2>2, <2>3 DEF SaidOnce, b
  <1>14. QED
    BY <1>1, <1>11, <1>12, <1>13 DEF KeyInv, KeyShape, WellFormed

\* Every step keeps it.
LEMMA NextKeyInv ==
  ASSUME Types, [Next]_vars, KeyInv
  PROVE  KeyInv'
  <1>1. CASE HandleStream
    BY <1>1, HandledKeyInv
  <1>2. ASSUME NEW s \in Socket, NEW k \in Kind, Send(s, k)
        PROVE  KeyInv'
    BY <1>2, SentKeyInv
  <1>3. ASSUME NEW s \in Socket, Connect(s)
        PROVE  KeyInv'
    <2>1. Asked' = Asked
      BY <1>3 DEF Connect, thread, Asked, InHand
    <2>2. /\ link[s] = None /\ link' = [link EXCEPT ![s] = Lobby]
          /\ conns' = conns + 1 /\ conn' = [conn EXCEPT ![s] = conns + 1]
          /\ UNCHANGED <<transcript, key, spoke>>
      BY <1>3 DEF Connect, keys
    <2>3. /\ link \in [Socket -> {Lobby, None}] /\ conns \in Nat
          /\ conn \in [Socket -> 0 .. MaxConns]
          /\ \A t \in Socket : link[t] # None => conn[t] \in 1 .. conns
      BY DEF Types, LineTypes
    <2>4. /\ \A i \in 1 .. Len(Asked) : Asked[i] \in StreamPacket
          /\ \A i \in 1 .. Len(transcript) : transcript[i] \in Heard
      BY AskedType, ElementOfSeq DEF Types, KeyTypes
    <2>5. /\ \A i \in 1 .. Len(Asked) : Asked[i].conn <= conns /\ Asked[i].conn \in Nat
          /\ \A i \in 1 .. Len(transcript) : transcript[i].conn <= conns /\ transcript[i].conn \in Nat
          /\ \A x, y \in Socket : link[x] # None /\ link[y] # None /\ conn[x] = conn[y] => x = y
          /\ \A x \in Socket : link[x] = None => spoke[x] = {}
      BY <2>4 DEF KeyInv, Numbered, StreamPacket, Heard
    <2>6. /\ \A i \in 1 .. Len(Asked) : Asked[i].conn <= conns + 1
          /\ \A i \in 1 .. Len(transcript) : transcript[i].conn <= conns + 1
      <3>1. \A n \in Nat : n <= conns => n <= conns + 1
        BY <2>3
      <3>2. QED
        BY <2>5, <3>1
    <2>7. \A x, y \in Socket : link'[x] # None /\ link'[y] # None /\ conn'[x] = conn'[y] => x = y
      BY <2>2, <2>3, <2>5
    <2>8. \A x \in Socket : link'[x] = None => spoke'[x] = {}
      BY <2>2, <2>3, <2>5, LobbyIsServer
    <2>9. Numbered'
      BY <2>1, <2>2, <2>6, <2>7, <2>8 DEF Numbered
    <2>10. \A w : ~AskedIn(Asked, conns + 1, w) /\ ~HeardIn(transcript, conns + 1, w)
      <3>1. \A i \in 1 .. Len(Asked) : Asked[i].conn # conns + 1
        BY <2>3, <2>5
      <3>2. \A i \in 1 .. Len(transcript) : transcript[i].conn # conns + 1
        BY <2>3, <2>5
      <3>3. QED
        BY <3>1, <3>2 DEF AskedIn, HeardIn
    <2>11. SpokenIsKnown'
      <3>1. SUFFICES ASSUME NEW t \in Socket, link'[t] # None
                     PROVE  /\ \A w \in {"hello", "auth"} :
                                 w \notin spoke[t] => ~AskedIn(Asked, conn'[t], w)
                                                      /\ ~HeardIn(transcript, conn'[t], w)
                            /\ "hello" \in spoke[t] => AskedIn(Asked, conn'[t], "hello")
                                                       \/ HeardIn(transcript, conn'[t], "hello")
        BY <2>1, <2>2 DEF SpokenIsKnown
      <3>2. CASE t = s
        <4>1. conn'[t] = conns + 1 /\ spoke[t] = {}
          BY <2>2, <2>3, <2>5, <3>2
        <4>2. QED
          BY <2>10, <4>1
      <3>3. CASE t # s
        <4>1. conn'[t] = conn[t] /\ link[t] # None
          BY <2>2, <2>3, <3>1, <3>3
        <4>2. QED
          BY <4>1 DEF KeyInv, SpokenIsKnown
      <3>4. QED
        BY <3>2, <3>3
    <2>12. QED
      BY <2>1, <2>2, <2>9, <2>11 DEF KeyInv, SaidOnce, KeyShape, WellFormed
  <1>4. ASSUME NEW s \in Socket, Close(s)
        PROVE  KeyInv'
    <2>1. Asked' = Asked
      BY <1>4 DEF Close, thread, Asked, InHand
    <2>2. /\ link' = [link EXCEPT ![s] = None] /\ conn' = [conn EXCEPT ![s] = 0]
          /\ spoke' = [spoke EXCEPT ![s] = {}] /\ UNCHANGED <<transcript, key, conns>>
      BY <1>4 DEF Close, keys
    <2>3. /\ link \in [Socket -> {Lobby, None}] /\ conn \in [Socket -> 0 .. MaxConns]
          /\ spoke \in [Socket -> SUBSET Kind]
      BY DEF Types, LineTypes
    <2>4. Numbered'
      <3>1. /\ \A x, y \in Socket : link[x] # None /\ link[y] # None /\ conn[x] = conn[y] => x = y
            /\ \A x \in Socket : link[x] = None => spoke[x] = {}
        BY DEF KeyInv, Numbered
      <3>2. /\ \A x, y \in Socket : link'[x] # None /\ link'[y] # None /\ conn'[x] = conn'[y] => x = y
            /\ \A x \in Socket : link'[x] = None => spoke'[x] = {}
        BY <2>2, <2>3, <3>1
      <3>3. QED
        BY <2>1, <2>2, <3>2 DEF KeyInv, Numbered
    <2>5. SpokenIsKnown'
      <3>1. SUFFICES ASSUME NEW t \in Socket, link'[t] # None
                     PROVE  /\ \A w \in {"hello", "auth"} :
                                 w \notin spoke'[t] => ~AskedIn(Asked, conn'[t], w)
                                                      /\ ~HeardIn(transcript, conn'[t], w)
                            /\ "hello" \in spoke'[t] => AskedIn(Asked, conn'[t], "hello")
                                                       \/ HeardIn(transcript, conn'[t], "hello")
        BY <2>1, <2>2 DEF SpokenIsKnown
      <3>2. t # s /\ link[t] # None /\ conn'[t] = conn[t] /\ spoke'[t] = spoke[t]
        BY <2>2, <2>3, <3>1
      <3>3. QED
        BY <3>2 DEF KeyInv, SpokenIsKnown
    <2>6. transcript' = transcript /\ key' = key
      BY <2>2
    <2>7. SaidOnce'
      BY <2>1, <2>6 DEF KeyInv, SaidOnce
    <2>8. WellFormed(transcript)' /\ KeyShape'
      BY <2>6 DEF KeyInv, KeyShape, WellFormed
    <2>9. QED
      BY <2>4, <2>5, <2>7, <2>8 DEF KeyInv
  <1>5. ASSUME ~HandleStream, \A s \in Socket, k \in Kind : ~Send(s, k),
               \A s \in Socket : ~Connect(s) /\ ~Close(s)
        PROVE  KeyInv'
    <2>1. Asked' = Asked
      BY <1>5, AskedStays
    <2>2. UNCHANGED <<link, conn, conns, spoke, transcript, key>>
      BY <1>5 DEF Next, vars, tcp, line, keys, Begin, Turn, Pass, Pop, HandleDatagram,
           FindData, TakeData, SendTo, RecvFrom, PreDestroy, Joined
    <2>3. QED
      BY <2>1, <2>2 DEF KeyInv, Numbered, SpokenIsKnown, SaidOnce, KeyShape, WellFormed,
           AskedIn, HeardIn
  <1>6. QED
    BY <1>1, <1>2, <1>3, <1>4, <1>5

\* Keys that derive from one connection are those of its client, however the
\* connections, the thread and the packets interleave (KeysAgree).
THEOREM KeysAreTheClients == Spec => []KeysAgree
  <1>1. Types /\ KeyInv /\ [Next]_vars => KeyInv'
    BY NextKeyInv
  <1>2. Types /\ KeyInv => KeysAgree
    BY KeyInvImplies DEF KeyInv
  <1>3. QED
    BY <1>1, <1>2, InitKeyInv, TypesHold, PTL DEF Spec

-----------------------------------------------------------------------------
(* A connection's own bytes.                                               *)

\* What a socket's connection has read, and what it is going to read.
Flow(s) == got[s] \o out

Before(x, y) == x.n < y.n \/ (x.n = y.n /\ x.i < y.i)

\* The bytes f are of connection c and in order, and so are the packets a
\* that are to be answered after them; m packets were sent.
InLine(f, a, c, m) ==
  /\ \A i \in 1 .. Len(f) : f[i].conn = c /\ f[i].n <= m
  /\ \A i, j \in 1 .. Len(f) : i < j => Before(f[i], f[j])
  /\ \A i \in 1 .. Len(a) : a[i].conn = c /\ a[i].n <= m
  /\ \A i, j \in 1 .. Len(a) : i < j => a[i].n < a[j].n
  /\ \A i \in 1 .. Len(f), j \in 1 .. Len(a) : f[i].n < a[j].n

Own(s) ==
  /\ \A t \in Socket : t # s => link[t] = None
  /\ \A r \in Thread : reader[r] \in {None, s}
  /\ InLine(Flow(s), Asked, conn[s], sent)

OwnInv ==
  /\ \A s \in Socket : link[s] = None => got[s] = <<>>
  /\ \A s \in Socket : link[s] # None /\ ~mixed[s] => Own(s)
  /\ \A r \in Thread : reader[r] # None /\ ~rival[r] => out # <<>>

\* The numbers of bytes and packets.
LEMMA NumbersAreNat ==
  /\ \A x \in Byte : x.n \in Nat
  /\ \A x \in StreamPacket : x.n \in Nat
  <1>1. ASSUME NEW x \in Byte PROVE x.n \in 1 .. MaxSent
    BY DEF Byte
  <1>2. ASSUME NEW x \in StreamPacket PROVE x.n \in 1 .. MaxSent
    BY DEF StreamPacket
  <1>3. 1 .. MaxSent \subseteq Nat
    OBVIOUS
  <1>4. QED
    BY <1>1, <1>2, <1>3

\* Another packet is sent.
LEMMA InLineSend ==
  ASSUME NEW f \in Seq(Byte), NEW a \in Seq(StreamPacket), NEW p \in StreamPacket, NEW c,
         NEW m \in Nat, InLine(f, a, c, m), p.n = m + 1, p.conn = c
  PROVE  InLine(f, Append(a, p), c, m + 1)
  <1> DEFINE b == Append(a, p)
  <1>1. /\ Len(a) \in Nat /\ Len(b) = Len(a) + 1 /\ b[Len(a) + 1] = p
        /\ \A i \in 1 .. Len(a) : b[i] = a[i]
    BY AppendProperties
  <1>2. /\ \A i \in 1 .. Len(f) : f[i].n \in Nat
        /\ \A i \in 1 .. Len(a) : a[i].n \in Nat
    <2>1. /\ \A i \in 1 .. Len(f) : f[i] \in Byte
          /\ \A i \in 1 .. Len(a) : a[i] \in StreamPacket
      BY ElementOfSeq
    <2>2. QED
      BY <2>1, NumbersAreNat
  <1> HIDE DEF b
  <1>3. \A i \in 1 .. Len(b) : i \in 1 .. Len(a) \/ i = Len(a) + 1
    BY <1>1
  <1>4. \A i \in 1 .. Len(f) : f[i].conn = c /\ f[i].n <= m + 1
    BY <1>2 DEF InLine
  <1>5. \A i \in 1 .. Len(b) : b[i].conn = c /\ b[i].n <= m + 1
    BY <1>1, <1>2, <1>3 DEF InLine
  <1>6. \A i, j \in 1 .. Len(b) : i < j => b[i].n < b[j].n
    <2>1. \A i \in 1 .. Len(a) : b[i].n < m + 1
      BY <1>1, <1>2 DEF InLine
    <2>2. \A i, j \in 1 .. Len(a) : i < j => b[i].n < b[j].n
      BY <1>1 DEF InLine
    <2>3. QED
      BY <1>1, <1>3, <2>1, <2>2
  <1>7. \A i \in 1 .. Len(f), j \in 1 .. Len(b) : f[i].n < b[j].n
    <2>1. \A i \in 1 .. Len(f) : f[i].n < m + 1
      BY <1>2 DEF InLine
    <2>2. \A i \in 1 .. Len(f), j \in 1 .. Len(a) : f[i].n < b[j].n
      BY <1>1 DEF InLine
    <2>3. QED
      BY <1>1, <1>3, <2>1, <2>2
  <1>8. QED
    BY <1>4, <1>5, <1>6, <1>7 DEF InLine, b

\* The first packet is answered.
LEMMA InLineHandle ==
  ASSUME NEW f \in Seq(Byte), NEW a \in Seq(StreamPacket), NEW c, NEW m \in Nat,
         InLine(f, a, c, m), a # <<>>
  PROVE  InLine(f \o Reply[Head(a)], Tail(a), c, m)
  <1> DEFINE p == Head(a)
             q == Reply[Head(a)]
             g == f \o q
             b == Tail(a)
  <1>1. /\ Len(a) \in Nat /\ Len(b) = Len(a) - 1 /\ p = a[1] /\ p \in StreamPacket
        /\ \A i \in 1 .. Len(b) : b[i] = a[i + 1]
    <2>1. Head(a) = a[1]
      OBVIOUS
    <2>2. QED
      BY <2>1, HeadTailProperties
  <1>e. Len(a) # 0
    BY EmptySeq
  <1>2. /\ q \in Seq(Byte)
        /\ \A i \in 1 .. Len(q) : q[i] = [n |-> p.n, conn |-> p.conn, i |-> i, kind |-> p.kind]
    BY <1>1, ReplyIs
  <1> HIDE DEF q
  <1>3. /\ Len(f) \in Nat /\ Len(q) \in Nat /\ Len(g) = Len(f) + Len(q)
        /\ \A i \in 1 .. Len(f) + Len(q) : g[i] = IF i <= Len(f) THEN f[i] ELSE q[i - Len(f)]
    BY <1>2, ConcatProperties
  <1> HIDE DEF p, g, b
  <1>4. /\ \A i \in 1 .. Len(f) : f[i].n \in Nat
        /\ \A i \in 1 .. Len(a) : a[i].n \in Nat
        /\ p.n \in Nat
    <2>1. /\ \A i \in 1 .. Len(f) : f[i] \in Byte
          /\ \A i \in 1 .. Len(a) : a[i] \in StreamPacket
      BY ElementOfSeq
    <2>2. QED
      BY <1>1, <2>1, NumbersAreNat
  <1>5. \A i \in 1 .. Len(g) :
          \/ i \in 1 .. Len(f) /\ g[i] = f[i]
          \/ /\ i \notin 1 .. Len(f) /\ i - Len(f) \in 1 .. Len(q)
             /\ g[i] = q[i - Len(f)]
    BY <1>3
  <1>q. ASSUME NEW i \in 1 .. Len(q)
        PROVE  q[i].n = p.n /\ q[i].conn = p.conn /\ q[i].i = i
    <2>1. q[i] = [n |-> p.n, conn |-> p.conn, i |-> i, kind |-> p.kind]
      BY <1>2
    <2>2. QED
      BY <2>1
  <1>6. \A i \in 1 .. Len(g) : i \notin 1 .. Len(f) =>
          g[i].n = p.n /\ g[i].conn = p.conn /\ g[i].i = i - Len(f)
    BY <1>5, <1>q
  <1>f. \A i \in 1 .. Len(f) : i \in 1 .. Len(g) /\ g[i] = f[i]
    BY <1>3
  <1>7. \A i \in 1 .. Len(b) : i + 1 \in 1 .. Len(a) /\ b[i] = a[i + 1] /\ 1 < i + 1
    BY <1>1
  <1>8. 1 \in 1 .. Len(a) /\ p = a[1]
    BY <1>1, <1>e
  <1>9. \A i \in 1 .. Len(g) : g[i].conn = c /\ g[i].n <= m
    BY <1>6, <1>8, <1>f DEF InLine
  <1>10. \A i, j \in 1 .. Len(g) : i < j => Before(g[i], g[j])
    <2>1. SUFFICES ASSUME NEW i \in 1 .. Len(g), NEW j \in 1 .. Len(g), i < j
                   PROVE  Before(g[i], g[j])
      OBVIOUS
    <2>2. CASE i \in 1 .. Len(f) /\ j \in 1 .. Len(f)
      <3>1. g[i] = f[i] /\ g[j] = f[j]
        BY <1>f, <2>2
      <3>2. Before(f[i], f[j])
        BY <2>1, <2>2 DEF InLine
      <3>3. QED
        BY <3>1, <3>2
    <2>3. CASE i \in 1 .. Len(f) /\ j \notin 1 .. Len(f)
      <3>1. g[i] = f[i] /\ g[j].n = p.n
        BY <1>6, <1>f, <2>3
      <3>2. f[i].n < p.n
        BY <1>8, <2>3 DEF InLine
      <3>3. QED
        BY <3>1, <3>2 DEF Before
    <2>4. CASE i \notin 1 .. Len(f)
      <3>1. j \notin 1 .. Len(f)
        BY <1>3, <2>1, <2>4
      <3>2. g[i].n = p.n /\ g[j].n = p.n /\ g[i].i = i - Len(f) /\ g[j].i = j - Len(f)
        BY <1>6, <2>4, <3>1
      <3>3. i - Len(f) < j - Len(f)
        BY <1>3, <2>1
      <3>4. QED
        BY <3>2, <3>3 DEF Before
    <2>5. QED
      BY <2>2, <2>3, <2>4
  <1>11. \A i \in 1 .. Len(b) : b[i].conn = c /\ b[i].n <= m
    BY <1>7 DEF InLine
  <1>12. \A i, j \in 1 .. Len(b) : i < j => b[i].n < b[j].n
    <2>1. SUFFICES ASSUME NEW i \in 1 .. Len(b), NEW j \in 1 .. Len(b), i < j
                   PROVE  b[i].n < b[j].n
      OBVIOUS
    <2>2. i + 1 < j + 1
      BY <2>1
    <2>3. QED
      BY <1>7, <2>2 DEF InLine
  <1>13. \A i \in 1 .. Len(g), j \in 1 .. Len(b) : g[i].n < b[j].n
    <2>1. \A j \in 1 .. Len(b) : p.n < b[j].n
      BY <1>7, <1>8 DEF InLine
    <2>2. \A i \in 1 .. Len(f), j \in 1 .. Len(b) : f[i].n < b[j].n
      BY <1>7 DEF InLine
    <2>3. QED
      BY <1>6, <1>f, <2>1, <2>2
  <1>14. QED
    BY <1>9, <1>10, <1>11, <1>12, <1>13 DEF InLine, g, b, q

\* The invariant says what StreamIsOwn says.
LEMMA OwnInvImplies == Types /\ OwnInv => StreamIsOwn
  <1> SUFFICES ASSUME Types, OwnInv PROVE StreamIsOwn
    OBVIOUS
  <1>1. ASSUME NEW s \in Socket, link[s] # None, ~mixed[s]
        PROVE  OwnBytes(s)
    <2>1. got[s] \in Seq(Byte) /\ out \in Seq(Byte)
      BY DEF Types, LineTypes, QueueTypes
    <2>2. /\ Len(Flow(s)) = Len(got[s]) + Len(out)
          /\ \A i \in 1 .. Len(got[s]) + Len(out) : Flow(s)[i] =
               IF i <= Len(got[s]) THEN got[s][i] ELSE out[i - Len(got[s])]
      BY <2>1, ConcatProperties DEF Flow
    <2>3. Len(got[s]) \in Nat /\ Len(out) \in Nat /\ DOMAIN got[s] = 1 .. Len(got[s])
      BY <2>1
    <2>4. \A i \in 1 .. Len(got[s]) : i \in 1 .. Len(Flow(s)) /\ Flow(s)[i] = got[s][i]
      BY <2>2, <2>3
    <2>5. InLine(Flow(s), Asked, conn[s], sent)
      BY <1>1 DEF OwnInv, Own
    <2>6. \A i \in DOMAIN got[s] : got[s][i].conn = conn[s]
      BY <2>3, <2>4, <2>5 DEF InLine
    <2>7. \A i, j \in DOMAIN got[s] : i < j => Before(got[s][i], got[s][j])
      BY <2>3, <2>4, <2>5 DEF InLine
    <2>8. QED
      BY <2>6, <2>7 DEF OwnBytes, Before
  <1>2. QED
    BY <1>1 DEF StreamIsOwn, OwnInv

\* At first.
LEMMA InitOwnInv == Init => OwnInv
  BY DEF Init, OwnInv

\* Reading moves bytes within a connection's flow.
LEMMA TakenFlow ==
  ASSUME Types, NEW r \in Thread, NEW len \in 1 .. 2, TakeData(r, len),
         NEW s \in Socket, reader[r] = s, link[s] # None
  PROVE  Flow(s)' = Flow(s)
  <1> DEFINE n == IF len <= Len(out) THEN len ELSE Len(out)
             x == SubSeq(out, 1, n)
             y == SubSeq(out, n + 1, Len(out))
  <1>1. out \in Seq(Byte) /\ got \in [Socket -> Seq(Byte)]
    BY DEF Types, QueueTypes, LineTypes
  <1>2. got[s] \in Seq(Byte)
    BY <1>1
  <1>3. n \in 0 .. Len(out) /\ Len(out) \in Nat
    BY <1>1
  <1>4. out' = y /\ got' = [got EXCEPT ![s] = @ \o x]
    BY DEF TakeData, Rest
  <1>5. got'[s] = got[s] \o x
    BY <1>1, <1>4
  <1> HIDE DEF n
  <1>6. x \in Seq(Byte) /\ y \in Seq(Byte)
    BY <1>1, <1>3, SplitAt
  <1>7. x \o y = out
    <2>1. x \o y = SubSeq(out, 1, Len(out))
      <3>1. 1 \in 1 .. Len(out) + 1 /\ n \in 1 - 1 .. Len(out) /\ Len(out) \in n .. Len(out)
        BY <1>3
      <3>2. QED
        BY <1>1, <3>1, ConcatAdjacentSubSeq
    <2>2. QED
      BY <1>1, <2>1, SubSeqFull
  <1> DEFINE g == got[s]
  <1> HIDE DEF x, y, g
  <1>8. (g \o x) \o y = g \o (x \o y)
    <2>1. g \in Seq(Byte)
      BY <1>2 DEF g
    <2>2. QED
      BY <1>6, <2>1, ConcatAssociative
  <1>9. QED
    BY <1>4, <1>5, <1>7, <1>8 DEF Flow, g

\* Every step keeps it.
LEMMA NextOwnInv ==
  ASSUME Types, [Next]_vars, OwnInv
  PROVE  OwnInv'
  <1>t. /\ out \in Seq(Byte) /\ got \in [Socket -> Seq(Byte)] /\ sent \in Nat
        /\ link \in [Socket -> {Lobby, None}] /\ reader \in [Thread -> Socket \union {None}]
        /\ conn \in [Socket -> 0 .. MaxConns] /\ Asked \in Seq(StreamPacket)
    BY AskedType DEF Types, QueueTypes, LineTypes, UdpTypes
  <1>f. \A s \in Socket : got[s] \in Seq(Byte) /\ Flow(s) \in Seq(Byte)
    <2>1. \A s \in Socket : got[s] \in Seq(Byte)
      BY <1>t
    <2>2. QED
      BY <1>t, <2>1, ConcatProperties DEF Flow
  <1>n. Lobby # None /\ None \notin Socket
    BY LobbyIsServer
  <1>1. CASE HandleStream
    <2>1. /\ Asked # <<>> /\ Head(Asked) = hand.packet /\ Asked' = Tail(Asked)
          /\ hand.packet \in StreamPacket
      BY <1>1, AskedHandle
    <2>2. /\ out' = out \o Reply[Head(Asked)]
          /\ UNCHANGED <<link, conn, mixed, reader, rival, got, sent>>
      BY <1>1, <2>1 DEF HandleStream, tcp, line, reading
    <2>3. Reply[Head(Asked)] \in Seq(Byte)
      BY <2>1, ReplyIs
    <2>4. \A s \in Socket : Flow(s)' = Flow(s) \o Reply[Head(Asked)]
      <3>1. \A s \in Socket :
              got[s] \o (out \o Reply[Head(Asked)]) = (got[s] \o out) \o Reply[Head(Asked)]
        <4>1. \A g, o, y \in Seq(Byte) : g \o (o \o y) = (g \o o) \o y
          <5>1. SUFFICES ASSUME NEW g \in Seq(Byte), NEW o \in Seq(Byte), NEW y \in Seq(Byte)
                         PROVE  g \o (o \o y) = (g \o o) \o y
            OBVIOUS
          <5>2. QED
            BY ConcatAssociative, SMTT(20)
        <4> DEFINE z == Reply[Head(Asked)]
        <4>2. z \in Seq(Byte)
          BY <2>3
        <4> HIDE DEF z
        <4>3. ASSUME NEW s \in Socket
              PROVE  got[s] \o (out \o z) = (got[s] \o out) \o z
          <5>1. got[s] \in Seq(Byte) /\ out \in Seq(Byte)
            BY <1>t, <1>f
          <5> DEFINE g == got[s]
          <5> HIDE DEF g
          <5>2. g \in Seq(Byte)
            BY <5>1 DEF g
          <5>3. g \o (out \o z) = (g \o out) \o z
            BY <4>1, <4>2, <5>1, <5>2
          <5>4. QED
            BY <5>3 DEF g
        <4>4. QED
          BY <4>3 DEF z
      <3>2. QED
        BY <2>2, <3>1 DEF Flow
    <2>5. ASSUME NEW s \in Socket, Own(s)
          PROVE  Own(s)'
      <3>1. InLine(Flow(s) \o Reply[Head(Asked)], Tail(Asked), conn[s], sent)
        BY <1>t, <1>f, <2>1, <2>5, InLineHandle DEF Own
      <3>2. InLine(Flow(s)', Asked', conn'[s], sent')
        BY <2>1, <2>2, <2>4, <3>1
      <3>3. InLine(Flow(s), Asked, conn[s], sent)'
        BY <3>2 DEF InLine, Before
      <3>4. QED
        BY <2>2, <2>5, <3>3 DEF Own
    <2>6. out # <<>> => out' # <<>>
      BY <1>t, <2>2, <2>3, ConcatEqualIffEmpty
    <2>7. QED
      BY <2>2, <2>5, <2>6 DEF OwnInv
  <1>2. ASSUME NEW t \in Socket, NEW k \in Kind, Send(t, k)
        PROVE  OwnInv'
    <2> DEFINE p == NewPacket(t, k)
    <2>1. p \in StreamPacket /\ Asked' = Append(Asked, p)
      BY <1>2, AskedSend
    <2>2. /\ sent' = sent + 1 /\ link[t] # None
          /\ UNCHANGED <<out, link, conn, mixed, reader, rival, got>>
      BY <1>2 DEF Send, reading
    <2>3. p.n = sent + 1 /\ p.conn = conn[t]
      BY DEF NewPacket
    <2> HIDE DEF p
    <2>4. ASSUME NEW s \in Socket, Own(s), link[s] # None
          PROVE  Own(s)'
      <3>1. s = t
        BY <2>2, <2>4 DEF Own
      <3>2. InLine(Flow(s), Append(Asked, p), conn[s], sent + 1)
        BY <1>t, <1>f, <2>1, <2>3, <2>4, <3>1, InLineSend DEF Own
      <3>3. Flow(s)' = Flow(s)
        BY <2>2 DEF Flow
      <3>4. InLine(Flow(s), Asked, conn[s], sent)'
        BY <2>1, <2>2, <3>2, <3>3 DEF InLine, Before
      <3>5. QED
        BY <2>2, <2>4, <3>4 DEF Own
    <2>5. QED
      BY <2>2, <2>4 DEF OwnInv
  <1>3. ASSUME NEW t \in Socket, Connect(t)
        PROVE  OwnInv'
    <2>1. /\ link[t] = None /\ link' = [link EXCEPT ![t] = Lobby]
          /\ conn' = [conn EXCEPT ![t] = conns + 1]
          /\ mixed' = [u \in Socket |-> IF u = t THEN ~Clean ELSE mixed[u] \/ link[u] # None]
          /\ UNCHANGED <<in, hand, out, reader, rival, got, sent>>
      BY <1>3 DEF Connect, reading, thread
    <2>2. Asked' = Asked
      BY <2>1 DEF Asked, InHand
    <2>3. ASSUME NEW s \in Socket, link'[s] # None, ~mixed'[s]
          PROVE  Own(s)'
      <3>1. s = t
        BY <1>t, <2>1, <2>3
      <3>2. Clean
        BY <2>1, <2>3, <3>1
      <3>3. /\ in[Lobby] = <<>> /\ out = <<>> /\ (hand = None \/ hand.server # Lobby)
            /\ (\A u \in Socket : link[u] = None) /\ (\A r \in Thread : reader[r] = None)
        BY <3>2 DEF Clean
      <3>4. Asked = <<>>
        BY <3>3, AskedType
      <3>5. Flow(s) = <<>>
        <4>1. got[s] = <<>>
          BY <2>1, <3>1 DEF OwnInv
        <4>2. QED
          BY <3>3, <4>1 DEF Flow
      <3>6. Asked' = <<>> /\ Flow(s)' = <<>>
        BY <2>1, <2>2, <3>4, <3>5 DEF Flow
      <3>7. Len(Asked') = 0 /\ Len(Flow(s)') = 0
        BY <3>6
      <3>8. InLine(Flow(s), Asked, conn[s], sent)'
        BY <3>7 DEF InLine
      <3>9. \A u \in Socket : u # s => link'[u] = None
        BY <1>t, <2>1, <3>1, <3>3
      <3>10. QED
        BY <2>1, <3>3, <3>8, <3>9 DEF Own
    <2>4. \A s \in Socket : link'[s] = None => got'[s] = <<>>
      BY <1>n, <1>t, <2>1 DEF OwnInv
    <2>5. QED
      BY <2>1, <2>3, <2>4 DEF OwnInv
  <1>4. ASSUME NEW t \in Socket, Close(t)
        PROVE  OwnInv'
    <2>1. /\ link[t] # None /\ link' = [link EXCEPT ![t] = None]
          /\ conn' = [conn EXCEPT ![t] = 0]
          /\ got' = [got EXCEPT ![t] = <<>>] /\ mixed' = [mixed EXCEPT ![t] = FALSE]
          /\ UNCHANGED <<in, hand, out, reader, rival, sent>>
      BY <1>4 DEF Close, thread
    <2>2. \A s \in Socket : link'[s] = None => got'[s] = <<>>
      BY <1>t, <2>1 DEF OwnInv
    <2>3. ASSUME NEW s \in Socket, link'[s] # None, ~mixed'[s]
          PROVE  Own(s)'
      <3>1. s # t /\ link[s] # None
        BY <1>t, <2>1, <2>3
      <3>2. mixed[s] = mixed'[s]
        BY <2>1, <3>1 DEF Types, LineTypes
      <3>3. Own(s)
        BY <2>3, <3>1, <3>2 DEF OwnInv
      <3>4. QED
        BY <2>1, <3>1, <3>3 DEF Own
    <2>4. QED
      BY <2>1, <2>2, <2>3 DEF OwnInv
  <1>5. ASSUME NEW r \in Thread, NEW t \in Socket, FindData(r, t)
        PROVE  OwnInv'
    <2>1. /\ link[t] # None /\ out # <<>>
          /\ reader' = [reader EXCEPT ![r] = t] /\ rival' = [rival EXCEPT ![r] = FALSE]
          /\ UNCHANGED <<in, hand, out, link, conn, mixed, got, sent>>
      BY <1>5 DEF FindData, thread, line
    <2>2. Asked' = Asked
      BY <2>1 DEF Asked, InHand
    <2>3. ASSUME NEW s \in Socket, link[s] # None, Own(s)
          PROVE  Own(s)'
      <3>1. s = t
        BY <2>1, <2>3 DEF Own
      <3>2. \A q \in Thread : reader'[q] \in {None, s}
        BY <1>t, <2>1, <2>3, <3>1 DEF Own
      <3>3. Flow(s)' = Flow(s)
        BY <2>1 DEF Flow
      <3>4. InLine(Flow(s), Asked, conn[s], sent)'
        BY <2>1, <2>2, <2>3, <3>3 DEF Own, InLine, Before
      <3>5. QED
        BY <2>1, <2>3, <3>2, <3>4 DEF Own
    <2>4. QED
      BY <2>1, <2>3 DEF OwnInv
  <1>6. ASSUME NEW r \in Thread, NEW len \in 1 .. 2, TakeData(r, len)
        PROVE  OwnInv'
    <2>1. /\ reader[r] # None /\ reader' = [reader EXCEPT ![r] = None]
          /\ rival' = [q \in Thread |-> rival[q] \/ (q # r /\ reader[q] # None)]
          /\ UNCHANGED <<in, hand, link, conn, mixed, sent>>
      BY <1>6 DEF TakeData, thread, line
    <2>2. Asked' = Asked
      BY <2>1 DEF Asked, InHand
    <2>3. ASSUME NEW s \in Socket, link[s] # None, Own(s)
          PROVE  Own(s)'
      <3>1. reader[r] = s
        BY <2>1, <2>3 DEF Own
      <3>2. Flow(s)' = Flow(s)
        BY <1>6, <2>3, <3>1, TakenFlow
      <3>3. InLine(Flow(s), Asked, conn[s], sent)'
        BY <2>1, <2>2, <2>3, <3>2 DEF Own, InLine, Before
      <3>4. \A q \in Thread : reader'[q] \in {None, s}
        BY <1>t, <2>1, <2>3 DEF Own
      <3>5. QED
        BY <2>1, <2>3, <3>3, <3>4 DEF Own
    <2>4. \A s \in Socket : link'[s] = None => got'[s] = <<>>
      <3>1. SUFFICES ASSUME NEW s \in Socket, link[s] = None
                     PROVE  got'[s] = <<>>
        BY <2>1
      <3>2. got[s] = <<>>
        BY <3>1 DEF OwnInv
      <3>3. link[reader[r]] # None => reader[r] # s
        BY <3>1
      <3>4. got'[s] = got[s]
        BY <1>6, <1>t, <3>3 DEF TakeData
      <3>5. QED
        BY <3>2, <3>4
    <2>5. \A q \in Thread : reader'[q] # None => rival'[q]
      <3>1. SUFFICES ASSUME NEW q \in Thread, reader'[q] # None
                     PROVE  rival'[q]
        OBVIOUS
      <3>2. q # r /\ reader[q] # None
        BY <1>t, <2>1, <3>1
      <3>3. QED
        BY <2>1, <3>2
    <2>6. QED
      BY <2>1, <2>3, <2>4, <2>5 DEF OwnInv
  <1>7. ASSUME ~HandleStream, \A s \in Socket, k \in Kind : ~Send(s, k),
               \A s \in Socket : ~Connect(s) /\ ~Close(s),
               \A r \in Thread, s \in Socket : ~FindData(r, s),
               \A r \in Thread, len \in 1 .. 2 : ~TakeData(r, len)
        PROVE  OwnInv'
    <2>1. Asked' = Asked
      BY <1>7, AskedStays
    <2>2. UNCHANGED <<link, conn, mixed, reader, rival, got, out, sent>>
      BY <1>7 DEF Next, vars, tcp, line, reading, Begin, Turn, Pass, Pop, HandleDatagram,
           SendTo, RecvFrom, PreDestroy, Joined
    <2>3. ASSUME NEW s \in Socket, Own(s)
          PROVE  Own(s)'
      <3>1. Flow(s)' = Flow(s)
        BY <2>2 DEF Flow
      <3>2. InLine(Flow(s), Asked, conn[s], sent)'
        BY <2>1, <2>2, <2>3, <3>1 DEF Own, InLine, Before
      <3>3. QED
        BY <2>2, <2>3, <3>2 DEF Own
    <2>4. QED
      BY <2>2, <2>3 DEF OwnInv
  <1>8. QED
    BY <1>1, <1>2, <1>3, <1>4, <1>5, <1>6, <1>7

\* A connection that meets nothing of another one reads its own answers in
\* order, and a thread that has found data gets some (StreamIsOwn).
THEOREM StreamsAreOwn == Spec => []StreamIsOwn
  <1>1. Types /\ OwnInv /\ [Next]_vars => OwnInv'
    BY NextOwnInv
  <1>2. QED
    BY <1>1, InitOwnInv, OwnInvImplies, TypesHold, PTL DEF Spec

-----------------------------------------------------------------------------
(* The datagrams.                                                          *)

HandFor(v) == hand # None /\ hand.server = v
QuestionOf(d, v) == [n |-> d.n, from |-> d.from, to |-> v, known |-> d.known]
BoxQuestion(m, v, p) == [n |-> m, from |-> p, to |-> v, known |-> TRUE]

\* Questions are numbered.
Counted ==
  /\ \A q \in questions : q.n <= Cardinality(questions)
  /\ \A q, r \in questions : q.n = r.n => q = r
  /\ \A m \in answered : m <= Cardinality(questions)

\* What is on its way was asked.
Tracked ==
  /\ \A v \in Stun, i \in Nat : i \in 1 .. Len(in[v]) => QuestionOf(in[v][i], v) \in questions
  /\ \A v \in Stun : HandFor(v) => QuestionOf(hand.packet, v) \in questions
  /\ \A v \in Stun, p \in Port, i \in Nat :
       i \in 1 .. Len(boxes[v][p]) => BoxQuestion(boxes[v][p][i], v, p) \in questions

\* It is in one place.
OnceQueued ==
  \A v \in Stun, i, j \in Nat :
    i \in 1 .. Len(in[v]) /\ j \in 1 .. Len(in[v]) /\ in[v][i].n = in[v][j].n => i = j
OnceInHand ==
  \A v \in Stun, i \in Nat :
    HandFor(v) /\ i \in 1 .. Len(in[v]) => in[v][i].n # hand.packet.n
OnceBoxed ==
  \A v \in Stun, p \in Port, i, j \in Nat :
    i \in 1 .. Len(boxes[v][p]) /\ j \in 1 .. Len(boxes[v][p])
    /\ boxes[v][p][i] = boxes[v][p][j] => i = j
BoxOrQueue ==
  \A v \in Stun, p \in Port, i, j \in Nat :
    i \in 1 .. Len(boxes[v][p]) /\ j \in 1 .. Len(in[v]) => boxes[v][p][i] # in[v][j].n
BoxOrHand ==
  \A v \in Stun, p \in Port, i \in Nat :
    HandFor(v) /\ i \in 1 .. Len(boxes[v][p]) => boxes[v][p][i] # hand.packet.n
Distinct == OnceQueued /\ OnceInHand /\ OnceBoxed /\ BoxOrQueue /\ BoxOrHand

\* It is not answered yet.
Unanswered ==
  /\ \A v \in Stun, i \in Nat : i \in 1 .. Len(in[v]) => in[v][i].n \notin answered
  /\ \A v \in Stun : HandFor(v) => hand.packet.n \notin answered
  /\ \A v \in Stun, p \in Port, i \in Nat :
       i \in 1 .. Len(boxes[v][p]) => boxes[v][p][i] \notin answered

\* Two servers that are asked at a time make an overlap.
Separate ==
  \A q, r \in questions :
    q.known /\ r.known /\ q.from = r.from /\ q.to # r.to
    /\ q.n \notin answered /\ r.n \notin answered => overlap[q.from]

\* AnswersKept for one question.
Kept(q) ==
  \/ q.n \in answered
  \/ \E i \in Nat : i \in 1 .. Len(boxes[q.to][q.from]) /\ boxes[q.to][q.from][i] = q.n
  \/ \E i \in Nat : i \in 1 .. Len(in[q.to]) /\ in[q.to][i].n = q.n
  \/ HandFor(q.to) /\ hand.packet.n = q.n

AllKept == \A q \in questions : q.known /\ ~overlap[q.from] => Kept(q)

UdpInv == Counted /\ Tracked /\ Distinct /\ Unanswered /\ Separate /\ AllKept

\* The types that matter here.
LEMMA UdpSeqs ==
  ASSUME Types
  PROVE  /\ \A v \in Stun : in[v] \in Seq(Datagram) /\ Len(in[v]) \in Nat
         /\ \A v \in Stun, p \in Port : boxes[v][p] \in Seq(Nat \ {0}) /\ Len(boxes[v][p]) \in Nat
         /\ \A v \in Stun : HandFor(v) => hand.packet \in Datagram
         /\ \A q \in questions :
              /\ q.n \in Nat \ {0} /\ q.from \in Port /\ q.to \in Stun
              /\ q = [n |-> q.n, from |-> q.from, to |-> q.to, known |-> q.known]
         /\ Cardinality(questions) \in Nat
         /\ in \in [Server -> Seq(StreamPacket \union Datagram)]
         /\ boxes \in [Stun -> [Port -> Seq(Nat \ {0})]]
         /\ \A v \in Stun : v \in Server /\ v # Lobby
  <1>1. \A v \in Stun : in[v] \in Seq(Datagram) /\ Len(in[v]) \in Nat
    BY DEF Types, QueueTypes
  <1>2. \A v \in Stun, p \in Port : boxes[v][p] \in Seq(Nat \ {0})
    BY DEF Types, UdpTypes
  <1>3. \A v \in Stun, p \in Port : Len(boxes[v][p]) \in Nat
    BY <1>2, LenProperties
  <1>4. \A v \in Stun : HandFor(v) => hand.packet \in Datagram
    BY DEF Types, QueueTypes, HandFor, LobbyPopped, StunPopped, Stun
  <1>5. \A q \in questions :
          /\ q.n \in Nat \ {0} /\ q.from \in Port /\ q.to \in Stun
          /\ q = [n |-> q.n, from |-> q.from, to |-> q.to, known |-> q.known]
    BY DEF Types, UdpTypes, Question
  <1>6. Cardinality(questions) \in Nat
    BY FS_CardinalityType DEF Types, UdpTypes
  <1>7. QED
    BY <1>1, <1>2, <1>3, <1>4, <1>5, <1>6 DEF Types, QueueTypes, UdpTypes, Stun

\* The invariant says what AnswersKept says.
LEMMA UdpInvImplies == Types /\ UdpInv => AnswersKept
  <1> SUFFICES ASSUME Types, UdpInv, NEW q \in questions, q.known, ~overlap[q.from]
               PROVE  \/ q.n \in answered
                      \/ q.n \in Range(boxes[q.to][q.from])
                      \/ \E i \in DOMAIN in[q.to] : in[q.to][i].n = q.n
                      \/ hand # None /\ hand.server = q.to /\ hand.packet.n = q.n
    BY DEF AnswersKept
  <1>1. Kept(q)
    BY DEF UdpInv, AllKept
  <1>2. q.to \in Stun /\ q.from \in Port
    BY UdpSeqs
  <1>3. in[q.to] \in Seq(Datagram) /\ boxes[q.to][q.from] \in Seq(Nat \ {0})
    BY <1>2, UdpSeqs
  <1>4. DOMAIN in[q.to] = 1 .. Len(in[q.to])
        /\ DOMAIN boxes[q.to][q.from] = 1 .. Len(boxes[q.to][q.from])
    BY <1>3, LenProperties
  <1>5. QED
    BY <1>1, <1>4 DEF Kept, HandFor, Range

\* At first.
LEMMA InitUdpInv == Init => UdpInv
  <1> SUFFICES ASSUME Init PROVE UdpInv
    OBVIOUS
  <1>1. questions = {} /\ answered = {} /\ hand = None
    BY DEF Init
  <1>2. \A v \in Stun : in[v] = <<>> /\ \A p \in Port : boxes[v][p] = <<>>
    BY DEF Init, Stun
  <1>3. \A v \in Stun : Len(in[v]) = 0 /\ \A p \in Port : Len(boxes[v][p]) = 0
    BY <1>2
  <1>4. Counted /\ Separate /\ AllKept
    BY <1>1 DEF Counted, Separate, AllKept
  <1>5. Tracked
    BY <1>1, <1>3 DEF Tracked, HandFor
  <1>6. Distinct
    BY <1>1, <1>3 DEF Distinct, OnceQueued, OnceInHand,
                  OnceBoxed, BoxOrQueue, BoxOrHand, HandFor
  <1>7. Unanswered
    BY <1>1 DEF Unanswered
  <1>8. QED
    BY <1>4, <1>5, <1>6, <1>7 DEF UdpInv

\* Popping a datagram.
LEMMA PoppedUdpInv ==
  ASSUME Types, UdpInv, Pop
  PROVE  UdpInv'
  <1> DEFINE w == Head(todo)
  <1>1. w \in Server
    BY DEF Pop, Types, ThreadTypes
  <1>2. /\ hand = None /\ in[w] # <<>>
        /\ hand' = [server |-> w, packet |-> Head(in[w])]
        /\ in' = [in EXCEPT ![w] = Tail(@)]
        /\ UNCHANGED <<boxes, questions, answered, overlap>>
    BY DEF Pop, udp
  <1> HIDE DEF w
  <1>t. /\ in \in [Server -> Seq(StreamPacket \union Datagram)]
        /\ \A v \in Stun : v \in Server /\ in[v] \in Seq(Datagram) /\ Len(in[v]) \in Nat
    BY UdpSeqs
  <1>3. CASE w \notin Stun
    <2>1. \A v \in Stun : in'[v] = in[v] /\ ~HandFor(v)
      BY <1>2, <1>3, <1>t DEF HandFor
    <2>2. \A v \in Stun : ~(hand' # None /\ hand'.server = v)
      BY <1>2, <1>3
    <2>0. /\ questions' = questions /\ answered' = answered /\ overlap' = overlap
          /\ boxes' = boxes
      BY <1>2
    <2>3. Counted' /\ Separate'
      <3>1. Counted'
        BY <2>0 DEF UdpInv, Counted
      <3>2. Separate'
        BY <2>0 DEF UdpInv, Separate
      <3>3. QED
        BY <3>1, <3>2
    <2>4. Tracked' /\ Unanswered'
      BY <1>2, <2>1, <2>2 DEF UdpInv, Tracked, Unanswered, HandFor
    <2>5. Distinct'
      <3>1. OnceQueued' /\ BoxOrQueue' /\ OnceBoxed'
        <4>1. boxes' = boxes
          BY <1>2
        <4>2. OnceQueued'
          BY <2>1 DEF UdpInv, Distinct, OnceQueued
        <4>3. BoxOrQueue'
          BY <2>1, <4>1 DEF UdpInv, Distinct, BoxOrQueue
        <4>4. OnceBoxed'
          BY <4>1 DEF UdpInv, Distinct, OnceBoxed
        <4>5. QED
          BY <4>2, <4>3, <4>4
      <3>2. OnceInHand' /\ BoxOrHand'
        BY <2>2 DEF OnceInHand, BoxOrHand, HandFor
      <3>3. QED
        BY <3>1, <3>2 DEF Distinct
    <2>6. AllKept'
      <3>1. SUFFICES ASSUME NEW q \in questions, q.known, ~overlap[q.from]
                     PROVE  Kept(q)'
        BY <1>2 DEF AllKept
      <3>2. Kept(q) /\ q.to \in Stun
        BY <3>1, UdpSeqs DEF UdpInv, AllKept
      <3>3. QED
        BY <1>2, <2>1, <3>2 DEF Kept
    <2>7. QED
      BY <2>3, <2>4, <2>5, <2>6 DEF UdpInv
  <1>4. CASE w \in Stun
    <2>1. /\ in[w] \in Seq(Datagram) /\ Len(in[w]) \in Nat \ {0}
          /\ Head(in[w]) = in[w][1] /\ in[w][1] \in Datagram
          /\ Len(Tail(in[w])) = Len(in[w]) - 1
          /\ \A i \in Nat : i \in 1 .. Len(Tail(in[w])) =>
               i + 1 \in 1 .. Len(in[w]) /\ Tail(in[w])[i] = in[w][i + 1]
      <3> DEFINE s == in[w]
      <3>1. s \in Seq(Datagram) /\ s # <<>>
        BY <1>2, <1>4, <1>t
      <3> HIDE DEF s
      <3>2. /\ Len(Tail(s)) = Len(s) - 1 /\ Len(s) \in Nat \ {0} /\ Head(s) \in Datagram
            /\ \A i \in 1 .. Len(Tail(s)) : Tail(s)[i] = s[i + 1]
        BY <3>1, HeadTailProperties, EmptySeq
      <3>3. Head(s) = s[1]
        BY <3>1
      <3>4. QED
        BY <3>1, <3>2, <3>3 DEF s
    <2>2. /\ in'[w] = Tail(in[w]) /\ \A v \in Stun : v # w => in'[v] = in[v]
          /\ hand'.packet = in[w][1] /\ hand'.server = w
      BY <1>1, <1>2, <1>t, <2>1
    <2>3. hand' # None
      BY <1>1, <1>2, <2>1 DEF Popped
    <2>4. \A v \in Stun : ~HandFor(v) /\ (HandFor(v)' <=> v = w)
      BY <1>2, <2>2, <2>3 DEF HandFor
    <2>5. \A i \in Nat : i \in 1 .. Len(in'[w]) =>
            i + 1 \in 1 .. Len(in[w]) /\ in'[w][i] = in[w][i + 1] /\ i + 1 # 1
      BY <2>1, <2>2
    <2>0. /\ questions' = questions /\ answered' = answered /\ overlap' = overlap
          /\ boxes' = boxes
      BY <1>2
    <2>6. Counted' /\ Separate'
      <3>1. Counted'
        BY <2>0 DEF UdpInv, Counted
      <3>2. Separate'
        BY <2>0 DEF UdpInv, Separate
      <3>3. QED
        BY <3>1, <3>2
    <2>7. \A v \in Stun, i \in Nat : i \in 1 .. Len(in'[v]) =>
            \E j \in Nat : j \in 1 .. Len(in[v]) /\ in'[v][i] = in[v][j]
      <3>1. ASSUME NEW i \in Nat, i \in 1 .. Len(in'[w])
            PROVE  \E j \in Nat : j \in 1 .. Len(in[w]) /\ in'[w][i] = in[w][j]
        <4>1. i + 1 \in Nat
          OBVIOUS
        <4>2. QED
          BY <2>5, <3>1, <4>1
      <3>2. ASSUME NEW v \in Stun, v # w, NEW i \in Nat, i \in 1 .. Len(in'[v])
            PROVE  i \in 1 .. Len(in[v]) /\ in'[v][i] = in[v][i]
        BY <2>2, <3>2
      <3>3. QED
        BY <3>1, <3>2
    <2>o. 1 \in Nat /\ 1 \in 1 .. Len(in[w])
      BY <2>1
    <2>8. Tracked'
      <3>1. \A v \in Stun, i \in Nat : i \in 1 .. Len(in'[v]) =>
              QuestionOf(in'[v][i], v) \in questions
        BY <2>7 DEF UdpInv, Tracked
      <3>2. QuestionOf(in[w][1], w) \in questions
        BY <1>4, <2>o DEF UdpInv, Tracked
      <3>3. QED
        BY <1>2, <2>2, <2>4, <3>1, <3>2 DEF UdpInv, Tracked, QuestionOf, BoxQuestion
    <2>9. Unanswered'
      <3>1. \A v \in Stun, i \in Nat : i \in 1 .. Len(in'[v]) => in'[v][i].n \notin answered
        BY <2>7 DEF UdpInv, Unanswered
      <3>2. in[w][1].n \notin answered
        BY <1>4, <2>o DEF UdpInv, Unanswered
      <3>3. QED
        BY <1>2, <2>2, <2>4, <3>1, <3>2 DEF UdpInv, Unanswered
    <2>10. Distinct'
      <3>1. \A v \in Stun, i, j \in Nat :
              i \in 1 .. Len(in'[v]) /\ j \in 1 .. Len(in'[v]) /\ in'[v][i].n = in'[v][j].n => i = j
        <4>1. SUFFICES ASSUME NEW v \in Stun, NEW i \in Nat, NEW j \in Nat,
                              i \in 1 .. Len(in'[v]), j \in 1 .. Len(in'[v]),
                              in'[v][i].n = in'[v][j].n
                       PROVE  i = j
          OBVIOUS
        <4>2. CASE v = w
          <5>a. \A k, l \in Nat :
                  k \in 1 .. Len(in[w]) /\ l \in 1 .. Len(in[w]) /\ in[w][k].n = in[w][l].n => k = l
            BY <1>4 DEF UdpInv, Distinct, OnceQueued
          <5>b. i + 1 \in Nat /\ j + 1 \in Nat
            OBVIOUS
          <5>c. /\ i + 1 \in 1 .. Len(in[w]) /\ in'[w][i] = in[w][i + 1]
                /\ j + 1 \in 1 .. Len(in[w]) /\ in'[w][j] = in[w][j + 1]
            BY <2>5, <4>1, <4>2
          <5>1. i + 1 = j + 1
            BY <4>1, <4>2, <5>a, <5>b, <5>c
          <5>2. QED
            BY <5>1
        <4>3. CASE v # w
          BY <2>2, <4>1, <4>3 DEF UdpInv, Distinct, OnceQueued
        <4>4. QED
          BY <4>2, <4>3
      <3>2. \A i \in Nat : i \in 1 .. Len(in'[w]) => in'[w][i].n # in[w][1].n
        <4>1. \A k, l \in Nat :
                k \in 1 .. Len(in[w]) /\ l \in 1 .. Len(in[w]) /\ in[w][k].n = in[w][l].n => k = l
          BY <1>4 DEF UdpInv, Distinct, OnceQueued
        <4>2. SUFFICES ASSUME NEW i \in Nat, i \in 1 .. Len(in'[w])
                       PROVE  in'[w][i].n # in[w][1].n
          OBVIOUS
        <4>3. i + 1 \in Nat
          OBVIOUS
        <4>4. QED
          BY <2>5, <2>o, <4>1, <4>2, <4>3
      <3>3. \A v \in Stun, p \in Port, i, j \in Nat :
              i \in 1 .. Len(boxes[v][p]) /\ j \in 1 .. Len(in'[v]) => boxes[v][p][i] # in'[v][j].n
        <4>1. \A v \in Stun, p \in Port, i, k \in Nat :
                i \in 1 .. Len(boxes[v][p]) /\ k \in 1 .. Len(in[v]) => boxes[v][p][i] # in[v][k].n
          BY DEF UdpInv, Distinct, BoxOrQueue
        <4>2. SUFFICES ASSUME NEW v \in Stun, NEW p \in Port, NEW i \in Nat, NEW j \in Nat,
                              i \in 1 .. Len(boxes[v][p]), j \in 1 .. Len(in'[v])
                       PROVE  boxes[v][p][i] # in'[v][j].n
          OBVIOUS
        <4>3. PICK k \in Nat : k \in 1 .. Len(in[v]) /\ in'[v][j] = in[v][k]
          BY <2>7, <4>2
        <4>4. QED
          BY <4>1, <4>2, <4>3
      <3>4. \A p \in Port, i \in Nat : i \in 1 .. Len(boxes[w][p]) => boxes[w][p][i] # in[w][1].n
        <4>1. \A p \in Port, i, j \in Nat :
                i \in 1 .. Len(boxes[w][p]) /\ j \in 1 .. Len(in[w]) => boxes[w][p][i] # in[w][j].n
          BY <1>4 DEF UdpInv, Distinct, BoxOrQueue
        <4>2. QED
          BY <2>o, <4>1
      <3>5. QED
        <4>1. OnceQueued'
          BY <3>1 DEF OnceQueued
        <4>5. BoxOrQueue'
          BY <2>0, <3>3 DEF BoxOrQueue
        <4>2. OnceInHand' /\ BoxOrHand'
          <5>1. OnceInHand'
            BY <2>2, <2>4, <3>2 DEF OnceInHand
          <5>2. BoxOrHand'
            BY <2>0, <2>2, <2>4, <3>4 DEF BoxOrHand
          <5>3. QED
            BY <5>1, <5>2
        <4>3. OnceBoxed'
          BY <2>0 DEF UdpInv, Distinct, OnceBoxed
        <4>4. QED
          BY <4>1, <4>2, <4>3, <4>5 DEF Distinct
    <2>11. AllKept'
      <3>1. SUFFICES ASSUME NEW q \in questions, q.known, ~overlap[q.from]
                     PROVE  Kept(q)'
        BY <1>2 DEF AllKept
      <3>2. Kept(q) /\ q.to \in Stun
        BY <3>1, UdpSeqs DEF UdpInv, AllKept
      <3>3. ASSUME NEW i \in Nat, i \in 1 .. Len(in[q.to]), in[q.to][i].n = q.n
            PROVE  Kept(q)'
        <4>1. CASE q.to = w /\ i = 1
          BY <2>2, <2>4, <3>2, <3>3, <4>1 DEF Kept
        <4>2. CASE q.to = w /\ i # 1
          <5>1. i - 1 \in Nat /\ i - 1 \in 1 .. Len(in'[w]) /\ (i - 1) + 1 = i
            BY <2>1, <2>2, <3>3, <4>2
          <5>2. in'[w][i - 1] = in[w][i]
            BY <2>5, <5>1
          <5>3. QED
            BY <3>3, <4>2, <5>1, <5>2 DEF Kept
        <4>3. CASE q.to # w
          BY <2>2, <3>2, <3>3, <4>3 DEF Kept
        <4>4. QED
          BY <4>1, <4>2, <4>3
      <3>4. QED
        BY <1>2, <2>4, <3>2, <3>3 DEF Kept
    <2>12. QED
      BY <2>6, <2>8, <2>9, <2>10, <2>11 DEF UdpInv
  <1>5. QED
    BY <1>3, <1>4

\* What a queue holds when something is put at its end.
LEMMA Appended ==
  ASSUME NEW S, NEW b \in Seq(S), NEW e \in S
  PROVE  /\ \A i \in Nat : i \in 1 .. Len(Append(b, e)) =>
              \/ i \in 1 .. Len(b) /\ Append(b, e)[i] = b[i]
              \/ i = Len(b) + 1 /\ Append(b, e)[i] = e
         /\ \A i \in Nat : i \in 1 .. Len(b) =>
              i \in 1 .. Len(Append(b, e)) /\ Append(b, e)[i] = b[i]
  <1>1. /\ Len(b) \in Nat /\ Len(Append(b, e)) = Len(b) + 1
        /\ \A i \in 1 .. Len(b) : Append(b, e)[i] = b[i]
        /\ Append(b, e)[Len(b) + 1] = e
    BY AppendProperties, LenProperties
  <1>2. QED
    BY <1>1

\* It holds what is put there.
LEMMA AppendedLast ==
  ASSUME NEW S, NEW b \in Seq(S), NEW e \in S
  PROVE  /\ Len(b) + 1 \in Nat /\ Len(b) + 1 \in 1 .. Len(Append(b, e))
         /\ Append(b, e)[Len(b) + 1] = e
  <1>1. /\ Len(b) \in Nat /\ Len(Append(b, e)) = Len(b) + 1
        /\ Append(b, e)[Len(b) + 1] = e
    BY AppendProperties, LenProperties
  <1>2. Len(b) + 1 \in Nat /\ Len(b) + 1 \in 1 .. Len(Append(b, e))
    BY <1>1
  <1>3. QED
    BY <1>1, <1>2

\* Answering a datagram.
LEMMA HandledUdpInv ==
  ASSUME Types, UdpInv, HandleDatagram
  PROVE  UdpInv'
  <1> DEFINE v == hand.server
             m == hand.packet
  <1>1. /\ v \in Stun /\ HandFor(v) /\ hand' = None
        /\ boxes' = IF m.known THEN [boxes EXCEPT ![v][m.from] = Append(@, m.n)] ELSE boxes
        /\ in' = in /\ questions' = questions /\ answered' = answered /\ overlap' = overlap
    BY DEF HandleDatagram, HandFor, Deliver
  <1>2. m \in Datagram
    BY <1>1, UdpSeqs
  <1>3. m.n \in Nat \ {0} /\ m.from \in Port /\ m.known \in BOOLEAN
    BY <1>2 DEF Datagram
  <1>4. /\ QuestionOf(m, v) \in questions /\ QuestionOf(m, v).n = m.n
        /\ QuestionOf(m, v).from = m.from /\ QuestionOf(m, v).to = v
        /\ QuestionOf(m, v).known = m.known
    BY <1>1 DEF UdpInv, Tracked, QuestionOf
  <1>5. m.known => BoxQuestion(m.n, v, m.from) \in questions
    <2>1. m.known => BoxQuestion(m.n, v, m.from) = QuestionOf(m, v)
      BY <1>3 DEF BoxQuestion, QuestionOf
    <2>2. QED
      BY <1>4, <2>1
  <1>6. \A q \in questions : q.n = m.n => q.from = m.from /\ q.to = v /\ q.known = m.known
    BY <1>4 DEF UdpInv, Counted
  <1>7. /\ m.n \notin answered
        /\ \A i \in Nat : i \in 1 .. Len(in[v]) => in[v][i].n # m.n
        /\ \A p \in Port, i \in Nat : i \in 1 .. Len(boxes[v][p]) => boxes[v][p][i] # m.n
    BY <1>1 DEF UdpInv, Unanswered, Distinct, OnceInHand, BoxOrHand
  <1> HIDE DEF v, m
  <1>v. v \in Stun
    BY <1>1
  <1>u. in' = in /\ questions' = questions /\ answered' = answered /\ overlap' = overlap
    BY <1>1
  <1>8. \A x \in Stun : ~(HandFor(x)')
    BY <1>1 DEF HandFor
  <1>9. \A x \in Stun, p \in Port :
          boxes'[x][p] = IF m.known /\ x = v /\ p = m.from
                         THEN Append(boxes[x][p], m.n) ELSE boxes[x][p]
    BY <1>1, <1>3, UdpSeqs
  <1>b. \A x \in Stun, p \in Port : boxes[x][p] \in Seq(Nat \ {0}) /\ Len(boxes[x][p]) \in Nat
    BY UdpSeqs
  <1>10. \A x \in Stun, p \in Port, i \in Nat : i \in 1 .. Len(boxes'[x][p]) =>
           \/ i \in 1 .. Len(boxes[x][p]) /\ boxes'[x][p][i] = boxes[x][p][i]
           \/ /\ m.known /\ x = v /\ p = m.from
              /\ i = Len(boxes[x][p]) + 1 /\ boxes'[x][p][i] = m.n
    <2>1. SUFFICES ASSUME NEW x \in Stun, NEW p \in Port, NEW i \in Nat,
                          i \in 1 .. Len(boxes'[x][p])
                   PROVE  \/ i \in 1 .. Len(boxes[x][p]) /\ boxes'[x][p][i] = boxes[x][p][i]
                          \/ /\ m.known /\ x = v /\ p = m.from
                             /\ i = Len(boxes[x][p]) + 1 /\ boxes'[x][p][i] = m.n
      OBVIOUS
    <2>2. CASE m.known /\ x = v /\ p = m.from
      <3>1. boxes'[x][p] = Append(boxes[x][p], m.n)
        BY <1>9, <2>2
      <3>2. QED
        <4>1. boxes[x][p] \in Seq(Nat \ {0}) /\ m.n \in Nat \ {0}
          BY <1>3, <1>b
        <4>2. i \in 1 .. Len(Append(boxes[x][p], m.n))
          BY <2>1, <3>1
        <4>3. \/ i \in 1 .. Len(boxes[x][p]) /\ Append(boxes[x][p], m.n)[i] = boxes[x][p][i]
              \/ i = Len(boxes[x][p]) + 1 /\ Append(boxes[x][p], m.n)[i] = m.n
          BY <4>1, <4>2, Appended
        <4>4. QED
          BY <2>2, <3>1, <4>3
    <2>3. CASE ~(m.known /\ x = v /\ p = m.from)
      BY <1>9, <2>1, <2>3
    <2>4. QED
      BY <2>2, <2>3
  <1>11. \A x \in Stun, p \in Port, i \in Nat : i \in 1 .. Len(boxes[x][p]) =>
           i \in 1 .. Len(boxes'[x][p]) /\ boxes'[x][p][i] = boxes[x][p][i]
    <2>1. SUFFICES ASSUME NEW x \in Stun, NEW p \in Port, NEW i \in Nat,
                          i \in 1 .. Len(boxes[x][p])
                   PROVE  i \in 1 .. Len(boxes'[x][p]) /\ boxes'[x][p][i] = boxes[x][p][i]
      OBVIOUS
    <2>2. CASE m.known /\ x = v /\ p = m.from
      <3>1. boxes'[x][p] = Append(boxes[x][p], m.n)
        BY <1>9, <2>2
      <3>2. QED
        BY <1>3, <1>b, <2>1, <2>2, <3>1, Appended
    <2>3. CASE ~(m.known /\ x = v /\ p = m.from)
      BY <1>9, <2>1, <2>3
    <2>4. QED
      BY <2>2, <2>3
  <1>12. ASSUME m.known
         PROVE  \E i \in Nat : i \in 1 .. Len(boxes'[v][m.from]) /\ boxes'[v][m.from][i] = m.n
    <2>1. boxes'[v][m.from] = Append(boxes[v][m.from], m.n)
      BY <1>v, <1>3, <1>9, <1>12
    <2> DEFINE b == boxes[v][m.from]
               e == m.n
    <2>2. b \in Seq(Nat \ {0}) /\ e \in Nat \ {0}
      BY <1>v, <1>3, <1>b
    <2> HIDE DEF b, e
    <2>3. /\ Len(b) + 1 \in Nat /\ Len(b) + 1 \in 1 .. Len(Append(b, e))
          /\ Append(b, e)[Len(b) + 1] = e
      BY <2>2, AppendedLast
    <2>4. QED
      BY <2>1, <2>3 DEF b, e
  <1>13. Counted'
    BY <1>1 DEF UdpInv, Counted
  <1>14. Separate'
    BY <1>1 DEF UdpInv, Separate
  <1>15. Tracked'
    <2>1. \A x \in Stun, p \in Port, i \in Nat :
            i \in 1 .. Len(boxes'[x][p]) => BoxQuestion(boxes'[x][p][i], x, p) \in questions
      <3>1. SUFFICES ASSUME NEW x \in Stun, NEW p \in Port, NEW i \in Nat,
                            i \in 1 .. Len(boxes'[x][p])
                     PROVE  BoxQuestion(boxes'[x][p][i], x, p) \in questions
        OBVIOUS
      <3>2. CASE i \in 1 .. Len(boxes[x][p]) /\ boxes'[x][p][i] = boxes[x][p][i]
        BY <3>2 DEF UdpInv, Tracked
      <3>3. QED
        BY <1>5, <1>10, <3>1, <3>2
    <2>2. \A x \in Stun, i \in Nat : i \in 1 .. Len(in[x]) => QuestionOf(in[x][i], x) \in questions
      BY DEF UdpInv, Tracked
    <2>3. QED
      BY <1>1, <1>8, <2>1, <2>2 DEF Tracked, QuestionOf, BoxQuestion
  <1>16. Distinct'
    <2>1. OnceQueued'
      BY <1>1 DEF UdpInv, Distinct, OnceQueued
    <2>2. OnceInHand' /\ BoxOrHand'
      BY <1>8 DEF OnceInHand, BoxOrHand
    <2>3. \A x \in Stun, p \in Port, i, j \in Nat :
            i \in 1 .. Len(boxes'[x][p]) /\ j \in 1 .. Len(boxes'[x][p])
            /\ boxes'[x][p][i] = boxes'[x][p][j] => i = j
      <3>1. SUFFICES ASSUME NEW x \in Stun, NEW p \in Port, NEW i \in Nat, NEW j \in Nat,
                            i \in 1 .. Len(boxes'[x][p]), j \in 1 .. Len(boxes'[x][p]),
                            boxes'[x][p][i] = boxes'[x][p][j]
                     PROVE  i = j
        OBVIOUS
      <3>2. \/ i \in 1 .. Len(boxes[x][p]) /\ boxes'[x][p][i] = boxes[x][p][i]
            \/ x = v /\ i = Len(boxes[x][p]) + 1 /\ boxes'[x][p][i] = m.n
        BY <1>10, <3>1
      <3>3. \/ j \in 1 .. Len(boxes[x][p]) /\ boxes'[x][p][j] = boxes[x][p][j]
            \/ x = v /\ j = Len(boxes[x][p]) + 1 /\ boxes'[x][p][j] = m.n
        BY <1>10, <3>1
      <3>4. \A k, l \in Nat :
              k \in 1 .. Len(boxes[x][p]) /\ l \in 1 .. Len(boxes[x][p])
              /\ boxes[x][p][k] = boxes[x][p][l] => k = l
        BY DEF UdpInv, Distinct, OnceBoxed
      <3>5. QED
        BY <1>7, <3>1, <3>2, <3>3, <3>4
    <2>4. \A x \in Stun, p \in Port, i, j \in Nat :
            i \in 1 .. Len(boxes'[x][p]) /\ j \in 1 .. Len(in[x]) => boxes'[x][p][i] # in[x][j].n
      <3>1. SUFFICES ASSUME NEW x \in Stun, NEW p \in Port, NEW i \in Nat, NEW j \in Nat,
                            i \in 1 .. Len(boxes'[x][p]), j \in 1 .. Len(in[x])
                     PROVE  boxes'[x][p][i] # in[x][j].n
        OBVIOUS
      <3>2. \A k \in Nat : k \in 1 .. Len(boxes[x][p]) => boxes[x][p][k] # in[x][j].n
        BY <3>1 DEF UdpInv, Distinct, BoxOrQueue
      <3>3. QED
        BY <1>7, <1>10, <3>1, <3>2
    <2>5. OnceBoxed'
      BY <2>3 DEF OnceBoxed
    <2>6. BoxOrQueue'
      BY <1>u, <2>4 DEF BoxOrQueue
    <2>7. QED
      BY <2>1, <2>2, <2>5, <2>6 DEF Distinct
  <1>17. Unanswered'
    <2>1. \A x \in Stun, p \in Port, i \in Nat :
            i \in 1 .. Len(boxes'[x][p]) => boxes'[x][p][i] \notin answered
      BY <1>7, <1>10 DEF UdpInv, Unanswered
    <2>2. \A x \in Stun, i \in Nat : i \in 1 .. Len(in[x]) => in[x][i].n \notin answered
      BY DEF UdpInv, Unanswered
    <2>3. QED
      BY <1>1, <1>8, <2>1, <2>2 DEF Unanswered
  <1>18. AllKept'
    <2>1. SUFFICES ASSUME NEW q \in questions, q.known, ~overlap[q.from]
                   PROVE  Kept(q)'
      BY <1>1 DEF AllKept
    <2>2. Kept(q) /\ q.to \in Stun /\ q.from \in Port
      BY <2>1, UdpSeqs DEF UdpInv, AllKept
    <2>3. CASE HandFor(q.to) /\ hand.packet.n = q.n
      <3>1. q.n = m.n
        BY <2>3 DEF m
      <3>2. q.from = m.from /\ q.to = v /\ m.known
        BY <1>6, <2>1, <3>1
      <3>3. QED
        BY <1>12, <3>1, <3>2 DEF Kept
    <2>4. CASE \E i \in Nat : i \in 1 .. Len(boxes[q.to][q.from]) /\ boxes[q.to][q.from][i] = q.n
      <3>1. PICK i \in Nat : i \in 1 .. Len(boxes[q.to][q.from]) /\ boxes[q.to][q.from][i] = q.n
        BY <2>4
      <3>2. i \in 1 .. Len(boxes'[q.to][q.from]) /\ boxes'[q.to][q.from][i] = q.n
        BY <1>11, <2>2, <3>1
      <3>3. QED
        BY <3>2 DEF Kept
    <2>5. CASE \/ q.n \in answered
               \/ \E i \in Nat : i \in 1 .. Len(in[q.to]) /\ in[q.to][i].n = q.n
      BY <1>1, <2>5 DEF Kept
    <2>6. QED
      BY <2>2, <2>3, <2>4, <2>5 DEF Kept
  <1>19. QED
    BY <1>13, <1>14, <1>15, <1>16, <1>17, <1>18 DEF UdpInv

\* Asking a stun server.
LEMMA AskedUdpInv ==
  ASSUME Types, UdpInv, NEW p \in Port, NEW v \in Stun, NEW known \in BOOLEAN,
         SendTo(p, v, known)
  PROVE  UdpInv'
  <1> DEFINE c == Cardinality(questions)
             d == [n |-> c + 1, from |-> p, known |-> known]
             new == [n |-> c + 1, from |-> p, to |-> v, known |-> known]
             busy == \E q \in Waiting(p) : q.to # v
  <1>1. /\ in' = [in EXCEPT ![v] = Append(@, d)]
        /\ questions' = questions \union {new}
        /\ overlap' = [overlap EXCEPT ![p] = @ \/ busy]
        /\ hand' = hand /\ boxes' = boxes /\ answered' = answered
    BY DEF SendTo, Number, thread
  <1>2. c \in Nat /\ c + 1 \in Nat \ {0}
    BY UdpSeqs
  <1>3. d \in Datagram /\ d.n = c + 1 /\ d.from = p /\ d.known = known
    BY <1>2 DEF Datagram
  <1>4. QuestionOf(d, v) = new /\ new.n = c + 1 /\ new.from = p /\ new.to = v /\ new.known = known
    BY <1>3 DEF QuestionOf
  <1>5. /\ \A q \in questions : q.n <= c /\ q.n \in Nat /\ q.n # c + 1
        /\ \A m \in answered : m <= c /\ m \in Nat /\ m # c + 1
    <2>1. answered \subseteq Nat
      BY DEF Types, UdpTypes
    <2>2. \A q \in questions : q.n <= c /\ q.n \in Nat
      BY UdpSeqs DEF UdpInv, Counted
    <2>3. \A m \in answered : m <= c /\ m \in Nat
      BY <2>1 DEF UdpInv, Counted
    <2>4. QED
      BY <1>2, <2>2, <2>3
  <1>6. Cardinality(questions') = c + 1
    <2>1. IsFiniteSet(questions) /\ new \notin questions
      BY <1>4, <1>5 DEF Types, UdpTypes
    <2>2. QED
      BY <1>1, <2>1, FS_AddElement
  <1>7. overlap \in [Port -> BOOLEAN]
    BY DEF Types, UdpTypes
  <1>8. overlap'[p] = (overlap[p] \/ busy) /\ \A x \in Port : overlap[x] => overlap'[x]
    BY <1>1, <1>7
  <1>9. in'[v] = Append(in[v], d) /\ \A x \in Stun : x # v => in'[x] = in[x]
    BY <1>1, UdpSeqs
  <1>10. in[v] \in Seq(Datagram)
    BY UdpSeqs
  <1>b. /\ \A q \in questions : (q.known /\ q.from = p /\ q.to # v /\ q.n \notin answered) => busy
        /\ \A q \in questions : q.n \in Nat \ {0} /\ q.from \in Port /\ q.to \in Stun
    BY UdpSeqs DEF Waiting
  <1>c. \A x \in Stun : HandFor(x)' = HandFor(x)
    BY <1>1 DEF HandFor
  <1>n. Cardinality(questions) = c
    OBVIOUS
  <1> HIDE DEF c, d, new, busy
  <1>11. \A x \in Stun, i \in Nat : i \in 1 .. Len(in'[x]) =>
           \/ i \in 1 .. Len(in[x]) /\ in'[x][i] = in[x][i]
           \/ x = v /\ i = Len(in[x]) + 1 /\ in'[x][i] = d
    <2>1. SUFFICES ASSUME NEW x \in Stun, NEW i \in Nat, i \in 1 .. Len(in'[x])
                   PROVE  \/ i \in 1 .. Len(in[x]) /\ in'[x][i] = in[x][i]
                          \/ x = v /\ i = Len(in[x]) + 1 /\ in'[x][i] = d
      OBVIOUS
    <2>2. CASE x = v
      <3>1. i \in 1 .. Len(Append(in[v], d))
        BY <1>9, <2>1, <2>2
      <3>2. \/ i \in 1 .. Len(in[v]) /\ Append(in[v], d)[i] = in[v][i]
            \/ i = Len(in[v]) + 1 /\ Append(in[v], d)[i] = d
        BY <1>3, <1>10, <3>1, Appended
      <3>3. QED
        BY <1>9, <2>2, <3>2
    <2>3. CASE x # v
      BY <1>9, <2>1, <2>3
    <2>4. QED
      BY <2>2, <2>3
  <1>12. \A x \in Stun, i \in Nat : i \in 1 .. Len(in[x]) =>
           i \in 1 .. Len(in'[x]) /\ in'[x][i] = in[x][i]
    <2>1. SUFFICES ASSUME NEW x \in Stun, NEW i \in Nat, i \in 1 .. Len(in[x])
                   PROVE  i \in 1 .. Len(in'[x]) /\ in'[x][i] = in[x][i]
      OBVIOUS
    <2>2. CASE x = v
      <3>1. i \in 1 .. Len(Append(in[v], d)) /\ Append(in[v], d)[i] = in[v][i]
        BY <1>3, <1>10, <2>1, <2>2, Appended
      <3>2. QED
        BY <1>9, <2>2, <3>1
    <2>3. CASE x # v
      BY <1>9, <2>1, <2>3
    <2>4. QED
      BY <2>2, <2>3
  <1>13. /\ Len(in[v]) + 1 \in Nat /\ Len(in[v]) + 1 \in 1 .. Len(in'[v])
         /\ in'[v][Len(in[v]) + 1] = d
    BY <1>3, <1>9, <1>10, AppendedLast
  <1>14. \* Nothing that is on its way has the new number.
         /\ \A x \in Stun, i \in Nat : i \in 1 .. Len(in[x]) => in[x][i].n # c + 1
         /\ \A x \in Stun : HandFor(x) => hand.packet.n # c + 1
         /\ \A x \in Stun, y \in Port, i \in Nat :
              i \in 1 .. Len(boxes[x][y]) => boxes[x][y][i] # c + 1
    <2>1. \A x \in Stun, i \in Nat : i \in 1 .. Len(in[x]) => in[x][i].n # c + 1
      <3>1. ASSUME NEW x \in Stun, NEW i \in Nat, i \in 1 .. Len(in[x])
            PROVE  QuestionOf(in[x][i], x) \in questions /\ QuestionOf(in[x][i], x).n = in[x][i].n
        BY <3>1 DEF UdpInv, Tracked, QuestionOf
      <3>2. QED
        BY <1>5, <3>1
    <2>2. \A x \in Stun : HandFor(x) => hand.packet.n # c + 1
      <3>1. ASSUME NEW x \in Stun, HandFor(x)
            PROVE  QuestionOf(hand.packet, x) \in questions
                   /\ QuestionOf(hand.packet, x).n = hand.packet.n
        BY <3>1 DEF UdpInv, Tracked, QuestionOf
      <3>2. QED
        BY <1>5, <3>1
    <2>3. \A x \in Stun, y \in Port, i \in Nat :
            i \in 1 .. Len(boxes[x][y]) => boxes[x][y][i] # c + 1
      <3>1. ASSUME NEW x \in Stun, NEW y \in Port, NEW i \in Nat, i \in 1 .. Len(boxes[x][y])
            PROVE  /\ BoxQuestion(boxes[x][y][i], x, y) \in questions
                   /\ BoxQuestion(boxes[x][y][i], x, y).n = boxes[x][y][i]
        BY <3>1 DEF UdpInv, Tracked, BoxQuestion
      <3>2. QED
        BY <1>5, <3>1
    <2>4. QED
      BY <2>1, <2>2, <2>3
  <1>15. Counted'
    <2>1. \A q \in questions' : q.n <= c + 1
      BY <1>1, <1>2, <1>4, <1>5
    <2>2. \A q, r \in questions' : q.n = r.n => q = r
      <3>1. \A q, r \in questions : q.n = r.n => q = r
        BY DEF UdpInv, Counted
      <3>2. QED
        BY <1>1, <1>4, <1>5, <3>1
    <2>3. \A m \in answered' : m <= c + 1
      BY <1>1, <1>2, <1>5
    <2>4. QED
      BY <1>6, <2>1, <2>2, <2>3 DEF Counted
  <1>16. Separate'
    <2>1. SUFFICES ASSUME NEW q \in questions', NEW r \in questions',
                          q.known, r.known, q.from = r.from, q.to # r.to,
                          q.n \notin answered, r.n \notin answered
                   PROVE  overlap'[q.from]
      BY <1>1 DEF Separate
    <2>2. CASE q \in questions /\ r \in questions
      <3>1. overlap[q.from]
        BY <2>1, <2>2 DEF UdpInv, Separate
      <3>2. QED
        BY <1>8, <1>b, <2>2, <3>1
    <2>3. CASE q = new /\ r \in questions
      BY <1>4, <1>8, <1>b, <2>1, <2>3
    <2>4. CASE r = new /\ q \in questions
      BY <1>4, <1>8, <1>b, <2>1, <2>4
    <2>5. CASE q = new /\ r = new
      BY <2>1, <2>5
    <2>6. QED
      BY <1>1, <2>2, <2>3, <2>4, <2>5
  <1>17. Tracked'
    <2>1. \A x \in Stun, i \in Nat : i \in 1 .. Len(in'[x]) => QuestionOf(in'[x][i], x) \in questions'
      <3>1. \A x \in Stun, i \in Nat : i \in 1 .. Len(in[x]) => QuestionOf(in[x][i], x) \in questions
        BY DEF UdpInv, Tracked
      <3>2. QED
        BY <1>1, <1>4, <1>11, <3>1
    <2>2. \A x \in Stun : HandFor(x) => QuestionOf(hand.packet, x) \in questions'
      BY <1>1 DEF UdpInv, Tracked
    <2>3. \A x \in Stun, y \in Port, i \in Nat :
            i \in 1 .. Len(boxes[x][y]) => BoxQuestion(boxes[x][y][i], x, y) \in questions'
      BY <1>1 DEF UdpInv, Tracked
    <2>4. QED
      BY <1>1, <1>c, <2>1, <2>2, <2>3 DEF Tracked, QuestionOf, BoxQuestion
  <1>18. Distinct'
    <2>1. \A x \in Stun, i, j \in Nat :
            i \in 1 .. Len(in'[x]) /\ j \in 1 .. Len(in'[x]) /\ in'[x][i].n = in'[x][j].n => i = j
      <3>1. SUFFICES ASSUME NEW x \in Stun, NEW i \in Nat, NEW j \in Nat,
                            i \in 1 .. Len(in'[x]), j \in 1 .. Len(in'[x]),
                            in'[x][i].n = in'[x][j].n
                     PROVE  i = j
        OBVIOUS
      <3>2. \/ i \in 1 .. Len(in[x]) /\ in'[x][i] = in[x][i]
            \/ i = Len(in[x]) + 1 /\ in'[x][i] = d
        BY <1>11, <3>1
      <3>3. \/ j \in 1 .. Len(in[x]) /\ in'[x][j] = in[x][j]
            \/ j = Len(in[x]) + 1 /\ in'[x][j] = d
        BY <1>11, <3>1
      <3>4. \A k, l \in Nat :
              k \in 1 .. Len(in[x]) /\ l \in 1 .. Len(in[x]) /\ in[x][k].n = in[x][l].n => k = l
        BY DEF UdpInv, Distinct, OnceQueued
      <3>5. QED
        BY <1>3, <1>14, <3>1, <3>2, <3>3, <3>4
    <2>2. \A x \in Stun, i \in Nat :
            HandFor(x) /\ i \in 1 .. Len(in'[x]) => in'[x][i].n # hand.packet.n
      <3>1. \A x \in Stun, i \in Nat :
              HandFor(x) /\ i \in 1 .. Len(in[x]) => in[x][i].n # hand.packet.n
        BY DEF UdpInv, Distinct, OnceInHand
      <3>2. QED
        BY <1>3, <1>11, <1>14, <3>1
    <2>3. OnceBoxed'
      BY <1>1 DEF UdpInv, Distinct, OnceBoxed
    <2>4. \A x \in Stun, y \in Port, i, j \in Nat :
            i \in 1 .. Len(boxes[x][y]) /\ j \in 1 .. Len(in'[x]) => boxes[x][y][i] # in'[x][j].n
      <3>1. \A x \in Stun, y \in Port, i, j \in Nat :
              i \in 1 .. Len(boxes[x][y]) /\ j \in 1 .. Len(in[x]) => boxes[x][y][i] # in[x][j].n
        BY DEF UdpInv, Distinct, BoxOrQueue
      <3>2. SUFFICES ASSUME NEW x \in Stun, NEW y \in Port, NEW i \in Nat, NEW j \in Nat,
                            i \in 1 .. Len(boxes[x][y]), j \in 1 .. Len(in'[x])
                     PROVE  boxes[x][y][i] # in'[x][j].n
        OBVIOUS
      <3>3. CASE j \in 1 .. Len(in[x]) /\ in'[x][j] = in[x][j]
        BY <3>1, <3>2, <3>3
      <3>4. CASE in'[x][j] = d
        BY <1>3, <1>14, <3>2, <3>4
      <3>5. QED
        BY <1>11, <3>2, <3>3, <3>4
    <2>5. BoxOrHand'
      <3>1. \A x \in Stun, y \in Port, i \in Nat :
              HandFor(x) /\ i \in 1 .. Len(boxes[x][y]) => boxes[x][y][i] # hand.packet.n
        BY DEF UdpInv, Distinct, BoxOrHand
      <3>2. QED
        BY <1>1, <1>c, <3>1 DEF BoxOrHand
    <2>6. OnceQueued'
      BY <2>1 DEF OnceQueued
    <2>7. OnceInHand'
      BY <1>1, <1>c, <2>2 DEF OnceInHand
    <2>8. BoxOrQueue'
      BY <1>1, <2>4 DEF BoxOrQueue
    <2>9. QED
      BY <2>3, <2>5, <2>6, <2>7, <2>8 DEF Distinct
  <1>19. Unanswered'
    <2>1. \A x \in Stun, i \in Nat : i \in 1 .. Len(in'[x]) => in'[x][i].n \notin answered
      <3>1. \A x \in Stun, i \in Nat : i \in 1 .. Len(in[x]) => in[x][i].n \notin answered
        BY DEF UdpInv, Unanswered
      <3>2. QED
        BY <1>3, <1>5, <1>11, <3>1
    <2>2. \A x \in Stun : HandFor(x) => hand.packet.n \notin answered
      BY DEF UdpInv, Unanswered
    <2>3. \A x \in Stun, y \in Port, i \in Nat :
            i \in 1 .. Len(boxes[x][y]) => boxes[x][y][i] \notin answered
      BY DEF UdpInv, Unanswered
    <2>4. QED
      BY <1>1, <1>c, <2>1, <2>2, <2>3 DEF Unanswered
  <1>20. AllKept'
    <2>1. SUFFICES ASSUME NEW q \in questions', q.known, ~overlap'[q.from]
                   PROVE  Kept(q)'
      BY DEF AllKept
    <2>2. CASE q = new
      BY <1>3, <1>4, <1>13, <2>2 DEF Kept
    <2>3. CASE q \in questions
      <3>1. ~overlap[q.from]
        BY <1>8, <1>b, <2>1, <2>3
      <3>2. Kept(q) /\ q.to \in Stun
        BY <1>b, <2>1, <2>3, <3>1 DEF UdpInv, AllKept
      <3>3. CASE \E i \in Nat : i \in 1 .. Len(in[q.to]) /\ in[q.to][i].n = q.n
        BY <1>12, <3>2, <3>3 DEF Kept
      <3>4. CASE \/ q.n \in answered
                 \/ \E i \in Nat : i \in 1 .. Len(boxes[q.to][q.from]) /\ boxes[q.to][q.from][i] = q.n
        BY <1>1, <3>4 DEF Kept
      <3>5. CASE HandFor(q.to) /\ hand.packet.n = q.n
        BY <1>1, <1>c, <3>2, <3>5 DEF Kept
      <3>6. QED
        BY <3>2, <3>3, <3>4, <3>5 DEF Kept
    <2>4. QED
      BY <1>1, <2>2, <2>3
  <1>21. QED
    BY <1>15, <1>16, <1>17, <1>18, <1>19, <1>20 DEF UdpInv

\* Taking an answer.
LEMMA TakenUdpInv ==
  ASSUME Types, UdpInv, NEW p \in Port, RecvFrom(p)
  PROVE  UdpInv'
  <1>f. PICK found \in SUBSET {v \in Stun : boxes[v][p] # <<>>} :
          /\ boxes' = [v \in Stun |->
                         IF v \in found THEN [boxes[v] EXCEPT ![p] = Tail(@)] ELSE boxes[v]]
          /\ \E last \in found : answered' = answered \union {Head(boxes[last][p])}
    BY DEF RecvFrom
  <1>1. PICK last \in found : answered' = answered \union {Head(boxes[last][p])}
    BY <1>f
  <1>u. in' = in /\ questions' = questions /\ overlap' = overlap /\ hand' = hand
    BY DEF RecvFrom, thread
  <1>2. last \in Stun /\ last \in found /\ \A v \in found : v \in Stun /\ boxes[v][p] # <<>>
    BY <1>f, <1>1
  <1>3. \A v \in Stun, r \in Port :
          /\ boxes[v][r] \in Seq(Nat \ {0}) /\ Len(boxes[v][r]) \in Nat
          /\ boxes'[v][r] = IF v \in found /\ r = p THEN Tail(boxes[v][r]) ELSE boxes[v][r]
    BY <1>f, UdpSeqs
  <1>4. \A v \in found :
          /\ Len(boxes[v][p]) \in Nat \ {0} /\ Head(boxes[v][p]) = boxes[v][p][1]
          /\ Len(Tail(boxes[v][p])) = Len(boxes[v][p]) - 1
          /\ \A i \in 1 .. Len(Tail(boxes[v][p])) : Tail(boxes[v][p])[i] = boxes[v][p][i + 1]
    <2>1. SUFFICES ASSUME NEW v \in found
                   PROVE  /\ Len(boxes[v][p]) \in Nat \ {0} /\ Head(boxes[v][p]) = boxes[v][p][1]
                          /\ Len(Tail(boxes[v][p])) = Len(boxes[v][p]) - 1
                          /\ \A i \in 1 .. Len(Tail(boxes[v][p])) :
                               Tail(boxes[v][p])[i] = boxes[v][p][i + 1]
      OBVIOUS
    <2> DEFINE s == boxes[v][p]
    <2>2. s \in Seq(Nat \ {0}) /\ s # <<>>
      BY <1>2, <1>3
    <2> HIDE DEF s
    <2>3. /\ Len(Tail(s)) = Len(s) - 1 /\ Len(s) \in Nat \ {0}
          /\ \A i \in 1 .. Len(Tail(s)) : Tail(s)[i] = s[i + 1]
      BY <2>2, HeadTailProperties, EmptySeq
    <2>4. Head(s) = s[1]
      BY <2>2
    <2>5. QED
      BY <2>3, <2>4 DEF s
  <1> DEFINE h == boxes[last][p][1]
  <1>5. answered' = answered \union {h}
    BY <1>1, <1>2, <1>4
  <1>6. \* Where an answer that is left was.
        \A v \in Stun, r \in Port, i \in Nat : i \in 1 .. Len(boxes'[v][r]) =>
          \/ v \in found /\ r = p /\ i + 1 \in 1 .. Len(boxes[v][r])
             /\ boxes'[v][r][i] = boxes[v][r][i + 1]
          \/ ~(v \in found /\ r = p) /\ i \in 1 .. Len(boxes[v][r])
             /\ boxes'[v][r][i] = boxes[v][r][i]
    <2>1. SUFFICES ASSUME NEW v \in Stun, NEW r \in Port, NEW i \in Nat,
                          i \in 1 .. Len(boxes'[v][r])
                   PROVE  \/ v \in found /\ r = p /\ i + 1 \in 1 .. Len(boxes[v][r])
                             /\ boxes'[v][r][i] = boxes[v][r][i + 1]
                          \/ ~(v \in found /\ r = p) /\ i \in 1 .. Len(boxes[v][r])
                             /\ boxes'[v][r][i] = boxes[v][r][i]
      OBVIOUS
    <2>2. CASE v \in found /\ r = p
      <3>1. boxes'[v][r] = Tail(boxes[v][r])
        BY <1>3, <2>2
      <3>2. QED
        BY <1>4, <2>1, <2>2, <3>1
    <2>3. CASE ~(v \in found /\ r = p)
      BY <1>3, <2>1, <2>3
    <2>4. QED
      BY <2>2, <2>3
  <1>7. \* Where an answer is afterwards.
        \A v \in Stun, r \in Port, i \in Nat :
          i \in 1 .. Len(boxes[v][r]) /\ ~(v \in found /\ r = p /\ i = 1) =>
            \E j \in Nat : j \in 1 .. Len(boxes'[v][r]) /\ boxes'[v][r][j] = boxes[v][r][i]
    <2>1. SUFFICES ASSUME NEW v \in Stun, NEW r \in Port, NEW i \in Nat,
                          i \in 1 .. Len(boxes[v][r]), ~(v \in found /\ r = p /\ i = 1)
                   PROVE  \E j \in Nat : j \in 1 .. Len(boxes'[v][r])
                                        /\ boxes'[v][r][j] = boxes[v][r][i]
      OBVIOUS
    <2>2. CASE v \in found /\ r = p
      <3>1. boxes'[v][r] = Tail(boxes[v][r])
        BY <1>3, <2>2
      <3>2. i - 1 \in Nat /\ i - 1 \in 1 .. Len(boxes'[v][r]) /\ (i - 1) + 1 = i
        BY <1>4, <2>1, <2>2, <3>1
      <3>3. boxes'[v][r][i - 1] = boxes[v][r][i]
        BY <1>4, <2>2, <3>1, <3>2
      <3>4. QED
        BY <3>2, <3>3
    <2>3. CASE ~(v \in found /\ r = p)
      BY <1>3, <2>1, <2>3
    <2>4. QED
      BY <2>2, <2>3
  <1>8. \A v \in Stun, r \in Port, i \in Nat : i \in 1 .. Len(boxes'[v][r]) =>
          \E j \in Nat : j \in 1 .. Len(boxes[v][r]) /\ boxes'[v][r][i] = boxes[v][r][j]
    <2>1. SUFFICES ASSUME NEW v \in Stun, NEW r \in Port, NEW i \in Nat,
                          i \in 1 .. Len(boxes'[v][r])
                   PROVE  \E j \in Nat : j \in 1 .. Len(boxes[v][r])
                                        /\ boxes'[v][r][i] = boxes[v][r][j]
      OBVIOUS
    <2>2. i + 1 \in Nat
      OBVIOUS
    <2>3. QED
      BY <1>6, <2>1, <2>2
  <1>9. 1 \in Nat /\ 1 \in 1 .. Len(boxes[last][p])
    BY <1>2, <1>4
  <1>10. /\ BoxQuestion(h, last, p) \in questions /\ BoxQuestion(h, last, p).n = h
         /\ BoxQuestion(h, last, p).to = last /\ BoxQuestion(h, last, p).from = p
         /\ BoxQuestion(h, last, p).known
         /\ h \notin answered
         /\ \A i \in Nat : i \in 1 .. Len(in[last]) => in[last][i].n # h
         /\ HandFor(last) => hand.packet.n # h
         /\ \A i \in Nat : i \in 1 .. Len(boxes[last][p]) /\ boxes[last][p][i] = h => i = 1
    <2>1. BoxQuestion(h, last, p) \in questions
      BY <1>2, <1>9 DEF UdpInv, Tracked
    <2>2. h \notin answered
      BY <1>2, <1>9 DEF UdpInv, Unanswered
    <2>3. \A i \in Nat : i \in 1 .. Len(in[last]) => h # in[last][i].n
      BY <1>2, <1>9 DEF UdpInv, Distinct, BoxOrQueue
    <2>4. HandFor(last) => h # hand.packet.n
      BY <1>2, <1>9 DEF UdpInv, Distinct, BoxOrHand
    <2>5. \A i, j \in Nat :
            i \in 1 .. Len(boxes[last][p]) /\ j \in 1 .. Len(boxes[last][p])
            /\ boxes[last][p][i] = boxes[last][p][j] => i = j
      BY <1>2 DEF UdpInv, Distinct, OnceBoxed
    <2>6. \A i \in Nat : i \in 1 .. Len(boxes[last][p]) /\ boxes[last][p][i] = h => i = 1
      BY <1>9, <2>5
    <2>7. QED
      BY <2>1, <2>2, <2>3, <2>4, <2>6 DEF BoxQuestion
  <1> HIDE DEF h
  <1>11. \A q \in questions : q.n = h => q.to = last /\ q.from = p
    BY <1>10 DEF UdpInv, Counted
  <1>c. \A x \in Stun : HandFor(x)' = HandFor(x)
    BY <1>u DEF HandFor
  <1>12. Counted'
    <2>1. \A m \in answered : m <= Cardinality(questions)
      BY DEF UdpInv, Counted
    <2>2. h <= Cardinality(questions)
      BY <1>10 DEF UdpInv, Counted
    <2>3. \A m \in answered' : m <= Cardinality(questions)
      BY <1>5, <2>1, <2>2
    <2>4. QED
      BY <1>u, <2>3 DEF UdpInv, Counted
  <1>13. Separate'
    <2>1. answered \subseteq answered'
      BY <1>5
    <2>2. QED
      BY <1>u, <2>1 DEF UdpInv, Separate
  <1>14. Tracked'
    <2>1. \A x \in Stun, y \in Port, i \in Nat :
            i \in 1 .. Len(boxes'[x][y]) => BoxQuestion(boxes'[x][y][i], x, y) \in questions
      <3>1. SUFFICES ASSUME NEW x \in Stun, NEW y \in Port, NEW i \in Nat,
                            i \in 1 .. Len(boxes'[x][y])
                     PROVE  BoxQuestion(boxes'[x][y][i], x, y) \in questions
        OBVIOUS
      <3>2. PICK k \in Nat : k \in 1 .. Len(boxes[x][y]) /\ boxes'[x][y][i] = boxes[x][y][k]
        BY <1>8, <3>1
      <3>3. BoxQuestion(boxes[x][y][k], x, y) \in questions
        BY <3>2 DEF UdpInv, Tracked
      <3>4. QED
        BY <3>2, <3>3
    <2>2. \A x \in Stun, i \in Nat : i \in 1 .. Len(in[x]) => QuestionOf(in[x][i], x) \in questions
      BY DEF UdpInv, Tracked
    <2>3. \A x \in Stun : HandFor(x) => QuestionOf(hand.packet, x) \in questions
      BY DEF UdpInv, Tracked
    <2>4. QED
      BY <1>u, <1>c, <2>1, <2>2, <2>3 DEF Tracked, QuestionOf, BoxQuestion
  <1>15. Distinct'
    <2>1. OnceQueued'
      BY <1>u DEF UdpInv, Distinct, OnceQueued
    <2>2. OnceInHand'
      <3>1. \A x \in Stun, i \in Nat :
              HandFor(x) /\ i \in 1 .. Len(in[x]) => in[x][i].n # hand.packet.n
        BY DEF UdpInv, Distinct, OnceInHand
      <3>2. QED
        BY <1>u, <1>c, <3>1 DEF OnceInHand
    <2>3. \A x \in Stun, y \in Port, i, j \in Nat :
            i \in 1 .. Len(boxes'[x][y]) /\ j \in 1 .. Len(boxes'[x][y])
            /\ boxes'[x][y][i] = boxes'[x][y][j] => i = j
      <3>1. SUFFICES ASSUME NEW x \in Stun, NEW y \in Port, NEW i \in Nat, NEW j \in Nat,
                            i \in 1 .. Len(boxes'[x][y]), j \in 1 .. Len(boxes'[x][y]),
                            boxes'[x][y][i] = boxes'[x][y][j]
                     PROVE  i = j
        OBVIOUS
      <3>2. \A k, l \in Nat :
              k \in 1 .. Len(boxes[x][y]) /\ l \in 1 .. Len(boxes[x][y])
              /\ boxes[x][y][k] = boxes[x][y][l] => k = l
        BY DEF UdpInv, Distinct, OnceBoxed
      <3>3. CASE x \in found /\ y = p
        <4>1. i + 1 \in Nat /\ j + 1 \in Nat
          OBVIOUS
        <4>2. /\ i + 1 \in 1 .. Len(boxes[x][y]) /\ boxes'[x][y][i] = boxes[x][y][i + 1]
              /\ j + 1 \in 1 .. Len(boxes[x][y]) /\ boxes'[x][y][j] = boxes[x][y][j + 1]
          BY <1>6, <3>1, <3>3
        <4>3. i + 1 = j + 1
          BY <3>1, <3>2, <4>1, <4>2
        <4>4. QED
          BY <4>3
      <3>4. CASE ~(x \in found /\ y = p)
        BY <1>6, <3>1, <3>2, <3>4
      <3>5. QED
        BY <3>3, <3>4
    <2>4. \A x \in Stun, y \in Port, i, j \in Nat :
            i \in 1 .. Len(boxes'[x][y]) /\ j \in 1 .. Len(in[x]) => boxes'[x][y][i] # in[x][j].n
      <3>1. \A x \in Stun, y \in Port, i, j \in Nat :
              i \in 1 .. Len(boxes[x][y]) /\ j \in 1 .. Len(in[x]) => boxes[x][y][i] # in[x][j].n
        BY DEF UdpInv, Distinct, BoxOrQueue
      <3>2. QED
        BY <1>8, <3>1
    <2>5. \A x \in Stun, y \in Port, i \in Nat :
            HandFor(x) /\ i \in 1 .. Len(boxes'[x][y]) => boxes'[x][y][i] # hand.packet.n
      <3>1. \A x \in Stun, y \in Port, i \in Nat :
              HandFor(x) /\ i \in 1 .. Len(boxes[x][y]) => boxes[x][y][i] # hand.packet.n
        BY DEF UdpInv, Distinct, BoxOrHand
      <3>2. SUFFICES ASSUME NEW x \in Stun, NEW y \in Port, NEW i \in Nat,
                            HandFor(x), i \in 1 .. Len(boxes'[x][y])
                     PROVE  boxes'[x][y][i] # hand.packet.n
        OBVIOUS
      <3>3. PICK k \in Nat : k \in 1 .. Len(boxes[x][y]) /\ boxes'[x][y][i] = boxes[x][y][k]
        BY <1>8, <3>2
      <3>4. QED
        BY <3>1, <3>2, <3>3
    <2>6. OnceBoxed'
      BY <2>3 DEF OnceBoxed
    <2>7. BoxOrQueue'
      BY <1>u, <2>4 DEF BoxOrQueue
    <2>8. BoxOrHand'
      BY <1>u, <1>c, <2>5 DEF BoxOrHand
    <2>9. QED
      BY <2>1, <2>2, <2>6, <2>7, <2>8 DEF Distinct
  <1>16. Unanswered'
    <2>1. \A x \in Stun, i \in Nat : i \in 1 .. Len(in[x]) =>
            in[x][i].n \notin answered /\ in[x][i].n # h
      <3>1. SUFFICES ASSUME NEW x \in Stun, NEW i \in Nat, i \in 1 .. Len(in[x])
                     PROVE  in[x][i].n \notin answered /\ in[x][i].n # h
        OBVIOUS
      <3>2. /\ QuestionOf(in[x][i], x) \in questions /\ QuestionOf(in[x][i], x).n = in[x][i].n
            /\ QuestionOf(in[x][i], x).to = x
        BY <3>1 DEF UdpInv, Tracked, QuestionOf
      <3>3. in[x][i].n \notin answered
        BY <3>1 DEF UdpInv, Unanswered
      <3>4. QED
        BY <1>10, <1>11, <3>1, <3>2, <3>3
    <2>2. \A x \in Stun : HandFor(x) =>
            hand.packet.n \notin answered /\ hand.packet.n # h
      <3>1. SUFFICES ASSUME NEW x \in Stun, HandFor(x)
                     PROVE  hand.packet.n \notin answered /\ hand.packet.n # h
        OBVIOUS
      <3>2. /\ QuestionOf(hand.packet, x) \in questions
            /\ QuestionOf(hand.packet, x).n = hand.packet.n
            /\ QuestionOf(hand.packet, x).to = x
        BY <3>1 DEF UdpInv, Tracked, QuestionOf
      <3>3. hand.packet.n \notin answered
        BY <3>1 DEF UdpInv, Unanswered
      <3>4. QED
        BY <1>10, <1>11, <3>1, <3>2, <3>3
    <2>3. \A x \in Stun, y \in Port, i \in Nat : i \in 1 .. Len(boxes'[x][y]) =>
            boxes'[x][y][i] \notin answered /\ boxes'[x][y][i] # h
      <3>1. SUFFICES ASSUME NEW x \in Stun, NEW y \in Port, NEW i \in Nat,
                            i \in 1 .. Len(boxes'[x][y])
                     PROVE  boxes'[x][y][i] \notin answered /\ boxes'[x][y][i] # h
        OBVIOUS
      <3>2. \A k \in Nat : k \in 1 .. Len(boxes[x][y]) =>
              /\ boxes[x][y][k] \notin answered
              /\ BoxQuestion(boxes[x][y][k], x, y) \in questions
        BY <3>1 DEF UdpInv, Unanswered, Tracked
      <3>3. boxes'[x][y][i] \notin answered
        <4>1. PICK k \in Nat : k \in 1 .. Len(boxes[x][y]) /\ boxes'[x][y][i] = boxes[x][y][k]
          BY <1>8, <3>1
        <4>2. QED
          BY <3>2, <4>1
      <3>4. ASSUME boxes'[x][y][i] = h
            PROVE  FALSE
        <4>1. BoxQuestion(h, x, y) \in questions
          <5>1. PICK k \in Nat : k \in 1 .. Len(boxes[x][y]) /\ boxes'[x][y][i] = boxes[x][y][k]
            BY <1>8, <3>1
          <5>2. QED
            BY <3>2, <3>4, <5>1
        <4>2. x = last /\ y = p
          BY <1>11, <4>1 DEF BoxQuestion
        <4>3. i + 1 \in Nat /\ i + 1 # 1
          BY <3>1
        <4>4. i + 1 \in 1 .. Len(boxes[last][p]) /\ boxes[last][p][i + 1] = h
          BY <1>2, <1>6, <3>1, <3>4, <4>2
        <4>5. QED
          BY <1>10, <4>3, <4>4
      <3>5. QED
        BY <3>3, <3>4
    <2>4. QED
      BY <1>5, <1>u, <1>c, <2>1, <2>2, <2>3 DEF Unanswered
  <1>17. AllKept'
    <2>1. SUFFICES ASSUME NEW q \in questions, q.known, ~overlap[q.from]
                   PROVE  Kept(q)'
      BY <1>u DEF AllKept
    <2>2. Kept(q) /\ q.to \in Stun /\ q.from \in Port
      BY <2>1, UdpSeqs DEF UdpInv, AllKept
    <2>3. CASE q.n \in answered
      BY <1>5, <2>3 DEF Kept
    <2>4. CASE \E i \in Nat : i \in 1 .. Len(in[q.to]) /\ in[q.to][i].n = q.n
      BY <1>u, <2>4 DEF Kept
    <2>5. CASE HandFor(q.to) /\ hand.packet.n = q.n
      BY <1>u, <1>c, <2>2, <2>5 DEF Kept
    <2>6. ASSUME NEW i \in Nat, i \in 1 .. Len(boxes[q.to][q.from]),
                 boxes[q.to][q.from][i] = q.n
          PROVE  Kept(q)'
      <3>1. CASE ~(q.to \in found /\ q.from = p /\ i = 1)
        <4> DEFINE x == q.to
                   y == q.from
        <4>1. x \in Stun /\ y \in Port /\ i \in 1 .. Len(boxes[x][y])
              /\ ~(x \in found /\ y = p /\ i = 1) /\ boxes[x][y][i] = q.n
          BY <2>2, <2>6, <3>1
        <4> HIDE DEF x, y
        <4>2. PICK j \in Nat : j \in 1 .. Len(boxes'[x][y]) /\ boxes'[x][y][j] = boxes[x][y][i]
          BY <1>7, <2>6, <4>1
        <4>3. j \in 1 .. Len(boxes'[q.to][q.from]) /\ boxes'[q.to][q.from][j] = q.n
          BY <4>1, <4>2 DEF x, y
        <4>4. QED
          BY <4>3 DEF Kept
      <3>2. CASE q.to = last /\ q.from = p /\ i = 1
        <4>1. q.n = h
          BY <2>6, <3>2 DEF h
        <4>2. QED
          BY <1>5, <4>1 DEF Kept
      <3>3. CASE q.to # last /\ q.from = p
        <4>1. q.n \notin answered
          BY <2>2, <2>6 DEF UdpInv, Unanswered
        <4>2. overlap[p]
          BY <1>10, <2>1, <3>3, <4>1 DEF UdpInv, Separate
        <4>3. QED
          BY <2>1, <3>3, <4>2
      <3>4. QED
        BY <3>1, <3>2, <3>3
    <2>7. QED
      BY <2>2, <2>3, <2>4, <2>5, <2>6 DEF Kept
  <1>18. QED
    BY <1>12, <1>13, <1>14, <1>15, <1>16, <1>17 DEF UdpInv

\* Nothing of the datagrams changes.
LEMMA SameUdpInv ==
  ASSUME Types, UdpInv, UNCHANGED udp,
         \A v \in Stun : in'[v] = in[v] /\ (HandFor(v)' <=> HandFor(v)),
         \A v \in Stun : HandFor(v) => hand'.packet = hand.packet
  PROVE  UdpInv'
  <1>1. boxes' = boxes /\ questions' = questions /\ answered' = answered /\ overlap' = overlap
    BY DEF udp
  <1>2. Counted' /\ OnceBoxed'
    BY <1>1 DEF UdpInv, Counted, Distinct, OnceBoxed
  <1>3. Separate'
    BY <1>1 DEF UdpInv, Separate
  <1>4. Tracked'
    BY <1>1 DEF UdpInv, Tracked, QuestionOf, BoxQuestion
  <1>5. OnceQueued' /\ OnceInHand'
    BY DEF UdpInv, Distinct, OnceQueued, OnceInHand
  <1>6. BoxOrQueue' /\ BoxOrHand'
    BY <1>1 DEF UdpInv, Distinct, BoxOrQueue, BoxOrHand
  <1>7. Unanswered'
    BY <1>1 DEF UdpInv, Unanswered
  <1>8. AllKept'
    <2>1. SUFFICES ASSUME NEW q \in questions, q.known, ~overlap[q.from]
                   PROVE  Kept(q)'
      BY <1>1 DEF AllKept
    <2>2. Kept(q) /\ q.to \in Stun
      BY <2>1, UdpSeqs DEF UdpInv, AllKept
    <2>3. QED
      BY <1>1, <2>2 DEF Kept
  <1>9. QED
    BY <1>2, <1>3, <1>4, <1>5, <1>6, <1>7, <1>8 DEF UdpInv, Distinct

\* Every step.
LEMMA NextUdpInv == Types /\ UdpInv /\ [Next]_vars => UdpInv'
  <1> SUFFICES ASSUME Types, UdpInv, [Next]_vars PROVE UdpInv'
    OBVIOUS
  <1>t. \A v \in Stun : v # Lobby
    BY DEF Stun
  <1>1. CASE Pop
    BY <1>1, PoppedUdpInv
  <1>2. CASE HandleDatagram
    BY <1>2, HandledUdpInv
  <1>3. CASE \E p \in Port, v \in Stun, known \in BOOLEAN : SendTo(p, v, known)
    BY <1>3, AskedUdpInv
  <1>4. CASE \E p \in Port : RecvFrom(p)
    BY <1>4, TakenUdpInv
  <1>5. CASE HandleStream
    <2>1. UNCHANGED udp /\ in' = in /\ hand.server = Lobby /\ hand' = None
      BY <1>5 DEF HandleStream
    <2>2. \A v \in Stun : in'[v] = in[v] /\ ~HandFor(v) /\ ~(HandFor(v)')
      BY <1>t, <2>1 DEF HandFor
    <2>3. QED
      BY <2>1, <2>2, SameUdpInv
  <1>6. CASE \E s \in Socket, k \in Kind : Send(s, k)
    <2>1. PICK s \in Socket, k \in Kind : Send(s, k)
      BY <1>6
    <2>2. UNCHANGED udp /\ hand' = hand
      BY <2>1 DEF Send, thread
    <2>3. in' = [in EXCEPT ![Lobby] = Append(@, [n |-> sent + 1, conn |-> conn[s], kind |-> k])]
      BY <2>1 DEF Send
    <2>4. \A v \in Stun : in'[v] = in[v]
      BY <1>t, <2>3, UdpSeqs
    <2>5. \A v \in Stun : HandFor(v)' <=> HandFor(v)
      BY <2>2 DEF HandFor
    <2>6. QED
      BY <2>2, <2>4, <2>5, SameUdpInv
  <1>7. CASE \/ Begin \/ Turn \/ Pass \/ PreDestroy \/ Joined
             \/ \E s \in Socket : Connect(s)
             \/ \E s \in Socket : Close(s)
             \/ \E r \in Thread, s \in Socket : FindData(r, s)
             \/ \E r \in Thread, len \in 1 .. 2 : TakeData(r, len)
             \/ UNCHANGED vars
    <2>1. UNCHANGED <<in, hand, udp>>
      BY <1>7 DEF Begin, Turn, Pass, PreDestroy, Joined, Connect, Close, FindData, TakeData,
                  vars, thread
    <2>2. \A v \in Stun : in'[v] = in[v] /\ (HandFor(v)' <=> HandFor(v))
      BY <2>1 DEF HandFor
    <2>3. QED
      BY <2>1, <2>2, SameUdpInv
  <1>8. QED
    BY <1>1, <1>2, <1>3, <1>4, <1>5, <1>6, <1>7 DEF Next

\* A question to a stun server is on its way, answered or read, unless its
\* socket has asked two servers at a time (AnswersKept).
THEOREM AnswersAreKept == Spec => []AnswersKept
  <1>1. Types /\ UdpInv /\ [Next]_vars => UdpInv'
    BY NextUdpInv
  <1>2. QED
    BY <1>1, InitUdpInv, UdpInvImplies, TypesHold, PTL DEF Spec

-----------------------------------------------------------------------------
(* The end: pre_destroy joins the servers' thread.                         *)

\* Where the guard of a fair step is true, the step can be taken.  The provers
\* do not look into ENABLED; TLC finds this true in all states of MCDemonware.
StepsCanRun ==
  /\ at \in {"top", "frame"} => ENABLED <<ServerThread>>_vars
  /\ game = "joining" /\ at = "ended" => ENABLED <<Joined>>_vars

\* pre_destroy waits, and the thread had begun when it came.
Ending == game = "joining" /\ ~early

\* So the thread has seen exit_server, or will.
ExitSeen == Ending => exit /\ at # "new"

\* A packet in hand is one of a frame under way.
HeldInFrame == hand # None => at = "frame"

EndInv == Types /\ ExitSeen /\ HeldInFrame

\* While pre_destroy waits the game sends nothing more: only the thread moves.
LEMMA EndingMoves ==
  ASSUME EndInv, Ending, [Next]_vars
  PROVE  /\ ServerThread \/ UNCHANGED <<at, todo, hand, in>>
         /\ Ending' \/ (at = "ended" /\ game' = "gone")
         /\ exit' = exit
  <1>g. game = "joining" /\ at # "new"
    BY DEF Ending, EndInv, ExitSeen
  <1>1. ASSUME Turn \/ Pass \/ Pop \/ HandleStream \/ HandleDatagram
        PROVE  ServerThread /\ UNCHANGED <<exit, game, early>>
    BY <1>1 DEF ServerThread, Turn, Pass, Pop, HandleStream, HandleDatagram
  <1>2. ASSUME NEW s \in Socket,
               Close(s) \/ \E r \in Thread : FindData(r, s)
        PROVE  UNCHANGED <<exit, at, todo, hand, in, game, early>>
    BY <1>2 DEF Close, FindData, thread
  <1>3. ASSUME NEW r \in Thread, NEW len \in 1 .. 2, TakeData(r, len)
        PROVE  UNCHANGED <<exit, at, todo, hand, in, game, early>>
    BY <1>3 DEF TakeData, thread
  <1>4. ASSUME NEW p \in Port, RecvFrom(p)
        PROVE  UNCHANGED <<exit, at, todo, hand, in, game, early>>
    BY <1>4 DEF RecvFrom, thread
  <1>5. ASSUME UNCHANGED vars
        PROVE  UNCHANGED <<exit, at, todo, hand, in, game, early>>
    BY <1>5 DEF vars, thread
  <1>6. ASSUME Joined
        PROVE  UNCHANGED <<exit, at, todo, hand, in>> /\ at = "ended" /\ game' = "gone"
    BY <1>6 DEF Joined, thread
  <1>7. /\ ~Begin /\ ~PreDestroy
        /\ \A s \in Socket : ~Connect(s) /\ \A k \in Kind : ~Send(s, k)
        /\ \A p \in Port, v \in Stun, known \in BOOLEAN : ~SendTo(p, v, known)
    BY <1>g DEF Begin, PreDestroy, Connect, Send, SendTo
  <1>8. UNCHANGED <<game, early>> => Ending'
    BY DEF Ending
  <1>9. QED
    BY <1>1, <1>2, <1>3, <1>4, <1>5, <1>6, <1>7, <1>8 DEF Next

\* exit_server stays set once the thread has begun.
LEMMA EndInvHolds == Spec => []EndInv
  <1>1. Init => ExitSeen /\ HeldInFrame
    BY DEF Init, ExitSeen, Ending, HeldInFrame
  <1>2. ASSUME EndInv, [Next]_vars PROVE ExitSeen'
    <2>1. CASE Ending
      <3>1. exit' /\ (UNCHANGED at \/ ServerThread)
        BY <1>2, <2>1, EndingMoves DEF EndInv, ExitSeen
      <3>2. at' # "new"
        BY <1>2, <2>1, <3>1
           DEF EndInv, ExitSeen, ServerThread, Begin, Turn, Pass, Pop, HandleStream,
               HandleDatagram, thread
      <3>3. QED
        BY <3>1, <3>2 DEF ExitSeen
    <2>2. CASE PreDestroy
      BY <2>2 DEF PreDestroy, ExitSeen, Ending
    <2>3. CASE ~Ending /\ ~PreDestroy
      <3>1. (game' = game /\ early' = early) \/ Joined
        BY <1>2, <2>3
           DEF Next, vars, Begin, Turn, Pass, Pop, HandleStream, HandleDatagram, Connect, Close,
               Send, FindData, TakeData, SendTo, RecvFrom
      <3>2. QED
        BY <2>3, <3>1 DEF ExitSeen, Ending, Joined
    <2>4. QED
      BY <2>1, <2>2, <2>3
  <1>3. ASSUME HeldInFrame, [Next]_vars PROVE HeldInFrame'
    <2>1. CASE Turn \/ Pass \/ Pop \/ HandleStream \/ HandleDatagram
      BY <1>3, <2>1 DEF HeldInFrame, Turn, Pass, Pop, HandleStream, HandleDatagram
    <2>2. CASE Begin
      BY <1>3, <2>2 DEF HeldInFrame, Begin
    <2>3. CASE at' = at /\ hand' = hand
      BY <1>3, <2>3 DEF HeldInFrame
    <2>4. QED
      BY <1>3, <2>1, <2>2, <2>3
         DEF Next, vars, thread, Connect, Close, Send, FindData, TakeData, SendTo, RecvFrom,
             PreDestroy, Joined
  <1>4. QED
    BY <1>1, <1>2, <1>3, TypesHold, PTL DEF EndInv, Spec

\* What a step of the thread does to the frame that it is in.
LEMMA FrameMoves ==
  ASSUME EndInv, at = "frame", ServerThread
  PROVE  \/ /\ hand # None
            /\ hand' = None /\ at' = at /\ todo' = todo /\ in' = in
         \/ /\ hand = None /\ in[Head(todo)] # <<>>
            /\ hand' # None /\ at' = at /\ todo' = todo
            /\ Len(in'[Head(todo)]) = Len(in[Head(todo)]) - 1
         \/ /\ hand = None /\ in[Head(todo)] = <<>>
            /\ at' = "top" \/ (at' = "frame" /\ Len(todo') = Len(todo) - 1)
  <1>1. CASE Begin \/ Turn
    BY <1>1 DEF Begin, Turn
  <1>2. CASE HandleStream \/ HandleDatagram
    BY <1>2 DEF HandleStream, HandleDatagram
  <1>3. CASE Pass
    <2>1. todo \in Seq(Server) /\ todo # <<>>
      BY DEF EndInv, Types, ThreadTypes
    <2>2. Len(Tail(todo)) = Len(todo) - 1
      BY <2>1
    <2>3. QED
      BY <1>3, <2>2 DEF Pass
  <1>4. CASE Pop
    <2> DEFINE v == Head(todo)
    <2>1. todo \in Seq(Server) /\ todo # <<>>
      BY DEF EndInv, Types, ThreadTypes
    <2>2. v \in Server
      BY <2>1
    <2>3. in \in [Server -> Seq(StreamPacket \union Datagram)]
      BY DEF EndInv, Types, QueueTypes
    <2> HIDE DEF v
    <2>4. in[v] \in Seq(StreamPacket \union Datagram)
      BY <2>2, <2>3
    <2>5. in[v] # <<>> /\ in'[v] = Tail(in[v])
      BY <1>4, <2>2, <2>3 DEF Pop, v
    <2>6. Len(in'[v]) = Len(in[v]) - 1
      BY <2>4, <2>5
    <2>8. hand' = [server |-> v, packet |-> Head(in[v])]
      BY <1>4 DEF Pop, v
    <2>9. [server |-> v, packet |-> Head(in[v])] \in Popped
      <3>1. Head(in[v]) \in StreamPacket \union Datagram
        BY <2>4, <2>5
      <3>2. QED
        BY <2>2, <3>1 DEF Popped
    <2>10. QED
      BY <1>4, <2>6, <2>8, <2>9 DEF Pop, v
  <1>5. QED
    BY <1>1, <1>2, <1>3, <1>4 DEF ServerThread

\* The thread is in a frame with k servers still to serve and n packets left
\* in the queue of the first of them.
Serving(k, n) ==
  Ending /\ at = "frame" /\ Len(todo) = k /\ Len(in[Head(todo)]) = n

Descends(k, n) ==
  Serving(k, n) ~>
    \/ Ending /\ at = "top"
    \/ k > 0 /\ \E m \in Nat : Serving(k - 1, m)
    \/ n > 0 /\ Serving(k, n - 1)

\* While pre_destroy waits, every frame serves one packet after the other and
\* one server after the other, and adds none.
THEOREM FrameDescends == Spec /\ []StepsCanRun => \A k, n \in Nat : Descends(k, n)
  <1> SUFFICES ASSUME NEW k \in Nat, NEW n \in Nat
               PROVE  Spec /\ []StepsCanRun => Descends(k, n)
    OBVIOUS
  <1> DEFINE S == EndInv /\ Serving(k, n)
             Full == S /\ hand # None
             Empty == S /\ hand = None
             Top == Ending /\ at = "top"
             NextServer == k > 0 /\ \E m \in Nat : Serving(k - 1, m)
             NextPacket == n > 0 /\ Serving(k, n - 1)
             Further == Top \/ NextServer \/ NextPacket
  <1>1. ASSUME S, EndInv', [Next]_vars, ~ServerThread
        PROVE  S' /\ hand' = hand
    BY <1>1, EndingMoves DEF Serving
  <1>2. ASSUME S, EndInv', [Next]_vars PROVE Ending'
    BY <1>2, EndingMoves DEF Serving
  <1>3. ASSUME Full, EndInv', [Next]_vars, ServerThread PROVE Empty'
    <2>1. hand' = None /\ at' = at /\ todo' = todo /\ in' = in
      BY <1>3, FrameMoves DEF Serving
    <2>2. QED
      BY <1>2, <1>3, <2>1 DEF Serving
  <1>4. ASSUME Empty, EndInv', [Next]_vars, ServerThread PROVE Further'
    <2> DEFINE v == Head(todo)
    <2>1. todo \in Seq(Server) /\ todo # <<>> /\ in \in [Server -> Seq(StreamPacket \union Datagram)]
      BY <1>4 DEF Serving, EndInv, Types, ThreadTypes, QueueTypes
    <2>2. v \in Server /\ in[v] \in Seq(StreamPacket \union Datagram)
      BY <2>1
    <2> HIDE DEF v
    <2>3. in[v] # <<>> => n > 0
      BY <1>4, <2>2 DEF Serving, v
    <2>4. CASE at' = at /\ todo' = todo /\ Len(in'[v]) = Len(in[v]) - 1 /\ in[v] # <<>>
      <3>1. Serving(k, n - 1)'
        BY <1>2, <1>4, <2>4 DEF Serving, v
      <3>2. QED
        BY <2>3, <2>4, <3>1
    <2>5. CASE at' = "top"
      BY <1>2, <1>4, <2>5
    <2>6. CASE at' = "frame" /\ Len(todo') = Len(todo) - 1
      <3>1. todo' \in Seq(Server) /\ todo' # <<>>
            /\ in' \in [Server -> Seq(StreamPacket \union Datagram)]
        BY <1>4, <2>6 DEF EndInv, Types, ThreadTypes, QueueTypes
      <3>2. Head(todo') \in Server
        BY <3>1
      <3>3. in'[Head(todo')] \in Seq(StreamPacket \union Datagram)
        BY <3>1, <3>2
      <3>4. Len(in'[Head(todo')]) \in Nat
        BY <3>3
      <3>5. PICK m \in Nat : m = Len(in'[Head(todo')])
        BY <3>4
      <3>6. Serving(k - 1, m)'
        BY <1>2, <1>4, <2>6, <3>5 DEF Serving
      <3>7. k > 0
        BY <1>4, <2>1, <2>6, <3>1 DEF Serving
      <3>8. QED
        BY <3>6, <3>7
    <2>7. QED
      BY <1>4, <2>4, <2>5, <2>6, FrameMoves DEF Serving, v
  <1>5. S /\ StepsCanRun => ENABLED <<ServerThread>>_vars
    BY DEF Serving, StepsCanRun
  <1>6. Serving(k, n) /\ EndInv => Full \/ Empty
    OBVIOUS
  <1>7. (Full => S) /\ (Empty => S)
    OBVIOUS
  <1>8. ASSUME Full, EndInv', [Next]_vars PROVE Full' \/ Empty'
    BY <1>1, <1>3, <1>8
  <1>9. ASSUME Empty, EndInv', [Next]_vars PROVE Empty' \/ Further'
    BY <1>1, <1>4, <1>9
  <1> HIDE DEF S, Full, Empty, Further
  <1>10. Spec /\ []StepsCanRun => (Full ~> Empty)
    BY <1>3, <1>5, <1>7, <1>8, EndInvHolds, PTL DEF Spec
  <1>11. Spec /\ []StepsCanRun => (Empty ~> Further)
    BY <1>4, <1>5, <1>7, <1>9, EndInvHolds, PTL DEF Spec
  <1>12. Spec /\ []StepsCanRun => (Serving(k, n) ~> Further)
    BY <1>6, <1>10, <1>11, EndInvHolds, PTL
  <1>13. QED
    BY <1>12, PTL DEF Further, Descends

\* The rule of induction for ~>, over servers and packets in this order.
FrameInduction ==
  (\A k, n \in Nat : Descends(k, n)) =>
    ((\E k, n \in Nat : Serving(k, n)) ~> Ending /\ at = "top")

\* A frame that is under way while pre_destroy waits ends.
FramesEnd == (Ending /\ at = "frame") ~> (Ending /\ at = "top")

LEMMA EachFrameEnds == Spec /\ []StepsCanRun /\ FrameInduction => FramesEnd
  <1> DEFINE Frame == Ending /\ at = "frame"
             Measured == \E k, n \in Nat : Serving(k, n)
             Steps == \A k, n \in Nat : Descends(k, n)
             Top == Ending /\ at = "top"
  <1>1. ASSUME EndInv, Frame PROVE Measured
    <2>1. todo \in Seq(Server) /\ todo # <<>> /\ in \in [Server -> Seq(StreamPacket \union Datagram)]
      BY <1>1 DEF EndInv, Types, ThreadTypes, QueueTypes
    <2>2. Head(todo) \in Server
      BY <2>1
    <2>3. in[Head(todo)] \in Seq(StreamPacket \union Datagram)
      BY <2>1, <2>2
    <2>4. Len(todo) \in Nat /\ Len(in[Head(todo)]) \in Nat
      BY <2>1, <2>3
    <2>5. Serving(Len(todo), Len(in[Head(todo)]))
      BY <1>1 DEF Serving
    <2>6. QED
      BY <2>4, <2>5
  <1>2. Spec /\ []StepsCanRun => Steps
    BY FrameDescends
  <1>3. FrameInduction => (Steps => (Measured ~> Top))
    BY DEF FrameInduction
  <1>4. (Frame ~> Top) => FramesEnd
    BY DEF FramesEnd
  <1> HIDE DEF Frame, Measured, Steps, Top
  <1>5. QED
    BY <1>1, <1>2, <1>3, <1>4, EndInvHolds, PTL

\* If frames end, pre_destroy returns.
LEMMA ShutdownFromFrames ==
  Spec /\ []StepsCanRun /\ FramesEnd => ShutdownEnds
  <1> DEFINE In(where) == EndInv /\ Ending /\ at = where
             Gone == game = "gone"
  <1>1. EndInv /\ Ending => In("top") \/ In("frame") \/ In("ended")
    BY DEF EndInv, Types, ThreadTypes, ExitSeen
  <1>2. ASSUME In("top"), EndInv', [Next]_vars PROVE In("top")' \/ In("ended")'
    <2>1. CASE ServerThread
      <3>1. at' = "ended"
        BY <1>2, <2>1 DEF ServerThread, Begin, Turn, Pass, Pop, HandleStream, HandleDatagram,
                          EndInv, ExitSeen, HeldInFrame
      <3>2. QED
        BY <1>2, <3>1, EndingMoves
    <2>2. CASE ~ServerThread
      BY <1>2, <2>2, EndingMoves
    <2>3. QED
      BY <2>1, <2>2
  <1>3. In("top") /\ <<ServerThread>>_vars => ~In("top")'
    BY DEF ServerThread, Begin, Turn, Pass, Pop, HandleStream, HandleDatagram, EndInv, ExitSeen,
           HeldInFrame
  <1>4. ASSUME In("ended"), EndInv', [Next]_vars PROVE In("ended")' \/ Gone'
    <2>1. CASE ServerThread
      <3>1. at' = "ended"
        BY <1>4, <2>1 DEF ServerThread, Begin, Turn, Pass, Pop, HandleStream, HandleDatagram
      <3>2. QED
        BY <1>4, <3>1, EndingMoves
    <2>2. CASE ~ServerThread
      BY <1>4, <2>2, EndingMoves
    <2>3. QED
      BY <2>1, <2>2
  <1>5. In("ended") /\ <<Joined>>_vars => Gone'
    BY DEF Joined
  <1>6. /\ In("top") /\ StepsCanRun => ENABLED <<ServerThread>>_vars
        /\ In("ended") /\ StepsCanRun => ENABLED <<Joined>>_vars
    BY DEF StepsCanRun, Ending
  <1>7. /\ In("frame") => Ending /\ at = "frame"
        /\ EndInv /\ Ending /\ at = "top" => In("top")
    OBVIOUS
  <1> HIDE DEF In, Gone
  <1>8. Spec /\ []StepsCanRun => (In("top") ~> In("ended"))
    BY <1>2, <1>3, <1>6, EndInvHolds, PTL DEF Spec
  <1>9. Spec /\ []StepsCanRun => (In("ended") ~> Gone)
    BY <1>4, <1>5, <1>6, EndInvHolds, PTL DEF Spec
  <1>10. Spec /\ FramesEnd => (In("frame") ~> In("top"))
    BY <1>7, EndInvHolds, PTL DEF FramesEnd
  <1>11. Spec /\ []StepsCanRun /\ FramesEnd => (Ending ~> Gone)
    BY <1>1, <1>8, <1>9, <1>10, EndInvHolds, PTL
  <1>12. QED
    BY <1>11 DEF Gone, Ending, ShutdownEnds

\* pre_destroy returns, whatever is queued (ShutdownEnds).
THEOREM ShutdownIsOver == Spec /\ []StepsCanRun /\ FrameInduction => ShutdownEnds
  BY EachFrameEnds, ShutdownFromFrames, PTL
=============================================================================

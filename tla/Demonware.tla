----------------------------- MODULE Demonware ------------------------------
(***************************************************************************)
(* component/demonware.cpp and game/demonware/servers: the game's sockets  *)
(* are answered inside the process.  The game's threads put packets into a *)
(* server's queue and take its answers; a thread of the component frames   *)
(* all servers every 50 ms.  Lobby is a stream server (the two others do   *)
(* the same with other answers), Stun are datagram servers.                *)
(***************************************************************************)
EXTENDS Naturals, Sequences, SequencesExt, FiniteSets

CONSTANTS
  Order,      \* the servers as they are framed: the stream server is the first
  Socket,     \* the game's stream sockets
  Thread,     \* the game's threads that read from stream sockets
  Port,       \* the game's datagram sockets
  None,       \* nothing
  MaxConns,   \* bound: connections
  MaxSent     \* bound: packets and datagrams sent, together

Server == Range(Order)
Lobby == Head(Order)
Stun == Server \ {Lobby}

\* What lobby_server::handle tells apart: the header of a connection, its
\* authentication, a call of a service (or an empty message, which is
\* answered too), and anything else, which gets no answer.
Kind == {"hello", "auth", "call", "other"}

\* A packet on a stream: its number, connection and kind.
StreamPacket == [n : 1 .. MaxSent, conn : 1 .. MaxConns, kind : Kind]

\* A datagram to a stun server: a discovery, or what it does not know.
Datagram == [n : Nat \ {0}, from : Port, known : BOOLEAN]

\* What frame() has popped, and of which server.
Popped == [server : Server, packet : StreamPacket \union Datagram]

ASSUME OrderAssumption == Order \in Seq(Server) /\ Order # <<>> /\ IsInjective(Order)
ASSUME NoneAssumption == None \notin Server \union Socket \union Popped
ASSUME BoundAssumption == MaxConns \in Nat /\ MaxSent \in Nat

\* The answer to a packet, byte by byte; one byte stands for some.
AnswerLen == [k \in Kind |-> CASE k = "hello" -> 2 [] k = "other" -> 0 [] OTHER -> 1]
Reply == [p \in StreamPacket |->
            [i \in 1 .. AnswerLen[p.kind] |->
               [n |-> p.n, conn |-> p.conn, i |-> i, kind |-> p.kind]]]

VARIABLES
  exit,      \* exit_server
  game,      \* the game is running, in pre_destroy or through with it
  at,        \* where server_thread is
  todo,      \* the servers that it has still to frame in this turn, in order
  hand,      \* the packet that it has popped
  in,        \* in_queue_ of each server
  out,       \* out_queue_ of the stream server
  boxes,     \* out_queue_ of each datagram server, by socket
  link,      \* socket_map
  conn,      \* the number of each socket's connection
  spoke,     \* what the game has sent on each socket's connection
  reader,    \* per thread: the socket it has found data for
  rival,     \* history: another thread has read since then
  transcript, key,   \* keys.cpp: packet_buffer, and what the keys derive from
  sent, conns,
  got,       \* history: the bytes that each connection has read
  given,     \* history: all bytes read, in the order they were taken
  mixed,     \* history: the connection has met something of another one
  questions, \* history: the datagrams sent
  answered,  \* history: those whose answer was read
  overlap,   \* history: a socket has asked two servers at a time
  early      \* history: pre_destroy came before the thread had started

thread == <<exit, at, todo, hand>>
keys == <<transcript, key>>
line == <<link, conn, spoke, conns, mixed>>
reading == <<reader, rival, got, given>>
tcp == <<line, reading, sent>>
udp == <<boxes, questions, answered, overlap>>
vars == <<thread, game, in, out, keys, tcp, udp, early>>

Init ==
  /\ exit = FALSE /\ game = "running" /\ at = "new" /\ todo = <<>> /\ hand = None
  /\ in = [v \in Server |-> <<>>] /\ out = <<>>
  /\ boxes = [v \in Stun |-> [p \in Port |-> <<>>]]
  /\ link = [s \in Socket |-> None] /\ conn = [s \in Socket |-> 0]
  /\ spoke = [s \in Socket |-> {}]
  /\ reader = [r \in Thread |-> None] /\ rival = [r \in Thread |-> FALSE]
  /\ transcript = <<>> /\ key = <<>>
  /\ sent = 0 /\ conns = 0
  /\ got = [s \in Socket |-> <<>>] /\ given = <<>>
  /\ mixed = [s \in Socket |-> FALSE]
  /\ questions = {} /\ answered = {} /\ overlap = [p \in Port |-> FALSE] /\ early = FALSE

-----------------------------------------------------------------------------
(* The servers' thread.                                                    *)

\* server_main begins, and takes back what pre_destroy may have said before.
Begin ==
  /\ at = "new"
  /\ at' = "top" /\ exit' = FALSE
  /\ UNCHANGED <<todo, hand, game, in, out, keys, tcp, udp, early>>

\* The loop's test: another turn, or the end.
Turn ==
  /\ at = "top"
  /\ IF exit THEN at' = "ended" /\ todo' = todo
             ELSE at' = "frame" /\ todo' = Order
  /\ UNCHANGED <<exit, hand, game, in, out, keys, tcp, udp, early>>

\* Mutant: frame() polls its empty queue and does not return.
PassPolling ==
  /\ at = "frame" /\ hand = None
  /\ in[Head(todo)] = <<>>
  /\ UNCHANGED vars

\* frame() of an empty queue, or at the end of its loop.
Pass ==
  /\ at = "frame" /\ hand = None
  /\ in[Head(todo)] = <<>>
  /\ todo' = Tail(todo)
  /\ at' = IF todo' = <<>> THEN "top" ELSE "frame"
  /\ UNCHANGED <<exit, hand, game, in, out, keys, tcp, udp, early>>

\* frame() pops a packet.
Pop ==
  /\ at = "frame" /\ hand = None
  /\ in[Head(todo)] # <<>>
  /\ hand' = [server |-> Head(todo), packet |-> Head(in[Head(todo)])]
  /\ in' = [in EXCEPT ![Head(todo)] = Tail(@)]
  /\ UNCHANGED <<exit, at, todo, game, out, keys, tcp, udp, early>>

Entry(p, what) == [conn |-> p.conn, what |-> what]

\* Mutant: the keys are derived before the packet is part of the transcript.
LearnLate(p) ==
  IF p.kind = "hello"
  THEN transcript' = transcript \o <<Entry(p, "hello"), Entry(p, "ack")>> /\ key' = key
  ELSE IF p.kind = "auth"
  THEN transcript' = Append(transcript, Entry(p, "auth")) /\ key' = transcript
  ELSE UNCHANGED keys

\* queue_packet_to_hash and derive_keys_s1: packet_buffer is never cleared.
Learn(p) ==
  IF p.kind = "hello"
  THEN transcript' = transcript \o <<Entry(p, "hello"), Entry(p, "ack")>> /\ key' = key
  ELSE IF p.kind = "auth"
  THEN transcript' = Append(transcript, Entry(p, "auth")) /\ key' = transcript'
  ELSE UNCHANGED keys

\* Mutant: the answer is put in front of what has not been read.
HandleStreamFront ==
  /\ hand # None /\ hand.server = Lobby
  /\ out' = Reply[hand.packet] \o out
  /\ Learn(hand.packet)
  /\ hand' = None
  /\ UNCHANGED <<exit, at, todo, game, in, tcp, udp, early>>

\* handle() of the lobby, and the answer's way into the stream.
HandleStream ==
  /\ hand # None /\ hand.server = Lobby
  /\ out' = out \o Reply[hand.packet]
  /\ Learn(hand.packet)
  /\ hand' = None
  /\ UNCHANGED <<exit, at, todo, game, in, tcp, udp, early>>

\* Mutant: a socket has room for one answer.
Post(box, n) == <<n>>

\* udp_server::send.
Deliver(box, n) == Append(box, n)

\* handle() of a stun server: discovery is answered to the socket that asked.
HandleDatagram ==
  /\ hand # None /\ hand.server \in Stun
  /\ boxes' = IF hand.packet.known
              THEN [boxes EXCEPT ![hand.server][hand.packet.from] = Deliver(@, hand.packet.n)]
              ELSE boxes
  /\ hand' = None
  /\ UNCHANGED <<exit, at, todo, game, in, out, keys, tcp, questions,
                 answered, overlap, early>>

-----------------------------------------------------------------------------
(* The game's stream sockets.                                              *)

\* Nothing of the server is left from earlier connections.
Clean ==
  /\ in[Lobby] = <<>> /\ out = <<>>
  /\ hand = None \/ hand.server # Lobby
  /\ \A s \in Socket : link[s] = None
  /\ \A r \in Thread : reader[r] = None

\* connect_stub.
Connect(s) ==
  /\ game = "running" /\ conns < MaxConns
  /\ link[s] = None
  /\ link' = [link EXCEPT ![s] = Lobby]
  /\ conns' = conns + 1 /\ conn' = [conn EXCEPT ![s] = conns + 1]
  /\ mixed' = [t \in Socket |-> IF t = s THEN ~Clean ELSE mixed[t] \/ link[t] # None]
  /\ UNCHANGED <<thread, game, in, out, keys, spoke, reading, sent, udp, early>>

\* closesocket_stub: the server's queues stay as they are.
Close(s) ==
  /\ link[s] # None
  /\ link' = [link EXCEPT ![s] = None]
  /\ conn' = [conn EXCEPT ![s] = 0] /\ spoke' = [spoke EXCEPT ![s] = {}]
  /\ got' = [got EXCEPT ![s] = <<>>] /\ mixed' = [mixed EXCEPT ![s] = FALSE]
  /\ UNCHANGED <<thread, game, in, out, keys, conns, reader, rival, given, sent, udp, early>>

HasRead(s, k) ==
  \E b \in Range(got[s]) : b.kind = k /\ b.i = AnswerLen[k]

\* What the game's lobby client may send: hello first, then, when it has the
\* server's header, its authentication.
MaySay(s, k) ==
  CASE k = "hello" -> spoke[s] = {}
    [] k = "auth"  -> spoke[s] = {"hello"} /\ HasRead(s, "hello")
    [] OTHER       -> "hello" \in spoke[s]

\* send_stub.
Send(s, k) ==
  /\ game = "running" /\ sent + Cardinality(questions) < MaxSent
  /\ link[s] # None /\ MaySay(s, k)
  /\ sent' = sent + 1
  /\ spoke' = [spoke EXCEPT ![s] = @ \union {k}]
  /\ in' = [in EXCEPT ![Lobby] = Append(@, [n |-> sent + 1, conn |-> conn[s], kind |-> k])]
  /\ UNCHANGED <<thread, game, out, keys, link, conn, conns, mixed, reading, udp, early>>

\* recv_stub finds its socket's server, and data there.
FindData(r, s) ==
  /\ reader[r] = None /\ link[s] # None /\ out # <<>>
  /\ reader' = [reader EXCEPT ![r] = s]
  /\ rival' = [rival EXCEPT ![r] = FALSE]
  /\ UNCHANGED <<thread, game, in, out, keys, line, got, given, sent, udp, early>>

\* Mutant: what does not fit into the caller's buffer is dropped.
RestNone(n) == <<>>

\* What handle_output leaves in the queue.
Rest(n) == SubSeq(out, n + 1, Len(out))

\* tcp_server::handle_output for a buffer of len bytes: it may find nothing
\* any more, and return the 0 that ends a stream.
TakeData(r, len) ==
  LET s == reader[r]
      n == IF len <= Len(out) THEN len ELSE Len(out)
  IN /\ s # None
     /\ reader' = [reader EXCEPT ![r] = None]
     /\ rival' = [q \in Thread |-> rival[q] \/ (q # r /\ reader[q] # None)]
     /\ got' = IF link[s] = None THEN got ELSE [got EXCEPT ![s] = @ \o SubSeq(out, 1, n)]
     /\ given' = given \o SubSeq(out, 1, n)
     /\ out' = Rest(n)
     /\ UNCHANGED <<thread, game, in, keys, line, sent, udp, early>>

-----------------------------------------------------------------------------
(* The game's datagram sockets.                                            *)

Number == Cardinality(questions) + 1
Waiting(p) == {q \in questions : q.from = p /\ q.known /\ q.n \notin answered}

\* sendto_stub: a discovery, or what a stun server does not know.
SendTo(p, v, known) ==
  /\ game = "running" /\ sent + Cardinality(questions) < MaxSent
  /\ in' = [in EXCEPT ![v] = Append(@, [n |-> Number, from |-> p, known |-> known])]
  /\ questions' = questions \union {[n |-> Number, from |-> p, to |-> v, known |-> known]}
  /\ overlap' = [overlap EXCEPT ![p] = @ \/ \E q \in Waiting(p) : q.to # v]
  /\ UNCHANGED <<thread, game, out, keys, tcp, boxes, answered, early>>

\* recvfrom_stub goes through the servers: each answer it finds overwrites
\* the one before.  A socket in blocking mode waits for the real network
\* instead and takes no answer.
RecvFrom(p) ==
  /\ \E found \in SUBSET {v \in Stun : boxes[v][p] # <<>>} :
       /\ boxes' = [v \in Stun |->
                      IF v \in found THEN [boxes[v] EXCEPT ![p] = Tail(@)] ELSE boxes[v]]
       /\ \E last \in found : answered' = answered \union {Head(boxes[last][p])}
  /\ UNCHANGED <<thread, game, in, out, keys, tcp, questions, overlap, early>>

-----------------------------------------------------------------------------
(* The end.                                                                *)

PreDestroy ==
  /\ game = "running"
  /\ game' = "joining" /\ exit' = TRUE
  /\ early' = (at = "new")
  /\ UNCHANGED <<at, todo, hand, in, out, keys, tcp, udp>>

Joined ==
  /\ game = "joining" /\ at = "ended"
  /\ game' = "gone"
  /\ UNCHANGED <<thread, in, out, keys, tcp, udp, early>>

ServerThread ==
  Begin \/ Turn \/ Pass \/ Pop \/ HandleStream \/ HandleDatagram

Next ==
  \/ Begin \/ Turn \/ Pass \/ Pop \/ HandleStream \/ HandleDatagram
  \/ \E s \in Socket : Connect(s)
  \/ \E s \in Socket : Close(s)
  \/ \E s \in Socket, k \in Kind : Send(s, k)
  \/ \E r \in Thread, s \in Socket : FindData(r, s)
  \/ \E r \in Thread, len \in 1 .. 2 : TakeData(r, len)
  \/ \E p \in Port, v \in Stun, known \in BOOLEAN : SendTo(p, v, known)
  \/ \E p \in Port : RecvFrom(p)
  \/ PreDestroy \/ Joined

\* The servers' thread runs, and pre_destroy goes on when it has ended.
Spec == Init /\ [][Next]_vars /\ WF_vars(ServerThread) /\ WF_vars(Joined)

-----------------------------------------------------------------------------
(* Properties.                                                             *)

\* The lobby is a channel: what the game has sent is served in order, each
\* packet once, although it is popped in one step and answered in another;
\* what is read is read once and in order, whoever reads.
InHand == IF hand # None /\ hand.server = Lobby THEN <<hand.packet>> ELSE <<>>
C == INSTANCE Channel WITH
       Packet <- StreamPacket, asked <- InHand \o in[Lobby], stream <- out
IsChannel == C!Spec

\* A connection that meets nothing of another one reads the answers to its
\* own packets, in order.  A thread that has found data gets some, unless
\* another has read meanwhile: only then can recv return the 0 that means
\* the end of the stream.
OwnBytes(s) ==
  /\ \A i \in DOMAIN got[s] : got[s][i].conn = conn[s]
  /\ \A i, j \in DOMAIN got[s] :
       i < j => got[s][i].n < got[s][j].n
                \/ (got[s][i].n = got[s][j].n /\ got[s][i].i < got[s][j].i)
StreamIsOwn ==
  /\ \A s \in Socket : link[s] # None /\ ~mixed[s] => OwnBytes(s)
  /\ \A r \in Thread : reader[r] # None /\ ~rival[r] => out # <<>>

\* Keys that derive from the packets of one connection alone are those its
\* client derives from what it has sent and received.  packet_buffer is never
\* cleared, so a second login of the same process is not such a one.
ClientKey(c) == <<[conn |-> c, what |-> "hello"], [conn |-> c, what |-> "ack"],
                  [conn |-> c, what |-> "auth"]>>
KeysAgree ==
  key # <<>> =>
    LET c == Last(key).conn
    IN (\A i \in DOMAIN key : key[i].conn = c) => key = ClientKey(c)

\* A question to a stun server is on its way, answered or read, unless the
\* socket has asked two servers at a time: then recvfrom_stub may drop it.
AnswersKept ==
  \A q \in questions :
    q.known /\ ~overlap[q.from] =>
      \/ q.n \in answered
      \/ q.n \in Range(boxes[q.to][q.from])
      \/ \E i \in DOMAIN in[q.to] : in[q.to][i].n = q.n
      \/ hand # None /\ hand.server = q.to /\ hand.packet.n = q.n

\* pre_destroy returns, whatever is queued, unless it came before the thread
\* had begun: then the thread takes exit_server back and never ends.
ShutdownEnds == (game = "joining" /\ ~early) ~> game = "gone"
=============================================================================

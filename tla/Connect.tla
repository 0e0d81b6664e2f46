------------------------------ MODULE Connect -------------------------------
(***************************************************************************)
(* component/party.cpp and tcp/hmw_tcp_utils.cpp: how the client connects  *)
(* to a game server.  All of it runs on the main thread, but in pieces:    *)
(* the request for /getInfo, the task that looks at the answer, the tasks  *)
(* that wait for the game's online data, and the commands that the game    *)
(* executes at some later frame.                                           *)
(***************************************************************************)
EXTENDS Integers, Sequences, SequencesExt

CONSTANTS
  Server,   \* the game servers
  None,     \* no server
  MaxOps    \* bound: how often something asks for a connection

ASSUME NoneAssumption == None \notin Server
ASSUME MaxOpsAssumption == MaxOps \in Nat

VARIABLES
  connecting,  \* connecting_to_server
  needs,       \* needs_vid_restart of hmw_tcp_utils.cpp
  host,        \* server_connection_state.host, None while not hostDefined
  motd,        \* server_connection_state.motd, by the server it is of
  tasks,       \* the tasks scheduled for the next frame, in order
  waiting,     \* the tasks scheduled for a second later
  cbuf,        \* the commands the game has still to execute
  joined,      \* the server that the game was told to connect to
  cgame,       \* CL_IsCgameInitialized
  lobby,       \* VirtualLobby_Loaded
  sync,        \* Live_SyncOnlineDataFlags: 0, 32 or any other value, as 64
  ops,         \* how often a connection was asked for
  leaked,      \* history: download_files_tcp has kept an attempt from going on
  crossed      \* history: an attempt began while another was waiting

state == <<connecting, needs, host, motd>>
queues == <<tasks, waiting, cbuf>>
game == <<joined, cgame, lobby, sync>>
history == <<ops, leaked, crossed>>
vars == <<state, queues, game, history>>

Init ==
  /\ connecting = FALSE /\ needs = FALSE /\ host = None /\ motd = None
  /\ tasks = <<>> /\ waiting = <<>> /\ cbuf = <<>>
  /\ joined = None /\ cgame = FALSE /\ lobby = FALSE
  /\ sync \in {0, 32, 64}
  /\ ops = 0 /\ leaked = FALSE /\ crossed = FALSE

-----------------------------------------------------------------------------
(* The connection.                                                         *)

\* connect with connect_tcp, when the flag lets it: GET_url blocks the main
\* thread until the server has answered or all retries have failed.
ConnectUnless(busy, to, rest) ==
  IF busy THEN tasks' = rest /\ UNCHANGED <<connecting, host, crossed>>
  ELSE /\ host' = to
       /\ crossed' = (crossed \/ waiting # <<>>)
       /\ \E answered \in BOOLEAN :
            /\ connecting' = answered
            /\ tasks' = IF answered THEN Append(rest, [do |-> "resolve", to |-> to])
                                    ELSE rest

\* Mutant: an attempt under way does not hold another one back.
ConnectAlways(to, rest) == ConnectUnless(FALSE, to, rest)

Connect(to, rest) == ConnectUnless(connecting, to, rest)

\* connect_to_party(to), the game's online flags being f: the other waiting
\* tasks are rest.
ConnectToParty(to, f, rest) ==
  IF f = 0
  THEN /\ joined' = to /\ cgame' = FALSE /\ lobby' = FALSE
       /\ waiting' = rest
  ELSE /\ waiting' = Append(rest, [do |-> IF f = 32 THEN "reset" ELSE "retry", to |-> to])
       /\ UNCHANGED <<joined, cgame, lobby>>

\* The game's flags once it has disconnected.
FlagsLeft == IF sync = 32 /\ ~lobby THEN 0 ELSE sync

\* The command disconnect, with cl_disconnect_stub.
Disconnected ==
  /\ sync' = FlagsLeft
  /\ IF lobby THEN UNCHANGED <<motd, joined, cgame>>
     ELSE motd' = None /\ joined' = None /\ cgame' = FALSE

-----------------------------------------------------------------------------
(* The tasks of the next frame.                                            *)

Take(do) == tasks # <<>> /\ Head(tasks).do = do

\* connect_to_server_tcp: the answer is of another server than host, or one
\* of the checks fails.
RefuseLeaving(flag) ==
  /\ Take("resolve")
  /\ connecting' = flag
  /\ tasks' = Tail(tasks)
  /\ UNCHANGED <<needs, host, motd, waiting, cbuf, game, history>>

\* Mutant: a failed check does not reset the flag.
RefuseStillConnecting == RefuseLeaving(TRUE)

Refuse == RefuseLeaving(FALSE)

\* The checks pass.
Accepted == Take("resolve") /\ Head(tasks).to = host

\* download_files_tcp finds files that it may not download, or throws, before
\* or after it has noted that the mod differs; the attempt is given up.
Decline ==
  /\ Accepted
  /\ needs' \in {needs, TRUE}
  /\ leaked' = TRUE
  /\ tasks' = Tail(tasks)
  /\ UNCHANGED <<connecting, host, motd, waiting, cbuf, game, ops, crossed>>

\* download_files_tcp finds the mod different, now or at an earlier attempt:
\* vid_restart, and the connection is to be made again.
Restart ==
  /\ Accepted
  /\ needs' = FALSE
  /\ leaked' = TRUE
  /\ tasks' = Append(Tail(tasks), [do |-> "connect", to |-> host])
  /\ UNCHANGED <<connecting, host, motd, waiting, cbuf, game, ops, crossed>>

\* Nothing to download and nothing to restart.
ReadyWith(news) ==
  /\ Accepted /\ ~needs
  /\ motd' = news
  /\ connecting' = FALSE
  /\ ConnectToParty(host, sync, waiting)
  /\ tasks' = Tail(tasks)
  /\ UNCHANGED <<needs, host, cbuf, sync, history>>

\* Mutant: a message that is there already stays.
ReadyKeepingMotd == ReadyWith(IF motd = None THEN host ELSE motd)

Ready == ReadyWith(host)

\* The task that download_files_tcp or set_new_map has scheduled.
ConnectAgain ==
  /\ Take("connect")
  /\ Connect(IF Head(tasks).to = None THEN host ELSE Head(tasks).to, Tail(tasks))
  /\ UNCHANGED <<needs, motd, waiting, cbuf, game, ops, leaked>>

-----------------------------------------------------------------------------
(* The tasks of connect_to_party, a second later; any may be due first.    *)

Retry(i) ==
  /\ i \in DOMAIN waiting /\ waiting[i].do = "retry"
  /\ ConnectToParty(waiting[i].to, sync, RemoveAt(waiting, i))
  /\ UNCHANGED <<state, tasks, cbuf, sync, history>>

\* The command disconnect is executed at once, then connect_to_party.
ResetIf(leaving, i) ==
  /\ i \in DOMAIN waiting /\ waiting[i].do = "reset"
  /\ LET f == IF leaving THEN FlagsLeft ELSE sync
         out == leaving /\ ~lobby
     IN  /\ sync' = f
         /\ motd' = IF out THEN None ELSE motd
         /\ IF out /\ f # 0
            THEN /\ joined' = None /\ cgame' = FALSE /\ lobby' = lobby
                 /\ waiting' = Append(RemoveAt(waiting, i),
                                      [do |-> "retry", to |-> waiting[i].to])
            ELSE ConnectToParty(waiting[i].to, f, RemoveAt(waiting, i))
  /\ UNCHANGED <<connecting, needs, host, tasks, cbuf, history>>

\* Mutant: the game does not disconnect first.
ResetStaying(i) == ResetIf(FALSE, i)

Reset(i) == ResetIf(TRUE, i)

-----------------------------------------------------------------------------
(* The commands.                                                           *)

Command(c) == cbuf # <<>> /\ Head(cbuf) = c

Disconnect ==
  /\ Command("disconnect")
  /\ Disconnected
  /\ cbuf' = Tail(cbuf)
  /\ UNCHANGED <<connecting, needs, host, tasks, waiting, lobby, history>>

\* reconnect: commands is what it has the game execute to leave the server.
ReconnectBy(defined, commands) ==
  /\ Command("reconnect")
  /\ IF ~defined
     THEN cbuf' = Tail(cbuf) /\ UNCHANGED <<connecting, host, tasks, crossed>>
     ELSE IF cgame
     THEN cbuf' = Tail(cbuf) \o commands /\ UNCHANGED <<connecting, host, tasks, crossed>>
     ELSE cbuf' = Tail(cbuf) /\ Connect(host, tasks)
  /\ UNCHANGED <<needs, motd, waiting, game, ops, leaked>>

\* Mutants: the game does not disconnect; hostDefined is not looked at.
ReconnectStaying == ReconnectBy(host # None, <<"reconnect">>)
ReconnectAnywhere == ReconnectBy(TRUE, <<"disconnect", "reconnect">>)

Reconnect == ReconnectBy(host # None, <<"disconnect", "reconnect">>)

-----------------------------------------------------------------------------
(* What asks for a connection, and the game.                               *)

Ask == ops < MaxOps /\ ops' = ops + 1

\* The command connect, the server browser or Discord.
AskConnect(s) ==
  /\ Ask
  /\ Connect(s, tasks)
  /\ UNCHANGED <<needs, motd, waiting, cbuf, game, leaked>>

\* The command reconnect is typed.
AskReconnect ==
  /\ Ask
  /\ cbuf' = Append(cbuf, "reconnect")
  /\ UNCHANGED <<state, tasks, waiting, game, leaked, crossed>>

\* set_new_map: the server has a map whose files differ from the client's.
NewMap ==
  /\ Ask
  /\ joined # None /\ cgame
  /\ cbuf' = Append(cbuf, "disconnect")
  /\ tasks' = Append(tasks, [do |-> "connect", to |-> None])
  /\ UNCHANGED <<state, waiting, game, leaked, crossed>>

\* The connection is made.
CgameStarts ==
  /\ joined # None /\ ~cgame
  /\ cgame' = TRUE
  /\ UNCHANGED <<state, queues, joined, lobby, sync, history>>

\* The server drops the client, or the game fails: CL_Disconnect.
Dropped ==
  /\ joined # None
  /\ joined' = None /\ cgame' = FALSE /\ motd' = None
  /\ UNCHANGED <<connecting, needs, host, queues, lobby, sync, history>>

\* The virtual lobby is a game of its own.
EnterLobby ==
  /\ joined = None /\ ~lobby
  /\ lobby' = TRUE /\ cgame' = TRUE
  /\ UNCHANGED <<state, queues, joined, sync, history>>

SyncChanges ==
  /\ sync' \in {0, 32, 64} \ {sync}
  /\ UNCHANGED <<state, queues, joined, cgame, lobby, history>>

-----------------------------------------------------------------------------

Frame == Refuse \/ Decline \/ Restart \/ Ready \/ ConnectAgain

Later(s) ==
  \E i \in DOMAIN waiting : waiting[i].to = s /\ (Retry(i) \/ Reset(i))

Commands == Disconnect \/ Reconnect

User == AskReconnect \/ \E s \in Server : AskConnect(s)

Game == NewMap \/ CgameStarts \/ Dropped \/ EnterLobby \/ SyncChanges

Next == Frame \/ (\E s \in Server : Later(s)) \/ Commands \/ User \/ Game

\* An attempt that waits has its turn.
LaterFairly(s) == WF_vars(Later(s))

\* The main thread goes on: it drains its pipeline and executes commands.
GoesOn == WF_vars(Frame) /\ WF_vars(Commands)

Fairness == GoesOn /\ \A s \in Server : LaterFairly(s)

Spec == Init /\ [][Next]_vars

FairSpec == Spec /\ Fairness

-----------------------------------------------------------------------------
(* Properties.                                                             *)

TypeOK ==
  /\ connecting \in BOOLEAN /\ needs \in BOOLEAN
  /\ host \in Server \union {None} /\ motd \in Server \union {None}
  /\ tasks \in Seq([do : {"resolve"}, to : Server]
                   \union [do : {"connect"}, to : Server \union {None}])
  /\ waiting \in Seq([do : {"retry", "reset"}, to : Server])
  /\ cbuf \in Seq({"disconnect", "reconnect"})
  /\ joined \in Server \union {None} /\ cgame \in BOOLEAN /\ lobby \in BOOLEAN
  /\ sync \in {0, 32, 64}
  /\ ops \in 0 .. MaxOps /\ leaked \in BOOLEAN /\ crossed \in BOOLEAN

Resolving == {i \in DOMAIN tasks : tasks[i].do = "resolve"}

\* One attempt at a time: an answer that waits to be looked at is the only
\* one, it is of the server that host names, and the flag is set, so that the
\* check for "Invalid host" never fires (party.cpp:663, 802).
AttemptOwnsHost ==
  \A i \in Resolving :
    Resolving = {i} /\ connecting /\ tasks[i].to = host

\* The flag is set only while an attempt is under way, unless one has ended in
\* download_files_tcp (party.cpp:721).
FlagIsOwned == connecting => Resolving # {} \/ leaked

\* "Already connecting to a server please wait..." (party.cpp:803) is printed
\* only while an attempt is under way: otherwise there is nothing to wait for.
ConnectingIsUnderWay == connecting => tasks # <<>>

\* The server that the game is told to join is the one that was asked for
\* last, and a message of the day is its own; that needs no other attempt to
\* begin while one waits for the online data (party.cpp:64, 818).
JoinIsLatest ==
  [][joined' # None /\ joined' # joined /\ ~crossed =>
       joined' = host' /\ motd' \in {None, joined'}]_vars

\* An attempt to connect to s waits; s is joined, or the flags or the lobby
\* are in the way.
Waits(s) == \E i \in DOMAIN waiting : waiting[i].to = s
Settled(s) == joined = s \/ sync = 64 \/ lobby

\* An attempt that waits for the online data ends with the game joining its
\* server, unless the flags take another value than 0 and 32 or the virtual
\* lobby ignores the disconnect (party.cpp:66-82).
WaitingJoins == \A s \in Server : Waits(s) ~> Settled(s)

\* reconnect, which puts itself off until the game has disconnected, is over
\* some day, unless the virtual lobby ignores the disconnect (party.cpp:988).
ReconnectEnds == "reconnect" \in ToSet(cbuf) ~> ("reconnect" \notin ToSet(cbuf) \/ lobby)
=============================================================================

--------------------------- MODULE ConnectProofs ----------------------------
(***************************************************************************)
(* What is proved about Connect, for every set of servers and any number   *)
(* of requests: the type invariant, that there is one attempt at a time    *)
(* and its answer belongs to host, that connecting_to_server stays set     *)
(* only through download_files_tcp, that the server joined is the one      *)
(* asked for last unless attempts have crossed, and that an attempt that   *)
(* waits for the online data ends with a join.                             *)
(***************************************************************************)
EXTENDS Connect, SequenceTheorems, TLAPS

\* The tasks of the next frame, and those of a second later.
TaskRecord == [do : {"resolve"}, to : Server]
              \union [do : {"connect"}, to : Server \union {None}]

WaitRecord == [do : {"retry", "reset"}, to : Server]

\* Whatever waits or is joined came from an attempt, and that has set host:
\* without this, a map change or a reconnect might connect to no server.
HostKnown == host = None => joined = None /\ waiting = <<>> /\ tasks = <<>>

\* The inductive invariant.
IInv == TypeOK /\ HostKnown /\ AttemptOwnsHost /\ FlagIsOwned

-----------------------------------------------------------------------------
(* Sequences.                                                              *)

\* The tail of a sequence has its elements one place further on.
LEMMA TailIs ==
  ASSUME NEW S, NEW s \in Seq(S), s # <<>>
  PROVE  /\ Tail(s) \in Seq(S) /\ Head(s) \in S
         /\ Head(s) = s[1] /\ Len(s) \in Nat \ {0}
         /\ DOMAIN s = 1 .. Len(s) /\ DOMAIN Tail(s) = 1 .. Len(s) - 1
         /\ \A i \in 1 .. Len(s) - 1 : Tail(s)[i] = s[i + 1]
  OBVIOUS

\* What Append adds, and what it leaves.
LEMMA AppendIs ==
  ASSUME NEW S, NEW s \in Seq(S), NEW e \in S
  PROVE  /\ Append(s, e) \in Seq(S)
         /\ DOMAIN s = 1 .. Len(s) /\ Len(s) \in Nat
         /\ DOMAIN Append(s, e) = 1 .. Len(s) + 1
         /\ Append(s, e)[Len(s) + 1] = e
         /\ \A i \in 1 .. Len(s) : Append(s, e)[i] = s[i]
  OBVIOUS

\* RemoveAt keeps a sequence a sequence over the same set.
LEMMA RemoveAtType ==
  ASSUME NEW S, NEW s \in Seq(S), NEW i \in DOMAIN s
  PROVE  RemoveAt(s, i) \in Seq(S)
  BY DEF RemoveAt

-----------------------------------------------------------------------------
(* The invariants of an attempt, as facts about a list of tasks.           *)

IsResolve(task) == task.do = "resolve"

\* list has no attempt.
Idle(list) == \A i \in DOMAIN list : ~IsResolve(list[i])

\* list has at most one attempt, which is of server h while flag is set.
Owned(list, h, flag) ==
  \A i \in DOMAIN list : IsResolve(list[i]) =>
    /\ flag /\ list[i].to = h
    /\ \A j \in DOMAIN list : IsResolve(list[j]) => j = i

\* The two invariants of an attempt speak of the list tasks.
LEMMA InTermsOfLists ==
  /\ AttemptOwnsHost <=> Owned(tasks, host, connecting)
  /\ FlagIsOwned <=> (connecting => ~Idle(tasks) \/ leaked)
  <1>1. AttemptOwnsHost <=> Owned(tasks, host, connecting)
    BY DEF AttemptOwnsHost, Resolving, Owned, IsResolve
  <1>2. FlagIsOwned <=> (connecting => ~Idle(tasks) \/ leaked)
    BY DEF FlagIsOwned, Resolving, Idle, IsResolve
  <1>3. QED
    BY <1>1, <1>2

\* An idle list owns nothing.
LEMMA IdleIsOwned ==
  ASSUME NEW list, NEW h, NEW flag, Idle(list)
  PROVE  Owned(list, h, flag)
  BY DEF Idle, Owned

\* While the flag is not set no attempt is under way.
LEMMA UnsetIsIdle ==
  ASSUME NEW list, NEW h, Owned(list, h, FALSE)
  PROVE  Idle(list)
  BY DEF Idle, Owned

\* Taking the attempt off a list leaves it idle.
LEMMA TailOfAttempt ==
  ASSUME NEW S, NEW list \in Seq(S), list # <<>>, NEW h, NEW flag,
         Owned(list, h, flag), IsResolve(Head(list))
  PROVE  Idle(Tail(list)) /\ flag /\ Head(list).to = h
  <1>1. /\ Head(list) = list[1] /\ Len(list) \in Nat \ {0}
        /\ DOMAIN list = 1 .. Len(list) /\ DOMAIN Tail(list) = 1 .. Len(list) - 1
        /\ \A i \in 1 .. Len(list) - 1 : Tail(list)[i] = list[i + 1]
    BY TailIs
  <1>2. 1 \in DOMAIN list /\ IsResolve(list[1])
    BY <1>1
  <1>3. flag /\ list[1].to = h
        /\ \A j \in DOMAIN list : IsResolve(list[j]) => j = 1
    BY <1>2 DEF Owned
  <1>4. ASSUME NEW i \in DOMAIN Tail(list) PROVE ~IsResolve(Tail(list)[i])
    <2>1. i + 1 \in DOMAIN list /\ i + 1 # 1 /\ Tail(list)[i] = list[i + 1]
      BY <1>1, <1>4
    <2>2. QED
      BY <1>3, <2>1
  <1>5. QED
    BY <1>1, <1>3, <1>4 DEF Idle

\* Taking another task off a list leaves its attempt.
LEMMA TailOfOther ==
  ASSUME NEW S, NEW list \in Seq(S), list # <<>>, NEW h, NEW flag,
         Owned(list, h, flag), ~IsResolve(Head(list))
  PROVE  Owned(Tail(list), h, flag) /\ (Idle(Tail(list)) => Idle(list))
  <1>1. /\ Head(list) = list[1] /\ Len(list) \in Nat \ {0}
        /\ DOMAIN list = 1 .. Len(list) /\ DOMAIN Tail(list) = 1 .. Len(list) - 1
        /\ \A i \in 1 .. Len(list) - 1 : Tail(list)[i] = list[i + 1]
    BY TailIs
  <1> DEFINE rest == Tail(list)
  <1>2. \A i \in DOMAIN rest : i \in Int /\ i + 1 \in DOMAIN list /\ rest[i] = list[i + 1]
    BY <1>1
  <1>3. \A i \in DOMAIN list : i = 1 \/ (i - 1 \in DOMAIN rest /\ rest[i - 1] = list[i])
    BY <1>1
  <1>4. ~IsResolve(list[1])
    BY <1>1
  <1> HIDE DEF rest
  <1>5. ASSUME NEW i \in DOMAIN rest, IsResolve(rest[i])
        PROVE  flag /\ rest[i].to = h /\ \A j \in DOMAIN rest : IsResolve(rest[j]) => j = i
    <2>1. flag /\ rest[i].to = h
      BY <1>2, <1>5 DEF Owned
    <2>2. ASSUME NEW j \in DOMAIN rest, IsResolve(rest[j]) PROVE j = i
      <3>1. i + 1 = j + 1
        BY <1>2, <1>5, <2>2 DEF Owned
      <3>2. QED
        BY <1>2, <3>1
    <2>3. QED
      BY <2>1, <2>2
  <1>6. Owned(rest, h, flag)
    BY <1>5 DEF Owned
  <1>7. Idle(rest) => Idle(list)
    BY <1>3, <1>4 DEF Idle
  <1>8. QED
    BY <1>6, <1>7 DEF rest

\* A task that is no attempt may be added.
LEMMA AppendOther ==
  ASSUME NEW S, NEW list \in Seq(S), NEW e \in S, NEW h, NEW flag,
         Owned(list, h, flag), ~IsResolve(e)
  PROVE  /\ Owned(Append(list, e), h, flag)
         /\ Idle(Append(list, e)) <=> Idle(list)
  <1> DEFINE more == Append(list, e)
  <1>1. /\ DOMAIN list = 1 .. Len(list) /\ Len(list) \in Nat
        /\ DOMAIN more = 1 .. Len(list) + 1 /\ more[Len(list) + 1] = e
        /\ \A i \in 1 .. Len(list) : more[i] = list[i]
    BY AppendIs
  <1> HIDE DEF more
  <1>2. \A i \in DOMAIN more : i \in DOMAIN list \/ more[i] = e
    BY <1>1
  <1>3. \A i \in DOMAIN list : i \in DOMAIN more /\ more[i] = list[i]
    BY <1>1
  <1>4. \A i \in DOMAIN more : IsResolve(more[i]) => i \in DOMAIN list /\ IsResolve(list[i])
    BY <1>2, <1>3
  <1>5. Owned(more, h, flag)
    BY <1>3, <1>4 DEF Owned
  <1>6. Idle(more) <=> Idle(list)
    BY <1>3, <1>4 DEF Idle
  <1>7. QED
    BY <1>5, <1>6 DEF more

\* An attempt may be added to an idle list.
LEMMA AppendAttempt ==
  ASSUME NEW S, NEW list \in Seq(S), NEW e \in S, Idle(list), IsResolve(e)
  PROVE  Owned(Append(list, e), e.to, TRUE) /\ ~Idle(Append(list, e))
  <1> DEFINE more == Append(list, e)
  <1>1. /\ DOMAIN list = 1 .. Len(list) /\ Len(list) \in Nat
        /\ DOMAIN more = 1 .. Len(list) + 1 /\ more[Len(list) + 1] = e
        /\ \A i \in 1 .. Len(list) : more[i] = list[i]
    BY AppendIs
  <1> HIDE DEF more
  <1>2. \A i \in DOMAIN more : IsResolve(more[i]) => i = Len(list) + 1
    BY <1>1 DEF Idle
  <1>3. Len(list) + 1 \in DOMAIN more
    BY <1>1
  <1>4. QED
    BY <1>1, <1>2, <1>3 DEF Idle, Owned, more

-----------------------------------------------------------------------------
(* The operators that several actions share.                               *)

\* The type invariant in terms of the records above.
LEMMA TypeFacts ==
  TypeOK <=>
    /\ connecting \in BOOLEAN /\ needs \in BOOLEAN
    /\ host \in Server \union {None} /\ motd \in Server \union {None}
    /\ tasks \in Seq(TaskRecord) /\ waiting \in Seq(WaitRecord)
    /\ cbuf \in Seq({"disconnect", "reconnect"})
    /\ joined \in Server \union {None} /\ cgame \in BOOLEAN /\ lobby \in BOOLEAN
    /\ sync \in {0, 32, 64}
    /\ ops \in 0 .. MaxOps /\ leaked \in BOOLEAN /\ crossed \in BOOLEAN
  BY DEF TypeOK, TaskRecord, WaitRecord

\* The variables that an attempt is about.
AttemptOK ==
  /\ connecting \in BOOLEAN /\ host \in Server \union {None}
  /\ tasks \in Seq(TaskRecord) /\ crossed \in BOOLEAN
  /\ Owned(tasks, host, connecting)
  /\ connecting => ~Idle(tasks) \/ leaked
  /\ host = None => tasks = <<>>

\* Those that are about waiting and joining.
WaitingOK ==
  /\ waiting \in Seq(WaitRecord)
  /\ joined \in Server \union {None} /\ cgame \in BOOLEAN /\ lobby \in BOOLEAN
  /\ host = None => joined = None /\ waiting = <<>>

\* The rest.
OtherOK ==
  /\ needs \in BOOLEAN /\ motd \in Server \union {None}
  /\ cbuf \in Seq({"disconnect", "reconnect"})
  /\ sync \in {0, 32, 64} /\ ops \in 0 .. MaxOps /\ leaked \in BOOLEAN

\* The inductive invariant falls into these three parts.
LEMMA InvariantParts == IInv <=> AttemptOK /\ WaitingOK /\ OtherOK
  BY TypeFacts, InTermsOfLists DEF IInv, HostKnown, AttemptOK, WaitingOK, OtherOK

\* The same of the next state.
LEMMA InvariantPartsNext == IInv' <=> AttemptOK' /\ WaitingOK' /\ OtherOK'
  BY InvariantParts, PTL

\* connect keeps the attempt's part, whatever other tasks it is taken from.
LEMMA ConnectStep ==
  ASSUME AttemptOK, NEW to \in Server, NEW rest \in Seq(TaskRecord),
         Owned(rest, host, connecting), connecting => ~Idle(rest) \/ leaked,
         host = None => rest = <<>>,
         leaked' = leaked, Connect(to, rest)
  PROVE  AttemptOK' /\ (host' = None => host = None)
  <1> DEFINE e == [do |-> "resolve", to |-> to]
  <1>1. e \in TaskRecord /\ e.to = to /\ IsResolve(e)
    BY DEF TaskRecord, IsResolve
  <1>2. to # None
    BY NoneAssumption
  <1> HIDE DEF e
  <1>3. CASE connecting
    <2>1. /\ tasks' = rest /\ connecting' = connecting /\ host' = host
          /\ crossed' = crossed
      BY <1>3 DEF Connect, ConnectUnless
    <2>2. QED
      BY <2>1 DEF AttemptOK
  <1>4. CASE ~connecting
    <2>1. /\ host' = to /\ crossed' = (crossed \/ waiting # <<>>)
          /\ \/ connecting' = TRUE /\ tasks' = Append(rest, e)
             \/ connecting' = FALSE /\ tasks' = rest
      BY <1>4 DEF Connect, ConnectUnless, e
    <2>2. connecting = FALSE
      BY <1>4 DEF AttemptOK
    <2>3. Idle(rest)
      BY <2>2, UnsetIsIdle
    <2>4. CASE connecting' = TRUE /\ tasks' = Append(rest, e)
      <3>1. Owned(Append(rest, e), to, TRUE) /\ ~Idle(Append(rest, e))
        BY <1>1, <2>3, AppendAttempt
      <3>2. Append(rest, e) \in Seq(TaskRecord)
        BY <1>1, AppendIs
      <3>3. QED
        BY <1>2, <2>1, <2>4, <3>1, <3>2 DEF AttemptOK
    <2>5. CASE connecting' = FALSE /\ tasks' = rest
      <3>1. Owned(rest, to, FALSE)
        BY <2>3, IdleIsOwned
      <3>2. QED
        BY <1>2, <2>1, <2>5, <3>1 DEF AttemptOK
    <2>6. QED
      BY <2>1, <2>4, <2>5
  <1>5. QED
    BY <1>3, <1>4

\* connect_to_party keeps the part about waiting.
LEMMA ConnectToPartyStep ==
  ASSUME WaitingOK, host # None, host' = host, NEW to \in Server, NEW f,
         NEW rest \in Seq(WaitRecord), ConnectToParty(to, f, rest)
  PROVE  WaitingOK'
  <1> DEFINE e == [do |-> IF f = 32 THEN "reset" ELSE "retry", to |-> to]
  <1>1. e \in WaitRecord
    BY DEF WaitRecord
  <1> HIDE DEF e
  <1>2. Append(rest, e) \in Seq(WaitRecord)
    BY <1>1, AppendIs
  <1>3. \/ joined' = to /\ cgame' = FALSE /\ lobby' = FALSE /\ waiting' = rest
        \/ waiting' = Append(rest, e) /\ UNCHANGED <<joined, cgame, lobby>>
    BY DEF ConnectToParty, e
  <1>4. QED
    BY <1>2, <1>3 DEF WaitingOK

-----------------------------------------------------------------------------
(* Every action keeps the invariant.                                       *)

\* The head of tasks, when it is taken.
LEMMA TakeFacts ==
  ASSUME AttemptOK, NEW do, Take(do)
  PROVE  /\ tasks # <<>> /\ host # None /\ host \in Server
         /\ Head(tasks) \in TaskRecord /\ Tail(tasks) \in Seq(TaskRecord)
         /\ IsResolve(Head(tasks)) <=> do = "resolve"
  <1>1. tasks # <<>> /\ tasks \in Seq(TaskRecord) /\ Head(tasks).do = do
    BY DEF Take, AttemptOK
  <1>2. Head(tasks) \in TaskRecord /\ Tail(tasks) \in Seq(TaskRecord)
    BY <1>1, TailIs
  <1>3. QED
    BY <1>1, <1>2 DEF AttemptOK, IsResolve

\* The tasks of the next frame that end the attempt.
LEMMA ResolveStep ==
  ASSUME IInv, Refuse \/ Decline \/ Restart \/ Ready
  PROVE  IInv'
  <1> USE InvariantParts, InvariantPartsNext
  <1>1. AttemptOK /\ WaitingOK /\ OtherOK
    OBVIOUS
  <1>2. Take("resolve")
    BY DEF Refuse, RefuseLeaving, Decline, Restart, Ready, ReadyWith, Accepted
  <1>3. /\ tasks # <<>> /\ tasks \in Seq(TaskRecord) /\ host # None /\ host \in Server
        /\ Tail(tasks) \in Seq(TaskRecord) /\ IsResolve(Head(tasks))
    BY <1>1, <1>2, TakeFacts DEF AttemptOK
  <1>4. Idle(Tail(tasks)) /\ connecting
    BY <1>1, <1>3, TailOfAttempt DEF AttemptOK
  <1>5. Owned(Tail(tasks), host, connecting) /\ Owned(Tail(tasks), host, FALSE)
    BY <1>4, IdleIsOwned
  <1>6. CASE Refuse
    <2>1. /\ connecting' = FALSE /\ tasks' = Tail(tasks)
          /\ UNCHANGED <<needs, host, motd, waiting, cbuf, game, history>>
      BY <1>6 DEF Refuse, RefuseLeaving
    <2>2. AttemptOK'
      BY <1>1, <1>3, <1>5, <2>1 DEF AttemptOK, history
    <2>3. WaitingOK' /\ OtherOK'
      BY <1>1, <2>1 DEF WaitingOK, OtherOK, game, history
    <2>4. QED
      BY <2>2, <2>3
  <1>7. CASE Decline
    <2>1. /\ needs' \in {needs, TRUE} /\ leaked' = TRUE /\ tasks' = Tail(tasks)
          /\ UNCHANGED <<connecting, host, motd, waiting, cbuf, game, ops, crossed>>
      BY <1>7 DEF Decline
    <2>2. AttemptOK'
      BY <1>1, <1>3, <1>5, <2>1 DEF AttemptOK
    <2>3. WaitingOK' /\ OtherOK'
      BY <1>1, <2>1 DEF WaitingOK, OtherOK, game
    <2>4. QED
      BY <2>2, <2>3
  <1>8. CASE Restart
    <2> DEFINE e == [do |-> "connect", to |-> host]
    <2>1. /\ needs' = FALSE /\ leaked' = TRUE /\ tasks' = Append(Tail(tasks), e)
          /\ UNCHANGED <<connecting, host, motd, waiting, cbuf, game, ops, crossed>>
      BY <1>8 DEF Restart
    <2>2. e \in TaskRecord /\ ~IsResolve(e)
      BY <1>3 DEF TaskRecord, IsResolve
    <2> HIDE DEF e
    <2>3. /\ Owned(Append(Tail(tasks), e), host, connecting)
          /\ Append(Tail(tasks), e) \in Seq(TaskRecord)
      BY <1>3, <1>5, <2>2, AppendOther, AppendIs
    <2>4. AttemptOK'
      BY <1>1, <1>3, <2>1, <2>3 DEF AttemptOK
    <2>5. WaitingOK' /\ OtherOK'
      BY <1>1, <2>1 DEF WaitingOK, OtherOK, game
    <2>6. QED
      BY <2>4, <2>5
  <1>9. CASE Ready
    <2>1. /\ motd' = host /\ connecting' = FALSE /\ tasks' = Tail(tasks)
          /\ ConnectToParty(host, sync, waiting)
          /\ UNCHANGED <<needs, host, cbuf, sync, history>>
      BY <1>9 DEF Ready, ReadyWith
    <2>2. AttemptOK'
      BY <1>1, <1>3, <1>5, <2>1 DEF AttemptOK, history
    <2>3. WaitingOK'
      <3>1. waiting \in Seq(WaitRecord) /\ host' = host
        BY <1>1, <2>1 DEF WaitingOK
      <3>2. QED
        BY <1>1, <1>3, <2>1, <3>1, ConnectToPartyStep
    <2>4. OtherOK'
      BY <1>1, <1>3, <2>1 DEF OtherOK, history
    <2>5. QED
      BY <2>2, <2>3, <2>4
  <1>10. QED
    BY <1>6, <1>7, <1>8, <1>9

\* The task that connects again.
LEMMA ConnectAgainStep ==
  ASSUME IInv, ConnectAgain
  PROVE  IInv'
  <1> USE InvariantParts, InvariantPartsNext
  <1>1. AttemptOK /\ WaitingOK /\ OtherOK
    OBVIOUS
  <1> DEFINE to == IF Head(tasks).to = None THEN host ELSE Head(tasks).to
  <1>2. /\ Take("connect") /\ Connect(to, Tail(tasks))
        /\ UNCHANGED <<needs, motd, waiting, cbuf, game, ops, leaked>>
    BY DEF ConnectAgain
  <1>3. /\ tasks # <<>> /\ tasks \in Seq(TaskRecord) /\ host # None /\ host \in Server
        /\ Head(tasks) \in TaskRecord /\ Tail(tasks) \in Seq(TaskRecord)
        /\ ~IsResolve(Head(tasks))
    BY <1>1, <1>2, TakeFacts DEF AttemptOK
  <1>4. to \in Server
    BY <1>3 DEF TaskRecord
  <1> HIDE DEF to
  <1>5. Owned(Tail(tasks), host, connecting) /\ (Idle(Tail(tasks)) => Idle(tasks))
    BY <1>1, <1>3, TailOfOther DEF AttemptOK
  <1>6. AttemptOK' /\ (host' = None => host = None)
    BY <1>1, <1>2, <1>3, <1>4, <1>5, ConnectStep DEF AttemptOK
  <1>7. WaitingOK' /\ OtherOK'
    BY <1>1, <1>2, <1>3, <1>6 DEF WaitingOK, OtherOK, game
  <1>8. QED
    BY <1>6, <1>7

\* The tasks of a second later.
LEMMA LaterStep ==
  ASSUME IInv, NEW i, Retry(i) \/ Reset(i)
  PROVE  IInv'
  <1> USE InvariantParts, InvariantPartsNext
  <1>1. AttemptOK /\ WaitingOK /\ OtherOK
    OBVIOUS
  <1> DEFINE rest == RemoveAt(waiting, i)
             to == waiting[i].to
             e == [do |-> "retry", to |-> to]
  <1>2. i \in DOMAIN waiting /\ waiting \in Seq(WaitRecord)
    BY <1>1 DEF Retry, Reset, ResetIf, WaitingOK
  <1>3. /\ rest \in Seq(WaitRecord) /\ waiting[i] \in WaitRecord
        /\ waiting # <<>>
    BY <1>2, RemoveAtType
  <1>4. to \in Server /\ e \in WaitRecord /\ host # None
    BY <1>1, <1>3 DEF WaitRecord, WaitingOK
  <1>5. CASE Retry(i)
    <2>1. /\ ConnectToParty(to, sync, rest)
          /\ UNCHANGED <<state, tasks, cbuf, sync, history>>
      BY <1>5 DEF Retry
    <2> HIDE DEF rest, to, e
    <2>2. AttemptOK' /\ OtherOK' /\ host' = host
      BY <1>1, <2>1 DEF AttemptOK, OtherOK, state, history
    <2>3. WaitingOK'
      BY <1>1, <1>3, <1>4, <2>1, <2>2, ConnectToPartyStep
    <2>4. QED
      BY <2>2, <2>3
  <1>6. CASE Reset(i)
    <2>1. /\ sync' = FlagsLeft /\ motd' \in {None, motd}
          /\ \/ /\ joined' = None /\ cgame' = FALSE /\ lobby' = lobby
                /\ waiting' = Append(rest, e)
             \/ ConnectToParty(to, FlagsLeft, rest)
          /\ UNCHANGED <<connecting, needs, host, tasks, cbuf, history>>
      BY <1>6 DEF Reset, ResetIf
    <2>2. FlagsLeft \in {0, 32, 64}
      BY <1>1 DEF FlagsLeft, OtherOK
    <2> HIDE DEF rest, to, e
    <2>3. AttemptOK' /\ OtherOK' /\ host' = host
      BY <1>1, <2>1, <2>2 DEF AttemptOK, OtherOK, history
    <2>4. Append(rest, e) \in Seq(WaitRecord)
      BY <1>3, <1>4, AppendIs
    <2>5. CASE joined' = None /\ cgame' = FALSE /\ lobby' = lobby /\ waiting' = Append(rest, e)
      BY <1>1, <1>4, <2>3, <2>4, <2>5 DEF WaitingOK
    <2>6. CASE ConnectToParty(to, FlagsLeft, rest)
      BY <1>1, <1>3, <1>4, <2>3, <2>6, ConnectToPartyStep
    <2>7. QED
      BY <2>1, <2>3, <2>5, <2>6
  <1>7. QED
    BY <1>5, <1>6

\* The commands that the game executes.
LEMMA CommandStep ==
  ASSUME IInv, Commands
  PROVE  IInv'
  <1> USE InvariantParts, InvariantPartsNext
  <1>1. AttemptOK /\ WaitingOK /\ OtherOK
    OBVIOUS
  <1>2. cbuf # <<>> /\ cbuf \in Seq({"disconnect", "reconnect"})
    BY <1>1 DEF Commands, Disconnect, Reconnect, ReconnectBy, Command, OtherOK
  <1>3. Tail(cbuf) \in Seq({"disconnect", "reconnect"})
    BY <1>2, TailIs
  <1>4. CASE Disconnect
    <2>1. /\ cbuf' = Tail(cbuf) /\ sync' = FlagsLeft
          /\ \/ UNCHANGED <<motd, joined, cgame>>
             \/ motd' = None /\ joined' = None /\ cgame' = FALSE
          /\ UNCHANGED <<connecting, needs, host, tasks, waiting, lobby, history>>
      BY <1>4 DEF Disconnect, Disconnected
    <2>2. FlagsLeft \in {0, 32, 64}
      BY <1>1 DEF FlagsLeft, OtherOK
    <2>3. AttemptOK'
      BY <1>1, <2>1 DEF AttemptOK, history
    <2>4. WaitingOK' /\ OtherOK'
      BY <1>1, <1>3, <2>1, <2>2 DEF WaitingOK, OtherOK, history
    <2>5. QED
      BY <2>3, <2>4
  <1>5. CASE Reconnect
    <2> DEFINE both == <<"disconnect", "reconnect">>
    <2>1. /\ UNCHANGED <<needs, motd, waiting, game, ops, leaked>>
          /\ \/ cbuf' = Tail(cbuf) /\ UNCHANGED <<connecting, host, tasks, crossed>>
             \/ cbuf' = Tail(cbuf) \o both /\ UNCHANGED <<connecting, host, tasks, crossed>>
             \/ host # None /\ cbuf' = Tail(cbuf) /\ Connect(host, tasks)
      BY <1>5 DEF Reconnect, ReconnectBy
    <2>2. Tail(cbuf) \o both \in Seq({"disconnect", "reconnect"})
      <3>1. both \in Seq({"disconnect", "reconnect"})
        OBVIOUS
      <3> HIDE DEF both
      <3>2. QED
        BY <1>3, <3>1
    <2> HIDE DEF both
    <2>3. OtherOK'
      BY <1>1, <1>3, <2>1, <2>2 DEF OtherOK, game
    <2>4. AttemptOK' /\ (host' = None => host = None)
      <3>1. CASE UNCHANGED <<connecting, host, tasks, crossed>>
        BY <1>1, <2>1, <3>1 DEF AttemptOK
      <3>2. CASE host # None /\ Connect(host, tasks)
        <4>1. host \in Server
          BY <1>1, <3>2 DEF AttemptOK
        <4>2. QED
          BY <1>1, <2>1, <3>2, <4>1, ConnectStep DEF AttemptOK
      <3>3. QED
        BY <2>1, <3>1, <3>2
    <2>5. WaitingOK'
      BY <1>1, <2>1, <2>4 DEF WaitingOK, game
    <2>6. QED
      BY <2>3, <2>4, <2>5
  <1>6. QED
    BY <1>4, <1>5 DEF Commands

\* What the user asks for.
LEMMA UserStep ==
  ASSUME IInv, User
  PROVE  IInv'
  <1> USE InvariantParts, InvariantPartsNext
  <1>1. AttemptOK /\ WaitingOK /\ OtherOK
    OBVIOUS
  <1>2. ops' \in 0 .. MaxOps
    BY <1>1, MaxOpsAssumption DEF User, AskReconnect, AskConnect, Ask, OtherOK
  <1>3. CASE AskReconnect
    <2>1. /\ cbuf' = Append(cbuf, "reconnect")
          /\ UNCHANGED <<state, tasks, waiting, game, leaked, crossed>>
      BY <1>3 DEF AskReconnect
    <2>2. cbuf' \in Seq({"disconnect", "reconnect"})
      BY <1>1, <2>1, AppendIs DEF OtherOK
    <2>3. QED
      BY <1>1, <1>2, <2>1, <2>2 DEF AttemptOK, WaitingOK, OtherOK, state, game
  <1>4. ASSUME NEW s \in Server, AskConnect(s) PROVE IInv'
    <2>1. /\ Connect(s, tasks)
          /\ UNCHANGED <<needs, motd, waiting, cbuf, game, leaked>>
      BY <1>4 DEF AskConnect
    <2>2. AttemptOK' /\ (host' = None => host = None)
      BY <1>1, <2>1, ConnectStep DEF AttemptOK
    <2>3. WaitingOK' /\ OtherOK'
      BY <1>1, <1>2, <2>1, <2>2 DEF WaitingOK, OtherOK, game
    <2>4. QED
      BY <2>2, <2>3
  <1>5. QED
    BY <1>3, <1>4 DEF User

\* What the game and its server do.
LEMMA GameStep ==
  ASSUME IInv, Game
  PROVE  IInv'
  <1> USE InvariantParts, InvariantPartsNext
  <1>1. AttemptOK /\ WaitingOK /\ OtherOK
    OBVIOUS
  <1>2. CASE NewMap
    <2> DEFINE e == [do |-> "connect", to |-> None]
    <2>1. /\ joined # None /\ cbuf' = Append(cbuf, "disconnect")
          /\ tasks' = Append(tasks, e)
          /\ UNCHANGED <<state, waiting, game, leaked, crossed>>
      BY <1>2 DEF NewMap
    <2>2. ops' \in 0 .. MaxOps
      BY <1>1, <1>2, MaxOpsAssumption DEF NewMap, Ask, OtherOK
    <2>3. e \in TaskRecord /\ ~IsResolve(e)
      BY DEF TaskRecord, IsResolve
    <2> HIDE DEF e
    <2>4. /\ Append(tasks, e) \in Seq(TaskRecord)
          /\ Owned(Append(tasks, e), host, connecting)
          /\ Idle(Append(tasks, e)) <=> Idle(tasks)
      BY <1>1, <2>3, AppendOther, AppendIs DEF AttemptOK
    <2>5. host # None
      BY <1>1, <2>1 DEF WaitingOK
    <2>6. AttemptOK'
      BY <1>1, <2>1, <2>4, <2>5 DEF AttemptOK, state
    <2>7. cbuf' \in Seq({"disconnect", "reconnect"})
      BY <1>1, <2>1, AppendIs DEF OtherOK
    <2>8. WaitingOK' /\ OtherOK'
      BY <1>1, <2>1, <2>2, <2>7 DEF WaitingOK, OtherOK, state, game
    <2>9. QED
      BY <2>6, <2>8
  <1>3. CASE CgameStarts
    BY <1>1, <1>3 DEF CgameStarts, AttemptOK, WaitingOK, OtherOK, state, queues, history
  <1>4. CASE Dropped
    BY <1>1, <1>4 DEF Dropped, AttemptOK, WaitingOK, OtherOK, queues, history
  <1>5. CASE EnterLobby
    BY <1>1, <1>5 DEF EnterLobby, AttemptOK, WaitingOK, OtherOK, state, queues, history
  <1>6. CASE SyncChanges
    BY <1>1, <1>6 DEF SyncChanges, AttemptOK, WaitingOK, OtherOK, state, queues, history
  <1>7. QED
    BY <1>2, <1>3, <1>4, <1>5, <1>6 DEF Game

\* The invariant holds initially.
LEMMA InitIInv == Init => IInv
  <1> SUFFICES ASSUME Init PROVE IInv
    OBVIOUS
  <1>1. tasks = <<>> /\ DOMAIN tasks = {} /\ tasks \in Seq(TaskRecord)
    BY DEF Init
  <1>2. Idle(tasks)
    BY <1>1 DEF Idle
  <1>3. AttemptOK
    BY <1>1, <1>2, IdleIsOwned DEF Init, AttemptOK
  <1>4. WaitingOK
    <2>1. waiting \in Seq(WaitRecord)
      BY DEF Init
    <2>2. QED
      BY <2>1 DEF Init, WaitingOK
  <1>5. OtherOK
    <2>1. cbuf \in Seq({"disconnect", "reconnect"})
      BY DEF Init
    <2>2. ops \in 0 .. MaxOps
      BY MaxOpsAssumption DEF Init
    <2>3. QED
      BY <2>1, <2>2 DEF Init, OtherOK
  <1>6. QED
    BY <1>3, <1>4, <1>5, InvariantParts

\* Every step keeps it.
LEMMA NextIInv == IInv /\ [Next]_vars => IInv'
  <1> SUFFICES ASSUME IInv, [Next]_vars PROVE IInv'
    OBVIOUS
  <1>1. CASE Frame
    BY <1>1, ResolveStep, ConnectAgainStep DEF Frame
  <1>2. CASE \E s \in Server : Later(s)
    <2>1. PICK s \in Server : Later(s)
      BY <1>2
    <2>2. PICK i \in DOMAIN waiting : Retry(i) \/ Reset(i)
      BY <2>1 DEF Later
    <2>3. QED
      BY <2>2, LaterStep
  <1>3. CASE Commands
    BY <1>3, CommandStep
  <1>4. CASE User
    BY <1>4, UserStep
  <1>5. CASE Game
    BY <1>5, GameStep
  <1>6. CASE UNCHANGED vars
    <2>1. UNCHANGED <<state, queues, game, history>>
      BY <1>6 DEF vars
    <2>2. QED
      BY <2>1, InvariantParts, InvariantPartsNext
      DEF AttemptOK, WaitingOK, OtherOK, state, queues, game, history
  <1>7. QED
    BY <1>1, <1>2, <1>3, <1>4, <1>5, <1>6 DEF Next

-----------------------------------------------------------------------------
(* The theorems.                                                           *)

\* Every state of the connection satisfies the inductive invariant.
THEOREM Invariance == Spec => []IInv
  BY InitIInv, NextIInv, PTL DEF Spec

\* Every variable keeps its type; above all, nothing connects to no server,
\* neither reconnect nor the task of a map change (party.cpp:995, 460).
THEOREM TypeCorrect == Spec => []TypeOK
  <1>1. IInv => TypeOK
    BY DEF IInv
  <1>2. QED
    BY <1>1, Invariance, PTL

\* One attempt at a time, and its answer is looked at while host is still its
\* server: "Invalid host" (party.cpp:663) is never printed.
THEOREM OneAttempt == Spec => []AttemptOwnsHost
  <1>1. IInv => AttemptOwnsHost
    BY DEF IInv
  <1>2. QED
    BY <1>1, Invariance, PTL

\* The flag stays set without an attempt only after download_files_tcp has
\* ended one (party.cpp:721).
THEOREM FlagIsHeld == Spec => []FlagIsOwned
  <1>1. IInv => FlagIsOwned
    BY DEF IInv
  <1>2. QED
    BY <1>1, Invariance, PTL

-----------------------------------------------------------------------------
(* Which server is joined.                                                 *)

\* What waits, while no attempt has crossed another, is for host, and so is
\* the message of the day.
WaitFor(h) == [do : {"retry", "reset"}, to : {h}]
LatestInv ==
  ~crossed => waiting \in Seq(WaitFor(host)) /\ (waiting # <<>> => motd \in {None, host})

JoinStep ==
  joined' # None /\ joined' # joined /\ ~crossed =>
    joined' = host' /\ motd' \in {None, joined'}

\* A step that joins nothing and leaves what waits.
LEMMA NothingJoined ==
  ASSUME LatestInv, UNCHANGED waiting, joined' \in {joined, None},
         \/ host' = host /\ motd' \in {None, motd} /\ crossed' = crossed
         \/ ~crossed' => waiting = <<>>
  PROVE  LatestInv' /\ JoinStep
  <1>1. <<>> \in Seq(WaitFor(host'))
    OBVIOUS
  <1>2. CASE host' = host /\ motd' \in {None, motd} /\ crossed' = crossed
    BY <1>2 DEF LatestInv, JoinStep
  <1>3. CASE ~crossed' => waiting = <<>>
    BY <1>1, <1>3 DEF LatestInv, JoinStep
  <1>4. QED
    BY <1>2, <1>3

\* An attempt that begins.
LEMMA AttemptCrosses ==
  ASSUME NEW busy, NEW to, NEW rest, ConnectUnless(busy, to, rest), crossed \in BOOLEAN
  PROVE  \/ host' = host /\ crossed' = crossed
         \/ ~crossed' => waiting = <<>>
  BY DEF ConnectUnless

\* connect_to_party, for host.
LEMMA PartyJoins ==
  ASSUME NEW f, NEW rest \in Seq(WaitFor(host)), ConnectToParty(host, f, rest),
         host' = host, motd' \in {None, host}
  PROVE  LatestInv' /\ JoinStep
  <1> DEFINE e == [do |-> IF f = 32 THEN "reset" ELSE "retry", to |-> host]
  <1>1. e \in WaitFor(host)
    BY DEF WaitFor
  <1>2. Append(rest, e) \in Seq(WaitFor(host))
    BY <1>1, AppendIs
  <1>3. \/ joined' = host /\ waiting' = rest
        \/ joined' = joined /\ waiting' = Append(rest, e)
    BY DEF ConnectToParty
  <1> HIDE DEF e
  <1>4. waiting' \in Seq(WaitFor(host))
    BY <1>2, <1>3
  <1>5. QED
    BY <1>3, <1>4 DEF LatestInv, JoinStep

\* The tasks a second later.
LEMMA LaterJoins ==
  ASSUME LatestInv, NEW i \in DOMAIN waiting, Retry(i) \/ Reset(i)
  PROVE  LatestInv' /\ JoinStep
  <1>1. UNCHANGED <<host, crossed>>
    BY DEF Retry, Reset, ResetIf, state, history
  <1> SUFFICES ASSUME ~crossed PROVE LatestInv' /\ JoinStep
    BY <1>1 DEF LatestInv, JoinStep
  <1> DEFINE rest == RemoveAt(waiting, i)
  <1>2. waiting \in Seq(WaitFor(host))
    BY DEF LatestInv
  <1>3. waiting[i].to = host
    <2>1. waiting[i] \in WaitFor(host)
      BY <1>2
    <2>2. QED
      BY <2>1 DEF WaitFor
  <1>4. rest \in Seq(WaitFor(host))
    BY <1>2, RemoveAtType
  <1>5. motd \in {None, host}
    <2>1. waiting # <<>>
      OBVIOUS
    <2>2. QED
      BY <2>1 DEF LatestInv
  <1>6. motd' \in {None, host}
    BY <1>5 DEF Retry, Reset, ResetIf, state
  <1>7. CASE Retry(i)
    <2>1. ConnectToParty(host, sync, rest)
      BY <1>3, <1>7 DEF Retry
    <2>2. QED
      BY <1>1, <1>4, <1>6, <2>1, PartyJoins
  <1>8. CASE Reset(i)
    <2> DEFINE e == [do |-> "retry", to |-> host]
    <2>1. \/ joined' = None /\ waiting' = Append(rest, e)
          \/ \E f : ConnectToParty(host, f, rest)
      BY <1>3, <1>8 DEF Reset, ResetIf
    <2>2. CASE joined' = None /\ waiting' = Append(rest, e)
      <3>1. e \in WaitFor(host)
        BY DEF WaitFor
      <3>2. waiting' \in Seq(WaitFor(host))
        BY <1>4, <2>2, <3>1, AppendIs
      <3>3. QED
        BY <1>1, <1>6, <2>2, <3>2 DEF LatestInv, JoinStep
    <2>3. CASE \E f : ConnectToParty(host, f, rest)
      BY <1>1, <1>4, <1>6, <2>3, PartyJoins
    <2>4. QED
      BY <2>1, <2>2, <2>3
  <1>9. QED
    BY <1>7, <1>8

\* Each step.
LEMMA LatestStep == IInv /\ LatestInv /\ [Next]_vars => LatestInv' /\ JoinStep
  <1> SUFFICES ASSUME IInv, LatestInv, [Next]_vars PROVE LatestInv' /\ JoinStep
    OBVIOUS
  <1>t. crossed \in BOOLEAN
    BY DEF IInv, TypeOK
  <1>1. CASE Ready
    <2>1. /\ motd' = host /\ host' = host /\ crossed' = crossed
          /\ ConnectToParty(host, sync, waiting)
      BY <1>1 DEF Ready, ReadyWith, history
    <2>2. CASE crossed
      BY <2>1, <2>2 DEF LatestInv, JoinStep
    <2>3. CASE ~crossed
      <3>1. waiting \in Seq(WaitFor(host))
        BY <2>3 DEF LatestInv
      <3>2. QED
        BY <2>1, <3>1, PartyJoins
    <2>4. QED
      BY <2>2, <2>3
  <1>2. CASE \E s \in Server : Later(s)
    BY <1>2, LaterJoins DEF Later
  <1>3. CASE ConnectAgain \/ Reconnect \/ \E s \in Server : AskConnect(s)
    <2>1. UNCHANGED <<waiting, joined, motd>>
      BY <1>3 DEF ConnectAgain, Reconnect, ReconnectBy, AskConnect, game
    <2>2. \/ host' = host /\ crossed' = crossed
          \/ ~crossed' => waiting = <<>>
      <3>1. \/ host' = host /\ crossed' = crossed
            \/ \E to, rest : ConnectUnless(connecting, to, rest)
        BY <1>3 DEF ConnectAgain, Reconnect, ReconnectBy, AskConnect, Connect
      <3>2. QED
        BY <1>t, <3>1, AttemptCrosses
    <2>3. QED
      BY <2>1, <2>2, NothingJoined
  <1>4. CASE Refuse \/ Decline \/ Restart \/ Disconnect \/ AskReconnect \/ Game \/ UNCHANGED vars
    <2>1. /\ UNCHANGED <<waiting, host, crossed>> /\ joined' \in {joined, None}
          /\ motd' \in {None, motd}
      BY <1>4 DEF Refuse, RefuseLeaving, Decline, Restart, Disconnect, Disconnected, AskReconnect,
                  Game, NewMap, CgameStarts, Dropped, EnterLobby, SyncChanges, vars, state, queues,
                  game, history
    <2>2. QED
      BY <2>1, NothingJoined
  <1>5. QED
    BY <1>1, <1>2, <1>3, <1>4 DEF Next, Frame, Commands, User

\* The game joins the server asked for last, with its own message of the day,
\* unless attempts cross (JoinIsLatest).
THEOREM LatestIsJoined == Spec => JoinIsLatest
  <1>1. Init => LatestInv
    BY DEF Init, LatestInv
  <1>2. IInv /\ LatestInv /\ [Next]_vars => [JoinStep]_vars
    BY LatestStep
  <1>3. QED
    BY <1>1, <1>2, LatestStep, Invariance, PTL DEF Spec, JoinIsLatest, JoinStep

-----------------------------------------------------------------------------
(* How an attempt that waits comes to its end.  The provers do not look    *)
(* into ENABLED: that a task whose second is over can run is taken as a    *)
(* hypothesis, StepsCanRun, which TLC finds true in all states of          *)
(* MCConnect.  Nor do they have induction for temporal formulas: its step  *)
(* is WaitingDescends, its rule the hypothesis RetryInduction, which every *)
(* behaviour satisfies.                                                    *)

StepCanRun(s) == Waits(s) /\ ~Settled(s) => ENABLED <<Later(s)>>_vars
StepsCanRun == \A s \in Server : StepCanRun(s)

\* The retries for server s in list are among the first n.
Within(list, s, n) ==
  \A i \in DOMAIN list : list[i].do = "retry" /\ list[i].to = s => i <= n

\* Something in list is for server s.
Has(list, s) == \E i \in DOMAIN list : list[i].to = s

\* What RemoveAt leaves, and where.
LEMMA RemoveAtIs ==
  ASSUME NEW S, NEW l \in Seq(S), NEW i \in DOMAIN l
  PROVE  /\ RemoveAt(l, i) \in Seq(S)
         /\ DOMAIN l = 1 .. Len(l) /\ Len(l) \in Nat
         /\ DOMAIN RemoveAt(l, i) = 1 .. Len(l) - 1
         /\ \A j \in 1 .. Len(l) - 1 :
              RemoveAt(l, i)[j] = IF j < i THEN l[j] ELSE l[j + 1]
  <1> DEFINE a == SubSeq(l, 1, i - 1)
             b == SubSeq(l, i + 1, Len(l))
  <1>1. Len(l) \in Nat /\ DOMAIN l = 1 .. Len(l) /\ i \in 1 .. Len(l)
    OBVIOUS
  <1>2. /\ a \in Seq(S) /\ Len(a) = i - 1
        /\ \A j \in 1 .. i - 1 : a[j] = l[j]
    BY <1>1
  <1>3. /\ b \in Seq(S) /\ Len(b) = Len(l) - i
        /\ \A j \in 1 .. Len(l) - i : b[j] = l[i + j]
    BY <1>1
  <1> HIDE DEF a, b
  <1>4. /\ a \o b \in Seq(S) /\ DOMAIN (a \o b) = 1 .. Len(l) - 1
        /\ \A j \in 1 .. Len(l) - 1 :
             (a \o b)[j] = IF j < i THEN a[j] ELSE b[j - (i - 1)]
    <2>1. /\ a \o b \in Seq(S) /\ Len(a \o b) = Len(a) + Len(b)
          /\ \A j \in 1 .. Len(a) + Len(b) :
               (a \o b)[j] = IF j <= Len(a) THEN a[j] ELSE b[j - Len(a)]
      BY <1>2, <1>3, ConcatProperties
    <2>2. Len(a) + Len(b) = Len(l) - 1 /\ Len(a) = i - 1
      BY <1>1, <1>2, <1>3
    <2>3. \A j \in 1 .. Len(l) - 1 : j <= i - 1 <=> j < i
      BY <1>1
    <2>4. DOMAIN (a \o b) = 1 .. Len(a \o b)
      BY <2>1
    <2>5. QED
      BY <2>1, <2>2, <2>3, <2>4
  <1>5. ASSUME NEW j \in 1 .. Len(l) - 1
        PROVE  (a \o b)[j] = IF j < i THEN l[j] ELSE l[j + 1]
    <2>1. CASE j < i
      <3>1. j \in 1 .. i - 1
        BY <1>1, <2>1
      <3>2. QED
        BY <1>2, <1>4, <2>1, <3>1
    <2>2. CASE ~(j < i)
      <3>1. j - (i - 1) \in 1 .. Len(l) - i /\ i + (j - (i - 1)) = j + 1
        BY <1>1, <2>2
      <3>2. b[j - (i - 1)] = l[j + 1]
        BY <1>3, <3>1
      <3>3. QED
        BY <1>4, <2>2, <3>2
    <2>3. QED
      BY <2>1, <2>2
  <1>6. RemoveAt(l, i) = a \o b
    BY DEF RemoveAt, a, b
  <1>7. QED
    BY <1>1, <1>4, <1>5, <1>6

\* A retry that is taken out leaves those behind it one place further on.
LEMMA RemoveWithin ==
  ASSUME NEW l \in Seq(WaitRecord), NEW i \in DOMAIN l, NEW s \in Server, NEW n \in Nat,
         Within(l, s, n)
  PROVE  /\ Within(RemoveAt(l, i), s, n)
         /\ i <= n => Within(RemoveAt(l, i), s, n - 1)
         /\ l[i].to # s /\ Has(l, s) => Has(RemoveAt(l, i), s)
  <1> DEFINE r == RemoveAt(l, i)
  <1>1. /\ DOMAIN l = 1 .. Len(l) /\ Len(l) \in Nat /\ DOMAIN r = 1 .. Len(l) - 1
        /\ \A j \in 1 .. Len(l) - 1 : r[j] = IF j < i THEN l[j] ELSE l[j + 1]
    BY RemoveAtIs
  <1> HIDE DEF r
  <1>2. ASSUME NEW j \in DOMAIN r, r[j].do = "retry", r[j].to = s
        PROVE  j <= n /\ (i <= n => j <= n - 1)
    <2>1. CASE j < i
      BY <1>1, <1>2, <2>1 DEF Within
    <2>2. CASE ~(j < i)
      <3>1. j + 1 \in DOMAIN l /\ r[j] = l[j + 1]
        BY <1>1, <2>2
      <3>2. QED
        BY <1>1, <1>2, <3>1 DEF Within
    <2>3. QED
      BY <2>1, <2>2
  <1>3. ASSUME l[i].to # s, Has(l, s) PROVE Has(r, s)
    <2>1. PICK j \in DOMAIN l : l[j].to = s
      BY <1>3 DEF Has
    <2>2. CASE j < i
      <3>1. j \in DOMAIN r /\ r[j] = l[j]
        BY <1>1, <2>2
      <3>2. QED
        BY <2>1, <3>1 DEF Has
    <2>3. CASE j > i
      <3>1. j - 1 \in DOMAIN r /\ r[j - 1] = l[j]
        BY <1>1, <2>3
      <3>2. QED
        BY <2>1, <3>1 DEF Has
    <2>4. QED
      BY <1>1, <1>3, <2>1, <2>2, <2>3
  <1>4. QED
    BY <1>2, <1>3 DEF r, Within

\* A reset that is added is no retry, and is for its server.
LEMMA AppendWithin ==
  ASSUME NEW l \in Seq(WaitRecord), NEW u \in Server, NEW s \in Server, NEW n \in Int,
         Within(l, s, n)
  PROVE  LET a == Append(l, [do |-> "reset", to |-> u])
         IN  /\ Within(a, s, n)
             /\ u = s \/ Has(l, s) => Has(a, s)
  <1> DEFINE e == [do |-> "reset", to |-> u]
             a == Append(l, e)
  <1>1. e \in WaitRecord /\ e.do = "reset" /\ e.to = u
    BY DEF WaitRecord
  <1> HIDE DEF e
  <1>2. /\ DOMAIN l = 1 .. Len(l) /\ Len(l) \in Nat
        /\ DOMAIN a = 1 .. Len(l) + 1 /\ a[Len(l) + 1] = e
        /\ \A i \in 1 .. Len(l) : a[i] = l[i]
    BY <1>1, AppendIs
  <1> HIDE DEF a
  <1>3. Within(a, s, n)
    BY <1>1, <1>2 DEF Within
  <1>4. u = s \/ Has(l, s) => Has(a, s)
    BY <1>1, <1>2 DEF Has
  <1>5. QED
    BY <1>3, <1>4 DEF a, e

\* What the scheduled tasks do to the attempts for server s: one of its own
\* joins it or leaves a retry less, others change nothing.
LEMMA LaterDescends ==
  ASSUME TypeOK, NEW s \in Server, NEW u \in Server, NEW n \in Nat,
         Waits(s), ~Settled(s), Within(waiting, s, n), Later(u)
  PROVE  \/ Settled(s)'
         \/ /\ Waits(s)' /\ Within(waiting', s, n)
            /\ u = s => n > 0 /\ Within(waiting', s, n - 1)
  <1>1. PICK i \in DOMAIN waiting : waiting[i].to = u /\ (Retry(i) \/ Reset(i))
    BY DEF Later
  <1>2. /\ waiting \in Seq(WaitRecord) /\ sync \in {0, 32} /\ ~lobby
        /\ Has(waiting, s) /\ DOMAIN waiting = 1 .. Len(waiting) /\ Len(waiting) \in Nat
    BY DEF TypeOK, WaitRecord, Settled, Waits, Has
  <1> DEFINE r == RemoveAt(waiting, i)
  <1>3. /\ r \in Seq(WaitRecord) /\ Within(r, s, n)
        /\ i <= n => Within(r, s, n - 1)
        /\ u # s => Has(r, s)
    BY <1>1, <1>2, RemoveWithin, RemoveAtType
  <1>4. CASE joined' = u /\ waiting' = r
    BY <1>3, <1>4 DEF Settled, Waits, Has
  <1>5. CASE waiting[i].do = "retry" /\ waiting' = Append(r, [do |-> "reset", to |-> u])
    <2>1. Within(waiting', s, n) /\ Waits(s)'
      BY <1>3, <1>5, AppendWithin DEF Waits, Has
    <2>2. ASSUME u = s PROVE n > 0 /\ Within(waiting', s, n - 1)
      <3>1. i <= n
        BY <1>1, <1>5, <2>2 DEF Within
      <3>2. QED
        BY <1>2, <1>3, <1>5, <3>1, AppendWithin
    <2>3. QED
      BY <2>1, <2>2
  <1>6. ASSUME Retry(i)
        PROVE  \/ joined' = u /\ waiting' = r
               \/ waiting[i].do = "retry" /\ waiting' = Append(r, [do |-> "reset", to |-> u])
    BY <1>1, <1>2, <1>6 DEF Retry, ConnectToParty
  <1>7. ASSUME Reset(i) PROVE joined' = u /\ waiting' = r
    BY <1>1, <1>2, <1>7 DEF Reset, ResetIf, FlagsLeft, ConnectToParty
  <1>8. QED
    BY <1>1, <1>4, <1>5, <1>6, <1>7

\* No other step takes an attempt away or adds a retry.
LEMMA WaitingKept ==
  ASSUME IInv, NEW s \in Server, NEW n \in Nat,
         Waits(s), ~Settled(s), Within(waiting, s, n), [Next]_vars
  PROVE  \/ Settled(s)'
         \/ Waits(s)' /\ Within(waiting', s, n)
  <1>1. CASE Ready
    <2>1. ConnectToParty(host, sync, waiting) /\ tasks # <<>>
      BY <1>1 DEF Ready, ReadyWith, Accepted, Take
    <2>2. /\ waiting \in Seq(WaitRecord) /\ sync \in {0, 32} /\ host \in Server
          /\ Has(waiting, s)
      BY <2>1 DEF IInv, TypeOK, HostKnown, WaitRecord, Settled, Waits, Has
    <2>3. waiting' = waiting \/ waiting' = Append(waiting, [do |-> "reset", to |-> host])
      BY <2>1, <2>2 DEF ConnectToParty
    <2>4. CASE waiting' = waiting
      BY <2>4 DEF Waits
    <2>5. CASE waiting' = Append(waiting, [do |-> "reset", to |-> host])
      <3>1. Within(waiting', s, n) /\ Has(waiting', s)
        BY <2>2, <2>5, AppendWithin
      <3>2. QED
        BY <3>1 DEF Waits, Has
    <2>6. QED
      BY <2>3, <2>4, <2>5
  <1>2. CASE \E u \in Server : Later(u)
    <2>1. PICK u \in Server : Later(u)
      BY <1>2
    <2>2. TypeOK
      BY DEF IInv
    <2>3. \/ Settled(s)'
          \/ /\ Waits(s)' /\ Within(waiting', s, n)
             /\ u = s => n > 0 /\ Within(waiting', s, n - 1)
      BY <2>1, <2>2, LaterDescends
    <2>4. QED
      BY <2>3
  <1>3. CASE ~Ready /\ ~\E u \in Server : Later(u)
    <2>1. waiting' = waiting
      BY <1>3 DEF Next, Frame, Refuse, RefuseLeaving, Decline, Restart, ConnectAgain, Commands,
                  Disconnect, Reconnect, ReconnectBy, User, AskConnect, AskReconnect, Game, NewMap,
                  CgameStarts, Dropped, EnterLobby, SyncChanges, vars, state, queues, game
    <2>2. QED
      BY <2>1 DEF Waits
  <1>4. QED
    BY <1>1, <1>2, <1>3

\* An attempt for s waits, and the retries for s are among the first n tasks.
Waiting(s, n) == Waits(s) /\ Within(waiting, s, n)

WaitDescends(s, n) == Waiting(s, n) ~> Settled(s) \/ (n > 0 /\ Waiting(s, n - 1))

\* Each turn of an attempt that waits joins its server, or puts a reset in the
\* place of a retry and adds none.
THEOREM WaitingDescends ==
  FairSpec /\ []StepsCanRun => \A s \in Server, n \in Nat : WaitDescends(s, n)
  <1> SUFFICES ASSUME NEW s \in Server, NEW n \in Nat
               PROVE  FairSpec /\ []StepsCanRun => WaitDescends(s, n)
    OBVIOUS
  <1> DEFINE W == Waiting(s, n)
             Less == n > 0 /\ Waiting(s, n - 1)
  <1>1. FairSpec => LaterFairly(s) /\ Spec
    BY DEF FairSpec, Fairness
  <1>2. StepsCanRun => StepCanRun(s)
    BY DEF StepsCanRun
  <1>3. IInv /\ W /\ [Next]_vars => Settled(s) \/ Settled(s)' \/ W'
    BY WaitingKept DEF Waiting
  <1>4. IInv /\ W /\ <<Later(s)>>_vars => Settled(s) \/ Settled(s)' \/ Less'
    BY LaterDescends DEF Waiting, IInv
  <1>5. W /\ StepCanRun(s) => Settled(s) \/ ENABLED <<Later(s)>>_vars
    BY DEF Waiting, StepCanRun
  <1> HIDE DEF W, Less
  <1>6. FairSpec /\ []StepsCanRun => (W ~> Settled(s) \/ Less)
    BY <1>1, <1>2, <1>3, <1>4, <1>5, Invariance, PTL DEF Spec, LaterFairly
  <1>7. QED
    BY <1>6, PTL DEF W, Less, WaitDescends

\* The rule of induction for ~>, over where the last retry stands.
RetryInduction(s) ==
  (\A n \in Nat : WaitDescends(s, n)) => ((\E n \in Nat : Waiting(s, n)) ~> Settled(s))

\* An attempt that waits for the online data ends with the game joining its
\* server, whatever other attempts do meanwhile (WaitingJoins).
THEOREM EachJoins ==
  FairSpec /\ []StepsCanRun /\ (\A s \in Server : RetryInduction(s)) => WaitingJoins
  <1> SUFFICES ASSUME NEW s \in Server
               PROVE  FairSpec /\ []StepsCanRun /\ RetryInduction(s) => (Waits(s) ~> Settled(s))
    BY DEF WaitingJoins
  <1> DEFINE Measured == \E n \in Nat : Waiting(s, n)
             Steps == \A n \in Nat : WaitDescends(s, n)
  <1>1. IInv /\ Waits(s) => Measured
    <2>1. IInv => waiting \in Seq(WaitRecord)
      BY DEF IInv, TypeOK, WaitRecord
    <2>2. IInv => Len(waiting) \in Nat /\ Within(waiting, s, Len(waiting))
      BY <2>1 DEF Within
    <2>3. QED
      BY <2>2 DEF Waiting
  <1>2. FairSpec /\ []StepsCanRun => Steps
    BY WaitingDescends
  <1>3. RetryInduction(s) => (Steps => (Measured ~> Settled(s)))
    BY DEF RetryInduction
  <1> HIDE DEF Measured, Steps
  <1>4. QED
    BY <1>1, <1>2, <1>3, Invariance, PTL DEF FairSpec
=============================================================================

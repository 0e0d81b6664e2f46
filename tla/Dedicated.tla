----------------------------- MODULE Dedicated ------------------------------
(***************************************************************************)
(* component/map_rotation.cpp with the start of component/dedicated.cpp:   *)
(* how a dedicated server comes up and goes from map to map.  Everything   *)
(* happens on the main thread: tasks of the scheduler, and the commands of *)
(* the engine's buffer, which run one after another.  A task is due at any *)
(* time after it was scheduled; its delay is left out.                     *)
(***************************************************************************)
EXTENDS Naturals, Sequences, SequencesExt, FiniteSets

CONSTANTS
  Missing,    \* maps that SV_MapExists does not find
  Fallback,   \* mp_crash
  Settings,   \* the values of sv_mapRotation, which load_rotation reads once,
              \* and sv_randomMapRotation
  Currents,   \* the values of sv_mapRotationCurrent
  Gametype,   \* g_gametype before the first rotation
  None,       \* no map
  MaxOps      \* bound: ends of levels, errors, commands, changes by hand

\* A rotation is a sequence of entries.  What is neither a map nor a gametype
\* makes parse throw.
Entry == [key : {"map", "gametype", "bad"}, value : STRING]
Rotations == {setting.rotation : setting \in Settings}

ASSUME RotationAssumption ==
  /\ \A setting \in Settings : setting.rotation \in Seq(Entry) /\ setting.random \in BOOLEAN
  /\ \A data \in Currents : data \in Seq(Entry)

VARIABLES
  rotation, current, random,  \* the three dvars
  entries, index,             \* dedicated_rotation; entries are parsed once
  loaded,                     \* load_rotation's static flag
  gametype, mapname,          \* g_gametype and mapname
  sync,                       \* Live_SyncOnlineDataFlags, 0 with the database ready
  tasks,                      \* the tasks on the main pipeline, by kind
  queue, running,             \* startup commands: queued, and being flushed
  buffer,                     \* the engine's command buffer
  cgame,                      \* CL_IsCgameInitialized
  ops,
  wrapped,  \* history: the index has gone round
  foreign,  \* history: sv_mapRotationCurrent was the last to set the gametype
  level,    \* history: the map that is played, as it was started
  played,   \* history: the entries that maps were started from
  wanted    \* history: a rotation was asked for since the last map started

dvars == <<rotation, current, random>>
dedicated == <<entries, index, loaded, wrapped>>
effect == <<dedicated, gametype, foreign>>
startup == <<queue, running>>
game == <<sync, cgame, mapname, level, played>>
vars == <<dvars, effect, tasks, startup, buffer, game, ops, wanted>>

Task == {"watch", "private", "init", "start", "wait", "perform", "exit", "error"}

Init ==
  /\ \E s \in Settings : rotation = s.rotation /\ random = s.random
  /\ current \in Currents
  /\ entries = <<>> /\ index = 0 /\ loaded = FALSE /\ wrapped = FALSE
  /\ gametype = Gametype /\ foreign = FALSE /\ mapname = None
  /\ sync = "other" /\ cgame = FALSE /\ level = None /\ played = <<>>
  /\ tasks = [k \in Task |-> IF k \in {"watch", "init"} THEN 1 ELSE 0]
  /\ queue = 0 /\ running = 0 /\ buffer = <<>> /\ ops = 0 /\ wanted = FALSE

-----------------------------------------------------------------------------
(* rotation_data.                                                          *)

\* parse keeps what it has read before it throws.
Parse(data) ==
  LET bad == {i \in DOMAIN data : data[i].key = "bad"}
  IN IF bad = {} THEN data ELSE SubSeq(data, 1, Min(bad) - 1)

\* Mutant: the index is advanced before the entry is read.
PositionNext(data, i, k) == ((i + k + 1) % Len(data)) + 1

\* The position that the k-th call of get_next_entry from index i returns.
Position(data, i, k) == ((i + k) % Len(data)) + 1

At(data, i, k) == data[Position(data, i, k)]

\* The calls of get_next_entry that find a map, the number of calls up to the
\* first of them, and the gametypes met on the way.
MapsFrom(data, i) == {k \in 0 .. Len(data) - 1 : At(data, i, k).key = "map"}
Barren(data) == data # <<>> /\ MapsFrom(data, 0) = {}
Calls(data, i) == IF MapsFrom(data, i) = {} THEN Len(data) ELSE Min(MapsFrom(data, i)) + 1
OnTheWay(data, i) == {k \in 0 .. Calls(data, i) - 1 : At(data, i, k).key = "gametype"}

\* set_gametype for each of them: the last one stays.
GametypeAfter(data, i) ==
  IF OnTheWay(data, i) = {} THEN gametype ELSE At(data, i, Max(OnTheWay(data, i))).value

\* What launch_default_map plays.
Default == IF mapname = None THEN Fallback ELSE mapname

\* Commands of the buffer.  A map command says from which entry it comes (0:
\* from none), and whether another rotation came before it was executed.
Rotate == [cmd |-> "map_rotate", map |-> None, pos |-> 0, again |-> FALSE, stale |-> FALSE]
MapCommand(m, pos, again) ==
  [cmd |-> "map", map |-> m, pos |-> pos, again |-> again, stale |-> FALSE]
Overtaken(b) ==
  [i \in DOMAIN b |-> IF b[i].cmd = "map" THEN [b[i] EXCEPT !.stale = TRUE] ELSE b[i]]

\* The map that apply_rotation launches, if it comes to one: a map that does
\* not exist is replaced.
Launched(data, i, pos, again) ==
  IF MapsFrom(data, i) = {} THEN <<>>
  ELSE LET m == At(data, i, Calls(data, i) - 1).value
       IN <<MapCommand(IF m \in Missing THEN Default ELSE m, pos, again)>>

-----------------------------------------------------------------------------
(* map_rotate: perform_map_rotation, with the tasks t and the buffer b that *)
(* are left when it is called.                                              *)

\* apply_map_rotation_current.  It clears a dvar of another name.
ApplyCurrent(b) ==
  LET data == Parse(current)
  IN /\ gametype' = IF data = <<>> THEN gametype ELSE GametypeAfter(data, 0)
     /\ foreign' = (foreign \/ (data # <<>> /\ OnTheWay(data, 0) # {}))
     /\ buffer' = Overtaken(b) \o
          IF data = <<>> THEN <<MapCommand(Default, 0, FALSE)>> ELSE Launched(data, 0, 0, FALSE)
     /\ UNCHANGED dedicated

\* Mutant: apply_rotation works on a copy, so that the index does not move.
IndexKept(data, i) == i

\* Where apply_rotation leaves the index.
IndexAfter(data, i) == (i + Calls(data, i)) % Len(data)

\* randomize: the order of the entries; the index stays.
Orders == [n \in 0 .. Max({Len(data) : data \in Rotations}) |-> SetToSeqs(1 .. n)]
Shuffles(data) == {[i \in DOMAIN data |-> data[order[i]]] : order \in Orders[Len(data)]}

\* load_map_rotation, randomize_map_rotation and apply_rotation.
ApplyDedicated(b) ==
  LET read == IF loaded \/ rotation = <<>> THEN entries ELSE Parse(rotation)
      last == index + Calls(read, index) - 1
      again == wrapped \/ last >= Len(read)
  IN /\ loaded' = (loaded \/ rotation # <<>>)
     /\ IF read = <<>>
        THEN /\ buffer' = Overtaken(b) \o <<MapCommand(Default, 0, FALSE)>>
             /\ UNCHANGED <<entries, index, wrapped, gametype, foreign>>
        ELSE \E data \in (IF random THEN Shuffles(read) ELSE {read}) :
             /\ entries' = data
             /\ index' = IndexAfter(data, index)
             /\ wrapped' = (again \/ last + 1 = Len(read))
             /\ gametype' = GametypeAfter(data, index)
             /\ foreign' = (foreign /\ OnTheWay(data, index) = {})
             /\ buffer' = Overtaken(b) \o
                  Launched(data, index, Position(data, index, Calls(data, index) - 1), again)

\* Mutant: a rotation that comes too early is forgotten.
Postpone(t) == t

\* on_game_initialized(perform_map_rotation).
Wait(t) == [t EXCEPT !["wait"] = @ + 1]

Perform(t, b) ==
  \/ /\ sync # "zero"
     /\ tasks' = Wait(t) /\ buffer' = b
     /\ UNCHANGED effect
  \/ /\ sync = "zero" /\ tasks' = t
     /\ IF current # <<>> THEN ApplyCurrent(b) ELSE ApplyDedicated(b)

-----------------------------------------------------------------------------
(* The command buffer and the scheduler's tasks.                           *)

\* The main thread is not inside execute_startup_command_queue.
Free == running = 0

\* Cbuf_Execute comes to a map_rotate.
RunRotate ==
  /\ Free /\ buffer # <<>> /\ Head(buffer).cmd = "map_rotate"
  /\ Perform(tasks, Tail(buffer))
  /\ UNCHANGED <<dvars, startup, game, ops, wanted>>

\* Cbuf_Execute comes to a map: the engine loads it, with the gametype of
\* that moment, and may have a client game for it.
RunMap ==
  /\ Free /\ buffer # <<>> /\ Head(buffer).cmd = "map"
  /\ LET c == Head(buffer)
     IN /\ mapname' = c.map
        /\ level' = [map |-> c.map, pos |-> c.pos, again |-> c.again, stale |-> c.stale,
                     gametype |-> gametype, foreign |-> foreign]
        /\ played' = IF c.pos = 0 THEN played ELSE Append(played, c.pos)
  /\ cgame' \in BOOLEAN
  /\ buffer' = Tail(buffer) /\ wanted' = FALSE
  /\ UNCHANGED <<dvars, effect, tasks, startup, sync, ops>>

Without(k) == [tasks EXCEPT ![k] = @ - 1]
Move(k, to) == [tasks EXCEPT ![k] = @ - 1, ![to] = @ + 1]
Due(k) == Free /\ tasks[k] > 0

\* The workaround's poll has seen 32.
Watch ==
  /\ Due("watch") /\ sync = "32"
  /\ tasks' = Move("watch", "private")
  /\ UNCHANGED <<dvars, effect, startup, buffer, game, ops, wanted>>

\* xstartprivateparty, then disconnect: "32 -> 0".
StartPrivate ==
  /\ Due("private")
  /\ tasks' = Without("private") /\ sync' = "zero"
  /\ UNCHANGED <<dvars, effect, startup, buffer, cgame, mapname, level, played, ops, wanted>>

\* on_game_initialized of the component, and of perform_map_rotation.
Initialized ==
  /\ sync = "zero"
  /\ \/ Due("init") /\ tasks' = Move("init", "start")
     \/ Due("wait") /\ tasks' = Move("wait", "perform")
  /\ UNCHANGED <<dvars, effect, startup, buffer, game, ops, wanted>>

\* The server is started: the startup commands are copied, and run.
Start ==
  /\ Due("start")
  /\ tasks' = Without("start")
  /\ queue' = 0 /\ running' = queue
  /\ UNCHANGED <<dvars, effect, buffer, game, ops, wanted>>

RunStartup ==
  /\ running > 0
  /\ running' = running - 1
  /\ Perform(tasks, buffer)
  /\ UNCHANGED <<dvars, queue, game, ops, wanted>>

PerformDue ==
  /\ Due("perform")
  /\ Perform(Without("perform"), buffer)
  /\ UNCHANGED <<dvars, startup, game, ops, wanted>>

\* The poll of trigger_map_rotation, and the task of sys_error_stub.
RotateDue ==
  /\ \/ Due("exit") /\ ~cgame /\ tasks' = Without("exit")
     \/ Due("error") /\ tasks' = Without("error")
  /\ buffer' = Append(buffer, Rotate)
  /\ UNCHANGED <<dvars, effect, startup, game, ops, wanted>>

-----------------------------------------------------------------------------
(* The engine, its scripts and the administrator.                          *)

Step == Free /\ ops < MaxOps /\ ops' = ops + 1

\* A level's script calls exitLevel, maybe not for the first time.
LevelEnds ==
  /\ Step /\ level # None
  /\ tasks' = [tasks EXCEPT !["exit"] = @ + 1] /\ wanted' = TRUE
  /\ UNCHANGED <<dvars, effect, startup, buffer, game>>

\* sys_error_stub.
Error ==
  /\ Step
  /\ tasks' = [tasks EXCEPT !["error"] = @ + 1] /\ wanted' = TRUE
  /\ UNCHANGED <<dvars, effect, startup, buffer, game>>

\* map_rotate on the console, whose commands nothing holds back.
Console ==
  /\ Step
  /\ buffer' = Append(buffer, Rotate) /\ wanted' = TRUE
  /\ UNCHANGED <<dvars, effect, tasks, startup, game>>

\* map_rotate on the command line: execute_startup_command.
Startup ==
  /\ Step /\ tasks["init"] + tasks["start"] > 0
  /\ wanted' = TRUE
  /\ IF sync = "zero" THEN Perform(tasks, buffer) /\ queue' = queue
     ELSE queue' = queue + 1 /\ UNCHANGED <<effect, tasks, buffer>>
  /\ UNCHANGED <<dvars, running, game>>

\* The administrator sets or clears sv_mapRotationCurrent.
SetCurrent ==
  /\ Step
  /\ current' \in Currents
  /\ UNCHANGED <<rotation, random, effect, tasks, startup, buffer, game, wanted>>

\* The engine has signed in.
SignedIn ==
  /\ sync = "other" /\ sync' = "32"
  /\ UNCHANGED <<dvars, effect, tasks, startup, buffer, cgame, mapname, level, played, ops, wanted>>

\* The engine has shut down the client game.
CgameDown ==
  /\ cgame /\ cgame' = FALSE
  /\ UNCHANGED <<dvars, effect, tasks, startup, buffer, sync, mapname, level, played, ops, wanted>>

Next ==
  \/ RunRotate \/ RunMap \/ Watch \/ StartPrivate \/ Initialized \/ Start \/ RunStartup
  \/ PerformDue \/ RotateDue
  \/ LevelEnds \/ Error \/ Console \/ Startup \/ SetCurrent \/ SignedIn \/ CgameDown

\* The main thread drains its buffer and its tasks; the engine signs in and
\* shuts the client game down.
Fairness ==
  /\ WF_vars(RunRotate) /\ WF_vars(RunMap) /\ WF_vars(RunStartup)
  /\ WF_vars(Watch) /\ WF_vars(StartPrivate) /\ WF_vars(Start)
  /\ WF_vars(Initialized) /\ WF_vars(PerformDue) /\ WF_vars(RotateDue)
  /\ WF_vars(SignedIn) /\ WF_vars(CgameDown)

Spec == Init /\ [][Next]_vars /\ Fairness

-----------------------------------------------------------------------------
(* Properties.                                                             *)

\* A map of an unshuffled rotation is played with the gametype entry before
\* it, once the rotation has gone round the last one of the list; unless
\* another rotation was performed between the map command and its execution,
\* or sv_mapRotationCurrent has set a gametype that none has replaced.
GametypeAt(data, pos, again) ==
  LET all == {i \in DOMAIN data : data[i].key = "gametype"}
      before == {i \in all : i < pos}
  IN IF before # {} THEN data[Max(before)].value
     ELSE IF again /\ all # {} THEN data[Max(all)].value
     ELSE Gametype
GametypeOfMap ==
  level # None /\ level.pos # 0 /\ ~random /\ ~level.stale /\ ~level.foreign =>
    level.gametype = GametypeAt(entries, level.pos, level.again)

\* The maps of an unshuffled rotation are played in their order, round and
\* round, none left out, whatever is played from sv_mapRotationCurrent or in
\* place of a missing map meanwhile, however many rotations overlap.
MapsOf(data) == {p \in DOMAIN data : data[p].key = "map"}
NextMap(data, p) ==
  LET after == {m \in MapsOf(data) : m > p}
  IN IF after # {} THEN Min(after) ELSE Min(MapsOf(data))
InTurn ==
  ~random => \A i \in DOMAIN played :
    /\ played[i] \in MapsOf(entries)
    /\ played[i] = NextMap(entries, IF i = 1 THEN 0 ELSE played[i - 1])

\* Whenever a rotation is asked for, by a level that ends, an error, the
\* console or the command line, and however early, a map is started, as long
\* as neither sv_mapRotation nor sv_mapRotationCurrent has entries, but no map.
MapsGiven == ~Barren(Parse(rotation)) /\ ~Barren(Parse(current))
MapComes == []MapsGiven => (wanted ~> ~wanted)
=============================================================================

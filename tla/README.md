# A TLA+ model of the HorizonMW client

HorizonMW is a client for *Call of Duty: Modern Warfare Remastered* servers. It is
loaded in front of a closed game binary, hooks its functions, and adds components
(`src/src/client/component`) that talk to servers, show them in a browser, connect to
them, run a dedicated server, and so on. This directory models the parts of it that
decide *when* things happen: the scheduler that all components run on, the server
browser with its threads, the steps by which the client connects to a server, the
emulation of the Demonware servers that the game's sockets end at, and on the server's
side the map rotation, the remote console and the voice chat.

Paths below are relative to `src/src/client/` unless they say otherwise.

## The system

| part | state it keeps | operations | runs on | what makes it correct |
|---|---|---|---|---|
| Scheduler (`component/scheduler.cpp`) | per pipeline: `new_callbacks_`, `callbacks_`; `kill`, two threads | `schedule`, `once`, `loop`, `on_game_initialized`, `execute`, start, destroy | any thread adds; two own threads and four frame hooks drain | no callback lost, doubled, early or overtaken; each is called in the end; shutdown ends |
| Server browser (`component/server_list.cpp`) | `servers` on display, `pages`, `current_page`, `getting_*`, `interrupt_*`, `is_loading_page`, the file of favourites | refresh, populate, parse favourites, fetch, load / next / previous page, sort, join, add and delete a favourite | main thread, network pipeline, one thread per element of a list | what is on display is the page, without doubles; a server is on the pages as often as it was found; every job ends |
| Connecting (`component/party.cpp`, `tcp/hmw_tcp_utils.cpp`) | `connecting_to_server`, `needs_vid_restart`, `server_connection_state` | `connect`, look at `/getInfo`, download check, `connect_to_party` with its retries, `disconnect`, `reconnect`, new map | main thread, in tasks and commands of later frames | one attempt at a time, ends by joining the right server or by freeing the flag |
| HTTP (`GET_url` in `tcp/hmw_tcp_utils.cpp`) | none | one GET with retries | the caller's thread, blocking | bounded number of attempts |
| Downloads (`component/download.cpp`) | `abort`, `active` | start, stop | async pipeline | one at a time, can be aborted |
| Remote console (`component/rcon.cpp`, `console.cpp`, `network.cpp`) | `is_redirecting_`, `has_redirected_`, `redirect_target_`, `redirect_buffer` | the handler of `rcon`, `setup_redirect`, `clear_redirect`, `dispatch_message` | main thread; anybody prints | a client gets the output of its command and nobody else's; no line is lost |
| Map rotation (`component/map_rotation.cpp`) | rotation, index, three dvars | next entry, apply, randomise, wait for the sign-in | main thread | every map comes round, with its gametype; a map that is asked for comes |
| Dedicated server (`component/dedicated.cpp`) | startup commands | queue until online, run, errors | main thread, scheduler | nothing queued is lost |
| Voice (`voice/hmw_voice_chat.cpp`, `component/logfile.cpp`) | packet queues per client, who killed whom | `sv_voice_packet`, `g_broadcast_voice`, `sv_send_client_voice_data`, `cl_voice_packet` | server and client frames | who may not be heard is not; queues stay in bounds; nothing queued is lost |
| Demonware emulation (`component/demonware.cpp`, `game/demonware`) | sockets, servers, queues, keys | send, receive, frame, handshake | own thread, the game's threads | data in order, each byte once; keys agree; shutdown ends |
| Discord, message of the day, authentication, component loader, scripts, files, game patches | see `PROJECT.json` | | | |

How they meet: everything asynchronous goes through the scheduler. The browser's jobs
are `once` tasks of the `network` pipeline, its delayed insertions `once` tasks of
`main`; joining a server calls `party::connect`. A connection attempt looks at the
answer in a `main` task, waits for the game's online data with `main` tasks of one
second, and uses the game's command buffer. Discord's join and the console's `connect`
are further callers of `party::connect`. The remote console runs commands such as
`map_rotate`, which waits for the sign-in with `on_game_initialized` of the scheduler.
The Demonware thread is the component's own and goes around the scheduler. The game itself is external: it appears as the
frames that call the hooks and as a few flags (`Live_SyncOnlineDataFlags`,
`VirtualLobby_Loaded`, `CL_IsCgameInitialized`, which frames it runs) that change on their own.

What is hard: hand-overs between threads (scheduler, browser), state looked at in one
step and used in a later one (browser pages 125 ms later, connection host seconds
later), flags that every early return must reset, retries that must end, queues
that outlive those they were filled for (a voice slot, a socket of the lobby), a global
switch that all threads look at (the redirect). `PROJECT.json`
lists each place under `hazards` with the property that covers it, or says why none
does.

## The modules

* `TimerService.tla`: what the scheduler promises. A set of armed callbacks; each fires
  on its own pipeline, one at a time per pipeline, not before its interval is over, and
  is dropped only when its handler returns.
* `Scheduler.tla`: `scheduler.cpp`. One action per step that another thread can see:
  stamping `last_call` (`Stamp`), appending under the lock (`Add`), entering `execute`
  (`Enter`), merging (`Merge`), skipping a task that is not due (`Skip`), calling a
  handler (`Start`), its return with erase or step (`Finish`), the end of the walk
  (`Leave`), and the component's `post_start`, `post_unpack`, `pre_destroy`. A handler
  may schedule further tasks while it runs. Time is a number of ticks per task since its
  last call, capped at its interval, which is all the comparison in the code can tell.
  `TimerService` is refined with `armed` = the tasks in somebody's hands or in a list,
  and `running` = the task under the iterator of a pipeline that is inside a handler.
* `SchedulerProofs.tla`: the theorems about its safety; `SchedulerLiveProofs.tla`, which
  extends it: those about its liveness (both below).
* `ServerList.tla`: `server_list.cpp`. A server is its address, and an address may be
  listed more than once. The main thread's operations are the actions `Refresh` / `Clear`,
  `OpenPage`, `TurnPage`, `Sort`, `Join`, `AddFavourite`, `DeleteFavourite`; its scheduled
  tasks `AutoSort`, `StartInsert`, `ShowPage`, with the insertions one by one (`CheckRoom`,
  `InsertNext`: the size is read before the lock is taken); the network thread's `StartJob`,
  `ReadList`, `JobFails`, `Launch` (a thread per element), `GiveUp` (an element that is no
  string), `JobEnds`; each fetching thread's `Ask`, `Answer`, `InsertFetched`. The file of
  the favourites is what `add_favourite`, `delete_favourite` and the favourites job share.
  `refresh_server_list` is two steps because the network thread may begin a job between its
  test of the flags and its clearing of the lists. `net = "terminated"` is the process after
  the destructor of a joinable thread has called `std::terminate`: nothing moves then.
* `ServerListProofs.tla`: the theorems about it.
* `Connect.tla`: `party.cpp` and `download_files_tcp`. All on the main thread, so that
  an action is a whole task or command; what interleaves are the tasks of the next frame
  (`Refuse`, `Decline`, `Restart`, `Ready`, `ConnectAgain`, in order), those of a second
  later (`Retry`, `Reset`, in any order), the command buffer (`Disconnect`, `Reconnect`),
  the user, and the game.
* `ConnectProofs.tla`: the theorems about it.
* `Rcon.tla`: the handler of `rcon` with `dispatch_message`. The handler is cut where it
  lets go of the redirect's lock: `Start` (`setup_redirect`), `Refuse`, `RunPrint`,
  `RunReturn`, `EndSilent` or `GoOn`, `ClearRedirect`. A thread that prints takes the
  lock in `Say` and, when the redirect is off, shows the line in a later step (`Show`).
  Requests are datagrams and may be lost (`Lose`); `Malformed` and `Ignore` are the
  early returns.
* `RconProofs.tla`: the theorems about it.
* `Voice.tla`: `Speak` is `sv_user_voice` through to `sv_queue_voice_packet` for every
  listener; the five rules of `g_broadcast_voice` are operators of their own, as they
  are in the code, with the two tests about killers as written there. `Send` is
  `sv_send_client_voice_data`, which writes the count as a byte, `Receive` is
  `cl_voice_packet`. Around them the game: kills (with the early returns of
  `scr_player_killed_stub`), spawns, the end of the match, clients that leave and join.
* `VoiceProofs.tla`: the theorems about it.
* `Channel.tla`: what a stream server promises: packets are served in order, each once,
  and the bytes of the answers are read in order, each once.
* `Demonware.tla`: the servers' thread is cut at the locks of the queues (`Turn`, `Pass`,
  `Pop`, then `HandleStream` or `HandleDatagram`); the game's threads at the locks of
  `recv_stub` (`FindData`, then `TakeData`). The keys' transcript (`keys.cpp`) is part of
  `HandleStream`. `Channel` is refined with `asked` = the packet that the thread has popped
  and the queue behind it.
* `DemonwareProofs.tla`: the theorems about it.
* `Dedicated.tla`: `perform_map_rotation` is an operator (`Perform`) because the command
  buffer, the startup commands and a scheduled task all call it. The k-th call of
  `get_next_entry` is the function `Position`; how many calls `apply_rotation` makes,
  which gametypes it sets and which map it launches follow from it, so that no loop is
  needed.
* `DedicatedProofs.tla`: the theorems about its two invariants.
* `MCScheduler`, `MCSchedulerLive`, `MCServerList`, `MCConnect`, `MCRcon`, `MCVoice`,
  `MCDemonware`, `MCDedicated`: instances for TLC.

Definitions whose comment says *Mutant* are not part of any specification. Each is a
plausible mistake in the code, and replacing the real definition by it makes the
property named in `PROJECT.json` fail in its run; they show that a property depends on
the code.

## The runs

| run | instance and bounds | distinct states | shows |
|---|---|---|---|
| `scheduler` | `async` and `main`; a task that may be rescheduled, a delayed and two immediate ones, a poll for the game with its callback; one outside caller | 190 886 | hand-over, walk, order, single call, single registration, quiet shutdown; refinement of `TimerService` |
| `scheduler_live` | `async`, `main`, `server`; a loop, a poll and its callback on `server` with a delay | 59 640 | callbacks are called, waiting ones are told, `pre_destroy` returns |
| `server_list` | localhost and a server; a list of it, of it and a bad element, or of that alone; pages of one, three user actions | 197 852 | pages and display agree with the answers, nothing lost or shown twice, every job and page load ends |
| `server_list_limit` | localhost and two servers, pages of two, two user actions | violation | the list exceeds the limit |
| `connect` | two servers, four requests (connect, reconnect, new map) | 110 538 | one attempt at a time, the right server joined, waiting attempts and `reconnect` end |
| `connect_flag` | three requests | violation | `connecting_to_server` stays set |
| `rcon` | two clients, a thread beside the main thread, two requests, four lines | 266 656 | answers hold what was printed meanwhile, no line is lost or taken along, every request is answered |
| `rcon_silent` | one request, one line | violation | the redirect outlives a command without output |
| `voice` | two slots, queue of four, messages of three, a byte of two values; two voice messages, one change of the game | 213 116 | who hears whom, delivery, the limits of queue and message |
| `voice_killer` | the same | violation | the killer does not hear his victim |
| `demonware` | the lobby and two stun servers, a stream socket, a datagram socket, two reading threads; two connections, three packets | 532 888 | a stream server is a channel, connections and keys do not mix, answers to datagrams are kept, shutdown ends |
| `dedicated` | six settings of the rotation (with gametypes, a missing map, an entry that cannot be parsed, no map, nothing, shuffled), three of the current rotation; four events | 244 017 | maps in turn with their gametypes; a map comes if there is one |

Why the bounds suffice. *Scheduler*: two tasks in a list are enough for an erase to
disturb a neighbour, a third for one to be added meanwhile; an interval of one tick
tells due from not due; a pipeline is independent of the others except that handlers of
one add to another. What the bounds leave open for the safety properties is closed by
the proofs. *Server list*: three actions are a refresh, a page and another refresh, the
shortest history in which a page load can meet a cleared list; or a refresh, a favourite
that is added again, and a refresh that runs two threads for it at once. Two pages need a
page size of one. The run of the limit has two servers beside localhost, which fill a page
of two and a place more. *Connect*: four requests are two attempts that cross and a
reconnect. *Rcon*: two requests are one whose buffer or redirect the next one finds; four lines are
two of the command, one of another thread in its midst and one after it. *Voice*: the
constants of the code (256 values, 2000 packets, 0x20000 bytes) are scaled down so that
each limit is met, in the same order, by two messages of two packets that two rules queue
twice; `Room` lies between the byte and the queue as it can in the code. *Demonware*: two
connections are one after another, which is when queues and transcript of the first are
found by the second; three packets are hello, authentication and one more; two stun
servers are needed for `recvfrom` to drop an answer. *Dedicated*: four events are a
startup command, an end of level, an error and one more while these are under way; a
rotation of four entries with two gametypes has gone round after three maps.

Fairness. The threads loop until `kill` and the game runs frames for as long as the
process lives, so draining a pipeline is weakly fair. A handler returns, although it may
be put back by its own calls of `schedule` (strong fairness for `Finish`). Three
pipelines are drained by frames that the game does not run all the time: `renderer` where a
frame is rendered, `server` while `G_RunFrame` runs, `lui` in frames that find a Lua state.
They come and go on their own (`frames`), entering one is strongly fair, so that it needs
frames again and again, and a pipeline whose frames have stopped for good (`Starved`) is
excepted from the promise. The three are alike, and the run has `server` for them. Time
passes. A thread that has stamped a task goes on to add it. In the browser, requests end
because `GET_url` has a timeout and a bounded number of attempts, so the
fetching threads are fair; whether a server answers is left open. When connecting, each
attempt that waits has its turn because its task's second passes. Nothing is assumed of the user, of other
callers of `schedule`, or of the game's flags. On the dedicated server the main thread
goes on: each step of the handler of `rcon` is fair (a command returns, but need not
print), the buffer and the tasks of the rotation are drained, and the engine signs in and
shuts its client game down in the end, which is what the polls wait for. A thread that
has found the redirect off shows its line. Snapshots go to every active client, so
`Send(c)` is fair for each. The Demonware thread runs until `exit_server`, and `join`
returns when it has ended. Nothing is assumed of datagrams, remote clients, talkers or
administrators. `CHECK_DEADLOCK FALSE` in all runs but the scheduler's: when as much has
happened as the bounds allow and everything is quiet, the bounded system stops.

## What the violations show

* `LimitKept`. "Do not exceed the server limit" (`server_list.cpp:309`): `insert_server`
  compares the size before it locks `mutex`. A fetching thread and the main thread's
  insertion after a sort both find the last place free.
* `ConnectingIsUnderWay`. "Already connecting to a server please wait..."
  (`party.cpp:803`): each early return of `connect_to_server_tcp` resets
  `connecting_to_server` but the one after `download_files_tcp`. After a file that is
  missing, an exception in the check, or a `vid_restart` nothing is under way and every
  connect is turned away, the one scheduled after the `vid_restart` included.
  `FlagIsOwned`, which holds, says that this is the only way to get there.
* `RedirectEnds`. "Finally, send out the buffer we accumulated when we executed the RCon
  request" (`rcon.cpp:40`): when nothing was redirected the handler of `rcon` returns
  before `clear_redirect`, so that the redirect stays on. `OutputGoesOneWay` says what
  becomes of the output then: it reaches neither the console nor any client.
* `KillerHears`. "Forward VC to killer of talker" (`hmw_voice_chat.cpp:208`): the test
  asks whether the talker was the last to kill the *listener*. The killer of a dead player
  gets his voice only if some other rule gives it to him. `HearingIsAllowed`, which holds,
  states what the rules as written do allow.

Two more places of the browser where the code does not keep to its own words are in the
model, without a run that says so. `populate_server_list` should "join all the threads"
(`server_list.cpp:672`), but `element.get<std::string>()` throws at an element that is no
string, and the `catch` returns while threads of the elements before it are joinable, which
ends the process (`GiveUp`). `add_favourite` should turn a "server already marked as
favourite" away (`server_list.cpp:526`), but looks for a key in an array, where `find` finds
nothing: an address is added again, and the job asks its server once per entry
(`AddFavourite`, `Launch`).

## What is proved

`SchedulerProofs.tla` proves, for every finite or infinite set of tasks, every kind,
target and delay, and every set of outside callers, from the assumptions named in
`Scheduler.tla` (pipelines are among the six; a callback of `on_game_initialized` lives
in that task alone, is a `once`, and belongs to one poll; a poll is on `main` without
delay):

* each safety invariant of the run `scheduler` (`TypeCorrect`, `HandOverIsExact`,
  `WalkIsExact`, `OrderIsKept`, `OnceIsOnce`, `PollIsOnce`, `DestroyIsQuiet`), and
* `Refinement`: every behaviour of the scheduler is one of `TimerService`.

The argument. The inductive invariant `IInv` is the conjunction of the checked
invariants with what they silently rely on:

* `BetweenPasses`: outside the walk the iterator is at the beginning and nothing counts
  as visited;
* `VisitedRan`: a task without a delay that the walk has passed was called;
* `NewNotRan`: a task that is not merged yet has not been called;
* `RetFits`: what a running handler will return fits its kind;
* `OnceRan`: a `once` that was called and is still listed is under the iterator;
* `JoinedInOrder`: `pre_destroy` joins a thread before it goes on.

None of the checked invariants is inductive alone: `CalledOnce`, for one, needs
`OnePlace` to know that the erased slot was the only one, and `RetFits` to know that it
will be erased. Lemmas about the lists (`Append`, concatenation, `RemoveAt` on injective
sequences) come first; then one lemma per part of the invariant with a step per action.
The refinement uses `IInv` and `WaitedCapped`, that `waited` never passes the interval.
`IInv` itself is not an invariant of a run: its extra conjuncts are established by the
proof only.

`ConnectProofs.tla` proves, for every set of servers and any bound on the requests, from
`None` being no server and the bound being a number, the three invariants of the run
`connect`: `TypeCorrect`, `OneAttempt` (`AttemptOwnsHost`) and `FlagIsHeld`
(`FlagIsOwned`). The inductive invariant adds `HostKnown`: while `host` is undefined
nothing is joined, nothing waits and no task is scheduled. It is needed because the task
of a map change connects to whatever `host` is then, without looking at `hostDefined`:
only because a server is joined can it never connect to none. The invariants are
rephrased as facts about a list (`Owned`, `Idle`), for which lemmas say what taking and
adding a task does; the invariant is split into what an attempt touches, what waiting
and joining touch, and the rest, so that each action is a short step for each part.

`LatestIsJoined` is its action property `JoinIsLatest`: while no attempt has crossed
another, all that waits is for `host`, and the message of the day is `host`'s or none
(`LatestInv`).

`ServerListProofs.tla` proves, for any addresses, any page size above zero and any number
of actions, for any lists that the master server may answer with and any favourites, with
doubles or without, every safety invariant of the run `server_list`:

* `TypeCorrect`, with the types in five groups so that a step re-proves only what it
  touches; `NoTwinsShown`, which is inductive with the types.
* `PagesAreThere` (`PageIsThere`) by `PageInv`: of the tasks one loads a page,
  `is_loading_page` says so, and the page is one of those there are (`LoadsOK`); a refresh
  that has passed its flags has seen that nothing loads.
* `NoneIsLost` (`NoneLost`) by `StoreInv`: the places of a server on the pages are as many as
  it was found, whether it is listed once or twice. The point is that a page is never full
  when its next server comes: the answers numbered so far fill each page at least as far as
  it is, and `index` grows with every answer before the page is touched (`JobInv`).
* `PageIsShown` (`DisplayIsPage`) by `ShowInv`, which says what is under way while the user
  waits. There are eight phases, from `PQuiet` over the refresh, the job, the sort and the
  delayed task to the insertion (`PFill`), and in each what is on display, together with
  what is in hand, is the page. Each action leads from one phase to another; that no
  insertion is refused needs `Bounded`, that no page is longer than the display.

`RconProofs.tla` proves, for any clients, threads, requests and lines, `TypeCorrect`,
`AnswersBelong` (`AnswerIsOfRequest`) and `OneWay` (`OutputGoesOneWay`). What makes the
invariant inductive is that a request that is still under way has left no trace
(`RequestsFresh`), and that the buffer holds the lines of the request that is handled, or
else stray lines only (`RedirectOwned`): a redirect that a silent command has left on
collects lines, and `setup_redirect` throws them away before the next command prints.

`VoiceProofs.tla` proves, for any number of slots and all limits, `TypeCorrect` (with the
bound of each queue), `HearingAllowed` (`HearingIsAllowed`) and `EachIsCounted`
(`NoneDropped`). `HearingIsAllowed` is taken apart
into queues and messages (`QueuesAllowed`, `WiresAllowed`), since a packet carries what
the rules looked at and sending moves whole queues. `NoneDropped` adds that nothing is
under way to a slot that is off, and that the count of a message is its length as long as
nothing was cut.

`DemonwareProofs.tla` proves, for any number of servers, sockets, threads, ports,
connections and packets, from the servers being distinct and `None` being neither a
server nor a socket nor a packet:

* `LobbyIsChannel`: the stream server implements `Channel`. What is asked is the packet
  that the thread has popped followed by its queue, so that `Pop` changes nothing and
  `HandleStream` is the one step that serves.
* `StreamsAreOwn` (`StreamIsOwn`) by `OwnInv`: what a connection has read, what is in the
  stream and what is still to be answered are one line in order (`InLine`).
* `KeysAreTheClients` (`KeysAgree`) by `KeyInv`: nobody says hello or authenticates twice
  (`SaidOnce`), so that the transcript is well formed: an acknowledgement right after its
  hello, an authentication after both.
* `AnswersAreKept` (`AnswersKept`) by `UdpInv`: a question is in one place only
  (`Distinct`), is not answered while it is on its way (`Unanswered`), and two servers
  that owe a socket an answer are an overlap (`Separate`), so that what `recvfrom` may drop
  belongs to an overlap.

`DedicatedProofs.tla` proves, for any rotations, any values of `sv_mapRotationCurrent` and
any number of events, from the entries being well typed (`RotationAssumption`):

* `MapsTakeTurns` (`InTurn`). What was last played, the entries that the `map` commands of
  the buffer come from, and the index are one line (`InOrder`): each place is `NextMap` of
  the one before, but for commands from no entry, and so is the map that the index comes to
  next. `RunMap` takes the first place of the line (`OrderlyBehindFirst`), `ApplyDedicated`
  adds one at its end (`OrderlyWithNext`), since the calls of `get_next_entry` from an index
  come to `NextMap` of it (`ComesToNextMap`).
* `GametypeIsRight` (`GametypeOfMap`). `g_gametype` is what the next entry would be played
  with, and also what every command that none has overtaken needs (`Gametypes`);
  `GametypeWalk` shows that `apply_rotation` keeps this, round the end of the rotation or not.

### Liveness

Two things that a liveness proof needs are out of these provers' reach. They do not look
into `ENABLED`, and they have no induction for temporal formulas. Where a theorem depends on
one of them, its statement says so in a hypothesis of its own, and none of these hypotheses
says anything of the program:

* `[]StepsCanRun` (in `VoiceProofs.tla`, `[]SendCanRun`): where the guard of a fair step is
  true, the step is enabled. Its right side is `ENABLED` of the model's own action, its left
  side what the proof shows of the state. TLC finds it true in all states of the instance
  of the run.
* `WalkInduction`, `TickInduction`, `FrameInduction`, `RetryInduction`, `JobInduction`: the
  rule of induction for `~>`, for one measure each. If from every value of the measure a
  smaller one or the end follows, then from some value of it the end follows. Since each
  measure is well-founded (a natural number, a pair of them, or a finite set that shrinks),
  every behaviour satisfies the rule. What the rule asks for is proved, in `PassDescends`,
  `TickDescends`, `FrameDescends`, `WaitingDescends` and `JobDescends`.
* `[]Fairness` beside `FairSpec`, in `EachIsCalled` and `ReadyComes`: fairness of a behaviour
  is fairness of each of its suffixes, but the provers do not see it under a quantifier.

What is proved with them:

* `AnswerIsSent` (`AnswerComes`) needs `[]StepsCanRun` only: the handler of `rcon` goes from
  step to step, and other threads that print can neither stop it nor take its answer.
* `QueueLeaves` (`QueueIsSent`) needs `[]SendCanRun` only: talkers may make the queue longer,
  but a message either takes it whole or finds it longer than a message for good.
* `DestroyIsOver` (`DestroyEnds`): every walk ends (`WalksEnd`), a thread that `pre_destroy`
  waits for sees `kill` when its walk is over, and no handler can lead it back into one
  (`DestroyFromPasses`). `LiveInv` adds to `IInv` that the iterator stays within the list.
* `EachIsCalled` (`EventuallyCalled`): from the hand of the caller to the new list, by the
  merge to the list, and there, once due, to the next walk, which cannot pass it without
  calling it (`CallFromPasses`). `WaitInv` adds that a running task counts as called
  (`RunningRan`), that only `kill` makes a thread exit (`ExitedByKill`), and that a poll
  about to end has handed its callback over (`Handed`).
* `ReadyComes` (`ReadyIsTold`): the poll is called until it finds the game ready and
  schedules the callback, which then is called as any task is (`ReadyFromPasses`).
* `ShutdownIsOver` (`ShutdownEnds`): the thread leaves its loop at the first turn that sees
  `exit_server`, since by `EndInv` nothing takes it back once the thread has begun
  (`ShutdownFromFrames`). `FrameDescends` measures a frame by the servers left and the
  packets left of the one at hand, to which nobody adds while the main thread waits in
  `join`.
* `EachJoins` (`WaitingJoins`): other attempts may wait in the same list and be taken first.
  The measure is a bound on where the retries for the server stand (`Within`): each turn of
  one puts a reset in its place, at the end of the list, and a reset joins; while the flags
  are 0 or 32 no step adds a retry.
* `EachJobEnds` (`JobIsOver`): whether the job has its list, the elements still to launch, and
  within one number of them the steps that the threads have left (`StepsLeft`), a finite set
  since a job has finitely many threads. A fetching thread may wait for the lock that another
  holds; the fair step is that of a thread which can move, or the network thread's when all
  are through.

TLC evaluated the hypotheses about states on `MCRcon` (266 656 states), `MCVoice` (213 116),
`MCSchedulerLive` (59 640), `MCDemonware` (532 888), `MCConnect` (110 538) and `MCServerList`
(197 852). They are no part of the runs, because the provers' modules are not extended by the
instances.

Only model-checked: `LoadingIsOver` of the browser, `ReconnectEnds` of connecting, and
`MapComes` of the dedicated server. Their ends lie at the bottom of several measures at once
(tasks of three kinds that schedule each other, insertions and the user's actions; attempts,
their answers and tasks that go round between two lists; startup commands before the one that
loads the map), and a descent theorem for each would be longer than the component.

## What is not modelled, and why

* Scheduler: an exception that leaves a handler (it ends the process); a handler that
  calls `execute` again; `pre_destroy` called from a handler of a thread that it joins; the
  length of the sleeps. Tasks with *equal delays* have no guaranteed order, because each
  comparison reads the clock anew: `NoDelayNoOvertaking` is about tasks without a delay.
* Server list: the comparison of a sort (a sorted list keeps its order in the model), pop-ups,
  display text, a file of favourites that is no array. Vectors that are copied without their
  lock are copied in one step. `DisplayIsPage` is stated for histories in which the user waits
  until his last action is shown (`overlapped`), `NoneLost` for those in which the lists were
  not emptied with a job scheduled or running and no favourite was deleted (`crossed`),
  `PageIsThere` for those in which he does not open a page while
  another is loading (`twice`); the code guarantees no more.
* Connect: the fields of `/getInfo` (a check passes or fails), hashes, the mod and user map
  that the game loads; malformed JSON (the exception ends the process); `start_map`, kicks
  and chat commands. `JoinIsLatest` is stated for histories in which no attempt begins
  while another waits for the online data (`crossed`): the code lets both join, in any
  order. `WaitingJoins` and `ReconnectEnds` leave out the virtual lobby, in which the
  command `disconnect` does nothing.
* Remote console: `status` and its text, `login` and `logout` of a client, the editing of
  the console's line, the comparison of addresses, raw handlers. A command is what it
  prints.
* Voice: muting and the marks of who is talking on the client, which only its display
  reads.
* Demonware: names and addresses, `select`, sockets in blocking mode, the answers of the
  services, the auth and umbrella servers (stream servers of one message each, of which
  the lobby is the harder case).
* Dedicated server: the heartbeat, `kill_server`, the queue of console commands (its hook
  is commented out in `dedicated.cpp`), the frame limit and the patches.
* HTTP: `GET_url` is one blocking step of its callers, which see only whether it has
  answered. Its attempts are bounded by a loop over a counter.
* Downloads: `download_files_tcp` is always called with `allow_download` false at this
  commit, so that `download.cpp` is never reached.
* The parts marked `not_modelled` in `PROJECT.json`, each with its reason there.

How much of the source that is. A large part of `src/src` declares data of the closed game
(`game/database.hpp`, `game/structs.hpp`, symbols), or hooks and patches it at fixed
addresses (`component/patches.cpp`, `fastfiles.cpp`, `renderer.cpp`, `gui/*`), one change of
the binary's own code after the other. Their state and their callers are in the binary and not
in the repository; a model of them would be a guess. What is modelled is the code that has
state, steps and order of its own, which is a small share of the lines.

## What is left

1. The browser: how far pages with holes, which filters leave, can be reached, and the feeder.
2. `start_map` and hosting in `party.cpp`; the composition of `Connect` with the scheduler's
   pipelines, so that the order of equal delays is the scheduler's.
3. `Downloads`, once something reaches it: start, abort, and the window before `active` is
   set.
4. Demonware's `select` and sockets in blocking mode.
5. Descent theorems for `LoadingIsOver`, `ReconnectEnds` and `MapComes`.

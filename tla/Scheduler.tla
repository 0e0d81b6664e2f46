----------------------------- MODULE Scheduler ------------------------------
(***************************************************************************)
(* component/scheduler.cpp: six pipelines of callbacks.  Any thread hands  *)
(* a callback to a pipeline (schedule, once, loop, on_game_initialized);   *)
(* async and network are drained by threads of their own, the others by    *)
(* hooks in the game's frame functions.  A drain ("pass") first moves the  *)
(* callbacks added since the last one to the end of the pipeline's list,   *)
(* then walks the list once, calling the handlers whose interval is over   *)
(* and erasing those that return cond_end.                                 *)
(*                                                                         *)
(* Time is counted in ticks.  The code compares now - last_call with the   *)
(* interval and uses the clock for nothing else, so a task carries the     *)
(* ticks since last_call, capped at its interval.                          *)
(***************************************************************************)
EXTENDS Integers, Sequences, SequencesExt

AllPipelines == {"async", "network", "renderer", "server", "main", "lui"}

CONSTANTS
  Pipeline,  \* the pipelines of the instance
  Task,      \* the callbacks components hand to the scheduler
  Kind,      \* Kind[t]: "once", "loop", "schedule" or "init"
  Target,    \* Target[t]: the pipeline t is scheduled on
  Interval,  \* Interval[t]: its delay in ticks
  Callback,  \* Callback[t]: what an "init" task schedules when it is ready
  Outside,   \* threads that call schedule from outside any handler
  None       \* no task

InitTask == {t \in Task : Kind[t] = "init"}

\* The callback of an on_game_initialized lives in that task's closure alone.
Enclosed == {Callback[t] : t \in InitTask}

Caller == Pipeline \union Outside

Thread == Pipeline \intersect {"async", "network"}

\* The pipelines drained by frames that the game does not run all the time:
\* R_EndFrame ends a frame that is rendered, G_RunFrame is one of a running
\* server, and the frame of lui counts only while there is a Lua state.
Intermittent == Pipeline \intersect {"renderer", "server", "lui"}

ASSUME PipelineAssumption == Pipeline \subseteq AllPipelines
ASSUME OutsideAssumption == Outside \intersect AllPipelines = {}
ASSUME NoneAssumption == None \notin Task
ASSUME TaskAssumption ==
  /\ Kind \in [Task -> {"once", "loop", "schedule", "init"}]
  /\ Target \in [Task -> Pipeline]
  /\ Interval \in [Task -> Nat]
  /\ Callback \in [Task -> Task]
ASSUME InitTaskAssumption ==
  /\ \A t \in InitTask : Target[t] = "main" /\ Interval[t] = 0
  /\ \A t \in Enclosed : Kind[t] = "once"
  /\ \A t, u \in InitTask : Callback[t] = Callback[u] => t = u

VARIABLES
  fresh,    \* fresh[p]: new_callbacks_ of p
  queue,    \* queue[p]: callbacks_ of p
  waited,   \* waited[t]: time since last_call, capped at the interval
  pending,  \* pending[c]: the task c has stamped and not yet added
  pc,       \* pc[p]: where the drain of p is
  idx,      \* idx[p]: the iterator into queue[p]
  ret,      \* ret[p]: what the handler p is inside of will return
  life,     \* which callbacks of the component have run
  kill,     \* the flag the two threads poll
  dst,      \* where pre_destroy is
  online,   \* Live_SyncOnlineDataFlags(0) == 0 && Sys_IsDatabaseReady2()
  frames,   \* the intermittent pipelines whose frames the game runs now
  visited,  \* history: tasks the current pass of p has looked at
  ran       \* history: ran[t] iff t was called since it was scheduled

lists == <<fresh, queue>>
clocks == <<waited, ran>>
drain == <<pc, idx, ret, visited>>
component == <<life, kill, dst>>
game == <<online, frames>>
vars == <<lists, clocks, pending, drain, component, game>>

Running(p) == queue[p][idx[p]]

Armed(t) ==
  \/ \E c \in Caller : pending[c] = t
  \/ \E p \in Pipeline : t \in ToSet(fresh[p]) \/ t \in ToSet(queue[p])

Init ==
  /\ fresh = [p \in Pipeline |-> <<>>]
  /\ queue = [p \in Pipeline |-> <<>>]
  /\ waited = [t \in Task |-> 0]
  /\ pending = [c \in Caller |-> None]
  /\ pc = [p \in Pipeline |-> "idle"]
  /\ idx = [p \in Pipeline |-> 1]
  /\ ret = [p \in Pipeline |-> "continue"]
  /\ life = "new"
  /\ kill = FALSE
  /\ dst = "alive"
  /\ online = FALSE
  /\ frames = {}
  /\ visited = [p \in Pipeline |-> {}]
  /\ ran = [t \in Task |-> FALSE]

-----------------------------------------------------------------------------
(* Handing a task to a pipeline.                                           *)

\* c builds the task of t in schedule(), with last_call w ticks ago ...
StampAt(c, t, w) ==
  /\ pending[c] = None
  /\ ~Armed(t)
  /\ pending' = [pending EXCEPT ![c] = t]
  /\ waited' = [waited EXCEPT ![t] = w]
  /\ ran' = [ran EXCEPT ![t] = FALSE]

\* Mutant: last_call is left as it was.
StampWithoutClock(c, t) == StampAt(c, t, waited[t])

\* ... that is, now.
Stamp(c, t) == StampAt(c, t, 0)

\* A thread outside the pipelines, or a handler in its body, calls schedule,
\* once, loop or on_game_initialized.
Schedule(c, t) ==
  /\ \/ c \in Outside
     \/ c \in Pipeline /\ pc[c] = "run" /\ Kind[Running(c)] # "init"
  /\ t \notin Enclosed
  /\ t \in InitTask => ~Armed(Callback[t])
  /\ Stamp(c, t)
  /\ UNCHANGED <<lists, drain, component, game>>

\* The handler of on_game_initialized has found the game ready: it calls
\* once(callback, type, delay) and will return r.
ScheduleCallbackAnd(p, r) ==
  /\ pc[p] = "run" /\ ret[p] = "register"
  /\ Stamp(p, Callback[Running(p)])
  /\ ret' = [ret EXCEPT ![p] = r]
  /\ UNCHANGED <<lists, pc, idx, visited, component, game>>

\* Mutant: the poll goes on after it has handed its callback over.
ScheduleCallbackGoesOn(p) == ScheduleCallbackAnd(p, "continue")

ScheduleCallback(p) == ScheduleCallbackAnd(p, "end")

\* add() appends the task under the lock of new_callbacks_.
Add(c) ==
  /\ pending[c] # None
  /\ fresh' = [fresh EXCEPT ![Target[pending[c]]] = Append(@, pending[c])]
  /\ pending' = [pending EXCEPT ![c] = None]
  /\ UNCHANGED <<queue, clocks, drain, component, game>>

-----------------------------------------------------------------------------
(* Draining a pipeline.                                                    *)

\* A thread, unless told to stop, calls execute; a frame hook calls it every
\* frame that the game runs.
EnterUnless(p, stop) ==
  /\ pc[p] = "idle"
  /\ IF p \in Thread THEN life # "new" /\ ~stop ELSE life = "hooked"
  /\ p \in Intermittent => p \in frames
  /\ pc' = [pc EXCEPT ![p] = "entered"]
  /\ UNCHANGED <<lists, clocks, pending, idx, ret, visited, component, game>>

\* Mutant: the threads do not look at kill.
EnterIgnoringKill(p) == EnterUnless(p, FALSE)

Enter(p) == EnterUnless(p, kill)

\* merge_callbacks leaves callbacks_ with one list and new_callbacks_ with
\* another; then i = tasks.begin().
MergeTo(p, merged, new) ==
  /\ pc[p] = "entered"
  /\ queue' = [queue EXCEPT ![p] = merged]
  /\ fresh' = [fresh EXCEPT ![p] = new]
  /\ pc' = [pc EXCEPT ![p] = "scan"]
  /\ UNCHANGED <<clocks, pending, idx, ret, visited, component, game>>

\* Mutants: new_callbacks_ is not emptied; the new tasks go to the front;
\* the new tasks replace the list.
MergeWithoutClear(p) == MergeTo(p, queue[p] \o fresh[p], fresh[p])
MergeInFront(p) == MergeTo(p, fresh[p] \o queue[p], <<>>)
MergeOverwriting(p) == MergeTo(p, fresh[p], <<>>)

Merge(p) == MergeTo(p, queue[p] \o fresh[p], <<>>)

AtTask(p) == pc[p] = "scan" /\ idx[p] <= Len(queue[p])

Due(t) == waited[t] >= Interval[t]

Visit(p) == visited' = [visited EXCEPT ![p] = @ \union {Running(p)}]

\* The interval is not over: ++i.
Skip(p) ==
  /\ AtTask(p) /\ ~Due(Running(p))
  /\ idx' = [idx EXCEPT ![p] = @ + 1]
  /\ Visit(p)
  /\ UNCHANGED <<lists, clocks, pending, pc, ret, component, game>>

\* What the handler of t may decide to return, by the kind of the callback;
\* a poll for the game returns idle while the game is not ready.
OutcomesOr(t, idle) ==
  CASE Kind[t] = "once" -> {"end"}
    [] Kind[t] = "loop" -> {"continue"}
    [] Kind[t] = "init" -> {IF online THEN "register" ELSE idle}
    [] OTHER -> {"end", "continue"}

\* Mutant: on_game_initialized gives up when the game is not ready.
OutcomesGivingUp(t) == OutcomesOr(t, "end")

Outcomes(t) == OutcomesOr(t, "continue")

\* i->last_call = now, and the handler is called on the list tasks.
StartOn(p, tasks) ==
  /\ AtTask(p) /\ Due(Running(p))
  /\ waited' = [waited EXCEPT ![Running(p)] = 0]
  /\ ran' = [ran EXCEPT ![Running(p)] = TRUE]
  /\ pc' = [pc EXCEPT ![p] = "run"]
  /\ \E r \in Outcomes(Running(p)) : ret' = [ret EXCEPT ![p] = r]
  /\ Visit(p)
  /\ queue' = [queue EXCEPT ![p] = tasks]
  /\ UNCHANGED <<fresh, pending, idx, component, game>>

\* Mutant: a task of once is erased before its handler is called.
StartErasing(p) ==
  StartOn(p, IF Kind[Running(p)] = "once" THEN RemoveAt(queue[p], idx[p])
             ELSE queue[p])

Start(p) == StartOn(p, queue[p])

\* The handler returns: the list becomes tasks and the iterator i.
FinishWith(p, tasks, i) ==
  /\ pc[p] = "run" /\ pending[p] = None /\ ret[p] # "register"
  /\ queue' = [queue EXCEPT ![p] = tasks]
  /\ idx' = [idx EXCEPT ![p] = i]
  /\ ret' = [ret EXCEPT ![p] = "continue"]
  /\ pc' = [pc EXCEPT ![p] = "scan"]
  /\ UNCHANGED <<fresh, clocks, pending, visited, component, game>>

Remaining(p) ==
  IF ret[p] = "end" THEN RemoveAt(queue[p], idx[p]) ELSE queue[p]

\* Mutants: the iterator steps on after an erase, too; the result of the
\* handler is ignored.
FinishAlwaysStepping(p) == FinishWith(p, Remaining(p), idx[p] + 1)
FinishNeverErasing(p) == FinishWith(p, queue[p], idx[p] + 1)

\* erase the task or step over it.
Finish(p) ==
  FinishWith(p, Remaining(p), IF ret[p] = "end" THEN idx[p] ELSE idx[p] + 1)

\* i == tasks.end(): execute returns, its locals are gone; a thread sleeps.
Leave(p) ==
  /\ pc[p] = "scan" /\ idx[p] > Len(queue[p])
  /\ pc' = [pc EXCEPT ![p] = "idle"]
  /\ idx' = [idx EXCEPT ![p] = 1]
  /\ visited' = [visited EXCEPT ![p] = {}]
  /\ UNCHANGED <<lists, clocks, pending, ret, component, game>>

-----------------------------------------------------------------------------
(* The component's life, and the world around it.                          *)

\* The two threads are created; later the frame functions are hooked.
PostStart ==
  /\ life = "new" /\ dst = "alive" /\ life' = "started"
  /\ UNCHANGED <<lists, clocks, pending, drain, kill, dst, game>>

PostUnpack ==
  /\ life = "started" /\ dst = "alive" /\ life' = "hooked"
  /\ UNCHANGED <<lists, clocks, pending, drain, kill, dst, game>>

PreDestroy ==
  /\ dst = "alive" /\ dst' = "join_async" /\ kill' = TRUE
  /\ UNCHANGED <<lists, clocks, pending, drain, life, game>>

\* The thread of p sees kill and ends.
Exit(p) ==
  /\ p \in Thread /\ pc[p] = "idle" /\ kill /\ life # "new"
  /\ pc' = [pc EXCEPT ![p] = "exited"]
  /\ UNCHANGED <<lists, clocks, pending, idx, ret, visited, component, game>>

\* Mutant: the threads are detached.
JoinedDetached(p) == p \in {"async", "network"}

\* if (thread.joinable()) thread.join();
Joined(p) == p \in Thread /\ life # "new" => pc[p] = "exited"

JoinAsync ==
  /\ dst = "join_async" /\ Joined("async") /\ dst' = "join_network"
  /\ UNCHANGED <<lists, clocks, pending, drain, life, kill, game>>

JoinNetwork ==
  /\ dst = "join_network" /\ Joined("network") /\ dst' = "done"
  /\ UNCHANGED <<lists, clocks, pending, drain, life, kill, game>>

Tick ==
  /\ \E t \in Task : waited[t] < Interval[t]
  /\ waited' = [t \in Task |-> IF waited[t] < Interval[t]
                               THEN waited[t] + 1 ELSE waited[t]]
  /\ UNCHANGED <<lists, ran, pending, drain, component, game>>

\* The game signs in or out; a server or a Lua state comes or goes, frames are
\* rendered or not.
GameChanges ==
  /\ \/ online' = ~online /\ frames' = frames
     \/ /\ online' = online
        /\ \E p \in Intermittent :
             frames' = IF p \in frames THEN frames \ {p} ELSE frames \union {p}
  /\ UNCHANGED <<lists, clocks, pending, drain, component>>

-----------------------------------------------------------------------------

Drain(p) ==
  \/ Enter(p) \/ Merge(p) \/ Skip(p) \/ Start(p) \/ ScheduleCallback(p)
  \/ Finish(p) \/ Leave(p) \/ Exit(p)

Destroy == PreDestroy \/ JoinAsync \/ JoinNetwork

Next ==
  \/ \E c \in Caller : Add(c) \/ \E t \in Task : Schedule(c, t)
  \/ \E p \in Pipeline : Drain(p)
  \/ PostStart \/ PostUnpack \/ Destroy
  \/ Tick \/ GameChanges

(***************************************************************************)
(* The threads loop until kill, the game runs its main frames for as long  *)
(* as the process lives, time passes, and a thread that has stamped a task *)
(* goes on to add it.  A handler returns although it calls schedule on its *)
(* way (while it is inside schedule it cannot: strong fairness).  Nobody   *)
(* need ever call schedule, the game need never be ready, and it need not  *)
(* run the frames of an intermittent pipeline; as it runs them in turns of *)
(* its own, the fairness of those is strong.                               *)
(***************************************************************************)
DrainsFairly(p) == WF_vars(Drain(p)) /\ SF_vars(Finish(p))
EntersFairly(p) == SF_vars(Enter(p))
AddsFairly(c) == WF_vars(Add(c))
StartsFairly == WF_vars(PostStart \/ PostUnpack)
JoinsFairly == WF_vars(JoinAsync \/ JoinNetwork)
TicksFairly == WF_vars(Tick)

Fairness ==
  /\ \A p \in Pipeline : DrainsFairly(p)
  /\ \A p \in Intermittent : EntersFairly(p)
  /\ \A c \in Caller : AddsFairly(c)
  /\ StartsFairly /\ JoinsFairly /\ TicksFairly

Spec == Init /\ [][Next]_vars

FairSpec == Spec /\ Fairness

-----------------------------------------------------------------------------
(* Properties.                                                             *)

TypeOK ==
  /\ fresh \in [Pipeline -> Seq(Task)]
  /\ queue \in [Pipeline -> Seq(Task)]
  /\ waited \in [Task -> Nat]
  /\ pending \in [Caller -> Task \union {None}]
  /\ pc \in [Pipeline -> {"idle", "entered", "scan", "run", "exited"}]
  /\ idx \in [Pipeline -> Nat \ {0}]
  /\ \A p \in Pipeline : pc[p] = "run" => idx[p] \in DOMAIN queue[p]
  /\ ret \in [Pipeline -> {"continue", "end", "register"}]
  /\ life \in {"new", "started", "hooked"}
  /\ kill \in BOOLEAN
  /\ dst \in {"alive", "join_async", "join_network", "done"}
  /\ online \in BOOLEAN /\ frames \subseteq Intermittent
  /\ visited \in [Pipeline -> SUBSET Task]
  /\ ran \in [Task -> BOOLEAN]

\* The list of p as a drain would find it if it merged now.
Line(p) == queue[p] \o fresh[p]

\* A task that is scheduled once is in one place: its caller's hands, or one
\* slot of one of the two lists of the pipeline it was scheduled on.  The
\* hand-over of merge_callbacks neither copies nor drops (scheduler.cpp:72).
OnePlace ==
  /\ \A c, d \in Caller : pending[c] = pending[d] => c = d \/ pending[c] = None
  /\ \A p \in Pipeline :
       /\ \A i \in DOMAIN Line(p) :
            /\ Target[Line(p)[i]] = p
            /\ \A c \in Caller : pending[c] # Line(p)[i]
       /\ \A i, j \in DOMAIN Line(p) : Line(p)[i] = Line(p)[j] => i = j

\* The walk looks at every task of the list once: none is jumped over when
\* another is erased under the iterator, none is called twice in one pass
\* (scheduler.cpp:42).
PassIsExact ==
  \A p \in Pipeline : pc[p] \in {"scan", "run"} =>
    \A i \in DOMAIN queue[p] :
      queue[p][i] \in visited[p] <=> i < idx[p] \/ (i = idx[p] /\ pc[p] = "run")

\* A callback given to once, or by on_game_initialized, is called one time:
\* from its call on it is nowhere but under the iterator that is calling it,
\* although its handler may itself schedule and other threads add meanwhile.
CalledOnce ==
  \A t \in Task : Kind[t] = "once" /\ ran[t] /\ Armed(t) =>
    /\ pc[Target[t]] = "run" /\ Running(Target[t]) = t
    /\ t \notin ToSet(fresh[Target[t]]) /\ \A c \in Caller : pending[c] # t

\* Tasks without a delay keep their order: whatever stands behind one of
\* them in its pipeline is called for the first time only after it was.
\* (Not so for equal delays: each comparison reads the clock anew.)
NoDelayNoOvertaking ==
  \A p \in Pipeline : \A i, j \in DOMAIN Line(p) :
    i < j /\ Interval[Line(p)[i]] = 0 /\ ran[Line(p)[j]] => ran[Line(p)[i]]

\* on_game_initialized hands its callback over once: poll and callback are
\* both scheduled only while the poll is returning (scheduler.cpp:166).
RegisteredOnce ==
  \A t \in InitTask : Armed(t) /\ Armed(Callback[t]) =>
    pc["main"] = "run" /\ Running("main") = t /\ ret["main"] = "end"

\* When pre_destroy has returned no handler of async or network is running,
\* and none can start (scheduler.cpp:226).
QuietAfterDestroy ==
  dst = "done" => \A p \in Thread : pc[p] = "exited" \/ life = "new"

\* The queues implement the promise of TimerService.
Timer == INSTANCE TimerService WITH
  armed <- {t \in Task : Armed(t)},
  running <- [p \in Pipeline |-> IF pc[p] = "run" THEN Running(p) ELSE None]

ImplementsTimer == Timer!Spec

\* The client is shutting down and the pipeline of t is drained no more.
Abandoned(t) == kill /\ (Target[t] \in Thread \/ life # "hooked")

\* The frames that drain the pipeline of t are run no more.
Starved(t) == Target[t] \in Intermittent /\ [](Target[t] \notin frames)

\* t is called in the end, or its pipeline is drained no more.
IsCalled(t) == Armed(t) ~> ran[t] \/ Abandoned(t) \/ Starved(t)

\* A scheduled task is called in the end, whatever is scheduled around it,
\* unless its pipeline is abandoned by a shutdown, or is drained by frames that
\* the game has stopped for good: no server, no Lua state, nothing rendered.
EventuallyCalled == \A t \in Task : IsCalled(t)

\* The callback that the poll t keeps is called in the end, or nobody can.
IsTold(t) ==
  Armed(t) ~> \/ ran[Callback[t]]
              \/ Abandoned(t) \/ Abandoned(Callback[t]) \/ Starved(Callback[t])
              \/ []<>(~online)

\* A callback waiting for the game is called if the game stays ready.
ReadyIsTold == \A t \in InitTask : IsTold(t)

\* pre_destroy always returns.
DestroyEnds == dst # "alive" ~> dst = "done"
=============================================================================

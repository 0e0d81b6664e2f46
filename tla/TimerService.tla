---------------------------- MODULE TimerService ----------------------------
(***************************************************************************)
(* What the scheduler promises the rest of the client, without its queues: *)
(* a callback that is armed fires on its pipeline, one callback of a       *)
(* pipeline at a time, never sooner than its interval after it was armed   *)
(* or last fired, and it is dropped only by its own handler returning      *)
(* cond_end.  Scheduler.tla is shown to implement this specification.      *)
(***************************************************************************)
EXTENDS Integers

CONSTANTS
  Pipeline,  \* the pipelines of the instance
  Task,      \* callbacks that components hand to the scheduler
  Target,    \* Target[t]: the pipeline t is scheduled on
  Interval,  \* Interval[t]: its delay, in ticks
  None       \* no callback

VARIABLES
  armed,     \* the callbacks scheduled and not yet ended
  waited,    \* waited[t]: ticks since t was armed or last fired, capped
  running    \* running[p]: the callback p is inside of, or None

vars == <<armed, waited, running>>

Init ==
  /\ armed = {}
  /\ waited = [t \in Task |-> 0]
  /\ running = [p \in Pipeline |-> None]

\* scheduler::schedule, once, loop or on_game_initialized is called with t.
Arm(t) ==
  /\ t \notin armed
  /\ armed' = armed \union {t}
  /\ waited' = [waited EXCEPT ![t] = 0]
  /\ UNCHANGED running

\* The handler of t is called on its pipeline.
Fire(t) ==
  /\ t \in armed
  /\ waited[t] = Interval[t]
  /\ running[Target[t]] = None
  /\ running' = [running EXCEPT ![Target[t]] = t]
  /\ waited' = [waited EXCEPT ![t] = 0]
  /\ UNCHANGED armed

\* The handler that p is inside of returns; it may have asked to be dropped.
Return(p) ==
  /\ running[p] # None
  /\ running' = [running EXCEPT ![p] = None]
  /\ armed' \in {armed, armed \ {running[p]}}
  /\ UNCHANGED waited

\* A unit of time passes.
Tick ==
  /\ waited' = [t \in Task |-> IF waited[t] < Interval[t]
                               THEN waited[t] + 1 ELSE waited[t]]
  /\ UNCHANGED <<armed, running>>

Next ==
  \/ \E t \in Task : Arm(t) \/ Fire(t)
  \/ \E p \in Pipeline : Return(p)
  \/ Tick

Spec == Init /\ [][Next]_vars
=============================================================================

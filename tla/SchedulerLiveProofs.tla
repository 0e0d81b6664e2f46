------------------------ MODULE SchedulerLiveProofs -------------------------
(***************************************************************************)
(* What is proved of the scheduler's liveness, for all sets of pipelines   *)
(* and tasks: pre_destroy ends, what is scheduled is called, and who waits *)
(* for the game is told.                                                   *)
(*                                                                         *)
(* The provers do not look into ENABLED: that the guard of a step is all   *)
(* that it needs is taken as a hypothesis, StepsCanRun, which TLC finds    *)
(* true in all states of MCSchedulerLive.  Nor do they have induction over *)
(* the natural numbers for temporal formulas.  What is to be shown of one  *)
(* step of such an induction is proved (PassDescends, TickDescends); the   *)
(* rule itself, for each measure, is a hypothesis (WalkInduction,          *)
(* TickInduction) that every behaviour satisfies.                          *)
(***************************************************************************)
EXTENDS SchedulerProofs

\* Where the guard of a fair step is true, the step can be taken.
DrainCanRun(p) ==
  /\ pc[p] \in {"entered", "scan"} => ENABLED <<Drain(p)>>_vars
  /\ pc[p] = "idle" /\ p \in Thread /\ kill /\ life # "new" => ENABLED <<Drain(p)>>_vars
  /\ /\ pc[p] = "idle" /\ (p \in Intermittent => p \in frames)
     /\ IF p \in Thread THEN life # "new" /\ ~kill ELSE life = "hooked"
     => ENABLED <<Drain(p)>>_vars /\ ENABLED <<Enter(p)>>_vars
  /\ /\ pc[p] = "run" /\ ret[p] = "register" /\ pending[p] = None
     /\ ~Armed(Callback[Running(p)])
     => ENABLED <<Drain(p)>>_vars
  /\ pc[p] = "run" /\ ret[p] # "register" /\ pending[p] = None => ENABLED <<Finish(p)>>_vars
AddCanRun(c) == pending[c] # None => ENABLED <<Add(c)>>_vars
JoinCanRun ==
  \/ dst = "join_async" /\ Joined("async")
  \/ dst = "join_network" /\ Joined("network")
  => ENABLED <<JoinAsync \/ JoinNetwork>>_vars
StartCanRun == life # "hooked" /\ dst = "alive" => ENABLED <<PostStart \/ PostUnpack>>_vars
TickCanRun == (\E t \in Task : waited[t] < Interval[t]) => ENABLED <<Tick>>_vars
StepsCanRun ==
  /\ \A p \in Pipeline : DrainCanRun(p)
  /\ \A c \in Caller : AddCanRun(c)
  /\ JoinCanRun /\ StartCanRun /\ TickCanRun

-----------------------------------------------------------------------------
(* The steps of a walk.                                                    *)

\* The tasks that a walk has still to look at, the one it is at included.
Left(p) == Len(queue[p]) + 1 - idx[p]

\* The iterator stays within the list.
InList == \A p \in Pipeline : pc[p] \in {"scan", "run"} => Left(p) \in Nat

LiveInv == IInv /\ InList

\* Only the drain of a pipeline moves in it.
LEMMA DrainAlone ==
  ASSUME TypeOK, [Next]_vars, NEW p \in Pipeline
  PROVE  \/ Drain(p)
         \/ /\ queue'[p] = queue[p] /\ idx'[p] = idx[p]
            /\ pc'[p] = pc[p] /\ ret'[p] = ret[p]
  <1> USE DEF lists, drain
  <1>1. ASSUME NEW q \in Pipeline,
               \/ Enter(q) \/ Merge(q) \/ Skip(q) \/ Start(q)
               \/ ScheduleCallback(q) \/ Finish(q) \/ Leave(q) \/ Exit(q)
        PROVE  \/ Drain(p)
               \/ /\ queue'[p] = queue[p] /\ idx'[p] = idx[p]
                  /\ pc'[p] = pc[p] /\ ret'[p] = ret[p]
    BY <1>1, DrainSteps DEF Drain
  <1>2. ASSUME NEW c \in Caller, Add(c) \/ \E t \in Task : Schedule(c, t)
        PROVE  queue' = queue /\ idx' = idx /\ pc' = pc /\ ret' = ret
    BY <1>2 DEF Add, Schedule
  <1>3. CASE \/ PostStart \/ PostUnpack \/ PreDestroy \/ JoinAsync \/ JoinNetwork
             \/ Tick \/ GameChanges \/ UNCHANGED vars
    BY <1>3 DEF PostStart, PostUnpack, PreDestroy, JoinAsync, JoinNetwork, Tick,
                GameChanges, vars
  <1>4. QED
    BY <1>1, <1>2, <1>3, NextCases

\* What a step of the drain does to the walk.
LEMMA DrainMoves ==
  ASSUME IInv, NEW p \in Pipeline, Drain(p)
  PROVE  /\ pc[p] = "idle" => pc'[p] \in {"entered", "exited"}
         /\ pc[p] = "entered" => pc'[p] = "scan" /\ Left(p)' \in Nat
         /\ pc[p] = "scan" => \/ pc'[p] = "idle"
                              \/ pc'[p] = "run" /\ Left(p)' = Left(p)
                              \/ /\ pc'[p] = "scan" /\ Left(p)' = Left(p) - 1
                                 /\ idx[p] <= Len(queue[p])
         /\ pc[p] = "run" =>
              /\ pending[p] = None
              /\ \/ /\ ret[p] = "register" /\ ret'[p] # "register"
                    /\ pc'[p] = "run" /\ Left(p)' = Left(p)
                 \/ /\ Finish(p) /\ ret[p] # "register"
                    /\ pc'[p] = "scan" /\ Left(p)' = Left(p) - 1
         /\ pc[p] # "exited"
  <1> USE DEF lists, drain
  <1>t. TypeOK /\ BetweenPasses
    BY DEF IInv, PassInv
  <1>n. idx[p] \in Nat /\ Len(queue[p]) \in Nat /\ queue[p] \in Seq(Task)
    BY <1>t DEF TypeOK
  <1>1. CASE Enter(p)
    BY <1>t, <1>1 DEF Enter, EnterUnless, TypeOK
  <1>2. CASE Merge(p)
    <2>1. /\ pc[p] = "entered" /\ pc'[p] = "scan" /\ idx' = idx
          /\ queue'[p] = queue[p] \o fresh[p]
      BY <1>t, <1>2 DEF Merge, MergeTo, TypeOK
    <2>i. idx[p] = 1
      BY <1>t, <2>1 DEF BetweenPasses
    <2>2. Len(queue'[p]) \in Nat
      BY <1>t, <2>1, ConcatFacts DEF TypeOK
    <2>3. idx'[p] = 1
      BY <2>1, <2>i
    <2>4. Left(p)' \in Nat
      BY <2>2, <2>3 DEF Left
    <2>5. QED
      BY <2>1, <2>4
  <1>3. CASE Skip(p)
    <2>1. /\ pc[p] = "scan" /\ pc' = pc /\ queue' = queue /\ idx'[p] = idx[p] + 1
          /\ idx[p] <= Len(queue[p])
      BY <1>t, <1>3 DEF Skip, AtTask, TypeOK
    <2>2. Left(p)' = Left(p) - 1
      BY <1>n, <2>1 DEF Left
    <2>3. QED
      BY <2>1, <2>2
  <1>4. CASE Start(p)
    <2>1. pc[p] = "scan" /\ pc'[p] = "run" /\ queue'[p] = queue[p] /\ idx' = idx
      BY <1>t, <1>4 DEF Start, StartOn, AtTask, TypeOK
    <2>2. Left(p)' = Left(p)
      BY <2>1 DEF Left
    <2>3. QED
      BY <2>1, <2>2
  <1>5. CASE ScheduleCallback(p)
    <2>1. /\ pc[p] = "run" /\ pc' = pc /\ queue' = queue /\ idx' = idx
          /\ ret[p] = "register" /\ ret'[p] = "end" /\ pending[p] = None
      BY <1>t, <1>5 DEF ScheduleCallback, ScheduleCallbackAnd, Stamp, StampAt, TypeOK
    <2>2. Left(p)' = Left(p)
      BY <2>1 DEF Left
    <2>3. QED
      BY <2>1, <2>2
  <1>6. CASE Finish(p)
    <2>1. /\ pc[p] = "run" /\ pc'[p] = "scan" /\ pending[p] = None
          /\ ret[p] # "register"
          /\ queue'[p] = Remaining(p)
          /\ idx'[p] = IF ret[p] = "end" THEN idx[p] ELSE idx[p] + 1
      BY <1>t, <1>6 DEF Finish, FinishWith, TypeOK
    <2>2. idx[p] \in DOMAIN queue[p]
      BY <1>t, <2>1 DEF TypeOK
    <2>3. Len(queue'[p]) = IF ret[p] = "end" THEN Len(queue[p]) - 1 ELSE Len(queue[p])
      BY <1>n, <2>1, <2>2, RemoveAtFacts DEF Remaining
    <2>4. Left(p)' = Left(p) - 1
      BY <1>n, <2>1, <2>3 DEF Left
    <2>5. QED
      BY <1>6, <2>1, <2>4
  <1>7. CASE Leave(p)
    BY <1>t, <1>7 DEF Leave, TypeOK
  <1>8. CASE Exit(p)
    BY <1>t, <1>8 DEF Exit, TypeOK
  <1>9. QED
    BY <1>1, <1>2, <1>3, <1>4, <1>5, <1>6, <1>7, <1>8 DEF Drain

\* The iterator is within the list in every state.
LEMMA LiveInvariance == Spec => []LiveInv
  <1>1. Init => InList
    BY DEF Init, InList
  <1>2. ASSUME IInv, InList, [Next]_vars, IInv' PROVE InList'
    <2>1. SUFFICES ASSUME NEW p \in Pipeline, pc'[p] \in {"scan", "run"} PROVE Left(p)' \in Nat
      BY DEF InList
    <2>t. TypeOK /\ idx[p] \in Nat /\ Len(queue[p]) \in Nat
      BY <1>2 DEF IInv, TypeOK
    <2>2. CASE Drain(p)
      <3>1. CASE pc[p] = "scan"
        <4>1. Left(p) \in Nat /\ (idx[p] <= Len(queue[p]) => Left(p) - 1 \in Nat)
          BY <1>2, <2>t, <3>1 DEF InList, Left
        <4>2. QED
          BY <1>2, <2>1, <2>2, <3>1, <4>1, DrainMoves
      <3>2. CASE pc[p] = "run"
        <4>1. idx[p] \in DOMAIN queue[p] /\ queue[p] \in Seq(Task)
          BY <2>t, <3>2 DEF TypeOK
        <4>2. Left(p) \in Nat /\ Left(p) - 1 \in Nat
          BY <2>t, <4>1 DEF Left
        <4>3. QED
          BY <1>2, <2>2, <3>2, <4>2, DrainMoves
      <3>3. CASE pc[p] \notin {"scan", "run"}
        BY <1>2, <2>1, <2>2, <2>t, <3>3, DrainMoves DEF TypeOK
      <3>4. QED
        BY <3>1, <3>2, <3>3
    <2>3. CASE queue'[p] = queue[p] /\ idx'[p] = idx[p] /\ pc'[p] = pc[p]
      BY <1>2, <2>1, <2>3 DEF InList, Left
    <2>4. QED
      BY <1>2, <2>t, <2>2, <2>3, DrainAlone
  <1>3. IInv => IInv
    OBVIOUS
  <1>4. QED
    BY <1>1, <1>2, Invariance, PTL DEF Spec, LiveInv

\* A handler stamps a task by its own calls, and is inside of schedule until
\* it has added it.
LEMMA PendingMoves ==
  ASSUME TypeOK, [Next]_vars, NEW p \in Pipeline, pending'[p] # pending[p]
  PROVE  \/ Add(p) /\ pending[p] # None /\ pending'[p] = None
         \/ ScheduleCallback(p)
         \/ pc[p] = "run" /\ Kind[Running(p)] # "init" /\ ret'[p] = ret[p]
  <1>p. p \in Caller /\ p \notin Outside
    BY PipelineAssumption, OutsideAssumption DEF Caller
  <1>1. ASSUME NEW c \in Caller, Add(c) PROVE c = p /\ pending[p] # None /\ pending'[p] = None
    BY <1>p, <1>1 DEF Add, TypeOK
  <1>2. ASSUME NEW c \in Caller, NEW t \in Task, Schedule(c, t)
        PROVE  c = p /\ ret' = ret
    BY <1>p, <1>2 DEF Schedule, Stamp, StampAt, TypeOK, drain
  <1>3. ASSUME NEW c \in Caller, NEW t \in Task, Schedule(c, t)
        PROVE  pc[p] = "run" /\ Kind[Running(p)] # "init" /\ ret'[p] = ret[p]
    BY <1>p, <1>2, <1>3 DEF Schedule
  <1>4. ASSUME NEW q \in Pipeline, ScheduleCallback(q) PROVE q = p
    BY <1>p, <1>4 DEF ScheduleCallback, ScheduleCallbackAnd, Stamp, StampAt, TypeOK
  <1>5. ASSUME NEW q \in Pipeline,
               \/ Enter(q) \/ Merge(q) \/ Skip(q) \/ Start(q)
               \/ Finish(q) \/ Leave(q) \/ Exit(q)
        PROVE  FALSE
    BY <1>5 DEF Enter, EnterUnless, Merge, MergeTo, Skip, Start, StartOn, Finish, FinishWith,
                Leave, Exit
  <1>6. CASE \/ PostStart \/ PostUnpack \/ PreDestroy \/ JoinAsync \/ JoinNetwork
             \/ Tick \/ GameChanges \/ UNCHANGED vars
    BY <1>6 DEF PostStart, PostUnpack, PreDestroy, JoinAsync, JoinNetwork, Tick,
                GameChanges, vars
  <1>7. QED
    BY <1>1, <1>3, <1>4, <1>5, <1>6, NextCases

\* A poll that has seen the game ready finds its callback not scheduled yet.
LEMMA CallbackIsFree ==
  ASSUME IInv, NEW p \in Pipeline, pc[p] = "run", ret[p] = "register"
  PROVE  ~Armed(Callback[Running(p)])
  <1>1. TypeOK /\ OnePlace /\ RetFits /\ RegisteredOnce
    BY DEF IInv, CallInv
  <1>2. idx[p] \in DOMAIN queue[p]
    BY <1>1 DEF TypeOK
  <1>3. Running(p) \in Task /\ Armed(Running(p)) /\ Target[Running(p)] = p
    BY <1>1, <1>2, QueueFacts DEF Running
  <1>4. Running(p) \in InitTask
    BY <1>1, <1>3 DEF RetFits, InitTask
  <1>5. p = "main"
    BY <1>3, <1>4, InitTaskAssumption
  <1>6. QED
    BY <1>1, <1>3, <1>4, <1>5 DEF RegisteredOnce

-----------------------------------------------------------------------------
(* A walk comes to its end.                                                *)

Fair == FairSpec /\ []StepsCanRun

\* What the fairness and the hypothesis say of one pipeline.
LEMMA FairOf ==
  ASSUME NEW p \in Pipeline
  PROVE  Fair => /\ [][Next]_vars /\ []LiveInv
                 /\ DrainsFairly(p) /\ AddsFairly(p) /\ []DrainCanRun(p) /\ []AddCanRun(p)
  <1>1. p \in Caller
    BY DEF Caller
  <1>2. Fairness => DrainsFairly(p) /\ AddsFairly(p)
    BY <1>1 DEF Fairness
  <1>3. StepsCanRun => DrainCanRun(p) /\ AddCanRun(p)
    BY <1>1 DEF StepsCanRun
  <1>4. QED
    BY <1>2, <1>3, LiveInvariance, PTL DEF Fair, FairSpec, Spec

\* A handler returns, after however many calls of schedule, and the iterator
\* is one task further.
LEMMA HandlerReturns ==
  ASSUME NEW p \in Pipeline, NEW n \in Nat
  PROVE  Fair => (pc[p] = "run" /\ Left(p) = n ~> pc[p] = "scan" /\ Left(p) = n - 1)
  <1> DEFINE R == LiveInv /\ pc[p] = "run" /\ Left(p) = n
             Polling == R /\ ret[p] = "register"
             Free == pending[p] = None
             S == pc[p] = "scan" /\ Left(p) = n - 1
  <1>1. LiveInv /\ LiveInv' /\ pc[p] = "run" /\ Left(p) = n /\ [Next]_vars => R' \/ S'
    <2>1. LiveInv => TypeOK /\ IInv
      BY DEF LiveInv, IInv
    <2>2. QED
      BY <2>1, DrainAlone, DrainMoves DEF Left
  <1>2. ASSUME LiveInv, LiveInv', R, ~Free, [Next]_vars
        PROVE  R' /\ (Polling => Polling') /\ (~Polling => ~Polling')
    <2>1. TypeOK /\ IInv
      BY <1>2 DEF LiveInv, IInv
    <2>2. ~Drain(p)
      BY <1>2, <2>1, DrainMoves
    <2>3. QED
      BY <1>2, <2>1, <2>2, DrainAlone DEF Left
  <1>3. R /\ <<Add(p)>>_vars => Free'
    BY DEF LiveInv, IInv, TypeOK, Add, Caller
  <1>4. ASSUME LiveInv, LiveInv', Polling, Free, [Next]_vars
        PROVE  (Polling /\ Free)' \/ (R /\ ~Polling)'
    <2>1. TypeOK /\ IInv /\ RetFits
      BY <1>4 DEF LiveInv, IInv, CallInv
    <2>2. CASE Drain(p)
      BY <1>4, <2>1, <2>2, DrainMoves
    <2>3. CASE ~Drain(p)
      <3>1. /\ queue'[p] = queue[p] /\ idx'[p] = idx[p]
            /\ pc'[p] = pc[p] /\ ret'[p] = ret[p]
        BY <1>4, <2>1, <2>3, DrainAlone
      <3>2. pending'[p] = pending[p]
        BY <1>4, <2>1, <2>3, PendingMoves DEF RetFits, Drain
      <3>3. QED
        BY <1>4, <3>1, <3>2 DEF Left
    <2>4. QED
      BY <2>2, <2>3
  <1>5. Polling /\ Free /\ DrainCanRun(p) => ENABLED <<Drain(p)>>_vars
    BY CallbackIsFree DEF DrainCanRun, LiveInv
  <1>6. LiveInv /\ LiveInv' /\ Polling /\ <<Drain(p)>>_vars => (R /\ ~Polling)'
    BY DrainMoves DEF LiveInv
  <1>7. ASSUME LiveInv, LiveInv', R, ~Polling, [Next]_vars
        PROVE  (R /\ ~Polling)' \/ S'
    <2>1. TypeOK /\ IInv
      BY <1>7 DEF LiveInv, IInv
    <2>2. QED
      BY <1>7, <2>1, DrainAlone, DrainMoves DEF Left
  <1>8. R /\ ~Polling /\ Free /\ DrainCanRun(p) => ENABLED <<Finish(p)>>_vars
    BY DEF DrainCanRun
  <1>9. LiveInv /\ R /\ <<Finish(p)>>_vars => S'
    BY DrainMoves DEF LiveInv, Drain, Finish, FinishWith, IInv, TypeOK
  <1>10. R /\ ~Free /\ AddCanRun(p) => ENABLED <<Add(p)>>_vars
    BY DEF AddCanRun
  <1> HIDE DEF S, Free, Polling, R
  <1>11. Fair => (R /\ ~Free ~> R /\ Free)
    BY <1>2, <1>3, <1>10, FairOf, PTL DEF AddsFairly
  <1>12. Fair => (R ~> S)
    BY <1>2, <1>4, <1>5, <1>6, <1>7, <1>8, <1>9, <1>11, FairOf, PTL
       DEF DrainsFairly
  <1>13. QED
    BY <1>12, FairOf, PTL DEF R, S

\* A walk over p has n tasks still to look at.
WalkingAt(p, n) == pc[p] \in {"scan", "run"} /\ Left(p) = n

WalkDescends(p, n) == WalkingAt(p, n) ~> pc[p] = "idle" \/ (n > 0 /\ WalkingAt(p, n - 1))

\* One task of a walk after the other is behind the iterator, until the walk
\* is over.
THEOREM PassDescends ==
  FairSpec /\ []StepsCanRun => \A p \in Pipeline, n \in Nat : WalkDescends(p, n)
  <1> SUFFICES ASSUME NEW p \in Pipeline, NEW n \in Nat
               PROVE  Fair => WalkDescends(p, n)
    BY DEF Fair
  <1> DEFINE S == LiveInv /\ pc[p] = "scan" /\ Left(p) = n
             R == pc[p] = "run" /\ Left(p) = n
             Further == pc[p] = "scan" /\ Left(p) = n - 1
             Over == pc[p] = "idle"
  <1>1. ASSUME LiveInv, LiveInv', S, [Next]_vars PROVE S' \/ R' \/ Further' \/ Over'
    BY <1>1, DrainAlone, DrainMoves DEF LiveInv, IInv, Left
  <1>2. LiveInv /\ S /\ <<Drain(p)>>_vars => R' \/ Further' \/ Over'
    BY DrainMoves DEF LiveInv
  <1>3. S /\ DrainCanRun(p) => ENABLED <<Drain(p)>>_vars
    BY DEF DrainCanRun
  <1>4. Fair => (R ~> Further)
    BY HandlerReturns
  <1>5. LiveInv /\ Further => n > 0
    BY DEF LiveInv, InList
  <1>6. LiveInv /\ pc[p] \in {"scan", "run"} /\ Left(p) = n => S \/ R
    OBVIOUS
  <1> HIDE DEF S, R
  <1>7. Fair => (S ~> R \/ Further \/ Over)
    BY <1>1, <1>2, <1>3, FairOf, PTL DEF DrainsFairly
  <1>8. /\ WalkingAt(p, n) /\ LiveInv => S \/ R
        /\ Further /\ LiveInv => n > 0 /\ WalkingAt(p, n - 1)
    BY <1>5, <1>6 DEF WalkingAt
  <1>9. QED
    BY <1>4, <1>7, <1>8, FairOf, PTL DEF WalkDescends

\* The rule of induction for ~>, over how much of a walk is left.
WalkInduction(p) ==
  (\A n \in Nat : WalkDescends(p, n)) => ((\E n \in Nat : WalkingAt(p, n)) ~> pc[p] = "idle")

PassEnds(p) == pc[p] \in {"scan", "run"} ~> pc[p] = "idle"
PassesEnd == \A p \in Thread : PassEnds(p)

\* So every walk ends.
LEMMA WalksEnd ==
  ASSUME NEW p \in Pipeline
  PROVE  FairSpec /\ []StepsCanRun /\ WalkInduction(p) => PassEnds(p)
  <1> DEFINE Walking == pc[p] \in {"scan", "run"}
             Measured == \E n \in Nat : WalkingAt(p, n)
             Steps == \A n \in Nat : WalkDescends(p, n)
  <1>1. LiveInv /\ Walking => Measured
    BY DEF LiveInv, InList, WalkingAt
  <1>2. FairSpec /\ []StepsCanRun => Steps
    BY PassDescends
  <1>3. WalkInduction(p) => (Steps => (Measured ~> pc[p] = "idle"))
    BY DEF WalkInduction
  <1>4. (Walking ~> pc[p] = "idle") => PassEnds(p)
    BY DEF PassEnds
  <1> HIDE DEF Walking, Measured, Steps
  <1>5. QED
    BY <1>1, <1>2, <1>3, <1>4, LiveInvariance, PTL DEF FairSpec

-----------------------------------------------------------------------------
(* pre_destroy comes to its end.                                           *)

\* Once the flag is set, p ends for good.
Stops(p) == kill ~> [](kill /\ Joined(p))

\* The flag that the threads poll stays set, and a thread that has not begun
\* by then never begins.
LEMMA KillStays ==
  ASSUME IInv, [Next]_vars, kill
  PROVE  kill' /\ life' = life /\ \A p \in Pipeline : ~Enter(p) \/ p \notin Thread
  <1>1. dst # "alive" /\ \A p \in Pipeline : ~Enter(p) \/ p \notin Thread
    BY DEF IInv, JoinedInOrder, Enter, EnterUnless
  <1>2. ASSUME NEW c \in Caller, Add(c) \/ \E t \in Task : Schedule(c, t)
        PROVE  kill' = kill /\ life' = life
    BY <1>2 DEF Add, Schedule, component
  <1>3. ASSUME NEW p \in Pipeline,
               \/ Enter(p) \/ Merge(p) \/ Skip(p) \/ Start(p)
               \/ ScheduleCallback(p) \/ Finish(p) \/ Leave(p) \/ Exit(p)
        PROVE  kill' = kill /\ life' = life
    BY <1>3 DEF Enter, EnterUnless, Merge, MergeTo, Skip, Start, StartOn, ScheduleCallback,
                ScheduleCallbackAnd, Finish, FinishWith, Leave, Exit, component
  <1>4. ASSUME JoinAsync \/ JoinNetwork \/ Tick \/ GameChanges \/ UNCHANGED vars
        PROVE  kill' = kill /\ life' = life
    BY <1>4 DEF JoinAsync, JoinNetwork, Tick, GameChanges, component, vars
  <1>5. QED
    BY <1>1, <1>2, <1>3, <1>4, NextCases DEF PostStart, PostUnpack, PreDestroy

\* A thread whose walks end comes to its own end once the flag is set.
LEMMA ThreadEnds ==
  ASSUME NEW p \in {"async", "network"}
  PROVE  Fair /\ PassesEnd => Stops(p)
  <1>1. CASE p \notin Thread
    <2>1. Joined(p)
      BY <1>1 DEF Joined
    <2>2. LiveInv /\ kill /\ [Next]_vars => kill'
      BY KillStays DEF LiveInv
    <2>3. Fair => [][Next]_vars /\ []LiveInv
      BY LiveInvariance, PTL DEF Fair, FairSpec, Spec
    <2>4. QED
      BY <2>1, <2>2, <2>3, PTL DEF Stops
  <1>2. CASE p \in Thread
    <2> USE <1>2
    <2>p. p \in Pipeline
      BY DEF Thread
    <2> DEFINE K == LiveInv /\ kill /\ life # "new"
               In(where) == K /\ pc[p] = where
    <2>1. K /\ [Next]_vars /\ LiveInv' => K'
      BY KillStays DEF LiveInv
    <2>2. ASSUME In("entered"), [Next]_vars, K'
          PROVE  In("entered")' \/ In("scan")'
      BY <2>2, <2>p, DrainAlone, DrainMoves DEF LiveInv, IInv
    <2>3. In("entered") /\ <<Drain(p)>>_vars /\ K' => In("scan")'
      BY <2>p, DrainMoves DEF LiveInv
    <2>4. ASSUME In("idle"), [Next]_vars, K' PROVE In("idle")' \/ In("exited")'
      <3>1. CASE Drain(p)
        <4>1. ~Enter(p)
          BY <2>4, <2>p, KillStays DEF LiveInv
        <4>2. pc'[p] # "entered"
          BY <2>4, <2>p, <3>1, <4>1
             DEF Drain, Merge, MergeTo, Skip, AtTask, Start, StartOn, ScheduleCallback,
                 ScheduleCallbackAnd, Finish, FinishWith, Leave, Exit, LiveInv, IInv, TypeOK
        <4>3. QED
          BY <2>4, <2>p, <3>1, <4>2, DrainMoves DEF LiveInv
      <3>2. QED
        BY <2>4, <2>p, <3>1, DrainAlone DEF LiveInv, IInv
    <2>5. In("idle") /\ <<Drain(p)>>_vars /\ [Next]_vars /\ K' => In("exited")'
      <3>1. ASSUME In("idle"), Drain(p), [Next]_vars, K' PROVE In("exited")'
        <4>1. pc'[p] \in {"entered", "exited"}
          BY <2>p, <3>1, DrainMoves DEF LiveInv
        <4>2. QED
          BY <2>4, <3>1, <4>1
      <3>2. QED
        BY <3>1
    <2>6. In("exited") /\ [Next]_vars /\ K' => In("exited")'
      BY <2>p, DrainAlone, DrainMoves DEF LiveInv, IInv
    <2>7. /\ In("entered") /\ DrainCanRun(p) => ENABLED <<Drain(p)>>_vars
          /\ In("idle") /\ DrainCanRun(p) => ENABLED <<Drain(p)>>_vars
      BY DEF DrainCanRun
    <2>8. /\ K => \/ In("entered") \/ In("idle") \/ In("exited")
                  \/ K /\ pc[p] \in {"scan", "run"}
          /\ In("scan") => pc[p] \in {"scan", "run"}
          /\ K /\ pc[p] = "idle" => In("idle")
          /\ In("exited") => kill /\ Joined(p)
          /\ kill /\ life = "new" => kill /\ Joined(p)
          /\ kill /\ LiveInv => K \/ (kill /\ life = "new")
      BY <2>p DEF LiveInv, IInv, TypeOK, Joined
    <2>9. LiveInv /\ kill /\ life = "new" /\ [Next]_vars => (kill /\ life = "new")'
      BY KillStays DEF LiveInv
    <2> HIDE DEF K
    <2>10. Fair => (In("entered") ~> In("scan"))
      BY <2>1, <2>2, <2>3, <2>7, <2>p, FairOf, PTL DEF DrainsFairly
    <2>11. Fair => (In("idle") ~> In("exited"))
      BY <2>1, <2>4, <2>5, <2>7, <2>p, FairOf, PTL DEF DrainsFairly
    <2>12. Fair => [](In("exited") => []In("exited"))
      BY <2>1, <2>6, <2>p, FairOf, PTL
    <2>13. Fair => [](K => []K)
      BY <2>1, <2>p, FairOf, PTL
    <2>14. Fair /\ PassEnds(p) => (K ~> []In("exited"))
      BY <2>8, <2>10, <2>11, <2>12, <2>13, PTL DEF PassEnds
    <2>15. PassesEnd => PassEnds(p)
      BY DEF PassesEnd
    <2>16. QED
      BY <2>8, <2>9, <2>14, <2>15, <2>p, FairOf, PTL DEF Stops
  <1>3. QED
    BY <1>1, <1>2

\* If the walks of the two threads end, pre_destroy does.
LEMMA DestroyFromPasses ==
  FairSpec /\ []StepsCanRun /\ PassesEnd => DestroyEnds
  <1> DEFINE Fine == Fair /\ PassesEnd
             At(where) == dst = where
  <1>2. LiveInv /\ dst # "alive" => kill
    BY DEF LiveInv, IInv, JoinedInOrder
  <1>3. ASSUME IInv, [Next]_vars, dst # "alive"
        PROVE  \/ dst' = dst
               \/ dst = "join_async" /\ dst' = "join_network"
               \/ dst = "join_network" /\ dst' = "done"
    <2>1. ASSUME NEW c \in Caller, Add(c) \/ \E t \in Task : Schedule(c, t) PROVE dst' = dst
      BY <2>1 DEF Add, Schedule, component
    <2>2. ASSUME NEW p \in Pipeline,
                 \/ Enter(p) \/ Merge(p) \/ Skip(p) \/ Start(p)
                 \/ ScheduleCallback(p) \/ Finish(p) \/ Leave(p) \/ Exit(p)
          PROVE  dst' = dst
      BY <2>2 DEF Enter, EnterUnless, Merge, MergeTo, Skip, Start, StartOn, ScheduleCallback,
                  ScheduleCallbackAnd, Finish, FinishWith, Leave, Exit, component
    <2>3. CASE PostStart \/ PostUnpack \/ PreDestroy \/ Tick \/ GameChanges \/ UNCHANGED vars
      BY <1>3, <2>3 DEF PostStart, PostUnpack, PreDestroy, Tick, GameChanges, component, vars
    <2>4. QED
      BY <1>3, <2>1, <2>2, <2>3, NextCases DEF JoinAsync, JoinNetwork
  <1>4. At("join_async") /\ <<JoinAsync \/ JoinNetwork>>_vars => At("join_network")'
    BY DEF JoinAsync, JoinNetwork
  <1>5. At("join_network") /\ <<JoinAsync \/ JoinNetwork>>_vars => At("done")'
    BY DEF JoinAsync, JoinNetwork
  <1>6. /\ At("join_async") /\ Joined("async") /\ JoinCanRun
             => ENABLED <<JoinAsync \/ JoinNetwork>>_vars
        /\ At("join_network") /\ Joined("network") /\ JoinCanRun
             => ENABLED <<JoinAsync \/ JoinNetwork>>_vars
    BY DEF JoinCanRun
  <1>7. LiveInv => IInv /\ (dst # "alive" <=> At("join_async") \/ At("join_network") \/ At("done"))
    BY DEF LiveInv, IInv, TypeOK
  <1>8. Fair => [][Next]_vars /\ []LiveInv /\ JoinsFairly /\ []JoinCanRun
    <2>1. Fairness => JoinsFairly
      BY DEF Fairness
    <2>2. StepsCanRun => JoinCanRun
      BY DEF StepsCanRun
    <2>3. QED
      BY <2>1, <2>2, LiveInvariance, PTL DEF Fair, FairSpec, Spec
  <1> HIDE DEF At
  <1>9. LiveInv /\ At("join_async") /\ [Next]_vars => At("join_async")' \/ At("join_network")'
    BY <1>3, <1>7 DEF At
  <1>10. LiveInv /\ At("join_network") /\ [Next]_vars => At("join_network")' \/ At("done")'
    BY <1>3, <1>7 DEF At
  <1>11. Fine => Stops("async")
    BY ThreadEnds
  <1>12. Fine => Stops("network")
    BY ThreadEnds
  <1>13. Fine => (At("join_async") ~> At("join_network"))
    BY <1>2, <1>4, <1>6, <1>7, <1>8, <1>9, <1>11, PTL DEF JoinsFairly, Stops
  <1>14. Fine => (At("join_network") ~> At("done"))
    BY <1>2, <1>5, <1>6, <1>7, <1>8, <1>10, <1>12, PTL DEF JoinsFairly, Stops
  <1>15. Fine => (dst # "alive" ~> At("done"))
    BY <1>7, <1>8, <1>13, <1>14, PTL
  <1>16. QED
    BY <1>15, PTL DEF At, Fair, DestroyEnds

\* Once begun, pre_destroy joins both threads and ends, whatever the handlers
\* schedule meanwhile (DestroyEnds).
THEOREM DestroyIsOver ==
  /\ FairSpec /\ []StepsCanRun
  /\ \A p \in Thread : WalkInduction(p)
  => DestroyEnds
  <1> DEFINE Given == FairSpec /\ []StepsCanRun /\ \A p \in Thread : WalkInduction(p)
  <1>1. ASSUME NEW p \in Thread PROVE Given => PassEnds(p)
    BY WalksEnd DEF Thread
  <1> HIDE DEF Given
  <1>2. Given => PassesEnd
    BY <1>1 DEF PassesEnd
  <1>3. Given => FairSpec /\ []StepsCanRun
    BY DEF Given
  <1>4. QED
    BY <1>2, <1>3, DestroyFromPasses DEF Given

-----------------------------------------------------------------------------
(* What happens to a task that waits for its call.                         *)

\* A task whose handler is running counts as called.
RunningRan == \A p \in Pipeline : pc[p] = "run" => ran[Running(p)]

\* Only a thread exits, and only when it was told to.
ExitedByKill == \A p \in Pipeline : pc[p] = "exited" => p \in Thread /\ kill

\* A poll that is about to end has handed its callback over.
Handed ==
  \A p \in Pipeline, t \in InitTask :
    pc[p] = "run" /\ Running(p) = t /\ ret[p] = "end" =>
      Armed(Callback[t]) \/ ran[Callback[t]]

WaitInv == LiveInv /\ RunningRan /\ ExitedByKill /\ Handed

\* What a step does to the clock and the mark of one scheduled task.
LEMMA ClockMoves ==
  ASSUME TypeOK, [Next]_vars, NEW t \in Task, Armed(t)
  PROVE  /\ ran[t] => ran'[t]
         /\ ~ran'[t] => waited'[t] = waited[t] \/ Tick
  <1> USE DEF TypeOK, clocks
  <1>1. ASSUME NEW c \in Caller, NEW u \in Task, Stamp(c, u)
        PROVE  ran'[t] = ran[t] /\ waited'[t] = waited[t]
    BY <1>1 DEF Stamp, StampAt
  <1>2. ASSUME NEW c \in Caller, Add(c) PROVE ran' = ran /\ waited' = waited
    BY <1>2 DEF Add
  <1>3. ASSUME NEW c \in Caller, NEW u \in Task, Schedule(c, u)
        PROVE  ran'[t] = ran[t] /\ waited'[t] = waited[t]
    BY <1>1, <1>3 DEF Schedule
  <1>4. ASSUME NEW q \in Pipeline, ScheduleCallback(q)
        PROVE  ran'[t] = ran[t] /\ waited'[t] = waited[t]
    <2>1. Running(q) \in Task
      BY <1>4, ElementOfSeq DEF ScheduleCallback, ScheduleCallbackAnd, Running
    <2>2. q \in Caller /\ Callback[Running(q)] \in Task
      BY <2>1, TaskAssumption DEF Caller
    <2>3. QED
      BY <1>1, <1>4, <2>2 DEF ScheduleCallback, ScheduleCallbackAnd
  <1>5. ASSUME NEW q \in Pipeline, Start(q)
        PROVE  /\ ran[t] => ran'[t]
               /\ ~ran'[t] => waited'[t] = waited[t]
    BY <1>5 DEF Start, StartOn
  <1>6. ASSUME NEW q \in Pipeline,
               Enter(q) \/ Merge(q) \/ Skip(q) \/ Finish(q) \/ Leave(q) \/ Exit(q)
        PROVE  ran' = ran /\ waited' = waited
    BY <1>6 DEF Enter, EnterUnless, Merge, MergeTo, Skip, Finish, FinishWith, Leave, Exit
  <1>7. CASE \/ PostStart \/ PostUnpack \/ PreDestroy \/ JoinAsync \/ JoinNetwork
             \/ GameChanges \/ UNCHANGED vars
    BY <1>7 DEF PostStart, PostUnpack, PreDestroy, JoinAsync, JoinNetwork, GameChanges, vars
  <1>8. CASE Tick
    BY <1>8 DEF Tick
  <1>9. QED
    BY <1>2, <1>3, <1>4, <1>5, <1>6, <1>7, <1>8, NextCases

\* A task that is scheduled or was called remains one or the other.
LEMMA HeldStays ==
  ASSUME TypeOK, TypeOK', RunningRan, [Next]_vars, NEW t \in Task, Armed(t) \/ ran[t]
  PROVE  Armed(t)' \/ ran'[t]
  <1>1. CASE Armed(t)
    <2>1. ASSUME NEW q \in Pipeline, Finish(q), t = Running(q) PROVE ran[t]
      BY <2>1 DEF Finish, FinishWith, RunningRan
    <2>2. QED
      BY <1>1, <2>1, ArmedStays, ClockMoves
  <1>2. CASE ran[t]
    <2> USE DEF TypeOK, clocks
    <2>1. ASSUME NEW c \in Caller, NEW u \in Task, Stamp(c, u) PROVE Armed(t)' \/ ran'[t]
      <3>1. CASE u = t
        <4>1. pending'[c] = t
          BY <2>1, <3>1 DEF Stamp, StampAt
        <4>2. QED
          BY <4>1, ArmedPlacesNext
      <3>2. CASE u # t
        BY <1>2, <2>1, <3>2 DEF Stamp, StampAt
      <3>3. QED
        BY <3>1, <3>2
    <2>2. ASSUME NEW c \in Caller, Add(c) PROVE ran' = ran
      BY <2>2 DEF Add
    <2>3. ASSUME NEW c \in Caller, NEW u \in Task, Schedule(c, u) PROVE Stamp(c, u)
      BY <2>3 DEF Schedule
    <2>4. ASSUME NEW q \in Pipeline, ScheduleCallback(q)
          PROVE  \E c \in Caller, u \in Task : Stamp(c, u)
      <3>1. Running(q) \in Task
        BY <2>4, ElementOfSeq DEF ScheduleCallback, ScheduleCallbackAnd, Running
      <3>2. q \in Caller /\ Callback[Running(q)] \in Task
        BY <3>1, TaskAssumption DEF Caller
      <3>3. QED
        BY <2>4, <3>2 DEF ScheduleCallback, ScheduleCallbackAnd
    <2>5. ASSUME NEW q \in Pipeline, Start(q) PROVE ran'[t]
      BY <1>2, <2>5 DEF Start, StartOn
    <2>6. ASSUME NEW q \in Pipeline,
                 Enter(q) \/ Merge(q) \/ Skip(q) \/ Finish(q) \/ Leave(q) \/ Exit(q)
          PROVE  ran' = ran
      BY <2>6 DEF Enter, EnterUnless, Merge, MergeTo, Skip, Finish, FinishWith, Leave, Exit
    <2>7. ASSUME \/ PostStart \/ PostUnpack \/ PreDestroy \/ JoinAsync \/ JoinNetwork
                 \/ Tick \/ GameChanges \/ UNCHANGED vars
          PROVE  ran' = ran
      BY <2>7 DEF PostStart, PostUnpack, PreDestroy, JoinAsync, JoinNetwork, Tick,
                  GameChanges, vars
    <2>8. ran' = ran => ran'[t]
      BY <1>2
    <2> HIDE DEF TypeOK, clocks
    <2>9. QED
      BY <2>1, <2>2, <2>3, <2>4, <2>5, <2>6, <2>7, <2>8, NextCases
  <1>3. QED
    BY <1>1, <1>2

\* The three facts hold in every state.
LEMMA WaitInvariance == Spec => []WaitInv
  <1>1. Init => RunningRan /\ ExitedByKill /\ Handed
    BY DEF Init, RunningRan, ExitedByKill, Handed
  <1>2. ASSUME LiveInv, RunningRan, ExitedByKill, [Next]_vars PROVE RunningRan'
    <2>1. SUFFICES ASSUME NEW p \in Pipeline, pc'[p] = "run" PROVE ran'[Running(p)']
      BY DEF RunningRan
    <2>t. TypeOK /\ OnePlace
      BY <1>2 DEF LiveInv, IInv
    <2>2. CASE pc[p] = "run" /\ queue'[p] = queue[p] /\ idx'[p] = idx[p]
      <3>1. Running(p)' = Running(p) /\ ran[Running(p)]
        BY <1>2, <2>2 DEF Running, RunningRan
      <3>2. Running(p) \in Task /\ Armed(Running(p))
        BY <2>t, <2>2, QueueFacts DEF TypeOK, Running
      <3>3. QED
        BY <1>2, <2>t, <3>1, <3>2, ClockMoves
    <2>3. CASE Start(p)
      <3>1. Running(p)' = Running(p) /\ ran' = [ran EXCEPT ![Running(p)] = TRUE]
        BY <2>t, <2>3 DEF Start, StartOn, Running, TypeOK
      <3>2. Running(p) \in Task
        BY <2>t, <2>3, QueueFacts DEF Start, StartOn, AtTask, TypeOK, Running
      <3>3. QED
        BY <2>t, <3>1, <3>2 DEF TypeOK
    <2>4. CASE Drain(p) /\ ~Start(p)
      BY <2>1, <2>2, <2>t, <2>4
         DEF Drain, Enter, EnterUnless, Merge, MergeTo, Skip, AtTask, ScheduleCallback,
             ScheduleCallbackAnd, Finish, FinishWith, Leave, Exit, TypeOK, lists
    <2>5. QED
      BY <1>2, <2>1, <2>2, <2>3, <2>4, <2>t, DrainAlone
  <1>3. ASSUME LiveInv, ExitedByKill, [Next]_vars PROVE ExitedByKill'
    <2>1. SUFFICES ASSUME NEW p \in Pipeline, pc'[p] = "exited" PROVE p \in Thread /\ kill'
      BY DEF ExitedByKill
    <2>t. TypeOK /\ IInv
      BY <1>3 DEF LiveInv, IInv
    <2>2. p \in Thread /\ kill
      <3>1. CASE pc[p] = "exited"
        BY <1>3, <3>1 DEF ExitedByKill
      <3>2. CASE Drain(p)
        BY <2>1, <2>t, <3>2
           DEF Drain, Enter, EnterUnless, Merge, MergeTo, Skip, AtTask, Start, StartOn,
               ScheduleCallback, ScheduleCallbackAnd, Finish, FinishWith, Leave, Exit, TypeOK
      <3>3. QED
        BY <1>3, <2>1, <2>t, <3>1, <3>2, DrainAlone
    <2>3. QED
      BY <1>3, <2>2, <2>t, KillStays
  <1>4. ASSUME LiveInv, LiveInv', RunningRan, Handed, [Next]_vars PROVE Handed'
    <2>1. SUFFICES ASSUME NEW p \in Pipeline, NEW t \in InitTask, pc'[p] = "run",
                          Running(p)' = t, ret'[p] = "end"
                   PROVE  Armed(Callback[t])' \/ ran'[Callback[t]]
      BY DEF Handed
    <2>t. TypeOK /\ TypeOK' /\ OnePlace
      BY <1>4 DEF LiveInv, IInv
    <2>c. Callback[t] \in Task /\ Kind[t] = "init" /\ p \in Caller
      BY TaskAssumption DEF InitTask, Caller
    <2>2. CASE /\ pc[p] = "run" /\ queue'[p] = queue[p] /\ idx'[p] = idx[p]
               /\ ret'[p] = ret[p]
      <3>1. Running(p) = t
        BY <2>1, <2>2 DEF Running
      <3>2. Armed(Callback[t]) \/ ran[Callback[t]]
        BY <1>4, <2>1, <2>2, <3>1 DEF Handed
      <3>3. QED
        BY <1>4, <2>c, <2>t, <3>2, HeldStays
    <2>3. ~Start(p)
      <3>1. SUFFICES ASSUME Start(p) PROVE FALSE
        OBVIOUS
      <3>2. Running(p) = t
        BY <2>1, <2>t, <3>1 DEF Start, StartOn, Running, TypeOK
      <3>3. ret'[p] \in Outcomes(Running(p))
        BY <2>t, <3>1 DEF Start, StartOn, TypeOK
      <3>4. QED
        BY <2>1, <2>c, <3>2, <3>3 DEF Outcomes, OutcomesOr
    <2>4. CASE ScheduleCallback(p)
      <3>1. Running(p) = t
        BY <2>1, <2>t, <2>4 DEF ScheduleCallback, ScheduleCallbackAnd, Running, lists
      <3>2. pending'[p] = Callback[t]
        BY <2>c, <2>t, <2>4, <3>1
           DEF ScheduleCallback, ScheduleCallbackAnd, Stamp, StampAt, TypeOK
      <3>3. QED
        BY <2>c, <2>t, <3>2, ArmedPlacesNext
    <2>5. CASE Drain(p) /\ ~ScheduleCallback(p)
      BY <2>1, <2>3, <2>t, <2>5
         DEF Drain, Enter, EnterUnless, Merge, MergeTo, Skip, AtTask, Finish, FinishWith,
             Leave, Exit, TypeOK
    <2>6. QED
      BY <1>4, <2>1, <2>2, <2>4, <2>5, <2>t, DrainAlone
  <1>5. QED
    BY <1>1, <1>2, <1>3, <1>4, LiveInvariance, PTL DEF WaitInv, Spec

\* A scheduled task is put back in nobody's hands, and stays scheduled until
\* it is called.
LEMMA TaskStays ==
  ASSUME WaitInv, TypeOK', [Next]_vars, NEW t \in Task, Armed(t)
  PROVE  /\ ~ran[t] => Armed(t)'
         /\ \A c \in Caller : pending'[c] = t => pending[c] = t
  <1>t. TypeOK /\ OnePlace
    BY DEF WaitInv, LiveInv, IInv
  <1>1. ASSUME NEW q \in Pipeline, Finish(q), ~ran[t] PROVE t # Running(q)
    BY <1>1 DEF Finish, FinishWith, WaitInv, RunningRan
  <1>2. ~ran[t] => Armed(t)'
    BY <1>t, <1>1, ArmedStays
  <1>3. ASSUME NEW c \in Caller, pending'[c] = t PROVE pending[c] = t
    <2>n. t # None
      BY NoneAssumption
    <2>1. ASSUME NEW d \in Caller, NEW u \in Task, Stamp(d, u) PROVE pending[c] = t
      BY <1>3, <1>t, <2>1 DEF Stamp, StampAt, TypeOK
    <2>2. ASSUME NEW d \in Caller, Add(d) PROVE pending[c] = t
      BY <1>3, <1>t, <2>2, <2>n DEF Add, TypeOK
    <2>3. CASE pending' = pending
      BY <1>3, <2>3
    <2>4. QED
      BY <1>t, <2>1, <2>2, <2>3, QuietSteps
  <1>4. QED
    BY <1>2, <1>3

\* The walk over the pipeline of t has still to look at t.
Ahead(t) ==
  /\ pc[Target[t]] \in {"scan", "run"}
  /\ \E i \in DOMAIN queue[Target[t]] :
       /\ queue[Target[t]][i] = t
       /\ i >= idx[Target[t]]
       /\ pc[Target[t]] = "run" => i # idx[Target[t]]

\* A task nobody has in hand any more stands in its pipeline.
Listed(t) == Armed(t) /\ \A c \in Caller : pending[c] # t

\* Whatever the walk erases and skips, it does not end before it has called a
\* task ahead of it whose interval is over.
LEMMA WalkReaches ==
  ASSUME WaitInv, TypeOK', [Next]_vars, NEW t \in Task, Ahead(t), Due(t),
         ~(Start(Target[t]) /\ Running(Target[t]) = t)
  PROVE  Ahead(t)'
  <1> DEFINE p == Target[t]
  <1>p. p \in Pipeline
    BY TaskAssumption
  <1>t. TypeOK /\ OnePlace
    BY DEF WaitInv, LiveInv, IInv
  <1>i. PICK i \in DOMAIN queue[p] :
          queue[p][i] = t /\ i >= idx[p] /\ (pc[p] = "run" => i # idx[p])
    BY DEF Ahead
  <1>n. /\ Len(queue[p]) \in Nat /\ DOMAIN queue[p] = 1 .. Len(queue[p])
        /\ queue[p] \in Seq(Task) /\ idx[p] \in Nat /\ idx[p] > 0
    <2>1. Len(queue[p]) \in Nat /\ DOMAIN queue[p] = 1 .. Len(queue[p])
      BY <1>p, <1>t, QueueFacts
    <2>2. queue[p] \in Seq(Task) /\ idx[p] \in Nat \ {0}
      BY <1>p, <1>t DEF TypeOK
    <2>3. QED
      BY <2>1, <2>2
  <1> SUFFICES /\ pc'[p] \in {"scan", "run"}
               /\ \E j \in DOMAIN queue'[p] :
                    queue'[p][j] = t /\ j >= idx'[p] /\ (pc'[p] = "run" => j # idx'[p])
    BY DEF Ahead
  <1> HIDE DEF p
  <1>a. pc[p] \in {"scan", "run"}
    BY DEF Ahead, p
  <1>1. CASE queue'[p] = queue[p] /\ idx'[p] = idx[p] /\ pc'[p] = pc[p]
    BY <1>1, <1>a, <1>i
  <1>2. CASE Skip(p)
    <2>1. /\ pc[p] = "scan" /\ pc'[p] = "scan" /\ queue'[p] = queue[p]
          /\ idx'[p] = idx[p] + 1 /\ ~Due(queue[p][idx[p]])
      BY <1>2, <1>p, <1>t DEF Skip, AtTask, Running, TypeOK, lists
    <2>2. i # idx[p]
      BY <1>i, <2>1
    <2>3. i >= idx[p] + 1
      BY <1>i, <1>n, <2>2
    <2>4. QED
      BY <1>i, <2>1, <2>3
  <1>3. CASE Start(p)
    <2>1. /\ pc[p] = "scan" /\ pc'[p] = "run" /\ queue'[p] = queue[p]
          /\ idx'[p] = idx[p]
      BY <1>3, <1>p, <1>t DEF Start, StartOn, AtTask, Running, TypeOK
    <2>2. i # idx[p]
      BY <1>3, <1>i DEF Running, p
    <2>3. QED
      BY <1>i, <2>1, <2>2
  <1>4. CASE Finish(p)
    <2>1. /\ pc[p] = "run" /\ pc'[p] = "scan"
          /\ queue'[p] = Remaining(p)
          /\ idx'[p] = IF ret[p] = "end" THEN idx[p] ELSE idx[p] + 1
      BY <1>4, <1>p, <1>t DEF Finish, FinishWith, TypeOK
    <2>2. i >= idx[p] + 1 /\ idx[p] \in DOMAIN queue[p]
      BY <1>i, <1>n, <2>1
    <2>3. CASE ret[p] # "end"
      BY <1>i, <2>1, <2>2, <2>3 DEF Remaining
    <2>4. CASE ret[p] = "end"
      <3> DEFINE rest == RemoveAt(queue[p], idx[p])
      <3>1. /\ rest \in Seq(Task) /\ Len(rest) = Len(queue[p]) - 1
            /\ \A k \in 1 .. (Len(queue[p]) - 1) :
                 rest[k] = IF k < idx[p] THEN queue[p][k] ELSE queue[p][k + 1]
        BY <1>n, <2>2, RemoveAtFacts
      <3>2. queue'[p] = rest /\ idx'[p] = idx[p]
        BY <2>1, <2>4 DEF Remaining
      <3> HIDE DEF rest
      <3>3. DOMAIN rest = 1 .. (Len(queue[p]) - 1)
        BY <3>1, LenProperties
      <3>4. i - 1 \in 1 .. (Len(queue[p]) - 1) /\ i - 1 >= idx[p] /\ ~(i - 1 < idx[p])
            /\ i - 1 + 1 = i
        BY <1>n, <2>2
      <3>5. rest[i - 1] = t
        BY <1>i, <3>1, <3>4
      <3>6. QED
        BY <2>1, <3>2, <3>3, <3>4, <3>5
    <2>5. QED
      BY <2>3, <2>4
  <1>5. CASE ScheduleCallback(p)
    <2>1. pc'[p] = pc[p] /\ queue'[p] = queue[p] /\ idx'[p] = idx[p]
      BY <1>5 DEF ScheduleCallback, ScheduleCallbackAnd, lists
    <2>2. QED
      BY <1>1, <2>1
  <1>6. CASE Leave(p)
    BY <1>6, <1>i, <1>n DEF Leave
  <1>7. CASE Enter(p) \/ Merge(p) \/ Exit(p)
    BY <1>7, <1>a DEF Enter, EnterUnless, Merge, MergeTo, Exit
  <1>8. QED
    BY <1>p, <1>t, <1>1, <1>2, <1>3, <1>4, <1>5, <1>6, <1>7, DrainAlone DEF Drain

\* After the merge, every task that stands in the pipeline is ahead.
LEMMA MergeTakes ==
  ASSUME WaitInv, NEW t \in Task, Listed(t), Drain(Target[t]), pc[Target[t]] = "entered"
  PROVE  Ahead(t)'
  <1> DEFINE p == Target[t]
  <1>p. p \in Pipeline
    BY TaskAssumption
  <1>t. TypeOK /\ OnePlace /\ BetweenPasses
    BY DEF WaitInv, LiveInv, IInv, PassInv
  <1>1. Merge(p)
    BY DEF Drain, Enter, EnterUnless, Skip, AtTask, Start, StartOn, ScheduleCallback,
           ScheduleCallbackAnd, Finish, FinishWith, Leave, Exit
  <1>2. PICK q \in Pipeline : \E i \in DOMAIN Line(q) : Line(q)[i] = t
    BY <1>t, ArmedPlaces DEF Listed
  <1>3. q = p
    BY <1>2, <1>t DEF OnePlace
  <1>4. PICK i \in DOMAIN Line(p) : Line(p)[i] = t
    BY <1>2, <1>3
  <1>5. queue'[p] = Line(p) /\ pc'[p] = "scan" /\ idx'[p] = 1
    <2>1. idx[p] = 1
      BY <1>p, <1>t DEF BetweenPasses
    <2>2. QED
      BY <1>p, <1>t, <1>1, <2>1 DEF Merge, MergeTo, Line, TypeOK
  <1>6. i >= 1
    <2>1. Line(p) \in Seq(Task)
      BY <1>p, <1>t, LineFacts
    <2>2. QED
      BY <1>4, <2>1
  <1>7. QED
    BY <1>4, <1>5, <1>6 DEF Ahead

-----------------------------------------------------------------------------
(* A scheduled task is called in the end.                                  *)

\* t is scheduled, not yet called, and its pipeline not abandoned.
Wants(t) == WaitInv /\ Armed(t) /\ ~ran[t] /\ ~Abandoned(t)

Over(t) == ran[t] \/ Abandoned(t)

\* The pipeline of t is drained: its thread runs, its hook is in place.
Drained(t) == IF Target[t] \in Thread THEN life # "new" ELSE life = "hooked"

\* The fairness of FairSpec, once more under a box: the provers do not find
\* that the two are the same, for they do not look under a quantifier.
Always == [][Next]_vars /\ []WaitInv /\ []Fairness /\ []StepsCanRun

\* A task goes on wanting its call until it has it.
LEMMA WantsStays ==
  ASSUME NEW t \in Task, Wants(t), WaitInv', [Next]_vars
  PROVE  /\ Wants(t)' \/ Over(t)'
         /\ Listed(t) => Listed(t)' /\ Armed(t)'
  <1>1. TypeOK'
    BY DEF WaitInv, LiveInv, IInv
  <1>2. Armed(t)' /\ \A c \in Caller : pending'[c] = t => pending[c] = t
    BY <1>1, TaskStays DEF Wants
  <1>3. QED
    BY <1>2 DEF Wants, Over, Listed

\* The hooks are installed once, and stay.
LEMMA LifeMoves ==
  ASSUME [Next]_vars
  PROVE  \/ life' = life
         \/ life = "new" /\ life' = "started"
         \/ life = "started" /\ life' = "hooked"
  <1>1. ASSUME NEW c \in Caller, Add(c) \/ \E t \in Task : Schedule(c, t) PROVE life' = life
    BY <1>1 DEF Add, Schedule, component
  <1>2. ASSUME NEW p \in Pipeline,
               \/ Enter(p) \/ Merge(p) \/ Skip(p) \/ Start(p)
               \/ ScheduleCallback(p) \/ Finish(p) \/ Leave(p) \/ Exit(p)
        PROVE  life' = life
    BY <1>2 DEF Enter, EnterUnless, Merge, MergeTo, Skip, Start, StartOn, ScheduleCallback,
                ScheduleCallbackAnd, Finish, FinishWith, Leave, Exit, component
  <1>3. CASE PreDestroy \/ JoinAsync \/ JoinNetwork \/ Tick \/ GameChanges \/ UNCHANGED vars
    BY <1>3 DEF PreDestroy, JoinAsync, JoinNetwork, Tick, GameChanges, component, vars
  <1>4. QED
    BY <1>1, <1>2, <1>3, NextCases DEF PostStart, PostUnpack

\* Whoever has the task in hand adds it.
LEMMA HandEmpties ==
  ASSUME NEW t \in Task
  PROVE  Always => (Armed(t) ~> Listed(t))
  <1> DEFINE InHand(c) == pending[c] = t
             Soon == <>Listed(t)
  <1>1. ASSUME NEW c \in Caller PROVE Always => (InHand(c) => Soon)
    <2>1. ASSUME WaitInv, InHand(c), WaitInv', [Next]_vars PROVE InHand(c)' \/ Listed(t)'
      <3>1. SUFFICES ASSUME pending'[c] # t PROVE Listed(t)'
        OBVIOUS
      <3>2. TypeOK /\ TypeOK' /\ OnePlace /\ NewNotRan /\ Armed(t)
        BY <2>1 DEF WaitInv, LiveInv, IInv, CallInv, Armed
      <3>3. ~ran[t]
        BY <2>1, <3>2, NoneAssumption DEF NewNotRan
      <3>4. Armed(t)' /\ \A d \in Caller : pending'[d] # t
        BY <2>1, <3>1, <3>2, <3>3, TaskStays, NoneAssumption DEF OnePlace
      <3>5. QED
        BY <3>4 DEF Listed
    <2>2. WaitInv /\ InHand(c) /\ <<Add(c)>>_vars => ~InHand(c)'
      BY NoneAssumption DEF Add, WaitInv, LiveInv, IInv, TypeOK
    <2>3. InHand(c) /\ AddCanRun(c) => ENABLED <<Add(c)>>_vars
      BY NoneAssumption DEF AddCanRun
    <2>4. /\ Fairness => AddsFairly(c)
          /\ StepsCanRun => AddCanRun(c)
      BY DEF Fairness, StepsCanRun
    <2> HIDE DEF InHand
    <2>5. QED
      BY <2>1, <2>2, <2>3, <2>4, PTL DEF Always, AddsFairly, Soon
  <1>2. Armed(t) => Listed(t) \/ \E c \in Caller : InHand(c)
    BY DEF Listed
  <1> HIDE DEF Soon
  <1>3. Always => ((\E c \in Caller : InHand(c)) => Soon)
    BY <1>1
  <1> HIDE DEF InHand
  <1>4. QED
    BY <1>2, <1>3, PTL DEF Always, Soon

\* Its pipeline comes to be drained, or to be abandoned.
LEMMA DrainingBegins ==
  ASSUME NEW t \in Task
  PROVE  Always => <>(Drained(t) \/ Abandoned(t))
  <1> DEFINE Rest == Drained(t) \/ Abandoned(t)
             New == WaitInv /\ ~Rest /\ life = "new"
             Started == WaitInv /\ ~Rest /\ life = "started"
  <1>1. WaitInv => New \/ Started \/ Rest
    BY DEF WaitInv, LiveInv, IInv, TypeOK, Drained
  <1>2. New /\ WaitInv' /\ [Next]_vars => New' \/ Started' \/ Rest'
    BY LifeMoves
  <1>3. Started /\ WaitInv' /\ [Next]_vars => Started' \/ Rest'
    BY LifeMoves DEF Drained
  <1>4. /\ New /\ <<PostStart \/ PostUnpack>>_vars => ~New'
        /\ Started /\ <<PostStart \/ PostUnpack>>_vars => ~Started'
    BY DEF PostStart, PostUnpack
  <1>5. /\ New /\ StartCanRun => ENABLED <<PostStart \/ PostUnpack>>_vars
        /\ Started /\ StartCanRun => ENABLED <<PostStart \/ PostUnpack>>_vars
    <2>1. WaitInv /\ ~Rest /\ life # "hooked" => dst = "alive"
      BY DEF Abandoned, WaitInv, LiveInv, IInv, JoinedInOrder
    <2>2. QED
      BY <2>1 DEF StartCanRun
  <1>6. (Fairness => StartsFairly) /\ (StepsCanRun => StartCanRun)
    BY DEF Fairness, StepsCanRun
  <1> HIDE DEF New, Started, Rest
  <1>7. Always => (Started ~> Rest)
    BY <1>3, <1>4, <1>5, <1>6, PTL DEF Always, StartsFairly
  <1>8. Always => (New ~> Started \/ Rest)
    BY <1>2, <1>4, <1>5, <1>6, PTL DEF Always, StartsFairly
  <1>9. QED
    BY <1>1, <1>7, <1>8, PTL DEF Always, Rest

\* t stands in a pipeline that is drained, and its interval is over.
Ripe(t) == Wants(t) /\ Listed(t) /\ Drained(t) /\ Due(t)

\* So it remains, until t is called.
LEMMA RipeStays ==
  ASSUME NEW t \in Task, Ripe(t), WaitInv', [Next]_vars
  PROVE  Ripe(t)' \/ Over(t)'
  <1>1. SUFFICES ASSUME ~Over(t)' PROVE Ripe(t)'
    OBVIOUS
  <1>2. Wants(t)' /\ Listed(t)'
    BY <1>1, WantsStays DEF Ripe
  <1>3. Drained(t)'
    BY LifeMoves DEF Ripe, Drained
  <1>4. Due(t)'
    <2>1. TypeOK /\ TypeOK' /\ Armed(t) /\ ~ran'[t]
      BY <1>1 DEF Ripe, Wants, WaitInv, LiveInv, IInv, Over
    <2>2. waited[t] \in Nat /\ Interval[t] \in Nat
      BY <2>1, TaskAssumption DEF TypeOK
    <2>3. waited'[t] = waited[t] \/ Tick
      BY <2>1, ClockMoves
    <2>4. CASE Tick
      <3>1. waited[t] >= Interval[t] /\ ~(waited[t] < Interval[t])
        BY <2>2 DEF Ripe, Due
      <3>2. waited'[t] = waited[t]
        BY <2>4, <3>1 DEF Tick
      <3>3. QED
        BY <3>1, <3>2 DEF Due
    <2>5. QED
      BY <2>3, <2>4 DEF Ripe, Due
  <1>5. QED
    BY <1>2, <1>3, <1>4 DEF Ripe

\* The frames drain its pipeline, and the walk comes to it.
LEMMA RipeIsCalled ==
  ASSUME NEW t \in Task
  PROVE  Always /\ PassEnds(Target[t]) => (Ripe(t) ~> Over(t) \/ Starved(t))
  <1> DEFINE p == Target[t]
             In(where) == Ripe(t) /\ pc[p] = where
             Near == Ripe(t) /\ Ahead(t)
             Off == p \in Intermittent
             On == p \in frames
             Walking == pc[p] \in {"scan", "run"}
             Idle == pc[p] = "idle"
  <1>p. p \in Pipeline
    BY TaskAssumption
  <1>0. Ripe(t) => WaitInv /\ LiveInv /\ IInv /\ TypeOK
    BY DEF Ripe, Wants, WaitInv, LiveInv, IInv
  <1>1. Ripe(t) => In("idle") \/ In("entered") \/ (Ripe(t) /\ Walking)
    <2>1. Ripe(t) => pc[p] # "exited"
      BY <1>p DEF Ripe, Wants, WaitInv, ExitedByKill, Abandoned
    <2>2. QED
      BY <1>0, <1>p, <2>1 DEF TypeOK
  <1>2. ASSUME In("idle"), WaitInv', [Next]_vars
        PROVE  In("idle")' \/ In("entered")' \/ Over(t)'
    <2>1. Ripe(t)' => pc'[p] # "exited"
      BY <1>p DEF Ripe, Wants, WaitInv, ExitedByKill, Abandoned
    <2>2. pc'[p] \in {"idle", "entered", "exited"}
      BY <1>2, <1>0, <1>p, DrainAlone, DrainMoves
    <2>3. QED
      BY <1>2, <2>1, <2>2, RipeStays
  <1>3. ASSUME In("entered"), WaitInv', [Next]_vars
        PROVE  In("entered")' \/ Near' \/ Over(t)'
    <2>1. CASE Drain(p)
      BY <1>0, <1>3, <2>1, RipeStays, MergeTakes DEF Ripe
    <2>2. QED
      BY <1>0, <1>3, <1>p, <2>1, RipeStays, DrainAlone
  <1>4. ASSUME Near, WaitInv', [Next]_vars PROVE Near' \/ Over(t)'
    <2>1. TypeOK'
      BY <1>4 DEF WaitInv, LiveInv, IInv
    <2>2. ASSUME Start(p), Running(p) = t PROVE ran'[t]
      BY <1>0, <1>4, <2>2 DEF Start, StartOn, TypeOK
    <2>3. QED
      BY <1>0, <1>4, <2>1, <2>2, RipeStays, WalkReaches DEF Ripe, Over
  <1>5. In("idle") /\ <<Drain(p)>>_vars => ~In("idle")'
    BY <1>0, <1>p, DrainMoves
  <1>6. In("entered") /\ <<Drain(p)>>_vars => ~In("entered")'
    BY <1>0, <1>p, DrainMoves
  <1>7. In("idle") /\ <<Enter(p)>>_vars => ~In("idle")'
    BY <1>0, <1>p DEF Enter, EnterUnless, TypeOK
  <1>8. In("entered") /\ DrainCanRun(p) => ENABLED <<Drain(p)>>_vars
    BY DEF DrainCanRun
  <1>9. /\ In("idle") /\ ~Off /\ DrainCanRun(p) => ENABLED <<Drain(p)>>_vars
        /\ In("idle") /\ On /\ DrainCanRun(p) => ENABLED <<Enter(p)>>_vars
    <2>1. Ripe(t) => IF p \in Thread THEN life # "new" /\ ~kill ELSE life = "hooked"
      BY DEF Ripe, Wants, Drained, Abandoned
    <2>2. QED
      BY <2>1 DEF DrainCanRun
  <1>10. Near => Walking /\ ~Idle
    BY DEF Ahead
  <1>11. /\ Fairness => DrainsFairly(p)
         /\ StepsCanRun => DrainCanRun(p)
         /\ Fairness /\ Off => EntersFairly(p)
    BY <1>p DEF Fairness, StepsCanRun
  <1>12. Off /\ [](~On) => Starved(t)
    <2>1. ~On => Target[t] \notin frames
      OBVIOUS
    <2>2. [](~On) => [](Target[t] \notin frames)
      BY <2>1, PTL
    <2>3. Off /\ [](Target[t] \notin frames) => Starved(t)
      BY DEF Starved
    <2>4. QED
      BY <2>2, <2>3
  <1>13. In("idle") => Idle
    OBVIOUS
  <1>14. /\ Ripe(t) /\ Idle => In("idle")
         /\ Off \in BOOLEAN
    OBVIOUS
  <1>s. WaitInv' /\ [Next]_vars /\ Ripe(t) => Ripe(t)' \/ Over(t)'
    BY RipeStays
  <1>q. PassEnds(Target[t]) => (Walking ~> Idle)
    BY DEF PassEnds
  <1> HIDE DEF In, Near, Walking, Idle
  <1>15. Always /\ PassEnds(p) => (Near ~> Over(t))
    BY <1>4, <1>10, <1>q, PTL DEF Always
  <1>16. Always => (In("entered") ~> Near \/ Over(t))
    BY <1>3, <1>6, <1>8, <1>11, PTL DEF Always, DrainsFairly
  <1>17. CASE ~Off
    <2> HIDE DEF p, Off, On
    <2>1. Always => (In("idle") ~> In("entered") \/ Over(t))
      BY <1>2, <1>5, <1>9, <1>11, <1>17, PTL DEF Always, DrainsFairly
    <2>2. Always /\ PassEnds(p) => (Ripe(t) ~> In("idle") \/ In("entered") \/ Over(t))
      BY <1>1, <1>14, <1>s, <1>q, PTL DEF Always, p
    <2>3. QED
      BY <1>15, <1>16, <2>1, <2>2, PTL DEF Always, p
  <1>18. CASE Off
    <2>1. Fairness => EntersFairly(p)
      BY <1>11, <1>18
    <2>2. [](~On) => Starved(t)
      BY <1>12, <1>18
    <2> HIDE DEF p, Off, On
    <2>3. Always => (In("idle") ~> In("entered") \/ Over(t) \/ Starved(t))
      BY <1>2, <1>7, <1>9, <1>11, <2>1, <2>2, PTL DEF Always, EntersFairly
    <2>4. Always /\ PassEnds(p) => (Ripe(t) ~> In("idle") \/ In("entered") \/ Over(t))
      BY <1>1, <1>14, <1>s, <1>q, PTL DEF Always, p
    <2>5. QED
      BY <1>15, <1>16, <2>3, <2>4, PTL DEF Always, p
  <1>19. QED
    BY <1>17, <1>18

\* t is scheduled and not called yet, and is due after n ticks.
DueAfter(t, n) == Armed(t) /\ ~ran[t] /\ Interval[t] - waited[t] = n

TickDescent(t, n) == DueAfter(t, n) ~> ran[t] \/ Due(t) \/ (n > 0 /\ DueAfter(t, n - 1))

\* Tick by tick, what is left of the interval of a scheduled task shrinks,
\* until the task is due.
THEOREM TickDescends ==
  FairSpec /\ []StepsCanRun => \A t \in Task, n \in Nat : TickDescent(t, n)
  <1> SUFFICES ASSUME NEW t \in Task, NEW n \in Nat
               PROVE  FairSpec /\ []StepsCanRun => TickDescent(t, n)
    OBVIOUS
  <1> DEFINE Less == n > 0 /\ DueAfter(t, n - 1)
             More == ran[t] \/ Less
             W == WaitInv /\ DueAfter(t, n) /\ ~Due(t)
  <1>t. W => /\ TypeOK /\ Armed(t) /\ ~ran[t] /\ waited[t] \in Nat /\ Interval[t] \in Nat
             /\ Interval[t] - waited[t] = n /\ waited[t] < Interval[t] /\ n > 0
    <2>1. W => TypeOK /\ Armed(t) /\ ~ran[t] /\ waited[t] \in Nat /\ Interval[t] \in Nat
      BY TaskAssumption DEF WaitInv, LiveInv, IInv, TypeOK, DueAfter
    <2>2. QED
      BY <2>1 DEF DueAfter, Due
  <1>1. ASSUME W, Tick PROVE waited'[t] = waited[t] + 1
    BY <1>1, <1>t DEF Tick
  <1>2. ASSUME W, WaitInv', [Next]_vars PROVE W' \/ More'
    <2>1. TypeOK'
      BY <1>2 DEF WaitInv, LiveInv, IInv
    <2>2. Armed(t)'
      BY <1>2, <1>t, <2>1, TaskStays DEF W
    <2>3. ran'[t] \/ waited'[t] = waited[t] \/ Tick
      BY <1>2, <1>t, ClockMoves
    <2>4. CASE ~ran'[t] /\ waited'[t] = waited[t]
      BY <1>2, <1>t, <2>2, <2>4 DEF DueAfter, Due
    <2>5. CASE ~ran'[t] /\ Tick
      BY <1>1, <1>2, <1>t, <2>2, <2>5 DEF DueAfter
    <2>6. CASE ran'[t]
      BY <2>6
    <2>7. QED
      BY <2>3, <2>4, <2>5, <2>6
  <1>3. W /\ <<Tick>>_vars => ~W'
    BY <1>1, <1>t DEF DueAfter
  <1>4. W /\ TickCanRun => ENABLED <<Tick>>_vars
    BY <1>t DEF TickCanRun
  <1>5. (Fairness => TicksFairly) /\ (StepsCanRun => TickCanRun)
    BY DEF Fairness, StepsCanRun
  <1>6. DueAfter(t, n) /\ WaitInv => W \/ Due(t)
    OBVIOUS
  <1> HIDE DEF W, Less
  <1>7. FairSpec /\ []StepsCanRun => (W ~> More)
    BY <1>2, <1>3, <1>4, <1>5, WaitInvariance, PTL DEF FairSpec, Spec, TicksFairly
  <1>8. QED
    BY <1>6, <1>7, WaitInvariance, PTL DEF FairSpec, TickDescent, Less

\* The rule of induction for ~>, over the ticks that are left.
TickInduction(t) ==
  (\A n \in Nat : TickDescent(t, n)) => ((\E n \in Nat : DueAfter(t, n)) ~> ran[t] \/ Due(t))

\* The interval of a scheduled task comes to its end.
Ripens(t) == Armed(t) ~> Due(t) \/ ran[t]

LEMMA EachRipens ==
  ASSUME NEW t \in Task
  PROVE  FairSpec /\ []StepsCanRun /\ TickInduction(t) => Ripens(t)
  <1> DEFINE Measured == \E n \in Nat : DueAfter(t, n)
             Steps == \A n \in Nat : TickDescent(t, n)
  <1>1. WaitInv /\ Armed(t) => Measured \/ ran[t] \/ Due(t)
    <2>1. WaitInv => waited[t] \in Nat /\ Interval[t] \in Nat
      BY TaskAssumption DEF WaitInv, LiveInv, IInv, TypeOK
    <2>2. waited[t] \in Nat /\ Interval[t] \in Nat /\ ~Due(t) => Interval[t] - waited[t] \in Nat
      BY DEF Due
    <2>3. QED
      BY <2>1, <2>2 DEF DueAfter
  <1>2. FairSpec /\ []StepsCanRun => Steps
    BY TickDescends
  <1>3. TickInduction(t) => (Steps => (Measured ~> ran[t] \/ Due(t)))
    BY DEF TickInduction
  <1> HIDE DEF Measured, Steps
  <1>4. QED
    BY <1>1, <1>2, <1>3, WaitInvariance, PTL DEF FairSpec, Ripens

\* If walks and intervals end, every scheduled task is called.
LEMMA CallFromPasses ==
  /\ FairSpec /\ []Fairness /\ []StepsCanRun
  /\ \A p \in Pipeline : PassEnds(p)
  /\ \A t \in Task : Ripens(t)
  => EventuallyCalled
  <1> SUFFICES ASSUME NEW t \in Task
               PROVE  /\ FairSpec /\ []Fairness /\ []StepsCanRun
                      /\ PassEnds(Target[t]) /\ Ripens(t)
                      => IsCalled(t)
    BY TaskAssumption DEF EventuallyCalled
  <1>1. FairSpec /\ []Fairness /\ []StepsCanRun => Always
    BY WaitInvariance, PTL DEF FairSpec, Spec, Always
  <1>2. Always => (Armed(t) ~> Listed(t))
    BY HandEmpties
  <1>3. Always => <>(Drained(t) \/ Abandoned(t))
    BY DrainingBegins
  <1>4. Always /\ PassEnds(Target[t]) => (Ripe(t) ~> Over(t) \/ Starved(t))
    BY RipeIsCalled
  <1>5. Wants(t) /\ WaitInv' /\ [Next]_vars => Wants(t)' \/ Over(t)'
    BY WantsStays
  <1>6. Wants(t) /\ WaitInv' /\ [Next]_vars =>
          /\ Listed(t) => Listed(t)' \/ Over(t)'
          /\ Drained(t) => Drained(t)'
    BY WantsStays, LifeMoves DEF Drained
  <1>7. /\ Armed(t) /\ WaitInv => Wants(t) \/ Over(t)
        /\ Wants(t) => Armed(t)
        /\ Wants(t) /\ Listed(t) /\ Drained(t) /\ Due(t) => Ripe(t)
        /\ ran[t] => Over(t)
        /\ Abandoned(t) => Over(t)
        /\ Over(t) => ran[t] \/ Abandoned(t)
    BY DEF Wants, Over, Ripe
  <1> DEFINE L == Wants(t) /\ Listed(t)
             D == Wants(t) /\ Listed(t) /\ Drained(t)
  <1>8. Always => (Wants(t) ~> L \/ Over(t))
    BY <1>2, <1>5, <1>7, PTL DEF Always
  <1>9. Always => (L ~> D \/ Over(t))
    <2>1. Always => [](TRUE => <>(Drained(t) \/ Abandoned(t)))
      BY <1>3, PTL DEF Always
    <2>2. QED
      BY <1>5, <1>6, <1>7, <2>1, PTL DEF Always
  <1>10. Always /\ Ripens(t) => (D ~> Ripe(t) \/ Over(t))
    BY <1>5, <1>6, <1>7, PTL DEF Always, Ripens
  <1>11. QED
    <2> HIDE DEF L, D
    <2>1. Always => (Armed(t) ~> L \/ Over(t))
      BY <1>7, <1>8, PTL DEF Always
    <2>2. QED
      BY <1>1, <1>4, <1>7, <1>9, <1>10, <2>1, PTL DEF IsCalled

-----------------------------------------------------------------------------
(* A callback that waits for the game is told that it is ready.            *)

\* The poll t is scheduled and has still to hand its callback over.
Asks(t) ==
  WaitInv /\ Armed(t) /\ ~Abandoned(t) /\ ~Armed(Callback[t]) /\ ~ran[Callback[t]]

Told(t) == Armed(Callback[t]) \/ ran[Callback[t]] \/ Abandoned(t)

\* A poll goes on until it has handed its callback over.
LEMMA AsksStays ==
  ASSUME NEW t \in InitTask, Asks(t), WaitInv', [Next]_vars
  PROVE  /\ Asks(t)' \/ Told(t)'
         /\ Listed(t) => Listed(t)'
  <1>1. t \in Task
    BY DEF InitTask
  <1>2. TypeOK /\ TypeOK'
    BY DEF Asks, WaitInv, LiveInv, IInv
  <1>3. ASSUME NEW q \in Pipeline, Finish(q), ret[q] = "end" PROVE t # Running(q)
    BY <1>3 DEF Finish, FinishWith, Asks, WaitInv, Handed
  <1>4. Armed(t)'
    BY <1>1, <1>2, <1>3, ArmedStays DEF Asks
  <1>5. \A c \in Caller : pending'[c] = t => pending[c] = t
    BY <1>1, <1>2, TaskStays DEF Asks
  <1>6. QED
    BY <1>4, <1>5 DEF Asks, Told, Listed

\* A poll that has found the game ready hands its callback over.
LEMMA PolledIsTold ==
  ASSUME NEW t \in InitTask
  PROVE  Always =>
           (Asks(t) /\ pc["main"] = "run" /\ Running("main") = t /\ ret["main"] = "register"
              ~> Told(t))
  <1> DEFINE p == "main"
             Polled == Asks(t) /\ pc[p] = "run" /\ Running(p) = t /\ ret[p] = "register"
             Free == pending[p] = None
  <1>p. p \in Pipeline /\ p \in Caller /\ t \in Task /\ Kind[t] = "init"
    BY InitTaskAssumption, TaskAssumption DEF InitTask, Caller
  <1>0. Polled => WaitInv /\ LiveInv /\ IInv /\ TypeOK
    BY DEF Asks, WaitInv, LiveInv, IInv
  <1>1. ASSUME Polled, Drain(p) PROVE Told(t)'
    <2>1. ScheduleCallback(p)
      BY <1>1 DEF Drain, Enter, EnterUnless, Merge, MergeTo, Skip, AtTask, Start, StartOn,
                  Finish, FinishWith, Leave, Exit
    <2>2. pending'[p] = Callback[t]
      BY <1>0, <1>1, <1>p, <2>1
         DEF ScheduleCallback, ScheduleCallbackAnd, Stamp, StampAt, TypeOK
    <2>3. Armed(Callback[t])'
      BY <1>p, <2>2 DEF Armed
    <2>4. QED
      BY <2>3 DEF Told
  <1>2. ASSUME Polled, WaitInv', [Next]_vars PROVE Polled' \/ Told(t)'
    <2>1. CASE queue'[p] = queue[p] /\ idx'[p] = idx[p] /\ pc'[p] = pc[p] /\ ret'[p] = ret[p]
      <3>1. Running(p)' = Running(p)
        BY <2>1 DEF Running
      <3>2. QED
        BY <1>2, <2>1, <3>1, AsksStays
    <2>2. QED
      BY <1>0, <1>1, <1>2, <1>p, <2>1, DrainAlone
  <1>3. ASSUME Polled, Free, WaitInv', [Next]_vars PROVE (Polled /\ Free)' \/ Told(t)'
    <2>1. ASSUME ScheduleCallback(p) PROVE Told(t)'
      BY <1>1, <1>3, <2>1 DEF Drain
    <2>2. CASE pending'[p] # pending[p]
      BY <1>0, <1>3, <1>p, <2>1, <2>2, PendingMoves
    <2>3. QED
      BY <1>2, <1>3, <2>2
  <1>4. Polled /\ <<Add(p)>>_vars => Free'
    BY <1>0, <1>p DEF Add, TypeOK
  <1>5. Polled /\ ~Free /\ AddCanRun(p) => ENABLED <<Add(p)>>_vars
    BY DEF AddCanRun
  <1>6. Polled /\ Free /\ DrainCanRun(p) => ENABLED <<Drain(p)>>_vars
    BY <1>0, <1>p, CallbackIsFree DEF DrainCanRun
  <1>7. /\ Fairness => DrainsFairly(p) /\ AddsFairly(p)
        /\ StepsCanRun => DrainCanRun(p) /\ AddCanRun(p)
    BY <1>p DEF Fairness, StepsCanRun
  <1> HIDE DEF Polled, Free
  <1>8. Always => (Polled ~> (Polled /\ Free) \/ Told(t))
    BY <1>2, <1>4, <1>5, <1>7, PTL DEF Always, AddsFairly
  <1>9. Always => ((Polled /\ Free) ~> Told(t))
    BY <1>1, <1>3, <1>6, <1>7, PTL DEF Always, DrainsFairly
  <1>10. Always => (Polled ~> Told(t))
    BY <1>8, <1>9, PTL
  <1>11. QED
    BY <1>10 DEF Polled

\* Once the game stays ready, the walks of main come to the poll and it hands
\* its callback over.
LEMMA AskedIsTold ==
  ASSUME NEW t \in InitTask
  PROVE  Always /\ PassEnds("main") => [](Asks(t) /\ []online => <>Told(t))
  <1> DEFINE p == "main"
             A == Asks(t) /\ Listed(t) /\ Drained(t)
             In(where) == A /\ pc[p] = where
             Near == A /\ Ahead(t)
             Polled == Asks(t) /\ pc[p] = "run" /\ Running(p) = t /\ ret[p] = "register"
             Walking == pc[p] \in {"scan", "run"}
             Idle == pc[p] = "idle"
  <1>p. /\ p \in Pipeline /\ t \in Task /\ Kind[t] = "init"
        /\ Target[t] = p /\ p \notin Thread /\ p \notin Intermittent
    BY InitTaskAssumption, TaskAssumption DEF InitTask, Thread, Intermittent
  <1>0. Asks(t) => WaitInv /\ LiveInv /\ IInv /\ TypeOK
    BY DEF Asks, WaitInv, LiveInv, IInv
  <1>d. Asks(t) => Due(t)
    <2>1. Asks(t) => waited[t] \in Nat /\ Interval[t] = 0
      BY <1>0, <1>p, InitTaskAssumption DEF TypeOK
    <2>2. QED
      BY <2>1 DEF Due
  <1>s. ASSUME A, WaitInv', [Next]_vars PROVE A' \/ Told(t)'
    BY <1>s, AsksStays, LifeMoves DEF Drained
  <1>1. A => In("idle") \/ In("entered") \/ (A /\ Walking)
    <2>1. A => pc[p] # "exited"
      BY <1>p DEF Asks, WaitInv, ExitedByKill
    <2>2. QED
      BY <1>0, <1>p, <2>1 DEF TypeOK
  <1>2. ASSUME In("idle"), WaitInv', [Next]_vars
        PROVE  In("idle")' \/ In("entered")' \/ Told(t)'
    <2>1. pc'[p] # "exited"
      BY <1>2, <1>p DEF WaitInv, ExitedByKill
    <2>2. pc'[p] \in {"idle", "entered", "exited"}
      BY <1>2, <1>0, <1>p, DrainAlone, DrainMoves
    <2>3. QED
      BY <1>2, <1>s, <2>1, <2>2
  <1>3. ASSUME In("entered"), WaitInv', [Next]_vars
        PROVE  In("entered")' \/ Near' \/ Told(t)'
    <2>1. CASE Drain(p)
      <3>1. Ahead(t)'
        BY <1>0, <1>3, <1>p, <2>1, MergeTakes
      <3>2. QED
        BY <1>3, <1>s, <3>1
    <2>2. QED
      BY <1>0, <1>3, <1>p, <1>s, <2>1, DrainAlone
  <1>4. ASSUME Near, online, WaitInv', [Next]_vars PROVE Near' \/ Polled' \/ Told(t)'
    <2>1. CASE Start(p) /\ Running(p) = t
      <3>1. /\ pc'[p] = "run" /\ Running(p)' = t
            /\ ret'[p] \in Outcomes(t)
        BY <1>0, <1>4, <1>p, <2>1 DEF Start, StartOn, Running, TypeOK
      <3>2. ret'[p] = "register"
        BY <1>4, <1>p, <3>1 DEF Outcomes, OutcomesOr
      <3>3. QED
        BY <1>4, <1>s, <3>1, <3>2
    <2>2. CASE ~(Start(p) /\ Running(p) = t)
      <3>1. TypeOK'
        BY <1>4 DEF WaitInv, LiveInv, IInv
      <3>2. Ahead(t)'
        BY <1>0, <1>4, <1>d, <1>p, <2>2, <3>1, WalkReaches
      <3>3. QED
        BY <1>4, <1>s, <3>2
    <2>3. QED
      BY <2>1, <2>2
  <1>5. /\ In("idle") /\ <<Drain(p)>>_vars => ~In("idle")'
        /\ In("entered") /\ <<Drain(p)>>_vars => ~In("entered")'
    BY <1>0, <1>p, DrainMoves
  <1>6. /\ In("entered") /\ DrainCanRun(p) => ENABLED <<Drain(p)>>_vars
        /\ In("idle") /\ DrainCanRun(p) => ENABLED <<Drain(p)>>_vars
    BY <1>p DEF DrainCanRun, Drained
  <1>7. Near => Walking /\ ~Idle
    BY <1>p DEF Ahead
  <1>8. /\ Fairness => DrainsFairly(p)
        /\ StepsCanRun => DrainCanRun(p)
    BY <1>p DEF Fairness, StepsCanRun
  <1>9. (A /\ Idle => In("idle")) /\ (A => Asks(t) /\ Listed(t))
    OBVIOUS
  <1>q. PassEnds("main") => (Walking ~> Idle)
    BY DEF PassEnds
  <1>10. Asks(t) /\ Listed(t) /\ Drained(t) => A
    OBVIOUS
  <1>11. ASSUME Asks(t), WaitInv', [Next]_vars
         PROVE  /\ Asks(t)' \/ Told(t)'
                /\ Listed(t) => Listed(t)'
                /\ Drained(t) => Drained(t)'
    BY <1>11, AsksStays, LifeMoves DEF Drained
  <1>12. (Asks(t) => Armed(t)) /\ (Abandoned(t) => Told(t))
    BY DEF Asks, Told
  <1>13. Always => (Polled ~> Told(t))
    BY PolledIsTold
  <1>14. Always => (Armed(t) ~> Listed(t))
    BY <1>p, HandEmpties
  <1>15. Always => [](TRUE => <>(Drained(t) \/ Abandoned(t)))
    <2>1. Always => <>(Drained(t) \/ Abandoned(t))
      BY <1>p, DrainingBegins
    <2>2. QED
      BY <2>1, PTL DEF Always
  <1> HIDE DEF p, A, In, Near, Polled, Walking, Idle
  <1>16. Always /\ PassEnds("main") => [](Near /\ []online => <>Told(t))
    BY <1>4, <1>7, <1>13, <1>q, PTL DEF Always
  <1>17. Always => (In("entered") ~> Near \/ Told(t))
    BY <1>3, <1>5, <1>6, <1>8, PTL DEF Always, DrainsFairly
  <1>18. Always => (In("idle") ~> In("entered") \/ Told(t))
    BY <1>2, <1>5, <1>6, <1>8, PTL DEF Always, DrainsFairly
  <1>19. Always /\ PassEnds("main") => (A ~> In("idle") \/ In("entered") \/ Told(t))
    BY <1>1, <1>9, <1>s, <1>q, PTL DEF Always
  <1>20. Always => (Asks(t) ~> (Asks(t) /\ Listed(t)) \/ Told(t))
    BY <1>11, <1>12, <1>14, PTL DEF Always
  <1>21. Always => ((Asks(t) /\ Listed(t)) ~> A \/ Told(t))
    BY <1>10, <1>11, <1>12, <1>15, PTL DEF Always
  <1>22. Always /\ PassEnds("main") => (Asks(t) ~> Near \/ Told(t))
    BY <1>17, <1>18, <1>19, <1>20, <1>21, PTL
  <1>23. QED
    BY <1>16, <1>22, PTL

\* If walks and intervals end, a callback waiting for the game is called if the
\* game stays ready.
LEMMA ReadyFromPasses ==
  /\ FairSpec /\ []Fairness /\ []StepsCanRun
  /\ \A p \in Pipeline : PassEnds(p)
  /\ \A t \in Task : Ripens(t)
  => ReadyIsTold
  <1> DEFINE Given == /\ FairSpec /\ []Fairness /\ []StepsCanRun
                      /\ \A p \in Pipeline : PassEnds(p)
                      /\ \A t \in Task : Ripens(t)
  <1>1. ASSUME NEW t \in InitTask PROVE Given => IsTold(t)
    <2> DEFINE cb == Callback[t]
    <2>1. t \in Task /\ cb \in Task /\ "main" \in Pipeline
      BY InitTaskAssumption, TaskAssumption DEF InitTask
    <2>2. Given => IsCalled(cb)
      BY <2>1, CallFromPasses DEF EventuallyCalled
    <2>3. Given => Always
      <3>1. FairSpec /\ []Fairness /\ []StepsCanRun => Always
        BY WaitInvariance, PTL DEF FairSpec, Spec, Always
      <3>2. QED
        BY <3>1
    <2>4. Given => PassEnds("main")
      BY <2>1
    <2>5. Always /\ PassEnds("main") => [](Asks(t) /\ []online => <>Told(t))
      BY AskedIsTold
    <2>6. Armed(t) /\ WaitInv => Asks(t) \/ Told(t)
      BY DEF Asks, Told
    <2>7. Asks(t) /\ WaitInv' /\ [Next]_vars => Asks(t)' \/ Told(t)'
      BY AsksStays
    <2>8. Told(t) => Armed(cb) \/ ran[cb] \/ Abandoned(t)
      BY DEF Told
    <2> HIDE DEF cb, Given
    <2>9. Always /\ PassEnds("main") => (Armed(t) ~> Told(t) \/ []<>(~online))
      BY <2>5, <2>6, <2>7, PTL DEF Always
    <2>10. QED
      BY <2>2, <2>3, <2>4, <2>8, <2>9, PTL DEF IsCalled, IsTold, cb
  <1> HIDE DEF Given
  <1>2. Given => \A t \in InitTask : IsTold(t)
    BY <1>1
  <1>3. QED
    BY <1>2 DEF Given, ReadyIsTold

-----------------------------------------------------------------------------
(* The two together, with the rules of induction alone.                    *)

Inductions ==
  /\ \A p \in Pipeline : WalkInduction(p)
  /\ \A t \in Task : TickInduction(t)

LEMMA AllEnds ==
  FairSpec /\ []StepsCanRun /\ Inductions =>
    /\ \A p \in Pipeline : PassEnds(p)
    /\ \A t \in Task : Ripens(t)
  <1> DEFINE Given == FairSpec /\ []StepsCanRun /\ Inductions
  <1>1. ASSUME NEW p \in Pipeline PROVE Given => PassEnds(p)
    BY WalksEnd DEF Inductions
  <1>2. ASSUME NEW t \in Task PROVE Given => Ripens(t)
    BY EachRipens DEF Inductions
  <1> HIDE DEF Given
  <1>3. QED
    BY <1>1, <1>2 DEF Given

\* Every scheduled task is called, whatever is scheduled around it, unless
\* its pipeline is abandoned by a shutdown, or starved (EventuallyCalled).
THEOREM EachIsCalled ==
  FairSpec /\ []Fairness /\ []StepsCanRun /\ Inductions => EventuallyCalled
  BY AllEnds, CallFromPasses

\* A callback waiting for the game is called if the game stays ready, under
\* the same provisos (ReadyIsTold).
THEOREM ReadyComes ==
  FairSpec /\ []Fairness /\ []StepsCanRun /\ Inductions => ReadyIsTold
  BY AllEnds, ReadyFromPasses
=============================================================================

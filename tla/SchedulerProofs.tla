-------------------------- MODULE SchedulerProofs ---------------------------
(***************************************************************************)
(* Proofs about Scheduler.                                                 *)
(***************************************************************************)
EXTENDS Scheduler, SequenceTheorems, TLAPS

-----------------------------------------------------------------------------
(* Facts about sequences.                                                  *)

\* Erasing an element of a list shifts those behind it by one.
LEMMA RemoveAtFacts ==
  ASSUME NEW S, NEW s \in Seq(S), NEW i \in DOMAIN s
  PROVE  /\ RemoveAt(s, i) \in Seq(S)
         /\ Len(RemoveAt(s, i)) = Len(s) - 1
         /\ \A k \in 1 .. (Len(s) - 1) :
              RemoveAt(s, i)[k] = IF k < i THEN s[k] ELSE s[k + 1]
  <1> DEFINE pre == SubSeq(s, 1, i - 1)
             post == SubSeq(s, i + 1, Len(s))
  <1>1. /\ pre \in Seq(S) /\ Len(pre) = i - 1
        /\ \A k \in 1 .. (i - 1) : pre[k] = s[k]
    OBVIOUS
  <1>2. /\ post \in Seq(S) /\ Len(post) = Len(s) - i
        /\ \A k \in 1 .. (Len(s) - i) : post[k] = s[i + k]
    OBVIOUS
  <1>3. RemoveAt(s, i) = pre \o post
    BY DEF RemoveAt
  <1> HIDE DEF pre, post
  <1>4. QED
    BY <1>1, <1>2, <1>3

\* Where the elements of a concatenation come from.
LEMMA ConcatFacts ==
  ASSUME NEW S, NEW a \in Seq(S), NEW b \in Seq(S)
  PROVE  /\ a \o b \in Seq(S)
         /\ Len(a \o b) = Len(a) + Len(b)
         /\ \A i \in DOMAIN a : i \in DOMAIN (a \o b) /\ (a \o b)[i] = a[i]
         /\ \A i \in DOMAIN b :
              Len(a) + i \in DOMAIN (a \o b) /\ (a \o b)[Len(a) + i] = b[i]
         /\ \A i \in DOMAIN (a \o b) :
              \/ i \in DOMAIN a
              \/ i - Len(a) \in DOMAIN b /\ (a \o b)[i] = b[i - Len(a)]
  <1>1. /\ Len(a) \in Nat /\ Len(b) \in Nat
        /\ DOMAIN a = 1 .. Len(a) /\ DOMAIN b = 1 .. Len(b)
    BY LenProperties
  <1>2. /\ a \o b \in Seq(S)
        /\ Len(a \o b) = Len(a) + Len(b)
        /\ \A i \in 1 .. Len(a) + Len(b) :
             (a \o b)[i] = IF i <= Len(a) THEN a[i] ELSE b[i - Len(a)]
    BY ConcatProperties
  <1>3. DOMAIN (a \o b) = 1 .. Len(a) + Len(b)
    BY <1>2, LenProperties
  <1> DEFINE c == a \o b
  <1> HIDE DEF c
  <1>4. /\ c \in Seq(S)
        /\ Len(c) = Len(a) + Len(b)
        /\ \A i \in 1 .. Len(a) + Len(b) :
             c[i] = IF i <= Len(a) THEN a[i] ELSE b[i - Len(a)]
        /\ DOMAIN c = 1 .. Len(a) + Len(b)
    BY <1>2, <1>3 DEF c
  <1>5. \A i \in DOMAIN a : i \in DOMAIN c /\ c[i] = a[i]
    BY <1>1, <1>4
  <1>6. \A i \in DOMAIN b : Len(a) + i \in DOMAIN c /\ c[Len(a) + i] = b[i]
    BY <1>1, <1>4
  <1>7. \A i \in DOMAIN c : i \in DOMAIN a \/ (i - Len(a) \in DOMAIN b /\ c[i] = b[i - Len(a)])
    BY <1>1, <1>4
  <1>8. QED
    BY <1>4, <1>5, <1>6, <1>7 DEF c

\* Appending to the rear part of a concatenation.
LEMMA AppendConcat ==
  ASSUME NEW S, NEW a \in Seq(S), NEW b \in Seq(S), NEW x \in S
  PROVE  a \o Append(b, x) = Append(a \o b, x)
  <1>1. /\ Append(b, x) = b \o <<x>>
        /\ Append(a \o b, x) = (a \o b) \o <<x>>
    BY AppendIsConcat, ConcatProperties
  <1> DEFINE y == <<x>>
  <1>2. y \in Seq(S)
    OBVIOUS
  <1> HIDE DEF y
  <1>3. (a \o b) \o y = a \o (b \o y)
    BY <1>2, ConcatAssociative
  <1>4. QED
    BY <1>1, <1>3 DEF y

\* Erasing from the front part of a concatenation.
LEMMA RemoveAtConcat ==
  ASSUME NEW S, NEW a \in Seq(S), NEW b \in Seq(S), NEW i \in DOMAIN a
  PROVE  RemoveAt(a, i) \o b = RemoveAt(a \o b, i)
  <1> DEFINE c == a \o b
             u == RemoveAt(a, i) \o b
             v == RemoveAt(c, i)
  <1>1. /\ Len(a) \in Nat /\ Len(b) \in Nat
        /\ DOMAIN a = 1 .. Len(a) /\ DOMAIN b = 1 .. Len(b)
    BY LenProperties
  <1>2. /\ c \in Seq(S) /\ Len(c) = Len(a) + Len(b) /\ i \in DOMAIN c
        /\ \A k \in 1 .. Len(a) + Len(b) :
             c[k] = IF k <= Len(a) THEN a[k] ELSE b[k - Len(a)]
    BY ConcatProperties, ConcatFacts
  <1>3. /\ RemoveAt(a, i) \in Seq(S) /\ Len(RemoveAt(a, i)) = Len(a) - 1
        /\ \A k \in 1 .. (Len(a) - 1) :
             RemoveAt(a, i)[k] = IF k < i THEN a[k] ELSE a[k + 1]
    BY RemoveAtFacts
  <1>4. /\ u \in Seq(S) /\ Len(u) = Len(a) - 1 + Len(b)
        /\ \A k \in 1 .. Len(a) - 1 + Len(b) :
             u[k] = IF k <= Len(a) - 1 THEN RemoveAt(a, i)[k] ELSE b[k - (Len(a) - 1)]
    BY <1>3, ConcatProperties
  <1> HIDE DEF c
  <1>5. /\ v \in Seq(S) /\ Len(v) = Len(c) - 1
        /\ \A k \in 1 .. (Len(c) - 1) : v[k] = IF k < i THEN c[k] ELSE c[k + 1]
    BY <1>2, RemoveAtFacts
  <1> HIDE DEF u, v
  <1>6. Len(u) = Len(v) /\ Len(u) = Len(a) - 1 + Len(b)
    BY <1>1, <1>2, <1>4, <1>5
  <1>7. ASSUME NEW k \in 1 .. Len(u) PROVE u[k] = v[k]
    <2>1. k \in Int /\ i \in 1 .. Len(a) /\ k \in 1 .. Len(a) - 1 + Len(b)
      BY <1>1, <1>6, <1>7
    <2>2. CASE k < i
      BY <1>1, <1>2, <1>3, <1>4, <1>5, <2>1, <2>2
    <2>3. CASE k >= i /\ k <= Len(a) - 1
      BY <1>1, <1>2, <1>3, <1>4, <1>5, <2>1, <2>3
    <2>4. CASE k > Len(a) - 1
      <3>1. u[k] = b[k - (Len(a) - 1)] /\ v[k] = c[k + 1]
        BY <1>1, <1>2, <1>4, <1>5, <2>1, <2>4
      <3>2. c[k + 1] = b[k + 1 - Len(a)]
        BY <1>1, <1>2, <2>1, <2>4
      <3>3. k + 1 - Len(a) = k - (Len(a) - 1)
        BY <1>1, <2>1
      <3>4. QED
        BY <3>1, <3>2, <3>3
    <2>5. QED
      BY <1>1, <2>1, <2>2, <2>3, <2>4
  <1>8. u = v
    BY <1>4, <1>5, <1>6, <1>7, SeqEqual
  <1>9. QED
    BY <1>8 DEF c, u, v

-----------------------------------------------------------------------------
(* Type correctness.                                                       *)

\* Next, one disjunct per way a step can happen.
LEMMA NextCases ==
  ASSUME [Next]_vars
  PROVE  \/ \E c \in Caller : Add(c) \/ \E t \in Task : Schedule(c, t)
         \/ \E p \in Pipeline :
              \/ Enter(p) \/ Merge(p) \/ Skip(p) \/ Start(p)
              \/ ScheduleCallback(p) \/ Finish(p) \/ Leave(p) \/ Exit(p)
         \/ PostStart \/ PostUnpack \/ PreDestroy \/ JoinAsync \/ JoinNetwork
         \/ Tick \/ GameChanges
         \/ UNCHANGED vars
  BY DEF Next, Drain, Destroy

\* The initial state has the right types.
LEMMA TypeInit ==
  ASSUME Init
  PROVE  TypeOK
  <1>1. <<>> \in Seq(Task)
    OBVIOUS
  <1>2. /\ fresh \in [Pipeline -> Seq(Task)]
        /\ queue \in [Pipeline -> Seq(Task)]
    BY <1>1 DEF Init
  <1>3. /\ waited \in [Task -> Nat] /\ ran \in [Task -> BOOLEAN]
        /\ pending \in [Caller -> Task \union {None}]
    BY DEF Init
  <1>4. /\ pc \in [Pipeline -> {"idle", "entered", "scan", "run", "exited"}]
        /\ \A p \in Pipeline : pc[p] # "run"
        /\ idx \in [Pipeline -> Nat \ {0}]
        /\ ret \in [Pipeline -> {"continue", "end", "register"}]
        /\ visited \in [Pipeline -> SUBSET Task]
    BY DEF Init
  <1>5. QED
    BY <1>2, <1>3, <1>4 DEF Init, TypeOK

\* Every step of the scheduler keeps the types.
LEMMA TypeStep ==
  ASSUME TypeOK, [Next]_vars
  PROVE  TypeOK'
  <1> USE TaskAssumption DEF TypeOK, lists, clocks, drain, component, game
  <1>1. ASSUME NEW c \in Caller, NEW t \in Task, Schedule(c, t) PROVE TypeOK'
    BY <1>1 DEF Schedule, Stamp, StampAt
  <1>2. ASSUME NEW c \in Caller, Add(c) PROVE TypeOK'
    BY <1>2 DEF Add
  <1>3. ASSUME NEW p \in Pipeline, Enter(p) PROVE TypeOK'
    <2>1. /\ pc' = [pc EXCEPT ![p] = "entered"]
          /\ UNCHANGED <<lists, clocks, pending, idx, ret, visited, component, game>>
      BY <1>3 DEF Enter, EnterUnless
    <2>2. QED
      BY <2>1
  <1>4. ASSUME NEW p \in Pipeline, Merge(p) PROVE TypeOK'
    <2>1. queue[p] \o fresh[p] \in Seq(Task) /\ <<>> \in Seq(Task)
      OBVIOUS
    <2>2. QED
      BY <1>4, <2>1 DEF Merge, MergeTo
  <1>5. ASSUME NEW p \in Pipeline, Skip(p) PROVE TypeOK'
    <2>1. pc[p] = "scan" /\ Running(p) \in Task
      BY <1>5 DEF Skip, AtTask, Running
    <2>2. QED
      BY <1>5, <2>1 DEF Skip, Visit
  <1>6. ASSUME NEW p \in Pipeline, Start(p) PROVE TypeOK'
    <2>1. /\ Running(p) \in Task /\ idx[p] \in DOMAIN queue[p]
          /\ queue' = queue
          /\ UNCHANGED <<idx, fresh, pending, component, game>>
      BY <1>6 DEF Start, StartOn, AtTask, Running
    <2>2. \E r \in {"end", "continue", "register"} : ret' = [ret EXCEPT ![p] = r]
      BY <1>6 DEF Start, StartOn, Outcomes, OutcomesOr
    <2>3. \A q \in Pipeline : pc'[q] = "run" => idx'[q] \in DOMAIN queue'[q]
      BY <1>6, <2>1 DEF Start, StartOn
    <2>4. /\ waited' \in [Task -> Nat] /\ ran' \in [Task -> BOOLEAN]
          /\ pc' \in [Pipeline -> {"idle", "entered", "scan", "run", "exited"}]
          /\ visited' \in [Pipeline -> SUBSET Task]
      <3>1. /\ waited' = [waited EXCEPT ![Running(p)] = 0]
            /\ ran' = [ran EXCEPT ![Running(p)] = TRUE]
            /\ pc' = [pc EXCEPT ![p] = "run"]
            /\ visited' = [visited EXCEPT ![p] = @ \union {Running(p)}]
        BY <1>6 DEF Start, StartOn, Visit
      <3>2. /\ waited \in [Task -> Nat] /\ ran \in [Task -> BOOLEAN]
            /\ pc \in [Pipeline -> {"idle", "entered", "scan", "run", "exited"}]
            /\ visited \in [Pipeline -> SUBSET Task]
        OBVIOUS
      <3> QED
        BY <2>1, <3>1, <3>2
    <2>5. ret' \in [Pipeline -> {"end", "continue", "register"}]
      BY <2>2
    <2>6. QED
      BY <2>1, <2>3, <2>4, <2>5
  <1>7. ASSUME NEW p \in Pipeline, ScheduleCallback(p) PROVE TypeOK'
    <2>1. Callback[Running(p)] \in Task /\ p \in Caller
      BY <1>7 DEF ScheduleCallback, ScheduleCallbackAnd, Running, Caller
    <2>2. QED
      BY <1>7, <2>1 DEF ScheduleCallback, ScheduleCallbackAnd, Stamp, StampAt
  <1>8. ASSUME NEW p \in Pipeline, Finish(p) PROVE TypeOK'
    <2>1. Remaining(p) \in Seq(Task)
      BY <1>8, RemoveAtFacts DEF Finish, FinishWith, Remaining
    <2>2. \E i \in Nat \ {0} : FinishWith(p, Remaining(p), i)
      BY <1>8 DEF Finish
    <2>3. PICK i \in Nat \ {0} : FinishWith(p, Remaining(p), i)
      BY <2>2
    <2>4. \A q \in Pipeline : pc'[q] = "run" =>
            q # p /\ pc[q] = "run" /\ queue'[q] = queue[q] /\ idx'[q] = idx[q]
      BY <2>3 DEF FinishWith
    <2>5. /\ queue' \in [Pipeline -> Seq(Task)] /\ idx' \in [Pipeline -> Nat \ {0}]
          /\ ret' \in [Pipeline -> {"continue", "end", "register"}]
          /\ pc' \in [Pipeline -> {"idle", "entered", "scan", "run", "exited"}]
          /\ UNCHANGED <<fresh, clocks, pending, visited, component, game>>
      BY <2>1, <2>3 DEF FinishWith
    <2>6. QED
      BY <2>4, <2>5
  <1>9. ASSUME NEW p \in Pipeline, Leave(p) PROVE TypeOK'
    BY <1>9 DEF Leave
  <1>10. ASSUME NEW p \in Pipeline, Exit(p) PROVE TypeOK'
    BY <1>10 DEF Exit
  <1>11. CASE PostStart \/ PostUnpack \/ PreDestroy \/ JoinAsync \/ JoinNetwork
    BY <1>11 DEF PostStart, PostUnpack, PreDestroy, JoinAsync, JoinNetwork
  <1>12. CASE Tick
    BY <1>12 DEF Tick
  <1>13. CASE GameChanges
    BY <1>13 DEF GameChanges
  <1>14. CASE UNCHANGED vars
    BY <1>14 DEF vars
  <1>15. QED
    BY <1>1, <1>2, <1>3, <1>4, <1>5, <1>6, <1>7, <1>8, <1>9, <1>10, <1>11,
       <1>12, <1>13, <1>14, NextCases

\* Every behaviour of the scheduler keeps its variables in their types; while
\* a handler runs the iterator points at a task of the list.
THEOREM TypeCorrect == Spec => []TypeOK
  <1>1. QED
    BY TypeInit, TypeStep, PTL DEF Spec

-----------------------------------------------------------------------------
(* The inductive invariant.                                                *)

\* Outside the walk the iterator and the set of visited tasks are fresh.
BetweenPasses ==
  \A p \in Pipeline : pc[p] \notin {"scan", "run"} =>
    idx[p] = 1 /\ visited[p] = {}

\* A task not yet merged into callbacks_ has not been called.
NewNotRan ==
  /\ \A c \in Caller : pending[c] # None => ~ran[pending[c]]
  /\ \A p \in Pipeline : \A i \in DOMAIN fresh[p] : ~ran[fresh[p][i]]

\* A task without a delay that the walk has passed was called.
VisitedRan ==
  \A p \in Pipeline : \A i \in DOMAIN queue[p] :
    queue[p][i] \in visited[p] /\ Interval[queue[p][i]] = 0 => ran[queue[p][i]]

\* What a handler will return fits its kind.
RetFits ==
  \A p \in Pipeline : pc[p] = "run" =>
    /\ Kind[Running(p)] = "once" => ret[p] = "end"
    /\ ret[p] = "register" => Kind[Running(p)] = "init"

\* pre_destroy joins a thread before it goes on.
JoinedInOrder ==
  /\ dst # "alive" <=> kill
  /\ dst \in {"join_network", "done"} /\ life # "new" /\ "async" \in Pipeline =>
       pc["async"] = "exited"
  /\ dst = "done" /\ life # "new" /\ "network" \in Pipeline =>
       pc["network"] = "exited"

\* A once task that was called and is still in the list is under the iterator.
OnceRan ==
  \A p \in Pipeline : \A i \in DOMAIN queue[p] :
    Kind[queue[p][i]] = "once" /\ ran[queue[p][i]] => pc[p] = "run" /\ i = idx[p]

PassInv == BetweenPasses /\ PassIsExact /\ VisitedRan

CallInv == NewNotRan /\ RetFits /\ OnceRan

IInv ==
  /\ TypeOK
  /\ OnePlace
  /\ PassInv
  /\ NoDelayNoOvertaking
  /\ CallInv
  /\ RegisteredOnce
  /\ JoinedInOrder
-----------------------------------------------------------------------------
(* Line(p), what a drain of p would walk.                                  *)

\* Where the tasks of callbacks_ and of new_callbacks_ stand in a line.
LEMMA LineFacts ==
  ASSUME TypeOK, NEW p \in Pipeline
  PROVE  /\ Line(p) \in Seq(Task)
         /\ \A i \in DOMAIN queue[p] : i \in DOMAIN Line(p) /\ Line(p)[i] = queue[p][i]
         /\ \A i \in DOMAIN fresh[p] :
              /\ Len(queue[p]) + i \in DOMAIN Line(p)
              /\ Line(p)[Len(queue[p]) + i] = fresh[p][i]
         /\ \A i \in DOMAIN Line(p) :
              \/ i \in DOMAIN queue[p]
              \/ /\ i - Len(queue[p]) \in DOMAIN fresh[p]
                 /\ Line(p)[i] = fresh[p][i - Len(queue[p])]
  <1> DEFINE a == queue[p]
             b == fresh[p]
  <1>1. a \in Seq(Task) /\ b \in Seq(Task) /\ Line(p) = a \o b
    BY DEF TypeOK, Line
  <1> HIDE DEF a, b
  <1>2. /\ a \o b \in Seq(Task)
        /\ \A i \in DOMAIN a : i \in DOMAIN (a \o b) /\ (a \o b)[i] = a[i]
        /\ \A i \in DOMAIN b :
             Len(a) + i \in DOMAIN (a \o b) /\ (a \o b)[Len(a) + i] = b[i]
        /\ \A i \in DOMAIN (a \o b) :
             \/ i \in DOMAIN a
             \/ i - Len(a) \in DOMAIN b /\ (a \o b)[i] = b[i - Len(a)]
    BY <1>1, ConcatFacts
  <1> DEFINE c == a \o b
  <1> HIDE DEF c
  <1>3. Line(p) = c
    BY <1>1 DEF c
  <1>4. QED
    BY <1>2, <1>3 DEF a, b, c

\* A task is scheduled when somebody has it in hand or it stands in a line.
LEMMA ArmedPlaces ==
  ASSUME TypeOK, NEW t \in Task
  PROVE  Armed(t) <=> \/ \E c \in Caller : pending[c] = t
                      \/ \E p \in Pipeline : \E i \in DOMAIN Line(p) : Line(p)[i] = t
  <1>1. ASSUME NEW p \in Pipeline
        PROVE  (t \in ToSet(fresh[p]) \/ t \in ToSet(queue[p]))
                 <=> \E i \in DOMAIN Line(p) : Line(p)[i] = t
    <2>1. ASSUME NEW i \in DOMAIN fresh[p], fresh[p][i] = t
          PROVE  \E j \in DOMAIN Line(p) : Line(p)[j] = t
      BY <2>1, LineFacts
    <2>2. ASSUME NEW i \in DOMAIN queue[p], queue[p][i] = t
          PROVE  \E j \in DOMAIN Line(p) : Line(p)[j] = t
      BY <2>2, LineFacts
    <2>3. ASSUME NEW j \in DOMAIN Line(p), Line(p)[j] = t
          PROVE  \/ \E i \in DOMAIN fresh[p] : fresh[p][i] = t
                 \/ \E i \in DOMAIN queue[p] : queue[p][i] = t
      BY <2>3, LineFacts
    <2>4. QED
      BY <2>1, <2>2, <2>3 DEF ToSet
  <1>2. QED
    BY <1>1 DEF Armed

\* add() lengthens one line ...
LEMMA AddLine ==
  ASSUME TypeOK, NEW c \in Caller, Add(c), NEW p \in Pipeline
  PROVE  Line(p)' = IF p = Target[pending[c]] THEN Append(Line(p), pending[c])
                                              ELSE Line(p)
  <1>1. /\ queue[p] \in Seq(Task) /\ fresh[p] \in Seq(Task)
        /\ pending[c] \in Task /\ queue' = queue
    BY DEF TypeOK, Add
  <1>2. fresh'[p] = IF p = Target[pending[c]] THEN Append(fresh[p], pending[c])
                                              ELSE fresh[p]
    BY DEF TypeOK, Add
  <1>3. queue[p] \o Append(fresh[p], pending[c])
          = Append(queue[p] \o fresh[p], pending[c])
    <2>1. \A a, b \in Seq(Task), x \in Task : a \o Append(b, x) = Append(a \o b, x)
      BY AppendConcat
    <2>2. QED
      BY <1>1, <2>1, Zenon
  <1>4. QED
    BY <1>1, <1>2, <1>3 DEF Line

\* ... merge_callbacks does not change it ...
LEMMA MergeLine ==
  ASSUME TypeOK, NEW q \in Pipeline, Merge(q), NEW p \in Pipeline
  PROVE  Line(p)' = Line(p)
  <1>1. queue[p] \in Seq(Task) /\ fresh[p] \in Seq(Task)
    BY DEF TypeOK
  <1>2. \/ queue'[p] = queue[p] \o fresh[p] /\ fresh'[p] = <<>>
        \/ queue'[p] = queue[p] /\ fresh'[p] = fresh[p]
    BY DEF TypeOK, Merge, MergeTo
  <1>3. (queue[p] \o fresh[p]) \o <<>> = queue[p] \o fresh[p]
    BY <1>1
  <1>4. QED
    BY <1>2, <1>3 DEF Line

\* ... and a returning handler may take its task out of it.
LEMMA FinishLine ==
  ASSUME TypeOK, NEW q \in Pipeline, Finish(q), NEW p \in Pipeline
  PROVE  /\ idx[q] \in DOMAIN queue[q] /\ idx[q] \in DOMAIN Line(q)
         /\ IF p = q /\ ret[q] = "end" THEN Line(p)' = RemoveAt(Line(p), idx[p])
                                       ELSE Line(p)' = Line(p)
  <1>1. /\ queue[p] \in Seq(Task) /\ fresh[p] \in Seq(Task)
        /\ fresh' = fresh /\ idx[q] \in DOMAIN queue[q]
    BY DEF TypeOK, Finish, FinishWith
  <1>2. queue'[p] = IF p = q THEN Remaining(p) ELSE queue[p]
    BY DEF TypeOK, Finish, FinishWith
  <1>3. ASSUME p = q
        PROVE  RemoveAt(queue[p], idx[p]) \o fresh[p] = RemoveAt(Line(p), idx[p])
    BY <1>1, <1>3, RemoveAtConcat DEF Line
  <1>4. idx[q] \in DOMAIN Line(q)
    BY <1>1, LineFacts
  <1>5. QED
    BY <1>1, <1>2, <1>3, <1>4 DEF Line, Remaining
-----------------------------------------------------------------------------
(* One place for every task.                                               *)

\* The steps that change no list and no task in a caller's hands.
LEMMA QuietSteps ==
  ASSUME TypeOK, [Next]_vars
  PROVE  \/ \E c \in Caller, t \in Task : Stamp(c, t) /\ UNCHANGED lists
         \/ \E c \in Caller : Add(c)
         \/ \E p \in Pipeline : Finish(p) /\ UNCHANGED pending
         \/ pending' = pending /\ \A p \in Pipeline : Line(p)' = Line(p)
  <1> USE DEF lists, clocks, drain, component, game
  <1>1. ASSUME NEW c \in Caller, NEW t \in Task, Schedule(c, t)
        PROVE  Stamp(c, t) /\ UNCHANGED lists
    BY <1>1 DEF Schedule
  <1>2. ASSUME NEW p \in Pipeline, ScheduleCallback(p)
        PROVE  \E c \in Caller, t \in Task : Stamp(c, t) /\ UNCHANGED lists
    <2>1. p \in Caller /\ Callback[Running(p)] \in Task
      BY <1>2, TaskAssumption DEF ScheduleCallback, ScheduleCallbackAnd, Running, Caller, TypeOK
    <2>2. QED
      BY <1>2, <2>1 DEF ScheduleCallback, ScheduleCallbackAnd
  <1>3. ASSUME NEW p \in Pipeline, Finish(p) PROVE UNCHANGED pending
    BY <1>3 DEF Finish, FinishWith
  <1>4. ASSUME NEW p \in Pipeline, Merge(p)
        PROVE  pending' = pending /\ \A q \in Pipeline : Line(q)' = Line(q)
    BY <1>4, MergeLine DEF Merge, MergeTo
  <1>5. ASSUME NEW p \in Pipeline, Enter(p) \/ Skip(p) \/ Leave(p) \/ Exit(p)
        PROVE  pending' = pending /\ \A q \in Pipeline : Line(q)' = Line(q)
    BY <1>5 DEF Enter, EnterUnless, Skip, Leave, Exit, Line
  <1>6. ASSUME NEW p \in Pipeline, Start(p)
        PROVE  pending' = pending /\ \A q \in Pipeline : Line(q)' = Line(q)
    BY <1>6 DEF Start, StartOn, TypeOK, Line
  <1>7. CASE \/ PostStart \/ PostUnpack \/ PreDestroy \/ JoinAsync \/ JoinNetwork
             \/ Tick \/ GameChanges \/ UNCHANGED vars
    BY <1>7 DEF PostStart, PostUnpack, PreDestroy, JoinAsync, JoinNetwork, Tick,
                GameChanges, vars, Line
  <1>8. QED
    BY <1>1, <1>2, <1>3, <1>4, <1>5, <1>6, <1>7, NextCases

\* Every step keeps a task in one place.
LEMMA OnePlaceStep ==
  ASSUME TypeOK, TypeOK', OnePlace, [Next]_vars
  PROVE  OnePlace'
  <1> USE DEF lists
  <1>1. ASSUME NEW c \in Caller, NEW t \in Task, Stamp(c, t), UNCHANGED lists
        PROVE  OnePlace'
    <2>1. \A p \in Pipeline : Line(p)' = Line(p)
      BY <1>1 DEF Line
    <2>2. /\ \A d \in Caller : pending[d] # t
          /\ \A p \in Pipeline : \A i \in DOMAIN Line(p) : Line(p)[i] # t
      BY <1>1, ArmedPlaces DEF Stamp, StampAt
    <2>3. pending' = [pending EXCEPT ![c] = t]
      BY <1>1 DEF Stamp, StampAt
    <2>4. \A d \in Caller : pending'[d] = IF d = c THEN t ELSE pending[d]
      BY <2>3 DEF TypeOK
    <2>5. QED
      BY <2>1, <2>2, <2>4 DEF OnePlace
  <1>2. ASSUME NEW c \in Caller, Add(c) PROVE OnePlace'
    <2>a. pending[c] \in Task /\ Target[pending[c]] \in Pipeline
      BY <1>2, TaskAssumption DEF Add, TypeOK
    <2>b. PICK x \in Task, q \in Pipeline : x = pending[c] /\ q = Target[x]
      BY <2>a
    <2>1. \A d \in Caller : pending'[d] = IF d = c THEN None ELSE pending[d]
      BY <1>2 DEF Add, TypeOK
    <2>2. \A p \in Pipeline : p # q => Line(p)' = Line(p)
      BY <1>2, <2>b, AddLine
    <2> DEFINE old == Line(q)
               new == Line(q)'
    <2>3. old \in Seq(Task) /\ new = Append(old, x)
      BY <1>2, <2>b, AddLine, LineFacts
    <2> HIDE DEF old, new
    <2>4. /\ DOMAIN old = 1 .. Len(old) /\ Len(old) \in Nat
          /\ DOMAIN new = 1 .. (Len(old) + 1)
          /\ \A i \in DOMAIN old : new[i] = old[i]
          /\ new[Len(old) + 1] = x
      BY <2>3, AppendProperties, LenProperties
    <2>5. /\ \A i \in DOMAIN old : Target[old[i]] = q /\ \A d \in Caller : pending[d] # old[i]
          /\ \A i, j \in DOMAIN old : old[i] = old[j] => i = j
      BY DEF OnePlace, old
    <2>6. \A i \in DOMAIN new : \/ i \in DOMAIN old /\ new[i] = old[i]
                                \/ i = Len(old) + 1 /\ new[i] = x
      BY <2>4
    <2>7. \A i \in DOMAIN old : old[i] # x
      BY <2>b, <2>5
    <2>8. \A i \in DOMAIN new : Target[new[i]] = q
      BY <2>b, <2>5, <2>6
    <2>9. \A i \in DOMAIN new : \A d \in Caller : pending'[d] # new[i]
      <3>1. \A d \in Caller : d # c => pending[d] # x
        BY <2>b, NoneAssumption DEF OnePlace
      <3>2. \A i \in DOMAIN new : new[i] # None
        BY <2>3, <2>4, <2>6, NoneAssumption, ElementOfSeq
      <3>3. QED
        BY <2>1, <2>5, <2>6, <3>1, <3>2
    <2>10. \A i, j \in DOMAIN new : new[i] = new[j] => i = j
      BY <2>5, <2>6, <2>7
    <2>11. \A d, e \in Caller : pending'[d] = pending'[e] => d = e \/ pending'[d] = None
      BY <2>1 DEF OnePlace
    <2>12. ASSUME NEW p \in Pipeline, p # q
           PROVE  /\ \A i \in DOMAIN Line(p)' :
                       Target[Line(p)'[i]] = p /\ \A d \in Caller : pending'[d] # Line(p)'[i]
                  /\ \A i, j \in DOMAIN Line(p)' : Line(p)'[i] = Line(p)'[j] => i = j
      <3>1. Line(p)' = Line(p)
        BY <2>2, <2>12
      <3>2. \A i \in DOMAIN Line(p) : Line(p)[i] # None
        BY LineFacts, LenProperties, ElementOfSeq, NoneAssumption
      <3>3. QED
        BY <2>1, <3>1, <3>2 DEF OnePlace
    <2>13. QED
      BY <2>8, <2>9, <2>10, <2>11, <2>12 DEF OnePlace, new
  <1>3. ASSUME NEW q \in Pipeline, Finish(q), UNCHANGED pending PROVE OnePlace'
    <2>1. \A p \in Pipeline : p # q \/ ret[q] # "end" => Line(p)' = Line(p)
      BY <1>3, FinishLine
    <2>2. CASE ret[q] # "end"
      BY <1>3, <2>1, <2>2 DEF OnePlace
    <2>3. CASE ret[q] = "end"
      <3> DEFINE old == Line(q)
                 new == Line(q)'
      <3>1. old \in Seq(Task) /\ idx[q] \in DOMAIN old /\ new = RemoveAt(old, idx[q])
        BY <1>3, <2>3, FinishLine, LineFacts
      <3>2. /\ \A i \in DOMAIN old :
                 Target[old[i]] = q /\ \A d \in Caller : pending[d] # old[i]
            /\ \A i, j \in DOMAIN old : old[i] = old[j] => i = j
        BY DEF OnePlace
      <3> HIDE DEF old, new
      <3>3. /\ DOMAIN old = 1 .. Len(old) /\ Len(old) \in Nat
            /\ DOMAIN new = 1 .. (Len(old) - 1)
            /\ \A k \in 1 .. (Len(old) - 1) :
                 new[k] = IF k < idx[q] THEN old[k] ELSE old[k + 1]
        BY <3>1, RemoveAtFacts, LenProperties
      <3> DEFINE src(k) == IF k < idx[q] THEN k ELSE k + 1
      <3>4. \A k \in DOMAIN new : src(k) \in DOMAIN old /\ new[k] = old[src(k)]
        BY <3>1, <3>3
      <3>5. \A k, l \in DOMAIN new : src(k) = src(l) => k = l
        BY <3>1, <3>3
      <3> HIDE DEF src
      <3>6. /\ \A i \in DOMAIN new :
                 Target[new[i]] = q /\ \A d \in Caller : pending[d] # new[i]
            /\ \A i, j \in DOMAIN new : new[i] = new[j] => i = j
        BY <3>2, <3>4, <3>5
      <3>7. QED
        BY <1>3, <2>1, <3>6 DEF OnePlace, new
    <2>4. QED
      BY <2>2, <2>3
  <1>4. CASE pending' = pending /\ \A p \in Pipeline : Line(p)' = Line(p)
    BY <1>4 DEF OnePlace
  <1>5. QED
    BY <1>1, <1>2, <1>3, <1>4, QuietSteps
-----------------------------------------------------------------------------
(* The walk of a pass.                                                     *)

\* The elements of a list are tasks, its indices a range, and by OnePlace no
\* task is in it twice.
LEMMA QueueFacts ==
  ASSUME TypeOK, OnePlace, NEW p \in Pipeline
  PROVE  /\ Len(queue[p]) \in Nat /\ DOMAIN queue[p] = 1 .. Len(queue[p])
         /\ \A i \in DOMAIN queue[p] : queue[p][i] \in Task /\ Armed(queue[p][i])
         /\ \A i, j \in DOMAIN queue[p] : queue[p][i] = queue[p][j] => i = j
         /\ \A i \in DOMAIN queue[p] : Target[queue[p][i]] = p
         /\ \A i \in DOMAIN queue[p], c \in Caller : pending[c] # queue[p][i]
         /\ \A i \in DOMAIN queue[p], j \in DOMAIN fresh[p] : fresh[p][j] # queue[p][i]
  <1>1. queue[p] \in Seq(Task) /\ fresh[p] \in Seq(Task)
    BY DEF TypeOK
  <1>2. /\ Len(queue[p]) \in Nat /\ DOMAIN queue[p] = 1 .. Len(queue[p])
        /\ \A i \in DOMAIN queue[p] : queue[p][i] \in Task
        /\ DOMAIN fresh[p] = 1 .. Len(fresh[p]) /\ Len(fresh[p]) \in Nat
    BY <1>1, LenProperties, ElementOfSeq
  <1>3. \A i \in DOMAIN queue[p] : Armed(queue[p][i])
    BY DEF Armed, ToSet
  <1>4. /\ \A i, j \in DOMAIN queue[p] : queue[p][i] = queue[p][j] => i = j
        /\ \A i \in DOMAIN queue[p] : Target[queue[p][i]] = p
        /\ \A i \in DOMAIN queue[p], c \in Caller : pending[c] # queue[p][i]
    BY LineFacts DEF OnePlace
  <1>5. ASSUME NEW i \in DOMAIN queue[p], NEW j \in DOMAIN fresh[p],
               fresh[p][j] = queue[p][i]
        PROVE  FALSE
    <2>1. i = Len(queue[p]) + j
      BY <1>5, LineFacts DEF OnePlace
    <2>2. QED
      BY <1>2, <2>1
  <1>6. QED
    BY <1>2, <1>3, <1>4, <1>5

\* Every step keeps the facts about the walk over callbacks_.
LEMMA PassStep ==
  ASSUME TypeOK, OnePlace, PassInv, [Next]_vars
  PROVE  PassInv'
  <1> USE DEF PassInv, BetweenPasses, PassIsExact, VisitedRan
  <1> USE DEF lists, clocks, drain, component, game
  <1>1. ASSUME NEW c \in Caller, NEW t \in Task, Stamp(c, t), UNCHANGED lists,
               UNCHANGED <<pc, idx, visited>>
        PROVE  PassInv'
    <2>1. \A p \in Pipeline : \A i \in DOMAIN queue[p] :
            queue[p][i] # t /\ queue[p][i] \in Task
      BY <1>1, QueueFacts DEF Stamp, StampAt
    <2>2. \A u \in Task : u # t => ran'[u] = ran[u]
      BY <1>1 DEF Stamp, StampAt, TypeOK
    <2>3. QED
      BY <1>1, <2>1, <2>2
  <1>2. ASSUME NEW c \in Caller, NEW t \in Task, Schedule(c, t) PROVE PassInv'
    BY <1>1, <1>2 DEF Schedule
  <1>3. ASSUME NEW p \in Pipeline, ScheduleCallback(p) PROVE PassInv'
    <2>1. p \in Caller /\ Callback[Running(p)] \in Task
      BY <1>3, TaskAssumption DEF ScheduleCallback, ScheduleCallbackAnd, Running, Caller, TypeOK
    <2>2. QED
      BY <1>1, <1>3, <2>1 DEF ScheduleCallback, ScheduleCallbackAnd
  <1>4. ASSUME NEW c \in Caller, Add(c) PROVE PassInv'
    BY <1>4 DEF Add
  <1>5. ASSUME NEW p \in Pipeline, Enter(p) \/ Exit(p) PROVE PassInv'
    <2>1. \E w \in {"entered", "exited"} : pc' = [pc EXCEPT ![p] = w]
      BY <1>5 DEF Enter, EnterUnless, Exit
    <2>2. pc[p] = "idle" /\ UNCHANGED <<queue, idx, visited, ran>>
      BY <1>5 DEF Enter, EnterUnless, Exit
    <2>3. \A q \in Pipeline : pc'[q] \in {"scan", "run"} <=> pc[q] \in {"scan", "run"}
      BY <2>1, <2>2 DEF TypeOK
    <2>4. \A q \in Pipeline : pc'[q] = "run" <=> pc[q] = "run"
      BY <2>1, <2>2 DEF TypeOK
    <2>5. QED
      BY <2>2, <2>3, <2>4
  <1>6. ASSUME NEW p \in Pipeline, Merge(p) PROVE PassInv'
    <2>1. /\ pc[p] = "entered" /\ idx[p] = 1 /\ visited[p] = {}
          /\ UNCHANGED <<idx, visited, ran>>
      BY <1>6 DEF Merge, MergeTo
    <2>2. \A q \in Pipeline : q # p => queue'[q] = queue[q] /\ pc'[q] = pc[q]
      BY <1>6 DEF Merge, MergeTo, TypeOK
    <2>3. pc'[p] = "scan"
      BY <1>6 DEF Merge, MergeTo, TypeOK
    <2>4. \A i \in DOMAIN queue'[p] : ~(i < 1)
      <3>1. queue'[p] \in Seq(Task)
        BY <1>6, ConcatProperties DEF Merge, MergeTo, TypeOK
      <3>2. QED
        BY <3>1, LenProperties
    <2>5. QED
      BY <2>1, <2>2, <2>3, <2>4
  <1>7. ASSUME NEW p \in Pipeline, Leave(p) PROVE PassInv'
    BY <1>7 DEF Leave, TypeOK
  <1>8. ASSUME NEW p \in Pipeline, Skip(p) \/ Start(p) PROVE PassInv'
    <2> DEFINE x == Running(p)
    <2>1. /\ pc[p] = "scan" /\ idx[p] \in DOMAIN queue[p] /\ x = queue[p][idx[p]] /\ x \in Task
          /\ visited' = [visited EXCEPT ![p] = @ \union {x}]
          /\ queue' = queue
      BY <1>8, QueueFacts DEF Skip, Start, StartOn, AtTask, Running, Visit, TypeOK
    <2>2. \/ /\ ~Due(x) /\ pc' = pc /\ idx' = [idx EXCEPT ![p] = @ + 1] /\ ran' = ran
          \/ /\ pc' = [pc EXCEPT ![p] = "run"] /\ idx' = idx
             /\ ran' = [ran EXCEPT ![x] = TRUE]
      BY <1>8 DEF Skip, Start, StartOn
    <2>3. \A q \in Pipeline : q # p =>
            pc'[q] = pc[q] /\ idx'[q] = idx[q] /\ visited'[q] = visited[q]
      BY <2>1, <2>2 DEF TypeOK
    <2>4. \A t \in Task : ran'[t] = ran[t] \/ (t = x /\ ran'[t])
      <3>1. CASE ran' = ran
        BY <3>1
      <3>2. CASE ran' = [ran EXCEPT ![x] = TRUE]
        BY <2>1, <3>2, Zenon DEF TypeOK
      <3>3. QED
        BY <2>2, <3>1, <3>2
    <2> HIDE DEF x
    <2>5. Interval[x] = 0 => ran'[x]
      BY <2>1, <2>2, TaskAssumption DEF Due, TypeOK
    <2>6. visited'[p] = visited[p] \union {x}
      BY <2>1 DEF TypeOK
    <2>7. \/ pc'[p] = "scan" /\ idx'[p] = idx[p] + 1
          \/ pc'[p] = "run" /\ idx'[p] = idx[p]
      BY <2>1, <2>2 DEF TypeOK
    <2>8. \A i \in DOMAIN queue[p] :
            queue[p][i] \in visited'[p] <=> i < idx[p] \/ i = idx[p]
      BY <2>1, <2>6, QueueFacts
    <2>9. \A i \in DOMAIN queue'[p] :
            queue'[p][i] \in visited'[p]
              <=> i < idx'[p] \/ (i = idx'[p] /\ pc'[p] = "run")
      BY <2>1, <2>7, <2>8, QueueFacts DEF TypeOK
    <2>10. PassIsExact'
      BY <2>1, <2>3, <2>9
    <2>11. BetweenPasses'
      BY <2>3, <2>7
    <2>12. ASSUME NEW q \in Pipeline, NEW i \in DOMAIN queue[q],
                  queue[q][i] \in visited'[q], Interval[queue[q][i]] = 0
           PROVE  ran'[queue[q][i]]
      BY <2>3, <2>4, <2>5, <2>6, <2>12, QueueFacts
    <2>13. QED
      BY <2>1, <2>10, <2>11, <2>12
  <1>9. ASSUME NEW p \in Pipeline, Finish(p) PROVE PassInv'
    <2>1. /\ pc[p] = "run" /\ pc' = [pc EXCEPT ![p] = "scan"]
          /\ idx[p] \in DOMAIN queue[p] /\ UNCHANGED <<visited, ran>>
          /\ queue' = [queue EXCEPT ![p] = Remaining(p)]
          /\ idx' = [idx EXCEPT ![p] = IF ret[p] = "end" THEN idx[p] ELSE idx[p] + 1]
      BY <1>9 DEF Finish, FinishWith, TypeOK
    <2>2. \A q \in Pipeline : q # p =>
            pc'[q] = pc[q] /\ idx'[q] = idx[q] /\ queue'[q] = queue[q]
      BY <2>1 DEF TypeOK
    <2>3. pc'[p] = "scan"
      BY <2>1 DEF TypeOK
    <2>4. queue[p] \in Seq(Task) /\ idx[p] \in Nat \ {0} /\ visited' = visited /\ ran' = ran
      BY <2>1 DEF TypeOK
    <2>5. CASE ret[p] = "end"
      <3>1. queue'[p] = RemoveAt(queue[p], idx[p]) /\ idx'[p] = idx[p]
        BY <2>1, <2>5 DEF TypeOK, Remaining
      <3>2. /\ DOMAIN queue'[p] = 1 .. (Len(queue[p]) - 1)
            /\ \A k \in 1 .. (Len(queue[p]) - 1) :
                 queue'[p][k] = IF k < idx[p] THEN queue[p][k] ELSE queue[p][k + 1]
        <4>1. /\ RemoveAt(queue[p], idx[p]) \in Seq(Task)
              /\ Len(RemoveAt(queue[p], idx[p])) = Len(queue[p]) - 1
              /\ \A k \in 1 .. (Len(queue[p]) - 1) :
                   RemoveAt(queue[p], idx[p])[k]
                     = IF k < idx[p] THEN queue[p][k] ELSE queue[p][k + 1]
          <5>1. \A s \in Seq(Task) : \A i \in DOMAIN s :
                  /\ RemoveAt(s, i) \in Seq(Task)
                  /\ Len(RemoveAt(s, i)) = Len(s) - 1
                  /\ \A k \in 1 .. (Len(s) - 1) :
                       RemoveAt(s, i)[k] = IF k < i THEN s[k] ELSE s[k + 1]
            BY RemoveAtFacts
          <5>2. QED
            BY <2>1, <2>4, <5>1, Zenon
        <4>2. QED
          BY <3>1, <4>1, LenProperties
      <3>3. \A i \in DOMAIN queue[p] : queue[p][i] \in visited[p] <=> i <= idx[p]
        BY <2>1, <2>4, QueueFacts
      <3>4. \A k \in DOMAIN queue'[p] :
              \E j \in DOMAIN queue[p] : /\ queue'[p][k] = queue[p][j]
                                         /\ j <= idx[p] <=> k < idx[p]
        <4>1. ASSUME NEW k \in DOMAIN queue'[p], k < idx[p]
              PROVE  k \in DOMAIN queue[p] /\ queue'[p][k] = queue[p][k] /\ k <= idx[p]
          BY <2>1, <2>4, <3>2, <4>1, QueueFacts
        <4>2. ASSUME NEW k \in DOMAIN queue'[p], ~(k < idx[p])
              PROVE  k + 1 \in DOMAIN queue[p] /\ queue'[p][k] = queue[p][k + 1] /\ ~(k + 1 <= idx[p])
          <5>1. /\ k \in Int /\ k <= Len(queue[p]) - 1 /\ k >= 1 /\ Len(queue[p]) \in Nat
                /\ idx[p] \in Int /\ ~(k < idx[p])
            BY <2>4, <3>2, <4>2, QueueFacts
          <5>2. k + 1 \in DOMAIN queue[p] /\ ~(k + 1 <= idx[p])
            BY <5>1, QueueFacts
          <5>3. QED
            BY <3>2, <4>2, <5>2
        <4>3. QED
          BY <4>1, <4>2
      <3>5. QED
        BY <2>2, <2>3, <2>4, <3>1, <3>3, <3>4
    <2>6. CASE ret[p] # "end"
      <3>1. queue' = queue /\ idx'[p] = idx[p] + 1
        BY <2>1, <2>6 DEF TypeOK, Remaining
      <3>2. \A i \in DOMAIN queue[p] : i < idx[p] + 1 <=> i < idx[p] \/ i = idx[p]
        BY <2>4, QueueFacts
      <3>3. QED
        BY <2>1, <2>2, <2>3, <2>4, <3>1, <3>2
    <2>7. QED
      BY <2>5, <2>6
  <1>10. CASE \/ PostStart \/ PostUnpack \/ PreDestroy \/ JoinAsync \/ JoinNetwork
              \/ Tick \/ GameChanges \/ UNCHANGED vars
    BY <1>10 DEF PostStart, PostUnpack, PreDestroy, JoinAsync, JoinNetwork, Tick,
                 GameChanges, vars
  <1>11. QED
    BY <1>2, <1>3, <1>4, <1>5, <1>6, <1>7, <1>8, <1>9, <1>10, NextCases
-----------------------------------------------------------------------------
(* Calls.                                                                  *)

\* Every step keeps the order of the tasks without a delay.
LEMMA OvertakingStep ==
  ASSUME TypeOK, TypeOK', OnePlace, OnePlace', PassInv, PassInv', NewNotRan,
         NoDelayNoOvertaking, [Next]_vars
  PROVE  NoDelayNoOvertaking'
  <1> USE DEF NoDelayNoOvertaking
  <1> USE DEF lists, clocks, drain, component, game
  <1>0. \A p \in Pipeline : /\ DOMAIN Line(p) = 1 .. Len(Line(p)) /\ Len(Line(p)) \in Nat
                            /\ \A i \in DOMAIN Line(p) : Line(p)[i] \in Task
    BY LineFacts, LenProperties, ElementOfSeq
  <1>1. ASSUME NEW c \in Caller, NEW t \in Task, Stamp(c, t), UNCHANGED lists
        PROVE  NoDelayNoOvertaking'
    <2>1. \A p \in Pipeline : Line(p)' = Line(p)
      BY <1>1 DEF Line
    <2>2. \A p \in Pipeline : \A i \in DOMAIN Line(p) : Line(p)[i] # t
      BY <1>1, ArmedPlaces DEF Stamp, StampAt
    <2>3. \A u \in Task : u # t => ran'[u] = ran[u]
      BY <1>1 DEF Stamp, StampAt, TypeOK
    <2>4. QED
      BY <1>0, <2>1, <2>2, <2>3
  <1>2. ASSUME NEW c \in Caller, Add(c) PROVE NoDelayNoOvertaking'
    <2>1. /\ pending[c] \in Task /\ ~ran[pending[c]] /\ ran' = ran
      BY <1>2 DEF Add, NewNotRan, TypeOK
    <2>2. SUFFICES ASSUME NEW p \in Pipeline, NEW i \in DOMAIN Line(p)', NEW j \in DOMAIN Line(p)',
                          i < j, Interval[Line(p)'[i]] = 0, ran[Line(p)'[j]]
                   PROVE  ran[Line(p)'[i]]
      BY <2>1
    <2>3. CASE p # Target[pending[c]]
      BY <1>2, <2>2, <2>3, AddLine
    <2>4. CASE p = Target[pending[c]]
      <3>1. Line(p)' = Append(Line(p), pending[c])
        BY <1>2, <2>4, AddLine
      <3>2. Line(p) \in Seq(Task)
        BY LineFacts
      <3>3. /\ DOMAIN Line(p)' = 1 .. (Len(Line(p)) + 1)
            /\ \A k \in DOMAIN Line(p) : Line(p)'[k] = Line(p)[k]
            /\ Line(p)'[Len(Line(p)) + 1] = pending[c]
        BY <2>1, <3>1, <3>2, AppendProperties, LenProperties
      <3>4. j # Len(Line(p)) + 1
        BY <2>1, <2>2, <3>3
      <3>5. i \in DOMAIN Line(p) /\ j \in DOMAIN Line(p)
        BY <1>0, <2>2, <3>3, <3>4
      <3>6. QED
        BY <2>2, <3>3, <3>5
    <2>5. QED
      BY <2>3, <2>4
  <1>3. ASSUME NEW q \in Pipeline, Finish(q) PROVE NoDelayNoOvertaking'
    <2>1. ran' = ran
      BY <1>3 DEF Finish, FinishWith
    <2>2. SUFFICES ASSUME NEW p \in Pipeline, NEW i \in DOMAIN Line(p)', NEW j \in DOMAIN Line(p)',
                          i < j, Interval[Line(p)'[i]] = 0, ran[Line(p)'[j]]
                   PROVE  ran[Line(p)'[i]]
      BY <2>1
    <2>3. CASE ~(p = q /\ ret[q] = "end")
      BY <1>3, <2>2, <2>3, FinishLine
    <2>4. CASE p = q /\ ret[q] = "end"
      <3>1. idx[p] \in DOMAIN Line(p) /\ Line(p)' = RemoveAt(Line(p), idx[p])
        BY <1>3, <2>4, FinishLine
      <3>2. Line(p) \in Seq(Task)
        BY LineFacts
      <3>3. /\ DOMAIN Line(p)' = 1 .. (Len(Line(p)) - 1)
            /\ \A k \in 1 .. (Len(Line(p)) - 1) :
                 Line(p)'[k] = IF k < idx[p] THEN Line(p)[k] ELSE Line(p)[k + 1]
        BY <3>1, <3>2, RemoveAtFacts, LenProperties
      <3> DEFINE src(k) == IF k < idx[p] THEN k ELSE k + 1
      <3>4. \A k \in DOMAIN Line(p)' : src(k) \in DOMAIN Line(p) /\ Line(p)'[k] = Line(p)[src(k)]
        BY <1>0, <3>1, <3>3
      <3>5. src(i) < src(j)
        BY <1>0, <2>2, <3>1, <3>3
      <3> HIDE DEF src
      <3>6. QED
        BY <2>2, <3>4, <3>5
    <2>5. QED
      BY <2>3, <2>4
  <1>4. ASSUME NEW q \in Pipeline, Start(q) PROVE NoDelayNoOvertaking'
    <2> DEFINE x == queue[q][idx[q]]
    <2>1. /\ idx[q] \in DOMAIN queue[q] /\ queue' = queue /\ fresh' = fresh
          /\ pc[q] = "scan" /\ ran' = [ran EXCEPT ![x] = TRUE]
          /\ x \in Task /\ Target[x] = q
      BY <1>4, QueueFacts DEF Start, StartOn, AtTask, Running, TypeOK
    <2>2. \A p \in Pipeline : Line(p)' = Line(p)
      BY <2>1 DEF Line
    <2>3. SUFFICES ASSUME NEW p \in Pipeline, NEW i \in DOMAIN Line(p), NEW j \in DOMAIN Line(p),
                          i < j, Interval[Line(p)[i]] = 0, ran'[Line(p)[j]]
                   PROVE  ran'[Line(p)[i]]
      BY <2>2
    <2>4. \A t \in Task : /\ ran[t] => ran'[t]
                          /\ ran'[t] => ran[t] \/ t = x
      <3>1. \A t \in Task : ran'[t] = IF t = x THEN TRUE ELSE ran[t]
        BY <2>1, Zenon DEF TypeOK
      <3>2. QED
        BY <3>1
    <2>5. CASE ran[Line(p)[j]]
      BY <1>0, <2>3, <2>4, <2>5
    <2>6. CASE Line(p)[j] = x
      <3>1. p = q /\ j = idx[q]
        BY <2>1, <2>6, LineFacts DEF OnePlace
      <3>2. i \in DOMAIN queue[q] /\ Line(p)[i] = queue[q][i] /\ i < idx[q]
        BY <1>0, <2>1, <2>3, <3>1, LineFacts, QueueFacts
      <3>3. queue[q][i] \in visited[q]
        BY <2>1, <3>2 DEF PassInv, PassIsExact
      <3>4. ran[queue[q][i]]
        BY <2>3, <3>2, <3>3 DEF PassInv, VisitedRan
      <3>5. QED
        BY <1>0, <2>3, <2>4, <3>2, <3>4
    <2>7. QED
      BY <1>0, <2>3, <2>4, <2>5, <2>6
  <1>5. ASSUME ran' = ran, \A p \in Pipeline : Line(p)' = Line(p)
        PROVE  NoDelayNoOvertaking'
    BY <1>5
  <1>6. ASSUME NEW c \in Caller, NEW t \in Task, Schedule(c, t) PROVE NoDelayNoOvertaking'
    BY <1>1, <1>6 DEF Schedule
  <1>7. ASSUME NEW p \in Pipeline, ScheduleCallback(p) PROVE NoDelayNoOvertaking'
    <2>1. p \in Caller /\ Callback[Running(p)] \in Task
      BY <1>7, TaskAssumption DEF ScheduleCallback, ScheduleCallbackAnd, Running, Caller, TypeOK
    <2>2. QED
      BY <1>1, <1>7, <2>1 DEF ScheduleCallback, ScheduleCallbackAnd
  <1>8. ASSUME NEW p \in Pipeline, Merge(p) PROVE NoDelayNoOvertaking'
    BY <1>5, <1>8, MergeLine DEF Merge, MergeTo
  <1>9. ASSUME NEW p \in Pipeline, Enter(p) \/ Skip(p) \/ Leave(p) \/ Exit(p)
        PROVE  NoDelayNoOvertaking'
    BY <1>5, <1>9 DEF Enter, EnterUnless, Skip, Leave, Exit, Line
  <1>10. CASE \/ PostStart \/ PostUnpack \/ PreDestroy \/ JoinAsync \/ JoinNetwork
              \/ Tick \/ GameChanges \/ UNCHANGED vars
    BY <1>5, <1>10 DEF PostStart, PostUnpack, PreDestroy, JoinAsync, JoinNetwork,
                       Tick, GameChanges, vars, Line
  <1>11. QED
    BY <1>2, <1>3, <1>4, <1>6, <1>7, <1>8, <1>9, <1>10, NextCases

\* Every step keeps the order of the joins of pre_destroy.
LEMMA JoinedStep ==
  ASSUME TypeOK, JoinedInOrder, [Next]_vars
  PROVE  JoinedInOrder'
  <1> USE DEF JoinedInOrder
  <1> USE DEF lists, clocks, drain, component, game
  <1>1. ASSUME NEW p \in Pipeline, UNCHANGED component,
               \A q \in Pipeline : pc[q] = "exited" => pc'[q] = "exited"
        PROVE  JoinedInOrder'
    BY <1>1
  <1>2. ASSUME NEW p \in Pipeline,
               \/ Enter(p) \/ Merge(p) \/ Skip(p) \/ Start(p)
               \/ ScheduleCallback(p) \/ Finish(p) \/ Leave(p) \/ Exit(p)
        PROVE  JoinedInOrder'
    <2>1. UNCHANGED component
      BY <1>2 DEF Enter, EnterUnless, Merge, MergeTo, Skip, Start, StartOn,
                  ScheduleCallback, ScheduleCallbackAnd, Finish, FinishWith, Leave, Exit
    <2>2. pc' = pc \/ (pc[p] # "exited" /\ \E w : pc' = [pc EXCEPT ![p] = w])
      BY <1>2 DEF Enter, EnterUnless, Merge, MergeTo, Skip, Start, StartOn, AtTask,
                  ScheduleCallback, ScheduleCallbackAnd, Finish, FinishWith, Leave, Exit
    <2>3. \A q \in Pipeline : pc[q] = "exited" => pc'[q] = "exited"
      BY <2>2 DEF TypeOK
    <2>4. QED
      BY <1>1, <2>1, <2>3
  <1>3. ASSUME NEW c \in Caller, Add(c) \/ \E t \in Task : Schedule(c, t)
        PROVE  JoinedInOrder'
    BY <1>3 DEF Add, Schedule
  <1>4. CASE \/ PostStart \/ PostUnpack \/ PreDestroy \/ JoinAsync \/ JoinNetwork
    BY <1>4 DEF PostStart, PostUnpack, PreDestroy, JoinAsync, JoinNetwork, Joined,
                Thread, TypeOK
  <1>5. CASE Tick \/ GameChanges \/ UNCHANGED vars
    BY <1>5 DEF Tick, GameChanges, vars
  <1>6. QED
    BY <1>2, <1>3, <1>4, <1>5, NextCases

\* The steps that call no handler: ran goes down only, for a task that its
\* caller has in hand, and no task is called.
LEMMA NewNotRanStep ==
  ASSUME TypeOK, TypeOK', OnePlace, NewNotRan, [Next]_vars
  PROVE  NewNotRan'
  <1> USE DEF NewNotRan
  <1> USE DEF lists, clocks, drain, component, game
  <1>0. \A p \in Pipeline : \A i \in DOMAIN fresh[p] : fresh[p][i] \in Task
    BY ElementOfSeq, LenProperties DEF TypeOK
  <1>1. ASSUME NEW c \in Caller, NEW t \in Task, Stamp(c, t), UNCHANGED lists
        PROVE  NewNotRan'
    <2>1. \A u \in Task : ran'[u] = IF u = t THEN FALSE ELSE ran[u]
      BY <1>1, Zenon DEF Stamp, StampAt, TypeOK
    <2>2. \A u \in Task : ran'[u] => ran[u] /\ u # t
      BY <2>1
    <2>3. \A d \in Caller : pending'[d] = IF d = c THEN t ELSE pending[d]
      BY <1>1 DEF Stamp, StampAt, TypeOK
    <2>4. \A d \in Caller : pending'[d] # None => ~ran'[pending'[d]]
      BY <2>2, <2>3 DEF TypeOK
    <2>5. \A p \in Pipeline : \A i \in DOMAIN fresh[p] : ~ran'[fresh[p][i]]
      BY <1>0, <2>2
    <2>6. QED
      BY <1>1, <2>4, <2>5
  <1>2. ASSUME NEW c \in Caller, NEW t \in Task, Schedule(c, t) PROVE NewNotRan'
    BY <1>1, <1>2 DEF Schedule
  <1>3. ASSUME NEW p \in Pipeline, ScheduleCallback(p) PROVE NewNotRan'
    <2>1. p \in Caller /\ Callback[Running(p)] \in Task
      BY <1>3, TaskAssumption DEF ScheduleCallback, ScheduleCallbackAnd, Running, Caller, TypeOK
    <2>2. QED
      BY <1>1, <1>3, <2>1 DEF ScheduleCallback, ScheduleCallbackAnd
  <1>4. ASSUME NEW c \in Caller, Add(c) PROVE NewNotRan'
    <2>1. PICK x \in Task, q \in Pipeline : x = pending[c] /\ q = Target[x] /\ ~ran[x]
      BY <1>4, TaskAssumption DEF Add, TypeOK
    <2>2. /\ fresh' = [fresh EXCEPT ![q] = Append(@, x)] /\ ran' = ran
          /\ pending' = [pending EXCEPT ![c] = None]
      BY <1>4, <2>1 DEF Add
    <2>3. \A p \in Pipeline : p # q => fresh'[p] = fresh[p]
      BY <2>2 DEF TypeOK
    <2>4. fresh'[q] = Append(fresh[q], x) /\ fresh[q] \in Seq(Task)
      BY <2>2 DEF TypeOK
    <2> DEFINE old == fresh[q]
               new == fresh'[q]
    <2>5. old \in Seq(Task) /\ new = Append(old, x)
          /\ \A i \in DOMAIN old : ~ran[old[i]]
      BY <2>4
    <2> HIDE DEF old, new
    <2>6. /\ DOMAIN old = 1 .. Len(old) /\ Len(old) \in Nat
          /\ DOMAIN new = 1 .. (Len(old) + 1)
          /\ \A i \in DOMAIN old : new[i] = old[i]
          /\ new[Len(old) + 1] = x
      BY <2>5, AppendProperties, LenProperties
    <2>7. \A i \in DOMAIN new : ~ran[new[i]]
      BY <2>1, <2>5, <2>6
    <2>8. \A d \in Caller : pending'[d] # None => ~ran[pending'[d]]
      BY <2>2 DEF TypeOK
    <2>9. QED
      BY <2>2, <2>3, <2>7, <2>8 DEF new
  <1>5. ASSUME NEW q \in Pipeline, Start(q) PROVE NewNotRan'
    <2> DEFINE x == queue[q][idx[q]]
    <2>1. /\ idx[q] \in DOMAIN queue[q] /\ fresh' = fresh /\ pending' = pending
          /\ ran' = [ran EXCEPT ![x] = TRUE] /\ x \in Task /\ Target[x] = q
      BY <1>5, QueueFacts DEF Start, StartOn, AtTask, Running, TypeOK
    <2>2. \A t \in Task : t # x => ran'[t] = ran[t]
      BY <2>1 DEF TypeOK
    <2>3. \A c \in Caller : pending[c] # x
      BY <2>1, QueueFacts
    <2>4. ASSUME NEW p \in Pipeline, NEW j \in DOMAIN fresh[p] PROVE fresh[p][j] # x
      <3>1. \E k \in DOMAIN Line(p) : Line(p)[k] = fresh[p][j]
        BY LineFacts
      <3>2. Target[fresh[p][j]] = p
        BY <3>1 DEF OnePlace
      <3>3. QED
        BY <2>1, <3>2, QueueFacts
    <2>5. \A c \in Caller : pending[c] \in Task \union {None}
      BY DEF TypeOK
    <2> HIDE DEF x
    <2>6. QED
      BY <1>0, <2>1, <2>2, <2>3, <2>4, <2>5
  <1>6. ASSUME NEW p \in Pipeline, Merge(p) PROVE NewNotRan'
    <2>1. /\ ran' = ran /\ pending' = pending
          /\ \A q \in Pipeline : fresh'[q] = fresh[q] \/ fresh'[q] = <<>>
      BY <1>6 DEF Merge, MergeTo, TypeOK
    <2>2. QED
      BY <2>1
  <1>7. ASSUME NEW p \in Pipeline, Enter(p) \/ Skip(p) \/ Finish(p) \/ Leave(p) \/ Exit(p)
        PROVE  NewNotRan'
    BY <1>7 DEF Enter, EnterUnless, Skip, Finish, FinishWith, Leave, Exit
  <1>8. CASE \/ PostStart \/ PostUnpack \/ PreDestroy \/ JoinAsync \/ JoinNetwork
             \/ Tick \/ GameChanges \/ UNCHANGED vars
    BY <1>8 DEF PostStart, PostUnpack, PreDestroy, JoinAsync, JoinNetwork, Tick,
                GameChanges, vars
  <1>9. QED
    BY <1>2, <1>3, <1>4, <1>5, <1>6, <1>7, <1>8, NextCases

\* A drain leaves the other pipelines alone, and is inside of a handler only
\* if it was or has just called it.
LEMMA DrainSteps ==
  ASSUME TypeOK, NEW q \in Pipeline,
         \/ Enter(q) \/ Merge(q) \/ Skip(q) \/ Start(q)
         \/ ScheduleCallback(q) \/ Finish(q) \/ Leave(q) \/ Exit(q)
  PROVE  /\ \A p \in Pipeline : p # q =>
              /\ queue'[p] = queue[p] /\ idx'[p] = idx[p]
              /\ pc'[p] = pc[p] /\ ret'[p] = ret[p]
         /\ pc'[q] = "run" => pc[q] = "run" \/ Start(q)
  <1> USE DEF TypeOK, lists, drain
  <1>1. CASE Enter(q)
    BY <1>1 DEF Enter, EnterUnless
  <1>2. CASE Merge(q)
    BY <1>2 DEF Merge, MergeTo
  <1>3. CASE Skip(q)
    BY <1>3 DEF Skip
  <1>4. CASE Start(q)
    <2>1. UNCHANGED <<queue, idx>> /\ pc' = [pc EXCEPT ![q] = "run"]
      BY <1>4 DEF Start, StartOn
    <2>2. \E r : ret' = [ret EXCEPT ![q] = r]
      BY <1>4 DEF Start, StartOn
    <2>3. QED
      BY <1>4, <2>1, <2>2
  <1>5. CASE ScheduleCallback(q)
    BY <1>5 DEF ScheduleCallback, ScheduleCallbackAnd
  <1>6. CASE Finish(q)
    <2>1. \E s, i : FinishWith(q, s, i)
      BY <1>6 DEF Finish
    <2>2. QED
      BY <2>1 DEF FinishWith
  <1>7. CASE Leave(q)
    BY <1>7 DEF Leave
  <1>8. CASE Exit(q)
    BY <1>8 DEF Exit
  <1>9. QED
    BY <1>1, <1>2, <1>3, <1>4, <1>5, <1>6, <1>7, <1>8

\* A handler's return value is decided when it is called, and on the way it
\* can change only by the callback of a poll being handed over.
LEMMA RetFitsStep ==
  ASSUME TypeOK, TypeOK', OnePlace, RetFits, [Next]_vars
  PROVE  RetFits'
  <1> USE DEF RetFits, Running
  <1> USE DEF lists, clocks, drain, component, game
  <1>1. ASSUME NEW q \in Pipeline, Start(q) PROVE RetFits'
    <2>1. /\ idx' = idx /\ queue' = queue
          /\ \E r \in Outcomes(queue[q][idx[q]]) : ret' = [ret EXCEPT ![q] = r]
          /\ queue[q][idx[q]] \in Task
      <3>1. /\ UNCHANGED <<queue, idx>> /\ idx[q] \in DOMAIN queue[q]
        BY <1>1 DEF Start, StartOn, AtTask, TypeOK
      <3>2. \E r \in Outcomes(queue[q][idx[q]]) : ret' = [ret EXCEPT ![q] = r]
        BY <1>1 DEF Start, StartOn
      <3>3. QED
        BY <3>1, <3>2, QueueFacts
    <2>2. \A p \in Pipeline : p # q => pc'[p] = pc[p] /\ ret'[p] = ret[p]
      BY <1>1, DrainSteps
    <2>3. ret'[q] \in Outcomes(queue[q][idx[q]])
      BY <2>1 DEF TypeOK
    <2>4. /\ Kind[queue[q][idx[q]]] = "once" => ret'[q] = "end"
          /\ ret'[q] = "register" => Kind[queue[q][idx[q]]] = "init"
      BY <2>1, <2>3, TaskAssumption DEF Outcomes, OutcomesOr
    <2>5. QED
      BY <2>1, <2>2, <2>4
  <1>2. ASSUME NEW q \in Pipeline, ScheduleCallback(q) PROVE RetFits'
    <2>1. /\ UNCHANGED <<idx, queue, pc>> /\ ret' = [ret EXCEPT ![q] = "end"]
      BY <1>2 DEF ScheduleCallback, ScheduleCallbackAnd
    <2>2. \A p \in Pipeline : ret'[p] = ret[p] \/ ret'[p] = "end"
      BY <2>1 DEF TypeOK
    <2>3. QED
      BY <2>1, <2>2
  <1>3. ASSUME NEW q \in Pipeline,
               Enter(q) \/ Merge(q) \/ Skip(q) \/ Finish(q) \/ Leave(q) \/ Exit(q)
        PROVE  RetFits'
    <2>1. \A p \in Pipeline : pc'[p] = "run" =>
            pc[p] = "run" /\ queue'[p] = queue[p] /\ idx'[p] = idx[p] /\ ret'[p] = ret[p]
      <3>1. pc'[q] # "run"
        BY <1>3 DEF Enter, EnterUnless, Merge, MergeTo, Skip, AtTask, Finish, FinishWith,
                    Leave, Exit, TypeOK
      <3>2. QED
        BY <1>3, <3>1, DrainSteps
    <2>2. QED
      BY <2>1
  <1>4. ASSUME NEW c \in Caller, Add(c) \/ \E t \in Task : Schedule(c, t) PROVE RetFits'
    BY <1>4 DEF Add, Schedule
  <1>5. CASE \/ PostStart \/ PostUnpack \/ PreDestroy \/ JoinAsync \/ JoinNetwork
             \/ Tick \/ GameChanges \/ UNCHANGED vars
    BY <1>5 DEF PostStart, PostUnpack, PreDestroy, JoinAsync, JoinNetwork, Tick,
                GameChanges, vars
  <1>6. QED
    BY <1>1, <1>2, <1>3, <1>4, <1>5, NextCases

\* Every step keeps that a once task which was called is under the iterator.
LEMMA OnceRanStep ==
  ASSUME TypeOK, TypeOK', OnePlace, NewNotRan, RetFits, OnceRan, [Next]_vars
  PROVE  OnceRan'
  <1> USE DEF OnceRan
  <1> USE DEF lists, clocks, drain, component, game
  <1>0. \A p \in Pipeline : /\ DOMAIN queue[p] = 1 .. Len(queue[p]) /\ Len(queue[p]) \in Nat
                            /\ \A i \in DOMAIN queue[p] : queue[p][i] \in Task
    BY QueueFacts
  <1>1. ASSUME NEW c \in Caller, NEW t \in Task, Stamp(c, t), UNCHANGED lists,
               UNCHANGED <<pc, idx>>
        PROVE  OnceRan'
    <2>1. \A u \in Task : ran'[u] = IF u = t THEN FALSE ELSE ran[u]
      BY <1>1, Zenon DEF Stamp, StampAt, TypeOK
    <2>2. \A u \in Task : ran'[u] => ran[u]
      BY <2>1
    <2>3. QED
      BY <1>0, <1>1, <2>2
  <1>2. ASSUME NEW c \in Caller, NEW t \in Task, Schedule(c, t) PROVE OnceRan'
    BY <1>1, <1>2 DEF Schedule
  <1>3. ASSUME NEW p \in Pipeline, ScheduleCallback(p) PROVE OnceRan'
    <2>1. p \in Caller /\ Callback[Running(p)] \in Task
      BY <1>3, TaskAssumption DEF ScheduleCallback, ScheduleCallbackAnd, Running, Caller, TypeOK
    <2>2. QED
      BY <1>1, <1>3, <2>1 DEF ScheduleCallback, ScheduleCallbackAnd
  <1>4. ASSUME NEW c \in Caller, Add(c) PROVE OnceRan'
    BY <1>4 DEF Add
  <1>5. ASSUME NEW q \in Pipeline, Start(q) PROVE OnceRan'
    <2> DEFINE x == queue[q][idx[q]]
    <2>1. /\ idx[q] \in DOMAIN queue[q] /\ queue' = queue /\ idx' = idx
          /\ pc[q] = "scan" /\ pc' = [pc EXCEPT ![q] = "run"]
          /\ ran' = [ran EXCEPT ![x] = TRUE] /\ x \in Task /\ Target[x] = q
      <3>1. /\ idx[q] \in DOMAIN queue[q] /\ UNCHANGED <<queue, idx>>
            /\ pc[q] = "scan" /\ pc' = [pc EXCEPT ![q] = "run"]
        BY <1>5 DEF Start, StartOn, AtTask, TypeOK
      <3>2. ran' = [ran EXCEPT ![x] = TRUE]
        BY <1>5 DEF Start, StartOn, Running
      <3>3. QED
        BY <3>1, <3>2, QueueFacts
    <2>2. \A u \in Task : ran'[u] => ran[u] \/ u = x
      <3>1. \A u \in Task : u # x => ran'[u] = ran[u]
        BY <2>1 DEF TypeOK
      <3>2. QED
        BY <3>1
    <2>3. SUFFICES ASSUME NEW p \in Pipeline, NEW i \in DOMAIN queue[p],
                          Kind[queue[p][i]] = "once", ran'[queue[p][i]]
                   PROVE  pc'[p] = "run" /\ i = idx[p]
      BY <2>1
    <2>4. pc'[q] = "run" /\ (p # q => pc'[p] = pc[p])
      BY <2>1 DEF TypeOK
    <2>5. CASE queue[p][i] = x
      BY <2>1, <2>4, <2>5, QueueFacts
    <2>6. CASE queue[p][i] # x
      BY <1>0, <2>2, <2>3, <2>4, <2>6
    <2>7. QED
      BY <2>5, <2>6
  <1>6. ASSUME NEW q \in Pipeline, Merge(q) PROVE OnceRan'
    <2>1. /\ ran' = ran /\ pc[q] = "entered" /\ queue'[q] = Line(q)
      BY <1>6 DEF Merge, MergeTo, Line, TypeOK
    <2>2. ASSUME NEW i \in DOMAIN Line(q), Kind[Line(q)[i]] = "once", ran[Line(q)[i]]
          PROVE  FALSE
      <3>1. CASE i \in DOMAIN queue[q]
        BY <2>1, <2>2, <3>1, LineFacts
      <3>2. CASE i \notin DOMAIN queue[q]
        BY <2>2, <3>2, LineFacts DEF NewNotRan
      <3>3. QED
        BY <3>1, <3>2
    <2>3. \A p \in Pipeline : p # q =>
            queue'[p] = queue[p] /\ idx'[p] = idx[p] /\ pc'[p] = pc[p]
      BY <1>6, DrainSteps
    <2>4. QED
      BY <2>1, <2>2, <2>3
  <1>7. ASSUME NEW q \in Pipeline, Finish(q) PROVE OnceRan'
    <2>1. /\ ran' = ran /\ pc[q] = "run" /\ idx[q] \in DOMAIN queue[q]
          /\ queue'[q] = Remaining(q)
      BY <1>7 DEF Finish, FinishWith, TypeOK
    <2>2. \A p \in Pipeline : p # q =>
            queue'[p] = queue[p] /\ idx'[p] = idx[p] /\ pc'[p] = pc[p]
      BY <1>7, DrainSteps
    <2>3. \A i \in DOMAIN queue[q] :
            Kind[queue[q][i]] = "once" /\ ran[queue[q][i]] => i = idx[q] /\ ret[q] = "end"
      BY <2>1 DEF RetFits, Running
    <2>4. ASSUME NEW k \in DOMAIN queue'[q]
          PROVE  \E i \in DOMAIN queue[q] :
                   queue'[q][k] = queue[q][i] /\ (i = idx[q] => ret[q] # "end")
      <3>1. CASE ret[q] # "end"
        BY <2>1, <3>1, <2>4 DEF Remaining
      <3>2. CASE ret[q] = "end"
        <4> DEFINE s == queue[q]
                   i == idx[q]
                   u == queue'[q]
        <4>1. s \in Seq(Task) /\ i \in DOMAIN s /\ u = RemoveAt(s, i) /\ k \in DOMAIN u
          BY <2>1, <2>4, <3>2 DEF Remaining, TypeOK
        <4> HIDE DEF s, i, u
        <4>2. /\ DOMAIN s = 1 .. Len(s) /\ Len(s) \in Nat
              /\ DOMAIN u = 1 .. (Len(s) - 1)
              /\ \A l \in 1 .. (Len(s) - 1) : u[l] = IF l < i THEN s[l] ELSE s[l + 1]
          <5>1. /\ DOMAIN s = 1 .. Len(s) /\ Len(s) \in Nat
                /\ RemoveAt(s, i) \in Seq(Task) /\ Len(RemoveAt(s, i)) = Len(s) - 1
                /\ \A l \in 1 .. (Len(s) - 1) :
                     RemoveAt(s, i)[l] = IF l < i THEN s[l] ELSE s[l + 1]
            <6>1. \A v \in Seq(Task) : \A j \in DOMAIN v :
                    /\ DOMAIN v = 1 .. Len(v) /\ Len(v) \in Nat
                    /\ RemoveAt(v, j) \in Seq(Task) /\ Len(RemoveAt(v, j)) = Len(v) - 1
                    /\ \A l \in 1 .. (Len(v) - 1) :
                         RemoveAt(v, j)[l] = IF l < j THEN v[l] ELSE v[l + 1]
              BY RemoveAtFacts, LenProperties
            <6>2. QED
              BY <4>1, <6>1, Zenon
          <5>2. QED
            BY <4>1, <5>1, LenProperties
        <4>3. \E j \in DOMAIN s : u[k] = s[j] /\ j # i
          <5>1. CASE k < i
            BY <4>1, <4>2, <5>1
          <5>2. CASE ~(k < i)
            BY <4>1, <4>2, <5>2
          <5>3. QED
            BY <5>1, <5>2
        <4>4. QED
          BY <4>3 DEF s, i, u
      <3>3. QED
        BY <3>1, <3>2
    <2>5. \A k \in DOMAIN queue'[q] : ~(Kind[queue'[q][k]] = "once" /\ ran[queue'[q][k]])
      BY <2>3, <2>4
    <2>6. QED
      BY <2>1, <2>2, <2>5
  <1>8. ASSUME NEW p \in Pipeline, Enter(p) \/ Skip(p) \/ Leave(p) \/ Exit(p)
        PROVE  OnceRan'
    <2>1. ran' = ran /\ queue' = queue /\ pc[p] # "run"
      BY <1>8 DEF Enter, EnterUnless, Skip, AtTask, Leave, Exit
    <2>2. \A q \in Pipeline : q # p => idx'[q] = idx[q] /\ pc'[q] = pc[q]
      BY <1>8, DrainSteps
    <2>3. QED
      BY <2>1, <2>2
  <1>9. CASE \/ PostStart \/ PostUnpack \/ PreDestroy \/ JoinAsync \/ JoinNetwork
             \/ Tick \/ GameChanges \/ UNCHANGED vars
    BY <1>9 DEF PostStart, PostUnpack, PreDestroy, JoinAsync, JoinNetwork, Tick,
                GameChanges, vars
  <1>10. QED
    BY <1>2, <1>3, <1>4, <1>5, <1>6, <1>7, <1>8, <1>9, NextCases
-----------------------------------------------------------------------------
(* Polls and their callbacks.                                              *)

ArmedIsInPlace ==
  \A t \in Task :
    Armed(t) <=> \/ \E c \in Caller : pending[c] = t
                 \/ \E p \in Pipeline : \E i \in DOMAIN Line(p) : Line(p)[i] = t

\* The same of the next state.
LEMMA ArmedIsInPlaceNext == TypeOK' => ArmedIsInPlace'
  <1>1. TypeOK => ArmedIsInPlace
    BY ArmedPlaces DEF ArmedIsInPlace
  <1>2. QED
    BY <1>1, PTL

\* The same for one task.
LEMMA ArmedPlacesNext ==
  ASSUME TypeOK', NEW t \in Task
  PROVE  Armed(t)' <=> \/ \E c \in Caller : pending'[c] = t
                       \/ \E p \in Pipeline : \E i \in DOMAIN Line(p)' : Line(p)'[i] = t
  <1>1. QED
    BY ArmedIsInPlaceNext DEF ArmedIsInPlace

\* A task becomes scheduled by being stamped only.
LEMMA ArmedSteps ==
  ASSUME TypeOK, TypeOK', [Next]_vars, NEW u \in Task, Armed(u)'
  PROVE  Armed(u) \/ \E c \in Caller : Stamp(c, u)
  <1> USE DEF lists
  <1>a. Armed(u)' <=> \/ \E c \in Caller : pending'[c] = u
                      \/ \E p \in Pipeline : \E i \in DOMAIN Line(p)' : Line(p)'[i] = u
    BY ArmedPlacesNext
  <1>1. ASSUME NEW c \in Caller, NEW t \in Task, Stamp(c, t), UNCHANGED lists, t # u
        PROVE  Armed(u)
    <2>1. \A d \in Caller : pending'[d] = u => pending[d] = u
      BY <1>1 DEF Stamp, StampAt, TypeOK
    <2>2. QED
      BY <1>1, <2>1, ArmedPlaces, <1>a DEF Line
  <1>2. ASSUME NEW c \in Caller, Add(c) PROVE Armed(u)
    <2>1. pending[c] \in Task /\ \A d \in Caller : pending'[d] = u => pending[d] = u \/ u = None
      BY <1>2 DEF Add, TypeOK
    <2>2. ASSUME NEW p \in Pipeline, NEW i \in DOMAIN Line(p)', Line(p)'[i] = u
          PROVE  u = pending[c] \/ \E j \in DOMAIN Line(p) : Line(p)[j] = u
      <3>1. CASE p # Target[pending[c]]
        BY <1>2, <2>2, <3>1, AddLine
      <3>2. CASE p = Target[pending[c]]
        <4>1. Line(p) \in Seq(Task) /\ Line(p)' = Append(Line(p), pending[c])
          BY <1>2, <3>2, AddLine, LineFacts
        <4>2. /\ DOMAIN Line(p) = 1 .. Len(Line(p)) /\ Len(Line(p)) \in Nat
              /\ DOMAIN Line(p)' = 1 .. (Len(Line(p)) + 1)
              /\ \A k \in DOMAIN Line(p) : Line(p)'[k] = Line(p)[k]
              /\ Line(p)'[Len(Line(p)) + 1] = pending[c]
          BY <2>1, <4>1, AppendProperties, LenProperties
        <4>3. QED
          BY <2>2, <4>2
      <3>3. QED
        BY <3>1, <3>2
    <2>3. QED
      BY <1>a, <2>1, <2>2, ArmedPlaces, NoneAssumption
  <1>3. ASSUME NEW q \in Pipeline, Finish(q), UNCHANGED pending PROVE Armed(u)
    <2>1. ASSUME NEW p \in Pipeline, NEW k \in DOMAIN Line(p)', Line(p)'[k] = u
          PROVE  \E j \in DOMAIN Line(p) : Line(p)[j] = u
      <3>1. CASE ~(p = q /\ ret[q] = "end")
        BY <1>3, <2>1, <3>1, FinishLine
      <3>2. CASE p = q /\ ret[q] = "end"
        <4>1. /\ Line(p) \in Seq(Task) /\ idx[p] \in DOMAIN Line(p)
              /\ Line(p)' = RemoveAt(Line(p), idx[p])
          BY <1>3, <3>2, FinishLine, LineFacts
        <4>2. /\ DOMAIN Line(p) = 1 .. Len(Line(p)) /\ Len(Line(p)) \in Nat
              /\ DOMAIN Line(p)' = 1 .. (Len(Line(p)) - 1)
              /\ \A l \in 1 .. (Len(Line(p)) - 1) :
                   Line(p)'[l] = IF l < idx[p] THEN Line(p)[l] ELSE Line(p)[l + 1]
          BY <4>1, RemoveAtFacts, LenProperties
        <4>3. k \in DOMAIN Line(p) /\ k + 1 \in DOMAIN Line(p)
          BY <2>1, <4>2
        <4>4. QED
          BY <2>1, <4>2, <4>3
      <3>3. QED
        BY <3>1, <3>2
    <2>2. QED
      BY <1>3, <1>a, <2>1, ArmedPlaces
  <1>4. CASE pending' = pending /\ \A p \in Pipeline : Line(p)' = Line(p)
    BY <1>4, <1>a, ArmedPlaces
  <1>5. QED
    BY <1>1, <1>2, <1>3, <1>4, QuietSteps

\* A task whose handler returns cond_end is scheduled no more.
LEMMA EndedNotArmed ==
  ASSUME TypeOK, TypeOK', OnePlace, [Next]_vars,
         NEW q \in Pipeline, Finish(q), ret[q] = "end",
         NEW t \in Task, t = Running(q)
  PROVE  ~Armed(t)'
  <1>1. /\ t \in Task /\ Target[t] = q /\ idx[q] \in DOMAIN Line(q) /\ Line(q)[idx[q]] = t
        /\ Line(q)' = RemoveAt(Line(q), idx[q]) /\ Line(q) \in Seq(Task)
    BY FinishLine, LineFacts, QueueFacts DEF Running
  <1>2. \A p \in Pipeline : p # q => Line(p)' = Line(p)
    BY FinishLine
  <1>3. pending' = pending
    BY DEF Finish, FinishWith
  <1>4. /\ DOMAIN Line(q) = 1 .. Len(Line(q)) /\ Len(Line(q)) \in Nat
        /\ DOMAIN Line(q)' = 1 .. (Len(Line(q)) - 1)
        /\ \A l \in 1 .. (Len(Line(q)) - 1) :
             Line(q)'[l] = IF l < idx[q] THEN Line(q)[l] ELSE Line(q)[l + 1]
    BY <1>1, RemoveAtFacts, LenProperties
  <1>5. ASSUME NEW k \in DOMAIN Line(q)' PROVE Line(q)'[k] # t
    <2>1. \E j \in DOMAIN Line(q) : Line(q)'[k] = Line(q)[j] /\ j # idx[q]
      <3>0. idx[q] \in Nat /\ k \in Nat /\ 1 <= k /\ k <= Len(Line(q)) - 1
        BY <1>1, <1>4, <1>5
      <3>1. CASE k < idx[q]
        BY <1>4, <3>0, <3>1
      <3>2. CASE ~(k < idx[q])
        <4>1. Line(q)'[k] = Line(q)[k + 1] /\ k + 1 \in DOMAIN Line(q) /\ k + 1 # idx[q]
          BY <1>4, <3>0, <3>2
        <4>2. QED
          BY <4>1
      <3>3. QED
        BY <3>1, <3>2
    <2>2. QED
      BY <1>1, <2>1 DEF OnePlace
  <1>6. \A p \in Pipeline : p # q => \A k \in DOMAIN Line(p)' : Line(p)'[k] # t
    BY <1>1, <1>2 DEF OnePlace
  <1>7. \A c \in Caller : pending'[c] # t
    BY <1>1, <1>3 DEF OnePlace
  <1>8. QED
    BY <1>5, <1>6, <1>7, ArmedPlacesNext

\* Every step keeps a callback from being registered twice.
LEMMA RegisteredStep ==
  ASSUME TypeOK, TypeOK', OnePlace, RetFits, RegisteredOnce, [Next]_vars
  PROVE  RegisteredOnce'
  <1> USE DEF lists, clocks, drain, component, game
  <1>1. SUFFICES ASSUME NEW t \in Task, NEW v \in Task, t \in InitTask, v = Callback[t],
                        Armed(t)', Armed(v)'
                 PROVE  /\ pc'["main"] = "run" /\ queue'["main"][idx'["main"]] = t
                        /\ ret'["main"] = "end"
    BY TaskAssumption DEF RegisteredOnce, InitTask, Running
  <1>2. /\ "main" \in Pipeline /\ Target[t] = "main" /\ Kind[t] = "init" /\ Kind[v] = "once"
        /\ v \in Enclosed
    BY <1>1, TaskAssumption, InitTaskAssumption DEF InitTask, Enclosed
  <1> DEFINE At == /\ pc["main"] = "run" /\ queue["main"][idx["main"]] = t
                   /\ ret["main"] = "end"
  <1>3. Armed(t) /\ Armed(v) => At
    BY <1>1 DEF RegisteredOnce, Running
  <1>4. /\ Armed(t) \/ \E c \in Caller : Stamp(c, t)
        /\ Armed(v) \/ \E c \in Caller : Stamp(c, v)
    BY <1>1, ArmedSteps
  <1>5. ASSUME NEW c \in Caller, NEW u \in Task, Stamp(c, u), u # t, u # v
        PROVE  Armed(t) /\ Armed(v)
    <2>1. ASSUME NEW w \in Task, NEW d \in Caller, Stamp(d, w) PROVE w = u
      <3>1. pending[c] = None /\ pending[d] = None /\ u # None
        BY <1>5, <2>1, NoneAssumption DEF Stamp, StampAt
      <3>2. /\ pending' = [pending EXCEPT ![c] = u]
            /\ pending' = [pending EXCEPT ![d] = w]
        BY <1>5, <2>1 DEF Stamp, StampAt
      <3>3. pending'[c] = u /\ (c # d => pending'[c] = None) /\ (c = d => pending'[c] = w)
        BY <3>1, <3>2 DEF TypeOK
      <3>4. QED
        BY <3>1, <3>3
    <2>2. QED
      BY <1>4, <1>5, <2>1
  <1>6. ASSUME NEW c \in Caller, NEW u \in Task, Schedule(c, u) PROVE At'
    <2>1. /\ Stamp(c, u) /\ u # v /\ (u \in InitTask => ~Armed(Callback[u]))
          /\ UNCHANGED <<pc, queue, idx, ret>>
      BY <1>2, <1>6 DEF Schedule
    <2>2. CASE u = t
      <3>1. ~Armed(v)
        BY <1>1, <2>1, <2>2
      <3>2. PICK d \in Caller : Stamp(d, v)
        BY <1>4, <3>1
      <3>3. /\ pending[c] = None /\ pending[d] = None /\ u # None /\ v # None
            /\ pending' = [pending EXCEPT ![c] = u]
            /\ pending' = [pending EXCEPT ![d] = v]
        BY <2>1, <3>2, NoneAssumption DEF Stamp, StampAt
      <3>4. pending'[c] = u /\ (c # d => pending'[c] = None) /\ (c = d => pending'[c] = v)
        BY <3>3 DEF TypeOK
      <3>5. QED
        BY <2>1, <3>3, <3>4
    <2>3. CASE u # t
      BY <1>3, <1>5, <2>1, <2>3
    <2>4. QED
      BY <2>2, <2>3
  <1>7. ASSUME NEW p \in Pipeline, ScheduleCallback(p) PROVE At'
    <2> DEFINE x == queue[p][idx[p]]
    <2>1. /\ pc[p] = "run" /\ ret[p] = "register" /\ x \in Task /\ Target[x] = p
          /\ Kind[x] = "init" /\ ret' = [ret EXCEPT ![p] = "end"]
          /\ UNCHANGED <<pc, queue, idx>>
      BY <1>7, QueueFacts DEF ScheduleCallback, ScheduleCallbackAnd, TypeOK, RetFits, Running
    <2>2. /\ Stamp(p, Callback[x]) /\ Callback[x] \in Task /\ Kind[Callback[x]] = "once"
          /\ p \in Caller /\ x \in InitTask /\ p = "main"
      BY <1>7, <2>1, TaskAssumption, InitTaskAssumption
         DEF ScheduleCallback, ScheduleCallbackAnd, Running, Caller, InitTask, Enclosed
    <2>3. CASE Callback[x] = v
      <3>1. x = t
        BY <1>1, <2>2, <2>3, InitTaskAssumption
      <3>2. QED
        BY <2>1, <2>2, <3>1 DEF TypeOK
    <2>4. CASE Callback[x] # v
      <3>1. Callback[x] # t
        BY <1>2, <2>2
      <3>2. Armed(t) /\ Armed(v)
        BY <1>5, <2>2, <2>4, <3>1
      <3>3. QED
        BY <1>3, <2>1, <2>2, <3>2
    <2>5. QED
      BY <2>3, <2>4
  <1>8. ASSUME pending' = pending PROVE Armed(t) /\ Armed(v)
    <2>1. ASSUME NEW w \in Task, NEW d \in Caller, Stamp(d, w) PROVE FALSE
      <3>1. pending[d] = None /\ w # None /\ pending' = [pending EXCEPT ![d] = w]
        BY <2>1, NoneAssumption DEF Stamp, StampAt
      <3>2. pending'[d] = w
        BY <3>1 DEF TypeOK
      <3>3. QED
        BY <1>8, <3>1, <3>2
    <2>2. QED
      BY <1>4, <2>1
  <1>9. ASSUME NEW q \in Pipeline,
               \/ Enter(q) \/ Merge(q) \/ Skip(q) \/ Start(q)
               \/ Finish(q) \/ Leave(q) \/ Exit(q)
        PROVE  At'
    <2>1. pending' = pending
      BY <1>9 DEF Enter, EnterUnless, Merge, MergeTo, Skip, Start, StartOn, Finish,
                  FinishWith, Leave, Exit
    <2>2. At
      BY <1>3, <1>8, <2>1
    <2>3. CASE q # "main"
      BY <1>2, <1>9, <2>2, <2>3, DrainSteps
    <2>4. CASE q = "main"
      <3>1. Finish(q)
        BY <1>9, <2>2, <2>4 DEF Enter, EnterUnless, Merge, MergeTo, Skip, Start, StartOn,
                                AtTask, Leave, Exit
      <3>2. ret[q] = "end" /\ t = Running(q)
        BY <2>2, <2>4 DEF Running
      <3>3. ~Armed(t)'
        BY <3>1, <3>2, EndedNotArmed
      <3>4. QED
        BY <1>1, <3>3
    <2>5. QED
      BY <2>3, <2>4
  <1>10. ASSUME NEW c \in Caller, Add(c) PROVE At'
    <2>1. UNCHANGED <<queue, pc, idx, ret>> /\ pending[c] # None
          /\ pending' = [pending EXCEPT ![c] = None]
      BY <1>10 DEF Add
    <2>2. ASSUME NEW w \in Task, NEW d \in Caller, Stamp(d, w) PROVE FALSE
      <3>1. pending[d] = None /\ w # None /\ pending' = [pending EXCEPT ![d] = w]
        BY <2>2, NoneAssumption DEF Stamp, StampAt
      <3>2. c # d /\ pending'[d] = w /\ pending'[d] = pending[d]
        BY <2>1, <3>1 DEF TypeOK
      <3>3. QED
        BY <3>1, <3>2
    <2>3. QED
      BY <1>3, <1>4, <2>1, <2>2
  <1>11. CASE \/ PostStart \/ PostUnpack \/ PreDestroy \/ JoinAsync \/ JoinNetwork
              \/ Tick \/ GameChanges \/ UNCHANGED vars
    <2>1. UNCHANGED <<pending, queue, pc, idx, ret>>
      BY <1>11 DEF PostStart, PostUnpack, PreDestroy, JoinAsync, JoinNetwork, Tick,
                   GameChanges, vars
    <2>2. QED
      BY <1>3, <1>8, <2>1
  <1>12. QED
    BY <1>6, <1>7, <1>9, <1>10, <1>11, NextCases
-----------------------------------------------------------------------------
(* The invariants of Spec.                                                 *)

\* The inductive invariant holds initially.
LEMMA InitIInv ==
  ASSUME Init
  PROVE  IInv
  <1>1. TypeOK
    BY TypeInit
  <1>2. \A p \in Pipeline : /\ queue[p] = <<>> /\ fresh[p] = <<>> /\ pc[p] = "idle"
                            /\ idx[p] = 1 /\ visited[p] = {}
    BY DEF Init
  <1>3. \A p \in Pipeline : Line(p) = <<>>
    BY <1>2 DEF Line
  <1>4. \A c \in Caller : pending[c] = None
    BY DEF Init
  <1>5. OnePlace /\ NoDelayNoOvertaking
    BY <1>3, <1>4 DEF OnePlace, NoDelayNoOvertaking
  <1>6. PassInv
    BY <1>2 DEF PassInv, BetweenPasses, PassIsExact, VisitedRan
  <1>7. CallInv
    BY <1>2, <1>4 DEF CallInv, NewNotRan, RetFits, OnceRan
  <1>8. \A t \in Task : ~Armed(t)
    BY <1>1, <1>3, <1>4, ArmedPlaces, NoneAssumption
  <1>9. RegisteredOnce
    BY <1>8, TaskAssumption DEF RegisteredOnce, InitTask
  <1>10. JoinedInOrder
    BY DEF Init, JoinedInOrder
  <1>11. QED
    BY <1>1, <1>5, <1>6, <1>7, <1>9, <1>10 DEF IInv

\* Every step keeps the inductive invariant.
LEMMA NextIInv ==
  ASSUME IInv, [Next]_vars
  PROVE  IInv'
  <1> USE DEF IInv
  <1>1. TypeOK'
    BY TypeStep
  <1>2. OnePlace'
    BY <1>1, OnePlaceStep
  <1>3. PassInv'
    BY PassStep
  <1>4. NoDelayNoOvertaking'
    BY <1>1, <1>2, <1>3, OvertakingStep DEF CallInv
  <1>5. CallInv'
    BY <1>1, NewNotRanStep, RetFitsStep, OnceRanStep DEF CallInv
  <1>6. RegisteredOnce'
    BY <1>1, RegisteredStep DEF CallInv
  <1>7. JoinedInOrder'
    BY JoinedStep
  <1>8. QED
    BY <1>1, <1>2, <1>3, <1>4, <1>5, <1>6, <1>7

\* IInv is inductive, and so holds of every state the scheduler reaches.
THEOREM Invariance == Spec => []IInv
  <1>1. QED
    BY InitIInv, NextIInv, PTL DEF Spec

\* A scheduled task is in one place only, whatever adds and merges interleave.
THEOREM HandOverIsExact == Spec => []OnePlace
  <1>1. IInv => OnePlace
    BY DEF IInv
  <1>2. QED
    BY <1>1, Invariance, PTL

\* One walk over a pipeline looks at each of its tasks once.
THEOREM WalkIsExact == Spec => []PassIsExact
  <1>1. IInv => PassIsExact
    BY DEF IInv, PassInv
  <1>2. QED
    BY <1>1, Invariance, PTL

\* Tasks without a delay are first called in the order they were added.
THEOREM OrderIsKept == Spec => []NoDelayNoOvertaking
  <1>1. IInv => NoDelayNoOvertaking
    BY DEF IInv
  <1>2. QED
    BY <1>1, Invariance, PTL

\* The handler of once is called one time.
THEOREM OnceIsOnce == Spec => []CalledOnce
  <1>1. ASSUME IInv PROVE CalledOnce
    <2>1. SUFFICES ASSUME NEW t \in Task, Kind[t] = "once", ran[t], Armed(t)
                   PROVE  /\ pc[Target[t]] = "run" /\ Running(Target[t]) = t
                          /\ t \notin ToSet(fresh[Target[t]])
                          /\ \A c \in Caller : pending[c] # t
      BY DEF CalledOnce
    <2>2. \A c \in Caller : pending[c] # t
      BY <1>1, <2>1, NoneAssumption DEF IInv, CallInv, NewNotRan
    <2>3. \A p \in Pipeline : t \notin ToSet(fresh[p])
      BY <1>1, <2>1 DEF IInv, CallInv, NewNotRan, ToSet
    <2>4. PICK p \in Pipeline : \E i \in DOMAIN queue[p] : queue[p][i] = t
      BY <2>1, <2>2, <2>3 DEF Armed, ToSet
    <2>5. Target[t] = p /\ pc[p] = "run" /\ Running(p) = t
      BY <1>1, <2>1, <2>4, QueueFacts DEF IInv, CallInv, OnceRan, Running
    <2>6. QED
      BY <2>2, <2>3, <2>5
  <1>2. QED
    BY <1>1, Invariance, PTL

\* A poll for the game hands its callback over once.
THEOREM PollIsOnce == Spec => []RegisteredOnce
  <1>1. IInv => RegisteredOnce
    BY DEF IInv
  <1>2. QED
    BY <1>1, Invariance, PTL

\* After pre_destroy no handler of a thread pipeline runs.
THEOREM DestroyIsQuiet == Spec => []QuietAfterDestroy
  <1>1. IInv => QuietAfterDestroy
    BY DEF IInv, JoinedInOrder, QuietAfterDestroy, Thread
  <1>2. QED
    BY <1>1, Invariance, PTL
-----------------------------------------------------------------------------
(* The queues implement TimerService.                                      *)

WaitedCapped == \A t \in Task : waited[t] <= Interval[t]

\* Every step keeps the ticks since a last call within the interval.
LEMMA WaitedStep ==
  ASSUME TypeOK, WaitedCapped, [Next]_vars
  PROVE  WaitedCapped'
  <1> USE TaskAssumption DEF WaitedCapped, TypeOK
  <1> USE DEF lists, clocks, drain, component, game
  <1>1. ASSUME NEW t \in Task, waited' = [waited EXCEPT ![t] = 0] PROVE WaitedCapped'
    BY <1>1
  <1>2. ASSUME NEW c \in Caller, NEW t \in Task, Schedule(c, t) PROVE WaitedCapped'
    BY <1>1, <1>2 DEF Schedule, Stamp, StampAt
  <1>3. ASSUME NEW p \in Pipeline, ScheduleCallback(p) PROVE WaitedCapped'
    <2>1. Callback[Running(p)] \in Task
      BY <1>3 DEF ScheduleCallback, ScheduleCallbackAnd, Running
    <2>2. QED
      BY <1>1, <1>3, <2>1 DEF ScheduleCallback, ScheduleCallbackAnd, Stamp, StampAt
  <1>4. ASSUME NEW p \in Pipeline, Start(p) PROVE WaitedCapped'
    <2>1. Running(p) \in Task /\ waited' = [waited EXCEPT ![Running(p)] = 0]
      BY <1>4 DEF Start, StartOn, AtTask, Running
    <2>2. QED
      BY <1>1, <2>1
  <1>5. CASE Tick
    <2>1. \A t \in Task : waited'[t] = IF waited[t] < Interval[t]
                                       THEN waited[t] + 1 ELSE waited[t]
      BY <1>5 DEF Tick
    <2>2. ASSUME NEW t \in Task PROVE waited'[t] <= Interval[t]
      <3>1. PICK w \in Nat, n \in Nat : w = waited[t] /\ n = Interval[t] /\ w <= n
        OBVIOUS
      <3>2. waited'[t] = IF w < n THEN w + 1 ELSE w
        BY <2>1, <3>1, Zenon
      <3>3. (IF w < n THEN w + 1 ELSE w) <= n
        BY <3>1
      <3>4. QED
        BY <3>1, <3>2, <3>3
    <2>3. QED
      BY <2>2
  <1>6. ASSUME NEW p \in Pipeline,
               Enter(p) \/ Merge(p) \/ Skip(p) \/ Finish(p) \/ Leave(p) \/ Exit(p)
        PROVE  WaitedCapped'
    <2>1. waited' = waited
      BY <1>6 DEF Enter, EnterUnless, Merge, MergeTo, Skip, Finish, FinishWith, Leave, Exit
    <2>2. QED
      BY <2>1
  <1>7. ASSUME NEW c \in Caller, Add(c) PROVE WaitedCapped'
    BY <1>7 DEF Add
  <1>8. CASE \/ PostStart \/ PostUnpack \/ PreDestroy \/ JoinAsync \/ JoinNetwork
             \/ GameChanges \/ UNCHANGED vars
    <2>1. waited' = waited
      BY <1>8 DEF PostStart, PostUnpack, PreDestroy, JoinAsync, JoinNetwork,
                  GameChanges, vars
    <2>2. QED
      BY <2>1
  <1>9. QED
    BY <1>2, <1>3, <1>4, <1>5, <1>6, <1>7, <1>8, NextCases

\* A task stays scheduled until its own handler ends it.
LEMMA ArmedStays ==
  ASSUME TypeOK, TypeOK', [Next]_vars, NEW u \in Task, Armed(u)
  PROVE  Armed(u)' \/ \E q \in Pipeline : Finish(q) /\ ret[q] = "end" /\ u = Running(q)
  <1> USE DEF lists
  <1>1. ASSUME NEW c \in Caller, NEW t \in Task, Stamp(c, t), UNCHANGED lists
        PROVE  Armed(u)'
    <2>1. \A d \in Caller : pending[d] = u => pending'[d] = u
      <3>1. pending[c] = None /\ u # None /\ pending' = [pending EXCEPT ![c] = t]
        BY <1>1, NoneAssumption DEF Stamp, StampAt
      <3>2. QED
        BY <3>1 DEF TypeOK
    <2>2. \A p \in Pipeline : Line(p)' = Line(p)
      BY <1>1 DEF Line
    <2>3. QED
      BY <2>1, <2>2, ArmedPlaces, ArmedPlacesNext
  <1>2. ASSUME NEW c \in Caller, Add(c) PROVE Armed(u)'
    <2>1. /\ pending[c] \in Task /\ Target[pending[c]] \in Pipeline
          /\ \A d \in Caller : pending[d] = u => pending'[d] = u \/ u = pending[c]
      BY <1>2, TaskAssumption DEF Add, TypeOK
    <2>2. ASSUME NEW p \in Pipeline,
                 \/ p = Target[pending[c]] /\ u = pending[c]
                 \/ \E j \in DOMAIN Line(p) : Line(p)[j] = u
          PROVE  \E i \in DOMAIN Line(p)' : Line(p)'[i] = u
      <3>1. CASE p # Target[pending[c]]
        BY <1>2, <2>2, <3>1, AddLine
      <3>2. CASE p = Target[pending[c]]
        <4>1. Line(p) \in Seq(Task) /\ Line(p)' = Append(Line(p), pending[c])
          BY <1>2, <3>2, AddLine, LineFacts
        <4>2. /\ DOMAIN Line(p) = 1 .. Len(Line(p)) /\ Len(Line(p)) \in Nat
              /\ DOMAIN Line(p)' = 1 .. (Len(Line(p)) + 1)
              /\ \A k \in DOMAIN Line(p) : Line(p)'[k] = Line(p)[k]
              /\ Line(p)'[Len(Line(p)) + 1] = pending[c]
          BY <2>1, <4>1, AppendProperties, LenProperties
        <4>3. QED
          BY <2>2, <4>2
      <3>3. QED
        BY <3>1, <3>2
    <2>3. QED
      BY <2>1, <2>2, ArmedPlaces, ArmedPlacesNext
  <1>3. ASSUME NEW q \in Pipeline, Finish(q), UNCHANGED pending,
               ret[q] = "end" => u # Running(q)
        PROVE  Armed(u)'
    <2>1. ASSUME NEW p \in Pipeline, NEW j \in DOMAIN Line(p), Line(p)[j] = u
          PROVE  \E k \in DOMAIN Line(p)' : Line(p)'[k] = u
      <3>1. CASE ~(p = q /\ ret[q] = "end")
        BY <1>3, <2>1, <3>1, FinishLine
      <3>2. CASE p = q /\ ret[q] = "end"
        <4>1. /\ Line(p) \in Seq(Task) /\ idx[p] \in DOMAIN Line(p)
              /\ Line(p)' = RemoveAt(Line(p), idx[p]) /\ j # idx[p]
          <5>1. /\ Line(p) \in Seq(Task) /\ idx[p] \in DOMAIN Line(p)
                /\ idx[p] \in DOMAIN queue[p] /\ Line(p)' = RemoveAt(Line(p), idx[p])
            BY <1>3, <3>2, FinishLine, LineFacts
          <5>2. Line(p)[idx[p]] = queue[p][idx[p]]
            BY <5>1, LineFacts
          <5>3. QED
            BY <1>3, <2>1, <3>2, <5>1, <5>2 DEF Running
        <4>2. /\ DOMAIN Line(p) = 1 .. Len(Line(p)) /\ Len(Line(p)) \in Nat
              /\ DOMAIN Line(p)' = 1 .. (Len(Line(p)) - 1)
              /\ \A l \in 1 .. (Len(Line(p)) - 1) :
                   Line(p)'[l] = IF l < idx[p] THEN Line(p)[l] ELSE Line(p)[l + 1]
          <5> DEFINE s == Line(p)
                     i == idx[p]
                     r == Line(p)'
          <5>1. s \in Seq(Task) /\ i \in DOMAIN s /\ r = RemoveAt(s, i)
            BY <4>1
          <5> HIDE DEF s, i, r
          <5>2. /\ RemoveAt(s, i) \in Seq(Task) /\ Len(RemoveAt(s, i)) = Len(s) - 1
                /\ \A l \in 1 .. (Len(s) - 1) :
                     RemoveAt(s, i)[l] = IF l < i THEN s[l] ELSE s[l + 1]
            BY <5>1, RemoveAtFacts
          <5>3. /\ DOMAIN s = 1 .. Len(s) /\ Len(s) \in Nat
                /\ DOMAIN r = 1 .. (Len(s) - 1)
                /\ \A l \in 1 .. (Len(s) - 1) : r[l] = IF l < i THEN s[l] ELSE s[l + 1]
            BY <5>1, <5>2, LenProperties
          <5>4. QED
            BY <5>3 DEF s, i, r
        <4>3. /\ idx[p] \in Nat /\ j \in Nat /\ 1 <= j /\ j <= Len(Line(p))
              /\ 1 <= idx[p] /\ idx[p] <= Len(Line(p))
          BY <2>1, <4>1, <4>2
        <4>4. CASE j < idx[p]
          BY <2>1, <4>2, <4>3, <4>4
        <4>5. CASE j > idx[p]
          <5>1. j - 1 \in DOMAIN Line(p)' /\ ~(j - 1 < idx[p]) /\ (j - 1) + 1 = j
            BY <4>2, <4>3, <4>5
          <5>2. QED
            BY <2>1, <4>2, <5>1
        <4>6. QED
          BY <4>1, <4>3, <4>4, <4>5
      <3>3. QED
        BY <3>1, <3>2
    <2>2. QED
      BY <1>3, <2>1, ArmedPlaces, ArmedPlacesNext
  <1>4. CASE pending' = pending /\ \A p \in Pipeline : Line(p)' = Line(p)
    BY <1>4, ArmedPlaces, ArmedPlacesNext
  <1>5. QED
    BY <1>1, <1>2, <1>3, <1>4, QuietSteps

\* The refinement mapping, by name.
Scheduled == {t \in Task : Armed(t)}

Inside == [p \in Pipeline |-> IF pc[p] = "run" THEN Running(p) ELSE None]

\* The initial states of the scheduler are initial states of the service.
LEMMA RefinementInit ==
  ASSUME Init
  PROVE  Timer!Init
  <1>1. /\ \A p \in Pipeline : Line(p) = <<>> /\ pc[p] = "idle"
        /\ \A c \in Caller : pending[c] = None
        /\ waited = [t \in Task |-> 0]
    BY DEF Init, Line
  <1>2. \A t \in Task : ~Armed(t)
    BY <1>1, TypeInit, ArmedPlaces, NoneAssumption
  <1>3. Scheduled = {}
    BY <1>2 DEF Scheduled
  <1>4. Inside = [p \in Pipeline |-> None]
    BY <1>1 DEF Inside
  <1>5. QED
    BY <1>1, <1>3, <1>4 DEF Timer!Init, Scheduled, Inside

\* Every step of the queues is a step of TimerService, or none.
LEMMA RefinementStep ==
  ASSUME IInv, IInv', WaitedCapped, [Next]_vars
  PROVE  [Timer!Next]_Timer!vars
  <1> USE DEF lists, clocks, drain, component, game
  <1>a. TypeOK /\ TypeOK' /\ OnePlace /\ RetFits
    BY DEF IInv, CallInv
  <1>b. \A t \in Task : t \in Scheduled <=> Armed(t)
    BY DEF Scheduled
  <1>c. \A t \in Task : t \in Scheduled' <=> Armed(t)'
    BY DEF Scheduled
  <1>d. Scheduled \subseteq Task /\ Scheduled' \subseteq Task
    BY DEF Scheduled
  <1>1. ASSUME NEW c \in Caller, NEW t \in Task, Stamp(c, t), Inside' = Inside,
               \A q \in Pipeline : ~Finish(q)
        PROVE  Timer!Next
    <2>1. Armed(t)'
      <3>1. pending'[c] = t
        BY <1>1, <1>a DEF Stamp, StampAt, TypeOK
      <3>2. QED
        BY <1>a, <3>1, ArmedPlacesNext
    <2>2. \A u \in Task : Armed(u)' => Armed(u) \/ u = t
      <3>1. ASSUME NEW u \in Task, NEW d \in Caller, Stamp(d, u) PROVE u = t
        <4>1. /\ pending[c] = None /\ pending[d] = None /\ t # None /\ u # None
              /\ pending' = [pending EXCEPT ![c] = t]
              /\ pending' = [pending EXCEPT ![d] = u]
          BY <1>1, <3>1, NoneAssumption DEF Stamp, StampAt
        <4>2. pending'[c] = t /\ (c # d => pending'[c] = None) /\ (c = d => pending'[c] = u)
          BY <1>a, <4>1 DEF TypeOK
        <4>3. QED
          BY <4>1, <4>2
      <3>2. QED
        BY <1>a, <3>1, ArmedSteps
    <2>3. \A u \in Task : Armed(u) => Armed(u)'
      BY <1>1, <1>a, ArmedStays
    <2>4. Scheduled' = Scheduled \union {t}
      BY <1>b, <1>c, <1>d, <2>1, <2>2, <2>3
    <2>5. t \notin Scheduled /\ waited' = [waited EXCEPT ![t] = 0]
      BY <1>1, <1>b DEF Stamp, StampAt
    <2>6. Timer!Arm(t)
      BY <1>1, <2>4, <2>5 DEF Timer!Arm, Scheduled, Inside
    <2>7. QED
      BY <2>6 DEF Timer!Next
  <1>2. ASSUME pending' = pending, \A q \in Pipeline : ~(Finish(q) /\ ret[q] = "end")
        PROVE  Scheduled' = Scheduled
    <2>1. \A u \in Task, d \in Caller : ~Stamp(d, u)
      <3>1. ASSUME NEW u \in Task, NEW d \in Caller, Stamp(d, u) PROVE FALSE
        <4>1. pending[d] = None /\ u # None /\ pending' = [pending EXCEPT ![d] = u]
          BY <3>1, NoneAssumption DEF Stamp, StampAt
        <4>2. pending'[d] = u
          BY <1>a, <4>1 DEF TypeOK
        <4>3. QED
          BY <1>2, <4>1, <4>2
      <3>2. QED
        BY <3>1
    <2>2. \A u \in Task : Armed(u)' => Armed(u)
      BY <1>a, <2>1, ArmedSteps
    <2>3. \A u \in Task : Armed(u) => Armed(u)'
      BY <1>2, <1>a, ArmedStays
    <2>4. QED
      BY <1>b, <1>c, <1>d, <2>2, <2>3
  <1>3. ASSUME NEW c \in Caller, Add(c) PROVE UNCHANGED <<Scheduled, waited, Inside>>
    <2>1. /\ UNCHANGED <<waited, pc, queue, idx>> /\ pending[c] # None
          /\ pending' = [pending EXCEPT ![c] = None]
      BY <1>3 DEF Add
    <2>2. \A u \in Task, d \in Caller : ~Stamp(d, u)
      <3>1. ASSUME NEW u \in Task, NEW d \in Caller, Stamp(d, u) PROVE FALSE
        <4>1. pending[d] = None /\ u # None /\ pending' = [pending EXCEPT ![d] = u]
          BY <3>1, NoneAssumption DEF Stamp, StampAt
        <4>2. pending'[d] = u /\ d # c /\ pending'[d] = pending[d]
          BY <1>a, <2>1, <4>1 DEF TypeOK
        <4>3. QED
          BY <4>1, <4>2
      <3>2. QED
        BY <3>1
    <2>3. \A q \in Pipeline : ~(Finish(q) /\ ret[q] = "end")
      <3>1. ASSUME NEW q \in Pipeline, Finish(q) PROVE FALSE
        <4>1. pc[q] = "run" /\ pc' = [pc EXCEPT ![q] = "scan"]
          BY <3>1 DEF Finish, FinishWith
        <4>2. pc'[q] = "scan"
          BY <1>a, <4>1 DEF TypeOK
        <4>3. QED
          BY <2>1, <4>1, <4>2
      <3>2. QED
        BY <3>1
    <2>4. \A u \in Task : Armed(u)' <=> Armed(u)
      BY <1>a, <2>2, <2>3, ArmedSteps, ArmedStays
    <2>5. Scheduled' = Scheduled
      BY <1>b, <1>c, <1>d, <2>4
    <2>6. Inside' = Inside
      BY <2>1 DEF Inside, Running
    <2>7. QED
      BY <2>1, <2>5, <2>6
  <1>4. ASSUME NEW q \in Pipeline, Start(q) PROVE Timer!Next
    <2> DEFINE x == queue[q][idx[q]]
    <2>1. /\ idx[q] \in DOMAIN queue[q] /\ UNCHANGED <<queue, idx, pending>>
          /\ pc[q] = "scan" /\ pc' = [pc EXCEPT ![q] = "run"]
          /\ waited[x] >= Interval[x] /\ waited' = [waited EXCEPT ![x] = 0]
      BY <1>4, <1>a DEF Start, StartOn, AtTask, Due, Running, TypeOK
    <2>2. PICK t \in Task : t = x /\ Armed(t) /\ Target[t] = q
      BY <1>a, <2>1, QueueFacts
    <2>3. \A p \in Pipeline : ~Finish(p)
      <3>1. ASSUME NEW p \in Pipeline, Finish(p) PROVE FALSE
        <4>1. pc[p] = "run" /\ pc' = [pc EXCEPT ![p] = "scan"]
          BY <3>1 DEF Finish, FinishWith
        <4>2. pc'[p] = "scan" /\ pc'[q] = "run" /\ (p # q => pc'[p] = pc[p])
          BY <1>a, <2>1, <4>1 DEF TypeOK
        <4>3. QED
          BY <4>1, <4>2
      <3>2. QED
        BY <3>1
    <2>4. Scheduled' = Scheduled
      BY <1>2, <2>1, <2>3
    <2>5. Inside' = [Inside EXCEPT ![q] = t]
      <3>1. \A p \in Pipeline : pc'[p] = IF p = q THEN "run" ELSE pc[p]
        BY <1>a, <2>1 DEF TypeOK
      <3>2. Inside' = [p \in Pipeline |-> IF pc'[p] = "run" THEN queue[p][idx[p]] ELSE None]
        BY <2>1 DEF Inside, Running
      <3>3. \A p \in Pipeline : Inside'[p] = IF p = q THEN t ELSE Inside[p]
        BY <2>2, <3>1, <3>2 DEF Inside, Running
      <3>4. QED
        BY <3>2, <3>3 DEF Inside
    <2>6. Inside[q] = None
      BY <2>1 DEF Inside
    <2>7. waited[t] = Interval[t]
      <3>1. PICK w \in Nat, n \in Nat : w = waited[t] /\ n = Interval[t]
        BY <1>a, <2>2, TaskAssumption DEF TypeOK
      <3>2. w <= n /\ w >= n
        BY <2>1, <2>2, <3>1 DEF WaitedCapped
      <3>3. QED
        BY <3>1, <3>2
    <2>8. t \in Scheduled
      BY <1>b, <2>2
    <2>9. Timer!Fire(t)
      BY <2>1, <2>2, <2>4, <2>5, <2>6, <2>7, <2>8 DEF Timer!Fire, Scheduled, Inside
    <2>10. QED
      BY <2>2, <2>9 DEF Timer!Next
  <1>5. ASSUME NEW q \in Pipeline, Finish(q) PROVE Timer!Next
    <2>1. /\ pc[q] = "run" /\ idx[q] \in DOMAIN queue[q]
          /\ pc' = [pc EXCEPT ![q] = "scan"] /\ UNCHANGED <<waited, pending>>
      BY <1>5, <1>a DEF Finish, FinishWith, TypeOK
    <2>2. PICK t \in Task : t = queue[q][idx[q]] /\ Target[t] = q
      BY <1>a, <2>1, QueueFacts
    <2>3. Inside[q] = t /\ t # None
      BY <2>1, <2>2, NoneAssumption DEF Inside, Running
    <2>4. Inside' = [Inside EXCEPT ![q] = None]
      <3>1. \A p \in Pipeline : p # q =>
              queue'[p] = queue[p] /\ idx'[p] = idx[p] /\ pc'[p] = pc[p]
        BY <1>5, <1>a, DrainSteps
      <3>2. pc'[q] = "scan"
        BY <1>a, <2>1 DEF TypeOK
      <3>3. Inside' = [p \in Pipeline |-> IF pc'[p] = "run" THEN queue'[p][idx'[p]] ELSE None]
        BY DEF Inside, Running
      <3>4. \A p \in Pipeline : Inside'[p] = IF p = q THEN None ELSE Inside[p]
        BY <3>1, <3>2, <3>3 DEF Inside, Running
      <3>5. QED
        BY <3>3, <3>4 DEF Inside
    <2>5. \A p \in Pipeline : Finish(p) => p = q
      <3>1. ASSUME NEW p \in Pipeline, Finish(p), p # q PROVE FALSE
        <4>1. pc[p] = "run" /\ pc' = [pc EXCEPT ![p] = "scan"]
          BY <3>1 DEF Finish, FinishWith
        <4>2. pc'[p] = "scan" /\ pc'[p] = pc[p]
          BY <1>a, <2>1, <3>1, <4>1 DEF TypeOK
        <4>3. QED
          BY <4>1, <4>2
      <3>2. QED
        BY <3>1
    <2>6. Scheduled' \in {Scheduled, Scheduled \ {t}}
      <3>1. CASE ret[q] # "end"
        BY <1>2, <2>1, <2>5, <3>1
      <3>2. CASE ret[q] = "end"
        <4>1. ~Armed(t)'
          BY <1>5, <1>a, <2>2, <3>2, EndedNotArmed DEF Running
        <4>2. \A u \in Task : Armed(u) /\ u # t => Armed(u)'
          BY <1>a, <2>2, <2>5, ArmedStays DEF Running
        <4>3. \A u \in Task, d \in Caller : ~Stamp(d, u)
          <5>1. ASSUME NEW u \in Task, NEW d \in Caller, Stamp(d, u) PROVE FALSE
            <6>1. pending[d] = None /\ u # None /\ pending' = [pending EXCEPT ![d] = u]
              BY <5>1, NoneAssumption DEF Stamp, StampAt
            <6>2. pending'[d] = u
              BY <1>a, <6>1 DEF TypeOK
            <6>3. QED
              BY <2>1, <6>1, <6>2
          <5>2. QED
            BY <5>1
        <4>4. \A u \in Task : Armed(u)' => Armed(u)
          BY <1>a, <4>3, ArmedSteps
        <4>5. QED
          BY <1>b, <1>c, <1>d, <4>1, <4>2, <4>4
      <3>3. QED
        BY <3>1, <3>2
    <2>7. Timer!Return(q)
      BY <2>1, <2>3, <2>4, <2>6 DEF Timer!Return, Scheduled, Inside
    <2>8. QED
      BY <2>7 DEF Timer!Next
  <1>6. ASSUME pc' = pc PROVE \A q \in Pipeline : ~Finish(q)
    <2>1. ASSUME NEW q \in Pipeline, Finish(q) PROVE FALSE
      <3>1. pc[q] = "run" /\ pc' = [pc EXCEPT ![q] = "scan"]
        BY <2>1 DEF Finish, FinishWith
      <3>2. pc'[q] = "scan"
        BY <1>a, <3>1 DEF TypeOK
      <3>3. QED
        BY <1>6, <3>1, <3>2
    <2>2. QED
      BY <2>1
  <1>7. ASSUME NEW c \in Caller, NEW t \in Task, Schedule(c, t) PROVE Timer!Next
    <2>1. Stamp(c, t) /\ UNCHANGED <<pc, queue, idx>>
      BY <1>7 DEF Schedule
    <2>2. Inside' = Inside
      BY <2>1 DEF Inside, Running
    <2>3. QED
      BY <1>1, <1>6, <2>1, <2>2
  <1>8. ASSUME NEW p \in Pipeline, ScheduleCallback(p) PROVE Timer!Next
    <2>1. /\ Stamp(p, Callback[Running(p)]) /\ UNCHANGED <<pc, queue, idx>>
          /\ pc[p] = "run"
      BY <1>8 DEF ScheduleCallback, ScheduleCallbackAnd
    <2>2. Inside' = Inside
      BY <2>1 DEF Inside, Running
    <2>3. p \in Caller /\ Callback[Running(p)] \in Task
      BY <1>a, <2>1, TaskAssumption DEF Running, Caller, TypeOK
    <2>4. QED
      BY <1>1, <1>6, <2>1, <2>2, <2>3
  <1>9. ASSUME NEW q \in Pipeline, Enter(q) \/ Merge(q) \/ Skip(q) \/ Leave(q) \/ Exit(q)
        PROVE  UNCHANGED <<Scheduled, waited, Inside>>
    <2>1. UNCHANGED <<waited, pending>> /\ pc[q] # "run" /\ pc'[q] # "run"
      BY <1>9, <1>a DEF Enter, EnterUnless, Merge, MergeTo, Skip, AtTask, Leave, Exit, TypeOK
    <2>2. \A p \in Pipeline : p # q =>
            queue'[p] = queue[p] /\ idx'[p] = idx[p] /\ pc'[p] = pc[p]
      BY <1>9, <1>a, DrainSteps
    <2>3. \A p \in Pipeline : ~Finish(p)
      <3>1. ASSUME NEW p \in Pipeline, Finish(p) PROVE FALSE
        <4>1. pc[p] = "run" /\ pc' = [pc EXCEPT ![p] = "scan"]
          BY <3>1 DEF Finish, FinishWith
        <4>2. pc'[p] = "scan"
          BY <1>a, <4>1 DEF TypeOK
        <4>3. QED
          BY <2>1, <2>2, <4>1, <4>2
      <3>2. QED
        BY <3>1
    <2>4. Scheduled' = Scheduled
      BY <1>2, <2>1, <2>3
    <2>5. Inside' = Inside
      <3>1. Inside' = [p \in Pipeline |-> IF pc'[p] = "run" THEN queue'[p][idx'[p]] ELSE None]
        BY DEF Inside, Running
      <3>2. \A p \in Pipeline : Inside'[p] = Inside[p]
        BY <2>1, <2>2, <3>1 DEF Inside, Running
      <3>3. QED
        BY <3>1, <3>2 DEF Inside
    <2>6. QED
      BY <2>1, <2>4, <2>5
  <1>10. ASSUME UNCHANGED <<pending, queue, pc, idx>>
         PROVE  UNCHANGED <<Scheduled, Inside>>
    BY <1>2, <1>6, <1>10 DEF Inside, Running
  <1>11. CASE \/ PostStart \/ PostUnpack \/ PreDestroy \/ JoinAsync \/ JoinNetwork
              \/ GameChanges \/ UNCHANGED vars
    <2>1. UNCHANGED <<waited, pending, queue, pc, idx>>
      BY <1>11 DEF PostStart, PostUnpack, PreDestroy, JoinAsync, JoinNetwork,
                   GameChanges, vars
    <2>2. QED
      BY <1>10, <2>1 DEF Timer!vars, Scheduled, Inside
  <1>12. CASE Tick
    <2>1. UNCHANGED <<pending, queue, pc, idx>>
      BY <1>12 DEF Tick
    <2>2. Timer!Tick
      BY <1>10, <1>12, <2>1 DEF Tick, Timer!Tick, Scheduled, Inside
    <2>3. QED
      BY <2>2 DEF Timer!Next
  <1>13. ASSUME UNCHANGED <<Scheduled, waited, Inside>> PROVE UNCHANGED Timer!vars
    BY <1>13 DEF Timer!vars, Scheduled, Inside
  <1>14. QED
    BY <1>3, <1>4, <1>5, <1>7, <1>8, <1>9, <1>11, <1>12, <1>13, NextCases

\* The scheduler implements TimerService: a callback fires on its pipeline
\* only, never before its interval is over, one at a time, and is dropped by
\* nothing but its own return value.
THEOREM Refinement == Spec => ImplementsTimer
  <1>1. Init => WaitedCapped
    BY TaskAssumption DEF Init, WaitedCapped
  <1>2. Init => Timer!Init
    BY RefinementInit
  <1>3. TypeOK /\ WaitedCapped /\ [Next]_vars => WaitedCapped'
    BY WaitedStep
  <1>4. IInv /\ IInv' /\ WaitedCapped /\ [Next]_vars => [Timer!Next]_Timer!vars
    BY RefinementStep
  <1>5. IInv => TypeOK
    BY DEF IInv
  <1>6. QED
    BY <1>1, <1>2, <1>3, <1>4, <1>5, Invariance, PTL DEF Spec, ImplementsTimer, Timer!Spec
=============================================================================

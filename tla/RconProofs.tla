----------------------------- MODULE RconProofs -----------------------------
(***************************************************************************)
(* What is proved about Rcon, for all sets of clients and threads and any  *)
(* number of requests and lines: the type invariant, that an answer has    *)
(* all lines of its request and no other, and that a line goes one way.    *)
(***************************************************************************)
EXTENDS Rcon, FiniteSetTheorems, TLAPS

USE MainAssumption, NoneAssumption

-----------------------------------------------------------------------------
(* The inductive invariant.                                                *)

\* Lines are numbered in the order in which they are printed, and name no
\* request that was not sent.
LinesNumbered ==
  /\ IsFiniteSet(said)
  /\ \A l \in said : l.n \in 1 .. Cardinality(said) /\ l.during <= asked
  /\ \A l, m \in said : l.n = m.n => l = m

\* A request that is under way has left no trace, and that which is handled
\* was not answered with output yet.
RequestsFresh ==
  /\ \A r \in inbox :
       /\ r.id <= asked
       /\ handling # None => r.id # handling.id
       /\ \A q \in inbox : q.id = r.id => q = r
       /\ \A l \in said : l.during # r.id
       /\ \A a \in answers : a.kind = "output" => a.req # r.id
  /\ handling # None =>
       /\ handling.id <= asked
       /\ \A a \in answers : a.kind = "output" => a.req # handling.id

\* The buffer has the lines of the request that is handled, or else stray
\* lines, in order.
RedirectOwned ==
  /\ Range(buffer) \subseteq said /\ InOrder(buffer)
  /\ \A l \in Range(buffer) : l.stray <=> handling = None
  /\ ~redirecting => buffer = <<>>
  /\ handling # None =>
       /\ redirecting /\ target = handling.from
       /\ \A l \in said : l.during = handling.id => l \in Range(buffer)
       /\ \A l \in Range(buffer) : l.during = handling.id
       /\ ~redirected => buffer = <<>>

\* What a thread has still to show was printed by it.
HeldIsOwn == \A p \in Printer : held[p] # None => held[p] \in said /\ held[p].by = p

\* Answers are to requests that were sent, with lines that were printed.
AnswersKnown ==
  \A a \in answers : a.req \in 1 .. asked /\ Range(a.lines) \subseteq said

IInv ==
  /\ TypeOK /\ LinesNumbered /\ RequestsFresh /\ RedirectOwned /\ HeldIsOwn
  /\ AnswersKnown /\ AnswerIsOfRequest /\ OutputGoesOneWay

-----------------------------------------------------------------------------
(* Sequences of lines.                                                     *)

\* What Append does to the elements.
LEMMA RangeOfAppend ==
  ASSUME NEW S, NEW s \in Seq(S), NEW e \in S
  PROVE  Range(Append(s, e)) = Range(s) \union {e}
  <1>1. /\ DOMAIN s = 1 .. Len(s) /\ Len(s) \in Nat
        /\ DOMAIN Append(s, e) = 1 .. Len(s) + 1
        /\ Append(s, e)[Len(s) + 1] = e
        /\ \A i \in 1 .. Len(s) : Append(s, e)[i] = s[i]
    OBVIOUS
  <1>2. ASSUME NEW x \in Range(Append(s, e)) PROVE x \in Range(s) \union {e}
    <2>1. PICK i \in 1 .. Len(s) + 1 : x = Append(s, e)[i]
      BY <1>1, <1>2 DEF Range
    <2>2. CASE i = Len(s) + 1
      BY <1>1, <2>1, <2>2
    <2>3. CASE i \in 1 .. Len(s)
      BY <1>1, <2>1, <2>3 DEF Range
    <2>4. QED
      BY <1>1, <2>1, <2>2, <2>3
  <1>3. ASSUME NEW x \in Range(s) PROVE x \in Range(Append(s, e))
    <2>1. PICK i \in 1 .. Len(s) : x = s[i]
      BY <1>1, <1>3 DEF Range
    <2>2. i \in DOMAIN Append(s, e) /\ Append(s, e)[i] = x
      BY <1>1, <2>1
    <2>3. QED
      BY <2>2 DEF Range
  <1>4. Len(s) + 1 \in DOMAIN Append(s, e)
    BY <1>1
  <1>5. e \in Range(Append(s, e))
    BY <1>1, <1>4 DEF Range
  <1>6. QED
    BY <1>2, <1>3, <1>5

\* An empty sequence has no elements and is in order.
LEMMA Empty == Range(<<>>) = {} /\ InOrder(<<>>)
  BY DEF Range, InOrder

\* A line with a greater number than all others keeps a sequence in order.
LEMMA OrderOfAppend ==
  ASSUME NEW s \in Seq(Line), NEW e \in Line, InOrder(s),
         \A l \in Range(s) : l.n < e.n
  PROVE  InOrder(Append(s, e))
  <1>1. /\ DOMAIN s = 1 .. Len(s) /\ Len(s) \in Nat
        /\ DOMAIN Append(s, e) = 1 .. Len(s) + 1
        /\ Append(s, e)[Len(s) + 1] = e
        /\ \A i \in 1 .. Len(s) : Append(s, e)[i] = s[i]
    OBVIOUS
  <1>2. ASSUME NEW i \in 1 .. Len(s) + 1, NEW j \in 1 .. Len(s) + 1, i < j
        PROVE  Append(s, e)[i].n < Append(s, e)[j].n
    <2>1. i \in 1 .. Len(s) /\ Append(s, e)[i] = s[i] /\ s[i] \in Range(s)
      BY <1>1, <1>2 DEF Range
    <2>2. CASE j = Len(s) + 1
      BY <1>1, <2>1, <2>2
    <2>3. CASE j \in 1 .. Len(s)
      BY <1>1, <1>2, <2>1, <2>3 DEF InOrder
    <2>4. QED
      BY <1>1, <1>2, <2>2, <2>3
  <1>3. QED
    BY <1>1, <1>2 DEF InOrder

-----------------------------------------------------------------------------
(* Printing.                                                               *)

\* The line that is printed is a new one.
LEMMA NewLineIs ==
  ASSUME IInv, NEW p \in Printer
  PROVE  LET l == NewLine(p) IN
         /\ l \in Line /\ l \notin said /\ l # None
         /\ l.by = p /\ l.n = Cardinality(said) + 1
         /\ l.stray <=> (redirecting /\ handling = None)
         /\ handling = None => l.during = 0
         /\ handling # None => l.during = handling.id
         /\ l.during <= asked
         /\ \A m \in said : m.n < l.n
  <1> DEFINE l == NewLine(p)
  <1>1. Cardinality(said) \in Nat
    BY FS_CardinalityType DEF IInv, LinesNumbered
  <1>2. handling # None => handling.id \in Nat /\ handling.id <= asked
    BY DEF IInv, TypeOK, Request, RequestsFresh
  <1>3. redirecting \in BOOLEAN /\ asked \in Nat
    BY DEF IInv, TypeOK
  <1>4. /\ l.by = p /\ l.n = Cardinality(said) + 1
        /\ l.stray = (redirecting /\ handling = None)
        /\ l.during = IF handling = None THEN 0 ELSE handling.id
    BY DEF NewLine
  <1>5. l \in Line
    BY <1>1, <1>2, <1>3 DEF NewLine, Line
  <1>6. \A m \in said : m.n < l.n
    BY <1>1, <1>4 DEF IInv, LinesNumbered
  <1>7. l \notin said
    BY <1>1, <1>4, <1>6
  <1>8. l # None
    BY <1>5
  <1>9. l.during <= asked
    BY <1>2, <1>3, <1>4
  <1>10. QED
    BY <1>4, <1>5, <1>6, <1>7, <1>8, <1>9

\* Dispatch, in whatever action, keeps the parts of the invariant that speak
\* of lines, if the answers that go out with it have none.
LEMMA DispatchKeeps ==
  ASSUME IInv, NEW p \in Printer, Dispatch(p), redirecting \/ held[p] = None,
         handling' = handling, asked' = asked, inbox' \subseteq inbox,
         answers \subseteq answers',
         \A a \in answers' \ answers :
           a.kind = "text" /\ Range(a.lines) = {} /\ a.req \in 1 .. asked
  PROVE  /\ LinesNumbered' /\ RequestsFresh' /\ RedirectOwned' /\ HeldIsOwn'
         /\ AnswersKnown' /\ AnswerIsOfRequest' /\ OutputGoesOneWay'
         /\ redirecting' \in BOOLEAN /\ redirected' \in BOOLEAN
         /\ target' \in Client \union {None} /\ buffer' \in Seq(Line)
         /\ held' \in [Printer -> Line \union {None}]
         /\ said' \subseteq Line /\ shown' \subseteq said'
  <1> DEFINE l == NewLine(p)
  <1>l. /\ l \in Line /\ l \notin said /\ l # None
        /\ l.by = p /\ l.n = Cardinality(said) + 1
        /\ l.stray <=> (redirecting /\ handling = None)
        /\ handling = None => l.during = 0
        /\ handling # None => l.during = handling.id
        /\ l.during <= asked
        /\ \A m \in said : m.n < l.n
    BY NewLineIs
  <1>d. /\ said' = said \union {l} /\ shown' = shown
        /\ redirecting' = redirecting /\ target' = target
        /\ redirecting => redirected' = TRUE /\ buffer' = Append(buffer, l) /\ held' = held
        /\ ~redirecting => /\ held' = [held EXCEPT ![p] = l]
                           /\ redirected' = redirected /\ buffer' = buffer
    BY DEF Dispatch
  <1>t. /\ redirecting \in BOOLEAN /\ redirected \in BOOLEAN
        /\ target \in Client \union {None} /\ buffer \in Seq(Line)
        /\ held \in [Printer -> Line \union {None}]
        /\ said \subseteq Line /\ shown \subseteq said
    BY DEF IInv, TypeOK
  <1>h. handling # None => redirecting
    BY DEF IInv, RedirectOwned
  <1> HIDE DEF l
  <1>s. l \in Line /\ buffer \in Seq(Line)
    BY <1>l, <1>t
  <1>a. redirecting => buffer' = Append(buffer, l)
    BY <1>d
  <1>r. /\ redirecting => Range(buffer') = Range(buffer) \union {l}
        /\ ~redirecting => buffer' = <<>> /\ Range(buffer') = {}
    <2>1. redirecting => Range(buffer') = Range(buffer) \union {l}
      <3>1. Range(Append(buffer, l)) = Range(buffer) \union {l}
        BY <1>s, RangeOfAppend
      <3>2. QED
        BY <1>a, <3>1
    <2>2. ~redirecting => buffer' = <<>> /\ Range(buffer') = {}
      BY <1>d, Empty DEF IInv, RedirectOwned
    <2>3. QED
      BY <2>1, <2>2
  <1>1. LinesNumbered'
    <2>1. IsFiniteSet(said)
      BY DEF IInv, LinesNumbered
    <2>2. IsFiniteSet(said') /\ Cardinality(said') = Cardinality(said) + 1
      BY <1>l, <1>d, <2>1, FS_AddElement
    <2>3. Cardinality(said) \in Nat
      BY <2>1, FS_CardinalityType
    <2>4. /\ \A m \in said : m.n \in 1 .. Cardinality(said) /\ m.during <= asked
          /\ \A m, o \in said : m.n = o.n => m = o
      BY DEF IInv, LinesNumbered
    <2>5. \A m \in said' : m.n \in 1 .. Cardinality(said') /\ m.during <= asked'
      BY <1>l, <1>d, <2>2, <2>3, <2>4
    <2>6. \A m, o \in said' : m.n = o.n => m = o
      BY <1>l, <1>d, <2>3, <2>4
    <2>7. QED
      BY <2>2, <2>5, <2>6 DEF LinesNumbered
  <1>2. RequestsFresh'
    <2>1. ASSUME NEW r \in inbox'
          PROVE  /\ r.id <= asked'
                 /\ handling' # None => r.id # handling'.id
                 /\ \A q \in inbox' : q.id = r.id => q = r
                 /\ \A m \in said' : m.during # r.id
                 /\ \A a \in answers' : a.kind = "output" => a.req # r.id
      <3>1. r \in inbox /\ r.id # 0
        BY DEF IInv, TypeOK, Request
      <3>2. /\ r.id <= asked
            /\ handling # None => r.id # handling.id
            /\ \A q \in inbox : q.id = r.id => q = r
            /\ \A m \in said : m.during # r.id
            /\ \A a \in answers : a.kind = "output" => a.req # r.id
        BY <3>1 DEF IInv, RequestsFresh
      <3>3. l.during # r.id
        BY <1>l, <3>1, <3>2
      <3>4. QED
        BY <1>d, <3>2, <3>3
    <2>2. handling' # None =>
            /\ handling'.id <= asked'
            /\ \A a \in answers' : a.kind = "output" => a.req # handling'.id
      BY DEF IInv, RequestsFresh
    <2>3. QED
      BY <2>1, <2>2 DEF RequestsFresh
  <1>3. RedirectOwned'
    <2>1. Range(buffer) \subseteq said /\ InOrder(buffer)
      BY DEF IInv, RedirectOwned
    <2>2. Range(buffer') \subseteq said'
      BY <1>d, <1>r, <2>1
    <2>3. InOrder(buffer')
      <3>1. CASE redirecting
        <4>1. \A m \in Range(buffer) : m.n < l.n
          BY <1>l, <2>1
        <4>2. QED
          BY <1>s, <1>a, <2>1, <3>1, <4>1, OrderOfAppend
      <3>2. CASE ~redirecting
        BY <1>r, <3>2, Empty
      <3>3. QED
        BY <3>1, <3>2
    <2>4. \A m \in Range(buffer') : m.stray <=> handling' = None
      BY <1>l, <1>r DEF IInv, RedirectOwned
    <2>5. ~redirecting' => buffer' = <<>>
      BY <1>d, <1>r
    <2>6. handling' # None =>
            /\ redirecting' /\ target' = handling'.from
            /\ \A m \in said' : m.during = handling'.id => m \in Range(buffer')
            /\ \A m \in Range(buffer') : m.during = handling'.id
            /\ ~redirected' => buffer' = <<>>
      BY <1>l, <1>d, <1>r DEF IInv, RedirectOwned
    <2>7. QED
      BY <2>2, <2>3, <2>4, <2>5, <2>6 DEF RedirectOwned
  <1>4. HeldIsOwn'
    BY <1>l, <1>d, <1>t DEF IInv, HeldIsOwn
  <1>5. AnswersKnown'
    <2>1. \A a \in answers : a.req \in 1 .. asked /\ Range(a.lines) \subseteq said
      BY DEF IInv, AnswersKnown
    <2>2. QED
      BY <1>d, <2>1 DEF AnswersKnown
  <1>6. AnswerIsOfRequest'
    <2> SUFFICES ASSUME NEW a \in answers', a.kind = "output"
                 PROVE  /\ Range(a.lines) = {m \in said' : m.during = a.req}
                        /\ InOrder(a.lines)
      BY DEF AnswerIsOfRequest, InOrder
    <2>1. a \in answers
      OBVIOUS
    <2>2. Range(a.lines) = {m \in said : m.during = a.req} /\ InOrder(a.lines)
      BY <2>1 DEF IInv, AnswerIsOfRequest
    <2>3. a.req # 0
      BY <2>1 DEF IInv, AnswersKnown
    <2>4. l.during # a.req
      BY <1>l, <2>1, <2>3 DEF IInv, RequestsFresh
    <2>5. QED
      BY <1>d, <2>2, <2>4
  <1>7. OutputGoesOneWay'
    <2>1. Sent' = Sent
      BY DEF Sent
    <2>2. l \notin Sent /\ l \notin shown /\ l \notin Range(buffer)
      BY <1>l, <1>t DEF IInv, AnswersKnown, RedirectOwned, Sent
    <2>3. \A q \in Printer : held[q] # l
      BY <1>l DEF IInv, HeldIsOwn
    <2>4. ASSUME NEW m \in said'
          PROVE  LET console == m \in shown' \/ held'[m.by] = m
                     remote == m \in Range(buffer') \union Sent'
                 IN /\ ~(console /\ remote)
                    /\ m.stray => ~console /\ m \notin Sent'
                    /\ ~m.stray => console \/ remote
      <3>1. CASE m = l
        BY <1>l, <1>d, <1>t, <1>h, <1>r, <2>1, <2>2, <2>3, <3>1
      <3>2. CASE m \in said
        <4>1. m # l /\ m.by \in Printer /\ m # None
          BY <1>l, <1>t, <3>2 DEF Line
        <4>2. held'[m.by] = m <=> held[m.by] = m
          BY <1>l, <1>d, <1>t, <4>1
        <4>3. m \in Range(buffer') <=> m \in Range(buffer)
          BY <1>d, <1>r, <4>1
        <4>4. LET console == m \in shown \/ held[m.by] = m
                  remote == m \in Range(buffer) \union Sent
              IN /\ ~(console /\ remote)
                 /\ m.stray => ~console /\ m \notin Sent
                 /\ ~m.stray => console \/ remote
          BY <3>2 DEF IInv, OutputGoesOneWay, Kept
        <4>5. QED
          BY <1>d, <2>1, <4>2, <4>3, <4>4
      <3>3. QED
        BY <1>d, <3>1, <3>2
    <2>5. QED
      BY <2>4 DEF OutputGoesOneWay, Kept
  <1>8. /\ buffer' \in Seq(Line) /\ held' \in [Printer -> Line \union {None}]
        /\ said' \subseteq Line /\ shown' \subseteq said' /\ redirected' \in BOOLEAN
    <2>1. Append(buffer, l) \in Seq(Line)
      BY <1>s
    <2>2. buffer' = Append(buffer, l) \/ buffer' = buffer
      BY <1>d, <1>t
    <2>3. buffer' \in Seq(Line)
      BY <1>s, <2>1, <2>2
    <2>4. held' \in [Printer -> Line \union {None}]
      BY <1>s, <1>d, <1>t
    <2>5. said' \subseteq Line /\ shown' \subseteq said' /\ redirected' \in BOOLEAN
      BY <1>s, <1>d, <1>t
    <2>6. QED
      BY <2>3, <2>4, <2>5
  <1>9. QED
    BY <1>1, <1>2, <1>3, <1>4, <1>5, <1>6, <1>7, <1>8, <1>d, <1>t

-----------------------------------------------------------------------------
(* The invariant holds.                                                    *)

\* The initial states satisfy the invariant.
LEMMA InitIInv == Init => IInv
  <1> SUFFICES ASSUME Init PROVE IInv
    OBVIOUS
  <1>1. TypeOK
    <2>1. buffer \in Seq(Line)
      <3>1. buffer = <<>>
        BY DEF Init
      <3>2. QED
        BY <3>1
    <2>2. held \in [Printer -> Line \union {None}]
      BY DEF Init
    <2>3. /\ guarded \in BOOLEAN /\ inbox = {} /\ asked = 0 /\ handling = None /\ at = "idle"
          /\ redirecting = FALSE /\ redirected = FALSE /\ target = None
          /\ said = {} /\ shown = {} /\ answers = {}
      BY DEF Init
    <2>4. QED
      BY <2>1, <2>2, <2>3 DEF TypeOK
  <1>2. LinesNumbered
    BY FS_EmptySet DEF Init, LinesNumbered
  <1>3. RequestsFresh /\ HeldIsOwn /\ AnswersKnown /\ AnswerIsOfRequest /\ OutputGoesOneWay
    BY DEF Init, RequestsFresh, HeldIsOwn, AnswersKnown, AnswerIsOfRequest, OutputGoesOneWay
  <1>4. RedirectOwned
    <2>1. buffer = <<>> /\ handling = None
      BY DEF Init
    <2>2. Range(buffer) = {} /\ InOrder(buffer)
      BY <2>1, Empty
    <2>3. QED
      BY <2>1, <2>2 DEF RedirectOwned
  <1>5. QED
    BY <1>1, <1>2, <1>3, <1>4 DEF IInv

\* Steps that print nothing and change neither answers, redirect nor handler:
\* only requests and the console's lines move.
LEMMA NetworkKeeps ==
  ASSUME IInv, UNCHANGED <<handler, redirect, output, answers>>,
         guarded' \in BOOLEAN, asked' \in Nat, asked <= asked',
         inbox' \subseteq Request,
         \A r \in inbox' \ inbox : asked < r.id /\ r.id <= asked'
                                 /\ \A q \in inbox' : q.id = r.id => q = r
  PROVE  IInv'
  <1>1. TypeOK'
    BY DEF IInv, TypeOK, handler, redirect, output
  <1>2. LinesNumbered'
    BY DEF IInv, TypeOK, LinesNumbered, output, Line
  <1>3. RequestsFresh'
    <2>1. ASSUME NEW r \in inbox'
          PROVE  /\ r.id <= asked'
                 /\ handling' # None => r.id # handling'.id
                 /\ \A q \in inbox' : q.id = r.id => q = r
                 /\ \A l \in said' : l.during # r.id
                 /\ \A a \in answers' : a.kind = "output" => a.req # r.id
      <3>1. r.id \in Nat /\ asked \in Nat /\ \A q \in inbox' : q.id \in Nat
        BY DEF IInv, TypeOK, Request
      <3>2. handling' = handling /\ said' = said /\ answers' = answers
        BY DEF handler, output
      <3>3. CASE r \in inbox
        <4>1. /\ r.id <= asked
              /\ handling # None => r.id # handling.id
              /\ \A q \in inbox : q.id = r.id => q = r
              /\ \A l \in said : l.during # r.id
              /\ \A a \in answers : a.kind = "output" => a.req # r.id
          BY <3>3 DEF IInv, RequestsFresh
        <4>2. \A q \in inbox' : q.id = r.id => q = r
          BY <3>1, <4>1
        <4>3. QED
          BY <3>1, <3>2, <4>1, <4>2
      <3>4. CASE r \notin inbox
        <4>1. asked < r.id /\ r.id <= asked' /\ \A q \in inbox' : q.id = r.id => q = r
          BY <3>4
        <4>2. handling # None => handling.id \in Nat /\ handling.id <= asked
          BY DEF IInv, TypeOK, Request, RequestsFresh
        <4>3. \A l \in said : l.during \in Nat /\ l.during <= asked
          BY DEF IInv, TypeOK, Line, LinesNumbered
        <4>4. \A a \in answers : a.req \in 1 .. asked
          BY DEF IInv, AnswersKnown
        <4>5. QED
          BY <3>1, <3>2, <4>1, <4>2, <4>3, <4>4
      <3>5. QED
        BY <3>3, <3>4
    <2>2. handling' # None =>
            /\ handling'.id <= asked'
            /\ \A a \in answers' : a.kind = "output" => a.req # handling'.id
      BY DEF IInv, TypeOK, Request, RequestsFresh, handler
    <2>3. QED
      BY <2>1, <2>2 DEF RequestsFresh
  <1>4. RedirectOwned'
    BY DEF IInv, RedirectOwned, InOrder, Range, handler, redirect, output
  <1>5. HeldIsOwn'
    BY DEF IInv, HeldIsOwn, output
  <1>6. AnswersKnown'
    BY DEF IInv, TypeOK, Answer, AnswersKnown, Range, output
  <1>7. AnswerIsOfRequest'
    BY DEF IInv, AnswerIsOfRequest, InOrder, Range, output
  <1>8. OutputGoesOneWay'
    BY DEF IInv, OutputGoesOneWay, Kept, Sent, Range, redirect, output
  <1>9. QED
    BY <1>1, <1>2, <1>3, <1>4, <1>5, <1>6, <1>7, <1>8 DEF IInv

\* A line is printed, by any thread, outside the handler or in it.
LEMMA PrintKeeps ==
  ASSUME IInv, NEW p \in Printer, Dispatch(p), redirecting \/ held[p] = None,
         UNCHANGED <<requests, answers, handling>>,
         at' \in {"idle", "refuse", "run", "check", "clear"},
         at' = "idle" <=> at = "idle"
  PROVE  IInv'
  <1>1. /\ LinesNumbered' /\ RequestsFresh' /\ RedirectOwned' /\ HeldIsOwn'
        /\ AnswersKnown' /\ AnswerIsOfRequest' /\ OutputGoesOneWay'
        /\ redirecting' \in BOOLEAN /\ redirected' \in BOOLEAN
        /\ target' \in Client \union {None} /\ buffer' \in Seq(Line)
        /\ held' \in [Printer -> Line \union {None}]
        /\ said' \subseteq Line /\ shown' \subseteq said'
    <2>1. /\ handling' = handling /\ asked' = asked /\ inbox' = inbox
          /\ answers' = answers
      BY DEF requests
    <2>2. QED
      BY <2>1, DispatchKeeps
  <1>2. TypeOK'
    BY <1>1 DEF IInv, TypeOK, requests
  <1>3. QED
    BY <1>1, <1>2 DEF IInv

\* The handler answers a request without a space.
LEMMA MalformedKeeps ==
  ASSUME IInv, NEW r \in inbox, Malformed(r)
  PROVE  IInv'
  <1> DEFINE t == Text(r.from, r.id)
  <1>1. /\ handling' = handling /\ at' = at /\ asked' = asked /\ guarded' = guarded
        /\ inbox' = inbox \ {r} /\ answers' = answers \union {t}
        /\ held[Main] = None /\ Dispatch(Main) /\ Main \in Printer
    BY DEF Malformed, Arrives, handler, Printer
  <1>2. t.kind = "text" /\ Range(t.lines) = {} /\ t.req \in 1 .. asked /\ t \in Answer
    <2>1. r \in Request /\ r.id <= asked /\ asked \in Nat
      BY DEF IInv, TypeOK, RequestsFresh
    <2>2. <<>> \in Seq(Line) /\ Range(<<>>) = {}
      BY Empty
    <2>3. QED
      BY <2>1, <2>2 DEF Text, Request, Answer
  <1> HIDE DEF t
  <1>3. /\ LinesNumbered' /\ RequestsFresh' /\ RedirectOwned' /\ HeldIsOwn'
        /\ AnswersKnown' /\ AnswerIsOfRequest' /\ OutputGoesOneWay'
        /\ redirecting' \in BOOLEAN /\ redirected' \in BOOLEAN
        /\ target' \in Client \union {None} /\ buffer' \in Seq(Line)
        /\ held' \in [Printer -> Line \union {None}]
        /\ said' \subseteq Line /\ shown' \subseteq said'
    BY <1>1, <1>2, DispatchKeeps
  <1>4. TypeOK'
    BY <1>1, <1>2, <1>3 DEF IInv, TypeOK
  <1>5. QED
    BY <1>3, <1>4 DEF IInv

\* The console shows a line.
LEMMA ShowKeeps ==
  ASSUME IInv, NEW p \in Printer, Show(p)
  PROVE  IInv'
  <1>1. /\ held[p] # None /\ held[p] \in said /\ held[p].by = p
        /\ shown' = shown \union {held[p]} /\ held' = [held EXCEPT ![p] = None]
        /\ held \in [Printer -> Line \union {None}]
    BY DEF Show, IInv, HeldIsOwn, TypeOK
  <1>2. TypeOK'
    BY <1>1 DEF IInv, TypeOK, Show, requests, handler, redirect
  <1>3. LinesNumbered' /\ RequestsFresh' /\ AnswersKnown' /\ AnswerIsOfRequest'
    BY DEF IInv, LinesNumbered, RequestsFresh, AnswersKnown, AnswerIsOfRequest, InOrder,
           Range, Show, requests, handler
  <1>4. RedirectOwned'
    BY DEF IInv, RedirectOwned, InOrder, Range, Show, handler, redirect
  <1>5. HeldIsOwn'
    BY <1>1 DEF IInv, HeldIsOwn, Show
  <1>6. OutputGoesOneWay'
    <2>1. said' = said /\ Sent' = Sent /\ Kept' = Kept
      BY DEF Show, redirect, Sent, Kept
    <2>2. ASSUME NEW l \in said
          PROVE  (l \in shown' \/ held'[l.by] = l) <=> (l \in shown \/ held[l.by] = l)
      <3>1. l.by \in Printer /\ l # None
        BY DEF IInv, TypeOK, Line
      <3>2. QED
        BY <1>1, <3>1
    <2>3. QED
      BY <2>1, <2>2 DEF IInv, OutputGoesOneWay
  <1>7. QED
    BY <1>2, <1>3, <1>4, <1>5, <1>6 DEF IInv

\* The handler takes a request up.
LEMMA StartKeeps ==
  ASSUME IInv, NEW r \in inbox, Start(r)
  PROVE  IInv'
  <1>1. /\ at = "idle" /\ inbox' = inbox \ {r} /\ guarded' = guarded /\ asked' = asked
        /\ handling' = r /\ redirecting' = TRUE /\ redirected' = FALSE
        /\ target' = r.from /\ buffer' = <<>>
        /\ held' = held /\ said' = said /\ shown' = shown
        /\ at' \in {"run", "refuse"}
        /\ answers' = answers \/ answers' = answers \union {Text(r.from, r.id)}
    BY DEF Start, StartWith, Arrives, output
  <1>2. handling = None /\ r \in Request /\ r # None /\ r.id <= asked
        /\ asked \in Nat
    BY <1>1 DEF IInv, TypeOK, RequestsFresh
  <1>3. /\ Text(r.from, r.id) \in Answer /\ Text(r.from, r.id).kind = "text"
        /\ Range(Text(r.from, r.id).lines) = {} /\ Text(r.from, r.id).req \in 1 .. asked
    <2>1. <<>> \in Seq(Line) /\ Range(<<>>) = {}
      BY Empty
    <2>2. QED
      BY <1>2, <2>1 DEF Text, Request, Answer
  <1>4. \A a \in answers' :
          \/ a \in answers
          \/ a \in Answer /\ a.kind = "text" /\ Range(a.lines) = {} /\ a.req \in 1 .. asked
    BY <1>1, <1>3
  <1>5. TypeOK'
    <2>1. buffer' \in Seq(Line)
      BY <1>1
    <2>2. answers' \subseteq Answer
      BY <1>4 DEF IInv, TypeOK
    <2>3. QED
      BY <1>1, <1>2, <2>1, <2>2 DEF IInv, TypeOK, Request
  <1>6. LinesNumbered'
    BY <1>1 DEF IInv, LinesNumbered
  <1>7. RequestsFresh'
    BY <1>1, <1>2, <1>4 DEF IInv, RequestsFresh
  <1>8. RedirectOwned'
    <2>1. Range(buffer') = {} /\ InOrder(buffer')
      BY <1>1, Empty
    <2>2. \A l \in said : l.during # r.id
      BY DEF IInv, RequestsFresh
    <2>3. QED
      BY <1>1, <1>2, <2>1, <2>2 DEF RedirectOwned
  <1>9. HeldIsOwn' /\ AnswersKnown' /\ AnswerIsOfRequest'
    <2>1. HeldIsOwn'
      BY <1>1 DEF IInv, HeldIsOwn
    <2>2. AnswersKnown'
      BY <1>1, <1>4 DEF IInv, AnswersKnown
    <2>3. AnswerIsOfRequest'
      BY <1>1, <1>4 DEF IInv, AnswerIsOfRequest, InOrder
    <2>4. QED
      BY <2>1, <2>2, <2>3
  <1>10. OutputGoesOneWay'
    <2>1. Sent' = Sent
      BY <1>1, <1>3 DEF Sent
    <2>2. Kept' = {} /\ \A l \in Kept : l.stray
      BY <1>1, <1>2, Empty DEF Kept, IInv, RedirectOwned
    <2>3. QED
      BY <1>1, <2>1, <2>2 DEF IInv, OutputGoesOneWay
  <1>11. QED
    BY <1>5, <1>6, <1>7, <1>8, <1>9, <1>10 DEF IInv

\* Only the place in the handler changes.
LEMMA MoveKeeps ==
  ASSUME IInv, UNCHANGED <<requests, handling, redirect, output, answers>>,
         at # "idle", at' \in {"refuse", "run", "check", "clear"}
  PROVE  IInv'
  <1>1. TypeOK'
    BY DEF IInv, TypeOK, requests, redirect, output
  <1>2. LinesNumbered' /\ RequestsFresh' /\ HeldIsOwn' /\ AnswersKnown' /\ AnswerIsOfRequest'
    BY DEF IInv, LinesNumbered, RequestsFresh, HeldIsOwn, AnswersKnown, AnswerIsOfRequest,
           InOrder, Range, requests, output
  <1>3. RedirectOwned' /\ OutputGoesOneWay'
    BY DEF IInv, RedirectOwned, OutputGoesOneWay, Kept, Sent, InOrder, Range, redirect, output
  <1>4. QED
    BY <1>1, <1>2, <1>3 DEF IInv

\* The handler ends with an answer of all that is in the buffer, and the
\* buffer is empty then; the redirect may stay on.
LEMMA EndKeeps ==
  ASSUME IInv, UNCHANGED <<requests, output>>, at # "idle",
         answers' = answers \union {Output(target, handling.id, buffer)},
         handling' = None, at' = "idle", buffer' = <<>>,
         redirecting' \in BOOLEAN, redirected' \in BOOLEAN,
         target' \in Client \union {None}
  PROVE  IInv'
  <1> DEFINE o == Output(target, handling.id, buffer)
  <1>1. /\ inbox' = inbox /\ guarded' = guarded /\ asked' = asked /\ answers' = answers \union {o}
        /\ held' = held /\ said' = said /\ shown' = shown
    BY DEF requests, output
  <1>2. /\ handling # None /\ handling \in Request /\ handling.id \in 1 .. asked
        /\ target \in Client /\ asked \in Nat
    BY DEF IInv, TypeOK, Request, RequestsFresh, RedirectOwned
  <1>3. /\ o.req = handling.id /\ o.lines = buffer /\ o \in Answer
    <2>1. buffer \in Seq(Line)
      BY DEF IInv, TypeOK
    <2>2. handling.id \in Nat
      BY <1>2
    <2>3. QED
      BY <1>2, <2>1, <2>2 DEF Output, Answer
  <1> HIDE DEF o
  <1>4. /\ Range(buffer) \subseteq said /\ InOrder(buffer)
        /\ Range(buffer) = {l \in said : l.during = handling.id}
        /\ \A l \in Range(buffer) : ~l.stray
    <2>1. /\ Range(buffer) \subseteq said /\ InOrder(buffer)
          /\ \A l \in said : l.during = handling.id => l \in Range(buffer)
          /\ \A l \in Range(buffer) : l.during = handling.id /\ ~l.stray
      BY <1>2 DEF IInv, RedirectOwned
    <2>2. QED
      BY <2>1
  <1>5. TypeOK'
    <2>1. buffer' \in Seq(Line)
      OBVIOUS
    <2>2. QED
      BY <1>1, <1>3, <2>1 DEF IInv, TypeOK
  <1>6. LinesNumbered' /\ HeldIsOwn'
    BY <1>1 DEF IInv, LinesNumbered, HeldIsOwn
  <1>7. RequestsFresh'
    BY <1>1, <1>2, <1>3 DEF IInv, RequestsFresh
  <1>8. RedirectOwned'
    <2>1. Range(buffer') = {} /\ InOrder(buffer')
      BY Empty
    <2>2. QED
      BY <2>1 DEF RedirectOwned
  <1>9. AnswersKnown'
    BY <1>1, <1>2, <1>3, <1>4 DEF IInv, AnswersKnown
  <1>10. AnswerIsOfRequest'
    BY <1>1, <1>3, <1>4 DEF IInv, AnswerIsOfRequest, InOrder
  <1>11. OutputGoesOneWay'
    <2>1. Sent' = Sent \union Kept
      BY <1>1, <1>3 DEF Sent, Kept
    <2>2. Kept' = {} /\ \A l \in Kept : ~l.stray
      BY <1>4, Empty DEF Kept
    <2>3. QED
      BY <1>1, <2>1, <2>2 DEF IInv, OutputGoesOneWay
  <1>12. QED
    BY <1>5, <1>6, <1>7, <1>8, <1>9, <1>10, <1>11 DEF IInv

\* Every step keeps the invariant.
LEMMA NextIInv == IInv /\ [Next]_vars => IInv'
  <1> SUFFICES ASSUME IInv, [Next]_vars PROVE IInv'
    OBVIOUS
  <1>t. TypeOK
    BY DEF IInv
  <1>h. at # "idle" => handling # None /\ redirecting
    BY DEF IInv, TypeOK, RedirectOwned
  <1>1. ASSUME NEW c \in Client, NEW form \in Form, Send(c, form) PROVE IInv'
    <2> DEFINE r == [id |-> asked + 1, from |-> c, form |-> form]
    <2>1. asked \in Nat /\ inbox \subseteq Request
      BY <1>t DEF TypeOK
    <2>2. r \in Request /\ r.id = asked + 1
      BY <2>1 DEF Request
    <2> HIDE DEF r
    <2>3. inbox' = inbox \union {r} /\ asked' = asked + 1 /\ guarded' = guarded
          /\ UNCHANGED <<handler, redirect, output, answers>>
      BY <1>1 DEF Send, r
    <2>4. \A q \in inbox : q.id \in Nat /\ q.id <= asked
      BY <2>1 DEF IInv, RequestsFresh, Request
    <2>5. \A q \in inbox' \ inbox : asked < q.id /\ q.id <= asked'
                                 /\ \A o \in inbox' : o.id = q.id => o = q
      BY <2>1, <2>2, <2>3, <2>4
    <2>6. inbox' \subseteq Request /\ guarded' \in BOOLEAN /\ asked' \in Nat /\ asked <= asked'
      BY <1>t, <2>1, <2>2, <2>3 DEF TypeOK
    <2>7. QED
      BY <2>3, <2>5, <2>6, NetworkKeeps
  <1>2. ASSUME NEW r \in inbox, Lose(r) \/ Ignore(r) PROVE IInv'
    <2>1. inbox' = inbox \ {r} /\ asked' = asked /\ guarded' = guarded
          /\ UNCHANGED <<handler, redirect, output, answers>>
      BY <1>2 DEF Lose, Ignore, Arrives
    <2>2. inbox' \subseteq Request /\ inbox' \ inbox = {} /\ asked' \in Nat /\ asked <= asked'
          /\ guarded' \in BOOLEAN
      BY <1>t, <2>1 DEF TypeOK
    <2>3. QED
      BY <2>1, <2>2, NetworkKeeps
  <1>3. ASSUME NEW r \in inbox, Malformed(r) PROVE IInv'
    BY <1>3, MalformedKeeps
  <1>4. ASSUME NEW r \in inbox, Start(r) PROVE IInv'
    BY <1>4, StartKeeps
  <1>5. CASE SetPassword
    <2>1. inbox' = inbox /\ asked' = asked /\ guarded' = ~guarded
          /\ UNCHANGED <<handler, redirect, output, answers>>
      BY <1>5 DEF SetPassword
    <2>2. inbox' \subseteq Request /\ inbox' \ inbox = {} /\ asked' \in Nat /\ asked <= asked'
      BY <1>t, <2>1 DEF TypeOK
    <2>3. guarded' \in BOOLEAN
      BY <1>t, <2>1 DEF TypeOK
    <2>4. QED
      BY <2>1, <2>2, <2>3, NetworkKeeps
  <1>6. ASSUME NEW p \in Printer, Say(p) PROVE IInv'
    <2>1. /\ Dispatch(p) /\ held[p] = None /\ handling' = handling /\ at' = at
          /\ UNCHANGED <<requests, answers, handling>>
      BY <1>6 DEF Say, handler
    <2>2. QED
      BY <1>t, <2>1, PrintKeeps DEF TypeOK
  <1>7. ASSUME NEW p \in Printer, Show(p) PROVE IInv'
    BY <1>7, ShowKeeps
  <1>8. CASE Refuse \/ RunPrint
    <2>1. /\ Dispatch(Main) /\ at # "idle" /\ at' \in {"check", "run"}
          /\ UNCHANGED <<requests, answers, handling>>
      BY <1>8 DEF Refuse, RunPrint, handler
    <2>2. Main \in Printer /\ redirecting
      BY <1>h, <2>1 DEF Printer
    <2>3. QED
      BY <2>1, <2>2, PrintKeeps
  <1>9. CASE RunReturn \/ GoOn
    <2>1. /\ at # "idle" /\ at' \in {"check", "clear"}
          /\ UNCHANGED <<requests, handling, redirect, output, answers>>
      BY <1>9 DEF RunReturn, GoOn
    <2>2. QED
      BY <2>1, MoveKeeps
  <1>10. CASE EndSilent
    <2>1. /\ at # "idle" /\ ~redirected
          /\ answers' = answers \union {Output(target, handling.id, <<>>)}
          /\ handling' = None /\ at' = "idle"
          /\ UNCHANGED <<requests, redirect, output>>
      BY <1>10 DEF EndSilent, EndWith
    <2>2. buffer = <<>> /\ buffer' = buffer /\ redirecting' = redirecting
          /\ redirected' = redirected /\ target' = target
      BY <1>h, <2>1 DEF IInv, RedirectOwned, redirect
    <2>3. redirecting' \in BOOLEAN /\ redirected' \in BOOLEAN /\ target' \in Client \union {None}
      BY <1>t, <2>2 DEF TypeOK
    <2>4. QED
      BY <2>1, <2>2, <2>3, EndKeeps
  <1>11. CASE ClearRedirect
    <2>1. /\ at # "idle" /\ handling' = None /\ at' = "idle" /\ buffer' = <<>>
          /\ redirecting' = FALSE /\ redirected' = FALSE /\ target' = None
          /\ answers' = answers \union {Output(target, handling.id, buffer)}
          /\ UNCHANGED <<requests, output>>
      BY <1>11 DEF ClearRedirect
    <2>2. QED
      BY <2>1, EndKeeps
  <1>12. CASE UNCHANGED vars
    <2>1. /\ inbox' = inbox /\ asked' = asked /\ guarded' = guarded
          /\ UNCHANGED <<handler, redirect, output, answers>>
      BY <1>12 DEF vars, requests
    <2>2. inbox' \subseteq Request /\ inbox' \ inbox = {} /\ asked' \in Nat /\ asked <= asked'
          /\ guarded' \in BOOLEAN
      BY <1>t, <2>1 DEF TypeOK
    <2>3. QED
      BY <2>1, <2>2, NetworkKeeps
  <1>13. QED
    BY <1>1, <1>2, <1>3, <1>4, <1>5, <1>6, <1>7, <1>8, <1>9, <1>10, <1>11, <1>12
       DEF Next, Handler

\* The invariant holds in every state.
THEOREM Invariance == Spec => []IInv
  BY InitIInv, NextIInv, PTL DEF Spec

\* The variables have their types, for any number of requests and lines.
THEOREM TypeCorrect == Spec => []TypeOK
  <1>1. IInv => TypeOK
    BY DEF IInv
  <1>2. QED
    BY <1>1, Invariance, PTL

\* A request is answered with all lines of its command, in order, and with
\* nothing that an earlier command has left in redirect_buffer.
THEOREM AnswersBelong == Spec => []AnswerIsOfRequest
  <1>1. IInv => AnswerIsOfRequest
    BY DEF IInv
  <1>2. QED
    BY <1>1, Invariance, PTL

\* A line goes to the console or into the redirect, never both ways; what is
\* printed while the redirect was left on goes neither way.
THEOREM OneWay == Spec => []OutputGoesOneWay
  <1>1. IInv => OutputGoesOneWay
    BY DEF IInv
  <1>2. QED
    BY <1>1, Invariance, PTL
-----------------------------------------------------------------------------
(* That an answer comes.  The provers do not look into ENABLED: that the   *)
(* guard of a step of the handler is all that the step needs is taken as a *)
(* hypothesis, StepsCanRun, which TLC finds true in all states of MCRcon.  *)

StepsCanRun ==
  /\ at = "refuse" => ENABLED <<Refuse>>_vars
  /\ at = "run" => ENABLED <<RunReturn>>_vars
  /\ at = "check" /\ ~redirected => ENABLED <<EndSilent>>_vars
  /\ at = "check" /\ redirected => ENABLED <<GoOn>>_vars
  /\ at = "clear" => ENABLED <<ClearRedirect>>_vars

\* The request number id of client c is handled, and was answered.
Handled(c, id) == handling # None /\ handling.id = id /\ handling.from = c
Answered(c, id) == \E a \in answers : a.kind = "output" /\ a.req = id /\ a.to = c

\* While a request is handled only the handler goes on with it; what other
\* threads do can but add to the redirect.
LEMMA HandlerAlone ==
  ASSUME IInv, [Next]_vars, handling # None
  PROVE  \/ Refuse \/ RunReturn \/ EndSilent \/ GoOn \/ ClearRedirect
         \/ UNCHANGED handler /\ (redirected => redirected')
  <1>t. TypeOK /\ at # "idle"
    BY DEF IInv, TypeOK
  <1>1. CASE \E c \in Client, form \in Form : Send(c, form)
    BY <1>1 DEF Send, redirect
  <1>2. CASE \E r \in inbox : Lose(r) \/ Malformed(r) \/ Ignore(r) \/ Start(r)
    <2>1. PICK r \in inbox : Lose(r)
      BY <1>t, <1>2 DEF Malformed, Ignore, Start, StartWith, Arrives
    <2>2. QED
      BY <2>1 DEF Lose, redirect
  <1>3. CASE SetPassword
    BY <1>3 DEF SetPassword, redirect
  <1>4. CASE \E p \in Printer : Say(p) \/ Show(p)
    <2>1. PICK p \in Printer : Say(p) \/ Show(p)
      BY <1>4
    <2>2. CASE Say(p)
      BY <2>2 DEF Say, Dispatch
    <2>3. CASE Show(p)
      BY <2>3 DEF Show, redirect
    <2>4. QED
      BY <2>1, <2>2, <2>3
  <1>5. CASE RunPrint
    BY <1>5 DEF RunPrint, Dispatch
  <1>6. CASE UNCHANGED vars
    BY <1>6 DEF vars, redirect
  <1>7. QED
    BY <1>1, <1>2, <1>3, <1>4, <1>5, <1>6 DEF Next, Handler

\* The two steps that end the handler answer the client that asked.
LEMMA EndAnswers ==
  ASSUME NEW c \in Client, NEW id, IInv, Handled(c, id), EndSilent \/ ClearRedirect
  PROVE  Answered(c, id)'
  <1>1. target = c
    BY DEF IInv, RedirectOwned, Handled
  <1>2. PICK ls : answers' = answers \union {Output(c, id, ls)}
    BY <1>1 DEF EndSilent, EndWith, ClearRedirect, Handled
  <1>3. /\ Output(c, id, ls) \in answers'
        /\ Output(c, id, ls).kind = "output"
        /\ Output(c, id, ls).req = id /\ Output(c, id, ls).to = c
    BY <1>2 DEF Output
  <1>4. QED
    BY <1>3 DEF Answered

\* A request whose handler has begun, be it to run the command or to refuse
\* it, is answered to the client that sent it, whatever the other threads
\* print meanwhile and however long the command prints.
THEOREM AnswerIsSent == Spec /\ []StepsCanRun => AnswerComes
  <1> SUFFICES ASSUME NEW c \in Client, NEW id \in 1 .. MaxRequests
               PROVE  Spec /\ []StepsCanRun => (Handled(c, id) ~> Answered(c, id))
    BY DEF AnswerComes, Handled, Answered
  <1> DEFINE In(where) == IInv /\ Handled(c, id) /\ at = where
             Left == In("check") /\ redirected
             Empt == In("check") /\ ~redirected
  <1>1. In("refuse") /\ [Next]_vars => In("refuse")' \/ (Handled(c, id) /\ at = "check")'
    BY NextIInv, HandlerAlone
       DEF Handled, handler, Refuse, RunReturn, EndSilent, EndWith, GoOn, ClearRedirect
  <1>2. In("refuse") /\ <<Refuse>>_vars => (Handled(c, id) /\ at = "check")'
    BY DEF Handled, Refuse
  <1>3. In("run") /\ [Next]_vars => In("run")' \/ (Handled(c, id) /\ at = "check")'
    BY NextIInv, HandlerAlone
       DEF Handled, handler, Refuse, RunReturn, EndSilent, EndWith, GoOn, ClearRedirect
  <1>4. In("run") /\ <<RunReturn>>_vars => (Handled(c, id) /\ at = "check")'
    BY DEF Handled, RunReturn
  <1>5. Empt /\ [Next]_vars => Empt' \/ Left' \/ Answered(c, id)'
    BY NextIInv, HandlerAlone, EndAnswers
       DEF Handled, handler, Refuse, RunReturn, GoOn, ClearRedirect
  <1>6. Empt /\ <<EndSilent>>_vars => Answered(c, id)'
    BY EndAnswers
  <1>7. Left /\ [Next]_vars => Left' \/ In("clear")'
    BY NextIInv, HandlerAlone
       DEF Handled, handler, redirect, Refuse, RunReturn, EndSilent, EndWith, GoOn, ClearRedirect
  <1>8. Left /\ <<GoOn>>_vars /\ [Next]_vars => In("clear")'
    BY NextIInv DEF Handled, GoOn
  <1>9. In("clear") /\ [Next]_vars => In("clear")' \/ Answered(c, id)'
    BY NextIInv, HandlerAlone, EndAnswers
       DEF Handled, handler, Refuse, RunReturn, EndSilent, EndWith, GoOn
  <1>10. In("clear") /\ <<ClearRedirect>>_vars => Answered(c, id)'
    BY EndAnswers
  <1>11. IInv /\ Handled(c, id) => In("refuse") \/ In("run") \/ Empt \/ Left \/ In("clear")
    BY DEF IInv, TypeOK, Handled
  <1> DEFINE Here == Spec /\ []StepsCanRun
  <1>12. Here => (In("refuse") ~> Handled(c, id) /\ at = "check")
    BY <1>1, <1>2, PTL DEF Spec, StepsCanRun, In
  <1>13. Here => (In("run") ~> Handled(c, id) /\ at = "check")
    BY <1>3, <1>4, PTL DEF Spec, StepsCanRun, In
  <1>14. Here => (Empt ~> Left \/ Answered(c, id))
    BY <1>5, <1>6, PTL DEF Spec, StepsCanRun, Empt, Left, In
  <1>15. Here => (Left ~> In("clear"))
    BY <1>7, <1>8, PTL DEF Spec, StepsCanRun, Left, In
  <1>16. Here => (In("clear") ~> Answered(c, id))
    BY <1>9, <1>10, PTL DEF Spec, StepsCanRun, In
  <1>17. QED
    BY <1>11, <1>12, <1>13, <1>14, <1>15, <1>16, Invariance, PTL DEF Empt, Left, In, Spec
=============================================================================

-------------------------- MODULE ServerListProofs --------------------------
(***************************************************************************)
(* What is proved about ServerList, for any addresses, page size and       *)
(* number of actions: its type invariant, what the lists and the page      *)
(* shown hold, and at the end of the module that every job is over in the  *)
(* end.                                                                    *)
(***************************************************************************)
EXTENDS ServerList, SequenceTheorems, FiniteSetTheorems, TLAPS

USE LimitAssumption, LocalAssumption, ListsAssumption, MaxOpsAssumption

\* A task of the main pipeline.
Task ==
  [do : {"page"}, page : Nat] \union [do : {"insert"}, list : Seq(Server)]
  \union [do : {"sort", "loaded"}]

\* A thread of a job.
Thread == [to : Server, at : {"begin", "asked", "insert", "done"}]

\* The type invariant, by groups of variables.
FileTypes == favourites \in Seq(Server)
DisplayTypes == servers \in Seq(Server) /\ pages \in Seq(Seq(Server)) /\ current \in Int
FlagTypes ==
  getting \in [Job -> BOOLEAN] /\ interrupt \in [Job -> BOOLEAN] /\ loading \in BOOLEAN
WorkTypes ==
  /\ jobs \in Seq(Job) /\ net \in Job \union {"idle", "terminated"}
  /\ listed \in BOOLEAN /\ (listed => net \in Job) /\ (todo # <<>> => listed)
  /\ todo \in Seq(Server \union {Bad}) /\ index \in Nat /\ threads \in Seq(Thread)
FrameTypes ==
  /\ main \in {"idle", "refresh", "check", "insert"}
  /\ batch \in Seq(Server) /\ (main = "insert" => batch # <<>>)
  /\ tasks \in Seq(Task)
HistoryTypes ==
  /\ ops \in 0 .. MaxOps /\ overlapped \in BOOLEAN /\ crossed \in BOOLEAN /\ twice \in BOOLEAN
  /\ found \in [Server -> Nat]
Types ==
  FileTypes /\ DisplayTypes /\ FlagTypes /\ WorkTypes /\ FrameTypes /\ HistoryTypes

-----------------------------------------------------------------------------
(* Sequences.                                                              *)

\* RemoveAt takes one element out.
LEMMA RemoveAtIs ==
  ASSUME NEW S, NEW s \in Seq(S), NEW i \in 1 .. Len(s)
  PROVE  /\ RemoveAt(s, i) \in Seq(S) /\ Len(RemoveAt(s, i)) = Len(s) - 1
         /\ \A j \in 1 .. Len(s) - 1 :
              RemoveAt(s, i)[j] = IF j < i THEN s[j] ELSE s[j + 1]
  <1> DEFINE a == SubSeq(s, 1, i - 1)
             b == SubSeq(s, i + 1, Len(s))
  <1>1. Len(s) \in Nat /\ i \in Nat \ {0} /\ i <= Len(s)
    OBVIOUS
  <1>2. /\ a \in Seq(S) /\ Len(a) = i - 1
        /\ \A j \in 1 .. i - 1 : a[j] = s[j]
    BY <1>1
  <1>3. /\ b \in Seq(S) /\ Len(b) = Len(s) - i
        /\ \A j \in 1 .. Len(s) - i : b[j] = s[j + i]
    BY <1>1
  <1>4. RemoveAt(s, i) = a \o b
    BY DEF RemoveAt
  <1> HIDE DEF a, b
  <1>5. /\ a \o b \in Seq(S) /\ Len(a \o b) = Len(a) + Len(b)
        /\ \A j \in 1 .. Len(a) + Len(b) :
             (a \o b)[j] = IF j <= Len(a) THEN a[j] ELSE b[j - Len(a)]
    <2>1. a \in Seq(S) /\ b \in Seq(S)
      BY <1>2, <1>3
    <2>2. QED
      BY <2>1, ConcatProperties
  <1>6. Len(a) + Len(b) = Len(s) - 1
    BY <1>1, <1>2, <1>3
  <1>7. ASSUME NEW j \in 1 .. Len(s) - 1
        PROVE  (a \o b)[j] = IF j < i THEN s[j] ELSE s[j + 1]
    <2>1. CASE j < i
      <3>1. j \in 1 .. Len(a) + Len(b) /\ j <= Len(a) /\ j \in 1 .. i - 1
        BY <1>1, <1>2, <1>6, <2>1
      <3>2. QED
        BY <1>2, <1>5, <2>1, <3>1
    <2>2. CASE ~(j < i)
      <3>1. /\ j \in 1 .. Len(a) + Len(b) /\ ~(j <= Len(a)) /\ j - Len(a) \in 1 .. Len(s) - i
            /\ (j - Len(a)) + i = j + 1
        BY <1>1, <1>2, <1>6, <2>2
      <3>2. (a \o b)[j] = b[j - Len(a)] /\ b[j - Len(a)] = s[(j - Len(a)) + i]
        BY <1>3, <1>5, <3>1
      <3>3. QED
        BY <2>2, <3>1, <3>2
    <2>3. QED
      BY <2>1, <2>2
  <1>8. QED
    BY <1>4, <1>5, <1>6, <1>7

\* An element of what RemoveAt leaves was an element.
LEMMA RemoveAtKeeps ==
  ASSUME NEW S, NEW s \in Seq(S), NEW i \in 1 .. Len(s)
  PROVE  \A j \in 1 .. Len(RemoveAt(s, i)) :
           \E k \in 1 .. Len(s) : k # i /\ k \in {j, j + 1} /\ RemoveAt(s, i)[j] = s[k]
  <1>1. SUFFICES ASSUME NEW j \in 1 .. Len(RemoveAt(s, i))
                 PROVE  \E k \in 1 .. Len(s) : k # i /\ k \in {j, j + 1} /\ RemoveAt(s, i)[j] = s[k]
    OBVIOUS
  <1>2. Len(s) \in Nat /\ j \in 1 .. Len(s) - 1
        /\ RemoveAt(s, i)[j] = IF j < i THEN s[j] ELSE s[j + 1]
    BY <1>1, RemoveAtIs
  <1>3. CASE j < i
    <2>1. j \in 1 .. Len(s) /\ j # i /\ RemoveAt(s, i)[j] = s[j]
      BY <1>2, <1>3
    <2>2. QED
      BY <2>1
  <1>4. CASE ~(j < i)
    <2>1. j + 1 \in 1 .. Len(s) /\ j + 1 # i /\ RemoveAt(s, i)[j] = s[j + 1]
      BY <1>2, <1>4
    <2>2. QED
      BY <2>1
  <1>5. QED
    BY <1>3, <1>4

\* What a sequence holds when something is put at its end.
LEMMA AppendIs ==
  ASSUME NEW S, NEW s \in Seq(S), NEW e \in S
  PROVE  /\ Append(s, e) \in Seq(S) /\ Len(Append(s, e)) = Len(s) + 1 /\ Len(s) \in Nat
         /\ Append(s, e)[Len(s) + 1] = e
         /\ \A i \in 1 .. Len(s) : Append(s, e)[i] = s[i]
         /\ ToSet(Append(s, e)) = ToSet(s) \union {e}
  <1>1. /\ Append(s, e) \in Seq(S) /\ Len(Append(s, e)) = Len(s) + 1 /\ Len(s) \in Nat
        /\ Append(s, e)[Len(s) + 1] = e
        /\ \A i \in 1 .. Len(s) : Append(s, e)[i] = s[i]
    BY AppendProperties, LenProperties
  <1>2. DOMAIN s = 1 .. Len(s) /\ DOMAIN Append(s, e) = 1 .. Len(s) + 1
    BY <1>1, LenProperties
  <1>3. ToSet(Append(s, e)) \subseteq ToSet(s) \union {e}
    <2>1. SUFFICES ASSUME NEW i \in 1 .. Len(s) + 1
                   PROVE  Append(s, e)[i] \in ToSet(s) \union {e}
      BY <1>2 DEF ToSet
    <2>2. CASE i = Len(s) + 1
      BY <1>1, <2>2
    <2>3. CASE i # Len(s) + 1
      <3>1. i \in 1 .. Len(s)
        BY <1>1, <2>3
      <3>2. QED
        BY <1>1, <1>2, <3>1 DEF ToSet
    <2>4. QED
      BY <2>2, <2>3
  <1>4. ToSet(s) \union {e} \subseteq ToSet(Append(s, e))
    <2>1. Len(s) + 1 \in DOMAIN Append(s, e)
      BY <1>1, <1>2
    <2>2. ASSUME NEW i \in 1 .. Len(s) PROVE i \in DOMAIN Append(s, e)
      BY <1>1, <1>2
    <2>3. QED
      BY <1>1, <1>2, <2>1, <2>2 DEF ToSet
  <1>5. QED
    BY <1>1, <1>3, <1>4

\* The first and the others.
LEMMA HeadTailSets ==
  ASSUME NEW S, NEW s \in Seq(S), s # <<>>
  PROVE  /\ Head(s) \in S /\ Tail(s) \in Seq(S)
         /\ Len(s) \in Nat \ {0} /\ Len(Tail(s)) = Len(s) - 1
         /\ Head(s) = s[1] /\ \A i \in 1 .. Len(s) - 1 : Tail(s)[i] = s[i + 1]
         /\ ToSet(s) = {Head(s)} \union ToSet(Tail(s))
  <1>1. /\ Head(s) \in S /\ Tail(s) \in Seq(S) /\ Len(Tail(s)) = Len(s) - 1
        /\ \A i \in 1 .. Len(Tail(s)) : Tail(s)[i] = s[i + 1]
        /\ Len(s) \in Nat \ {0}
    BY HeadTailProperties, EmptySeq
  <1>2. Head(s) = s[1]
    OBVIOUS
  <1>3. DOMAIN s = 1 .. Len(s) /\ DOMAIN Tail(s) = 1 .. Len(s) - 1
    BY <1>1, LenProperties
  <1>4. ToSet(s) \subseteq {Head(s)} \union ToSet(Tail(s))
    <2>1. SUFFICES ASSUME NEW i \in 1 .. Len(s) PROVE s[i] \in {s[1]} \union ToSet(Tail(s))
      BY <1>2, <1>3 DEF ToSet
    <2>2. CASE i = 1
      BY <2>2
    <2>3. CASE i # 1
      <3>1. i - 1 \in 1 .. Len(s) - 1 /\ (i - 1) + 1 = i
        BY <1>1, <2>3
      <3>2. Tail(s)[i - 1] = s[i]
        BY <1>1, <3>1
      <3>3. QED
        BY <1>3, <3>1, <3>2 DEF ToSet
    <2>4. QED
      BY <2>2, <2>3
  <1>5. {Head(s)} \union ToSet(Tail(s)) \subseteq ToSet(s)
    <2>1. 1 \in DOMAIN s
      BY <1>1, <1>3
    <2>2. ASSUME NEW i \in 1 .. Len(s) - 1 PROVE i + 1 \in DOMAIN s /\ Tail(s)[i] = s[i + 1]
      BY <1>1, <1>3
    <2>3. QED
      BY <1>2, <1>3, <2>1, <2>2 DEF ToSet
  <1>6. QED
    BY <1>1, <1>2, <1>4, <1>5

\* The page that add_server_to_page makes or extends.
Page(p) == IF p <= Len(pages) THEN pages[p] ELSE <<>>
Pages(k) == IF k < Len(pages) THEN Len(pages) ELSE k + 1

\* What add_server_to_page makes of the pages.
LEMMA WithServerIs ==
  ASSUME pages \in Seq(Seq(Server)), NEW s \in Server, NEW k \in Nat
  PROVE  /\ WithServer(s, k) \in Seq(Seq(Server)) /\ Len(WithServer(s, k)) = Pages(k)
         /\ Pages(k) \in Nat \ {0} /\ Len(pages) <= Pages(k) /\ k + 1 \in 1 .. Pages(k)
         /\ \A p \in 1 .. Pages(k) : Page(p) \in Seq(Server)
         /\ \A p \in 1 .. Pages(k) :
              WithServer(s, k)[p] = IF p = k + 1 /\ Len(Page(p)) < Limit
                                    THEN Append(Page(p), s) ELSE Page(p)
  <1> DEFINE n == Pages(k)
             grown == [p \in 1 .. n |-> Page(p)]
             g == [p \in 1 .. (IF k < Len(pages) THEN Len(pages) ELSE k + 1) |->
                     IF p <= Len(pages) THEN pages[p] ELSE <<>>]
  <1>1. Len(pages) \in Nat
    BY LenProperties
  <1>2. n \in Nat \ {0} /\ Len(pages) <= n /\ k + 1 \in 1 .. n
    BY <1>1 DEF Pages
  <1>3. \A p \in 1 .. n : Page(p) \in Seq(Server)
    BY <1>1, <1>2 DEF Page
  <1>g. grown = g
    BY DEF Pages, Page
  <1>4. WithServer(s, k) = IF Len(g[k + 1]) >= Limit THEN g ELSE [g EXCEPT ![k + 1] = Append(@, s)]
    BY DEF WithServer
  <1> HIDE DEF n, g
  <1>5. grown \in [1 .. n -> Seq(Server)]
    BY <1>3
  <1>6. grown \in Seq(Seq(Server)) /\ Len(grown) = n
    BY <1>2, <1>5
  <1>7. /\ grown[k + 1] = Page(k + 1) /\ Len(Page(k + 1)) \in Nat
        /\ \A p \in 1 .. n : grown[p] = Page(p)
    BY <1>2, <1>3, LenProperties
  <1> HIDE DEF grown
  <1>8. CASE Len(Page(k + 1)) >= Limit
    <2>1. WithServer(s, k) = grown
      BY <1>4, <1>7, <1>8, <1>g
    <2>2. QED
      BY <1>2, <1>3, <1>6, <1>7, <1>8, <2>1 DEF n
  <1>9. CASE ~(Len(Page(k + 1)) >= Limit)
    <2>1. WithServer(s, k) = [grown EXCEPT ![k + 1] = Append(Page(k + 1), s)]
      BY <1>4, <1>7, <1>9, <1>g
    <2>2. Append(Page(k + 1), s) \in Seq(Server)
      BY <1>2, <1>3
    <2>3. /\ WithServer(s, k) \in Seq(Seq(Server)) /\ Len(WithServer(s, k)) = n
          /\ \A p \in 1 .. n : WithServer(s, k)[p] = IF p = k + 1 THEN Append(Page(k + 1), s)
                                                     ELSE grown[p]
      BY <1>2, <1>6, <2>1, <2>2, ExceptSeq
    <2>4. Len(Page(k + 1)) < Limit
      BY <1>7, <1>9
    <2>5. \A p \in 1 .. n :
            WithServer(s, k)[p] = IF p = k + 1 /\ Len(Page(p)) < Limit
                                  THEN Append(Page(p), s) ELSE Page(p)
      BY <1>7, <2>3, <2>4
    <2>6. QED
      BY <1>2, <1>3, <2>3, <2>5 DEF n
  <1>10. QED
    BY <1>8, <1>9

\* The number of an answer is on a page.
LEMMA PageOfIndex ==
  ASSUME NEW n \in Nat
  PROVE  /\ n \div Limit \in Nat
         /\ (n \div Limit) * Limit <= n /\ n < (n \div Limit) * Limit + Limit
  OBVIOUS

-----------------------------------------------------------------------------
(* The types hold.                                                         *)

\* At first.
LEMMA InitTypes == Init => Types
  <1> SUFFICES ASSUME Init PROVE Types
    OBVIOUS
  <1>0. FileTypes
    BY DEF Init, FileTypes
  <1>1. DisplayTypes
    BY DEF Init, DisplayTypes
  <1>2. FlagTypes
    BY DEF Init, FlagTypes
  <1>3. WorkTypes
    BY EmptySeq DEF Init, WorkTypes
  <1>4. FrameTypes
    BY DEF Init, FrameTypes
  <1>5. HistoryTypes
    <2>1. /\ ops = 0 /\ overlapped = FALSE /\ crossed = FALSE /\ twice = FALSE
          /\ found = [s \in Server |-> 0]
      BY DEF Init
    <2>2. 0 \in 0 .. MaxOps
      BY MaxOpsAssumption
    <2>3. QED
      BY <2>1, <2>2 DEF HistoryTypes
  <1>6. QED
    BY <1>0, <1>1, <1>2, <1>3, <1>4, <1>5 DEF Types

\* They are what TypeOK says.
LEMMA TypesImply == Types => TypeOK
  <1> SUFFICES ASSUME Types PROVE TypeOK
    OBVIOUS
  <1>1. \A i \in DOMAIN tasks : tasks[i] \in Task
    BY ElementOfSeq, LenProperties DEF Types, FrameTypes
  <1>2. \A i \in DOMAIN tasks :
          \/ tasks[i].do = "page" /\ tasks[i].page \in Nat
          \/ tasks[i].do = "insert" /\ tasks[i].list \in Seq(Server)
          \/ tasks[i].do \in {"sort", "loaded"}
    BY <1>1 DEF Task
  <1>3. QED
    BY <1>2
       DEF Types, FileTypes, DisplayTypes, FlagTypes, WorkTypes, FrameTypes, HistoryTypes, TypeOK,
           Thread

\* A task leaves the others.
LEMMA RestTypes ==
  ASSUME tasks \in Seq(Task), NEW i \in DOMAIN tasks
  PROVE  RemoveAt(tasks, i) \in Seq(Task)
  BY RemoveAtIs, LenProperties

\* Insert keeps the type.
LEMMA InsertType ==
  ASSUME servers \in Seq(Server), NEW s \in Server, Insert(s)
  PROVE  servers' \in Seq(Server)
  BY DEF Insert

\* What delete_favourite keeps of a page is a page, and no longer.
LEMMA KeptIs ==
  ASSUME NEW page \in Seq(Server), NEW i \in DOMAIN page, NEW at,
         at \in [1 .. Cardinality(KeptEntries(page, i)) -> KeptEntries(page, i)]
  PROVE  /\ [m \in DOMAIN at |-> page[at[m]]] \in Seq(Server)
         /\ Len([m \in DOMAIN at |-> page[at[m]]]) <= Len(page)
  <1>1. DOMAIN page = 1 .. Len(page) /\ Len(page) \in Nat
    BY LenProperties
  <1>2. KeptEntries(page, i) \subseteq 1 .. Len(page)
    BY <1>1 DEF KeptEntries
  <1> DEFINE kept == KeptEntries(page, i)
             all == 1 .. Len(page)
             n == Cardinality(kept)
  <1>3. IsFiniteSet(all) /\ Cardinality(all) = Len(page)
    <2>0. ASSUME NEW m \in Nat PROVE IsFiniteSet(1 .. m) /\ Cardinality(1 .. m) = m
      BY FS_Interval
    <2>1. QED
      BY <1>1, <2>0
  <1>4. kept \subseteq all
    BY <1>2
  <1>n. at \in [1 .. n -> kept]
    OBVIOUS
  <1> HIDE DEF kept, all
  <1>5. Cardinality(kept) \in Nat /\ Cardinality(kept) <= Len(page)
    BY <1>3, <1>4, FS_Subset, FS_CardinalityType
  <1>6. n \in Nat /\ n <= Len(page)
    BY <1>5
  <1> HIDE DEF n
  <1>7. \A m \in 1 .. n : at[m] \in 1 .. Len(page)
    BY <1>n, <1>4 DEF all
  <1>8. \A m \in 1 .. n : page[at[m]] \in Server
    BY <1>1, <1>7
  <1>9. [m \in DOMAIN at |-> page[at[m]]] \in [1 .. n -> Server]
    BY <1>8, <1>n
  <1> DEFINE new == [m \in DOMAIN at |-> page[at[m]]]
  <1>f. new \in [1 .. n -> Server]
    BY <1>9
  <1> HIDE DEF new
  <1>10. new \in Seq(Server) /\ Len(new) = n
    BY <1>6, <1>f
  <1>11. QED
    BY <1>6, <1>10 DEF new

\* An entry of the page that current_page names.
LEMMA OnPageIs ==
  ASSUME Types, NEW i, OnPage(i)
  PROVE  /\ current + 1 \in DOMAIN pages /\ pages[current + 1] \in Seq(Server)
         /\ i \in DOMAIN pages[current + 1] /\ pages[current + 1][i] \in Server
  <1>1. /\ pages \in Seq(Seq(Server)) /\ DOMAIN pages = 1 .. Len(pages) /\ Len(pages) \in Nat
        /\ current \in 0 .. Len(pages) - 1
    BY LenProperties DEF OnPage, Types, DisplayTypes
  <1>2. current + 1 \in DOMAIN pages
    BY <1>1
  <1>3. pages[current + 1] \in Seq(Server)
    BY <1>1, <1>2
  <1>4. i \in DOMAIN pages[current + 1]
    BY DEF OnPage
  <1>5. QED
    BY <1>2, <1>3, <1>4, LenProperties

\* A server is deleted.
LEMMA DeleteIs ==
  ASSUME Types, NEW i, DeleteFavourite(i)
  PROVE  /\ pages' \in Seq(Seq(Server)) /\ Len(pages') = Len(pages)
         /\ \A p \in DOMAIN pages' : p \in DOMAIN pages /\ Len(pages'[p]) <= Len(pages[p])
  <1> DEFINE c == current + 1
             page == pages[c]
             kept == KeptEntries(page, i)
  <1>1. /\ pages \in Seq(Seq(Server)) /\ c \in DOMAIN pages /\ page \in Seq(Server)
        /\ i \in DOMAIN page
    BY OnPageIs DEF DeleteFavourite, Types, DisplayTypes
  <1>2. PICK at \in [1 .. Cardinality(kept) -> kept] :
          pages' = [pages EXCEPT ![c] = [m \in DOMAIN at |-> page[at[m]]]]
    BY DEF DeleteFavourite
  <1> DEFINE new == [m \in DOMAIN at |-> page[at[m]]]
  <1> HIDE DEF page
  <1>3. new \in Seq(Server) /\ Len(new) <= Len(page)
    BY <1>1, KeptIs
  <1>4. pages' = [pages EXCEPT ![c] = new]
    BY <1>2
  <1> HIDE DEF new, kept, c
  <1>5. DOMAIN pages = 1 .. Len(pages) /\ Len(pages) \in Nat
    BY <1>1, LenProperties
  <1>6. pages' \in Seq(Seq(Server)) /\ Len(pages') = Len(pages)
        /\ \A p \in 1 .. Len(pages) : pages'[p] = IF p = c THEN new ELSE pages[p]
    BY <1>1, <1>3, <1>4, <1>5, ExceptSeq
  <1>7. DOMAIN pages' = 1 .. Len(pages)
    BY <1>6, LenProperties
  <1>8. ASSUME NEW p \in 1 .. Len(pages) PROVE Len(pages'[p]) <= Len(pages[p])
    <2>1. Len(pages[p]) \in Nat
      BY <1>1, LenProperties
    <2>2. CASE p = c
      BY <1>3, <1>6, <2>2 DEF page
    <2>3. CASE p # c
      BY <1>6, <2>1, <2>3
    <2>4. QED
      BY <2>2, <2>3
  <1>9. QED
    BY <1>5, <1>6, <1>7, <1>8

\* A page is asked for.
LEMMA LoadPageTypes ==
  ASSUME Types, NEW k \in Int, LoadPage(k)
  PROVE  /\ loading' \in BOOLEAN /\ servers' \in Seq(Server) /\ tasks' \in Seq(Task)
         /\ twice' \in BOOLEAN
         /\ k \in 0 .. Len(pages) - 1 => current' = k
  <1>1. loading \in BOOLEAN /\ servers \in Seq(Server) /\ tasks \in Seq(Task) /\ twice \in BOOLEAN
        /\ pages \in Seq(Seq(Server))
    BY DEF Types, DisplayTypes, FlagTypes, FrameTypes, HistoryTypes
  <1>2. CASE k \in 0 .. Len(pages) - 1
    <2>1. [do |-> "page", page |-> k] \in Task
      BY <1>2 DEF Task
    <2>2. /\ loading' = (loading \/ k \in 0 .. Len(pages) - 1) /\ twice' = (twice \/ loading)
          /\ servers' = <<>> /\ tasks' = Append(tasks, [do |-> "page", page |-> k]) /\ current' = k
      BY <1>2 DEF LoadPage, LoadPageIf
    <2>3. loading' \in BOOLEAN /\ twice' \in BOOLEAN
      BY <1>1, <2>2
    <2>4. servers' \in Seq(Server) /\ tasks' \in Seq(Task)
      BY <1>1, <2>1, <2>2
    <2>5. QED
      BY <2>2, <2>3, <2>4
  <1>3. CASE k \notin 0 .. Len(pages) - 1
    BY <1>1, <1>3 DEF LoadPage, LoadPageIf
  <1>4. QED
    BY <1>2, <1>3

\* What the user does.
LEMMA UserTypes == Types /\ User => Types'
  <1> SUFFICES ASSUME Types, User PROVE Types'
    OBVIOUS
  <1>1. ASSUME NEW kind, Act(kind)
        PROVE  ops' \in 0 .. MaxOps /\ overlapped' \in BOOLEAN
    BY <1>1 DEF Act, Types, HistoryTypes
  <1>2. CASE Refresh
    <2>1. FileTypes' /\ DisplayTypes' /\ FlagTypes' /\ WorkTypes'
      BY <1>2 DEF Refresh, RefreshUnless, display, flags, work, Types, FileTypes, DisplayTypes,
                  FlagTypes, WorkTypes
    <2>2. FrameTypes' /\ HistoryTypes'
      BY <1>1, <1>2 DEF Refresh, RefreshUnless, Types, FrameTypes, HistoryTypes
    <2>3. QED
      BY <2>1, <2>2 DEF Types
  <1>3. CASE Sort
    <2>1. [do |-> "insert", list |-> servers] \in Task
      BY DEF Task, Types, DisplayTypes
    <2>2. FileTypes' /\ FlagTypes' /\ WorkTypes'
      BY <1>3 DEF Sort, flags, work, Types, FileTypes, FlagTypes, WorkTypes
    <2>3. DisplayTypes' /\ FrameTypes'
      BY <1>3, <2>1 DEF Sort, SortInto, Act, Types, DisplayTypes, FrameTypes
    <2>4. HistoryTypes'
      BY <1>1, <1>3 DEF Sort, Types, HistoryTypes
    <2>5. QED
      BY <2>2, <2>3, <2>4 DEF Types
  <1>4. CASE Join
    <2>1. FileTypes' /\ DisplayTypes' /\ WorkTypes' /\ FrameTypes'
      BY <1>4 DEF Join, Act, display, work, frame, Types, FileTypes, DisplayTypes, WorkTypes,
                  FrameTypes
    <2>2. FlagTypes' /\ HistoryTypes'
      BY <1>1, <1>4 DEF Join, Types, FlagTypes, HistoryTypes
    <2>3. QED
      BY <2>1, <2>2 DEF Types
  <1>5. ASSUME NEW k \in 0 .. 1, OpenPage(k) PROVE Types'
    <2>1. /\ loading' \in BOOLEAN /\ servers' \in Seq(Server) /\ tasks' \in Seq(Task)
          /\ twice' \in BOOLEAN /\ current' \in Int
      BY <1>5, LoadPageTypes DEF OpenPage, Types, DisplayTypes
    <2>2. FileTypes' /\ WorkTypes' /\ FlagTypes'
      BY <1>5, <2>1 DEF OpenPage, work, Types, FileTypes, WorkTypes, FlagTypes
    <2>3. DisplayTypes' /\ FrameTypes'
      BY <1>5, <2>1 DEF OpenPage, Types, DisplayTypes, FrameTypes
    <2>4. HistoryTypes'
      BY <1>1, <1>5, <2>1 DEF OpenPage, Types, HistoryTypes
    <2>5. QED
      BY <2>2, <2>3, <2>4 DEF Types
  <1>6. ASSUME NEW step \in {1, -1}, TurnPage(step) PROVE Types'
    <2> DEFINE k == current + step
               to == CASE step = -1 /\ k < 0 -> TotalPages - 1
                       [] step = 1 /\ k >= TotalPages -> 0
                       [] OTHER -> k
    <2>1. /\ LoadPage(to) /\ Act("page") /\ (to \notin 0 .. Len(pages) - 1 => current' = k)
          /\ UNCHANGED <<favourites, pages, getting, interrupt, work, main, batch, crossed, found>>
      BY <1>6 DEF TurnPage
    <2>k. k \in Int
      BY <1>6 DEF Types, DisplayTypes
    <2> HIDE DEF k, to
    <2>2. CASE to \in 0 .. Len(pages) - 1
      <3>1. to \in Int
        BY <2>2
      <3>2. /\ loading' \in BOOLEAN /\ servers' \in Seq(Server) /\ tasks' \in Seq(Task)
            /\ twice' \in BOOLEAN /\ current' \in Int
        BY <2>1, <2>2, <3>1, LoadPageTypes
      <3>3. FileTypes' /\ WorkTypes' /\ FlagTypes'
        BY <2>1, <3>2 DEF work, Types, FileTypes, WorkTypes, FlagTypes
      <3>4. DisplayTypes' /\ FrameTypes'
        BY <2>1, <3>2 DEF Types, DisplayTypes, FrameTypes
      <3>5. HistoryTypes'
        BY <1>1, <2>1, <3>2 DEF Types, HistoryTypes
      <3>6. QED
        BY <3>3, <3>4, <3>5 DEF Types
    <2>3. CASE to \notin 0 .. Len(pages) - 1
      <3>1. current' = k /\ UNCHANGED <<servers, tasks, twice>> /\ loading' = (loading \/ FALSE)
        BY <2>1, <2>3 DEF LoadPage, LoadPageIf
      <3>2. FileTypes' /\ WorkTypes' /\ FlagTypes'
        BY <2>1, <3>1 DEF work, Types, FileTypes, WorkTypes, FlagTypes
      <3>3. DisplayTypes' /\ FrameTypes'
        BY <2>1, <2>k, <3>1 DEF Types, DisplayTypes, FrameTypes
      <3>4. HistoryTypes'
        BY <1>1, <2>1, <3>1 DEF Types, HistoryTypes
      <3>5. QED
        BY <3>2, <3>3, <3>4 DEF Types
    <2>4. QED
      BY <2>2, <2>3
  <1>7. ASSUME NEW i \in 1 .. Limit, AddFavourite(i) PROVE Types'
    <2>1. pages[current + 1][i] \in Server
      BY <1>7, OnPageIs DEF AddFavourite
    <2> DEFINE s == pages[current + 1][i]
    <2>2. s \in Server /\ favourites' = Append(favourites, s)
      BY <1>7, <2>1 DEF AddFavourite
    <2> HIDE DEF s
    <2>3. FileTypes'
      BY <2>2 DEF Types, FileTypes
    <2>4. DisplayTypes' /\ FlagTypes' /\ WorkTypes' /\ FrameTypes'
      BY <1>7 DEF AddFavourite, Act, display, flags, work, frame, Types, DisplayTypes, FlagTypes,
                  WorkTypes, FrameTypes
    <2>5. HistoryTypes'
      BY <1>1, <1>7 DEF AddFavourite, Types, HistoryTypes
    <2>6. QED
      BY <2>3, <2>4, <2>5 DEF Types
  <1>8. ASSUME NEW i \in 1 .. Limit, DeleteFavourite(i) PROVE Types'
    <2>1. pages' \in Seq(Seq(Server))
      BY <1>8, DeleteIs
    <2>2. FileTypes'
      <3>1. favourites \in Seq(Server) /\ DOMAIN favourites = 1 .. Len(favourites)
        BY LenProperties DEF Types, FileTypes
      <3>2. \A p \in DOMAIN favourites : RemoveAt(favourites, p) \in Seq(Server)
        BY <3>1, RemoveAtIs
      <3>3. favourites' = favourites \/ \E p \in DOMAIN favourites : favourites' = RemoveAt(favourites, p)
        BY <1>8 DEF DeleteFavourite
      <3>4. QED
        BY <3>1, <3>2, <3>3 DEF FileTypes
    <2>3. DisplayTypes' /\ FlagTypes' /\ WorkTypes' /\ FrameTypes'
      BY <1>8, <2>1 DEF DeleteFavourite, Act, flags, work, Types, DisplayTypes, FlagTypes,
                        WorkTypes, FrameTypes
    <2>4. HistoryTypes'
      BY <1>1, <1>8 DEF DeleteFavourite, Types, HistoryTypes
    <2>5. QED
      BY <2>2, <2>3, <2>4 DEF Types
  <1>9. QED
    BY <1>2, <1>3, <1>4, <1>5, <1>6, <1>7, <1>8 DEF User

\* The main thread.
LEMMA MainTypes == Types /\ Main => Types'
  <1> SUFFICES ASSUME Types, Main PROVE Types'
    OBVIOUS
  <1>1. ASSUME NEW source \in Job \union {"none"}, Clear(source) PROVE Types'
    <2>1. FileTypes' /\ DisplayTypes' /\ FlagTypes'
      BY <1>1 DEF Clear, ClearTo, Types, FileTypes, DisplayTypes, FlagTypes
    <2>2. WorkTypes' /\ FrameTypes' /\ HistoryTypes'
      BY <1>1 DEF Clear, ClearTo, Types, WorkTypes, FrameTypes, HistoryTypes
    <2>3. QED
      BY <2>1, <2>2 DEF Types
  <1>2. ASSUME NEW i \in DOMAIN tasks, NEW do \in {"sort", "loaded"}, AutoSort(i, do) PROVE Types'
    <2>a. [do |-> "insert", list |-> servers] \in Task
      BY DEF Task, Types, DisplayTypes
    <2>b. RemoveAt(tasks, i) \in Seq(Task)
      BY RestTypes DEF Types, FrameTypes
    <2>1. [do |-> "insert", list |-> servers] \in Task /\ RemoveAt(tasks, i) \in Seq(Task)
      BY <2>a, <2>b
    <2>c. \/ tasks' = RemoveAt(tasks, i) /\ servers' = servers
          \/ servers' = <<>> /\ tasks' = Append(RemoveAt(tasks, i), [do |-> "insert", list |-> servers])
      BY <1>2 DEF AutoSort, SortInto
    <2> DEFINE rest == RemoveAt(tasks, i)
               new == [do |-> "insert", list |-> servers]
    <2>d. /\ rest \in Seq(Task) /\ new \in Task
          /\ (tasks' = rest /\ servers' = servers) \/ (servers' = <<>> /\ tasks' = Append(rest, new))
      BY <2>1, <2>c
    <2> HIDE DEF rest, new
    <2>e. tasks' \in Seq(Task)
      BY <2>d
    <2>f. servers' \in Seq(Server)
      <3>1. servers \in Seq(Server) /\ <<>> \in Seq(Server)
        BY EmptySeq DEF Types, DisplayTypes
      <3>2. QED
        BY <2>d, <3>1
    <2>2. servers' \in Seq(Server) /\ tasks' \in Seq(Task)
      BY <2>e, <2>f
    <2>3. FileTypes' /\ DisplayTypes' /\ FlagTypes'
      BY <1>2, <2>2 DEF AutoSort, Types, FileTypes, DisplayTypes, FlagTypes
    <2>4. WorkTypes' /\ FrameTypes' /\ HistoryTypes'
      BY <1>2, <2>2 DEF AutoSort, work, history, Types, WorkTypes, FrameTypes, HistoryTypes
    <2>5. QED
      BY <2>3, <2>4 DEF Types
  <1>3. ASSUME NEW i \in DOMAIN tasks, StartInsert(i) PROVE Types'
    <2>1. RemoveAt(tasks, i) \in Seq(Task) /\ tasks[i] \in Task
      BY RestTypes, ElementOfSeq, LenProperties DEF Types, FrameTypes
    <2>2. tasks[i].do = "insert"
      BY <1>3 DEF StartInsert, Take
    <2>3. tasks[i].list \in Seq(Server)
      BY <2>1, <2>2 DEF Task
    <2>4. FileTypes' /\ DisplayTypes' /\ FlagTypes' /\ WorkTypes' /\ HistoryTypes'
      BY <1>3 DEF StartInsert, display, flags, work, history, Types, FileTypes, DisplayTypes,
                  FlagTypes, WorkTypes, HistoryTypes
    <2>5. FrameTypes'
      BY <1>3, <2>1, <2>3 DEF StartInsert, Types, FrameTypes
    <2>6. QED
      BY <2>4, <2>5 DEF Types
  <1>4. ASSUME NEW i \in DOMAIN tasks, ShowPage(i) PROVE Types'
    <2>1. RemoveAt(tasks, i) \in Seq(Task) /\ tasks[i] \in Task
      BY RestTypes, ElementOfSeq, LenProperties DEF Types, FrameTypes
    <2>2. tasks[i].do = "page" /\ tasks[i].page < Len(pages)
      BY <1>4 DEF ShowPage, Take
    <2>3. tasks[i].page \in Nat
      BY <2>1, <2>2 DEF Task
    <2>4. pages[tasks[i].page + 1] \in Seq(Server)
      BY <2>2, <2>3 DEF Types, DisplayTypes
    <2>5. Append(RemoveAt(tasks, i), [do |-> "loaded"]) \in Seq(Task)
      BY <2>1 DEF Task
    <2>6. FileTypes' /\ DisplayTypes' /\ FlagTypes' /\ WorkTypes' /\ HistoryTypes'
      BY <1>4 DEF ShowPage, display, flags, work, history, Types, FileTypes, DisplayTypes,
                  FlagTypes, WorkTypes, HistoryTypes
    <2>7. FrameTypes'
      BY <1>4, <2>4, <2>5 DEF ShowPage, Types, FrameTypes
    <2>8. QED
      BY <2>6, <2>7 DEF Types
  <1>5. CASE CheckRoom
    <2>1. FileTypes' /\ DisplayTypes' /\ FlagTypes' /\ WorkTypes' /\ HistoryTypes'
      BY <1>5 DEF CheckRoom, CheckRoomUntil, display, flags, work, history, Types, FileTypes,
                  DisplayTypes, FlagTypes, WorkTypes, HistoryTypes
    <2>2. batch # <<>> => Tail(batch) \in Seq(Server)
      BY HeadTailProperties DEF Types, FrameTypes
    <2>3. FrameTypes'
      BY <1>5, <2>2 DEF CheckRoom, CheckRoomUntil, Types, FrameTypes
    <2>4. QED
      BY <2>1, <2>3 DEF Types
  <1>6. CASE InsertNext
    <2>1. batch \in Seq(Server) /\ batch # <<>>
      BY <1>6 DEF InsertNext, Types, FrameTypes
    <2>2. Head(batch) \in Server /\ Tail(batch) \in Seq(Server)
      BY <2>1, HeadTailProperties
    <2>3. servers' \in Seq(Server)
      BY <1>6, <2>2, InsertType DEF InsertNext, Types, DisplayTypes
    <2>4. FileTypes' /\ DisplayTypes' /\ FlagTypes' /\ WorkTypes' /\ HistoryTypes'
      BY <1>6, <2>3 DEF InsertNext, flags, work, history, Types, FileTypes, DisplayTypes,
                        FlagTypes, WorkTypes, HistoryTypes
    <2>5. FrameTypes'
      BY <1>6, <2>2 DEF InsertNext, Types, FrameTypes
    <2>6. QED
      BY <2>4, <2>5 DEF Types
  <1>7. QED
    BY <1>1, <1>2, <1>3, <1>4, <1>5, <1>6 DEF Main

\* The network thread.
LEMMA NetworkTypes == Types /\ Network => Types'
  <1> SUFFICES ASSUME Types, Network PROVE Types'
    OBVIOUS
  <1>t. /\ getting \in [Job -> BOOLEAN] /\ interrupt \in [Job -> BOOLEAN] /\ loading \in BOOLEAN
        /\ threads \in Seq(Thread) /\ <<>> \in Seq(Thread) /\ <<>> \in Seq(Server \union {Bad})
    BY EmptySeq DEF Types, FlagTypes, WorkTypes
  <1>1. CASE StartJob
    <2>1. Head(jobs) \in Job /\ Tail(jobs) \in Seq(Job)
      BY <1>1, HeadTailProperties DEF StartJob, Types, WorkTypes
    <2>2. threads' \in Seq(Thread)
      <3> DEFINE t == [to |-> Local, at |-> "asked"]
      <3>1. threads' = <<>> \/ threads' = <<t>>
        BY <1>1 DEF StartJob
      <3>2. t \in Thread
        BY DEF Thread
      <3> HIDE DEF t
      <3>3. <<t>> \in Seq(Thread)
        BY <3>2
      <3>4. QED
        BY <1>t, <3>1, <3>3
    <2>3. WorkTypes'
      BY <1>1, <2>1, <2>2 DEF StartJob, Types, WorkTypes
    <2>4. FileTypes' /\ DisplayTypes' /\ FlagTypes' /\ FrameTypes' /\ HistoryTypes'
      BY <1>1, <2>1 DEF StartJob, display, frame, history, Types, FileTypes, DisplayTypes,
                        FlagTypes, FrameTypes, HistoryTypes
    <2>5. QED
      BY <2>3, <2>4 DEF Types
  <1>2. CASE JobFails
    <2>1. WorkTypes'
      BY <1>t, <1>2 DEF JobFails, JobFailsTo, Running, Types, WorkTypes
    <2>2. getting' \in [Job -> BOOLEAN] /\ interrupt' \in [Job -> BOOLEAN]
      BY <1>t, <1>2 DEF JobFails, JobFailsTo
    <2>3. FileTypes' /\ DisplayTypes' /\ FlagTypes' /\ FrameTypes' /\ HistoryTypes'
      BY <1>2, <2>2 DEF JobFails, JobFailsTo, display, frame, history, Types, FileTypes,
                        DisplayTypes, FlagTypes, FrameTypes, HistoryTypes
    <2>4. QED
      BY <2>1, <2>3 DEF Types
  <1>3. CASE ReadList
    <2>1. todo' \in Seq(Server \union {Bad})
      <3>1. todo' \in Lists \/ todo' = favourites
        BY <1>3 DEF ReadList
      <3>2. favourites \in Seq(Server)
        BY DEF Types, FileTypes
      <3>3. favourites \in Seq(Server \union {Bad})
        BY <3>2
      <3>4. QED
        BY <3>1, <3>3
    <2>2. WorkTypes'
      BY <1>t, <1>3, <2>1 DEF ReadList, Running, Types, WorkTypes
    <2>3. FileTypes' /\ DisplayTypes' /\ FlagTypes' /\ FrameTypes' /\ HistoryTypes'
      BY <1>3 DEF ReadList, display, flags, frame, history, Types, FileTypes, DisplayTypes,
                  FlagTypes, FrameTypes, HistoryTypes
    <2>4. QED
      BY <2>2, <2>3 DEF Types
  <1>4. CASE Launch
    <2>1. Head(todo) \in Server /\ Tail(todo) \in Seq(Server \union {Bad})
      BY <1>4, HeadTailProperties DEF Launch, Types, WorkTypes
    <2>2. todo' \in Seq(Server \union {Bad}) /\ threads' \in Seq(Thread)
      <3> DEFINE t == [to |-> Head(todo), at |-> "begin"]
      <3>1. \/ todo' = <<>> /\ threads' = threads
            \/ todo' = Tail(todo) /\ threads' = Append(threads, t)
        BY <1>4 DEF Launch
      <3>2. t \in Thread
        BY <2>1 DEF Thread
      <3> HIDE DEF t
      <3>3. Append(threads, t) \in Seq(Thread)
        BY <1>t, <3>2
      <3>4. QED
        BY <1>t, <2>1, <3>1, <3>3
    <2>3. WorkTypes'
      BY <1>4, <2>2 DEF Launch, Types, WorkTypes
    <2>4. FileTypes' /\ DisplayTypes' /\ FlagTypes' /\ FrameTypes' /\ HistoryTypes'
      BY <1>4 DEF Launch, display, flags, frame, history, Types, FileTypes, DisplayTypes,
                  FlagTypes, FrameTypes, HistoryTypes
    <2>5. QED
      BY <2>3, <2>4 DEF Types
  <1>5. CASE GiveUp
    <2>1. WorkTypes'
      BY <1>t, <1>5 DEF GiveUp, Types, WorkTypes
    <2>2. getting' \in [Job -> BOOLEAN]
      BY <1>t, <1>5 DEF GiveUp
    <2>3. FileTypes' /\ DisplayTypes' /\ FlagTypes' /\ FrameTypes' /\ HistoryTypes'
      BY <1>5, <2>2 DEF GiveUp, display, frame, history, Types, FileTypes, DisplayTypes,
                        FlagTypes, FrameTypes, HistoryTypes
    <2>4. QED
      BY <2>1, <2>3 DEF Types
  <1>6. CASE JobEnds
    <2>1. [do |-> "sort"] \in Task
      BY DEF Task
    <2>2. WorkTypes'
      BY <1>t, <1>6 DEF JobEnds, Types, WorkTypes
    <2>3. tasks' \in Seq(Task)
      BY <1>6, <2>1 DEF JobEnds, Types, FrameTypes
    <2>4. FrameTypes' /\ FileTypes' /\ DisplayTypes' /\ HistoryTypes'
      BY <1>6, <2>3 DEF JobEnds, history, Types, FileTypes, DisplayTypes, FrameTypes, HistoryTypes
    <2>5. FlagTypes'
      BY <1>t, <1>6 DEF JobEnds, FlagTypes
    <2>6. QED
      BY <2>2, <2>4, <2>5 DEF Types
  <1>7. QED
    BY <1>1, <1>2, <1>3, <1>4, <1>5, <1>6 DEF Network

\* A thread gets further.
LEMMA ThreadMoves ==
  ASSUME threads \in Seq(Thread), NEW i \in DOMAIN threads, NEW a,
         a \in {"begin", "asked", "insert", "done"}, threads' = [threads EXCEPT ![i].at = a]
  PROVE  /\ threads' \in Seq(Thread) /\ Len(threads') = Len(threads)
         /\ DOMAIN threads' = DOMAIN threads /\ DOMAIN threads = 1 .. Len(threads)
         /\ threads[i] \in Thread /\ threads'[i].to = threads[i].to /\ threads'[i].at = a
         /\ \A k \in DOMAIN threads : k # i => threads'[k] = threads[k]
  <1>1. DOMAIN threads = 1 .. Len(threads) /\ threads[i] \in Thread
    BY LenProperties
  <1>2. threads' = [threads EXCEPT ![i] = [to |-> threads[i].to, at |-> a]]
    <2>1. [threads[i] EXCEPT !.at = a] = [to |-> threads[i].to, at |-> a]
      BY <1>1 DEF Thread
    <2>2. QED
      BY <2>1
  <1>3. [to |-> threads[i].to, at |-> a] \in Thread
    BY <1>1 DEF Thread
  <1> DEFINE t == [to |-> threads[i].to, at |-> a]
  <1>4. threads' = [threads EXCEPT ![i] = t] /\ t \in Thread
    BY <1>2, <1>3
  <1> HIDE DEF t
  <1>5. /\ threads' \in Seq(Thread) /\ Len(threads') = Len(threads)
        /\ \A k \in 1 .. Len(threads) : threads'[k] = IF k = i THEN t ELSE threads[k]
    BY <1>1, <1>4, ExceptSeq
  <1>6. DOMAIN threads' = 1 .. Len(threads)
    BY <1>5, LenProperties
  <1>7. t.to = threads[i].to /\ t.at = a
    BY DEF t
  <1>8. QED
    BY <1>1, <1>5, <1>6, <1>7

\* What an answer does.
LEMMA AnswerIs ==
  ASSUME Types, NEW i \in DOMAIN threads, Answer(i)
  PROVE  /\ threads[i].to \in Server /\ threads[i].at = "asked" /\ ~Inserting
         /\ index' = index + 1
         /\ \E fits \in BOOLEAN :
              /\ pages' = IF fits THEN WithServer(threads[i].to, index \div Limit) ELSE pages
              /\ threads' = [threads EXCEPT ![i].at =
                               IF fits /\ index \div Limit = 0 /\ Room THEN "insert" ELSE "done"]
              /\ found' = IF fits THEN [found EXCEPT ![threads[i].to] = @ + 1] ELSE found
  <1>1. threads[i] \in Thread
    BY LenProperties DEF Types, WorkTypes
  <1>2. QED
    BY <1>1 DEF Answer, AnswerNumbered, Thread

\* A thread that asks a server.
LEMMA FetcherTypes ==
  ASSUME Types, NEW i \in DOMAIN threads, Fetcher(i)
  PROVE  Types'
  <1>t. threads \in Seq(Thread) /\ threads[i] \in Thread
    BY LenProperties DEF Types, WorkTypes
  <1>1. CASE Ask(i)
    <2>1. PICK a \in {"asked", "done"} : threads' = [threads EXCEPT ![i].at = a]
      BY <1>1 DEF Ask
    <2>2. threads' \in Seq(Thread)
      BY <1>t, <2>1, ThreadMoves
    <2>3. WorkTypes'
      BY <1>1, <2>2 DEF Ask, Types, WorkTypes
    <2>4. FileTypes' /\ DisplayTypes' /\ FlagTypes' /\ FrameTypes' /\ HistoryTypes'
      BY <1>1 DEF Ask, display, flags, frame, history, Types, FileTypes, DisplayTypes, FlagTypes,
                  FrameTypes, HistoryTypes
    <2>5. QED
      BY <2>3, <2>4 DEF Types
  <1>2. CASE Answer(i)
    <2> DEFINE s == threads[i].to
               k == index \div Limit
    <2>1. PICK fits \in BOOLEAN :
            /\ pages' = IF fits THEN WithServer(s, k) ELSE pages
            /\ threads' = [threads EXCEPT ![i].at =
                             IF fits /\ k = 0 /\ Room THEN "insert" ELSE "done"]
            /\ found' = IF fits THEN [found EXCEPT ![s] = @ + 1] ELSE found
      BY <1>2, AnswerIs
    <2>2. s \in Server /\ index \in Nat /\ k \in Nat /\ index' = index + 1
      BY <1>2, AnswerIs, PageOfIndex DEF Types, WorkTypes
    <2> HIDE DEF s, k
    <2>3. threads' \in Seq(Thread)
      BY <1>t, <2>1, ThreadMoves
    <2>4. pages' \in Seq(Seq(Server))
      BY <2>1, <2>2, WithServerIs DEF Types, DisplayTypes
    <2>5. found' \in [Server -> Nat]
      BY <2>1, <2>2 DEF Types, HistoryTypes
    <2>6. FileTypes' /\ DisplayTypes' /\ FlagTypes'
      BY <1>2, <2>4 DEF Answer, AnswerNumbered, flags, Types, FileTypes, DisplayTypes, FlagTypes
    <2>7. WorkTypes'
      BY <1>2, <2>2, <2>3 DEF Answer, AnswerNumbered, Types, WorkTypes
    <2>8. FrameTypes' /\ HistoryTypes'
      BY <1>2, <2>5 DEF Answer, AnswerNumbered, frame, Types, FrameTypes, HistoryTypes
    <2>9. QED
      BY <2>6, <2>7, <2>8 DEF Types
  <1>3. CASE InsertFetched(i)
    <2>1. threads[i].to \in Server
      BY <1>t DEF Thread
    <2>2. servers' \in Seq(Server)
      BY <1>3, <2>1, InsertType DEF InsertFetched, Types, DisplayTypes
    <2>3. threads' \in Seq(Thread)
      BY <1>t, <1>3, ThreadMoves DEF InsertFetched
    <2>4. WorkTypes'
      BY <1>3, <2>3 DEF InsertFetched, Types, WorkTypes
    <2>5. FileTypes' /\ DisplayTypes' /\ FlagTypes' /\ FrameTypes' /\ HistoryTypes'
      BY <1>3, <2>2 DEF InsertFetched, flags, frame, history, Types, FileTypes, DisplayTypes,
                        FlagTypes, FrameTypes, HistoryTypes
    <2>6. QED
      BY <2>4, <2>5 DEF Types
  <1>4. QED
    BY <1>1, <1>2, <1>3 DEF Fetcher

\* Each step.
LEMMA NextTypes == Types /\ [Next]_vars => Types'
  <1> SUFFICES ASSUME Types, [Next]_vars PROVE Types'
    OBVIOUS
  <1>1. CASE UNCHANGED vars
    BY <1>1 DEF vars, display, flags, work, frame, history, Types, FileTypes, DisplayTypes,
                FlagTypes, WorkTypes, FrameTypes, HistoryTypes
  <1>2. QED
    BY <1>1, UserTypes, MainTypes, NetworkTypes, FetcherTypes DEF Next, Fetching

\* The browser's lists, flags, jobs and tasks keep their types (TypeOK), however
\* the main thread, the network pipeline and the fetching threads interleave.
THEOREM TypeCorrect == Spec => []TypeOK
  <1>1. QED
    BY InitTypes, TypesImply, NextTypes, PTL DEF Spec

\* So do the types by groups.
LEMMA TypesHold == Spec => []Types
  BY InitTypes, NextTypes, PTL DEF Spec

-----------------------------------------------------------------------------
(* The display, the threads and the pages to be shown.                     *)

\* An address is appended once.
LEMMA InsertInjective ==
  ASSUME servers \in Seq(Server), NEW s \in Server, Insert(s), NoTwins
  PROVE  NoTwins'
  <1>1. CASE s \in ToSet(servers)
    BY <1>1 DEF Insert, NoTwins
  <1>2. CASE s \notin ToSet(servers)
    <2>1. servers' = Append(servers, s)
      BY <1>2 DEF Insert
    <2>2. /\ Len(Append(servers, s)) = Len(servers) + 1 /\ Len(servers) \in Nat
          /\ Append(servers, s)[Len(servers) + 1] = s
          /\ \A i \in 1 .. Len(servers) : Append(servers, s)[i] = servers[i]
      BY AppendIs
    <2>3. DOMAIN servers = 1 .. Len(servers) /\ DOMAIN servers' = 1 .. Len(servers) + 1
      BY <2>1, <2>2, AppendIs, LenProperties
    <2>4. \A i \in 1 .. Len(servers) : servers[i] # s
      BY <1>2, <2>3 DEF ToSet
    <2>5. SUFFICES ASSUME NEW i \in 1 .. Len(servers) + 1, NEW j \in 1 .. Len(servers) + 1,
                          servers'[i] = servers'[j]
                   PROVE  i = j
      BY <2>3 DEF NoTwins, IsInjective
    <2>6. i \in 1 .. Len(servers) \/ i = Len(servers) + 1
      BY <2>2
    <2>7. j \in 1 .. Len(servers) \/ j = Len(servers) + 1
      BY <2>2
    <2>8. CASE i \in 1 .. Len(servers) /\ j \in 1 .. Len(servers)
      BY <2>1, <2>2, <2>3, <2>5, <2>8 DEF NoTwins, IsInjective
    <2>9. QED
      BY <2>1, <2>2, <2>4, <2>5, <2>6, <2>7, <2>8
  <1>3. QED
    BY <1>1, <1>2

\* The display changes in one of three ways.
LEMMA DisplaySteps ==
  ASSUME Types, [Next]_vars
  PROVE  \/ servers' = servers \/ servers' = <<>>
         \/ \E s \in Server : Insert(s)
  <1>1. CASE User
    BY <1>1 DEF User, Refresh, RefreshUnless, Sort, SortInto, Join, OpenPage, TurnPage, LoadPage,
                LoadPageIf, AddFavourite, DeleteFavourite, display
  <1>2. CASE Main
    <2>1. CASE InsertNext
      <3>1. Head(batch) \in Server
        BY <2>1, HeadTailProperties DEF InsertNext, Types, FrameTypes
      <3>2. QED
        BY <2>1, <3>1 DEF InsertNext
    <2>2. CASE ~InsertNext
      BY <1>2, <2>2 DEF Main, Clear, ClearTo, AutoSort, SortInto, StartInsert, ShowPage, CheckRoom,
                        CheckRoomUntil, display
    <2>3. QED
      BY <2>1, <2>2
  <1>3. CASE Network
    BY <1>3 DEF Network, StartJob, ReadList, JobFails, JobFailsTo, Launch, GiveUp, JobEnds, display
  <1>4. CASE Fetching
    <2>1. PICK i \in DOMAIN threads : Fetcher(i)
      BY <1>4 DEF Fetching
    <2>2. threads[i] \in Thread
      BY LenProperties DEF Types, WorkTypes
    <2>3. threads[i].to \in Server
      BY <2>2 DEF Thread
    <2>4. QED
      BY <2>1, <2>3 DEF Fetcher, Ask, Answer, AnswerNumbered, InsertFetched, display
  <1>5. CASE UNCHANGED vars
    BY <1>5 DEF vars, display
  <1>6. QED
    BY <1>1, <1>2, <1>3, <1>4, <1>5 DEF Next

\* No address is on display twice, however threads and tasks interleave
\* (NoTwins): insert_server compares and inserts under one lock.
THEOREM NoTwinsShown == Spec => []NoTwins
  <1>1. Init => NoTwins
    BY DEF Init, NoTwins, IsInjective
  <1>2. Types /\ NoTwins /\ [Next]_vars => NoTwins'
    <2> SUFFICES ASSUME Types, NoTwins, [Next]_vars PROVE NoTwins'
      OBVIOUS
    <2>1. CASE servers' = servers
      BY <2>1 DEF NoTwins
    <2>2. CASE servers' = <<>>
      BY <2>2 DEF NoTwins, IsInjective
    <2>3. ASSUME NEW s \in Server, Insert(s) PROVE NoTwins'
      BY <2>3, InsertInjective DEF Types, DisplayTypes
    <2>4. QED
      BY <2>1, <2>2, <2>3, DisplaySteps
  <1>3. QED
    BY <1>1, <1>2, TypesHold, PTL DEF Spec

\* The network thread begins a job, reads its list, goes on in the loop, or ends
\* the job.
LEMMA NetworkMoves ==
  ASSUME Types, Network
  PROVE  \/ net = "idle" /\ net' \in Job /\ getting' = [getting EXCEPT ![net'] = TRUE]
         \/ net \in Job /\ net' = net /\ getting' = getting /\ ~listed /\ listed'
         \/ /\ net \in Job /\ net' = net /\ getting' = getting /\ listed /\ listed'
            /\ todo # <<>> /\ todo' \in {<<>>, Tail(todo)}
         \/ /\ net \in Job /\ net' \in {"idle", "terminated"}
            /\ getting' = [getting EXCEPT ![net] = FALSE]
            /\ net' = "idle" => threads' = <<>>
  <1>1. CASE StartJob
    <2>1. Head(jobs) \in Job
      BY <1>1, HeadTailProperties DEF StartJob, Types, WorkTypes
    <2>2. QED
      BY <1>1, <2>1 DEF StartJob
  <1>2. CASE ReadList
    BY <1>2 DEF ReadList, Running, flags
  <1>3. CASE Launch
    BY <1>3 DEF Launch, Running, flags
  <1>4. CASE JobFails
    BY <1>4 DEF JobFails, JobFailsTo, Running
  <1>5. CASE GiveUp
    BY <1>5 DEF GiveUp, Running
  <1>6. CASE JobEnds
    BY <1>6 DEF JobEnds, Running
  <1>7. QED
    BY <1>1, <1>2, <1>3, <1>4, <1>5, <1>6 DEF Network

\* The user and the main thread leave a job alone.
LEMMA JobLeftAlone ==
  ASSUME [Next]_vars
  PROVE  UNCHANGED <<getting, net, listed, todo, index, threads>> \/ Network \/ Fetching
  <1>1. CASE User
    BY <1>1 DEF User, Refresh, RefreshUnless, Sort, Join, OpenPage, TurnPage, LoadPage, LoadPageIf,
                AddFavourite, DeleteFavourite, flags, work
  <1>2. CASE Main
    BY <1>2 DEF Main, Clear, ClearTo, AutoSort, StartInsert, ShowPage, CheckRoom, CheckRoomUntil,
                InsertNext, flags, work
  <1>3. CASE UNCHANGED vars
    BY <1>3 DEF vars, flags, work
  <1>4. QED
    BY <1>1, <1>2, <1>3 DEF Next

\* A thread leaves the job to the network thread.
LEMMA FetchingLeaves ==
  ASSUME Fetching
  PROVE  UNCHANGED <<getting, net, listed, todo>> /\ threads # <<>>
  BY DEF Fetching, Fetcher, Ask, Answer, AnswerNumbered, InsertFetched, flags

\* An idle network thread has joined all that its jobs have launched, and the
\* flag of a job is set while the network thread is in it.
Joined == net = "idle" => threads = <<>>
FlagIsJob == \A j \in Job : getting[j] <=> net = j

LEMMA JoinedStep == Types /\ Joined /\ FlagIsJob /\ [Next]_vars => Joined' /\ FlagIsJob'
  <1> SUFFICES ASSUME Types, Joined, FlagIsJob, [Next]_vars PROVE Joined' /\ FlagIsJob'
    OBVIOUS
  <1>1. /\ "idle" \notin Job /\ "terminated" \notin Job
        /\ net \in Job \union {"idle", "terminated"} /\ getting \in [Job -> BOOLEAN]
    BY DEF Types, FlagTypes, WorkTypes, Job
  <1>2. CASE UNCHANGED <<getting, net, listed, todo, index, threads>>
    BY <1>2 DEF Joined, FlagIsJob
  <1>3. CASE Network
    BY <1>1, <1>3, NetworkMoves DEF Joined, FlagIsJob
  <1>4. CASE Fetching
    BY <1>4, FetchingLeaves DEF Joined, FlagIsJob
  <1>5. QED
    BY <1>2, <1>3, <1>4, JobLeftAlone

LEMMA JoinedHolds == Spec => [](Joined /\ FlagIsJob)
  <1>1. Init => Joined /\ FlagIsJob
    BY DEF Init, Joined, FlagIsJob, Job
  <1>2. QED
    BY <1>1, JoinedStep, TypesHold, PTL DEF Spec

-----------------------------------------------------------------------------
(* The page that a task will show.                                         *)

IsLoad(t) == t.do \in {"page", "loaded"}

\* Of some tasks: one loads a page, busy says so, and the page is one of n.
LoadsOK(ts, busy, n) ==
  /\ \A i, j \in 1 .. Len(ts) : IsLoad(ts[i]) /\ IsLoad(ts[j]) => i = j
  /\ \A i \in 1 .. Len(ts) : IsLoad(ts[i]) => busy
  /\ \A i \in 1 .. Len(ts) : ts[i].do = "page" => ts[i].page < n
NoLoads(ts) == \A i \in 1 .. Len(ts) : ~IsLoad(ts[i])

\* That is so, unless the user has opened a page while another was loading.
PageInv ==
  /\ main = "refresh" => ~loading
  /\ ~twice => LoadsOK(tasks, loading, Len(pages))

\* It says what PageIsThere says, and more.
LEMMA PageInvImplies == Types /\ PageInv => PageIsThere
  <1>1. Types => DOMAIN tasks = 1 .. Len(tasks)
    BY LenProperties DEF Types, FrameTypes
  <1>2. QED
    BY <1>1 DEF PageInv, LoadsOK, PageIsThere

\* Without a load nothing is claimed.
LEMMA NoLoadsOK ==
  ASSUME NEW ts, NEW busy, NEW n
  PROVE  /\ NoLoads(ts) => LoadsOK(ts, busy, n)
         /\ LoadsOK(ts, FALSE, n) => NoLoads(ts)
  BY DEF NoLoads, LoadsOK, IsLoad

\* More pages do no harm.
LEMMA MoreLoadsOK ==
  ASSUME NEW ts \in Seq(Task), NEW busy, NEW n \in Nat, NEW m \in Nat, n <= m, LoadsOK(ts, busy, n)
  PROVE  LoadsOK(ts, busy, m)
  <1>1. \A i \in 1 .. Len(ts) : ts[i].do = "page" => ts[i].page \in Nat
    BY ElementOfSeq DEF Task
  <1>2. \A i \in 1 .. Len(ts) : ts[i].do = "page" => ts[i].page < m
    BY <1>1 DEF LoadsOK
  <1>3. QED
    BY <1>2 DEF LoadsOK

\* A task at the end.
LEMMA AppendLoads ==
  ASSUME NEW ts \in Seq(Task), NEW e \in Task, NEW busy, NEW n
  PROVE  /\ LoadsOK(ts, busy, n) /\ ~IsLoad(e) => LoadsOK(Append(ts, e), busy, n)
         /\ NoLoads(ts) /\ ~IsLoad(e) => NoLoads(Append(ts, e))
         /\ NoLoads(ts) /\ busy /\ (e.do = "page" => e.page < n) => LoadsOK(Append(ts, e), busy, n)
  <1> DEFINE us == Append(ts, e)
  <1>1. /\ Len(us) = Len(ts) + 1 /\ Len(ts) \in Nat /\ us[Len(ts) + 1] = e
        /\ \A i \in 1 .. Len(ts) : us[i] = ts[i]
    BY AppendIs
  <1> HIDE DEF us
  <1>2. \A i \in 1 .. Len(us) :
          (i \in 1 .. Len(ts) /\ us[i] = ts[i]) \/ (i = Len(ts) + 1 /\ us[i] = e)
    <2>1. ASSUME NEW i \in 1 .. Len(us), i # Len(ts) + 1
          PROVE  i \in 1 .. Len(ts)
      BY <1>1, <2>1
    <2>2. QED
      BY <1>1, <2>1
  <1>3. ASSUME LoadsOK(ts, busy, n), ~IsLoad(e) PROVE LoadsOK(us, busy, n)
    <2>1. \A i \in 1 .. Len(us) : IsLoad(us[i]) => i \in 1 .. Len(ts) /\ us[i] = ts[i]
      BY <1>2, <1>3
    <2>2. \A i, j \in 1 .. Len(us) : IsLoad(us[i]) /\ IsLoad(us[j]) => i = j
      BY <1>3, <2>1 DEF LoadsOK
    <2>3. \A i \in 1 .. Len(us) : IsLoad(us[i]) => busy
      BY <1>3, <2>1 DEF LoadsOK
    <2>4. \A i \in 1 .. Len(us) : us[i].do = "page" => us[i].page < n
      BY <1>3, <2>1 DEF LoadsOK, IsLoad
    <2>5. QED
      BY <2>2, <2>3, <2>4 DEF LoadsOK
  <1>4. ASSUME NoLoads(ts), ~IsLoad(e) PROVE NoLoads(us)
    BY <1>2, <1>4 DEF NoLoads
  <1>5. ASSUME NoLoads(ts), busy, e.do = "page" => e.page < n PROVE LoadsOK(us, busy, n)
    <2>1. \A i \in 1 .. Len(us) : IsLoad(us[i]) => i = Len(ts) + 1 /\ us[i] = e
      BY <1>2, <1>5 DEF NoLoads
    <2>2. \A i, j \in 1 .. Len(us) : IsLoad(us[i]) /\ IsLoad(us[j]) => i = j
      BY <2>1
    <2>3. \A i \in 1 .. Len(us) : us[i].do = "page" => us[i].page < n
      BY <1>5, <2>1 DEF IsLoad
    <2>4. QED
      BY <1>5, <2>2, <2>3 DEF LoadsOK
  <1>6. QED
    BY <1>3, <1>4, <1>5 DEF us

\* A task taken away.
LEMMA RestLoads ==
  ASSUME NEW ts \in Seq(Task), NEW i \in 1 .. Len(ts), NEW busy, NEW n, LoadsOK(ts, busy, n)
  PROVE  /\ LoadsOK(RemoveAt(ts, i), busy, n)
         /\ IsLoad(ts[i]) => NoLoads(RemoveAt(ts, i))
  <1> DEFINE us == RemoveAt(ts, i)
  <1>1. /\ us \in Seq(Task) /\ Len(us) = Len(ts) - 1 /\ Len(ts) \in Nat
        /\ \A j \in 1 .. Len(ts) - 1 : us[j] = IF j < i THEN ts[j] ELSE ts[j + 1]
    BY RemoveAtIs
  <1>2. \A j \in 1 .. Len(us) : \E k \in 1 .. Len(ts) : k # i /\ us[j] = ts[k]
    BY RemoveAtKeeps
  <1> HIDE DEF us
  <1>3. \A j \in 1 .. Len(us) : IsLoad(us[j]) => busy
    BY <1>2 DEF LoadsOK
  <1>4. \A j \in 1 .. Len(us) : us[j].do = "page" => us[j].page < n
    BY <1>2 DEF LoadsOK
  <1>5. ASSUME NEW j \in 1 .. Len(us), NEW k \in 1 .. Len(us), IsLoad(us[j]), IsLoad(us[k])
        PROVE  j = k
    <2>1. \A a, b \in 1 .. Len(ts) : IsLoad(ts[a]) /\ IsLoad(ts[b]) => a = b
      BY DEF LoadsOK
    <2>2. j \in 1 .. Len(ts) /\ j + 1 \in 1 .. Len(ts) /\ k \in 1 .. Len(ts) /\ k + 1 \in 1 .. Len(ts)
          /\ j \in Nat /\ k \in Nat
      BY <1>1
    <2>3. us[j] = (IF j < i THEN ts[j] ELSE ts[j + 1]) /\ us[k] = (IF k < i THEN ts[k] ELSE ts[k + 1])
      BY <1>1
    <2>4. CASE j < i /\ k < i
      BY <1>5, <2>1, <2>2, <2>3, <2>4
    <2>5. CASE ~(j < i) /\ ~(k < i)
      <3>1. j + 1 = k + 1
        BY <1>5, <2>1, <2>2, <2>3, <2>5
      <3>2. QED
        BY <2>2, <3>1
    <2>6. CASE j < i /\ ~(k < i)
      <3>1. j = k + 1
        BY <1>5, <2>1, <2>2, <2>3, <2>6
      <3>2. QED
        BY <2>2, <2>6, <3>1
    <2>7. CASE ~(j < i) /\ k < i
      <3>1. j + 1 = k
        BY <1>5, <2>1, <2>2, <2>3, <2>7
      <3>2. QED
        BY <2>2, <2>7, <3>1
    <2>8. QED
      BY <2>4, <2>5, <2>6, <2>7
  <1>6. IsLoad(ts[i]) => NoLoads(us)
    <2>1. \A a \in 1 .. Len(ts) : IsLoad(ts[a]) /\ IsLoad(ts[i]) => a = i
      BY DEF LoadsOK
    <2>2. QED
      BY <1>2, <2>1 DEF NoLoads
  <1>7. QED
    BY <1>3, <1>4, <1>5, <1>6 DEF LoadsOK, us

\* An answer makes no page less.
LEMMA PagesGrow ==
  ASSUME Types, NEW i \in DOMAIN threads, Answer(i)
  PROVE  Len(pages) \in Nat /\ Len(pages') \in Nat /\ Len(pages) <= Len(pages')
  <1>1. pages \in Seq(Seq(Server)) /\ index \div Limit \in Nat
    BY PageOfIndex DEF Types, DisplayTypes, WorkTypes
  <1> DEFINE k == index \div Limit
             s == threads[i].to
  <1>2. s \in Server /\ (pages' = pages \/ pages' = WithServer(s, k))
    BY AnswerIs
  <1>3. k \in Nat
    BY <1>1
  <1> HIDE DEF k, s
  <1>4. Len(pages) \in Nat
    BY <1>1, LenProperties
  <1>5. CASE pages' = pages
    BY <1>4, <1>5
  <1>6. CASE pages' = WithServer(s, k)
    <2>1. Len(pages') = Pages(k) /\ Pages(k) \in Nat /\ Len(pages) <= Pages(k)
      BY <1>1, <1>2, <1>3, <1>4, <1>6, WithServerIs DEF Pages
    <2>2. QED
      BY <1>4, <2>1
  <1>7. QED
    BY <1>2, <1>5, <1>6

\* A page is asked for.
LEMMA LoadPageKeeps ==
  ASSUME Types, PageInv, NEW k, LoadPage(k), pages' = pages, main' = main, main = "idle"
  PROVE  PageInv'
  <1>1. tasks \in Seq(Task) /\ Len(pages) \in Nat /\ loading \in BOOLEAN /\ twice \in BOOLEAN
    BY LenProperties DEF Types, FrameTypes, DisplayTypes, FlagTypes, HistoryTypes
  <1>2. CASE k \in 0 .. Len(pages) - 1
    <2>1. /\ loading' = (loading \/ TRUE) /\ twice' = (twice \/ loading)
          /\ tasks' = Append(tasks, [do |-> "page", page |-> k])
      BY <1>2 DEF LoadPage, LoadPageIf
    <2>2. [do |-> "page", page |-> k] \in Task /\ k < Len(pages)
      BY <1>1, <1>2 DEF Task
    <2>3. ASSUME ~twice' PROVE LoadsOK(tasks, loading, Len(pages))'
      <3>1. ~twice /\ ~loading
        BY <2>1, <2>3
      <3>2. loading = FALSE
        BY <1>1, <3>1
      <3>3. NoLoads(tasks)
        BY <3>1, <3>2, NoLoadsOK DEF PageInv
      <3>4. LoadsOK(Append(tasks, [do |-> "page", page |-> k]), TRUE, Len(pages))
        BY <1>1, <2>2, <3>3, AppendLoads
      <3>5. QED
        BY <2>1, <3>4
    <2>4. QED
      BY <2>3 DEF PageInv
  <1>3. CASE k \notin 0 .. Len(pages) - 1
    <2>1. UNCHANGED <<tasks, twice>> /\ loading' = (loading \/ FALSE)
      BY <1>3 DEF LoadPage, LoadPageIf
    <2>2. loading' = loading
      BY <1>1, <2>1
    <2>3. QED
      BY <2>1, <2>2 DEF PageInv
  <1>4. QED
    BY <1>2, <1>3

\* Each step.
LEMMA NextPageInv == Types /\ PageInv /\ [Next]_vars => PageInv'
  <1> SUFFICES ASSUME Types, PageInv, [Next]_vars PROVE PageInv'
    OBVIOUS
  <1>t. /\ tasks \in Seq(Task) /\ DOMAIN tasks = 1 .. Len(tasks) /\ Len(pages) \in Nat
        /\ loading \in BOOLEAN /\ servers \in Seq(Server)
        /\ [do |-> "insert", list |-> servers] \in Task /\ [do |-> "sort"] \in Task
        /\ [do |-> "loaded"] \in Task
    BY LenProperties DEF Types, FrameTypes, DisplayTypes, FlagTypes, Task
  <1>l. /\ ~IsLoad([do |-> "insert", list |-> servers]) /\ ~IsLoad([do |-> "sort"])
    BY DEF IsLoad
  <1>1. CASE Refresh
    BY <1>1 DEF Refresh, RefreshUnless, Busy, Act, display, flags, PageInv
  <1>2. CASE Sort
    <2>1. main = "idle" /\ UNCHANGED <<pages, loading, main, twice>>
          /\ tasks' = Append(tasks, [do |-> "insert", list |-> servers])
      BY <1>2 DEF Sort, SortInto, Act, flags
    <2>2. QED
      BY <1>t, <1>l, <2>1, AppendLoads DEF PageInv
  <1>3. CASE Join \/ (\E i \in 1 .. Limit : AddFavourite(i)) \/ UNCHANGED vars
    BY <1>3 DEF Join, AddFavourite, Act, display, frame, vars, flags, history, PageInv
  <1>d. ASSUME NEW i \in 1 .. Limit, DeleteFavourite(i) PROVE PageInv'
    <2>1. /\ UNCHANGED <<loading, tasks, twice>> /\ main' = (IF Busy THEN "idle" ELSE "refresh")
      BY <1>d DEF DeleteFavourite, flags
    <2>2. Len(pages') = Len(pages)
      BY <1>d, DeleteIs
    <2>3. QED
      BY <2>1, <2>2 DEF PageInv, Busy
  <1>4. CASE \/ \E k \in 0 .. 1 : OpenPage(k)
             \/ \E step \in {1, -1} : TurnPage(step)
    <2>1. \E k : LoadPage(k) /\ pages' = pages /\ main' = main /\ main = "idle"
      <3>1. CASE \E k \in 0 .. 1 : OpenPage(k)
        BY <3>1 DEF OpenPage, Act
      <3>2. CASE \E step \in {1, -1} : TurnPage(step)
        BY <3>2 DEF TurnPage, Act
      <3>3. QED
        BY <1>4, <3>1, <3>2
    <2>2. QED
      BY <2>1, LoadPageKeeps
  <1>5. ASSUME NEW source, Clear(source) PROVE PageInv'
    <2>1. main = "refresh" /\ main' = "idle" /\ UNCHANGED <<loading, tasks, twice>>
      BY <1>5 DEF Clear, ClearTo
    <2>2. loading = FALSE
      BY <1>t, <2>1 DEF PageInv
    <2>3. ~twice => NoLoads(tasks)
      BY <2>2, NoLoadsOK DEF PageInv
    <2>4. ~twice => LoadsOK(tasks, loading, Len(pages'))
      BY <2>3, NoLoadsOK
    <2>5. QED
      BY <2>1, <2>4 DEF PageInv
  <1>6. ASSUME NEW i \in DOMAIN tasks, AutoSort(i, "sort") PROVE PageInv'
    <2>1. main = "idle" /\ UNCHANGED <<pages, loading, main, twice>>
          /\ tasks' = Append(RemoveAt(tasks, i), [do |-> "insert", list |-> servers])
      BY <1>6 DEF AutoSort, SortInto, Take, history
    <2>2. RemoveAt(tasks, i) \in Seq(Task)
      BY <1>t, RemoveAtIs
    <2>3. ~twice => LoadsOK(RemoveAt(tasks, i), loading, Len(pages))
      BY <1>t, RestLoads DEF PageInv
    <2>4. ~twice => LoadsOK(tasks', loading, Len(pages))
      BY <1>t, <1>l, <2>1, <2>2, <2>3, AppendLoads
    <2>5. QED
      BY <2>1, <2>4 DEF PageInv
  <1>7. ASSUME NEW i \in DOMAIN tasks, AutoSort(i, "loaded") PROVE PageInv'
    <2>1. /\ main = "idle" /\ tasks[i].do = "loaded" /\ UNCHANGED <<pages, main, twice>>
          /\ loading' = FALSE
          /\ \/ tasks' = RemoveAt(tasks, i)
             \/ tasks' = Append(RemoveAt(tasks, i), [do |-> "insert", list |-> servers])
      BY <1>7 DEF AutoSort, SortInto, Take, history
    <2>2. RemoveAt(tasks, i) \in Seq(Task)
      BY <1>t, RemoveAtIs
    <2>3. ~twice => NoLoads(RemoveAt(tasks, i))
      BY <1>t, <2>1, RestLoads DEF PageInv, IsLoad
    <2>4. ~twice => NoLoads(tasks')
      BY <1>t, <1>l, <2>1, <2>2, <2>3, AppendLoads
    <2>5. ~twice => LoadsOK(tasks', loading', Len(pages))
      BY <2>4, NoLoadsOK
    <2>6. QED
      BY <2>1, <2>5 DEF PageInv
  <1>8. ASSUME NEW i \in DOMAIN tasks, StartInsert(i) PROVE PageInv'
    <2>1. /\ main' = "check" /\ tasks' = RemoveAt(tasks, i) /\ UNCHANGED <<pages, loading, twice>>
      BY <1>8 DEF StartInsert, display, flags, history
    <2>2. ~twice => LoadsOK(tasks', loading, Len(pages))
      BY <1>t, <2>1, RestLoads DEF PageInv
    <2>3. QED
      BY <2>1, <2>2 DEF PageInv
  <1>9. ASSUME NEW i \in DOMAIN tasks, ShowPage(i) PROVE PageInv'
    <2>1. /\ main' = "check" /\ tasks[i].do = "page" /\ UNCHANGED <<pages, loading, twice>>
          /\ tasks' = Append(RemoveAt(tasks, i), [do |-> "loaded"])
      BY <1>9 DEF ShowPage, Take, display, flags, history
    <2>2. RemoveAt(tasks, i) \in Seq(Task)
      BY <1>t, RemoveAtIs
    <2>3. ~twice => NoLoads(RemoveAt(tasks, i)) /\ loading
      BY <1>t, <2>1, RestLoads DEF PageInv, IsLoad, LoadsOK
    <2>4. ~twice => LoadsOK(tasks', loading, Len(pages))
      BY <1>t, <2>1, <2>2, <2>3, AppendLoads
    <2>5. QED
      BY <2>1, <2>4 DEF PageInv
  <1>10. CASE CheckRoom \/ InsertNext
    <2>1. main' # "refresh" /\ UNCHANGED <<pages, loading, tasks, twice>>
      BY <1>10 DEF CheckRoom, CheckRoomUntil, InsertNext, display, flags, history
    <2>2. QED
      BY <2>1 DEF PageInv
  <1>11. CASE \/ StartJob \/ ReadList \/ JobFails \/ Launch \/ GiveUp
              \/ \E i \in DOMAIN threads : Ask(i) \/ InsertFetched(i)
    <2>1. UNCHANGED <<pages, loading, tasks, main, twice>>
      BY <1>11 DEF StartJob, ReadList, JobFails, JobFailsTo, Launch, GiveUp, Ask, InsertFetched,
                   display, flags, frame, history
    <2>2. QED
      BY <2>1 DEF PageInv
  <1>12. CASE JobEnds
    <2>1. /\ UNCHANGED <<pages, loading, main, twice>> /\ tasks' = Append(tasks, [do |-> "sort"])
      BY <1>12 DEF JobEnds, history
    <2>2. ~twice => LoadsOK(tasks', loading, Len(pages))
      BY <1>t, <1>l, <2>1, AppendLoads DEF PageInv
    <2>3. QED
      BY <2>1, <2>2 DEF PageInv
  <1>13. ASSUME NEW i \in DOMAIN threads, Answer(i) PROVE PageInv'
    <2>1. UNCHANGED <<loading, main, tasks, twice>>
      BY <1>13 DEF Answer, AnswerNumbered, flags, frame
    <2>2. Len(pages') \in Nat /\ Len(pages) <= Len(pages')
      BY <1>13, PagesGrow
    <2>3. ~twice => LoadsOK(tasks, loading, Len(pages'))
      BY <1>t, <2>2, MoreLoadsOK DEF PageInv
    <2>4. QED
      BY <2>1, <2>3 DEF PageInv
  <1>14. QED
    BY <1>1, <1>2, <1>3, <1>d, <1>4, <1>5, <1>6, <1>7, <1>8, <1>9, <1>10, <1>11, <1>12, <1>13
       DEF Next, User, Main, Network, Fetching, Fetcher

\* The page that the delayed task of load_page is going to show exists still
\* (PageIsThere): is_loading_page holds refresh_server_list back.
THEOREM PagesAreThere == Spec => []PageIsThere
  <1>1. Init => PageInv
    BY DEF Init, PageInv, LoadsOK
  <1>2. QED
    BY <1>1, NextPageInv, PageInvImplies, TypesHold, PTL DEF Spec

-----------------------------------------------------------------------------
(* The servers on the pages.                                               *)

\* The places of server s.
SlotsOf(s) == {x \in Slots : pages[x[1]][x[2]] = s}

\* The pages hold each server as often as it was found.
Stored == \A s \in Server : IsFiniteSet(SlotsOf(s)) /\ Cardinality(SlotsOf(s)) = found[s]

\* The job has no other behind it, and the answers numbered so far fill each
\* page as far as it is.
JobInv ==
  /\ jobs = <<>>
  /\ \A p \in DOMAIN pages : Len(pages[p]) + (p - 1) * Limit <= index

\* While no refresh empties the lists of a job: a job finds the pages empty.
StoreInv ==
  ~crossed =>
    /\ jobs # <<>> => net = "idle" /\ Len(jobs) = 1 /\ pages = <<>>
    /\ net # "idle" => JobInv
    /\ Stored

\* Empty pages hold nothing.
LEMMA NothingStored == ASSUME pages = <<>>, found = [s \in Server |-> 0] PROVE Stored
  <1>1. Slots = {}
    BY DEF Slots
  <1>2. \A s \in Server : SlotsOf(s) = {} /\ found[s] = 0
    BY <1>1 DEF SlotsOf
  <1>3. QED
    BY <1>2, FS_EmptySet DEF Stored

\* A page further on starts no sooner.
LEMMA PageStarts == ASSUME NEW a \in Nat, NEW b \in Nat, a <= b PROVE a * Limit <= b * Limit
  OBVIOUS

\* The page of the next number has room.
LEMMA PageHasRoom ==
  ASSUME Types, JobInv, NEW k \in Nat, k = index \div Limit
  PROVE  /\ \A p \in 1 .. Pages(k) : Len(Page(p)) \in Nat /\ Len(Page(p)) + (p - 1) * Limit <= index
         /\ Len(Page(k + 1)) < Limit
  <1>1. index \in Nat /\ pages \in Seq(Seq(Server)) /\ Len(pages) \in Nat
        /\ DOMAIN pages = 1 .. Len(pages)
    BY LenProperties DEF Types, WorkTypes, DisplayTypes
  <1>2. k * Limit <= index /\ index < k * Limit + Limit
    BY <1>1, PageOfIndex
  <1>3. ASSUME NEW p \in 1 .. Pages(k)
        PROVE  Len(Page(p)) \in Nat /\ Len(Page(p)) + (p - 1) * Limit <= index
    <2>1. CASE p <= Len(pages)
      <3>1. p \in 1 .. Len(pages) /\ Page(p) = pages[p]
        BY <1>1, <2>1 DEF Page, Pages
      <3>2. Len(pages[p]) \in Nat
        BY <1>1, <3>1, LenProperties
      <3>3. QED
        BY <1>1, <3>1, <3>2 DEF JobInv
    <2>2. CASE ~(p <= Len(pages))
      <3>1. Page(p) = <<>> /\ p - 1 \in Nat /\ p - 1 <= k
        BY <1>1, <2>2 DEF Page, Pages
      <3>2. Len(Page(p)) = 0
        BY <3>1, EmptySeq
      <3>3. (p - 1) * Limit <= k * Limit
        BY <3>1, PageStarts
      <3>4. (p - 1) * Limit \in Nat /\ k * Limit \in Nat
        BY <3>1
      <3> DEFINE b == (p - 1) * Limit
                 c == k * Limit
      <3>5. b \in Nat /\ c \in Nat /\ b <= c /\ c <= index
        BY <1>2, <3>3, <3>4
      <3> HIDE DEF b, c
      <3>6. Len(Page(p)) + b <= index
        BY <1>1, <3>2, <3>5
      <3>7. QED
        BY <3>2, <3>6 DEF b
    <2>3. QED
      BY <2>1, <2>2
  <1>4. k + 1 \in 1 .. Pages(k) /\ (k + 1) - 1 = k
    BY <1>1 DEF Pages
  <1>5. Len(Page(k + 1)) \in Nat /\ Len(Page(k + 1)) + k * Limit <= index
    BY <1>3, <1>4
  <1>6. k * Limit \in Nat
    OBVIOUS
  <1>7. Len(Page(k + 1)) < Limit
    BY <1>1, <1>2, <1>5, <1>6
  <1>8. QED
    BY <1>3, <1>7

\* A server that is found goes to one more place.
LEMMA StoredGrows ==
  ASSUME Types, JobInv, Stored, NEW s \in Server, NEW k \in Nat, k = index \div Limit,
         pages' = WithServer(s, k), found' = [found EXCEPT ![s] = @ + 1]
  PROVE  /\ Stored'
         /\ \A p \in DOMAIN pages' : Len(pages'[p]) + (p - 1) * Limit <= index + 1
  <1> DEFINE q == k + 1
             n == Pages(k)
             m == Len(Page(q)) + 1
  <1>1. /\ pages \in Seq(Seq(Server)) /\ index \in Nat
        /\ Len(pages) \in Nat /\ DOMAIN pages = 1 .. Len(pages)
    BY LenProperties DEF Types, WorkTypes, DisplayTypes
  <1>2. /\ pages' \in Seq(Seq(Server)) /\ Len(pages') = n /\ n \in Nat \ {0} /\ Len(pages) <= n
        /\ q \in 1 .. n /\ \A p \in 1 .. n : Page(p) \in Seq(Server)
        /\ \A p \in 1 .. n : pages'[p] = IF p = q /\ Len(Page(p)) < Limit
                                         THEN Append(Page(p), s) ELSE Page(p)
    <2> DEFINE w == WithServer(s, k)
    <2>1. /\ w \in Seq(Seq(Server)) /\ Len(w) = n /\ n \in Nat \ {0} /\ Len(pages) <= n
          /\ q \in 1 .. n /\ \A p \in 1 .. n : Page(p) \in Seq(Server)
          /\ \A p \in 1 .. n : w[p] = IF p = q /\ Len(Page(p)) < Limit
                                     THEN Append(Page(p), s) ELSE Page(p)
      BY <1>1, WithServerIs
    <2> HIDE DEF n, q, w
    <2>2. QED
      BY <2>1 DEF w
  <1>3. /\ \A p \in 1 .. n : Len(Page(p)) \in Nat /\ Len(Page(p)) + (p - 1) * Limit <= index
        /\ Len(Page(q)) < Limit
    BY PageHasRoom
  <1>4. DOMAIN pages' = 1 .. n
    BY <1>2, LenProperties
  <1>5. \A p \in 1 .. n : p # q => pages'[p] = Page(p)
    BY <1>2
  <1>6. pages'[q] = Append(Page(q), s)
    BY <1>2, <1>3
  <1>7. \A p \in 1 .. n : p \in DOMAIN pages => Page(p) = pages[p]
    BY <1>1 DEF Page
  <1>8. \A p \in 1 .. n : p \notin DOMAIN pages => Page(p) = <<>>
    BY <1>1 DEF Page
  <1>9. \A p \in DOMAIN pages : p \in 1 .. n
    BY <1>1, <1>2
  <1>10. /\ Len(Append(Page(q), s)) = m /\ m \in Nat
         /\ Append(Page(q), s)[m] = s
         /\ \A i \in DOMAIN Page(q) : Append(Page(q), s)[i] = Page(q)[i]
         /\ DOMAIN Page(q) = 1 .. m - 1 /\ DOMAIN Append(Page(q), s) = 1 .. m
    <2>1. Page(q) \in Seq(Server)
      BY <1>2
    <2>2. Append(Page(q), s) \in Seq(Server)
      BY <2>1, AppendIs
    <2>3. QED
      BY <2>1, <2>2, AppendIs, LenProperties
  <1> HIDE DEF q, n, m
  <1>11. \A p \in DOMAIN pages' : Len(pages'[p]) + (p - 1) * Limit <= index + 1
    <2> SUFFICES ASSUME NEW p \in 1 .. n PROVE Len(pages'[p]) + (p - 1) * Limit <= index + 1
      BY <1>4
    <2> DEFINE l == Len(Page(p))
               b == (p - 1) * Limit
    <2>1. l \in Nat /\ b \in Int /\ l + b <= index
      BY <1>2, <1>3
    <2>2. Len(pages'[p]) \in {l, l + 1}
      BY <1>5, <1>6, <1>10 DEF m
    <2> HIDE DEF l, b
    <2>3. Len(pages'[p]) + b <= index + 1
      BY <1>1, <2>1, <2>2
    <2>4. QED
      BY <2>3 DEF b
  <1>12. Slots' = Slots \union {<<q, m>>} /\ <<q, m>> \notin Slots
    <2>1. ASSUME NEW p \in 1 .. n, NEW i \in DOMAIN pages'[p]
          PROVE  <<p, i>> \in Slots \union {<<q, m>>}
      <3>1. i \in DOMAIN Page(p) \/ (p = q /\ i = m)
        <4>1. CASE p = q
          BY <1>6, <1>10, <2>1, <4>1
        <4>2. CASE p # q
          BY <1>5, <2>1, <4>2
        <4>3. QED
          BY <4>1, <4>2
      <3>2. CASE i \in DOMAIN Page(p)
        <4>1. p \in DOMAIN pages /\ i \in DOMAIN pages[p]
          BY <1>7, <1>8, <3>2
        <4>2. QED
          BY <4>1 DEF Slots
      <3>3. QED
        BY <3>1, <3>2
    <2>2. ASSUME NEW p \in DOMAIN pages, NEW i \in DOMAIN pages[p]
          PROVE  <<p, i>> \in Slots'
      <3>1. p \in DOMAIN pages' /\ Page(p) = pages[p]
        BY <1>4, <1>7, <1>9
      <3>2. i \in DOMAIN pages'[p]
        <4>1. i \in DOMAIN Page(p)
          BY <2>2, <3>1
        <4>2. CASE p = q
          <5>1. i \in 1 .. m - 1
            BY <1>10, <4>1, <4>2
          <5>2. i \in 1 .. m
            BY <1>10, <5>1
          <5>3. QED
            BY <1>6, <1>10, <4>2, <5>2
        <4>3. CASE p # q
          BY <1>4, <1>5, <3>1, <4>1, <4>3
        <4>4. QED
          BY <4>2, <4>3
      <3>3. QED
        BY <3>1, <3>2 DEF Slots
    <2>3. <<q, m>> \in Slots'
      <3>1. q \in DOMAIN pages' /\ m \in DOMAIN pages'[q]
        BY <1>2, <1>4, <1>6, <1>10 DEF m
      <3>2. QED
        BY <3>1 DEF Slots
    <2>4. <<q, m>> \notin Slots
      <3> SUFFICES ASSUME q \in DOMAIN pages, m \in DOMAIN pages[q] PROVE FALSE
        BY DEF Slots
      <3>1. m \in 1 .. m - 1
        BY <1>2, <1>7, <1>10
      <3>2. QED
        BY <1>10, <3>1
    <2>5. Slots' \subseteq Slots \union {<<q, m>>}
      <3> SUFFICES ASSUME NEW x \in Slots' PROVE x \in Slots \union {<<q, m>>}
        OBVIOUS
      <3>1. PICK p \in DOMAIN pages' : x \in {<<p, i>> : i \in DOMAIN pages'[p]}
        BY DEF Slots
      <3>2. PICK i \in DOMAIN pages'[p] : x = <<p, i>>
        BY <3>1
      <3>3. p \in 1 .. n
        BY <1>4
      <3>4. QED
        BY <2>1, <3>2, <3>3
    <2>6. Slots \subseteq Slots'
      BY <2>2 DEF Slots
    <2>7. QED
      BY <2>3, <2>4, <2>5, <2>6
  <1>13. ASSUME NEW x \in Slots PROVE pages'[x[1]][x[2]] = pages[x[1]][x[2]]
    <2>1. PICK p \in DOMAIN pages : x \in {<<p, i>> : i \in DOMAIN pages[p]}
      BY <1>13 DEF Slots
    <2>2. PICK i \in DOMAIN pages[p] : x = <<p, i>>
      BY <2>1
    <2>3. p \in 1 .. n /\ Page(p) = pages[p]
      BY <1>7, <1>9
    <2>4. pages'[p][i] = pages[p][i]
      BY <1>5, <1>6, <1>10, <2>3
    <2>5. QED
      BY <2>2, <2>4
  <1>14. pages'[q][m] = s
    BY <1>6, <1>10
  <1>15. ASSUME NEW r \in Server
         PROVE  IsFiniteSet(SlotsOf(r)') /\ Cardinality(SlotsOf(r)') = found'[r]
    <2>1. IsFiniteSet(SlotsOf(r)) /\ Cardinality(SlotsOf(r)) = found[r]
      BY DEF Stored
    <2>2. found \in [Server -> Nat] /\ found'[r] = IF r = s THEN found[r] + 1 ELSE found[r]
      BY DEF Types, HistoryTypes
    <2>3. SlotsOf(r)' = SlotsOf(r) \union (IF r = s THEN {<<q, m>>} ELSE {})
      <3>1. SlotsOf(r)' = {x \in Slots' : pages'[x[1]][x[2]] = r}
        BY DEF SlotsOf
      <3>2. <<q, m>>[1] = q /\ <<q, m>>[2] = m
        OBVIOUS
      <3>3. pages'[<<q, m>>[1]][<<q, m>>[2]] = s
        BY <1>14, <3>2
      <3> DEFINE y == <<q, m>>
      <3>4. Slots' = Slots \union {y} /\ pages'[y[1]][y[2]] = s
        BY <1>12, <3>3
      <3> HIDE DEF y
      <3>5. SlotsOf(r)' = SlotsOf(r) \union (IF r = s THEN {y} ELSE {})
        BY <1>13, <3>1, <3>4 DEF SlotsOf
      <3>6. QED
        BY <3>5 DEF y
    <2>4. <<q, m>> \notin SlotsOf(r)
      BY <1>12 DEF SlotsOf
    <2>5. CASE r = s
      <3> DEFINE y == <<q, m>>
                 now == SlotsOf(r)
      <3>1. SlotsOf(r)' = now \union {y} /\ IsFiniteSet(now) /\ y \notin now
        BY <2>1, <2>3, <2>4, <2>5
      <3> HIDE DEF y, now
      <3>2. IsFiniteSet(now \union {y}) /\ Cardinality(now \union {y}) = Cardinality(now) + 1
        BY <3>1, FS_AddElement
      <3>3. Cardinality(now) = found[r] /\ found'[r] = found[r] + 1
        BY <2>1, <2>2, <2>5 DEF now
      <3>4. QED
        BY <3>1, <3>2, <3>3
    <2>6. CASE r # s
      BY <2>1, <2>2, <2>3, <2>6
    <2>7. QED
      BY <2>5, <2>6
  <1>16. QED
    BY <1>11, <1>15 DEF Stored

\* A step that leaves the pages, the number and the waiting jobs as they are.
LEMMA StoreKept ==
  ASSUME StoreInv, UNCHANGED <<pages, index, jobs, found>>, ~crossed' => ~crossed,
         net' = net \/ net' = "idle" \/ net # "idle"
  PROVE  StoreInv'
  <1> SUFFICES ASSUME ~crossed'
               PROVE  /\ jobs' # <<>> => net' = "idle" /\ Len(jobs') = 1 /\ pages' = <<>>
                      /\ net' # "idle" => JobInv'
                      /\ Stored'
    BY DEF StoreInv
  <1>1. /\ jobs # <<>> => net = "idle" /\ Len(jobs) = 1 /\ pages = <<>>
        /\ net # "idle" => JobInv
        /\ Stored
    BY DEF StoreInv
  <1>2. Stored'
    BY <1>1 DEF Stored, SlotsOf, Slots
  <1>3. JobInv => JobInv'
    BY DEF JobInv
  <1>4. JobInv => jobs = <<>>
    BY DEF JobInv
  <1>5. QED
    BY <1>1, <1>2, <1>3, <1>4

\* What the user does.
LEMMA UserStores == ASSUME Types, StoreInv, User PROVE StoreInv'
  <1>1. CASE \E i \in 1 .. Limit : DeleteFavourite(i)
    BY <1>1 DEF DeleteFavourite, StoreInv
  <1>2. CASE ~\E i \in 1 .. Limit : DeleteFavourite(i)
    <2>1. UNCHANGED <<pages, work, found, crossed>>
      <3>1. CASE Refresh \/ Sort \/ Join
        BY <3>1 DEF Refresh, RefreshUnless, Sort, SortInto, Join, Act, display
      <3>2. CASE \E k \in 0 .. 1 : OpenPage(k)
        BY <3>2 DEF OpenPage
      <3>3. CASE \E step \in {1, -1} : TurnPage(step)
        BY <3>3 DEF TurnPage
      <3>4. CASE \E i \in 1 .. Limit : AddFavourite(i)
        BY <3>4 DEF AddFavourite, display
      <3>5. QED
        BY <1>2, <3>1, <3>2, <3>3, <3>4 DEF User
    <2>2. UNCHANGED <<pages, index, jobs, found, crossed, net>>
      BY <2>1 DEF work
    <2>3. QED
      BY <2>2, StoreKept
  <1>3. QED
    BY <1>1, <1>2

\* What the main thread does.
LEMMA MainStores == ASSUME Types, StoreInv, Main PROVE StoreInv'
  <1>1. CASE \E source \in Job \union {"none"} : Clear(source)
    <2>1. PICK source \in Job \union {"none"} : Clear(source)
      BY <1>1
    <2>2. /\ pages' = <<>> /\ found' = [s \in Server |-> 0] /\ net' = net
          /\ jobs' = jobs \/ (source \in Job /\ jobs' = Append(jobs, source))
          /\ crossed' = (jobs # <<>> \/ net # "idle")
      BY <2>1 DEF Clear, ClearTo
    <2>3. Stored'
      <3>1. \A s \in Server : SlotsOf(s)' = {} /\ found'[s] = 0
        BY <2>2 DEF SlotsOf, Slots
      <3>2. QED
        BY <3>1, FS_EmptySet DEF Stored
    <2>4. ASSUME ~crossed' PROVE net' = "idle" /\ (jobs' # <<>> => Len(jobs') = 1)
      <3>1. net = "idle" /\ jobs = <<>>
        BY <2>2, <2>4
      <3>2. \A j \in Job : Len(Append(<<>>, j)) = 1
        BY EmptySeq, AppendIs
      <3>3. QED
        BY <2>2, <3>1, <3>2
    <2>5. QED
      BY <2>2, <2>3, <2>4 DEF StoreInv
  <1>2. CASE ~\E source \in Job \union {"none"} : Clear(source)
    <2>1. UNCHANGED <<pages, work, found, crossed>>
      <3>1. CASE \E i \in DOMAIN tasks : AutoSort(i, "sort") \/ AutoSort(i, "loaded")
        BY <3>1 DEF AutoSort, history
      <3>2. CASE \E i \in DOMAIN tasks : StartInsert(i) \/ ShowPage(i)
        BY <3>2 DEF StartInsert, ShowPage, display, history
      <3>3. CASE CheckRoom \/ InsertNext
        BY <3>3 DEF CheckRoom, CheckRoomUntil, InsertNext, display, history
      <3>4. QED
        BY <1>2, <3>1, <3>2, <3>3 DEF Main
    <2>2. UNCHANGED <<pages, index, jobs, found, crossed, net>>
      BY <2>1 DEF work
    <2>3. QED
      BY <2>2, StoreKept
  <1>3. QED
    BY <1>1, <1>2

\* What the network thread does.
LEMMA NetworkStores == ASSUME Types, StoreInv, Network PROVE StoreInv'
  <1>t. jobs \in Seq(Job) /\ "idle" \notin Job
    BY DEF Types, WorkTypes, Job
  <1>1. CASE StartJob
    <2>1. /\ net = "idle" /\ jobs # <<>> /\ jobs' = Tail(jobs) /\ index' = 0
          /\ UNCHANGED <<pages, found, crossed>>
      BY <1>1 DEF StartJob, display, history
    <2>2. SUFFICES ASSUME ~crossed PROVE jobs' = <<>> /\ JobInv' /\ Stored'
      BY <2>1 DEF StoreInv
    <2>3. Len(jobs) = 1 /\ pages = <<>> /\ Stored
      BY <2>1, <2>2 DEF StoreInv
    <2>4. jobs' = <<>>
      BY <1>t, <2>1, <2>3, HeadTailProperties, EmptySeq
    <2>5. Stored'
      BY <2>1, <2>3 DEF Stored, SlotsOf, Slots
    <2>6. DOMAIN pages' = {}
      BY <2>1, <2>3
    <2>7. JobInv'
      BY <2>4, <2>6 DEF JobInv
    <2>8. QED
      BY <2>4, <2>5, <2>7
  <1>2. CASE ReadList \/ JobFails \/ Launch \/ GiveUp \/ JobEnds
    <2>1. UNCHANGED <<pages, index, jobs, found, crossed>> /\ net # "idle"
      BY <1>t, <1>2 DEF ReadList, JobFails, JobFailsTo, Launch, GiveUp, JobEnds, Running, display,
                        history
    <2>2. QED
      BY <2>1, StoreKept
  <1>3. QED
    BY <1>1, <1>2 DEF Network

\* What the threads of the job do.
LEMMA FetcherStores ==
  ASSUME Types, Joined, StoreInv, NEW i \in DOMAIN threads, Fetcher(i) PROVE StoreInv'
  <1>t. index \in Nat /\ index \div Limit \in Nat
    BY PageOfIndex DEF Types, WorkTypes
  <1>1. net # "idle"
    <2>1. threads # <<>>
      OBVIOUS
    <2>2. QED
      BY <2>1 DEF Joined
  <1>2. CASE Ask(i) \/ InsertFetched(i)
    <2>1. UNCHANGED <<pages, found, jobs, net, index, crossed>>
      BY <1>2 DEF Ask, InsertFetched, display, history
    <2>2. QED
      BY <2>1, StoreKept
  <1>3. CASE Answer(i)
    <2> DEFINE k == index \div Limit
               s == threads[i].to
    <2>1. /\ index' = index + 1 /\ s \in Server
          /\ UNCHANGED <<jobs, net, crossed>>
          /\ \/ pages' = pages /\ found' = found
             \/ pages' = WithServer(s, k) /\ found' = [found EXCEPT ![s] = @ + 1]
      <3>1. s \in Server
        BY <1>3, AnswerIs
      <3>2. QED
        BY <1>3, <3>1 DEF Answer, AnswerNumbered
    <2>2. SUFFICES ASSUME ~crossed PROVE JobInv' /\ Stored'
      BY <2>1 DEF StoreInv, JobInv
    <2>3. JobInv /\ Stored
      BY <1>1, <2>2 DEF StoreInv
    <2> HIDE DEF k, s
    <2>4. Stored' /\ \A p \in DOMAIN pages' : Len(pages'[p]) + (p - 1) * Limit <= index + 1
      <3>1. CASE pages' = pages /\ found' = found
        <4>1. Stored'
          BY <2>3, <3>1 DEF Stored, SlotsOf, Slots
        <4>2. ASSUME NEW p \in DOMAIN pages PROVE Len(pages[p]) + (p - 1) * Limit <= index + 1
          <5>1. Len(pages[p]) \in Nat /\ p \in Nat
            BY LenProperties DEF Types, DisplayTypes
          <5> DEFINE b == Len(pages[p]) + (p - 1) * Limit
          <5>2. b \in Int /\ b <= index
            BY <2>3, <5>1 DEF JobInv
          <5> HIDE DEF b
          <5>3. b <= index + 1
            BY <1>t, <5>2
          <5>4. QED
            BY <5>3 DEF b
        <4>3. QED
          BY <3>1, <4>1, <4>2
      <3>2. CASE pages' = WithServer(s, k) /\ found' = [found EXCEPT ![s] = @ + 1]
        BY <1>t, <2>1, <2>3, <3>2, StoredGrows DEF k
      <3>3. QED
        BY <2>1, <3>1, <3>2
    <2>5. JobInv'
      BY <2>1, <2>3, <2>4 DEF JobInv
    <2>6. QED
      BY <2>4, <2>5
  <1>4. QED
    BY <1>2, <1>3 DEF Fetcher

\* Each step.
LEMMA StoreStep == Types /\ Joined /\ StoreInv /\ [Next]_vars => StoreInv'
  <1> SUFFICES ASSUME Types, Joined, StoreInv, [Next]_vars PROVE StoreInv'
    OBVIOUS
  <1>1. CASE UNCHANGED vars
    <2>1. UNCHANGED <<pages, index, jobs, found, crossed, net>>
      BY <1>1 DEF vars, display, work, history
    <2>2. QED
      BY <2>1, StoreKept
  <1>2. CASE Next
    BY <1>2, UserStores, MainStores, NetworkStores, FetcherStores DEF Next, Fetching
  <1>3. QED
    BY <1>1, <1>2

\* However the answers come in, and though an address be listed twice, no server
\* found is dropped (NoneLost): the counter of add_server_to_page gives each a
\* place on a page with room.
THEOREM NoneIsLost == Spec => []NoneLost
  <1>1. Init => StoreInv
    BY NothingStored DEF Init, StoreInv
  <1>2. StoreInv => NoneLost
    BY DEF StoreInv, NoneLost, Stored, SlotsOf
  <1>3. QED
    BY <1>1, <1>2, StoreStep, TypesHold, JoinedHolds, PTL DEF Spec

-----------------------------------------------------------------------------
(* The display, while the user waits.                                      *)

\* The page that current_page names.
Goal == IF current + 1 \in DOMAIN pages THEN pages[current + 1] ELSE <<>>

Still == net = "idle" /\ jobs = <<>>
Only(do) == Len(tasks) = 1 /\ tasks[1].do = do
OnDisplay == ToSet(servers) = ToSet(Goal) /\ Len(servers) <= Limit

\* The threads that insert, and the servers they have in hand.
HandAt == {i \in DOMAIN threads : threads[i].at = "insert"}
InHand == {threads[i].to : i \in HandAt}

\* What is under way, from the user's action to its end: nothing; a refresh
\* that has passed its flags; its job, waiting and running; the sort that
\* follows; the list or the page that a task is to insert; and the insertion.
PQuiet == main = "idle" /\ Still /\ tasks = <<>> /\ OnDisplay
PRefresh == main = "refresh" /\ Still /\ tasks = <<>>
PPending ==
  main = "idle" /\ net = "idle" /\ jobs # <<>> /\ tasks = <<>> /\ servers = <<>> /\ current = 0
PJob ==
  /\ main = "idle" /\ net # "idle" /\ tasks = <<>> /\ current = 0
  /\ ToSet(servers) \union InHand = ToSet(Goal)
  /\ \A i, j \in HandAt : i = j
  /\ Len(servers) <= Limit /\ Len(servers) <= index
  /\ HandAt # {} => Len(servers) < Limit /\ Len(servers) < index
PSort == main = "idle" /\ Still /\ (Only("sort") \/ Only("loaded")) /\ OnDisplay
PInsert ==
  /\ main = "idle" /\ Still /\ Only("insert") /\ servers = <<>>
  /\ ToSet(tasks[1].list) = ToSet(Goal) /\ Len(tasks[1].list) <= Limit
PPage ==
  /\ main = "idle" /\ Still /\ Only("page") /\ servers = <<>>
  /\ tasks[1].page = current /\ current \in 0 .. Len(pages) - 1
PFill ==
  /\ main \in {"check", "insert"} /\ Still /\ (tasks = <<>> \/ Only("loaded"))
  /\ ToSet(servers) \union ToSet(batch) = ToSet(Goal)
  /\ Len(servers) + Len(batch) <= Limit
Phase == PQuiet \/ PRefresh \/ PPending \/ PJob \/ PSort \/ PInsert \/ PPage \/ PFill

\* No page is longer than a page, current_page names one if there is one, and
\* some page is filled until a server is deleted, which a refresh follows.
Bounded == \A p \in DOMAIN pages : Len(pages[p]) <= Limit
Paged == pages # <<>> => current \in 0 .. Len(pages) - 1
Filled == pages # <<>> /\ ~crossed => Slots # {}
Fresh == crossed => main = "refresh"

ShowInv == ~overlapped => Bounded /\ Paged /\ Filled /\ Fresh /\ Phase

\* A task is to show the page that is loading.
LoadInv == NoLoads(tasks) => ~loading

\* The only task put.
LEMMA TaskPut ==
  ASSUME NEW t \in Task
  PROVE  /\ Append(<<>>, t) \in Seq(Task)
         /\ Len(Append(<<>>, t)) = 1 /\ Append(<<>>, t)[1] = t
  <1>1. <<>> \in Seq(Task) /\ Len(<<>>) = 0
    BY EmptySeq
  <1>2. QED
    BY <1>1, AppendIs

\* The only task taken.
LEMMA TaskTaken ==
  ASSUME Types, NEW i \in DOMAIN tasks, Len(tasks) = 1
  PROVE  i = 1 /\ RemoveAt(tasks, i) = <<>>
  <1>1. tasks \in Seq(Task) /\ DOMAIN tasks = 1 .. 1
    BY LenProperties DEF Types, FrameTypes
  <1>2. i \in 1 .. Len(tasks) /\ i = 1
    BY <1>1
  <1>3. RemoveAt(tasks, i) \in Seq(Task) /\ Len(RemoveAt(tasks, i)) = 1 - 1
    BY <1>1, <1>2, RemoveAtIs
  <1>4. QED
    BY <1>2, <1>3, EmptySeq

\* The pages are no more than their servers fill.
LEMMA PagesEnough ==
  ASSUME Types, Bounded
  PROVE  /\ TotalPages \in Nat /\ TotalPages <= Len(pages)
         /\ Slots # {} => TotalPages >= 1
  <1> DEFINE n == Len(pages)
             c == Cardinality(Slots)
             q == (c + Limit - 1) \div Limit
  <1>1. n \in Nat /\ DOMAIN pages = 1 .. n
        /\ \A p \in DOMAIN pages : DOMAIN pages[p] = 1 .. Len(pages[p]) /\ Len(pages[p]) \in Nat
    BY LenProperties DEF Types, DisplayTypes
  <1>3. Slots \subseteq (1 .. n) \X (1 .. Limit)
    <2> SUFFICES ASSUME NEW p \in DOMAIN pages, NEW i \in DOMAIN pages[p]
                 PROVE  <<p, i>> \in (1 .. n) \X (1 .. Limit)
      BY DEF Slots
    <2>1. p \in 1 .. n /\ i \in 1 .. Limit
      BY <1>1 DEF Bounded
    <2>2. QED
      BY <2>1
  <1>4. IsFiniteSet(Slots) /\ c <= n * Limit
    <2> HIDE DEF n, c
    <2>0. ASSUME NEW m \in Nat PROVE IsFiniteSet(1 .. m) /\ Cardinality(1 .. m) = m
      BY FS_Interval
    <2> DEFINE a == 1 .. n
               b == 1 .. Limit
    <2>1. IsFiniteSet(a) /\ Cardinality(a) = n
      BY <1>1, <2>0
    <2>2. IsFiniteSet(b) /\ Cardinality(b) = Limit
      BY <2>0
    <2> HIDE DEF a, b
    <2>3. IsFiniteSet(a \X b) /\ Cardinality(a \X b) = n * Limit
      BY <2>1, <2>2, FS_Product
    <2>s. Slots \subseteq a \X b
      BY <1>3 DEF a, b
    <2>4. QED
      BY <2>3, <2>s, FS_Subset DEF c
  <1>2. c \in Nat
    BY <1>4, FS_CardinalityType
  <1>5. Slots # {} => c >= 1
    <2>1. Slots # {} => c # 0
      BY <1>4, FS_EmptySet
    <2>2. QED
      BY <1>2, <2>1
  <1>6. TotalPages = q
    BY DEF TotalPages, ServerCount
  <1> HIDE DEF n, c
  <1>7. /\ c + Limit - 1 \in Nat /\ q \in Nat
        /\ q * Limit <= c + Limit - 1 /\ c + Limit - 1 < q * Limit + Limit
    BY <1>2, PageOfIndex
  <1> HIDE DEF q
  <1>8. q <= n
    <2> SUFFICES ASSUME ~(q <= n) PROVE FALSE
      OBVIOUS
    <2>1. n + 1 \in Nat /\ n + 1 <= q
      BY <1>1, <1>7
    <2>2. (n + 1) * Limit <= q * Limit
      BY <1>7, <2>1, PageStarts
    <2>3. (n + 1) * Limit = n * Limit + Limit
      BY <1>1
    <2>4. n * Limit \in Nat /\ q * Limit \in Nat
      BY <1>1, <1>7
    <2>5. QED
      BY <1>2, <1>4, <1>7, <2>2, <2>3, <2>4
  <1>9. c >= 1 => q >= 1
    <2> SUFFICES ASSUME c >= 1, q = 0 PROVE FALSE
      BY <1>7
    <2>1. c + Limit - 1 < Limit
      BY <1>7
    <2>2. QED
      BY <1>2, <2>1
  <1>10. QED
    BY <1>5, <1>6, <1>7, <1>8, <1>9 DEF n

\* A step that leaves the pages, and the page that is current, as they are.
LEMMA ShowKept ==
  ASSUME ShowInv, UNCHANGED <<pages, current, crossed>>, ~overlapped' => ~overlapped,
         main = "refresh" => main' = "refresh", ~overlapped /\ ~overlapped' /\ Phase => Phase'
  PROVE  ShowInv'
  <1> SUFFICES ASSUME ~overlapped' PROVE Bounded' /\ Paged' /\ Filled' /\ Fresh' /\ Phase'
    BY DEF ShowInv
  <1>1. Bounded /\ Paged /\ Filled /\ Fresh /\ Phase
    BY DEF ShowInv
  <1>2. Slots' = Slots
    BY DEF Slots
  <1>3. QED
    BY <1>1, <1>2 DEF Bounded, Paged, Filled, Fresh

\* load_page, when all is quiet.
LEMMA LoadShows ==
  ASSUME Types, ShowInv, PQuiet, ~overlapped, NEW k \in Int, LoadPage(k),
         UNCHANGED <<pages, work, main, batch, crossed>>,
         k \notin 0 .. Len(pages) - 1 => pages = <<>> \/ current' = current
  PROVE  ShowInv'
  <1>1. Bounded /\ Paged /\ Filled /\ Fresh
    BY DEF ShowInv
  <1>2. Bounded' /\ Filled' /\ Fresh'
    <2>1. Slots' = Slots
      BY DEF Slots
    <2>2. QED
      BY <1>1, <2>1 DEF Bounded, Filled, Fresh
  <1> SUFFICES Paged' /\ Phase'
    BY <1>2 DEF ShowInv
  <1>3. main' = "idle" /\ Still'
    BY DEF PQuiet, Still, work
  <1>4. CASE k \in 0 .. Len(pages) - 1
    <2> DEFINE t == [do |-> "page", page |-> k]
    <2>1. servers' = <<>> /\ current' = k /\ tasks' = Append(<<>>, t)
      BY <1>4 DEF LoadPage, LoadPageIf, PQuiet
    <2>2. t \in Task /\ t.do = "page" /\ t.page = k
      <3>1. Len(pages) \in Nat
        BY LenProperties DEF Types, DisplayTypes
      <3>2. QED
        BY <1>4, <3>1 DEF Task
    <2> HIDE DEF t
    <2>3. Len(tasks') = 1 /\ tasks'[1] = t
      BY <2>1, <2>2, TaskPut
    <2>4. Phase'
      BY <1>3, <1>4, <2>1, <2>2, <2>3 DEF Phase, PPage, Only
    <2>5. Paged'
      BY <1>1, <1>4, <2>1 DEF Paged
    <2>6. QED
      BY <1>2, <2>4, <2>5
  <1>5. CASE k \notin 0 .. Len(pages) - 1
    <2>1. servers' = servers /\ tasks' = tasks
      BY <1>5 DEF LoadPage, LoadPageIf
    <2>2. CASE pages = <<>>
      <3>1. Goal = <<>> /\ Goal' = <<>>
        BY <2>2 DEF Goal
      <3>2. Phase'
        BY <1>3, <2>1, <3>1 DEF Phase, PQuiet, OnDisplay
      <3>3. Paged'
        BY <2>2 DEF Paged
      <3>4. QED
        BY <1>2, <3>2, <3>3
    <2>3. CASE current' = current
      <3>1. Goal' = Goal
        BY <2>3 DEF Goal
      <3>2. Phase'
        BY <1>3, <2>1, <3>1 DEF Phase, PQuiet, OnDisplay
      <3>3. Paged'
        BY <1>1, <2>3 DEF Paged
      <3>4. QED
        BY <1>2, <3>2, <3>3
    <2>4. QED
      BY <1>5, <2>2, <2>3
  <1>6. QED
    BY <1>4, <1>5

\* What the user does.
LEMMA UserShows == ASSUME Types, FlagIsJob, LoadInv, ShowInv, User PROVE ShowInv'
  <1> SUFFICES ASSUME ~overlapped' PROVE ShowInv'
    BY DEF ShowInv
  <1>0. ~overlapped
    BY DEF User, Refresh, RefreshUnless, Sort, Join, OpenPage, TurnPage, AddFavourite,
           DeleteFavourite, Act
  <1>2. Bounded /\ Paged /\ Filled /\ Fresh /\ Phase
    BY <1>0 DEF ShowInv
  <1>3. CASE Join \/ \E i \in 1 .. Limit : AddFavourite(i)
    <2>1. UNCHANGED <<servers, pages, current, main, batch, tasks, jobs, net, index, threads,
                      crossed>>
      BY <1>3 DEF Join, AddFavourite, display, work, frame
    <2>2. Phase'
      <3>1. Goal' = Goal /\ HandAt' = HandAt /\ InHand' = InHand
        BY <2>1 DEF Goal, HandAt, InHand
      <3>2. QED
        BY <1>2, <2>1, <3>1
           DEF Phase, PQuiet, PRefresh, PPending, PJob, PSort, PInsert, PPage, PFill, OnDisplay, Only,
               Still
    <2>3. QED
      BY <1>0, <2>1, <2>2, ShowKept
  <1>4. ASSUME Quiet PROVE PQuiet /\ ~crossed
    BY <1>2, <1>4
       DEF Fresh, Quiet, Phase, PQuiet, PRefresh, PPending, PJob, PSort, PInsert, PPage, PFill, Only, Still
  <1>5. CASE Refresh
    <2>1. UNCHANGED <<display, work, tasks, crossed>> /\ main' = "refresh"
      BY <1>5 DEF Refresh, RefreshUnless
    <2>2. Quiet
      BY <1>5 DEF Refresh, RefreshUnless, Act
    <2>3. PRefresh'
      BY <2>1, <2>2 DEF Quiet, PRefresh, Still, work
    <2>4. QED
      BY <1>0, <2>1, <2>3, ShowKept DEF Phase, display
  <1>6. CASE Sort
    <2> DEFINE t == [do |-> "insert", list |-> servers]
    <2>1. /\ UNCHANGED <<pages, current, work, main, crossed>>
          /\ servers' = <<>> /\ tasks' = Append(tasks, t)
      BY <1>6 DEF Sort, SortInto
    <2>2. PQuiet /\ ~crossed
      BY <1>4, <1>6 DEF Sort, Act
    <2>3. t \in Task /\ t.do = "insert" /\ t.list = servers
      BY DEF Task, Types, DisplayTypes
    <2> HIDE DEF t
    <2>4. Len(tasks') = 1 /\ tasks'[1] = t
      BY <2>1, <2>2, <2>3, TaskPut DEF PQuiet
    <2>5. Goal' = Goal /\ Still' /\ main' = "idle"
      BY <2>1, <2>2 DEF Goal, Still, work, PQuiet
    <2>6. PInsert'
      BY <2>1, <2>2, <2>3, <2>4, <2>5 DEF PInsert, PQuiet, OnDisplay, Only
    <2>7. QED
      BY <1>0, <2>1, <2>6, ShowKept DEF Phase
  <1>7. ASSUME NEW k \in 0 .. 1, OpenPage(k) PROVE ShowInv'
    <2>1. /\ LoadPage(k) /\ UNCHANGED <<pages, work, main, batch, crossed>>
          /\ (k \notin 0 .. Len(pages) - 1 => current' = current) /\ k \in Int
      BY <1>7 DEF OpenPage, Act
    <2>2. PQuiet /\ ~crossed
      BY <1>4, <1>7 DEF OpenPage, Act
    <2>3. QED
      BY <1>0, <2>1, <2>2, LoadShows
  <1>8. ASSUME NEW step \in {1, -1}, TurnPage(step) PROVE ShowInv'
    <2> DEFINE k == current + step
               to == CASE step = -1 /\ k < 0 -> TotalPages - 1
                       [] step = 1 /\ k >= TotalPages -> 0
                       [] OTHER -> k
    <2>1. LoadPage(to) /\ UNCHANGED <<pages, work, main, batch, crossed>>
      BY <1>8 DEF TurnPage, Act
    <2>2. PQuiet /\ ~crossed
      BY <1>4, <1>8 DEF TurnPage, Act
    <2>3. /\ TotalPages \in Nat /\ TotalPages <= Len(pages)
          /\ pages # <<>> => TotalPages >= 1 /\ current \in 0 .. Len(pages) - 1
      BY <1>2, <2>2, PagesEnough DEF Paged, Filled
    <2>4. current \in Int /\ Len(pages) \in Nat
      BY LenProperties DEF Types, DisplayTypes
    <2>5. to \in Int
      BY <2>3, <2>4
    <2>6. to \notin 0 .. Len(pages) - 1 => pages = <<>>
      <3>1. step = 1 \/ step = -1
        OBVIOUS
      <3>2. step = 1 => to = IF current + 1 >= TotalPages THEN 0 ELSE current + 1
        BY <2>3, <2>4
      <3>3. step = -1 => to = IF current - 1 < 0 THEN TotalPages - 1 ELSE current - 1
        BY <2>3, <2>4
      <3> HIDE DEF to
      <3>4. QED
        BY <2>3, <2>4, <3>1, <3>2, <3>3
    <2> HIDE DEF to
    <2>7. QED
      BY <1>0, <2>1, <2>2, <2>5, <2>6, LoadShows
  <1>9. ASSUME NEW i \in 1 .. Limit, DeleteFavourite(i) PROVE ShowInv'
    <2>1. /\ UNCHANGED <<current, work, tasks>> /\ main' = (IF Busy THEN "idle" ELSE "refresh")
          /\ crossed' = TRUE
      BY <1>9 DEF DeleteFavourite
    <2>2. Quiet
      BY <1>9 DEF DeleteFavourite, Act
    <2>3. ~Busy
      <3>1. ~getting["list"] /\ ~getting["favourites"]
        BY <2>2 DEF FlagIsJob, Quiet, Job
      <3>2. ~loading
        BY <2>2 DEF LoadInv, NoLoads, Quiet
      <3>3. QED
        BY <3>1, <3>2 DEF Busy
    <2>4. PRefresh' /\ Fresh'
      BY <2>1, <2>2, <2>3 DEF Quiet, PRefresh, Still, Fresh, work
    <2>5. /\ pages' \in Seq(Seq(Server)) /\ Len(pages') = Len(pages)
          /\ \A p \in DOMAIN pages' : p \in DOMAIN pages /\ Len(pages'[p]) <= Len(pages[p])
      BY <1>9, DeleteIs
    <2>6. Bounded'
      <3>1. pages \in Seq(Seq(Server))
        BY DEF Types, DisplayTypes
      <3>2. \A p \in DOMAIN pages' : Len(pages'[p]) \in Nat
        BY <2>5, LenProperties
      <3>3. \A p \in DOMAIN pages : Len(pages[p]) \in Nat
        BY <3>1, LenProperties
      <3>4. QED
        BY <1>2, <2>5, <3>2, <3>3 DEF Bounded
    <2>7. Paged' /\ Filled'
      <3>1. pages' # <<>> => pages # <<>>
        BY <2>5, EmptySeq DEF Types, DisplayTypes
      <3>2. QED
        BY <1>2, <2>1, <2>5, <3>1 DEF Paged, Filled
    <2>8. QED
      BY <2>4, <2>6, <2>7 DEF ShowInv, Phase
  <1>10. QED
    BY <1>3, <1>5, <1>6, <1>7, <1>8, <1>9 DEF User

\* The lists are emptied.
LEMMA ClearShows ==
  ASSUME Types, ShowInv, NEW source \in Job \union {"none"}, Clear(source)
  PROVE  ShowInv'
  <1>1. /\ main = "refresh" /\ main' = "idle"
        /\ servers' = <<>> /\ pages' = <<>> /\ current' = 0
        /\ UNCHANGED <<net, tasks, overlapped>> /\ crossed' = (jobs # <<>> \/ net # "idle")
    BY DEF Clear, ClearTo
  <1> SUFFICES ASSUME ~overlapped PROVE Bounded' /\ Paged' /\ Filled' /\ Fresh' /\ Phase'
    BY <1>1 DEF ShowInv
  <1>2. PRefresh
    BY <1>1 DEF ShowInv, Phase, PQuiet, PPending, PJob, PSort, PInsert, PPage, PFill
  <1>3. Bounded' /\ Paged' /\ Filled' /\ Fresh'
    <2>1. ~(jobs # <<>> \/ net # "idle")
      BY <1>2 DEF PRefresh, Still
    <2>2. Fresh'
      BY <1>1, <2>1 DEF Fresh
    <2>3. DOMAIN pages' = {}
      BY <1>1
    <2>4. QED
      BY <1>1, <2>2, <2>3 DEF Bounded, Paged, Filled
  <1>4. tasks' = <<>> /\ net' = "idle"
    BY <1>1, <1>2 DEF PRefresh, Still
  <1>o. OnDisplay'
    <2>1. DOMAIN pages' = {}
      BY <1>1
    <2>2. Goal' = servers'
      BY <1>1, <2>1 DEF Goal
    <2>3. Len(servers') = 0
      BY <1>1
    <2>4. QED
      BY <2>2, <2>3 DEF OnDisplay
  <1>5. CASE jobs' = <<>>
    BY <1>1, <1>3, <1>4, <1>5, <1>o DEF Phase, PQuiet, Still
  <1>6. CASE jobs' # <<>>
    BY <1>1, <1>3, <1>4, <1>6 DEF Phase, PPending
  <1>7. QED
    BY <1>3, <1>5, <1>6

\* A task of the main thread.
LEMMA TaskShows ==
  ASSUME Types, ShowInv, ~overlapped, NEW i \in DOMAIN tasks,
         \/ AutoSort(i, "sort") \/ AutoSort(i, "loaded") \/ StartInsert(i) \/ ShowPage(i)
  PROVE  Phase' /\ UNCHANGED <<pages, current, crossed, overlapped>>
  <1>1. main = "idle" /\ UNCHANGED <<pages, current, crossed, overlapped, work>>
    BY DEF AutoSort, StartInsert, ShowPage, Take, display, history
  <1>2. Phase /\ Bounded
    BY DEF ShowInv
  <1>3. tasks # <<>>
    OBVIOUS
  <1>4. PSort \/ PInsert \/ PPage
    BY <1>1, <1>2, <1>3 DEF Phase, PQuiet, PRefresh, PPending, PJob, PFill
  <1>5. Len(tasks) = 1
    BY <1>4 DEF PSort, PInsert, PPage, Only
  <1>6. i = 1 /\ RemoveAt(tasks, i) = <<>>
    BY <1>5, TaskTaken
  <1>7. Goal' = Goal /\ Still'
    BY <1>1, <1>4 DEF Goal, Still, work, PSort, PInsert, PPage
  <1>8. CASE AutoSort(i, "sort") \/ AutoSort(i, "loaded")
    <2> DEFINE t == [do |-> "insert", list |-> servers]
    <2>1. /\ tasks[1].do \in {"sort", "loaded"} /\ main' = "idle"
          /\ \/ tasks' = <<>> /\ servers' = servers
             \/ tasks' = Append(<<>>, t) /\ servers' = <<>>
      BY <1>1, <1>6, <1>8 DEF AutoSort, SortInto, Take
    <2>2. OnDisplay
      BY <1>4, <2>1 DEF PSort, PInsert, PPage, Only
    <2>3. t \in Task /\ t.do = "insert" /\ t.list = servers
      BY DEF Task, Types, DisplayTypes
    <2>4. CASE tasks' = <<>> /\ servers' = servers
      <3>1. OnDisplay'
        BY <1>7, <2>2, <2>4 DEF OnDisplay
      <3>2. QED
        BY <1>1, <1>7, <2>1, <2>4, <3>1 DEF Phase, PQuiet
    <2> HIDE DEF t
    <2>5. CASE tasks' = Append(<<>>, t) /\ servers' = <<>>
      <3>0. Len(tasks') = 1 /\ tasks'[1] = t
        BY <2>3, <2>5, TaskPut
      <3>1. Len(tasks') = 1 /\ tasks'[1].do = "insert" /\ tasks'[1].list = servers
        BY <2>3, <3>0
      <3>i. ToSet(tasks'[1].list) = ToSet(Goal') /\ Len(tasks'[1].list) <= Limit
        BY <1>7, <2>2, <3>1 DEF OnDisplay
      <3>2. PInsert'
        BY <1>7, <2>1, <2>5, <3>1, <3>i DEF PInsert, Only
      <3>3. QED
        BY <1>1, <3>2 DEF Phase
    <2>6. QED
      BY <1>1, <2>1, <2>4, <2>5
  <1>9. CASE StartInsert(i)
    <2>1. /\ tasks[1].do = "insert" /\ main' = "check" /\ batch' = tasks[1].list
          /\ tasks' = <<>> /\ servers' = servers
      BY <1>6, <1>9 DEF StartInsert, Take, display
    <2>2. /\ servers = <<>> /\ ToSet(tasks[1].list) = ToSet(Goal)
          /\ Len(tasks[1].list) <= Limit
      BY <1>4, <2>1 DEF PSort, PInsert, PPage, Only
    <2>3. ToSet(servers) = {} /\ Len(servers) = 0
      BY <2>2 DEF ToSet
    <2>4. tasks[1].list \in Seq(Server)
      <3>1. tasks[1] \in Task
        BY <1>6, LenProperties DEF Types, FrameTypes
      <3>2. QED
        BY <2>1, <3>1 DEF Task
    <2>5. Len(tasks[1].list) \in Nat
      BY <2>4, LenProperties
    <2>6. Len(servers') + Len(batch') <= Limit
      BY <2>1, <2>2, <2>3, <2>5
    <2>7. ToSet(servers') \union ToSet(batch') = ToSet(Goal')
      BY <1>7, <2>1, <2>2, <2>3
    <2>8. PFill'
      BY <1>7, <2>1, <2>6, <2>7 DEF PFill
    <2>9. QED
      BY <1>1, <2>8 DEF Phase
  <1>10. CASE ShowPage(i)
    <2> DEFINE t == [do |-> "loaded"]
               b == pages[tasks[1].page + 1]
    <2>1. /\ tasks[1].do = "page" /\ main' = "check" /\ servers' = servers
          /\ tasks' = Append(<<>>, t) /\ batch' = b
      BY <1>6, <1>10 DEF ShowPage, Take, display
    <2>2. servers = <<>> /\ tasks[1].page = current /\ current \in 0 .. Len(pages) - 1
      BY <1>4, <2>1 DEF PSort, PInsert, PPage, Only
    <2>3. DOMAIN pages = 1 .. Len(pages) /\ Len(pages) \in Nat /\ pages \in Seq(Seq(Server))
      BY LenProperties DEF Types, DisplayTypes
    <2>4. current + 1 \in DOMAIN pages
      BY <2>2, <2>3
    <2>5. b = Goal /\ b \in Seq(Server) /\ Len(b) <= Limit
      <3>1. b = pages[current + 1]
        BY <2>2
      <3> HIDE DEF b
      <3>2. b = Goal
        BY <2>4, <3>1 DEF Goal
      <3>3. b \in Seq(Server)
        BY <2>3, <2>4, <3>1
      <3>4. Len(b) <= Limit
        BY <1>2, <2>4, <3>1 DEF Bounded
      <3>5. QED
        BY <3>2, <3>3, <3>4
    <2>6. Len(b) \in Nat
      BY <2>5, LenProperties
    <2>7. t \in Task /\ t.do = "loaded"
      BY DEF Task
    <2> HIDE DEF t, b
    <2>8. Len(tasks') = 1 /\ tasks'[1] = t
      BY <2>1, <2>7, TaskPut
    <2>9. ToSet(servers) = {} /\ Len(servers) = 0
      BY <2>2 DEF ToSet
    <2>10. ToSet(servers') \union ToSet(batch') = ToSet(Goal')
      BY <1>7, <2>1, <2>5, <2>9
    <2>11. Len(servers') + Len(batch') <= Limit
      BY <2>1, <2>5, <2>6, <2>9
    <2>12. PFill'
      BY <1>7, <2>1, <2>7, <2>8, <2>10, <2>11 DEF PFill, Only
    <2>13. QED
      BY <1>1, <2>12 DEF Phase
  <1>11. QED
    BY <1>8, <1>9, <1>10

\* The insertion, server by server.
LEMMA InsertSize ==
  ASSUME servers \in Seq(Server), NEW s \in Server, Insert(s)
  PROVE  /\ servers' \in Seq(Server) /\ ToSet(servers') = ToSet(servers) \union {s}
         /\ Len(servers) \in Nat /\ Len(servers') \in Nat
         /\ Len(servers') <= Len(servers) + 1
  <1>1. Len(servers) \in Nat
    BY LenProperties
  <1>2. CASE s \in ToSet(servers)
    BY <1>1, <1>2 DEF Insert
  <1>3. CASE s \notin ToSet(servers)
    <2>1. servers' = Append(servers, s)
      BY <1>3 DEF Insert
    <2>2. /\ Append(servers, s) \in Seq(Server)
          /\ ToSet(Append(servers, s)) = ToSet(servers) \union {s}
          /\ Len(Append(servers, s)) = Len(servers) + 1
      BY AppendIs
    <2>3. QED
      BY <1>1, <2>1, <2>2
  <1>4. QED
    BY <1>2, <1>3

\* What the main thread does.
LEMMA MainShows == ASSUME Types, ShowInv, Main PROVE ShowInv'
  <1>1. CASE \E source \in Job \union {"none"} : Clear(source)
    BY <1>1, ClearShows
  <1>2. CASE \E i \in DOMAIN tasks : \/ AutoSort(i, "sort") \/ AutoSort(i, "loaded")
                                     \/ StartInsert(i) \/ ShowPage(i)
    <2>1. PICK i \in DOMAIN tasks : \/ AutoSort(i, "sort") \/ AutoSort(i, "loaded")
                                    \/ StartInsert(i) \/ ShowPage(i)
      BY <1>2
    <2>2. UNCHANGED <<pages, current, crossed, overlapped>> /\ main = "idle"
      BY <2>1 DEF AutoSort, StartInsert, ShowPage, Take, display, history
    <2>3. ~overlapped => Phase'
      BY <2>1, TaskShows
    <2>4. QED
      BY <2>2, <2>3, ShowKept
  <1>t. /\ servers \in Seq(Server) /\ batch \in Seq(Server)
        /\ Len(servers) \in Nat /\ Len(batch) \in Nat
    BY LenProperties DEF Types, DisplayTypes, FrameTypes
  <1>3. CASE CheckRoom
    <2>1. /\ main = "check" /\ UNCHANGED <<display, work, tasks, crossed, overlapped>>
          /\ \/ batch = <<>> /\ main' = "idle"
             \/ batch # <<>> /\ Room /\ main' = "insert" /\ batch' = batch
             \/ batch # <<>> /\ ~Room /\ main' = "check"
      BY <1>3 DEF CheckRoom, CheckRoomUntil, flags, history
    <2>2. SUFFICES ASSUME ~overlapped PROVE Phase'
      BY <2>1, ShowKept DEF display
    <2>3. PFill
      BY <2>1, <2>2 DEF ShowInv, Phase, PQuiet, PRefresh, PPending, PJob, PSort, PInsert, PPage
    <2>4. Goal' = Goal /\ Still' /\ servers' = servers /\ tasks' = tasks
      BY <2>1, <2>3 DEF Goal, Still, PFill, work, display
    <2>5. CASE batch = <<>> /\ main' = "idle"
      <3>1. ToSet(batch) = {} /\ Len(batch) = 0
        BY <2>5 DEF ToSet
      <3>2. OnDisplay'
        BY <1>t, <2>3, <2>4, <3>1 DEF PFill, OnDisplay
      <3>3. PQuiet' \/ PSort'
        BY <2>3, <2>4, <2>5, <3>2 DEF PFill, PQuiet, PSort, Only
      <3>4. QED
        BY <3>3 DEF Phase
    <2>6. CASE batch # <<>> /\ Room /\ main' = "insert" /\ batch' = batch
      BY <2>3, <2>4, <2>6 DEF PFill, Phase, Only
    <2>7. CASE batch # <<>> /\ ~Room /\ main' = "check"
      <3>1. Len(batch) > 0
        BY <1>t, <2>7, EmptySeq
      <3>2. FALSE
        BY <1>t, <2>3, <2>7, <3>1 DEF PFill, Room
      <3>3. QED
        BY <3>2
    <2>8. QED
      BY <2>1, <2>5, <2>6, <2>7
  <1>4. CASE InsertNext
    <2>1. /\ main = "insert" /\ main' = "check" /\ Insert(Head(batch)) /\ batch' = Tail(batch)
          /\ UNCHANGED <<pages, current, work, tasks, crossed, overlapped>>
      BY <1>4 DEF InsertNext, history
    <2>2. SUFFICES ASSUME ~overlapped PROVE Phase'
      BY <2>1, ShowKept
    <2>3. PFill
      BY <2>1, <2>2 DEF ShowInv, Phase, PQuiet, PRefresh, PPending, PJob, PSort, PInsert, PPage
    <2>4. Goal' = Goal /\ Still' /\ tasks' = tasks
      BY <2>1, <2>3 DEF Goal, Still, PFill, work
    <2>5. batch # <<>>
      BY <2>1 DEF Types, FrameTypes
    <2>6. /\ Head(batch) \in Server /\ Tail(batch) \in Seq(Server)
          /\ Len(Tail(batch)) = Len(batch) - 1
          /\ ToSet(batch) = {Head(batch)} \union ToSet(Tail(batch))
      BY <1>t, <2>5, HeadTailSets
    <2>7. /\ ToSet(servers') = ToSet(servers) \union {Head(batch)}
          /\ Len(servers') \in Nat /\ Len(servers') <= Len(servers) + 1
      BY <1>t, <2>1, <2>6, InsertSize
    <2>8. Len(servers') + Len(batch') <= Limit
      BY <1>t, <2>1, <2>3, <2>6, <2>7 DEF PFill
    <2>9. ToSet(servers') \union ToSet(batch') = ToSet(Goal')
      BY <2>1, <2>3, <2>4, <2>6, <2>7 DEF PFill
    <2>10. PFill'
      BY <2>1, <2>3, <2>4, <2>8, <2>9 DEF PFill, Only
    <2>11. QED
      BY <2>10 DEF Phase
  <1>5. QED
    BY <1>1, <1>2, <1>3, <1>4 DEF Main

\* The scheduled job begins.
LEMMA StartShows ==
  ASSUME Types, StoreInv, ShowInv, StartJob PROVE ShowInv'
  <1>1. /\ net = "idle" /\ jobs # <<>> /\ net' = Head(jobs) /\ index' = 0
        /\ UNCHANGED <<servers, pages, current, main, tasks, crossed, overlapped>>
        /\ threads' = <<>> \/ threads' = <<[to |-> Local, at |-> "asked"]>>
    BY DEF StartJob, display, frame, history
  <1>2. SUFFICES ASSUME ~overlapped PROVE Phase'
    BY <1>1, ShowKept
  <1>3. PPending
    BY <1>1, <1>2 DEF ShowInv, Phase, PQuiet, PRefresh, PJob, PSort, PInsert, PPage, PFill, Still
  <1>4. pages = <<>>
    BY <1>1, <1>2, <1>3 DEF StoreInv, ShowInv, Fresh, PPending
  <1>5. Head(jobs) \in Job /\ "idle" \notin Job
    BY <1>1, HeadTailProperties DEF Types, WorkTypes, Job
  <1>6. Goal' = <<>>
    <2>1. DOMAIN pages' = {}
      BY <1>1, <1>4
    <2>2. QED
      BY <2>1 DEF Goal
  <1>7. HandAt' = {} /\ InHand' = {}
    <2>1. CASE threads' = <<>>
      BY <2>1 DEF HandAt, InHand
    <2>2. CASE threads' = <<[to |-> Local, at |-> "asked"]>>
      BY <2>2 DEF HandAt, InHand
    <2>3. QED
      BY <1>1, <2>1, <2>2
  <1>8. servers' = <<>> /\ Len(servers') = 0 /\ ToSet(servers') = {} /\ ToSet(Goal') = {}
    <2>1. servers' = <<>>
      BY <1>1, <1>3 DEF PPending
    <2>2. ToSet(<<>>) = {}
      BY DEF ToSet
    <2>3. QED
      BY <1>6, <2>1, <2>2
  <1>9. main' = "idle" /\ net' # "idle" /\ tasks' = <<>> /\ current' = 0
    BY <1>1, <1>3, <1>5 DEF PPending
  <1>10. PJob'
    BY <1>1, <1>7, <1>8, <1>9 DEF PJob
  <1>11. QED
    BY <1>10 DEF Phase

\* A job under way is in its phase.
LEMMA InJob == ASSUME ShowInv, ~overlapped, net # "idle" PROVE PJob
  BY DEF ShowInv, Phase, PQuiet, PRefresh, PPending, PSort, PInsert, PPage, PFill, Still

\* What the network thread does.
LEMMA NetworkShows == ASSUME Types, StoreInv, ShowInv, Network PROVE ShowInv'
  <1>t. threads \in Seq(Thread) /\ "idle" \notin Job
    BY DEF Types, WorkTypes, Job
  <1>h. AllDone => HandAt = {}
    BY DEF AllDone, HandAt
  <1>1. CASE StartJob
    BY <1>1, StartShows
  <1>2. ASSUME UNCHANGED <<servers, pages, current, main, tasks, index, crossed, overlapped>>,
               net # "idle", net' # "idle", HandAt' = HandAt, InHand' = InHand
        PROVE  ShowInv'
    <2>1. SUFFICES ASSUME ~overlapped PROVE Phase'
      BY <1>2, ShowKept
    <2>2. PJob
      BY <1>2, <2>1, InJob
    <2>3. Goal' = Goal
      BY <1>2 DEF Goal
    <2>4. PJob'
      BY <1>2, <2>2, <2>3 DEF PJob
    <2>5. QED
      BY <2>4 DEF Phase
  <1>3. ASSUME UNCHANGED <<servers, pages, main, jobs, crossed, overlapped>>,
               net # "idle", net' = "idle", HandAt = {},
               \/ current' = current /\ tasks' = tasks
               \/ /\ current' = (IF pages = <<>> THEN current ELSE 0)
                  /\ tasks' = Append(tasks, [do |-> "sort"])
        PROVE  ShowInv'
    <2>1. ~overlapped => current' = current
      <3>1. ~overlapped => current = 0
        BY <1>3, InJob DEF PJob
      <3>2. QED
        BY <1>3, <3>1
    <2>2. SUFFICES ASSUME ~overlapped PROVE Phase'
      <3>1. CASE overlapped
        BY <1>3, <3>1 DEF ShowInv
      <3>2. CASE ~overlapped
        BY <1>3, <2>1, <2>2, <3>2, ShowKept
      <3>3. QED
        BY <3>1, <3>2
    <2>3. PJob
      BY <1>3, <2>2, InJob
    <2>4. ~crossed
      BY <2>2, <2>3 DEF ShowInv, Fresh, PJob
    <2>5. jobs = <<>>
      BY <1>3, <2>4 DEF StoreInv, JobInv
    <2>6. InHand = {} /\ Goal' = Goal
      BY <1>3, <2>1, <2>2 DEF InHand, Goal
    <2>7. OnDisplay' /\ Still' /\ main' = "idle"
      BY <1>3, <2>3, <2>5, <2>6 DEF PJob, OnDisplay, Still
    <2>8. tasks = <<>>
      BY <2>3 DEF PJob
    <2>9. CASE tasks' = tasks
      BY <2>7, <2>8, <2>9 DEF Phase, PQuiet
    <2>10. CASE tasks' = Append(tasks, [do |-> "sort"])
      <3>1. [do |-> "sort"] \in Task
        BY DEF Task
      <3>2. Len(tasks') = 1 /\ tasks'[1] = [do |-> "sort"]
        BY <2>8, <2>10, <3>1, TaskPut
      <3>3. Only("sort")'
        BY <3>2 DEF Only
      <3>4. QED
        BY <2>7, <3>3 DEF Phase, PSort
    <2>11. QED
      BY <1>3, <2>9, <2>10
  <1>4. CASE ReadList
    <2>1. /\ UNCHANGED <<servers, pages, current, main, tasks, index, crossed, overlapped>>
          /\ net # "idle" /\ net' # "idle" /\ AllDone /\ threads' = <<>>
      BY <1>t, <1>4 DEF ReadList, Running, display, frame, history
    <2>2. HandAt = {} /\ HandAt' = {}
      BY <1>h, <2>1 DEF HandAt
    <2>3. QED
      BY <1>2, <2>1, <2>2 DEF InHand
  <1>5. CASE Launch
    <2> DEFINE t == [to |-> Head(todo), at |-> "begin"]
    <2>1. /\ UNCHANGED <<servers, pages, current, main, tasks, index, crossed, overlapped>>
          /\ net # "idle" /\ net' # "idle" /\ Head(todo) \in Server
          /\ threads' = threads \/ threads' = Append(threads, t)
      BY <1>t, <1>5 DEF Launch, Running, display, frame, history
    <2>2. CASE threads' = threads
      BY <1>2, <2>1, <2>2 DEF HandAt, InHand
    <2>3. CASE threads' = Append(threads, t)
      <3>1. t \in Thread /\ t.at # "insert"
        BY <2>1 DEF Thread
      <3> HIDE DEF t
      <3>2. /\ threads' \in Seq(Thread) /\ Len(threads') = Len(threads) + 1 /\ Len(threads) \in Nat
            /\ threads'[Len(threads) + 1] = t /\ \A i \in 1 .. Len(threads) : threads'[i] = threads[i]
        BY <1>t, <2>3, <3>1, AppendIs
      <3>3. DOMAIN threads = 1 .. Len(threads) /\ DOMAIN threads' = 1 .. Len(threads) + 1
        BY <1>t, <3>2, LenProperties
      <3>4. HandAt' = HandAt
        BY <3>1, <3>2, <3>3 DEF HandAt
      <3>5. InHand' = InHand
        BY <3>2, <3>3, <3>4 DEF InHand, HandAt
      <3>6. QED
        BY <1>2, <2>1, <3>4, <3>5
    <2>4. QED
      BY <2>1, <2>2, <2>3
  <1>6. CASE GiveUp
    <2>1. /\ UNCHANGED <<servers, pages, current, main, tasks, index, jobs, threads, crossed,
                         overlapped>>
          /\ net # "idle" /\ net' = (IF threads = <<>> THEN "idle" ELSE "terminated")
      BY <1>t, <1>6 DEF GiveUp, Running, display, frame, history
    <2>2. CASE threads = <<>>
      <3>1. HandAt = {}
        BY <2>2 DEF HandAt
      <3>2. QED
        BY <1>3, <2>1, <2>2, <3>1
    <2>3. CASE threads # <<>>
      BY <1>2, <2>1, <2>3 DEF HandAt, InHand
    <2>4. QED
      BY <2>2, <2>3
  <1>7. CASE JobFails \/ JobEnds
    <2>1. /\ net # "idle" /\ net' = "idle" /\ AllDone
          /\ UNCHANGED <<servers, pages, main, jobs, crossed, overlapped>>
          /\ \/ current' = current /\ tasks' = tasks
             \/ /\ current' = (IF pages = <<>> THEN current ELSE 0)
                /\ tasks' = Append(tasks, [do |-> "sort"])
      BY <1>t, <1>7 DEF JobFails, JobFailsTo, JobEnds, Running, display, frame, history
    <2>2. QED
      BY <1>3, <1>h, <2>1
  <1>8. QED
    BY <1>1, <1>4, <1>5, <1>6, <1>7 DEF Network

\* The first page, while a job is under way.
LEMMA GoalGrows ==
  ASSUME Types, NEW s \in Server, NEW k \in Nat, current = 0, current' = 0,
         pages' = WithServer(s, k), Len(Page(k + 1)) < Limit
  PROVE  ToSet(Goal') = ToSet(Goal) \union (IF k = 0 THEN {s} ELSE {})
  <1>1. pages \in Seq(Seq(Server)) /\ Len(pages) \in Nat /\ DOMAIN pages = 1 .. Len(pages)
    BY LenProperties DEF Types, DisplayTypes
  <1>2. /\ WithServer(s, k) \in Seq(Seq(Server)) /\ Len(WithServer(s, k)) = Pages(k)
        /\ Pages(k) \in Nat \ {0} /\ \A p \in 1 .. Pages(k) : Page(p) \in Seq(Server)
        /\ \A p \in 1 .. Pages(k) :
             WithServer(s, k)[p] = IF p = k + 1 /\ Len(Page(p)) < Limit
                                   THEN Append(Page(p), s) ELSE Page(p)
    BY <1>1, WithServerIs
  <1>3. 1 \in 1 .. Pages(k) /\ DOMAIN WithServer(s, k) = 1 .. Pages(k)
    BY <1>2, LenProperties
  <1>4. Goal = Page(1)
    BY <1>1 DEF Goal, Page
  <1>5. Goal' = WithServer(s, k)[1]
    BY <1>3 DEF Goal
  <1>6. Page(1) \in Seq(Server)
    BY <1>2, <1>3
  <1>7. CASE k = 0
    <2>0. k + 1 = 1
      BY <1>7
    <2>1. WithServer(s, k)[1] = Append(Page(1), s)
      BY <1>2, <1>3, <2>0
    <2>2. ToSet(Append(Page(1), s)) = ToSet(Page(1)) \union {s}
      BY <1>6, AppendIs
    <2>3. QED
      BY <1>4, <1>5, <1>7, <2>1, <2>2
  <1>8. CASE k # 0
    <2>1. WithServer(s, k)[1] = Page(1)
      BY <1>2, <1>3, <1>8
    <2>2. QED
      BY <1>4, <1>5, <1>8, <2>1
  <1>9. QED
    BY <1>7, <1>8

\* An answer leaves no page too long, and some place taken.
LEMMA AnswerBounds ==
  ASSUME Types, Bounded, NEW s \in Server, NEW k \in Nat, pages' = WithServer(s, k),
         Len(Page(k + 1)) < Limit
  PROVE  Bounded' /\ Len(pages') \in Nat \ {0} /\ Slots' # {}
  <1>1. pages \in Seq(Seq(Server)) /\ Len(pages) \in Nat /\ DOMAIN pages = 1 .. Len(pages)
    BY LenProperties DEF Types, DisplayTypes
  <1> DEFINE n == Pages(k)
             w == WithServer(s, k)
  <1>2. /\ w \in Seq(Seq(Server)) /\ Len(w) = n /\ n \in Nat \ {0}
        /\ \A p \in 1 .. n : Page(p) \in Seq(Server)
        /\ \A p \in 1 .. n : w[p] = IF p = k + 1 /\ Len(Page(p)) < Limit
                                    THEN Append(Page(p), s) ELSE Page(p)
    BY <1>1, WithServerIs
  <1>3. DOMAIN w = 1 .. n
    BY <1>2, LenProperties
  <1> HIDE DEF n, w
  <1>4. ASSUME NEW p \in 1 .. n PROVE Len(w[p]) <= Limit
    <2>1. Page(p) \in Seq(Server) /\ Len(Page(p)) \in Nat
      BY <1>2, LenProperties
    <2>2. Len(Page(p)) <= Limit
      <3>1. CASE p <= Len(pages)
        <4>1. p \in DOMAIN pages /\ Page(p) = pages[p]
          BY <1>1, <1>2, <3>1 DEF Page
        <4>2. QED
          BY <4>1 DEF Bounded
      <3>2. CASE ~(p <= Len(pages))
        BY <3>2, EmptySeq DEF Page
      <3>3. QED
        BY <3>1, <3>2
    <2>3. CASE p = k + 1 /\ Len(Page(p)) < Limit
      <3>1. w[p] = Append(Page(p), s)
        BY <1>2, <2>3
      <3>2. Len(Append(Page(p), s)) = Len(Page(p)) + 1
        BY <2>1, AppendIs
      <3>3. QED
        BY <2>1, <2>3, <3>1, <3>2
    <2>4. CASE ~(p = k + 1 /\ Len(Page(p)) < Limit)
      BY <1>2, <2>2, <2>4
    <2>5. QED
      BY <2>3, <2>4
  <1>5. pages' = w
    BY DEF w
  <1>6. k + 1 \in 1 .. n
    BY <1>1 DEF n, Pages
  <1>7. Slots' # {}
    <2>1. Page(k + 1) \in Seq(Server)
      BY <1>2, <1>6
    <2>2. w[k + 1] = Append(Page(k + 1), s)
      BY <1>2, <1>6
    <2>3. w[k + 1] \in Seq(Server) /\ Len(w[k + 1]) = Len(Page(k + 1)) + 1 /\ Len(Page(k + 1)) \in Nat
      BY <2>1, <2>2, AppendIs
    <2>4. 1 \in DOMAIN w[k + 1]
      BY <2>3, LenProperties
    <2>5. <<k + 1, 1>> \in Slots'
      BY <1>3, <1>5, <1>6, <2>4 DEF Slots
    <2>6. QED
      BY <2>5
  <1>8. QED
    BY <1>2, <1>3, <1>4, <1>5, <1>7 DEF Bounded

\* An answer.
LEMMA AnswerShows ==
  ASSUME Types, StoreInv, ShowInv, net # "idle", NEW i \in DOMAIN threads, Answer(i) PROVE ShowInv'
  <1> DEFINE k == index \div Limit
             s == threads[i].to
  <1>t. /\ threads \in Seq(Thread)
        /\ index \in Nat /\ k \in Nat /\ k * Limit <= index /\ index < k * Limit + Limit
        /\ servers \in Seq(Server) /\ Len(servers) \in Nat
    BY PageOfIndex, LenProperties DEF Types, WorkTypes, DisplayTypes
  <1>1. ~Inserting /\ index' = index + 1 /\ s \in Server
        /\ UNCHANGED <<servers, current, net, tasks, main, crossed, overlapped>>
    BY AnswerIs DEF Answer, AnswerNumbered, frame
  <1> SUFFICES ASSUME ~overlapped PROVE Bounded' /\ Paged' /\ Filled' /\ Fresh' /\ Phase'
    BY <1>1 DEF ShowInv
  <1>2. Bounded /\ Paged /\ Filled /\ Fresh /\ PJob
    BY InJob DEF ShowInv
  <1>j. ~crossed /\ JobInv
    BY <1>2 DEF Fresh, PJob, StoreInv
  <1>3. HandAt = {} /\ InHand = {}
    BY <1>1 DEF HandAt, InHand, Inserting
  <1>4. /\ main' = "idle" /\ net' # "idle" /\ tasks' = <<>> /\ current' = 0 /\ current = 0
        /\ ToSet(servers) = ToSet(Goal) /\ Len(servers) <= Limit /\ Len(servers) <= index
    BY <1>1, <1>2, <1>3 DEF PJob
  <1>5. Len(Page(k + 1)) < Limit
    BY <1>t, <1>j, PageHasRoom
  <1>6. PICK fits \in BOOLEAN :
          /\ pages' = IF fits THEN WithServer(s, k) ELSE pages
          /\ threads' = [threads EXCEPT ![i].at = IF fits /\ k = 0 /\ Room THEN "insert" ELSE "done"]
    BY AnswerIs
  <1> HIDE DEF k, s
  <1>7. k = 0 => Room
    <2> SUFFICES ASSUME k = 0 PROVE Room
      OBVIOUS
    <2>1. index < Limit
      BY <1>t
    <2>2. QED
      BY <1>t, <1>4, <2>1 DEF Room
  <1>8. /\ HandAt' = (IF fits /\ k = 0 THEN {i} ELSE {})
        /\ InHand' = (IF fits /\ k = 0 THEN {s} ELSE {})
    <2>1. PICK a \in {"insert", "done"} :
            threads' = [threads EXCEPT ![i].at = a] /\ (a = "insert" <=> fits /\ k = 0)
      BY <1>6, <1>7
    <2>2. /\ DOMAIN threads' = DOMAIN threads /\ threads'[i].at = a /\ threads'[i].to = s
          /\ \A j \in DOMAIN threads : j # i => threads'[j] = threads[j]
      BY <1>t, <2>1, ThreadMoves DEF s
    <2>3. \A j \in DOMAIN threads : threads[j].at # "insert"
      BY <1>3 DEF HandAt
    <2>4. HandAt' = (IF fits /\ k = 0 THEN {i} ELSE {})
      BY <2>1, <2>2, <2>3 DEF HandAt
    <2>5. QED
      BY <2>2, <2>4 DEF InHand
  <1>9. ToSet(Goal') = ToSet(Goal) \union InHand'
    <2>1. CASE fits
      BY <1>t, <1>1, <1>4, <1>5, <1>6, <1>8, <2>1, GoalGrows
    <2>2. CASE ~fits
      <3>1. Goal' = Goal
        BY <1>1, <1>6, <2>2 DEF Goal
      <3>2. QED
        BY <1>8, <2>2, <3>1
    <2>3. QED
      BY <2>1, <2>2
  <1>10. HandAt' # {} => Len(servers) < Limit
    <2>1. HandAt' # {} => k = 0
      BY <1>8
    <2>2. QED
      BY <1>7, <2>1 DEF Room
  <1>11. \A a, b \in HandAt' : a = b
    BY <1>8
  <1>12. PJob'
    <2>1. Len(servers') <= Limit /\ Len(servers') <= index' /\ Len(servers') < index'
      BY <1>t, <1>1, <1>4
    <2>2. ToSet(servers') \union InHand' = ToSet(Goal')
      BY <1>1, <1>4, <1>9
    <2>3. servers' = servers
      BY <1>1
    <2>4. QED
      BY <1>4, <1>10, <1>11, <2>1, <2>2, <2>3 DEF PJob
  <1>13. Bounded' /\ Paged' /\ Filled'
    <2>1. CASE fits
      <3>1. Bounded' /\ Len(pages') \in Nat \ {0} /\ Slots' # {}
        BY <1>t, <1>1, <1>2, <1>5, <1>6, <2>1, AnswerBounds
      <3>2. 0 \in 0 .. Len(pages') - 1
        BY <3>1
      <3>3. QED
        BY <1>4, <3>1, <3>2 DEF Paged, Filled
    <2>2. CASE ~fits
      <3>1. Slots' = Slots
        BY <1>6, <2>2 DEF Slots
      <3>2. QED
        BY <1>1, <1>2, <1>6, <2>2, <3>1 DEF Bounded, Paged, Filled
    <2>3. QED
      BY <2>1, <2>2
  <1>14. Fresh'
    BY <1>1, <1>j DEF Fresh
  <1>15. QED
    BY <1>12, <1>13, <1>14 DEF Phase

\* What the threads of the job do.
LEMMA FetcherShows ==
  ASSUME Types, Joined, StoreInv, ShowInv, NEW i \in DOMAIN threads, Fetcher(i) PROVE ShowInv'
  <1>t. /\ threads \in Seq(Thread) /\ threads[i] \in Thread
        /\ servers \in Seq(Server) /\ Len(servers) \in Nat /\ index \in Nat
    BY LenProperties DEF Types, WorkTypes, DisplayTypes
  <1>1. net # "idle"
    <2>1. threads # <<>>
      OBVIOUS
    <2>2. QED
      BY <2>1 DEF Joined
  <1>2. CASE Answer(i)
    BY <1>1, <1>2, AnswerShows
  <1>3. CASE Ask(i)
    <2>1. /\ UNCHANGED <<servers, pages, current, main, tasks, net, index, crossed, overlapped>>
          /\ threads[i].at = "begin"
      BY <1>3 DEF Ask, display, frame, history
    <2>2. SUFFICES ASSUME ~overlapped PROVE Phase'
      BY <2>1, ShowKept
    <2>3. PJob
      BY <1>1, <2>2, InJob
    <2>4. HandAt' = HandAt /\ InHand' = InHand
      <3>1. PICK a \in {"asked", "done"} : threads' = [threads EXCEPT ![i].at = a]
        BY <1>3 DEF Ask
      <3>2. /\ DOMAIN threads' = DOMAIN threads /\ threads'[i].at = a
            /\ \A j \in DOMAIN threads : j # i => threads'[j] = threads[j]
        BY <1>t, <3>1, ThreadMoves
      <3>3. HandAt' = HandAt /\ i \notin HandAt
        BY <2>1, <3>2 DEF HandAt
      <3>4. QED
        BY <3>2, <3>3 DEF InHand, HandAt
    <2>5. Goal' = Goal
      BY <2>1 DEF Goal
    <2>6. PJob'
      BY <2>1, <2>3, <2>4, <2>5 DEF PJob
    <2>7. QED
      BY <2>6 DEF Phase
  <1>4. CASE InsertFetched(i)
    <2> DEFINE s == threads[i].to
    <2>1. /\ UNCHANGED <<pages, current, main, tasks, net, index, crossed, overlapped>>
          /\ threads[i].at = "insert" /\ Insert(s) /\ threads' = [threads EXCEPT ![i].at = "done"]
      BY <1>4 DEF InsertFetched, frame, history
    <2>s. s \in Server
      BY <1>t DEF Thread
    <2>2. SUFFICES ASSUME ~overlapped PROVE Phase'
      BY <2>1, ShowKept
    <2>3. PJob
      BY <1>1, <2>2, InJob
    <2>4. i \in HandAt
      BY <2>1 DEF HandAt
    <2>5. HandAt = {i} /\ InHand = {s}
      <3>1. HandAt = {i}
        BY <2>3, <2>4 DEF PJob
      <3>2. QED
        BY <3>1 DEF InHand
    <2>6. HandAt' = {} /\ InHand' = {}
      <3>1. /\ DOMAIN threads' = DOMAIN threads /\ threads'[i].at = "done"
            /\ \A j \in DOMAIN threads : j # i => threads'[j] = threads[j]
        BY <1>t, <2>1, ThreadMoves
      <3>2. HandAt' = {}
        BY <2>5, <3>1 DEF HandAt
      <3>3. QED
        BY <3>2 DEF InHand
    <2> HIDE DEF s
    <2>7. /\ ToSet(servers') = ToSet(servers) \union {s}
          /\ Len(servers') \in Nat /\ Len(servers') <= Len(servers) + 1
      BY <1>t, <2>1, <2>s, InsertSize
    <2>8. Goal' = Goal
      BY <2>1 DEF Goal
    <2>9. ToSet(servers') \union InHand' = ToSet(Goal')
      BY <2>3, <2>5, <2>6, <2>7, <2>8 DEF PJob
    <2>10. Len(servers') <= Limit /\ Len(servers') <= index'
      <3>1. Len(servers) < Limit /\ Len(servers) < index
        BY <2>3, <2>5 DEF PJob
      <3>2. QED
        BY <1>t, <2>1, <2>7, <3>1
    <2>11. PJob'
      BY <2>1, <2>3, <2>6, <2>9, <2>10 DEF PJob
    <2>12. QED
      BY <2>11 DEF Phase
  <1>5. QED
    BY <1>2, <1>3, <1>4 DEF Fetcher

\* A page that is loading has its task.
LEMMA LoadStep == Types /\ LoadInv /\ [Next]_vars => LoadInv'
  <1> SUFFICES ASSUME Types, LoadInv, [Next]_vars, NoLoads(tasks)' PROVE ~loading'
    BY DEF LoadInv
  <1>t. /\ tasks \in Seq(Task) /\ DOMAIN tasks = 1 .. Len(tasks) /\ Len(tasks) \in Nat
        /\ [do |-> "insert", list |-> servers] \in Task /\ [do |-> "sort"] \in Task
        /\ [do |-> "loaded"] \in Task
    BY LenProperties DEF Types, FrameTypes, DisplayTypes, Task
  <1>a. ASSUME NEW ts \in Seq(Task), NEW e \in Task, NoLoads(Append(ts, e))
        PROVE  NoLoads(ts) /\ ~IsLoad(e)
    <2> DEFINE us == Append(ts, e)
    <2>1. /\ Len(us) = Len(ts) + 1 /\ Len(ts) \in Nat /\ us[Len(ts) + 1] = e
          /\ \A i \in 1 .. Len(ts) : us[i] = ts[i]
      BY AppendIs
    <2>2. NoLoads(us)
      BY <1>a
    <2> HIDE DEF us
    <2>3. \A i \in 1 .. Len(ts) : i \in 1 .. Len(us)
      BY <2>1
    <2>4. Len(ts) + 1 \in 1 .. Len(us)
      BY <2>1
    <2>5. QED
      BY <2>1, <2>2, <2>3, <2>4 DEF NoLoads
  <1>r. ASSUME NEW i \in 1 .. Len(tasks), NoLoads(RemoveAt(tasks, i)), ~IsLoad(tasks[i])
        PROVE  ~loading
    <2> DEFINE us == RemoveAt(tasks, i)
    <2>1. /\ Len(us) = Len(tasks) - 1
          /\ \A j \in 1 .. Len(tasks) - 1 : us[j] = IF j < i THEN tasks[j] ELSE tasks[j + 1]
      BY <1>t, RemoveAtIs
    <2>2. NoLoads(us)
      BY <1>r
    <2> HIDE DEF us
    <2>3. ASSUME NEW j \in 1 .. Len(tasks) PROVE ~IsLoad(tasks[j])
      <3>1. CASE j < i
        <4>1. j \in 1 .. Len(us) /\ us[j] = tasks[j]
          BY <1>t, <2>1, <3>1
        <4>2. QED
          BY <2>2, <4>1 DEF NoLoads
      <3>2. CASE j = i
        BY <1>r, <3>2
      <3>3. CASE j > i
        <4>1. j - 1 \in 1 .. Len(us) /\ us[j - 1] = tasks[(j - 1) + 1] /\ (j - 1) + 1 = j
          BY <1>t, <2>1, <3>3
        <4>2. QED
          BY <2>2, <4>1 DEF NoLoads
      <3>4. QED
        BY <3>1, <3>2, <3>3
    <2>4. QED
      BY <2>3 DEF LoadInv, NoLoads
  <1>1. CASE UNCHANGED <<loading, tasks>>
    BY <1>1 DEF LoadInv
  <1>2. ASSUME NEW e \in Task, tasks' = Append(tasks, e), ~IsLoad(e) => loading' = loading PROVE ~loading'
    BY <1>t, <1>2, <1>a DEF LoadInv
  <1>3. ASSUME NEW k, LoadPage(k) PROVE ~loading'
    <2>1. CASE k \in 0 .. Len(pages) - 1
      <3> DEFINE e == [do |-> "page", page |-> k]
      <3>1. Len(pages) \in Nat
        BY LenProperties DEF Types, DisplayTypes
      <3>2. e \in Task /\ IsLoad(e)
        BY <2>1, <3>1 DEF Task, IsLoad
      <3>3. tasks' = Append(tasks, e)
        BY <1>3, <2>1 DEF LoadPage, LoadPageIf
      <3> HIDE DEF e
      <3>4. QED
        BY <1>2, <3>2, <3>3
    <2>2. CASE k \notin 0 .. Len(pages) - 1
      <3>1. tasks' = tasks /\ (loading' <=> loading)
        BY <1>3, <2>2 DEF LoadPage, LoadPageIf
      <3>2. QED
        BY <3>1 DEF LoadInv
    <2>3. QED
      BY <2>1, <2>2
  <1>4. CASE User
    <2>1. CASE Sort
      <3>1. ~IsLoad([do |-> "insert", list |-> servers])
        BY DEF IsLoad
      <3>2. QED
        BY <1>t, <1>2, <2>1, <3>1 DEF Sort, SortInto, flags
    <2>2. CASE (\E k \in 0 .. 1 : OpenPage(k)) \/ (\E step \in {1, -1} : TurnPage(step))
      <3>1. \E k : LoadPage(k)
        BY <2>2 DEF OpenPage, TurnPage
      <3>2. QED
        BY <1>3, <3>1
    <2>3. CASE Refresh \/ Join \/ \E i \in 1 .. Limit : AddFavourite(i) \/ DeleteFavourite(i)
      BY <1>1, <2>3 DEF Refresh, RefreshUnless, Join, AddFavourite, DeleteFavourite, flags, frame
    <2>4. QED
      BY <1>4, <2>1, <2>2, <2>3 DEF User
  <1>5. CASE Main
    <2>1. ASSUME NEW i \in DOMAIN tasks, AutoSort(i, "sort") PROVE ~loading'
      <3>1. /\ tasks' = Append(RemoveAt(tasks, i), [do |-> "insert", list |-> servers])
            /\ loading' = loading /\ tasks[i].do = "sort"
        BY <2>1 DEF AutoSort, SortInto, Take
      <3>2. RemoveAt(tasks, i) \in Seq(Task)
        BY <1>t, RemoveAtIs
      <3>3. NoLoads(RemoveAt(tasks, i)) /\ ~IsLoad(tasks[i])
        BY <1>t, <1>a, <3>1, <3>2 DEF IsLoad
      <3>4. QED
        BY <1>t, <1>r, <3>1, <3>3
    <2>2. ASSUME NEW i \in DOMAIN tasks, AutoSort(i, "loaded") PROVE ~loading'
      BY <2>2 DEF AutoSort
    <2>3. ASSUME NEW i \in DOMAIN tasks, StartInsert(i) PROVE ~loading'
      <3>1. tasks' = RemoveAt(tasks, i) /\ loading' = loading /\ ~IsLoad(tasks[i])
        BY <2>3 DEF StartInsert, Take, flags, IsLoad
      <3>2. QED
        BY <1>t, <1>r, <3>1
    <2>4. ASSUME NEW i \in DOMAIN tasks, ShowPage(i) PROVE ~loading'
      <3>1. tasks' = Append(RemoveAt(tasks, i), [do |-> "loaded"])
        BY <2>4 DEF ShowPage
      <3>2. RemoveAt(tasks, i) \in Seq(Task)
        BY <1>t, RemoveAtIs
      <3>3. ~IsLoad([do |-> "loaded"])
        BY <1>t, <1>a, <3>1, <3>2
      <3>4. QED
        BY <3>3 DEF IsLoad
    <2>5. CASE (\E source \in Job \union {"none"} : Clear(source)) \/ CheckRoom \/ InsertNext
      BY <1>1, <2>5 DEF Clear, ClearTo, CheckRoom, CheckRoomUntil, InsertNext, flags
    <2>6. QED
      BY <1>5, <2>1, <2>2, <2>3, <2>4, <2>5 DEF Main
  <1>6. CASE Network
    <2>1. CASE JobEnds
      <3>1. ~IsLoad([do |-> "sort"])
        BY DEF IsLoad
      <3>2. QED
        BY <1>t, <1>2, <2>1, <3>1 DEF JobEnds
    <2>2. CASE ~JobEnds
      BY <1>1, <1>6, <2>2 DEF Network, StartJob, ReadList, JobFails, JobFailsTo, Launch, GiveUp, flags,
                              frame
    <2>3. QED
      BY <2>1, <2>2
  <1>7. CASE Fetching
    BY <1>1, <1>7 DEF Fetching, Fetcher, Ask, Answer, AnswerNumbered, InsertFetched, flags, frame
  <1>8. CASE UNCHANGED vars
    BY <1>1, <1>8 DEF vars, flags, frame
  <1>9. QED
    BY <1>4, <1>5, <1>6, <1>7, <1>8 DEF Next

\* When all is quiet, the display is the page that current_page names
\* (DisplayIsPage), whatever the tasks of load_page and sort_current_page met.
THEOREM PageIsShown == Spec => []DisplayIsPage
  <1>1. Init => ShowInv
    <2> SUFFICES ASSUME Init PROVE Bounded /\ Paged /\ Filled /\ Fresh /\ PQuiet
      BY DEF ShowInv, Phase
    <2>1. DOMAIN pages = {} /\ Len(servers) = 0
      BY DEF Init
    <2>2. Goal = servers
      BY <2>1 DEF Goal, Init
    <2>3. QED
      BY <2>1, <2>2 DEF Init, Bounded, Paged, Filled, Fresh, PQuiet, Still, OnDisplay
  <1>2. Init => StoreInv /\ LoadInv
    BY NothingStored DEF Init, StoreInv, LoadInv
  <1>3. Types /\ Joined /\ StoreInv /\ LoadInv /\ [Next]_vars => StoreInv' /\ LoadInv'
    BY StoreStep, LoadStep
  <1>4. Types /\ Joined /\ FlagIsJob /\ LoadInv /\ StoreInv /\ ShowInv /\ [Next]_vars => ShowInv'
    <2> SUFFICES ASSUME Types, Joined, FlagIsJob, LoadInv, StoreInv, ShowInv, [Next]_vars
                 PROVE  ShowInv'
      OBVIOUS
    <2>1. CASE UNCHANGED vars
      <3>1. UNCHANGED <<servers, pages, current, main, batch, tasks, jobs, net, index, threads,
                        crossed, overlapped>>
        BY <2>1 DEF vars, display, work, frame, history
      <3>2. Goal' = Goal /\ HandAt' = HandAt /\ InHand' = InHand
        BY <3>1 DEF Goal, HandAt, InHand
      <3>3. Phase => Phase'
        BY <3>1, <3>2
           DEF Phase, PQuiet, PRefresh, PPending, PJob, PSort, PInsert, PPage, PFill, OnDisplay, Only,
               Still
      <3>4. QED
        BY <3>1, <3>3, ShowKept
    <2>2. CASE Next
      BY <2>2, UserShows, MainShows, NetworkShows, FetcherShows DEF Next, Fetching
    <2>3. QED
      BY <2>1, <2>2
  <1>5. ShowInv => DisplayIsPage
    <2> SUFFICES ASSUME ShowInv, Quiet, ~overlapped PROVE ToSet(servers) = ToSet(Goal)
      <3>1. ToSet(Goal) = IF current + 1 \in DOMAIN pages THEN ToSet(pages[current + 1]) ELSE {}
        BY DEF Goal, ToSet
      <3>2. QED
        BY <3>1 DEF DisplayIsPage
    <2>1. PQuiet
      BY DEF ShowInv, Quiet, Phase, PRefresh, PPending, PJob, PSort, PInsert, PPage, PFill, Only, Still
    <2>2. QED
      BY <2>1 DEF PQuiet, OnDisplay
  <1>6. QED
    BY <1>1, <1>2, <1>3, <1>4, <1>5, TypesHold, JoinedHolds, PTL DEF Spec

-----------------------------------------------------------------------------
(* How a job comes to its end.  The provers do not look into ENABLED: that *)
(* the guard of a fair step is all it needs is taken as a hypothesis,      *)
(* StepsCanRun, which TLC finds true in all states of MCServerList.  Nor   *)
(* do they have induction for temporal formulas: its step is JobDescends,  *)
(* its rule the hypothesis JobInduction, which every behaviour satisfies.  *)

NetworkCanRun == Running /\ AllDone => ENABLED <<Network>>_vars
FetchingCanRun == Alive /\ ~AllDone => ENABLED <<Fetching>>_vars
StepsCanRun == NetworkCanRun /\ FetchingCanRun

\* The steps that the threads have still to take.
Behind(state) ==
  CASE state = "begin" -> {1, 2, 3} [] state = "asked" -> {1, 2} [] state = "insert" -> {1}
    [] OTHER -> {}
Steps == (Nat \ {0}) \X {1, 2, 3}
StepsLeft == {x \in Steps : x[1] \in DOMAIN threads /\ x[2] \in Behind(threads[x[1]].at)}

\* The list is still to be read.
Unread == IF listed THEN 0 ELSE 1

JobLiveInv == Types /\ Joined /\ FlagIsJob

\* Job j has u lists to read, then n elements to go through, and its threads the
\* steps in left before them.
JobAt(j, u, n, left) ==
  getting[j] /\ Unread = u /\ Len(todo) = n /\ StepsLeft = left /\ IsFiniteSet(left)

\* What is before it grows less, in this order.
Closer(j, u, n, left) ==
  \/ \E v \in {0, 1}, m \in Nat, l \in SUBSET Steps :
       (v < u \/ (v = u /\ m < n)) /\ JobAt(j, v, m, l)
  \/ \E l \in SUBSET left : l # left /\ JobAt(j, u, n, l)

JobDescent(j, u, n, left) == JobAt(j, u, n, left) ~> ~getting[j] \/ Closer(j, u, n, left)

\* There are finitely many.
LEMMA StepsFinite == Types => IsFiniteSet(StepsLeft) /\ StepsLeft \in SUBSET Steps
  <1> SUFFICES ASSUME Types PROVE IsFiniteSet(StepsLeft) /\ StepsLeft \in SUBSET Steps
    OBVIOUS
  <1> DEFINE a == 1 .. Len(threads)
             b == 1 .. 3
  <1>1. DOMAIN threads = a /\ Len(threads) \in Nat
    BY LenProperties DEF Types, WorkTypes
  <1>2. ASSUME NEW m \in Nat PROVE IsFiniteSet(1 .. m)
    BY FS_Interval
  <1>3. IsFiniteSet(a) /\ IsFiniteSet(b)
    BY <1>1, <1>2
  <1>4. StepsLeft \subseteq a \X b
    BY <1>1 DEF StepsLeft, Steps
  <1> HIDE DEF a, b
  <1>5. IsFiniteSet(a \X b)
    BY <1>3, FS_Product
  <1>6. IsFiniteSet(StepsLeft)
    BY <1>4, <1>5, FS_Subset
  <1>7. QED
    BY <1>6 DEF StepsLeft

\* A thread leaves a step behind, and the others theirs.
LEMMA FetcherLeaves ==
  ASSUME Types, NEW i \in DOMAIN threads, Fetcher(i)
  PROVE  StepsLeft' \in SUBSET StepsLeft /\ StepsLeft' # StepsLeft
  <1>1. threads \in Seq(Thread) /\ DOMAIN threads = 1 .. Len(threads) /\ Len(threads) \in Nat
    BY LenProperties DEF Types, WorkTypes
  <1> DEFINE b == threads[i].at
  <1>2. PICK a \in {"asked", "insert", "done"} :
          /\ threads' = [threads EXCEPT ![i].at = a]
          /\ \/ b = "begin" /\ a \in {"asked", "done"}
             \/ b = "asked" /\ a \in {"insert", "done"}
             \/ b = "insert" /\ a = "done"
    <2>1. CASE Ask(i)
      <3>1. b = "begin" /\ \E a \in {"asked", "done"} : threads' = [threads EXCEPT ![i].at = a]
        BY <2>1 DEF Ask
      <3>2. QED
        BY <3>1
    <2>2. CASE Answer(i)
      <3>1. b = "asked" /\ \E a \in {"insert", "done"} : threads' = [threads EXCEPT ![i].at = a]
        BY <2>2, AnswerIs
      <3>2. QED
        BY <3>1
    <2>3. CASE InsertFetched(i)
      <3>1. b = "insert" /\ threads' = [threads EXCEPT ![i].at = "done"]
        BY <2>3 DEF InsertFetched
      <3>2. QED
        BY <3>1
    <2>4. QED
      BY <2>1, <2>2, <2>3 DEF Fetcher
  <1>3. Behind(a) \subseteq Behind(b) /\ \E k \in {1, 2, 3} : k \in Behind(b) /\ k \notin Behind(a)
    <2>1. /\ Behind("begin") = {1, 2, 3} /\ Behind("asked") = {1, 2}
          /\ Behind("insert") = {1} /\ Behind("done") = {}
      BY DEF Behind
    <2> HIDE DEF b
    <2>2. CASE b = "begin" /\ a \in {"asked", "done"}
      BY <2>1, <2>2
    <2>3. CASE b = "asked" /\ a \in {"insert", "done"}
      BY <2>1, <2>3
    <2>4. CASE b = "insert" /\ a = "done"
      BY <2>1, <2>4
    <2>5. QED
      BY <1>2, <2>2, <2>3, <2>4
  <1>4. /\ DOMAIN threads' = DOMAIN threads /\ threads'[i].at = a
        /\ \A j \in DOMAIN threads : j # i => threads'[j] = threads[j]
    BY <1>1, <1>2, ThreadMoves
  <1>5. StepsLeft' # StepsLeft
    <2>1. PICK k \in {1, 2, 3} : k \in Behind(b) /\ k \notin Behind(a)
      BY <1>3
    <2>2. <<i, k>> \in StepsLeft /\ <<i, k>> \notin StepsLeft'
      BY <1>1, <1>4, <2>1 DEF StepsLeft, Steps
    <2>3. QED
      BY <2>2
  <1>6. \A j \in DOMAIN threads : Behind(threads'[j].at) \subseteq Behind(threads[j].at)
    BY <1>3, <1>4
  <1>7. StepsLeft' \in SUBSET StepsLeft
    BY <1>4, <1>6 DEF StepsLeft
  <1>8. QED
    BY <1>5, <1>7

LEMMA StepsStayFinite == Types' => (IsFiniteSet(StepsLeft) /\ StepsLeft \in SUBSET Steps)'
  BY StepsFinite, PTL

LEMMA JobLiveHolds == Spec => []JobLiveInv
  BY TypesHold, JoinedHolds, PTL DEF JobLiveInv

\* Both kinds of threads bring a job closer to its end, nothing takes it back.
LEMMA JobMoves ==
  ASSUME JobLiveInv, JobLiveInv', NEW j \in Job, NEW u \in {0, 1}, NEW n \in Nat, NEW left,
         JobAt(j, u, n, left)
  PROVE  /\ Network => ~getting'[j] \/ Closer(j, u, n, left)'
         /\ Fetching => Closer(j, u, n, left)'
         /\ [Next]_vars => JobAt(j, u, n, left)' \/ ~getting'[j] \/ Closer(j, u, n, left)'
  <1>1. /\ Types /\ FlagIsJob /\ net = j /\ net # "idle" /\ net # "terminated" /\ getting[j]
        /\ todo \in Seq(Server \union {Bad}) /\ getting \in [Job -> BOOLEAN]
        /\ listed \in BOOLEAN
    BY DEF JobLiveInv, Types, WorkTypes, FlagTypes, FlagIsJob, JobAt, Job
  <1>s. IsFiniteSet(StepsLeft') /\ StepsLeft' \in SUBSET Steps
    BY StepsStayFinite DEF JobLiveInv
  <1>2. ASSUME Network PROVE ~getting'[j] \/ Closer(j, u, n, left)'
    <2>1. CASE getting' = [getting EXCEPT ![net] = FALSE]
      BY <1>1, <2>1
    <2>2. CASE getting' = getting /\ ~listed /\ listed'
      <3>1. todo' \in Seq(Server \union {Bad})
        BY DEF JobLiveInv, Types, WorkTypes
      <3>2. PICK m \in Nat, l \in SUBSET Steps : m = Len(todo') /\ l = StepsLeft'
        BY <1>s, <3>1
      <3>3. JobAt(j, 0, m, l)' /\ 0 < u
        BY <1>1, <1>s, <2>2, <3>2 DEF JobAt, Unread
      <3>4. QED
        BY <3>3 DEF Closer
    <2>3. CASE getting' = getting /\ listed /\ listed' /\ todo # <<>> /\ todo' \in {<<>>, Tail(todo)}
      <3>1. Len(todo') \in Nat /\ Len(todo') < Len(todo)
        BY <1>1, <2>3
      <3>2. PICK m \in Nat, l \in SUBSET Steps : m = Len(todo') /\ l = StepsLeft'
        BY <1>s, <3>1
      <3>3. JobAt(j, u, m, l)'
        BY <1>1, <1>s, <2>3, <3>2 DEF JobAt, Unread
      <3>4. m < n
        BY <3>1, <3>2 DEF JobAt
      <3>5. QED
        BY <3>3, <3>4 DEF Closer
    <2>4. QED
      BY <1>1, <1>2, <2>1, <2>2, <2>3, NetworkMoves
  <1>3. ASSUME Fetching PROVE Closer(j, u, n, left)'
    <2>1. UNCHANGED <<getting, net, listed, todo>>
      BY <1>3, FetchingLeaves
    <2>2. StepsLeft' \in SUBSET left /\ StepsLeft' # left
      BY <1>1, <1>3, FetcherLeaves DEF Fetching, JobAt
    <2>3. QED
      BY <1>s, <2>1, <2>2 DEF Closer, JobAt, Unread
  <1>4. ASSUME [Next]_vars PROVE JobAt(j, u, n, left)' \/ ~getting'[j] \/ Closer(j, u, n, left)'
    <2>1. CASE UNCHANGED <<getting, net, listed, todo, index, threads>>
      BY <2>1 DEF JobAt, StepsLeft, Unread
    <2>2. QED
      BY <1>2, <1>3, <1>4, <2>1, JobLeftAlone
  <1>5. QED
    BY <1>2, <1>3, <1>4

\* A job reads its list, starts the next thread, and its threads go on, until it
\* is over.
THEOREM JobDescends ==
  FairSpec /\ []StepsCanRun =>
    \A j \in Job, u \in {0, 1}, n \in Nat, left \in SUBSET Steps : JobDescent(j, u, n, left)
  <1> SUFFICES ASSUME NEW j \in Job, NEW u \in {0, 1}, NEW n \in Nat, NEW left \in SUBSET Steps
               PROVE  FairSpec /\ []StepsCanRun => JobDescent(j, u, n, left)
    OBVIOUS
  <1> DEFINE At == JobAt(j, u, n, left)
             Further == ~getting[j] \/ Closer(j, u, n, left)
  <1>1. JobLiveInv /\ JobLiveInv' /\ At /\ [Next]_vars => At' \/ Further'
    <2> SUFFICES ASSUME JobLiveInv, JobLiveInv', At, [Next]_vars PROVE At' \/ Further'
      OBVIOUS
    <2>1. JobAt(j, u, n, left)' \/ ~getting'[j] \/ Closer(j, u, n, left)'
      BY JobMoves
    <2>2. QED
      BY <2>1
  <1>j. JobLiveInv /\ At => net = j /\ threads \in Seq(Thread)
    BY DEF JobLiveInv, FlagIsJob, JobAt, Types, WorkTypes
  <1>2. CASE left = {}
    <2>1. JobLiveInv /\ JobLiveInv' /\ At /\ <<Network>>_vars => Further'
      BY JobMoves
    <2>2. JobLiveInv /\ At /\ StepsCanRun => ENABLED <<Network>>_vars
      <3> SUFFICES ASSUME JobLiveInv, At PROVE Running /\ AllDone
        BY DEF StepsCanRun, NetworkCanRun
      <3>1. Running
        BY <1>j DEF Running
      <3>2. ASSUME NEW i \in DOMAIN threads PROVE threads[i].at = "done"
        <4>1. i \in Nat \ {0} /\ threads[i] \in Thread
          BY <1>j, LenProperties
        <4>2. <<i, 1>> \in Steps /\ <<i, 1>> \notin StepsLeft
          BY <1>2, <4>1 DEF JobAt, Steps
        <4>3. 1 \notin Behind(threads[i].at)
          BY <4>2 DEF StepsLeft
        <4>4. threads[i].at \in {"begin", "asked", "insert", "done"}
          BY <4>1 DEF Thread
        <4>5. QED
          BY <4>3, <4>4 DEF Behind
      <3>3. QED
        BY <3>1, <3>2 DEF AllDone
    <2> HIDE DEF At, Further
    <2>4. FairSpec /\ []StepsCanRun => (At ~> Further)
      BY <1>1, <2>1, <2>2, JobLiveHolds, PTL DEF FairSpec, Spec, Fairness
    <2>5. QED
      BY <2>4 DEF JobDescent, At, Further
  <1>3. CASE left # {}
    <2>1. JobLiveInv /\ At /\ StepsCanRun => ENABLED <<Fetching>>_vars
      <3> SUFFICES ASSUME JobLiveInv, At PROVE Alive /\ ~AllDone
        BY DEF StepsCanRun, FetchingCanRun
      <3>1. Alive
        BY <1>j DEF Alive, Job
      <3>2. PICK x \in left : TRUE
        BY <1>3
      <3>3. x[1] \in DOMAIN threads /\ x[2] \in Behind(threads[x[1]].at)
        BY <3>2 DEF JobAt, StepsLeft
      <3>4. threads[x[1]].at # "done"
        BY <3>3 DEF Behind
      <3>5. QED
        BY <3>1, <3>3, <3>4 DEF AllDone
    <2>2. JobLiveInv /\ JobLiveInv' /\ At /\ <<Fetching>>_vars => Further'
      BY JobMoves
    <2> HIDE DEF At, Further
    <2>3. FairSpec /\ []StepsCanRun => (At ~> Further)
      BY <1>1, <2>1, <2>2, JobLiveHolds, PTL DEF FairSpec, Spec, Fairness
    <2>4. QED
      BY <2>3 DEF JobDescent, At, Further
  <1>4. QED
    BY <1>2, <1>3

\* The rule of induction for ~>, over the lists, the elements and the steps left,
\* of which there are finitely many.
JobInduction(j) ==
  (\A u \in {0, 1}, n \in Nat, left \in SUBSET Steps : JobDescent(j, u, n, left)) =>
    ((\E u \in {0, 1}, n \in Nat, left \in SUBSET Steps : JobAt(j, u, n, left)) ~> ~getting[j])

\* A job that has begun ends, whether or not the master server and the servers
\* answer (JobIsOver).
THEOREM EachJobEnds ==
  FairSpec /\ []StepsCanRun /\ (\A j \in Job : JobInduction(j)) => JobIsOver
  <1> SUFFICES ASSUME NEW j \in Job
               PROVE  FairSpec /\ []StepsCanRun /\ JobInduction(j) => (getting[j] ~> ~getting[j])
    BY DEF JobIsOver
  <1> DEFINE Measured ==
               \E u \in {0, 1}, n \in Nat, left \in SUBSET Steps : JobAt(j, u, n, left)
             All == \A u \in {0, 1}, n \in Nat, left \in SUBSET Steps : JobDescent(j, u, n, left)
             Is == getting[j]
  <1>1. ASSUME JobLiveInv, Is PROVE Measured
    <2>1. todo \in Seq(Server \union {Bad}) /\ IsFiniteSet(StepsLeft) /\ StepsLeft \in SUBSET Steps
      BY <1>1, StepsFinite DEF JobLiveInv, Types, WorkTypes
    <2>2. Len(todo) \in Nat /\ Unread \in {0, 1}
      BY <2>1 DEF Unread
    <2>3. QED
      BY <1>1, <2>1, <2>2 DEF JobAt
  <1>2. FairSpec /\ []StepsCanRun => All
    BY JobDescends
  <1>3. JobInduction(j) => (All => (Measured ~> ~Is))
    BY DEF JobInduction
  <1> HIDE DEF Measured, All, Is
  <1>4. FairSpec /\ []StepsCanRun /\ JobInduction(j) => (Is ~> ~Is)
    BY <1>1, <1>2, <1>3, JobLiveHolds, PTL DEF FairSpec
  <1>5. QED
    BY <1>4 DEF Is
=============================================================================

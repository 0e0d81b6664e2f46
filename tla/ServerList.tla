----------------------------- MODULE ServerList -----------------------------
(***************************************************************************)
(* component/server_list.cpp: the server browser.  A refresh on the game's *)
(* main thread empties the list and gives a job to the scheduler's network *)
(* thread; the job reads the master server's list, or the file of the      *)
(* favourites, and starts one thread per element, each of which asks its   *)
(* server and adds the answer to the pages and, on the first page, to the  *)
(* list on display.  Meanwhile the main thread sorts, turns pages, changes *)
(* the favourites and refreshes again, often in two steps with a scheduled *)
(* task in between.                                                        *)
(*                                                                         *)
(* A server is its connect_address; an address may be listed twice.  The   *)
(* comparison that a sort uses is left out, so a sorted list keeps its     *)
(* order; what it does to the lists is not.                                *)
(***************************************************************************)
EXTENDS Integers, Sequences, FiniteSets, SequencesExt

CONSTANTS
  Server,   \* the addresses
  Local,    \* localhost:27017, asked before the master server's list
  Bad,      \* an element of the master server's list that is no string
  Lists,    \* the lists that the master server may answer with
  Kept,     \* the favourites that the file holds at first
  Limit,    \* server_limit_per_page
  MaxOps    \* bound: how often the user acts

Job == {"list", "favourites"}

ASSUME LimitAssumption == Limit \in Nat \ {0}
ASSUME LocalAssumption == Local \in Server
ASSUME ListsAssumption ==
  Bad \notin Server /\ Lists \subseteq Seq(Server \union {Bad}) /\ Kept \in Seq(Server)
ASSUME MaxOpsAssumption == MaxOps \in Nat

VARIABLES
  favourites,  \* the file players2/favourites.json
  servers,     \* the list on display, guarded by mutex
  pages,       \* the servers of each page
  current,     \* current_page
  getting,     \* getting[j]: getting_server_list, getting_favourites
  interrupt,   \* interrupt[j]: interrupt_server_list, interrupt_favourites
  loading,     \* is_loading_page
  jobs,        \* the jobs scheduled on the network pipeline
  net,         \* the job the network thread is in, "idle", or "terminated"
  listed,      \* that job has its list and is in the loop over the elements
  todo,        \* the elements that it has not started a thread for
  index,       \* *server_index of that job
  threads,     \* its threads: the server to ask and how far each is; before
               \* the loop, the question to localhost
  main,        \* what the main thread is in the middle of
  batch,       \* the servers it has still to insert
  tasks,       \* the tasks scheduled on the main pipeline
  ops,         \* how often the user acted
  overlapped,  \* history: the user acted while something was under way
  crossed,     \* history: the lists were emptied with a job under way, or a
               \* server was deleted from them
  twice,       \* history: a page was opened while another was loading
  found        \* history: how often each server was found since the lists
               \* were emptied

display == <<servers, pages, current>>
flags == <<getting, interrupt, loading>>
work == <<jobs, net, listed, todo, index, threads>>
frame == <<main, batch, tasks>>
history == <<ops, overlapped, crossed, twice, found>>
vars == <<favourites, display, flags, work, frame, history>>

Busy == getting["list"] \/ getting["favourites"] \/ loading

\* A thread holds server_list_mutex; all threads can be joined.
Inserting == \E i \in DOMAIN threads : threads[i].at = "insert"

AllDone == \A i \in DOMAIN threads : threads[i].at = "done"

\* std::terminate has not ended the process.
Alive == net # "terminated"

\* Nothing is scheduled or running.
Quiet == net = "idle" /\ jobs = <<>> /\ tasks = <<>> /\ main = "idle"

Init ==
  /\ favourites = Kept
  /\ servers = <<>> /\ pages = <<>> /\ current = 0
  /\ getting = [j \in Job |-> FALSE]
  /\ interrupt = [j \in Job |-> FALSE]
  /\ loading = FALSE
  /\ jobs = <<>> /\ net = "idle" /\ listed = FALSE /\ todo = <<>> /\ index = 0
  /\ threads = <<>>
  /\ main = "idle" /\ batch = <<>> /\ tasks = <<>>
  /\ ops = 0 /\ overlapped = FALSE /\ crossed = FALSE /\ twice = FALSE
  /\ found = [s \in Server |-> 0]

-----------------------------------------------------------------------------
(* The lists.                                                              *)

\* The places of the servers on the pages.
Slots == UNION {{<<k, i>> : i \in DOMAIN pages[k]} : k \in DOMAIN pages}

\* get_server_count, get_total_pages.
ServerCount == Cardinality(Slots)

TotalPages == (ServerCount + Limit - 1) \div Limit

\* add_server_to_page with PageData::add_server: page k, counted from 0, is
\* made if it is not there, and a full page drops the server.
WithServer(s, k) ==
  LET grown == [i \in 1 .. (IF k < Len(pages) THEN Len(pages) ELSE k + 1) |->
                  IF i <= Len(pages) THEN pages[i] ELSE <<>>]
  IN  IF Len(grown[k + 1]) >= Limit THEN grown
      ELSE [grown EXCEPT ![k + 1] = Append(@, s)]

\* insert_server reads the size before it takes the lock ...
Room == Len(servers) < Limit

\* Mutant: no duplicate handling.
InsertAnyway(s) == servers' = Append(servers, s)

\* ... and under the lock appends a server that is not there yet.
Insert(s) ==
  servers' = IF s \in ToSet(servers) THEN servers ELSE Append(servers, s)

-----------------------------------------------------------------------------
(* What the user does, on the main thread.                                 *)

Act(kind) ==
  /\ Alive /\ main = "idle" /\ ops < MaxOps
  /\ ops' = ops + 1
  /\ overlapped' = (overlapped \/ (kind \notin {"join", "add"} /\ ~Quiet))

\* refresh_server_list: the flags are looked at ...
RefreshUnless(busy) ==
  /\ ~busy
  /\ Act("refresh")
  /\ main' = "refresh"
  /\ UNCHANGED <<favourites, display, flags, work, batch, tasks, crossed, twice, found>>

\* Mutant: a page being loaded does not hold a refresh back.
RefreshWhileLoading == RefreshUnless(getting["list"] \/ getting["favourites"])

Refresh == RefreshUnless(Busy)

ClearTo(source, shown) ==
  /\ Alive /\ main = "refresh" /\ main' = "idle"
  /\ servers' = shown /\ pages' = <<>> /\ current' = 0
  /\ interrupt' = [j \in Job |-> source \in Job \ {j} /\ getting[j]]
  /\ jobs' = IF source \in Job /\ ~getting[source] THEN Append(jobs, source) ELSE jobs
  /\ crossed' = (jobs # <<>> \/ net # "idle")
  /\ found' = [s \in Server |-> 0]
  /\ UNCHANGED <<favourites, getting, loading, net, listed, todo, index, threads, batch,
                 tasks, ops, overlapped, twice>>

\* Mutant: the pages are emptied and the display is not.
ClearKeepingDisplay(source) == ClearTo(source, servers)

\* ... then the lists are emptied, and by ui_netSource one of
\* populate_server_list_threaded and parse_favourites_tcp_threaded schedules
\* its job and interrupts the other, or neither is called.
Clear(source) == ClearTo(source, <<>>)

\* load_page(k): the page is shown by a task 125 ms later.
LoadPageIf(there, k) ==
  /\ loading' = (loading \/ there)
  /\ IF k \in 0 .. Len(pages) - 1
     THEN /\ servers' = <<>>
          /\ tasks' = Append(tasks, [do |-> "page", page |-> k])
          /\ current' = k
          /\ twice' = (twice \/ loading)
     ELSE UNCHANGED <<servers, tasks, twice>>

\* Mutant: is_loading_page is set before the page number is checked.
LoadPageUnchecked(k) == LoadPageIf(TRUE, k)

LoadPage(k) == LoadPageIf(k \in 0 .. Len(pages) - 1, k)

\* serverlist.loadpage of the Lua interface, with no look at the flags.
OpenPage(k) ==
  /\ Act("page")
  /\ LoadPage(k)
  /\ k \notin 0 .. Len(pages) - 1 => current' = current
  /\ UNCHANGED <<favourites, pages, getting, interrupt, work, main, batch, crossed, found>>

\* next_page, previous_page; when load_page finds no page current_page stays
\* where the step has put it.
TurnPage(step) ==
  LET k == current + step
      to == CASE step = -1 /\ k < 0 -> TotalPages - 1
              [] step = 1 /\ k >= TotalPages -> 0
              [] OTHER -> k
  IN  /\ ~Busy
      /\ Act("page")
      /\ LoadPage(to)
      /\ to \notin 0 .. Len(pages) - 1 => current' = k
      /\ UNCHANGED <<favourites, pages, getting, interrupt, work, main, batch, crossed, found>>

\* sort_current_page: the list is copied and emptied; a task 125 ms later
\* inserts the sorted copy.  rest are the tasks that stay.
SortInto(rest) ==
  /\ servers' = <<>>
  /\ tasks' = Append(rest, [do |-> "insert", list |-> servers])

Sort ==
  /\ ~Busy
  /\ Act("sort")
  /\ SortInto(tasks)
  /\ UNCHANGED <<favourites, pages, current, flags, work, main, batch, crossed, twice, found>>

\* join_server_new finds that the server can be joined: stop the job.
Join ==
  /\ servers # <<>>
  /\ Act("join")
  /\ interrupt' = [j \in Job |-> TRUE]
  /\ UNCHANGED <<favourites, display, getting, loading, work, frame, crossed, twice, found>>

\* The entry i of the page that current_page names.
OnPage(i) == current \in 0 .. Len(pages) - 1 /\ i \in DOMAIN pages[current + 1]

\* add_favourite(i).  The file is an array, in which find finds nothing: an
\* address that is there is added again.
AddFavourite(i) ==
  /\ OnPage(i)
  /\ Act("add")
  /\ favourites' = Append(favourites, pages[current + 1][i])
  /\ UNCHANGED <<display, flags, work, frame, crossed, twice, found>>

\* The entries that remove_if keeps when entry i is deleted.  Its lambda looks
\* the address up in place i, so as soon as an entry has been moved there the
\* ones with the address of that entry go.
KeptEntries(page, i) ==
  LET others == {p \in DOMAIN page : page[p] # page[i]}
      moved == {p \in others : Cardinality({q \in others : q <= p}) = i}
  IN  {p \in others : \A q \in moved : p <= q}
        \union {p \in DOMAIN page : \E q \in moved : p > q /\ page[p] # page[q]}

\* delete_favourite(i): out of the file, once, and out of the page; then
\* refresh_server_list looks at its flags.
DeleteFavourite(i) ==
  /\ OnPage(i)
  /\ Act("delete")
  /\ LET page == pages[current + 1]
         kept == KeptEntries(page, i)
     IN  /\ \/ page[i] \notin ToSet(favourites) /\ UNCHANGED favourites
            \/ \E p \in DOMAIN favourites :
                 /\ favourites[p] = page[i] /\ \A q \in 1 .. p - 1 : favourites[q] # page[i]
                 /\ favourites' = RemoveAt(favourites, p)
         /\ \E at \in [1 .. Cardinality(kept) -> kept] :
              /\ \A m, n \in DOMAIN at : m < n => at[m] < at[n]
              /\ pages' = [pages EXCEPT ![current + 1] = [n \in DOMAIN at |-> page[at[n]]]]
  /\ main' = IF Busy THEN "idle" ELSE "refresh"
  /\ crossed' = TRUE
  /\ UNCHANGED <<servers, current, flags, work, batch, tasks, twice, found>>

-----------------------------------------------------------------------------
(* The tasks of the main pipeline.  All but the first sort are delayed, so *)
(* any of them may be next.                                                *)

Take(i, do) ==
  /\ Alive /\ main = "idle" /\ i \in DOMAIN tasks /\ tasks[i].do = do

\* The sort after a job or a page load; after a page load the flags count.
AutoSort(i, do) ==
  /\ Take(i, do)
  /\ loading' = IF do = "loaded" THEN FALSE ELSE loading
  /\ IF do = "loaded" /\ (getting["list"] \/ getting["favourites"])
     THEN tasks' = RemoveAt(tasks, i) /\ servers' = servers
     ELSE SortInto(RemoveAt(tasks, i))
  /\ UNCHANGED <<favourites, pages, current, getting, interrupt, work, main, batch, history>>

\* The task of a sort, and that of a page load, insert servers one by one.
StartInsert(i) ==
  /\ Take(i, "insert")
  /\ main' = "check" /\ batch' = tasks[i].list
  /\ tasks' = RemoveAt(tasks, i)
  /\ UNCHANGED <<favourites, display, flags, work, history>>

ShowPage(i) ==
  /\ Take(i, "page")
  /\ tasks[i].page < Len(pages)
  /\ main' = "check" /\ batch' = pages[tasks[i].page + 1]
  /\ tasks' = Append(RemoveAt(tasks, i), [do |-> "loaded"])
  /\ UNCHANGED <<favourites, display, flags, work, history>>

CheckRoomUntil(over) ==
  /\ Alive /\ main = "check"
  /\ IF over THEN main' = "idle" /\ batch' = batch
     ELSE IF Room THEN main' = "insert" /\ batch' = batch
     ELSE main' = "check" /\ batch' = Tail(batch)
  /\ UNCHANGED <<favourites, display, flags, work, tasks, history>>

\* Mutant: the loop goes on past the last server.
CheckRoomPastTheEnd == CheckRoomUntil(FALSE)

CheckRoom == CheckRoomUntil(batch = <<>>)

InsertNext ==
  /\ Alive /\ main = "insert"
  /\ Insert(Head(batch))
  /\ batch' = Tail(batch) /\ main' = "check"
  /\ UNCHANGED <<favourites, pages, current, flags, work, tasks, history>>

-----------------------------------------------------------------------------
(* The network thread and the threads it starts.                           *)

\* The scheduled job begins; the job for the list asks localhost first, which
\* may not answer.
StartJob ==
  /\ net = "idle" /\ jobs # <<>>
  /\ net' = Head(jobs) /\ jobs' = Tail(jobs)
  /\ getting' = [getting EXCEPT ![Head(jobs)] = TRUE]
  /\ index' = 0
  /\ \/ threads' = <<>>
     \/ Head(jobs) = "list" /\ threads' = <<[to |-> Local, at |-> "asked"]>>
  /\ UNCHANGED <<favourites, display, interrupt, loading, listed, todo, frame, history>>

Running == net \in Job

\* localhost is dealt with, and the loop over what the master server has
\* answered, or the file holds, begins.
ReadList ==
  /\ Running /\ ~listed /\ AllDone
  /\ listed' = TRUE /\ threads' = <<>>
  /\ todo' \in IF net = "list" THEN Lists ELSE {favourites}
  /\ UNCHANGED <<favourites, display, flags, jobs, net, index, frame, history>>

\* The master server does not answer or answers no list, or the file cannot be
\* read.
JobFailsTo(flag) ==
  /\ Running /\ ~listed /\ AllDone
  /\ net' = "idle" /\ threads' = <<>>
  /\ getting' = [getting EXCEPT ![net] = flag]
  /\ interrupt' = [interrupt EXCEPT !["favourites"] = @ /\ net = "list"]
  /\ UNCHANGED <<favourites, display, loading, jobs, listed, todo, index, frame, history>>

\* Mutant: the flag is left set when the master server does not answer.
JobFailsStillGetting == JobFailsTo(TRUE)

JobFails == JobFailsTo(FALSE)

\* The loop comes to an address: it starts a thread, or is interrupted.
Launch ==
  /\ Running /\ listed /\ todo # <<>> /\ Head(todo) \in Server
  /\ IF interrupt[net] THEN todo' = <<>> /\ threads' = threads
     ELSE /\ todo' = Tail(todo)
          /\ threads' = Append(threads, [to |-> Head(todo), at |-> "begin"])
  /\ UNCHANGED <<favourites, display, flags, jobs, net, listed, index, frame, history>>

\* get<std::string>() throws at an element that is no string: the job gives up
\* and destroys its threads, which must not be joinable then.
GiveUp ==
  /\ Running /\ listed /\ todo # <<>> /\ Head(todo) = Bad
  /\ net' = IF threads = <<>> THEN "idle" ELSE "terminated"
  /\ listed' = FALSE /\ todo' = <<>>
  /\ getting' = [getting EXCEPT ![net] = FALSE]
  /\ UNCHANGED <<favourites, display, interrupt, loading, jobs, index, threads, frame, history>>

\* fetch_game_server_info: a thread that finds either flag set gives up;
\* otherwise it waits for its server, which may not answer.
Ask(i) ==
  /\ Alive /\ threads[i].at = "begin"
  /\ \E a \in IF interrupt["list"] \/ interrupt["favourites"]
              THEN {"done"} ELSE {"asked", "done"} :
       threads' = [threads EXCEPT ![i].at = a]
  /\ UNCHANGED <<favourites, display, flags, jobs, net, listed, todo, index, frame, history>>

\* add_server_to_list under server_list_mutex: the number is taken before
\* the filters are looked at, and the first page goes to the display.
AnswerNumbered(i, next) ==
  /\ Alive /\ threads[i].at = "asked" /\ ~Inserting
  /\ index' = next
  /\ \E fits \in BOOLEAN :
       LET s == threads[i].to
           k == index \div Limit
       IN  /\ pages' = IF fits THEN WithServer(s, k) ELSE pages
           /\ threads' = [threads EXCEPT ![i].at = IF fits /\ k = 0 /\ Room
                                                  THEN "insert" ELSE "done"]
           /\ found' = IF fits THEN [found EXCEPT ![s] = @ + 1] ELSE found
  /\ UNCHANGED <<favourites, servers, current, flags, jobs, net, listed, todo, frame, ops,
                 overlapped, crossed, twice>>

\* Mutant: the number is not counted up.
AnswerUncounted(i) == AnswerNumbered(i, index)

Answer(i) == AnswerNumbered(i, index + 1)

InsertFetched(i) ==
  /\ Alive /\ threads[i].at = "insert"
  /\ Insert(threads[i].to)
  /\ threads' = [threads EXCEPT ![i].at = "done"]
  /\ UNCHANGED <<favourites, pages, current, flags, jobs, net, listed, todo, index, frame,
                 history>>

\* All threads are joined; load_page(0, false), the flags, and the sort that
\* follows the job.
JobEnds ==
  /\ Running /\ listed /\ todo = <<>> /\ AllDone
  /\ current' = IF pages = <<>> THEN current ELSE 0
  /\ interrupt' = [interrupt EXCEPT ![net] = FALSE]
  /\ getting' = [getting EXCEPT ![net] = FALSE]
  /\ tasks' = Append(tasks, [do |-> "sort"])
  /\ net' = "idle" /\ listed' = FALSE /\ threads' = <<>>
  /\ UNCHANGED <<favourites, servers, pages, loading, jobs, todo, index, main, batch, history>>

-----------------------------------------------------------------------------

User ==
  \/ Refresh \/ Sort \/ Join
  \/ \E k \in 0 .. 1 : OpenPage(k)
  \/ \E step \in {1, -1} : TurnPage(step)
  \/ \E i \in 1 .. Limit : AddFavourite(i) \/ DeleteFavourite(i)

Main ==
  \/ \E source \in Job \union {"none"} : Clear(source)
  \/ \E i \in DOMAIN tasks :
       \/ AutoSort(i, "sort") \/ AutoSort(i, "loaded")
       \/ StartInsert(i) \/ ShowPage(i)
  \/ CheckRoom \/ InsertNext

Network == StartJob \/ ReadList \/ JobFails \/ Launch \/ GiveUp \/ JobEnds

Fetcher(i) == Ask(i) \/ Answer(i) \/ InsertFetched(i)

Fetching == \E i \in DOMAIN threads : Fetcher(i)

Next == User \/ Main \/ Network \/ Fetching

\* The pipelines are drained and the threads run; a task due on the main
\* pipeline is not put off for ever.  The user need do nothing.
Fairness == WF_vars(Main) /\ WF_vars(Network) /\ WF_vars(Fetching)

Spec == Init /\ [][Next]_vars

FairSpec == Spec /\ Fairness

-----------------------------------------------------------------------------
(* Properties.                                                             *)

TypeOK ==
  /\ favourites \in Seq(Server)
  /\ servers \in Seq(Server)
  /\ pages \in Seq(Seq(Server))
  /\ current \in Int
  /\ getting \in [Job -> BOOLEAN] /\ interrupt \in [Job -> BOOLEAN]
  /\ loading \in BOOLEAN
  /\ jobs \in Seq(Job)
  /\ net \in Job \union {"idle", "terminated"}
  /\ listed \in BOOLEAN /\ (listed => net \in Job) /\ (todo # <<>> => listed)
  /\ todo \in Seq(Server \union {Bad})
  /\ index \in Nat
  /\ threads \in Seq([to : Server, at : {"begin", "asked", "insert", "done"}])
  /\ main \in {"idle", "refresh", "check", "insert"}
  /\ batch \in Seq(Server) /\ (main = "insert" => batch # <<>>)
  /\ \A i \in DOMAIN tasks :
       \/ tasks[i].do = "page" /\ tasks[i].page \in Nat
       \/ tasks[i].do = "insert" /\ tasks[i].list \in Seq(Server)
       \/ tasks[i].do \in {"sort", "loaded"}
  /\ ops \in 0 .. MaxOps
  /\ overlapped \in BOOLEAN /\ crossed \in BOOLEAN /\ twice \in BOOLEAN
  /\ found \in [Server -> Nat]

\* However the threads of a job and the tasks of the main thread interleave,
\* no address is on display twice (server_list.cpp:316).
NoTwins == IsInjective(servers)

\* When all is quiet, and the user has waited for each of his actions to be
\* shown before the next, the display holds exactly the servers of the page
\* that current_page names.
DisplayIsPage ==
  Quiet /\ ~overlapped =>
    ToSet(servers) = IF current + 1 \in DOMAIN pages THEN ToSet(pages[current + 1]) ELSE {}

\* Whatever the order of the answers, and though an address be listed twice,
\* a server is on the pages as often as it was found: the shared counter
\* spreads the answers so that no full page drops one (server_list.cpp:42,
\* 828).  Lists that were emptied while a job was under way are left out: the
\* job adds to what another has numbered anew.
NoneLost ==
  ~crossed =>
    \A s \in Server : Cardinality({x \in Slots : pages[x[1]][x[2]] = s}) = found[s]

\* The page that a task is going to show exists still: is_loading_page holds
\* back the refresh that would empty the pages (server_list.cpp:154, 774).
PageIsThere ==
  \A i \in DOMAIN tasks :
    tasks[i].do = "page" /\ ~twice => tasks[i].page < Len(pages)

\* "Do not exceed the server limit" (server_list.cpp:309).
LimitKept == Len(servers) <= Limit

\* A job that has begun ends and lets the user refresh again, whether or not
\* the master server and the servers answer.
JobIsOver == \A j \in Job : getting[j] ~> ~getting[j]

\* A page that is being loaded is shown in the end, while the process lives.
LoadingIsOver == loading ~> ~loading \/ net = "terminated"
=============================================================================

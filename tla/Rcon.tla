-------------------------------- MODULE Rcon --------------------------------
(***************************************************************************)
(* component/rcon.cpp with console.cpp's dispatch_message: remote commands *)
(* on a dedicated server.  The main thread executes a command and answers  *)
(* with what was printed meanwhile; all threads print, through a redirect  *)
(* that is guarded by a lock of its own, or else to the console.           *)
(***************************************************************************)
EXTENDS Naturals, Sequences, SequencesExt, FiniteSets

CONSTANTS
  Client,       \* the addresses that send requests
  Thread,       \* the threads that print besides the main thread
  Main,         \* the main thread
  None,         \* no request, no client, no line
  MaxRequests,  \* bound: requests sent
  MaxLines      \* bound: lines printed

ASSUME MainAssumption == Main \notin Thread

Printer == Thread \union {Main}

\* A request has no space, or an empty command, or else a password.
Form == {"no space", "no command", "wrong password", "command"}

Request == [id : Nat \ {0}, from : Client, form : Form]

\* A line of output: during is the request the main thread was at, 0 for
\* none, and stray whether it was at none with the redirect still on.
Line == [n : Nat, by : Printer, during : Nat, stray : BOOLEAN]

\* An answer: a fixed text of the handler, or redirected output.
Answer == [to : Client, req : Nat, kind : {"text", "output"}, lines : Seq(Line)]

ASSUME NoneAssumption == None \notin Client \union Request \union Line

VARIABLES
  guarded,      \* rcon_password is set
  inbox,        \* requests under way to the server
  asked,        \* how many were sent
  handling,     \* the request that the handler of "rcon" is at
  at,           \* where the main thread is in it
  redirecting,  \* is_redirecting_
  redirected,   \* has_redirected_
  target,       \* redirect_target_
  buffer,       \* redirect_buffer
  held,         \* per printer: the line it has still to show
  said,         \* history: all lines printed
  shown,        \* history: the lines that the console has shown
  answers       \* history: all answers sent

requests == <<guarded, inbox, asked>>
handler == <<handling, at>>
redirect == <<redirecting, redirected, target, buffer>>
output == <<held, said, shown>>
vars == <<requests, handler, redirect, output, answers>>

Init ==
  /\ guarded \in BOOLEAN /\ inbox = {} /\ asked = 0
  /\ handling = None /\ at = "idle"
  /\ redirecting = FALSE /\ redirected = FALSE /\ target = None /\ buffer = <<>>
  /\ held = [p \in Printer |-> None] /\ said = {} /\ shown = {}
  /\ answers = {}

-----------------------------------------------------------------------------
(* The network, and the server's administrator.                            *)

\* send_rcon_command of a client, or of a tool that sends what it likes.
Send(c, form) ==
  /\ asked < MaxRequests
  /\ asked' = asked + 1
  /\ inbox' = inbox \union {[id |-> asked + 1, from |-> c, form |-> form]}
  /\ UNCHANGED <<guarded, handler, redirect, output, answers>>

\* A datagram may be lost.
Lose(r) ==
  /\ r \in inbox
  /\ inbox' = inbox \ {r}
  /\ UNCHANGED <<guarded, asked, handler, redirect, output, answers>>

\* rcon_password is set or cleared by hand.
SetPassword ==
  /\ at = "idle" /\ held[Main] = None
  /\ guarded' = ~guarded
  /\ UNCHANGED <<inbox, asked, handler, redirect, output, answers>>

-----------------------------------------------------------------------------
(* Printing.                                                               *)

NewLine(p) ==
  [n |-> Cardinality(said) + 1, by |-> p,
   during |-> IF handling = None THEN 0 ELSE handling.id,
   stray |-> redirecting /\ handling = None]

\* Mutant: message_redirect keeps the message for the console too.
DispatchTwice(p) ==
  LET l == NewLine(p) IN
  /\ said' = said \union {l}
  /\ shown' = shown
  /\ held' = [held EXCEPT ![p] = l]
  /\ IF redirecting THEN redirected' = TRUE /\ buffer' = Append(buffer, l)
                    ELSE UNCHANGED <<redirected, buffer>>
  /\ UNCHANGED <<redirecting, target>>

\* dispatch_message up to its first return: message_redirect takes the line
\* under its lock if the redirect is on.
Dispatch(p) ==
  LET l == NewLine(p) IN
  /\ said' = said \union {l}
  /\ shown' = shown
  /\ IF redirecting
     THEN redirected' = TRUE /\ buffer' = Append(buffer, l) /\ held' = held
     ELSE held' = [held EXCEPT ![p] = l] /\ UNCHANGED <<redirected, buffer>>
  /\ UNCHANGED <<redirecting, target>>

\* Any thread prints; the main thread outside the handler of "rcon".
Say(p) ==
  /\ held[p] = None
  /\ Cardinality(said) < MaxLines
  /\ p = Main => at = "idle"
  /\ Dispatch(p)
  /\ UNCHANGED <<requests, handler, answers>>

\* The rest of dispatch_message, under print_mutex.
Show(p) ==
  /\ held[p] # None
  /\ shown' = shown \union {held[p]}
  /\ held' = [held EXCEPT ![p] = None]
  /\ UNCHANGED <<requests, handler, redirect, said, answers>>

-----------------------------------------------------------------------------
(* The handler of "rcon".                                                  *)

Text(c, id) == [to |-> c, req |-> id, kind |-> "text", lines |-> <<>>]
Output(c, id, ls) == [to |-> c, req |-> id, kind |-> "output", lines |-> ls]

Arrives(r) == at = "idle" /\ held[Main] = None /\ r \in inbox /\ inbox' = inbox \ {r}

\* No space: a fixed answer, and a line for the console.
Malformed(r) ==
  /\ Arrives(r) /\ r.form = "no space"
  /\ answers' = answers \union {Text(r.from, r.id)}
  /\ Dispatch(Main)
  /\ UNCHANGED <<guarded, asked, handler>>

\* No command, or no password is set: nothing happens.
Ignore(r) ==
  /\ Arrives(r)
  /\ r.form # "no space"
  /\ r.form = "no command" \/ ~guarded
  /\ UNCHANGED <<guarded, asked, handler, redirect, output, answers>>

StartWith(r, kept) ==
  /\ Arrives(r)
  /\ r.form \in {"wrong password", "command"} /\ guarded
  /\ handling' = r
  /\ redirecting' = TRUE /\ redirected' = FALSE /\ target' = r.from /\ buffer' = kept
  /\ IF r.form = "command"
     THEN at' = "run" /\ UNCHANGED answers
     ELSE at' = "refuse" /\ answers' = answers \union {Text(r.from, r.id)}
  /\ UNCHANGED <<guarded, asked, output>>

\* Mutant: setup_redirect leaves the buffer as it is.
StartKeeping(r) == StartWith(r, buffer)

\* setup_redirect, and the password is compared.
Start(r) == StartWith(r, <<>>)

\* The line about a wrong password.
Refuse ==
  /\ at = "refuse"
  /\ Dispatch(Main)
  /\ at' = "check"
  /\ UNCHANGED <<requests, handling, answers>>

\* The command prints a line, or returns.
RunPrint ==
  /\ at = "run" /\ Cardinality(said) < MaxLines
  /\ Dispatch(Main)
  /\ UNCHANGED <<requests, handler, answers>>

RunReturn ==
  /\ at = "run"
  /\ at' = "check"
  /\ UNCHANGED <<requests, handling, redirect, output, answers>>

EndWith(sent) ==
  /\ at = "check" /\ ~redirected
  /\ answers' = answers \union sent
  /\ handling' = None /\ at' = "idle"
  /\ UNCHANGED <<requests, redirect, output>>

\* Mutant: a command without output is not answered.
EndUnanswered == EndWith({})

\* Nothing was redirected: an empty answer, and the handler returns with the
\* redirect still on.
EndSilent == EndWith({Output(target, handling.id, <<>>)})

\* Something was: on to clear_redirect, which takes the lock again.
GoOn ==
  /\ at = "check" /\ redirected
  /\ at' = "clear"
  /\ UNCHANGED <<requests, handling, redirect, output, answers>>

\* clear_redirect.
ClearRedirect ==
  /\ at = "clear"
  /\ answers' = answers \union {Output(target, handling.id, buffer)}
  /\ redirecting' = FALSE /\ redirected' = FALSE /\ target' = None /\ buffer' = <<>>
  /\ handling' = None /\ at' = "idle"
  /\ UNCHANGED <<requests, output>>

-----------------------------------------------------------------------------

Handler == Refuse \/ RunPrint \/ RunReturn \/ EndSilent \/ GoOn \/ ClearRedirect

Next ==
  \/ \E c \in Client, form \in Form : Send(c, form)
  \/ \E r \in inbox : Lose(r) \/ Malformed(r) \/ Ignore(r) \/ Start(r)
  \/ SetPassword
  \/ \E p \in Printer : Say(p) \/ Show(p)
  \/ Handler

\* The main thread goes on with a request, each command returns, and a
\* thread that is to show a line shows it.
Spec ==
  /\ Init /\ [][Next]_vars
  /\ WF_vars(Refuse) /\ WF_vars(RunReturn) /\ WF_vars(EndSilent)
  /\ WF_vars(GoOn) /\ WF_vars(ClearRedirect)
  /\ \A p \in Printer : WF_vars(Show(p))
-----------------------------------------------------------------------------
(* Properties.                                                             *)

\* The types of the variables (rcon.cpp's globals and the printing threads).
TypeOK ==
  /\ guarded \in BOOLEAN /\ inbox \subseteq Request /\ asked \in Nat
  /\ handling \in Request \union {None}
  /\ at \in {"idle", "refuse", "run", "check", "clear"}
  /\ at = "idle" <=> handling = None
  /\ redirecting \in BOOLEAN /\ redirected \in BOOLEAN
  /\ target \in Client \union {None} /\ buffer \in Seq(Line)
  /\ held \in [Printer -> Line \union {None}]
  /\ said \subseteq Line /\ shown \subseteq said
  /\ answers \subseteq Answer

InOrder(ls) == \A i, j \in DOMAIN ls : i < j => ls[i].n < ls[j].n

\* A request is answered with all that was printed, by whichever thread,
\* while it was handled, in that order, and with nothing else: not with what
\* an earlier command without output has left in redirect_buffer.
AnswerIsOfRequest ==
  \A a \in answers :
    a.kind = "output" =>
      /\ Range(a.lines) = {l \in said : l.during = a.req}
      /\ InOrder(a.lines)

\* Whose a line is: buffered or sent, or else on its way to the console or
\* there.  What is printed after a command without output, whoever prints it,
\* stays in the buffer or is gone: message_redirect swallows it, and no
\* answer takes it along.
Sent == UNION {Range(a.lines) : a \in answers}
Kept == Range(buffer)
OutputGoesOneWay ==
  \A l \in said :
    LET console == l \in shown \/ held[l.by] = l
        remote == l \in Kept \union Sent
    IN /\ ~(console /\ remote)
       /\ l.stray => ~console /\ l \notin Sent
       /\ ~l.stray => console \/ remote

\* Every request that the handler takes up is answered with output, be it
\* empty, to the one who asked, although has_redirected_ is set by all threads.
AnswerComes ==
  \A c \in Client, id \in 1 .. MaxRequests :
    (handling # None /\ handling.id = id /\ handling.from = c) ~>
      (\E a \in answers : a.kind = "output" /\ a.req = id /\ a.to = c)

\* "Finally, send out the buffer we accumulated when we executed the RCon
\* request" (rcon.cpp:40): when the handler is through, the redirect is over.
RedirectEnds == at = "idle" => ~redirecting
=============================================================================

---------------------------- MODULE SingleInstance ----------------------------
(***************************************************************************)
(* The single-instance guard of the standalone widget: the probe loop of   *)
(* main() (standalone/main.cpp) on the newcomer's side, and SingleInstance *)
(* (standalone/single_instance.cpp) on the primary's side.                 *)
(*                                                                         *)
(* Processes share one file name, the socket path.  QLocalServer::listen   *)
(* binds it and fails while the name exists; close() and the destructor    *)
(* unlink the name, whoever it belongs to by then; a killed process leaves *)
(* it behind.  A process whose name was unlinked keeps its listening       *)
(* socket: it runs on, but no later launch can find it.                    *)
(*                                                                         *)
(* The hello of a newcomer is its intent and version; partial lines are    *)
(* abstracted to "the hello has been sent" (both sides read to the '\n').  *)
(***************************************************************************)
EXTENDS Naturals, Sequences

CONSTANTS
    Launches,      \* the processes that may be started, each at most once
    Versions,      \* the builds (RING_MONITOR_VERSION) installed on the machine
    MaxAttempts,   \* passes of the probe loop (5 in the code)
    Worlds,        \* [serial, faults, leftover]: what the surroundings may do
    NoFile,        \* the socket path does not exist
    Leftover,      \* the path is the file of a process killed before the start
    NoPeer         \* not connected yet

ASSUME SingleInstanceAssumption ==
    /\ MaxAttempts \in Nat /\ MaxAttempts >= 2  \* a lost race is probed again
    /\ {NoFile, Leftover, NoPeer} \cap Launches = {}
    /\ NoFile # Leftover
    /\ Worlds \subseteq
         [serial : BOOLEAN, leftover : BOOLEAN,
          faults : SUBSET {"crash", "slow", "listenFails", "loadFails", "quit"}]

VARIABLES
    world,      \* the world of this behaviour, fixed by Init
    pc,         \* where each process stands in main() or in onNewConnection()
    intent,     \* "show" or "open-settings" (the --open-settings flag)
    version,    \* the build each process runs
    attempt,    \* passes of the probe loop each process has begun
    peer,       \* the server a newcomer is (or was last) connected to
    link,       \* what a newcomer can read: nothing yet, a token, end of stream
    sent,       \* newcomers whose hello is in the socket
    backlog,    \* connections a server has not served yet, oldest first
    listening,  \* processes holding an open listening socket (m_server)
    sock        \* what the socket path refers to

vars == <<world, pc, intent, version, attempt, peer, link, sent, backlog,
          listening, sock>>

Intents == {"show", "open-settings"}

Newcomer == {"probe", "hello", "wait", "released",
             "listen", "reprobe", "remove", "relisten"}
Settled  == {"run", "settings", "exited"}
Phase    == Newcomer \cup Settled \cup {"idle", "load", "replied", "closed"}

TypeOK ==
    /\ world \in Worlds
    /\ pc \in [Launches -> Phase]
    /\ intent \in [Launches -> Intents]
    /\ version \in [Launches -> Versions]
    /\ attempt \in [Launches -> 0 .. MaxAttempts]
    /\ peer \in [Launches -> Launches \cup {NoPeer}]
    /\ link \in [Launches -> {"open", "defer", "takeover", "closed"}]
    /\ sent \subseteq Launches
    /\ backlog \in [Launches -> Seq(Launches)]
    /\ listening \subseteq Launches
    /\ sock \in Launches \cup {NoFile, Leftover}

Faulty(f) == f \in world.faults

-----------------------------------------------------------------------------
(***************************************************************************)
(* The newcomer: main(), from the first probe to the QML root.             *)
(***************************************************************************)

Goto(p, l) == pc' = [pc EXCEPT ![p] = l]

Init ==
    /\ world \in Worlds
    /\ pc = [p \in Launches |-> "idle"]
    /\ intent \in [Launches -> Intents]
    /\ version \in [Launches -> Versions]
    /\ attempt = [p \in Launches |-> 0]
    /\ peer = [p \in Launches |-> NoPeer]
    /\ link = [p \in Launches |-> "closed"]
    /\ sent = {}
    /\ backlog = [p \in Launches |-> << >>]
    /\ listening = {}
    /\ sock = IF world.leftover THEN Leftover ELSE NoFile

\* The user (or the session) starts the binary.  In a serial world nothing is
\* started while an earlier launch is still deciding.
Launch(p) ==
    /\ pc[p] = "idle"
    /\ world.serial => \A q \in Launches : pc[q] \in Settled \cup {"idle"}
    /\ Goto(p, "probe")
    /\ UNCHANGED <<world, intent, version, attempt, peer, link, sent, backlog,
                   listening, sock>>

\* connectToServer() reaches whoever listens behind the path, if anyone does.
Connects == sock \in listening

\* After the loop: the widget root, or the recovery editor's.
AfterLoop(p) == IF intent[p] = "show" THEN "load" ELSE "settings"

\* The probe at the top of the loop.  A connection enters the server's backlog;
\* without one an --open-settings process leaves the loop and a widget goes on
\* to claim the socket.
Probe(p) ==
    /\ pc[p] = "probe"
    /\ \/ /\ Connects
          /\ Goto(p, "hello")
          /\ peer' = [peer EXCEPT ![p] = sock]
          /\ link' = [link EXCEPT ![p] = "open"]
          /\ sent' = sent \ {p}
          /\ backlog' = [backlog EXCEPT ![sock] = Append(@, p)]
       \/ /\ ~Connects
          /\ Goto(p, IF intent[p] = "show" THEN "listen" ELSE AfterLoop(p))
          /\ UNCHANGED <<peer, link, sent, backlog>>
    /\ UNCHANGED <<world, intent, version, attempt, listening, sock>>

Hello(p) ==
    /\ pc[p] = "hello"
    /\ Goto(p, "wait")
    /\ sent' = sent \cup {p}
    /\ UNCHANGED <<world, intent, version, attempt, peer, link, backlog,
                   listening, sock>>

\* `continue`: another pass, unless this was the last one.
NextAttempt(p) ==
    /\ attempt' = [attempt EXCEPT ![p] = @ + 1]
    /\ Goto(p, IF attempt[p] + 1 < MaxAttempts THEN "probe" ELSE AfterLoop(p))

\* The reply line is in: only "takeover" keeps the newcomer going.
ReadReply(p) ==
    /\ pc[p] = "wait"
    /\ link[p] # "open"
    /\ Goto(p, IF link[p] = "takeover" THEN "released" ELSE "exited")
    /\ UNCHANGED <<world, intent, version, attempt, peer, link, sent, backlog,
                   listening, sock>>

\* Faulty variant: the wait for the reply ends only with the connection.
ReplyTimeout_Unbounded(p) ==
    /\ pc[p] = "wait" /\ link[p] = "closed" /\ Faulty("slow")
    /\ Goto(p, "exited")
    /\ UNCHANGED <<world, intent, version, attempt, peer, link, sent, backlog,
                   listening, sock>>

\* waitForReadyRead(2000) expires without a reply line: exit.
ReplyTimeout(p) ==
    /\ pc[p] = "wait"
    /\ link[p] = "open"
    /\ Faulty("slow")
    /\ Goto(p, "exited")
    /\ UNCHANGED <<world, intent, version, attempt, peer, link, sent, backlog,
                   listening, sock>>

\* waitForDisconnected(2500) returns once the superseded primary has left its
\* handler, or by expiring; then the loop goes round.
Released(p) ==
    /\ pc[p] = "released"
    /\ pc[peer[p]] \in {"replied", "closed"} => Faulty("slow")
    /\ NextAttempt(p)
    /\ UNCHANGED <<world, intent, version, peer, link, sent, backlog,
                   listening, sock>>

\* QLocalServer::listen(): the name must be free.
Bind(p) ==
    /\ sock = NoFile
    /\ sock' = p
    /\ listening' = listening \cup {p}
    /\ Goto(p, "load")

\* Faulty variant: removeServer() before listen(), as if any file were stale.
TryListen_Blind(p) ==
    /\ pc[p] = "listen"
    /\ sock' = p
    /\ listening' = listening \cup {p}
    /\ Goto(p, "load")
    /\ UNCHANGED <<world, intent, version, attempt, peer, link, sent, backlog>>

\* tryListen(), the first listen().
TryListen(p) ==
    /\ pc[p] = "listen"
    /\ \/ Bind(p)
       \/ /\ sock # NoFile
          /\ Goto(p, "reprobe")
          /\ UNCHANGED <<listening, sock>>
       \/ /\ Faulty("listenFails")
          /\ Goto(p, AfterLoop(p))
          /\ UNCHANGED <<listening, sock>>
    /\ UNCHANGED <<world, intent, version, attempt, peer, link, sent, backlog>>

\* tryListen(), AddressInUse: a live owner means Busy, silence a stale file.
\* The connection is aborted without a hello: the owner, if it gets to it,
\* finds no message there and replies to nobody.
Reprobe(p) ==
    /\ pc[p] = "reprobe"
    /\ \/ Connects /\ NextAttempt(p)
       \/ ~Connects /\ Goto(p, "remove") /\ UNCHANGED attempt
    /\ UNCHANGED <<world, intent, version, peer, link, sent, backlog,
                   listening, sock>>

\* removeServer() unlinks the name, whatever it refers to by now.
RemoveServer(p) ==
    /\ pc[p] = "remove"
    /\ Goto(p, "relisten")
    /\ sock' = NoFile
    /\ UNCHANGED <<world, intent, version, attempt, peer, link, sent, backlog,
                   listening>>

\* tryListen(), the second listen(); Failed runs unguarded.
Relisten(p) ==
    /\ pc[p] = "relisten"
    /\ \/ Bind(p)
       \/ /\ sock # NoFile \/ Faulty("listenFails")
          /\ Goto(p, AfterLoop(p))
          /\ UNCHANGED <<listening, sock>>
    /\ UNCHANGED <<world, intent, version, attempt, peer, link, sent, backlog>>

-----------------------------------------------------------------------------
(***************************************************************************)
(* The running process: loading, serving, handing over, leaving.           *)
(***************************************************************************)

\* The QML root is up and the event loop runs.
Loaded(p) ==
    /\ pc[p] = "load"
    /\ Goto(p, "run")
    /\ UNCHANGED <<world, intent, version, attempt, peer, link, sent, backlog,
                   listening, sock>>

\* Faulty variant: any different build supersedes, an editor's launch too.
Supersedes_AnyIntent(c, p) == c \in sent /\ version[c] # version[p]

\* Faulty variant: the version comparison is inverted.
Supersedes_SameBuild(c, p) ==
    c \in sent /\ intent[c] = "show" /\ version[c] = version[p]

\* Only an announced, different build makes the primary give way.
Supersedes(c, p) ==
    /\ c \in sent
    /\ intent[c] = "show"
    /\ version[c] # version[p]

\* onNewConnection() up to its reply.  A hello that has not come when the read
\* gives up (waitForReadyRead(200)) is an unknown intent.
Serve(p) ==
    /\ pc[p] = "run"
    /\ backlog[p] # << >>
    /\ LET c == Head(backlog[p])
           handover == Supersedes(c, p)
       IN  /\ pc[c] = "hello" => Faulty("slow")
           /\ link' = [link EXCEPT ![c] = IF handover THEN "takeover" ELSE "defer"]
           /\ Goto(p, IF handover THEN "replied" ELSE "run")
    /\ backlog' = [backlog EXCEPT ![p] = Tail(@)]
    /\ UNCHANGED <<world, intent, version, attempt, peer, sent, listening, sock>>

\* Clients a server drops when its listening socket goes: they read end of
\* stream.
Dropped(p) ==
    /\ listening' = listening \ {p}
    /\ link' = [c \in Launches |->
                  IF peer[c] = p /\ link[c] = "open" THEN "closed" ELSE link[c]]
    /\ backlog' = [backlog EXCEPT ![p] = << >>]

\* Faulty variant: the exiting process removes the socket file in any case.
CloseServer_Always(p) == Dropped(p) /\ sock' = NoFile

\* QLocalServer::close(), by hand or from the destructor.
CloseServer(p) ==
    /\ Dropped(p)
    /\ sock' = IF p \in listening THEN NoFile ELSE sock

\* The takeover branch after the reply: quit is posted and the server closed...
Handover(p) ==
    /\ pc[p] = "replied"
    /\ CloseServer(p)
    /\ Goto(p, "closed")
    /\ UNCHANGED <<world, intent, version, attempt, peer, sent>>

\* ... then the client is disconnected, and app.exec() returns.
Leave(p) ==
    /\ pc[p] = "closed"
    /\ Goto(p, "exited")
    /\ UNCHANGED <<world, intent, version, attempt, peer, link, sent, backlog,
                   listening, sock>>

\* The user picks Quit, closes the recovery editor, or the QML root fails to
\* load: main() returns and the server's destructor closes it.
Exit(p) ==
    /\ \/ pc[p] = "run" /\ Faulty("quit")
       \/ pc[p] = "load" /\ Faulty("loadFails")
       \/ pc[p] = "settings"
    /\ CloseServer(p)
    /\ Goto(p, "exited")
    /\ UNCHANGED <<world, intent, version, attempt, peer, sent>>

\* The process is killed: the socket dies with it, its name stays.
Crash(p) ==
    /\ Faulty("crash")
    /\ pc[p] \notin {"idle", "exited"}
    /\ Dropped(p)
    /\ Goto(p, "exited")
    /\ UNCHANGED <<world, intent, version, attempt, peer, sent, sock>>

-----------------------------------------------------------------------------

NewcomerStep(p) ==
    \/ Probe(p)     \/ Hello(p)     \/ ReadReply(p)    \/ ReplyTimeout(p)
    \/ Released(p)  \/ TryListen(p) \/ Reprobe(p)      \/ RemoveServer(p)
    \/ Relisten(p)

PrimaryStep(p) == Loaded(p) \/ Serve(p) \/ Handover(p) \/ Leave(p)

Next ==
    \E p \in Launches :
        Launch(p) \/ NewcomerStep(p) \/ PrimaryStep(p) \/ Exit(p) \/ Crash(p)

\* A newcomer never stops before the end of its loop: every wait in it has a
\* timeout.  The primary's event loop runs, unless the world lets it hang.
Fairness ==
    \A p \in Launches :
        /\ WF_vars(NewcomerStep(p))
        /\ WF_vars(~Faulty("slow") /\ PrimaryStep(p))

Spec == Init /\ [][Next]_vars

FairSpec == Spec /\ Fairness

-----------------------------------------------------------------------------
(***************************************************************************)
(* What the guard is for.                                                  *)
(***************************************************************************)

\* A process that shows, or is about to show, the widget.
Widget(p) == intent[p] = "show" /\ pc[p] \in {"load", "run"}

\* A widget launch that has begun and is not over.
Alive(p) == intent[p] = "show" /\ pc[p] \notin {"idle", "exited"}

\* Every process started so far is of one build: a double click, a login
\* entry and a menu click on the same AppImage.
SameBuild ==
    \A p, q \in Launches :
        pc[p] # "idle" /\ pc[q] # "idle" => version[p] = version[q]

\* Nothing closes a socket: no leftover file, no kill, quit or failed load.
NothingCloses ==
    /\ ~world.leftover
    /\ world.faults \cap {"crash", "quit", "loadFails"} = {}

\* The circumstances in which the claim of the socket is exclusive.  Outside
\* them two newcomers can both take the path for stale (see StaleClaim).
Orderly == world.serial \/ (NothingCloses /\ SameBuild)

\* No two processes are guarded primaries at once, and unless listen() itself
\* fails no two show a widget: launches do not pile up (issue #103), whether
\* they come one after the other, with kills and stale files in between, or
\* all at once from one build (main.cpp:126-128).
NoPileUp ==
    Orderly =>
        \A p, q \in Launches :
            /\ Widget(p) /\ Widget(q)
            /\ {p, q} \subseteq listening \/ ~Faulty("listenFails")
            => p = q

\* A live primary's socket file is never unlinked under it: when the path
\* stops naming a listener, that listener has closed or died
\* (single_instance.h:75-77).
LiveSocketKept ==
    [][Orderly /\ Connects /\ sock' # sock => sock \notin listening']_vars

\* A hand-over never leaves the desktop without a widget: as long as nobody is
\* killed, quits, fails to load or hangs, some widget launch is running or on
\* its way once one was started, whatever builds race each other and even if
\* their claims collide (main.cpp:149-151).
WidgetSurvives ==
    /\ world.faults \subseteq {"listenFails"}
    /\ \E p \in Launches : intent[p] = "show" /\ pc[p] # "idle"
    => \E p \in Launches : Alive(p)

\* Every launch comes to rest as a widget, as a recovery editor or by exiting.
\* A hung primary does not hang its callers.
LaunchSettles ==
    \A p \in Launches :
        pc[p] = "probe" ~> pc[p] \in Settled \cup {"load"}

\* "The AppImage you open is the one that runs" (single_instance.h:28): started
\* on a quiet desktop, a widget launch ends with its build behind the socket.
OpenedBuildRuns ==
    \A p \in Launches :
        /\ world.serial /\ world.faults = {}
        /\ pc[p] = "probe" /\ intent[p] = "show"
        ~> \E q \in listening : pc[q] = "run" /\ version[q] = version[p]

\* What the comments say of the claim, without the circumstances: "two
\* simultaneous launches can't both become primary".
StaleClaim == \A p, q \in listening : p = q

=============================================================================

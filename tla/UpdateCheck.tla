---------------------------- MODULE UpdateCheck -----------------------------
(***************************************************************************)
(* The update notification: UpdateCheck.js, core/UpdateChecker.qml and,    *)
(* in the Plasma build, RestartPending.js/.qml.  Two checkers exist: the   *)
(* widget's and the About page's (the settings-only process in the         *)
(* standalone build).  Each asks the release list once, when it loads;     *)
(* the answers arrive in any order, or never.  In the Plasma build both    *)
(* share one configuration, in the standalone build each process keeps a   *)
(* copy it read when it started and writes the file key by key.  Plasma    *)
(* hands its About page the values of the moment it opens, and the page    *)
(* hands them back when it is applied (configAbout.qml:15-24).             *)
(*                                                                         *)
(* Abstractions: a tag is its numeric core and its scope suffix, a core    *)
(* <<>> stands for a tag that is no version; a release that is not in the  *)
(* list, a draft and a prerelease are one, "pre", as pickRelevantRelease() *)
(* skips them alike; the age of the last check is "never", "fresh" or      *)
(* "expired".                                                              *)
(***************************************************************************)
EXTENDS Integers, Sequences, FiniteSets

CONSTANTS
  Build,      \* "plasma" or "standalone"
  Releases,   \* the tags ever released: [core, scope]
  First,      \* the tag installed at the start
  MaxInstalls \* bound: packages installed over the running one

ASSUME BuildAssumption == Build \in {"plasma", "standalone"}
ASSUME ReleasesAssumption ==
  /\ Releases \cup {First} \subseteq
       [core : (Nat \X Nat \X Nat) \cup {<<>>}, scope : {"plasma", "standalone", "both"}]
  /\ \A r, s \in Releases : r.core = s.core => r = s
ASSUME InstallsAssumption == MaxInstalls \in Nat

None    == [core |-> <<>>, scope |-> "none"]     \* the empty string
Partial == [core |-> <<>>, scope |-> "partial"]  \* a package half written
Checkers == {"widget", "about"}
Host(c)  == IF Build = "plasma" THEN "shell" ELSE c
Hosts    == {Host(c) : c \in Checkers}
Idle     == [state |-> "idle", tag |-> None]
Waiting  == [state |-> "waiting", tag |-> None]
Store    == [known : Releases \cup {None}, ack : Releases \cup {None},
             age : {"never", "fresh", "expired"}, enabled : BOOLEAN]
NoPage   == [age |-> "closed"]

VARIABLES
  feed,      \* feed[r]: "pre" or "out", the release list
  running,   \* running[h]: the version the host loaded
  disk,      \* the installed package's version, or Partial
  installs,  \* packages installed so far
  polled,    \* the version RestartPending read last, None if unreadable
  file,      \* the configuration on disk
  store,     \* store[h]: the host's copy of it
  page,      \* the cfg_ values of Plasma's About page, NoPage while it is closed
  call       \* call[c]: the checker's request, with the tag picked once answered

vars == <<feed, running, disk, installs, polled, file, store, page, call>>

-----------------------------------------------------------------------------
(* UpdateCheck.js *)

\* compareSemver(a, b) < 0 for two cores; 0 when one is no version.
compareSemver(a, b) ==
  IF a = <<>> \/ b = <<>> \/ a = b THEN 0
  ELSE IF \E i \in 1..3 : a[i] < b[i] /\ \A j \in 1..(i - 1) : a[j] = b[j]
       THEN -1 ELSE 1

\* There are finitely many releases, so some of them have a newest.
ASSUME NewestAssumption ==
  \A S \in SUBSET {r \in Releases : r.core # <<>>} :
    S # {} => \E r \in S : \A s \in S : compareSemver(r.core, s.core) # -1

isNewerVersion(l, r) == compareSemver(l.core, r.core) = -1

scopeRelevant(scope) == scope \in {"both", Build}

Candidates(list) == {r \in DOMAIN list : /\ list[r] = "out"
                                         /\ r.core # <<>>
                                         /\ scopeRelevant(r.scope)}

pickRelevantRelease(list) ==
  IF Candidates(list) = {} THEN None
  ELSE CHOOSE r \in Candidates(list) :
         \A s \in Candidates(list) : compareSemver(r.core, s.core) # -1

\* Mutant: a recorded check never expires.
shouldRecheck_Once(age) == age = "never"

shouldRecheck(age) == age # "fresh"

\* Mutant: only the dismissed version itself is held back.
shouldNotify_SameOnly(l, r, ack) ==
  isNewerVersion(l, r) /\ scopeRelevant(r.scope) /\ ack # r

shouldNotify(l, r, ack) ==
  /\ isNewerVersion(l, r)
  /\ scopeRelevant(r.scope)
  /\ ack.core = <<>> \/ isNewerVersion(ack, r)

\* Mutant: a downgrade on disk is not announced.
isRestartPending_Newer(run, inst) ==
  run # None /\ inst # None /\ isNewerVersion(run, inst)

\* RestartPending.js: both versions known and different.
isRestartPending(run, inst) == run # None /\ inst # None /\ run # inst

-----------------------------------------------------------------------------
updateAvailable(h) == shouldNotify(running[h], store[h].known, store[h].ack)
restartPending     == Build = "plasma" /\ isRestartPending(running["shell"], polled)

Fresh == [known |-> None, ack |-> None, age |-> "never", enabled |-> TRUE]

Init == /\ feed = [r \in Releases |-> "pre"]
        /\ running = [h \in Hosts |-> First]
        /\ disk = First /\ installs = 0 /\ polled = None
        /\ file = Fresh
        /\ store = [h \in Hosts |-> Fresh]
        /\ page = NoPage
        /\ call = [c \in Checkers |-> Idle]

\* A write goes to the host's copy and, key by key, to the file.
Write(h, key, v) ==
  [store |-> [store EXCEPT ![h][key] = v], file |-> [file EXCEPT ![key] = v]]

\* Component.onCompleted of a checker: its host starts (the widget's host,
\* and every standalone process) or its page opens; it asks when enabled and
\* the last check is not fresh.  A request of its predecessor is gone.  Plasma's
\* About page takes the values of this moment; it ends with the shell.
Load(c) ==
  LET h == Host(c)
      starts == c = "widget" \/ Build = "standalone"
      s == IF starts THEN file ELSE store[h]
  IN /\ starts => disk # Partial
     /\ store' = [store EXCEPT ![h] = s]
     /\ running' = IF starts THEN [running EXCEPT ![h] = disk] ELSE running
     /\ polled' = IF starts /\ Build = "plasma" THEN None ELSE polled
     /\ page' = IF starts THEN NoPage ELSE s
     /\ call' = [d \in Checkers |->
                   IF d = c THEN IF s.enabled /\ shouldRecheck(s.age) THEN Waiting ELSE Idle
                   ELSE IF starts /\ Host(d) = h THEN Idle ELSE call[d]]
     /\ UNCHANGED <<feed, disk, installs, file>>

\* The service answers with the list of this moment.
Serve(c) == /\ call[c] = Waiting
            /\ call' = [call EXCEPT ![c] = [state |-> "answered", tag |-> pickRelevantRelease(feed)]]
            /\ UNCHANGED <<feed, running, disk, installs, polled, file, store, page>>

\* No answer, another status or an unreadable body: nothing is recorded.
Fail(c) == /\ call[c] = Waiting
           /\ call' = [call EXCEPT ![c] = Idle]
           /\ UNCHANGED <<feed, running, disk, installs, polled, file, store, page>>

\* onreadystatechange: a tag is recorded with the time; an empty one is not.
Record(c) ==
  LET h == Host(c)
      tag == call[c].tag
      new(s) == IF tag = None THEN s ELSE [s EXCEPT !.known = tag, !.age = "fresh"]
  IN /\ call[c].state = "answered"
     /\ store' = [store EXCEPT ![h] = new(@)]
     /\ file' = new(file)
     /\ call' = [call EXCEPT ![c] = Idle]
     /\ UNCHANGED <<feed, running, disk, installs, polled, page>>

\* "Got it", a button of the About page that is visible while an update is
\* offered.  It writes the configuration, not the values of the page.
Acknowledge(h) ==
  LET w == Write(h, "ack", store[h].known)
  IN /\ Build = "plasma" => page # NoPage
     /\ updateAvailable(h)
     /\ store' = w.store /\ file' = w.file
     /\ UNCHANGED <<feed, running, disk, installs, polled, page, call>>

\* The switch of Plasma's About page, turned and applied.  External: whether
\* Plasma writes back every value the page holds, those of a check or a dismissal
\* made since it opened too, or only the one that was turned.
ApplyPage ==
  /\ page # NoPage
  /\ page' = [page EXCEPT !.enabled = ~@]
  /\ file' \in {page', [file EXCEPT !.enabled = ~page.enabled]}
  /\ store' = [h \in Hosts |-> file']
  /\ UNCHANGED <<feed, running, disk, installs, polled, call>>

\* The "check for updates" switch of the About page; standalone settings apply live.
ToggleChecks(h) ==
  LET w == Write(h, "enabled", ~store[h].enabled)
  IN IF Build = "plasma" THEN ApplyPage
     ELSE /\ store' = w.store /\ file' = w.file
          /\ UNCHANGED <<feed, running, disk, installs, polled, page, call>>

\* RestartPending's poll: an exit code other than 0 keeps the last reading,
\* an unreadable metadata.json yields "".
Poll ==
  /\ Build = "plasma"
  /\ polled' \in IF disk = Partial THEN {None, polled} ELSE {disk}
  /\ UNCHANGED <<feed, running, disk, installs, file, store, page, call>>

\* The time-to-live of a recorded check ends; the copies of two standalone
\* processes may hold different times.
Expire ==
  LET old(s) == IF s.age = "fresh" THEN [s EXCEPT !.age = "expired"] ELSE s
  IN \E H \in SUBSET Hosts, f \in BOOLEAN :
       /\ Build = "plasma" => H = Hosts /\ f
       /\ store' = [h \in Hosts |-> IF h \in H THEN old(store[h]) ELSE store[h]]
       /\ file' = IF f THEN old(file) ELSE file
       /\ page' = old(page)
       /\ UNCHANGED <<feed, running, disk, installs, polled, call>>

\* A release comes out.
Publish(r) ==
  /\ feed[r] = "pre"
  /\ feed' = [feed EXCEPT ![r] = "out"]
  /\ UNCHANGED <<running, disk, installs, polled, file, store, page, call>>

\* A package manager replaces the package, up or down, in two steps.
BeginInstall == /\ installs < MaxInstalls /\ disk # Partial
                /\ disk' = Partial /\ installs' = installs + 1
                /\ UNCHANGED <<feed, running, polled, file, store, page, call>>
EndInstall == /\ disk = Partial
              /\ \E r \in {First} \cup {q \in Releases : feed[q] = "out" /\ q.core # <<>>} : disk' = r
              /\ UNCHANGED <<feed, running, installs, polled, file, store, page, call>>

Next == \/ \E c \in Checkers : Load(c) \/ Serve(c) \/ Fail(c) \/ Record(c)
        \/ \E h \in Hosts : Acknowledge(h) \/ ToggleChecks(h)
        \/ \E r \in Releases : Publish(r)
        \/ Poll \/ Expire \/ BeginInstall \/ EndInstall

\* The poll timer and the reply handler run, time passes, an install ends, and
\* the network does not fail every request.
Fairness == /\ WF_vars(Poll) /\ WF_vars(Expire) /\ WF_vars(EndInstall)
            /\ SF_vars(Serve("widget")) /\ SF_vars(Record("widget"))

Spec == Init /\ [][Next]_vars /\ Fairness
-----------------------------------------------------------------------------
\* The host whose notification the widget shows.
Shell == Host("widget")

Above(a, b) == isNewerVersion(b, a)

\* The version the widget's badge names, None without one.
Badge == IF updateAvailable(Shell) THEN store[Shell].known ELSE None

\* The widget's badge names only a release that is out for this platform,
\* above the running version and above the version dismissed last, and a
\* dismissal is undone by no late answer, restart or reinstall
\* (UpdateCheck.js:105, UpdateChecker.qml:67): only by applying an About page
\* that was opened before it, to what was dismissed when that page opened.
Notice == INSTANCE UpdateNotice WITH
  None <- None, Newer <- Above,
  out <- Candidates(feed), running <- running[Shell],
  shown <- Badge,
  dismissed <- store[Shell].ack,
  opened <- IF page = NoPage THEN <<>> ELSE <<page.ack>>
NoticeRefined == Notice!Spec

\* Once the releases stop changing and checks stay on, a widget that is loaded
\* again and again comes to know the newest relevant release, and no older
\* answer that arrived later stays (UpdateChecker.qml:94 records every answer).
NewestReachesUser ==
  \A r \in Releases :
    []<><<Load("widget")>>_vars
    /\ <>[](pickRelevantRelease(feed) = r /\ store[Shell].enabled)
      => <>[](store[Shell].known = r)

\* A package other than the running one, newer or older, is announced or
\* gone from the disk or loaded by a restart (RestartPending.js:49).
RestartAnnounced ==
  (Build = "plasma" /\ disk \notin {Partial, running[Shell]})
    ~> (restartPending \/ disk \in {Partial, running[Shell]})

=============================================================================

------------------------- MODULE SingleInstanceProofs -------------------------
(***************************************************************************)
(* Theorems about SingleInstance, for any number of launches and builds.   *)
(*                                                                         *)
(* TypeCorrect      every variable keeps its type;                         *)
(* RolesHold        only a widget launch claims, and what listens is a     *)
(*                  widget process that has not closed its server;         *)
(* SurvivesHolds    a hand-over never leaves the desktop without a widget; *)
(* PileUpHolds      launches do not pile up;                               *)
(* LiveSocketHolds  a live primary's socket file is not unlinked under it. *)
(***************************************************************************)
EXTENDS SingleInstance, TLAPS

USE DEF Goto

\* The loop's bound, which makes TypeOK inductive.
LoopInv ==
    \A p \in Launches :
        /\ pc[p] \in Newcomer => attempt[p] < MaxAttempts
        /\ pc[p] = "idle" => attempt[p] = 0

\* The types and the loop bound together are inductive.
LEMMA LoopHolds == Spec => [](TypeOK /\ LoopInv)
<1>1. Init => TypeOK /\ LoopInv
  BY SingleInstanceAssumption DEF Init, TypeOK, LoopInv, Phase, Newcomer, Settled
<1>2. TypeOK /\ LoopInv /\ [Next]_vars => (TypeOK /\ LoopInv)'
  <2> SUFFICES ASSUME TypeOK, LoopInv, [Next]_vars PROVE TypeOK' /\ LoopInv'
    OBVIOUS
  <2> USE SingleInstanceAssumption
      DEF TypeOK, LoopInv, Phase, Newcomer, Settled, AfterLoop
  <2>1. CASE UNCHANGED vars
    BY <2>1 DEF vars
  <2> SUFFICES ASSUME NEW p \in Launches,
                      \/ Launch(p)
                      \/ NewcomerStep(p)
                      \/ PrimaryStep(p)
                      \/ Exit(p)
                      \/ Crash(p)
               PROVE  TypeOK' /\ LoopInv'
    BY <2>1 DEF Next
  <2>2. CASE Launch(p)
    BY <2>2 DEF Launch
  <2>3. CASE Probe(p)
    <3>1. CASE Connects
      <4>1. /\ sock \in Launches
            /\ Append(backlog[sock], p) \in Seq(Launches)
        BY <3>1 DEF Connects
      <4>2. /\ pc' = [pc EXCEPT ![p] = "hello"]
            /\ peer' = [peer EXCEPT ![p] = sock]
            /\ link' = [link EXCEPT ![p] = "open"]
            /\ sent' = sent \ {p}
            /\ backlog' = [backlog EXCEPT ![sock] = Append(@, p)]
            /\ UNCHANGED <<world, intent, version, attempt, listening, sock>>
        BY <2>3, <3>1 DEF Probe
      <4>3. backlog' \in [Launches -> Seq(Launches)]
        BY <4>1, <4>2
      <4> QED
        BY <2>3, <4>1, <4>2, <4>3 DEF Probe
    <3>2. CASE ~Connects
      BY <2>3, <3>2 DEF Probe
    <3> QED
      BY <3>1, <3>2
  <2>4. CASE Hello(p)
    BY <2>4 DEF Hello
  <2>5. CASE ReadReply(p)
    BY <2>5 DEF ReadReply
  <2>6. CASE ReplyTimeout(p)
    BY <2>6 DEF ReplyTimeout
  <2>7. CASE Released(p)
    BY <2>7 DEF Released, NextAttempt
  <2>8. CASE TryListen(p)
    BY <2>8 DEF TryListen, Bind
  <2>9. CASE Reprobe(p)
    <3>1. CASE Connects
      <4>1. /\ pc[p] = "reprobe"
            /\ attempt' = [attempt EXCEPT ![p] = @ + 1]
            /\ pc' = [pc EXCEPT ![p] = IF attempt[p] + 1 < MaxAttempts
                                      THEN "probe" ELSE AfterLoop(p)]
            /\ UNCHANGED <<world, intent, version, peer, link, sent, backlog,
                           listening, sock>>
        BY <2>9, <3>1 DEF Reprobe, NextAttempt
      <4>2. attempt[p] + 1 \in 0 .. MaxAttempts
        BY <4>1
      <4>3. attempt[p] + 1 < MaxAttempts \/ pc'[p] \notin Newcomer
        BY <4>1
      <4>4. TypeOK'
        BY <4>1, <4>2
      <4>5. LoopInv'
        BY <4>1, <4>2, <4>3
      <4> QED
        BY <4>4, <4>5
    <3>2. CASE ~Connects
      BY <2>9, <3>2 DEF Reprobe
    <3> QED
      BY <3>1, <3>2
  <2>10. CASE RemoveServer(p)
    BY <2>10 DEF RemoveServer
  <2>11. CASE Relisten(p)
    BY <2>11 DEF Relisten, Bind
  <2>12. CASE Loaded(p)
    BY <2>12 DEF Loaded
  <2>13. CASE Serve(p)
    BY <2>13 DEF Serve
  <2>14. CASE Handover(p)
    BY <2>14 DEF Handover, CloseServer, Dropped
  <2>15. CASE Leave(p)
    BY <2>15 DEF Leave
  <2>16. CASE Exit(p)
    BY <2>16 DEF Exit, CloseServer, Dropped
  <2>17. CASE Crash(p)
    BY <2>17 DEF Crash, Dropped
  <2> QED
    BY <2>2, <2>3, <2>4, <2>5, <2>6, <2>7, <2>8, <2>9, <2>10, <2>11, <2>12,
       <2>13, <2>14, <2>15, <2>16, <2>17 DEF NewcomerStep, PrimaryStep
<1>3. QED
  BY <1>1, <1>2, PTL DEF Spec

\* Every variable keeps its type: no pass of the loop and no handler leaves a
\* process, a link or the socket path in a state the code does not know.
THEOREM TypeCorrect == Spec => []TypeOK
  BY LoopHolds, PTL

-----------------------------------------------------------------------------
(***************************************************************************)
(* Backlogs as sequences.                                                  *)
(***************************************************************************)

\* What appending to, and taking the head off, a backlog does to its entries.
LEMMA AppendFacts ==
  ASSUME NEW S, NEW s \in Seq(S), NEW e \in S
  PROVE  /\ Len(Append(s, e)) = Len(s) + 1
         /\ Append(s, e)[Len(s) + 1] = e
         /\ \A i \in 1 .. Len(s) : Append(s, e)[i] = s[i]
  OBVIOUS

LEMMA TailFacts ==
  ASSUME NEW S, NEW s \in Seq(S), s # << >>
  PROVE  /\ Len(s) \in Nat \ {0}
         /\ Head(s) = s[1]
         /\ Head(s) \in S
         /\ Len(Tail(s)) = Len(s) - 1
         /\ \A i \in 1 .. Len(Tail(s)) :
              i + 1 \in 1 .. Len(s) /\ Tail(s)[i] = s[i + 1]
  OBVIOUS

LEMMA BacklogEntries ==
  ASSUME TypeOK
  PROVE  /\ \A q \in Launches : backlog[q] \in Seq(Launches)
         /\ \A q \in Launches : \A i \in 1 .. Len(backlog[q]) :
              backlog[q][i] \in Launches
  BY DEF TypeOK

-----------------------------------------------------------------------------
(***************************************************************************)
(* Who claims and who listens.                                             *)
(***************************************************************************)

\* Phases only a widget launch goes through.
Claiming == {"listen", "reprobe", "remove", "relisten", "load", "run",
             "replied", "closed"}

\* Only a widget launch claims, every listening socket belongs to one that has
\* not closed it yet and only such a one has clients, and nobody is promised
\* the place before it has said hello.
RoleInv ==
    /\ \A p \in Launches : pc[p] \in Claiming => intent[p] = "show"
    /\ \A p \in listening : pc[p] \in {"load", "run", "replied"}
    /\ \A p \in Launches : backlog[p] # << >> => p \in listening
    /\ \A p \in Launches :
         pc[p] = "hello" => p \notin sent /\ link[p] # "takeover"

\* Only a widget launch claims the socket (an --open-settings editor never
\* does, main.cpp:162-165), and whatever listens is a process that can still
\* serve or is about to close.
THEOREM RolesHold == Spec => []RoleInv
<1>1. Init => RoleInv
  BY DEF Init, RoleInv, Claiming
<1>2. TypeOK /\ RoleInv /\ [Next]_vars => RoleInv'
  <2> SUFFICES ASSUME TypeOK, RoleInv, [Next]_vars PROVE RoleInv'
    OBVIOUS
  <2> USE DEF TypeOK, RoleInv, Claiming, AfterLoop
  <2>1. CASE UNCHANGED vars
    BY <2>1 DEF vars
  <2> SUFFICES ASSUME NEW p \in Launches,
                      \/ Launch(p)
                      \/ NewcomerStep(p)
                      \/ PrimaryStep(p)
                      \/ Exit(p)
                      \/ Crash(p)
               PROVE  RoleInv'
    BY <2>1 DEF Next
  <2>2. CASE Launch(p)
    BY <2>2 DEF Launch
  <2>3. CASE Probe(p)
    <3>1. CASE Connects
      <4>1. /\ sock \in listening /\ sock \in Launches /\ listening' = listening
            /\ \A q \in Launches \ {sock} : backlog'[q] = backlog[q]
            /\ sent' = sent \ {p} /\ link' = [link EXCEPT ![p] = "open"]
            /\ pc' = [pc EXCEPT ![p] = "hello"] /\ pc[p] = "probe"
            /\ intent' = intent
        BY <2>3, <3>1 DEF Probe, Connects
      <4>2. \A q \in Launches : backlog'[q] # << >> => q \in listening'
        BY <4>1
      <4> QED
        BY <4>1, <4>2
    <3>2. CASE ~Connects
      BY <2>3, <3>2 DEF Probe
    <3> QED
      BY <3>1, <3>2
  <2>4. CASE Hello(p)
    BY <2>4 DEF Hello
  <2>5. CASE ReadReply(p)
    BY <2>5 DEF ReadReply
  <2>6. CASE ReplyTimeout(p)
    BY <2>6 DEF ReplyTimeout
  <2>7. CASE Released(p)
    BY <2>7 DEF Released, NextAttempt
  <2>8. CASE TryListen(p)
    BY <2>8 DEF TryListen, Bind
  <2>9. CASE Reprobe(p)
    BY <2>9 DEF Reprobe, NextAttempt
  <2>10. CASE RemoveServer(p)
    BY <2>10 DEF RemoveServer
  <2>11. CASE Relisten(p)
    BY <2>11 DEF Relisten, Bind
  <2>12. CASE Loaded(p)
    BY <2>12 DEF Loaded
  <2>13. CASE Serve(p)
    <3> PICK c : c = Head(backlog[p])
      OBVIOUS
    <3>1. c \in Launches
      BY <2>13, BacklogEntries, TailFacts DEF Serve
    <3>2. /\ pc[p] = "run" /\ pc'[p] \in {"run", "replied"}
          /\ \A q \in Launches \ {p} : pc'[q] = pc[q]
          /\ \A q \in Launches \ {p} : backlog'[q] = backlog[q]
          /\ backlog[p] # << >>
          /\ \A q \in Launches \ {c} : link'[q] = link[q]
          /\ link'[c] = "takeover" => c \in sent
          /\ UNCHANGED <<intent, sent, listening>>
      BY <2>13, <3>1 DEF Serve, Supersedes
    <3>3. p \in listening'
      BY <3>2
    <3> QED
      BY <3>1, <3>2, <3>3
  <2>14. CASE Handover(p)
    BY <2>14 DEF Handover, CloseServer, Dropped
  <2>15. CASE Leave(p)
    BY <2>15 DEF Leave
  <2>16. CASE Exit(p)
    BY <2>16 DEF Exit, CloseServer, Dropped
  <2>17. CASE Crash(p)
    BY <2>17 DEF Crash, Dropped
  <2> QED
    BY <2>2, <2>3, <2>4, <2>5, <2>6, <2>7, <2>8, <2>9, <2>10, <2>11, <2>12,
       <2>13, <2>14, <2>15, <2>16, <2>17 DEF NewcomerStep, PrimaryStep
<1>3. QED
  BY <1>1, <1>2, TypeCorrect, PTL DEF Spec

-----------------------------------------------------------------------------
(***************************************************************************)
(* A hand-over always has a successor.                                     *)
(***************************************************************************)

\* Nobody is killed, quits, fails to load or hangs.
Quiet == world.faults \subseteq {"listenFails"}

\* A newcomer whose connection has not been answered.
Waiting(c) == pc[c] \in {"hello", "wait"} /\ link[c] = "open"

\* A server's backlog holds waiting newcomers, each once, and whoever waits is
\* connected to a server that is still up.
BacklogInv ==
    /\ \A p \in Launches : \A i \in 1 .. Len(backlog[p]) :
          Waiting(backlog[p][i]) /\ peer[backlog[p][i]] = p
    /\ \A p \in Launches : \A i, j \in 1 .. Len(backlog[p]) :
          i # j => backlog[p][i] # backlog[p][j]
    /\ \A c \in Launches : Waiting(c) => peer[c] \in listening

\* A newcomer that holds, or can read, the promise of its peer.
Promised(c) == pc[c] \in {"wait", "released"} /\ link[c] = "takeover"

\* A primary that gives way has promised its place to a widget launch.
HandoverInv ==
    \A p \in Launches :
        pc[p] \in {"replied", "closed"} =>
            \E c \in Launches :
                Promised(c) /\ peer[c] = p /\ intent[c] = "show"

\* The launches that will end as a widget unless they find another one.
Core(p) ==
    /\ intent[p] = "show"
    /\ \/ pc[p] \in {"probe", "released", "listen", "reprobe", "remove",
                     "relisten", "load", "run"}
       \/ Promised(p)

Started == \E p \in Launches : intent[p] = "show" /\ pc[p] # "idle"

CoreInv == Started => \E p \in Launches : Core(p)

SurvivalInv == Quiet => BacklogInv /\ HandoverInv /\ CoreInv

\* As long as the same newcomers wait, the backlogs stay as they are.
LEMMA BacklogSame ==
  ASSUME TypeOK, BacklogInv,
         \A c \in Launches : Waiting(c)' <=> Waiting(c),
         UNCHANGED <<peer, backlog>>, listening \subseteq listening'
  PROVE  BacklogInv'
<1> USE DEF Waiting
<1>1. ASSUME NEW p \in Launches, NEW i \in 1 .. Len(backlog[p])
      PROVE  (Waiting(backlog[p][i]) /\ peer[backlog[p][i]] = p)'
  <2>1. backlog[p][i] \in Launches
    BY BacklogEntries
  <2>2. Waiting(backlog[p][i]) /\ peer[backlog[p][i]] = p
    BY DEF BacklogInv
  <2> QED
    BY <2>1, <2>2
<1>2. \A p \in Launches : \A i, j \in 1 .. Len(backlog'[p]) :
        i # j => backlog'[p][i] # backlog'[p][j]
  BY DEF BacklogInv
<1>3. \A c \in Launches : Waiting(c)' => peer'[c] \in listening'
  BY DEF BacklogInv
<1> QED
  BY <1>1, <1>2, <1>3 DEF BacklogInv

\* A step of a process that is neither waiting before nor after it, and which
\* leaves the connections alone, leaves the backlogs in order.
LEMMA BacklogFrame ==
  ASSUME TypeOK, BacklogInv, NEW p \in Launches,
         \A q \in Launches \ {p} : pc'[q] = pc[q],
         pc[p] \notin {"hello", "wait"}, pc'[p] \notin {"hello", "wait"},
         UNCHANGED <<peer, link, backlog>>, listening \subseteq listening'
  PROVE  BacklogInv'
<1>1. \A c \in Launches : Waiting(c)' <=> Waiting(c)
  BY DEF Waiting
<1> QED
  BY <1>1, BacklogSame

\* A new connection goes to the end of a backlog.
LEMMA BacklogProbe ==
  ASSUME TypeOK, BacklogInv, NEW p \in Launches, Probe(p), Connects
  PROVE  BacklogInv'
<1> DEFINE b == backlog[sock]
<1>1. /\ pc[p] = "probe"
      /\ sock \in listening /\ sock \in Launches
      /\ listening' = listening
      /\ \A q \in Launches \ {sock} : backlog'[q] = backlog[q]
      /\ backlog'[sock] = Append(b, p)
  BY DEF Probe, Connects, TypeOK
<1>2. /\ \A c \in Launches \ {p} :
           pc'[c] = pc[c] /\ peer'[c] = peer[c] /\ link'[c] = link[c]
      /\ pc'[p] = "hello" /\ peer'[p] = sock /\ link'[p] = "open"
  BY DEF Probe, Connects, TypeOK
<1>3. /\ b \in Seq(Launches)
      /\ Len(backlog'[sock]) = Len(b) + 1
      /\ backlog'[sock][Len(b) + 1] = p
      /\ \A i \in 1 .. Len(b) : backlog'[sock][i] = b[i]
  BY <1>1, BacklogEntries, AppendFacts
<1>4. \A q \in Launches : \A i \in 1 .. Len(backlog[q]) :
        backlog[q][i] \in Launches \ {p}
  <2> SUFFICES ASSUME NEW q \in Launches, NEW i \in 1 .. Len(backlog[q])
               PROVE  backlog[q][i] \in Launches \ {p}
    OBVIOUS
  <2>1. Waiting(backlog[q][i])
    BY DEF BacklogInv
  <2> QED
    BY <1>1, <2>1, BacklogEntries DEF Waiting
<1>5. ASSUME NEW q \in Launches, NEW i \in 1 .. Len(backlog'[q])
      PROVE  \/ q = sock /\ i = Len(b) + 1 /\ backlog'[q][i] = p
             \/ i \in 1 .. Len(backlog[q]) /\ backlog'[q][i] = backlog[q][i]
  <2>1. CASE q = sock
    <3>1. Len(b) \in Nat
      BY <1>3
    <3>2. i \in 1 .. (Len(b) + 1)
      BY <2>1, <1>3
    <3>3. CASE i = Len(b) + 1
      BY <2>1, <3>3, <1>3
    <3>4. CASE i \in 1 .. Len(b)
      BY <2>1, <3>4, <1>3
    <3> QED
      BY <3>1, <3>2, <3>3, <3>4
  <2>2. CASE q # sock
    BY <2>2, <1>1
  <2> QED
    BY <2>1, <2>2
<1>6. ASSUME NEW q \in Launches, NEW i \in 1 .. Len(backlog'[q])
      PROVE  (Waiting(backlog[q][i]) /\ peer[backlog[q][i]] = q)'
  <2>1. CASE q = sock /\ i = Len(b) + 1 /\ backlog'[q][i] = p
    BY <2>1, <1>2 DEF Waiting
  <2>2. CASE i \in 1 .. Len(backlog[q]) /\ backlog'[q][i] = backlog[q][i]
    <3>1. Waiting(backlog[q][i]) /\ peer[backlog[q][i]] = q
      BY <2>2 DEF BacklogInv
    <3> QED
      BY <2>2, <3>1, <1>2, <1>4 DEF Waiting
  <2> QED
    BY <2>1, <2>2, <1>5
<1>7. ASSUME NEW q \in Launches,
             NEW i \in 1 .. Len(backlog'[q]), NEW j \in 1 .. Len(backlog'[q]),
             i # j
      PROVE  backlog'[q][i] # backlog'[q][j]
  BY <1>4, <1>5, <1>7 DEF BacklogInv
<1>8. \A c \in Launches : Waiting(c)' => peer'[c] \in listening'
  BY <1>1, <1>2 DEF BacklogInv, Waiting
<1> QED
  BY <1>6, <1>7, <1>8 DEF BacklogInv

\* The served connection leaves the backlog and is no longer waiting.
LEMMA BacklogServe ==
  ASSUME TypeOK, BacklogInv, NEW p \in Launches, Serve(p)
  PROVE  BacklogInv'
<1> PICK c : c = Head(backlog[p])
  OBVIOUS
<1>1. /\ pc[p] = "run"
      /\ pc'[p] \in {"run", "replied"}
      /\ \A q \in Launches \ {p} : pc'[q] = pc[q]
      /\ UNCHANGED <<peer, listening>>
  BY DEF Serve, TypeOK
<1>2. /\ backlog[p] # << >>
      /\ backlog'[p] = Tail(backlog[p])
      /\ \A q \in Launches \ {p} : backlog'[q] = backlog[q]
  BY DEF Serve, TypeOK
<1>3. /\ Len(backlog[p]) \in Nat \ {0}
      /\ c = backlog[p][1]
      /\ c \in Launches
      /\ Len(backlog'[p]) = Len(backlog[p]) - 1
      /\ \A i \in 1 .. Len(backlog'[p]) :
           i + 1 \in 1 .. Len(backlog[p]) /\ backlog'[p][i] = backlog[p][i + 1]
  BY <1>2, BacklogEntries, TailFacts
<1>4. /\ link'[c] \in {"defer", "takeover"}
      /\ \A d \in Launches \ {c} : link'[d] = link[d]
  BY <1>3 DEF Serve, TypeOK
<1>5. peer[c] = p
  BY <1>3 DEF BacklogInv
<1>6. /\ ~Waiting(c)'
      /\ \A d \in Launches \ {c} : Waiting(d)' <=> Waiting(d)
  BY <1>1, <1>4 DEF Waiting
<1>7. ASSUME NEW q \in Launches, NEW i \in 1 .. Len(backlog'[q])
      PROVE  LET k == IF q = p THEN i + 1 ELSE i
             IN  /\ k \in 1 .. Len(backlog[q])
                 /\ backlog'[q][i] = backlog[q][k]
                 /\ backlog[q][k] \in Launches \ {c}
  <2>1. CASE q = p
    <3>1. /\ i + 1 \in 1 .. Len(backlog[p])
          /\ backlog'[p][i] = backlog[p][i + 1]
          /\ 1 \in 1 .. Len(backlog[p])
          /\ i + 1 # 1
      BY <2>1, <1>3
    <3>2. backlog[p][i + 1] # backlog[p][1]
      BY <3>1 DEF BacklogInv
    <3> QED
      BY <2>1, <3>1, <3>2, <1>3, BacklogEntries
  <2>2. CASE q # p
    <3>1. i \in 1 .. Len(backlog[q]) /\ backlog'[q][i] = backlog[q][i]
      BY <2>2, <1>2
    <3>2. peer[backlog[q][i]] = q
      BY <3>1 DEF BacklogInv
    <3> QED
      BY <2>2, <3>1, <3>2, <1>5, BacklogEntries
  <2> QED
    BY <2>1, <2>2
<1>8. ASSUME NEW q \in Launches, NEW i \in 1 .. Len(backlog'[q])
      PROVE  (Waiting(backlog[q][i]) /\ peer[backlog[q][i]] = q)'
  <2> DEFINE k == IF q = p THEN i + 1 ELSE i
  <2>1. /\ k \in 1 .. Len(backlog[q])
        /\ backlog'[q][i] = backlog[q][k]
        /\ backlog[q][k] \in Launches \ {c}
    BY <1>7
  <2>2. Waiting(backlog[q][k]) /\ peer[backlog[q][k]] = q
    BY <2>1 DEF BacklogInv
  <2>3. ASSUME NEW d \in Launches \ {c}, Waiting(d), peer[d] = q,
               d = backlog'[q][i]
        PROVE  (Waiting(backlog[q][i]) /\ peer[backlog[q][i]] = q)'
    BY <2>3, <1>1, <1>6 DEF Waiting
  <2> QED
    BY <2>1, <2>2, <2>3
<1>9. ASSUME NEW q \in Launches,
             NEW i \in 1 .. Len(backlog'[q]), NEW j \in 1 .. Len(backlog'[q]),
             i # j
      PROVE  backlog'[q][i] # backlog'[q][j]
  <2> DEFINE k(n) == IF q = p THEN n + 1 ELSE n
  <2>1. /\ k(i) \in 1 .. Len(backlog[q]) /\ backlog'[q][i] = backlog[q][k(i)]
        /\ k(j) \in 1 .. Len(backlog[q]) /\ backlog'[q][j] = backlog[q][k(j)]
    BY <1>7
  <2>2. k(i) # k(j)
    BY <1>9
  <2> QED
    BY <2>1, <2>2 DEF BacklogInv
<1>10. \A d \in Launches : Waiting(d)' => peer'[d] \in listening'
  BY <1>1, <1>6 DEF BacklogInv
<1> QED
  BY <1>8, <1>9, <1>10 DEF BacklogInv

\* A server that goes drops its clients, and they stop waiting.
LEMMA BacklogDropped ==
  ASSUME TypeOK, BacklogInv, NEW p \in Launches, Dropped(p),
         \A q \in Launches \ {p} : pc'[q] = pc[q],
         pc[p] \notin {"hello", "wait"}, pc'[p] \notin {"hello", "wait"},
         UNCHANGED peer
  PROVE  BacklogInv'
<1>1. /\ listening' = listening \ {p}
      /\ \A c \in Launches : link'[c] = IF peer[c] = p /\ link[c] = "open"
                                        THEN "closed" ELSE link[c]
      /\ backlog'[p] = << >>
      /\ \A q \in Launches \ {p} : backlog'[q] = backlog[q]
  BY DEF Dropped, TypeOK
<1>2. \A c \in Launches : Waiting(c)' <=> (Waiting(c) /\ peer[c] # p)
  BY <1>1 DEF Waiting
<1>3. Len(backlog'[p]) = 0
  BY <1>1
<1>4. ASSUME NEW q \in Launches, NEW i \in 1 .. Len(backlog'[q])
      PROVE  q # p /\ i \in 1 .. Len(backlog[q])
  BY <1>1, <1>3
<1> QED
  BY <1>1, <1>2, <1>4, BacklogEntries DEF BacklogInv

\* The backlogs and the connections they hold stay in step.
LEMMA BacklogStep ==
  ASSUME TypeOK, BacklogInv, Quiet, [Next]_vars
  PROVE  BacklogInv'
<1>1. CASE UNCHANGED vars
  BY <1>1 DEF vars, BacklogInv, Waiting
<1> SUFFICES ASSUME NEW p \in Launches,
                    \/ Launch(p)
                    \/ NewcomerStep(p)
                    \/ PrimaryStep(p)
                    \/ Exit(p)
                    \/ Crash(p)
             PROVE  BacklogInv'
  BY <1>1 DEF Next
<1> USE DEF TypeOK, AfterLoop
<1>2. CASE Launch(p)
  BY <1>2, BacklogFrame DEF Launch
<1>3. CASE Probe(p)
  <2>1. CASE ~Connects
    BY <1>3, <2>1, BacklogFrame DEF Probe
  <2> QED
    BY <1>3, <2>1, BacklogProbe
<1>4. CASE Hello(p)
  <2>1. /\ \A c \in Launches : Waiting(c)' <=> Waiting(c)
        /\ UNCHANGED <<peer, link, backlog, listening>>
    BY <1>4 DEF Hello, Waiting
  <2> QED
    BY <2>1, BacklogSame
<1>5. CASE ReadReply(p)
  <2>1. /\ \A c \in Launches : Waiting(c)' <=> Waiting(c)
        /\ UNCHANGED <<peer, link, backlog, listening>>
    BY <1>5 DEF ReadReply, Waiting
  <2> QED
    BY <2>1, BacklogSame
<1>6. CASE ReplyTimeout(p)
  BY <1>6 DEF ReplyTimeout, Faulty, Quiet
<1>7. CASE Released(p)
  BY <1>7, BacklogFrame DEF Released, NextAttempt
<1>8. CASE TryListen(p)
  BY <1>8, BacklogFrame DEF TryListen, Bind
<1>9. CASE Reprobe(p)
  BY <1>9, BacklogFrame DEF Reprobe, NextAttempt
<1>10. CASE RemoveServer(p)
  BY <1>10, BacklogFrame DEF RemoveServer
<1>11. CASE Relisten(p)
  BY <1>11, BacklogFrame DEF Relisten, Bind
<1>12. CASE Loaded(p)
  BY <1>12, BacklogFrame DEF Loaded
<1>13. CASE Serve(p)
  BY <1>13, BacklogServe
<1>14. CASE Handover(p)
  BY <1>14, BacklogDropped DEF Handover, CloseServer
<1>15. CASE Leave(p)
  BY <1>15, BacklogFrame DEF Leave
<1>16. CASE Exit(p)
  BY <1>16, BacklogDropped DEF Exit, CloseServer
<1>17. CASE Crash(p)
  BY <1>17 DEF Crash, Faulty, Quiet
<1> QED
  BY <1>2, <1>3, <1>4, <1>5, <1>6, <1>7, <1>8, <1>9, <1>10, <1>11, <1>12,
     <1>13, <1>14, <1>15, <1>16, <1>17 DEF NewcomerStep, PrimaryStep

-----------------------------------------------------------------------------
\* While the primary is in its take-over branch the newcomer stays promised:
\* it does not go round the loop before the primary has let it go.
LEMMA PromiseKept ==
  ASSUME TypeOK, BacklogInv, Quiet, NEW p \in Launches,
         \/ NewcomerStep(p) \/ PrimaryStep(p) \/ Launch(p) \/ Exit(p),
         NEW c \in Launches, Promised(c),
         pc[peer[c]] \in {"replied", "closed"}
  PROVE  Promised(c)' /\ peer'[c] = peer[c]
<1> USE DEF TypeOK, Promised
<1>1. CASE Probe(p)
  BY <1>1 DEF Probe
<1>2. CASE Hello(p)
  BY <1>2 DEF Hello
<1>3. CASE ReadReply(p)
  BY <1>3 DEF ReadReply
<1>4. CASE ReplyTimeout(p)
  BY <1>4 DEF ReplyTimeout
<1>5. CASE Released(p)
  BY <1>5 DEF Released, NextAttempt, Faulty, Quiet
<1>6. CASE TryListen(p) \/ Relisten(p)
  BY <1>6 DEF TryListen, Relisten, Bind
<1>7. CASE Reprobe(p) \/ RemoveServer(p)
  BY <1>7 DEF Reprobe, NextAttempt, RemoveServer
<1>8. CASE Loaded(p) \/ Leave(p) \/ Launch(p)
  BY <1>8 DEF Loaded, Leave, Launch
<1>9. CASE Serve(p)
  <2> PICK d : d = Head(backlog[p])
    OBVIOUS
  <2>1. /\ d \in Launches
        /\ d = backlog[p][1]
        /\ 1 \in 1 .. Len(backlog[p])
    BY <1>9, BacklogEntries, TailFacts DEF Serve
  <2>2. Waiting(backlog[p][1])
    BY <2>1 DEF BacklogInv
  <2>3. d # c
    BY <2>1, <2>2 DEF Waiting
  <2> QED
    BY <1>9, <2>1, <2>3 DEF Serve
<1>10. CASE Handover(p) \/ Exit(p)
  BY <1>10 DEF Handover, Exit, CloseServer, Dropped
<1> QED
  BY <1>1, <1>2, <1>3, <1>4, <1>5, <1>6, <1>7, <1>8, <1>9, <1>10
  DEF NewcomerStep, PrimaryStep

\* Who is promised the place when the primary decides to give way.
LEMMA ServePromises ==
  ASSUME TypeOK, BacklogInv, Quiet, NEW p \in Launches, Serve(p),
         pc'[p] = "replied"
  PROVE  \E c \in Launches : (Promised(c) /\ peer[c] = p /\ intent[c] = "show")'
<1> PICK c : c = Head(backlog[p])
  OBVIOUS
<1>1. /\ c \in Launches
      /\ c = backlog[p][1]
      /\ 1 \in 1 .. Len(backlog[p])
  BY BacklogEntries, TailFacts DEF Serve
<1>2. Waiting(c) /\ peer[c] = p
  BY <1>1 DEF BacklogInv
<1>3. Supersedes(c, p) /\ link'[c] = "takeover" /\ UNCHANGED <<peer, intent>>
  BY <1>1 DEF Serve, TypeOK
<1>4. pc'[c] = "wait"
  BY <1>1, <1>2 DEF Serve, Waiting, Faulty, Quiet, TypeOK
<1> QED
  BY <1>1, <1>2, <1>3, <1>4 DEF Promised, Supersedes

LEMMA HandoverStep ==
  ASSUME TypeOK, BacklogInv, HandoverInv, Quiet, [Next]_vars
  PROVE  HandoverInv'
<1>1. CASE UNCHANGED vars
  BY <1>1 DEF vars, HandoverInv, Promised
<1> SUFFICES ASSUME NEW p \in Launches,
                    \/ Launch(p)
                    \/ NewcomerStep(p)
                    \/ PrimaryStep(p)
                    \/ Exit(p)
             PROVE  HandoverInv'
  BY <1>1 DEF Next, Crash, Faulty, Quiet
<1>2. UNCHANGED intent
  BY DEF Launch, NewcomerStep, PrimaryStep, Exit, Probe, Hello, ReadReply,
         ReplyTimeout, Released, TryListen, Reprobe, RemoveServer, Relisten,
         Loaded, Serve, Handover, Leave
<1> SUFFICES ASSUME NEW q \in Launches, pc'[q] \in {"replied", "closed"}
             PROVE  \E c \in Launches :
                      (Promised(c) /\ peer[c] = q /\ intent[c] = "show")'
  BY DEF HandoverInv
<1>3. CASE pc[q] \in {"replied", "closed"}
  <2>1. PICK c \in Launches : Promised(c) /\ peer[c] = q /\ intent[c] = "show"
    BY <1>3 DEF HandoverInv
  <2> QED
    BY <1>2, <1>3, <2>1, PromiseKept
<1>4. CASE pc[q] \notin {"replied", "closed"}
  <2>1. q = p /\ Serve(p) /\ pc'[p] = "replied"
    BY <1>4 DEF TypeOK, AfterLoop, Launch, NewcomerStep, PrimaryStep, Exit, Probe,
       Hello, ReadReply, ReplyTimeout, Released, NextAttempt, TryListen, Bind,
       Reprobe, RemoveServer, Relisten, Loaded, Serve, Handover, Leave
  <2> QED
    BY <2>1, ServePromises
<1> QED
  BY <1>3, <1>4

\* While a connection is answered by a widget that is up, or by one that has
\* promised its place, some launch stays bound to end as a widget.
LEMMA CoreStep ==
  ASSUME TypeOK, RoleInv, BacklogInv, HandoverInv, CoreInv, Quiet, [Next]_vars
  PROVE  CoreInv'
<1>1. CASE UNCHANGED vars
  BY <1>1 DEF vars, CoreInv, Started, Core, Promised
<1> SUFFICES ASSUME NEW p \in Launches,
                    \/ Launch(p)
                    \/ NewcomerStep(p)
                    \/ PrimaryStep(p)
                    \/ Exit(p)
             PROVE  CoreInv'
  BY <1>1 DEF Next, Crash, Faulty, Quiet
<1> USE DEF TypeOK, AfterLoop
<1>2. CASE Launch(p) /\ intent[p] = "show"
  BY <1>2 DEF Launch, CoreInv, Core
<1>3. CASE ~(Launch(p) /\ intent[p] = "show")
  <2>1. UNCHANGED intent
    BY DEF Launch, NewcomerStep, PrimaryStep, Exit, Probe, Hello, ReadReply,
           ReplyTimeout, Released, TryListen, Reprobe, RemoveServer, Relisten,
           Loaded, Serve, Handover, Leave
  <2>2. Started' => Started
    BY <1>3, <2>1 DEF Started, Launch, NewcomerStep, PrimaryStep, Exit, Probe,
       Hello, ReadReply, ReplyTimeout, Released, NextAttempt, TryListen, Bind,
       Reprobe, RemoveServer, Relisten, Loaded, Serve, Handover, Leave
  <2> SUFFICES ASSUME Started PROVE \E c \in Launches : Core(c)'
    BY <2>2 DEF CoreInv
  <2>3. PICK c \in Launches : Core(c)
    BY DEF CoreInv
  <2>4. CASE Probe(p)
    <3>1. CASE c # p
      BY <2>3, <2>4, <3>1 DEF Probe, Core, Promised
    <3>2. CASE ~Connects
      BY <2>3, <2>4, <3>2 DEF Probe, Core, Promised
    <3>3. CASE c = p /\ Connects
      <4>1. /\ sock \in Launches /\ sock # p
            /\ intent[sock] = "show"
            /\ pc[sock] \in {"load", "run", "replied"}
        BY <2>4, <3>3 DEF Connects, RoleInv, Claiming, Probe
      <4>2. CASE pc[sock] \in {"load", "run"}
        BY <2>4, <4>1, <4>2 DEF Probe, Core
      <4>3. CASE pc[sock] = "replied"
        <5>1. PICK d \in Launches : Promised(d) /\ intent[d] = "show"
          BY <4>1, <4>3 DEF HandoverInv
        <5>2. d # p
          BY <2>4, <5>1 DEF Promised, Probe
        <5> QED
          BY <2>4, <5>1, <5>2 DEF Probe, Core, Promised
      <4> QED
        BY <4>1, <4>2, <4>3
    <3> QED
      BY <3>1, <3>2, <3>3
  <2>5. CASE Hello(p)
    BY <2>3, <2>5 DEF Hello, Core, Promised
  <2>6. CASE ReadReply(p)
    BY <2>3, <2>6 DEF ReadReply, Core, Promised
  <2>7. CASE ReplyTimeout(p)
    BY <2>7 DEF ReplyTimeout, Faulty, Quiet
  <2>8. CASE Released(p)
    BY <2>3, <2>8 DEF Released, NextAttempt, Core, Promised
  <2>9. CASE TryListen(p) \/ Relisten(p)
    BY <2>3, <2>9 DEF TryListen, Relisten, Bind, Core, Promised
  <2>10. CASE Reprobe(p) \/ RemoveServer(p)
    BY <2>3, <2>10 DEF Reprobe, NextAttempt, RemoveServer, Core, Promised
  <2>11. CASE Loaded(p) \/ Leave(p) \/ Launch(p)
    BY <2>3, <2>11 DEF Loaded, Leave, Launch, Core, Promised
  <2>12. CASE Serve(p)
    <3>1. CASE pc'[p] = "replied"
      <4>1. PICK d \in Launches : (Promised(d) /\ peer[d] = p /\ intent[d] = "show")'
        BY <2>12, <3>1, ServePromises
      <4> QED
        BY <4>1 DEF Core
    <3>2. CASE pc'[p] # "replied"
      <4>1. Core(p)'
        BY <2>1, <2>12, <3>2 DEF Serve, RoleInv, Claiming, Core
      <4> QED
        BY <4>1
    <3> QED
      BY <3>1, <3>2
  <2>13. CASE Handover(p) \/ Exit(p)
    BY <2>3, <2>13
    DEF Handover, Exit, CloseServer, Dropped, Core, Promised, Faulty, Quiet
  <2> QED
    BY <2>4, <2>5, <2>6, <2>7, <2>8, <2>9, <2>10, <2>11, <2>12, <2>13
    DEF NewcomerStep, PrimaryStep
<1> QED
  BY <1>2, <1>3

\* A hand-over never leaves the desktop without a widget (main.cpp:149-151):
\* whatever number of launches, of whatever builds, race each other, and even
\* where two of them take the socket from each other.
THEOREM SurvivesHolds == Spec => []WidgetSurvives
<1>1. Init => SurvivalInv
  BY DEF Init, SurvivalInv, BacklogInv, HandoverInv, CoreInv, Started, Waiting
<1>2. TypeOK /\ RoleInv /\ SurvivalInv /\ [Next]_vars => SurvivalInv'
  <2> SUFFICES ASSUME TypeOK, RoleInv, SurvivalInv, [Next]_vars, Quiet'
               PROVE  (BacklogInv /\ HandoverInv /\ CoreInv)'
    BY DEF SurvivalInv
  <2>1. UNCHANGED world
    BY DEF vars, Next, Launch, NewcomerStep, PrimaryStep, Exit, Crash, Probe,
       Hello, ReadReply, ReplyTimeout, Released, TryListen, Reprobe,
       RemoveServer, Relisten, Loaded, Serve, Handover, Leave
  <2>2. Quiet /\ BacklogInv /\ HandoverInv /\ CoreInv
    BY <2>1 DEF Quiet, SurvivalInv
  <2> QED
    BY <2>2, BacklogStep, HandoverStep, CoreStep
<1>3. SurvivalInv => WidgetSurvives
  BY DEF SurvivalInv, WidgetSurvives, Quiet, CoreInv, Started, Core, Promised,
         Alive
<1> QED
  BY <1>1, <1>2, <1>3, TypeCorrect, RolesHold, PTL DEF Spec

-----------------------------------------------------------------------------
(***************************************************************************)
(* Exclusion.                                                              *)
(***************************************************************************)

Claim == {"listen", "reprobe", "remove", "relisten"}

\* Every listening socket still has its name: at most one process listens.
NamedInv == \A l \in listening : sock = l

\* Unless listen() can fail, whoever shows a widget listens.
GuardedInv ==
    ~Faulty("listenFails") => \A p \in Launches : Widget(p) => p \in listening

\* One launch after the other: a single newcomer at a time...
SoloInv ==
    \A p, q \in Launches :
        pc[p] \in Newcomer \cup {"load"} /\ pc[q] \in Newcomer \cup {"load"}
        => p = q

\* ... which claims only when nobody listens, and goes round the loop at most
\* once, after the only listener has promised it the place.
PassInv ==
    \A p \in Launches :
        /\ pc[p] \in Claim => listening = {}
        /\ pc[p] = "relisten" => sock = NoFile
        /\ Promised(p) => attempt[p] = 0 /\ \A l \in listening : pc[l] = "replied"
        /\ pc[p] \in Newcomer /\ attempt[p] # 0
           => \A l \in listening : pc[l] = "replied"
        /\ pc[p] = "released" => link[p] = "takeover"

SerialInv == NamedInv /\ GuardedInv /\ SoloInv /\ PassInv

\* All at once from one build, with nothing that closes a socket: the first to
\* bind keeps the name, and who loses the race finds it at the next probe.
RaceInv ==
    /\ NamedInv
    /\ GuardedInv
    /\ sock = NoFile \/ sock \in listening
    /\ \A p \in Launches :
         /\ pc[p] \notin {"remove", "relisten", "released", "replied", "closed"}
         /\ pc[p] = "reprobe" => Connects
         /\ pc[p] \in Newcomer /\ attempt[p] # 0 => Connects /\ pc[p] \notin Claim
         /\ link[p] # "takeover"
         /\ p \in sent => pc[p] # "idle"
         /\ \A i \in 1 .. Len(backlog[p]) : pc[backlog[p][i]] # "idle"

OrderInv ==
    /\ world.serial => SerialInv
    /\ NothingCloses /\ SameBuild => RaceInv

\* The parts of the serial invariant, one step at a time.
LEMMA SerialStep ==
  ASSUME TypeOK, LoopInv, RoleInv, SerialInv, world.serial, [Next]_vars
  PROVE  SerialInv'
<1> USE SingleInstanceAssumption
    DEF TypeOK, SerialInv, NamedInv, SoloInv, PassInv, Newcomer, Claim, Promised
<1>0. UNCHANGED <<world, intent>>
  BY DEF vars, Next, Launch, NewcomerStep, PrimaryStep, Exit, Crash, Probe,
     Hello, ReadReply, ReplyTimeout, Released, TryListen, Reprobe,
     RemoveServer, Relisten, Loaded, Serve, Handover, Leave
<1>1. CASE UNCHANGED vars
  BY <1>1 DEF vars, GuardedInv, Widget, Faulty
<1> SUFFICES ASSUME NEW p \in Launches,
                    \/ Launch(p)
                    \/ NewcomerStep(p)
                    \/ PrimaryStep(p)
                    \/ Exit(p)
                    \/ Crash(p)
             PROVE  SerialInv'
  BY <1>1 DEF Next
<1> USE <1>0 DEF GuardedInv, Widget, Faulty, AfterLoop
<1>2. CASE Launch(p)
  <2>1. /\ pc[p] = "idle" /\ pc' = [pc EXCEPT ![p] = "probe"]
        /\ \A q \in Launches : pc[q] \in {"run", "settings", "exited", "idle"}
        /\ attempt[p] = 0
        /\ UNCHANGED <<attempt, link, listening, sock>>
    BY <1>2 DEF Launch, LoopInv, Settled
  <2>2. SoloInv'
    <3>1. \A q \in Launches : pc'[q] \in Newcomer \cup {"load"} => q = p
      BY <2>1
    <3> QED
      BY <3>1
  <2>3. PassInv'
    BY <2>1
  <2>4. NamedInv' /\ GuardedInv'
    BY <2>1
  <2> QED
    BY <2>2, <2>3, <2>4
<1>3. CASE Probe(p)
  <2>1. CASE Connects
    <3>1. /\ pc[p] = "probe" /\ pc' = [pc EXCEPT ![p] = "hello"]
          /\ link' = [link EXCEPT ![p] = "open"]
          /\ UNCHANGED <<attempt, listening, sock>>
      BY <1>3, <2>1 DEF Probe
    <3> QED
      BY <3>1
  <2>2. CASE ~Connects
    <3>1. /\ pc[p] = "probe"
          /\ \/ intent[p] = "show" /\ pc' = [pc EXCEPT ![p] = "listen"]
             \/ intent[p] # "show" /\ pc' = [pc EXCEPT ![p] = "settings"]
          /\ UNCHANGED <<link, attempt, listening, sock>>
          /\ listening = {}
      BY <1>3, <2>2 DEF Probe, Connects
    <3>2. SoloInv'
      <4>1. \A q \in Launches : pc'[q] \in Newcomer \cup {"load"}
                               => pc[q] \in Newcomer \cup {"load"}
        BY <3>1
      <4> QED
        BY <4>1
    <3>3. PassInv'
      BY <3>1
    <3>4. NamedInv' /\ GuardedInv'
      BY <3>1
    <3> QED
      BY <3>2, <3>3, <3>4
  <2> QED
    BY <2>1, <2>2
<1>4. CASE Hello(p)
  BY <1>4 DEF Hello, RoleInv
<1>5. CASE ReadReply(p)
  BY <1>5 DEF ReadReply
<1>6. CASE ReplyTimeout(p)
  BY <1>6 DEF ReplyTimeout
<1>7. CASE Released(p)
  BY <1>7 DEF Released, NextAttempt
<1>8. CASE TryListen(p)
  <2>1. pc[p] = "listen" /\ listening = {} /\ UNCHANGED <<attempt, link>>
    BY <1>8 DEF TryListen
  <2>2. CASE Bind(p)
    <3>1. /\ pc' = [pc EXCEPT ![p] = "load"] /\ listening' = {p} /\ sock' = p
      BY <2>1, <2>2 DEF Bind
    <3> QED
      BY <2>1, <3>1
  <2>3. CASE ~Bind(p)
    <3>1. /\ UNCHANGED <<listening, sock>>
          /\ \/ pc' = [pc EXCEPT ![p] = "reprobe"]
             \/ "listenFails" \in world.faults
                  /\ pc' = [pc EXCEPT ![p] = AfterLoop(p)]
      BY <1>8, <2>3 DEF TryListen
    <3>2. SoloInv'
      <4>1. \A q \in Launches : pc'[q] \in Newcomer \cup {"load"}
                               => pc[q] \in Newcomer \cup {"load"}
        BY <2>1, <3>1
      <4> QED
        BY <4>1
    <3>3. PassInv'
      BY <2>1, <3>1
    <3>4. NamedInv' /\ GuardedInv'
      BY <2>1, <3>1
    <3> QED
      BY <3>2, <3>3, <3>4
  <2> QED
    BY <2>2, <2>3
<1>9. CASE Reprobe(p)
  <2>1. /\ pc[p] = "reprobe" /\ listening = {}
        /\ pc' = [pc EXCEPT ![p] = "remove"]
        /\ UNCHANGED <<attempt, link, listening, sock>>
    BY <1>9 DEF Reprobe, Connects
  <2> QED
    BY <2>1
<1>10. CASE RemoveServer(p)
  BY <1>10 DEF RemoveServer
<1>11. CASE Relisten(p)
  <2>1. /\ pc[p] = "relisten" /\ listening = {} /\ sock = NoFile
        /\ UNCHANGED <<attempt, link>>
    BY <1>11 DEF Relisten
  <2>2. CASE Bind(p)
    <3>1. /\ pc' = [pc EXCEPT ![p] = "load"] /\ listening' = {p} /\ sock' = p
      BY <2>1, <2>2 DEF Bind
    <3> QED
      BY <2>1, <3>1
  <2>3. CASE ~Bind(p)
    <3>1. /\ UNCHANGED <<listening, sock>>
          /\ "listenFails" \in world.faults
          /\ pc' = [pc EXCEPT ![p] = AfterLoop(p)]
      BY <1>11, <2>1, <2>3 DEF Relisten
    <3> QED
      BY <2>1, <3>1
  <2> QED
    BY <2>2, <2>3
<1>12. CASE Loaded(p)
  BY <1>12 DEF Loaded
<1>13. CASE Serve(p)
  <2> PICK c : c = Head(backlog[p])
    OBVIOUS
  <2>1. c \in Launches
    BY <1>13, BacklogEntries, TailFacts DEF Serve
  <2>2. /\ pc[p] = "run" /\ p \in listening
        /\ \A q \in Launches \ {p} : pc'[q] = pc[q]
        /\ \A q \in Launches \ {c} : link'[q] = link[q]
        /\ UNCHANGED <<attempt, listening, sock>>
    BY <1>13, <2>1 DEF Serve, RoleInv
  <2>3. listening = {p} /\ sock = p
    BY <2>2
  <2>4. CASE pc'[p] = "replied"
    <3>1. \A l \in listening' : pc'[l] = "replied"
      BY <2>2, <2>3, <2>4
    <3>2. \A q \in Launches : pc[q] \in Newcomer => attempt[q] = 0 /\ pc[q] \notin Claim
      BY <2>2, <2>3
    <3>3. \A q \in Launches : pc'[q] = "released" => link'[q] = "takeover"
      <4>1. link'[c] = "takeover" \/ pc'[c] # "released"
        BY <1>13, <2>1, <2>4 DEF Serve
      <4> QED
        BY <2>1, <2>2, <2>3, <2>4, <4>1
    <3>4. SoloInv'
      <4>1. \A q \in Launches : pc'[q] \in Newcomer \cup {"load"}
                               => pc[q] \in Newcomer \cup {"load"}
        BY <2>2, <2>4
      <4> QED
        BY <4>1
    <3>5. PassInv'
      BY <2>2, <2>4, <3>1, <3>2, <3>3
    <3>6. NamedInv' /\ GuardedInv'
      BY <2>2, <2>4
    <3> QED
      BY <3>4, <3>5, <3>6
  <2>5. CASE pc'[p] # "replied"
    <3>1. pc' = pc /\ link'[c] = "defer"
      BY <1>13, <2>1, <2>5 DEF Serve
    <3>2. \A q \in Launches : pc[q] # "released"
      BY <2>2, <2>3
    <3>3. \A q \in Launches : Promised(q)' => Promised(q)
      BY <2>1, <2>2, <3>1
    <3> QED
      BY <2>2, <3>1, <3>2, <3>3
  <2> QED
    BY <2>4, <2>5
<1>14. CASE Handover(p)
  BY <1>14 DEF Handover, CloseServer, Dropped
<1>15. CASE Leave(p)
  BY <1>15 DEF Leave, RoleInv
<1>16. CASE Exit(p)
  BY <1>16 DEF Exit, CloseServer, Dropped
<1>17. CASE Crash(p)
  BY <1>17 DEF Crash, Dropped
<1> QED
  BY <1>2, <1>3, <1>4, <1>5, <1>6, <1>7, <1>8, <1>9, <1>10, <1>11, <1>12,
     <1>13, <1>14, <1>15, <1>16, <1>17 DEF NewcomerStep, PrimaryStep

\* A race of one build: no step closes or takes over a socket.
LEMMA RaceStep ==
  ASSUME TypeOK, LoopInv, RoleInv, RaceInv, NothingCloses, SameBuild,
         SameBuild', [Next]_vars
  PROVE  RaceInv'
<1> USE SingleInstanceAssumption
    DEF TypeOK, RaceInv, NamedInv, Newcomer, Claim, NothingCloses
<1>0. UNCHANGED <<world, intent, version>>
  BY DEF vars, Next, Launch, NewcomerStep, PrimaryStep, Exit, Crash, Probe,
     Hello, ReadReply, ReplyTimeout, Released, TryListen, Reprobe,
     RemoveServer, Relisten, Loaded, Serve, Handover, Leave
<1>1. CASE UNCHANGED vars
  BY <1>1 DEF vars, GuardedInv, Widget, Faulty, Connects
<1> SUFFICES ASSUME NEW p \in Launches,
                    \/ Launch(p)
                    \/ NewcomerStep(p)
                    \/ PrimaryStep(p)
                    \/ Exit(p)
             PROVE  RaceInv'
  BY <1>1 DEF Next, Crash, Faulty
<1> USE <1>0 DEF GuardedInv, Widget, Faulty, AfterLoop, Connects
<1>2. CASE Launch(p)
  BY <1>2 DEF Launch, LoopInv
<1>3. CASE Probe(p)
  <2>1. CASE Connects
    <3>1. /\ pc[p] = "probe" /\ pc' = [pc EXCEPT ![p] = "hello"]
          /\ link' = [link EXCEPT ![p] = "open"] /\ sent' = sent \ {p}
          /\ sock \in Launches
          /\ backlog'[sock] = Append(backlog[sock], p)
          /\ \A q \in Launches \ {sock} : backlog'[q] = backlog[q]
          /\ UNCHANGED <<attempt, listening, sock>>
      BY <1>3, <2>1 DEF Probe
    <3>2. /\ Len(backlog'[sock]) = Len(backlog[sock]) + 1
          /\ backlog'[sock][Len(backlog[sock]) + 1] = p
          /\ \A i \in 1 .. Len(backlog[sock]) : backlog'[sock][i] = backlog[sock][i]
          /\ Len(backlog[sock]) \in Nat
      BY <3>1, BacklogEntries, AppendFacts
    <3>3. ASSUME NEW q \in Launches, NEW i \in 1 .. Len(backlog'[q])
          PROVE  pc'[backlog'[q][i]] # "idle"
      <4>1. CASE q = sock /\ i = Len(backlog[sock]) + 1
        BY <4>1, <3>1, <3>2
      <4>2. CASE ~(q = sock /\ i = Len(backlog[sock]) + 1)
        <5>1. i \in 1 .. Len(backlog[q]) /\ backlog'[q][i] = backlog[q][i]
          <6>1. CASE q = sock
            <7>1. i \in 1 .. (Len(backlog[sock]) + 1) /\ i # Len(backlog[sock]) + 1
              BY <6>1, <4>2, <3>2
            <7>2. i \in 1 .. Len(backlog[sock])
              BY <7>1, <3>2
            <7> QED
              BY <6>1, <7>2, <3>2
          <6>2. CASE q # sock
            BY <6>2, <3>1
          <6> QED
            BY <6>1, <6>2
        <5>2. backlog[q][i] \in Launches /\ pc[backlog[q][i]] # "idle"
          BY <5>1, BacklogEntries
        <5> QED
          BY <5>1, <5>2, <3>1
      <4> QED
        BY <4>1, <4>2
    <3>4. \A q \in Launches :
            /\ pc'[q] \notin {"remove", "relisten", "released", "replied", "closed"}
            /\ pc'[q] = "reprobe" => Connects'
            /\ pc'[q] \in Newcomer /\ attempt'[q] # 0 => Connects' /\ pc'[q] \notin Claim
            /\ link'[q] # "takeover"
            /\ q \in sent' => pc'[q] # "idle"
      BY <3>1
    <3> QED
      BY <3>1, <3>3, <3>4
  <2>2. CASE ~Connects
    BY <1>3, <2>2 DEF Probe
  <2> QED
    BY <2>1, <2>2
<1>4. CASE Hello(p)
  BY <1>4 DEF Hello
<1>5. CASE ReadReply(p)
  BY <1>5 DEF ReadReply
<1>6. CASE ReplyTimeout(p)
  BY <1>6 DEF ReplyTimeout
<1>7. CASE Released(p)
  BY <1>7 DEF Released
<1>8. CASE TryListen(p)
  <2>1. /\ pc[p] = "listen" /\ attempt[p] = 0
        /\ UNCHANGED <<attempt, link, sent, backlog>>
    BY <1>8 DEF TryListen
  <2>2. CASE Bind(p)
    <3>1. /\ pc' = [pc EXCEPT ![p] = "load"]
          /\ sock' = p /\ listening' = {p} /\ ~Connects
      BY <2>2 DEF Bind
    <3>2. \A q \in Launches : ~Widget(q) \/ Faulty("listenFails")
      BY <3>1
    <3>3. NamedInv' /\ GuardedInv' /\ sock' \in listening'
      BY <3>1, <3>2
    <3> QED
      BY <2>1, <3>1, <3>3
  <2>3. CASE sock # NoFile /\ Goto(p, "reprobe") /\ UNCHANGED <<listening, sock>>
    <3>1. pc' = [pc EXCEPT ![p] = "reprobe"] /\ Connects /\ Connects'
      BY <2>3
    <3>2. NamedInv' /\ GuardedInv'
      BY <2>3, <3>1
    <3> QED
      BY <2>1, <2>3, <3>1, <3>2
  <2>4. CASE Faulty("listenFails") /\ Goto(p, AfterLoop(p)) /\ UNCHANGED <<listening, sock>>
    <3>1. pc' = [pc EXCEPT ![p] = AfterLoop(p)] /\ AfterLoop(p) \in {"load", "settings"}
      BY <2>4
    <3> QED
      BY <2>1, <2>4, <3>1
  <2> QED
    BY <1>8, <2>2, <2>3, <2>4 DEF TryListen
<1>9. CASE Reprobe(p)
  <2>1. /\ pc[p] = "reprobe" /\ Connects /\ attempt[p] = 0
        /\ pc' = [pc EXCEPT ![p] = "probe"]
        /\ UNCHANGED <<link, sent, backlog, listening, sock>>
        /\ attempt' \in [Launches -> Nat]
        /\ \A q \in Launches \ {p} : attempt'[q] = attempt[q]
    <3>1. pc[p] = "reprobe" /\ Connects /\ attempt[p] = 0
      BY <1>9 DEF Reprobe
    <3>2. NextAttempt(p) /\ UNCHANGED <<link, sent, backlog, listening, sock>>
      BY <1>9, <3>1 DEF Reprobe
    <3>3. attempt[p] + 1 < MaxAttempts
      BY <3>1
    <3> QED
      BY <3>1, <3>2, <3>3 DEF NextAttempt
  <2>2. NamedInv' /\ GuardedInv' /\ Connects'
    BY <2>1
  <2>3. \A q \in Launches : pc'[q] \in Newcomer /\ attempt'[q] # 0 => pc'[q] \notin Claim
    BY <2>1
  <2>4. \A q \in Launches :
          /\ pc'[q] \notin {"remove", "relisten", "released", "replied", "closed"}
          /\ q \in sent' => pc'[q] # "idle"
    BY <2>1
  <2>5. ASSUME NEW q \in Launches, NEW i \in 1 .. Len(backlog'[q])
        PROVE  pc'[backlog'[q][i]] # "idle"
    <3>1. backlog'[q][i] = backlog[q][i] /\ backlog[q][i] \in Launches
      BY <2>1, BacklogEntries
    <3>2. pc[backlog[q][i]] # "idle"
      BY <2>1
    <3> QED
      BY <2>1, <3>1, <3>2
  <2> QED
    BY <2>1, <2>2, <2>3, <2>4, <2>5
<1>10. CASE RemoveServer(p) \/ Relisten(p) \/ Handover(p) \/ Leave(p)
  BY <1>10 DEF RemoveServer, Relisten, Handover, Leave
<1>11. CASE Loaded(p)
  BY <1>11 DEF Loaded
<1>12. CASE Serve(p)
  <2> PICK c : c = Head(backlog[p])
    OBVIOUS
  <2>1. /\ c \in Launches /\ pc[c] # "idle" /\ pc[p] = "run"
    BY <1>12, BacklogEntries, TailFacts DEF Serve
  <2>2. ~Supersedes(c, p)
    BY <2>1 DEF SameBuild, Supersedes
  <2>3. /\ link' = [link EXCEPT ![c] = "defer"]
        /\ backlog[p] # << >>
        /\ backlog'[p] = Tail(backlog[p])
        /\ \A q \in Launches \ {p} : backlog'[q] = backlog[q]
        /\ UNCHANGED <<pc, attempt, sent, listening, sock>>
    BY <1>12, <2>1, <2>2 DEF Serve
  <2>4. \A i \in 1 .. Len(backlog'[p]) :
          i + 1 \in 1 .. Len(backlog[p]) /\ backlog'[p][i] = backlog[p][i + 1]
    BY <2>3, BacklogEntries, TailFacts
  <2>5. \A q \in Launches : \A i \in 1 .. Len(backlog'[q]) : pc[backlog'[q][i]] # "idle"
    <3>1. ASSUME NEW i \in 1 .. Len(backlog'[p])
          PROVE  pc[backlog'[p][i]] # "idle"
      <4>1. pc[backlog[p][i + 1]] # "idle"
        BY <2>4
      <4> QED
        BY <2>4, <4>1
    <3>2. ASSUME NEW q \in Launches, q # p, NEW i \in 1 .. Len(backlog'[q])
          PROVE  pc[backlog'[q][i]] # "idle"
      <4>1. backlog'[q] = backlog[q]
        BY <2>3, <3>2
      <4> QED
        BY <4>1
    <3> QED
      BY <3>1, <3>2
  <2>6. NamedInv' /\ GuardedInv'
    BY <2>3
  <2>7. \A q \in Launches : link'[q] # "takeover"
    BY <2>1, <2>3
  <2> QED
    BY <2>3, <2>5, <2>6, <2>7
<1>13. CASE Exit(p)
  <2>1. /\ pc[p] = "settings" /\ p \notin listening
        /\ pc' = [pc EXCEPT ![p] = "exited"]
        /\ UNCHANGED <<attempt, sent, listening, sock>>
        /\ \A q \in Launches : link'[q] # "takeover"
        /\ backlog'[p] = << >>
        /\ \A q \in Launches \ {p} : backlog'[q] = backlog[q]
    BY <1>13 DEF Exit, CloseServer, Dropped, RoleInv
  <2>2. \A q \in Launches : \A i \in 1 .. Len(backlog'[q]) : pc'[backlog'[q][i]] # "idle"
    <3>1. Len(backlog'[p]) = 0
      BY <2>1
    <3>2. ASSUME NEW q \in Launches, NEW i \in 1 .. Len(backlog'[q])
          PROVE  pc'[backlog'[q][i]] # "idle"
      <4>1. backlog'[q] = backlog[q]
        BY <2>1, <3>1
      <4>2. backlog[q][i] \in Launches /\ pc[backlog[q][i]] # "idle"
        BY <4>1, BacklogEntries
      <4> QED
        BY <2>1, <4>1, <4>2
    <3> QED
      BY <3>2
  <2> QED
    BY <2>1, <2>2
<1> QED
  BY <1>2, <1>3, <1>4, <1>5, <1>6, <1>7, <1>8, <1>9, <1>10, <1>11, <1>12,
     <1>13 DEF NewcomerStep, PrimaryStep

\* Sequential and concurrent circumstances together.
LEMMA OrderStep ==
  ASSUME TypeOK, LoopInv, RoleInv, OrderInv, [Next]_vars
  PROVE  OrderInv'
<1>1. UNCHANGED <<world, version>>
  BY DEF vars, Next, Launch, NewcomerStep, PrimaryStep, Exit, Crash, Probe,
     Hello, ReadReply, ReplyTimeout, Released, TryListen, Reprobe,
     RemoveServer, Relisten, Loaded, Serve, Handover, Leave
<1>2. \A p \in Launches : pc[p] # "idle" => pc'[p] # "idle"
  BY DEF TypeOK, AfterLoop, vars, Next, Launch, NewcomerStep, PrimaryStep, Exit,
     Crash, Probe, Hello, ReadReply, ReplyTimeout, Released, NextAttempt,
     TryListen, Bind, Reprobe, RemoveServer, Relisten, Loaded, Serve, Handover,
     Leave
<1>3. SameBuild' => SameBuild
  BY <1>1, <1>2 DEF SameBuild
<1> QED
  BY <1>1, <1>3, SerialStep, RaceStep DEF OrderInv, NothingCloses

\* The type invariant with the two that its induction and this one lean on.
LEMMA OrderHolds == Spec => [](TypeOK /\ LoopInv /\ RoleInv /\ OrderInv)
<1>1. Init => OrderInv
  BY SingleInstanceAssumption
  DEF Init, OrderInv, SerialInv, RaceInv, NamedInv, GuardedInv, SoloInv,
      PassInv, Newcomer, Claim, Promised, Widget, NothingCloses
<1> QED
  BY <1>1, LoopHolds, RolesHold, OrderStep, PTL DEF Spec

\* Launches do not pile up (issue #103): one after the other, with anything
\* going wrong in between, or all at once from one build on a desktop where
\* nothing closes a socket (main.cpp:126-128).
THEOREM PileUpHolds == Spec => []NoPileUp
<1>1. OrderInv => NoPileUp
  <2> SUFFICES ASSUME OrderInv, Orderly,
                      NEW p \in Launches, NEW q \in Launches,
                      Widget(p), Widget(q),
                      {p, q} \subseteq listening \/ ~Faulty("listenFails")
               PROVE  p = q
    BY DEF NoPileUp
  <2>1. NamedInv /\ GuardedInv
    BY DEF OrderInv, Orderly, SerialInv, RaceInv
  <2>2. p \in listening /\ q \in listening
    BY <2>1 DEF GuardedInv
  <2> QED
    BY <2>1, <2>2 DEF NamedInv
<1> QED
  BY <1>1, OrderHolds, PTL

\* In the same circumstances a live primary's socket file is never unlinked
\* under it (single_instance.h:75-77).
THEOREM LiveSocketHolds == Spec => LiveSocketKept
<1>1. TypeOK /\ RoleInv /\ OrderInv /\ [Next]_vars
        => [Orderly /\ Connects /\ sock' # sock => sock \notin listening']_vars
  <2> SUFFICES ASSUME TypeOK, RoleInv, OrderInv, Next,
                      Orderly, Connects, sock' # sock
               PROVE  sock \notin listening'
    BY DEF vars
  <2>1. PICK p \in Launches : \/ Launch(p) \/ NewcomerStep(p) \/ PrimaryStep(p)
                              \/ Exit(p) \/ Crash(p)
    BY DEF Next
  <2>2. NamedInv /\ pc[p] # "remove" /\ sock # NoFile
    BY SingleInstanceAssumption
    DEF OrderInv, Orderly, SerialInv, RaceInv, PassInv, Claim, Connects, TypeOK
  <2>3. CloseServer(p) /\ p \in listening
    BY <2>1, <2>2 DEF NewcomerStep, PrimaryStep, Launch, Exit, Crash, Probe,
       Hello, ReadReply, ReplyTimeout, Released, TryListen, Bind, Reprobe,
       RemoveServer, Relisten, Loaded, Serve, Handover, Leave, CloseServer
  <2> QED
    BY <2>2, <2>3 DEF CloseServer, Dropped, NamedInv, Connects
<1> QED
  BY <1>1, OrderHolds, PTL DEF Spec, LiveSocketKept

=============================================================================

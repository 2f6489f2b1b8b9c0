----------------------- MODULE LauncherEntriesProofs ------------------------
(***************************************************************************)
(* What holds of the launcher entries for every set of builds and any      *)
(* number of launches and clicks.                                          *)
(*                                                                         *)
(* The steps a thread still has to take are a sequence that grows at its   *)
(* head only.  Its order is one invariant (Ordered); everything else asks  *)
(* only which steps lie ahead (Ahead), a set.                              *)
(***************************************************************************)
EXTENDS LauncherEntries, SequenceTheorems, TLAPS

\* The steps of a plan, and those that thread t has still to take.
Steps(q) == {q[i] : i \in 1 .. Len(q)}
Ahead(t) == Steps(todo[t])

Calm == ~world.racing

\* What a look finds, and what a write writes, has been rendered just before;
\* a rendering is used; a removal is followed by an orphan check; the removal of
\* an entry and of the copy are taken at once, and nothing but a check and the
\* end follows them.
Ordered(q) ==
  /\ \A i \in 1 .. Len(q) : \A e \in Entries :
       /\ q[i] \in {<<"look", e>>, <<"write", e>>} => i = 1 \/ q[i - 1] = <<"render", e>>
       /\ q[i] = <<"render", e>> =>
            i + 1 \in 1 .. Len(q) /\ q[i + 1] \in {<<"look", e>>, <<"write", e>>}
       /\ q[i] = <<"remove", e>> =>
            i = 1 /\ 2 \in 1 .. Len(q) /\ q[2] = <<"orphan", "both">>
  /\ \A i \in 1 .. Len(q) : q[i] = <<"unlink", "both">> => i = 1
  /\ \A i, j \in 1 .. Len(q) :
       i < j /\ q[i][1] \in {"remove", "orphan", "unlink"}
       => q[j] \in {<<"orphan", "both">>, <<"done", "both">>}

GuiStep == ({"start", "render", "look", "write", "remove"} \X Entries)
           \cup ({"ensure", "orphan", "unlink"} \X {"both"})
WorkerStep == ({"render", "look", "write"} \X Entries)
              \cup ({"orphan", "unlink", "copy", "done"} \X {"both"})

\* The order of the steps, who takes them, and what they work with.
PlanInv ==
  /\ \A t \in Thread : Ordered(todo[t])
  /\ Ahead("gui") \subseteq GuiStep
  /\ Ahead("worker") \subseteq WorkerStep
  /\ <<"copy", "both">> \in Ahead("worker") => todo["worker"] = << <<"copy", "both">> >>
  /\ path = NoProcess => \A t \in Thread : todo[t] = << >>
  /\ path # NoProcess => build \in Builds
  /\ \A t \in Thread, e \in Entries :
       todo[t] # << >> /\ Head(todo[t]) \in {<<"look", e>>, <<"write", e>>} => text[t] \in Targets
  /\ Calm => todo["gui"] = << >> \/ todo["worker"] \in {<< >>, << <<"copy", "both">> >>}

\* In a calm world what has been rendered is up to date when it is used, and
\* the copy is removed only while nothing names it.
CalmInv ==
  Calm =>
    /\ \A t \in Thread, e \in Entries :
         todo[t] # << >> /\ Head(todo[t]) \in {<<"look", e>>, <<"write", e>>} => text[t] = ExecTarget
    /\ \A t \in Thread : <<"unlink", "both">> \in Ahead(t) => Enabled = {}
    /\ \A e \in Entries : <<"write", e>> \in Ahead("worker") => e \in Enabled

\* A session that runs from the copy keeps an entry, and so the copy.
CopyInv ==
  Calm /\ ~world.untick =>
    /\ \A e \in Entries : entry[e] = Stable => copy # NoFile
    /\ path = Stable => /\ copy = build
                        /\ \E e \in Enabled : <<"remove", e>> \notin Ahead("gui")

\* An entry that is behind has its refresh ahead.
HealInv ==
  Calm /\ path # NoProcess /\ ~Faulty("writeFails") =>
    \A e \in Enabled :
      \/ entry[e] = ExecTarget
      \/ \E t \in Thread : Ahead(t) \cap {<<"render", e>>, <<"look", e>>, <<"write", e>>} # {}

\* Whoever has, or is about to have, an entry has the copy of this build, or is
\* making it, or is about to look whether there is one.
CurrentInv ==
  /\ Calm /\ ~world.untick /\ ~Faulty("copyFails")
  /\ path \in downloads \cup {Stable}
  /\ Enabled # {} \/ \E e \in Entries : <<"write", e>> \in Ahead("gui")
  => \/ copy = build
     \/ <<"copy", "both">> \in Ahead("worker")
     \/ <<"ensure", "both">> \in Ahead("gui")
     \/ \E e \in Enabled : <<"start", e>> \in Ahead("gui")

\* A copy that nothing names has its removal ahead.
LeakInv ==
  ~Faulty("kill") /\ Enabled = {} /\ copy # NoFile =>
    \E t \in Thread : Ahead(t) \cap {<<"orphan", "both">>, <<"unlink", "both">>} # {}

\* What lies ahead agrees with the last click: what it left enabled is there or
\* about to be, and in a calm world what it turned off is gone or about to go.
WantedInv ==
  ~Faulty("writeFails") /\ ~Faulty("kill") =>
    \A e \in Entries :
      /\ <<"remove", e>> \in Ahead("gui") => e \notin wanted
      /\ e \in wanted => e \in Enabled \/ <<"write", e>> \in Ahead("gui")
      /\ Calm => /\ \A t \in Thread : <<"write", e>> \in Ahead(t) => e \in wanted
                 /\ e \in Enabled => e \in wanted \/ <<"remove", e>> \in Ahead("gui")

IInv == /\ TypeOK /\ PlanInv /\ CalmInv /\ CopyInv
        /\ HealInv /\ CurrentInv /\ LeakInv /\ WantedInv

-----------------------------------------------------------------------------
(***************************************************************************)
(* Sequences.                                                              *)
(***************************************************************************)

\* The elements of a concatenation.
LEMMA Joined ==
  ASSUME NEW S, NEW s \in Seq(S), NEW t \in Seq(S)
  PROVE  /\ s \o t \in Seq(S)
         /\ Len(s \o t) = Len(s) + Len(t)
         /\ \A i \in 1 .. Len(s) : (s \o t)[i] = s[i]
         /\ 1 \in 1 .. Len(t) => (s \o t)[Len(s) + 1] = t[1]
         /\ 2 \in 1 .. Len(t) => (s \o t)[Len(s) + 2] = t[2]
<1>1. /\ s \o t \in Seq(S)
      /\ Len(s \o t) = Len(s) + Len(t)
      /\ \A i \in 1 .. Len(s) : (s \o t)[i] = s[i]
      /\ \A i \in 1 .. Len(t) : (s \o t)[Len(s) + i] = t[i]
  BY ConcatProperties
<1> QED
  BY <1>1

\* The plans of a launch and of a landed copy, step by step.
LEMMA Plans ==
  /\ Startup \in Seq(Step) /\ Len(Startup) = 6
  /\ Startup[1] = <<"start", "autostart">> /\ Startup[2] = <<"render", "autostart">>
  /\ Startup[3] = <<"look", "autostart">> /\ Startup[4] = <<"start", "menu">>
  /\ Startup[5] = <<"render", "menu">> /\ Startup[6] = <<"look", "menu">>
  /\ Landed \in Seq(Step) /\ Len(Landed) = 6
  /\ Landed[1] = <<"render", "autostart">> /\ Landed[2] = <<"look", "autostart">>
  /\ Landed[3] = <<"render", "menu">> /\ Landed[4] = <<"look", "menu">>
  /\ Landed[5] = <<"orphan", "both">> /\ Landed[6] = <<"done", "both">>
<1>1. ASSUME NEW e \in Entries
      PROVE  /\ Refresh(e) \in Seq(Step) /\ Len(Refresh(e)) = 2
             /\ Refresh(e)[1] = <<"render", e>> /\ Refresh(e)[2] = <<"look", e>>
             /\ << <<"start", e>> >> \in Seq(Step) /\ Len(<< <<"start", e>> >>) = 1
             /\ << <<"start", e>> >>[1] = <<"start", e>>
  BY DEF Refresh, Step, Entries
<1>2. /\ Done \in Seq(Step) /\ Len(Done) = 1 /\ Done[1] = <<"done", "both">>
      /\ << <<"orphan", "both">> >> \in Seq(Step) /\ Len(<< <<"orphan", "both">> >>) = 1
      /\ << <<"orphan", "both">> >>[1] = <<"orphan", "both">>
  BY DEF Done, Step
<1> DEFINE ra == Refresh("autostart")  rm == Refresh("menu")
           sa == << <<"start", "autostart">> >>  sm == << <<"start", "menu">> >>
           o == << <<"orphan", "both">> >>
           s1 == sa \o ra  s2 == s1 \o sm  s3 == s2 \o rm
           l1 == ra \o rm  l2 == l1 \o o  l3 == l2 \o Done
<1>3. Startup = s3 /\ Landed = l3
  BY DEF Startup, Landed
<1>4. /\ ra \in Seq(Step) /\ rm \in Seq(Step) /\ sa \in Seq(Step)
      /\ sm \in Seq(Step) /\ o \in Seq(Step) /\ Done \in Seq(Step)
  BY <1>1, <1>2 DEF Entries
<1>5. /\ Len(ra) = 2 /\ ra[1] = <<"render", "autostart">> /\ ra[2] = <<"look", "autostart">>
      /\ Len(rm) = 2 /\ rm[1] = <<"render", "menu">> /\ rm[2] = <<"look", "menu">>
      /\ Len(sa) = 1 /\ sa[1] = <<"start", "autostart">>
      /\ Len(sm) = 1 /\ sm[1] = <<"start", "menu">>
      /\ Len(o) = 1 /\ o[1] = <<"orphan", "both">>
      /\ Len(Done) = 1 /\ Done[1] = <<"done", "both">>
  BY <1>1, <1>2 DEF Entries
<1> HIDE DEF ra, rm, sa, sm, o
<1>6. s1 \in Seq(Step) /\ l1 \in Seq(Step)
  BY <1>4, Joined
<1>7. s2 \in Seq(Step) /\ l2 \in Seq(Step)
  BY <1>4, <1>6, Joined
<1>8. s3 \in Seq(Step) /\ l3 \in Seq(Step)
  BY <1>4, <1>7, Joined
<1>9. /\ Len(s1) = 3
      /\ s1[1] = sa[1]
      /\ s1[2] = ra[1] /\ s1[3] = ra[2]
  <2>1. /\ Len(s1) = Len(sa) + Len(ra)
        /\ \A i \in 1 .. Len(sa) : s1[i] = sa[i]
        /\ 1 \in 1 .. Len(ra) => s1[Len(sa) + 1] = ra[1]
        /\ 2 \in 1 .. Len(ra) => s1[Len(sa) + 2] = ra[2]
    BY <1>4, Joined
  <2> HIDE DEF s1
  <2> QED
    BY <1>5, <2>1
<1>10. /\ Len(l1) = 4
       /\ l1[1] = ra[1] /\ l1[2] = ra[2]
       /\ l1[3] = rm[1] /\ l1[4] = rm[2]
  <2>1. /\ Len(l1) = Len(ra) + Len(rm)
        /\ \A i \in 1 .. Len(ra) : l1[i] = ra[i]
        /\ 1 \in 1 .. Len(rm) => l1[Len(ra) + 1] = rm[1]
        /\ 2 \in 1 .. Len(rm) => l1[Len(ra) + 2] = rm[2]
    BY <1>4, Joined
  <2> HIDE DEF l1
  <2> QED
    BY <1>5, <2>1
<1>11. /\ Len(s2) = 4
       /\ s2[1] = s1[1] /\ s2[2] = s1[2] /\ s2[3] = s1[3]
       /\ s2[4] = sm[1]
  <2>1. /\ Len(s2) = Len(s1) + Len(sm)
        /\ \A i \in 1 .. Len(s1) : s2[i] = s1[i]
        /\ 1 \in 1 .. Len(sm) => s2[Len(s1) + 1] = sm[1]
        /\ 2 \in 1 .. Len(sm) => s2[Len(s1) + 2] = sm[2]
    BY <1>4, <1>6, Joined
  <2> HIDE DEF s2
  <2> QED
    BY <1>5, <1>9, <2>1
<1>12. /\ Len(l2) = 5
       /\ l2[1] = l1[1] /\ l2[2] = l1[2] /\ l2[3] = l1[3] /\ l2[4] = l1[4]
       /\ l2[5] = o[1]
  <2>1. /\ Len(l2) = Len(l1) + Len(o)
        /\ \A i \in 1 .. Len(l1) : l2[i] = l1[i]
        /\ 1 \in 1 .. Len(o) => l2[Len(l1) + 1] = o[1]
        /\ 2 \in 1 .. Len(o) => l2[Len(l1) + 2] = o[2]
    BY <1>4, <1>6, Joined
  <2> HIDE DEF l2
  <2> QED
    BY <1>5, <1>10, <2>1
<1>13. /\ Len(s3) = 6
       /\ s3[1] = s2[1] /\ s3[2] = s2[2] /\ s3[3] = s2[3] /\ s3[4] = s2[4]
       /\ s3[5] = rm[1] /\ s3[6] = rm[2]
  <2>1. /\ Len(s3) = Len(s2) + Len(rm)
        /\ \A i \in 1 .. Len(s2) : s3[i] = s2[i]
        /\ 1 \in 1 .. Len(rm) => s3[Len(s2) + 1] = rm[1]
        /\ 2 \in 1 .. Len(rm) => s3[Len(s2) + 2] = rm[2]
    BY <1>4, <1>7, Joined
  <2> HIDE DEF s3
  <2> QED
    BY <1>5, <1>11, <2>1
<1>14. /\ Len(l3) = 6
       /\ l3[1] = l2[1] /\ l3[2] = l2[2] /\ l3[3] = l2[3] /\ l3[4] = l2[4] /\ l3[5] = l2[5]
       /\ l3[6] = Done[1]
  <2>1. /\ Len(l3) = Len(l2) + Len(Done)
        /\ \A i \in 1 .. Len(l2) : l3[i] = l2[i]
        /\ 1 \in 1 .. Len(Done) => l3[Len(l2) + 1] = Done[1]
        /\ 2 \in 1 .. Len(Done) => l3[Len(l2) + 2] = Done[2]
    BY <1>4, <1>7, Joined
  <2> HIDE DEF l3
  <2> QED
    BY <1>5, <1>12, <2>1
<1> HIDE DEF s1, l1, s2, l2, s3, l3
<1> QED
  BY <1>2, <1>3, <1>5, <1>8, <1>9, <1>10, <1>11, <1>12, <1>13, <1>14

LEMMA StartupPlan ==
  /\ Ordered(Startup) /\ Startup # << >> /\ Head(Startup) = <<"start", "autostart">>
  /\ Steps(Startup) = {"start", "render", "look"} \X Entries
<1>1. 1 .. Len(Startup) = {1, 2, 3, 4, 5, 6}
  BY Plans
<1>2. Startup # << >> /\ Head(Startup) = Startup[1]
  BY Plans
<1>3. Steps(Startup) = {Startup[1], Startup[2], Startup[3], Startup[4], Startup[5], Startup[6]}
  BY <1>1 DEF Steps
<1>4. Steps(Startup) = {"start", "render", "look"} \X Entries
  BY <1>3, Plans DEF Entries
<1>5. Ordered(Startup)
  <2> DEFINE q == Startup
  <2>1. ASSUME NEW i \in 1 .. Len(q), NEW e \in Entries
        PROVE  /\ q[i] \in {<<"look", e>>, <<"write", e>>} => i = 1 \/ q[i - 1] = <<"render", e>>
               /\ q[i] = <<"render", e>> =>
                    i + 1 \in 1 .. Len(q) /\ q[i + 1] \in {<<"look", e>>, <<"write", e>>}
               /\ q[i] # <<"remove", e>> /\ q[i] # <<"unlink", "both">>
    <3>1. CASE i = 1
      <4>2. q[i] = <<"start", "autostart">>
        BY <3>1, Plans
      <4> HIDE DEF q
      <4> QED
        BY <4>2 DEF Entries
    <3>2. CASE i = 2
      <4>1. i + 1 = 3
        BY <3>2
      <4>2. q[i] = <<"render", "autostart">> /\ i + 1 \in 1 .. Len(q) /\ q[i + 1] = <<"look", "autostart">>
        BY <1>1, <3>2, <4>1, Plans
      <4> HIDE DEF q
      <4> QED
        BY <4>2 DEF Entries
    <3>3. CASE i = 3
      <4>1. i - 1 = 2
        BY <3>3
      <4>2. q[i] = <<"look", "autostart">> /\ q[i - 1] = <<"render", "autostart">>
        BY <1>1, <3>3, <4>1, Plans
      <4> HIDE DEF q
      <4> QED
        BY <4>2 DEF Entries
    <3>4. CASE i = 4
      <4>2. q[i] = <<"start", "menu">>
        BY <3>4, Plans
      <4> HIDE DEF q
      <4> QED
        BY <4>2 DEF Entries
    <3>5. CASE i = 5
      <4>1. i + 1 = 6
        BY <3>5
      <4>2. q[i] = <<"render", "menu">> /\ i + 1 \in 1 .. Len(q) /\ q[i + 1] = <<"look", "menu">>
        BY <1>1, <3>5, <4>1, Plans
      <4> HIDE DEF q
      <4> QED
        BY <4>2 DEF Entries
    <3>6. CASE i = 6
      <4>1. i - 1 = 5
        BY <3>6
      <4>2. q[i] = <<"look", "menu">> /\ q[i - 1] = <<"render", "menu">>
        BY <1>1, <3>6, <4>1, Plans
      <4> HIDE DEF q
      <4> QED
        BY <4>2 DEF Entries
    <3> QED
      BY <1>1, <3>1, <3>2, <3>3, <3>4, <3>5, <3>6
  <2>2. \A i \in 1 .. Len(q) : q[i][1] \in {"start", "render", "look"}
    BY <1>1, Plans
  <2> QED
    BY <2>1, <2>2 DEF Ordered, Entries
<1> QED
  BY <1>2, <1>4, <1>5, Plans

LEMMA LandedPlan ==
  /\ Ordered(Landed) /\ Landed # << >> /\ Head(Landed) = <<"render", "autostart">>
  /\ Steps(Landed) = ({"render", "look"} \X Entries)
                     \cup {<<"orphan", "both">>, <<"done", "both">>}
<1>1. 1 .. Len(Landed) = {1, 2, 3, 4, 5, 6}
  BY Plans
<1>2. Landed # << >> /\ Head(Landed) = Landed[1]
  BY Plans
<1>3. Steps(Landed) = {Landed[1], Landed[2], Landed[3], Landed[4], Landed[5], Landed[6]}
  BY <1>1 DEF Steps
<1>4. Steps(Landed) = ({"render", "look"} \X Entries)
                     \cup {<<"orphan", "both">>, <<"done", "both">>}
  BY <1>3, Plans DEF Entries
<1>5. Ordered(Landed)
  <2> DEFINE q == Landed
  <2>1. ASSUME NEW i \in 1 .. Len(q), NEW e \in Entries
        PROVE  /\ q[i] \in {<<"look", e>>, <<"write", e>>} => i = 1 \/ q[i - 1] = <<"render", e>>
               /\ q[i] = <<"render", e>> =>
                    i + 1 \in 1 .. Len(q) /\ q[i + 1] \in {<<"look", e>>, <<"write", e>>}
               /\ q[i] # <<"remove", e>> /\ q[i] # <<"unlink", "both">>
    <3>1. CASE i = 1
      <4>1. i + 1 = 2
        BY <3>1
      <4>2. q[i] = <<"render", "autostart">> /\ i + 1 \in 1 .. Len(q) /\ q[i + 1] = <<"look", "autostart">>
        BY <1>1, <3>1, <4>1, Plans
      <4> HIDE DEF q
      <4> QED
        BY <4>2 DEF Entries
    <3>2. CASE i = 2
      <4>1. i - 1 = 1
        BY <3>2
      <4>2. q[i] = <<"look", "autostart">> /\ q[i - 1] = <<"render", "autostart">>
        BY <1>1, <3>2, <4>1, Plans
      <4> HIDE DEF q
      <4> QED
        BY <4>2 DEF Entries
    <3>3. CASE i = 3
      <4>1. i + 1 = 4
        BY <3>3
      <4>2. q[i] = <<"render", "menu">> /\ i + 1 \in 1 .. Len(q) /\ q[i + 1] = <<"look", "menu">>
        BY <1>1, <3>3, <4>1, Plans
      <4> HIDE DEF q
      <4> QED
        BY <4>2 DEF Entries
    <3>4. CASE i = 4
      <4>1. i - 1 = 3
        BY <3>4
      <4>2. q[i] = <<"look", "menu">> /\ q[i - 1] = <<"render", "menu">>
        BY <1>1, <3>4, <4>1, Plans
      <4> HIDE DEF q
      <4> QED
        BY <4>2 DEF Entries
    <3>5. CASE i = 5
      <4>2. q[i] = <<"orphan", "both">>
        BY <3>5, Plans
      <4> HIDE DEF q
      <4> QED
        BY <4>2 DEF Entries
    <3>6. CASE i = 6
      <4>2. q[i] = <<"done", "both">>
        BY <3>6, Plans
      <4> HIDE DEF q
      <4> QED
        BY <4>2 DEF Entries
    <3> QED
      BY <1>1, <3>1, <3>2, <3>3, <3>4, <3>5, <3>6
  <2>2. ASSUME NEW i \in 1 .. Len(q), NEW j \in 1 .. Len(q), i < j,
               q[i][1] \in {"remove", "orphan", "unlink"}
        PROVE  q[j] = <<"done", "both">>
    <3>1. q[1][1] = "render" /\ q[2][1] = "look" /\ q[3][1] = "render" /\ q[4][1] = "look"
      BY Plans
    <3>2. i \notin {1, 2, 3, 4}
      BY <2>2, <3>1
    <3>3. i \in {5, 6} /\ j \in 1 .. 6
      BY <1>1, <3>2
    <3>4. j = 6
      BY <2>2, <3>3
    <3> QED
      BY <3>4, Plans
  <2> QED
    BY <2>1, <2>2 DEF Ordered, Entries
<1> QED
  BY <1>2, <1>4, <1>5, Plans

\* The short plans.
LEMMA ShortPlans ==
  /\ \A e \in Entries :
       /\ TurnOn(e) \in Seq(Step) /\ Ordered(TurnOn(e)) /\ TurnOn(e) # << >>
       /\ Head(TurnOn(e)) = <<"ensure", "both">>
       /\ Steps(TurnOn(e)) = {<<"ensure", "both">>, <<"render", e>>, <<"write", e>>}
       /\ TurnOff(e) \in Seq(Step) /\ Ordered(TurnOff(e)) /\ TurnOff(e) # << >>
       /\ Head(TurnOff(e)) = <<"remove", e>>
       /\ Steps(TurnOff(e)) = {<<"remove", e>>, <<"orphan", "both">>}
  /\ \A s \in {<<"copy", "both">>, <<"done", "both">>} :
       /\ <<s>> \in Seq(Step) /\ Ordered(<<s>>) /\ <<s>> # << >>
       /\ Head(<<s>>) = s /\ Steps(<<s>>) = {s}
  /\ << >> \in Seq(Step) /\ Ordered(<< >>) /\ Steps(<< >>) = {}
<1>1. ASSUME NEW e \in Entries
      PROVE  /\ TurnOn(e) \in Seq(Step) /\ Ordered(TurnOn(e)) /\ TurnOn(e) # << >>
             /\ Head(TurnOn(e)) = <<"ensure", "both">>
             /\ Steps(TurnOn(e)) = {<<"ensure", "both">>, <<"render", e>>, <<"write", e>>}
  <2> DEFINE q == TurnOn(e)
  <2>1. /\ q \in Seq(Step) /\ Len(q) = 3 /\ q # << >>
        /\ q[1] = <<"ensure", "both">> /\ q[2] = <<"render", e>> /\ q[3] = <<"write", e>>
    BY DEF TurnOn, Step
  <2> HIDE DEF q
  <2>2. 1 .. Len(q) = {1, 2, 3} /\ Head(q) = q[1]
    BY <2>1
  <2>3. Steps(q) = {q[1], q[2], q[3]}
    BY <2>2 DEF Steps
  <2>4. ASSUME NEW i \in 1 .. Len(q), NEW f \in Entries
        PROVE  /\ q[i] \in {<<"look", f>>, <<"write", f>>} => i = 1 \/ q[i - 1] = <<"render", f>>
               /\ q[i] = <<"render", f>> =>
                    i + 1 \in 1 .. Len(q) /\ q[i + 1] \in {<<"look", f>>, <<"write", f>>}
               /\ q[i] # <<"remove", f>> /\ q[i] # <<"unlink", "both">>
    <3>1. CASE i = 1
      BY <2>1, <3>1
    <3>2. CASE i = 2
      <4>1. i + 1 = 3
        BY <3>2
      <4>2. q[i] = <<"render", e>> /\ i + 1 \in 1 .. Len(q) /\ q[i + 1] = <<"write", e>>
        BY <2>1, <2>2, <3>2, <4>1
      <4> QED
        BY <4>2 DEF Entries
    <3>3. CASE i = 3
      <4>1. i - 1 = 2
        BY <3>3
      <4>2. q[i] = <<"write", e>> /\ q[i - 1] = <<"render", e>>
        BY <2>1, <3>3, <4>1
      <4> QED
        BY <4>2 DEF Entries
    <3> QED
      BY <2>2, <3>1, <3>2, <3>3
  <2>5. \A i \in 1 .. Len(q) : q[i][1] \in {"ensure", "render", "write"}
    BY <2>1, <2>2
  <2>6. Ordered(q)
    BY <2>4, <2>5 DEF Ordered, Entries
  <2> QED
    BY <2>1, <2>2, <2>3, <2>6 DEF q
<1>2. ASSUME NEW e \in Entries
      PROVE  /\ TurnOff(e) \in Seq(Step) /\ Ordered(TurnOff(e)) /\ TurnOff(e) # << >>
             /\ Head(TurnOff(e)) = <<"remove", e>>
             /\ Steps(TurnOff(e)) = {<<"remove", e>>, <<"orphan", "both">>}
  <2> DEFINE q == TurnOff(e)
  <2>1. /\ q \in Seq(Step) /\ Len(q) = 2 /\ q # << >>
        /\ q[1] = <<"remove", e>> /\ q[2] = <<"orphan", "both">>
    BY DEF TurnOff, Step
  <2> HIDE DEF q
  <2>2. 1 .. Len(q) = {1, 2} /\ Head(q) = q[1]
    BY <2>1
  <2>3. Steps(q) = {q[1], q[2]}
    BY <2>2 DEF Steps
  <2>4. Ordered(q)
    BY <2>1, <2>2 DEF Ordered, Entries
  <2> QED
    BY <2>1, <2>2, <2>3, <2>4 DEF q
<1>3. ASSUME NEW s \in {<<"copy", "both">>, <<"done", "both">>}
      PROVE  /\ <<s>> \in Seq(Step) /\ Ordered(<<s>>) /\ <<s>> # << >>
             /\ Head(<<s>>) = s /\ Steps(<<s>>) = {s}
  <2> DEFINE q == <<s>>
  <2>1. q \in Seq(Step) /\ Len(q) = 1 /\ q # << >> /\ q[1] = s
    BY DEF Step
  <2> HIDE DEF q
  <2>2. 1 .. Len(q) = {1} /\ Head(q) = q[1]
    BY <2>1
  <2>3. Steps(q) = {q[1]}
    BY <2>2 DEF Steps
  <2>4. Ordered(q)
    BY <2>1, <2>2 DEF Ordered, Entries
  <2> QED
    BY <2>1, <2>2, <2>3, <2>4 DEF q
<1>4. << >> \in Seq(Step) /\ Ordered(<< >>) /\ Steps(<< >>) = {}
  BY DEF Ordered, Steps
<1> QED
  BY <1>1, <1>2, <1>3, <1>4

-----------------------------------------------------------------------------
(***************************************************************************)
(* A step taken.                                                           *)
(***************************************************************************)

\* The rest of a plan.
LEMMA Rest ==
  ASSUME NEW q \in Seq(Step), q # << >>
  PROVE  /\ Head(q) \in Step /\ Head(q) = q[1] /\ Len(q) \in Nat \ {0}
         /\ Tail(q) \in Seq(Step) /\ Len(Tail(q)) = Len(q) - 1
         /\ \A i \in 1 .. Len(Tail(q)) : Tail(q)[i] = q[i + 1]
         /\ << >> \o Tail(q) = Tail(q)
<1>1. Tail(q) \in Seq(Step)
  BY HeadTailProperties
<1> QED
  BY <1>1, HeadTailProperties, ConcatEmptySeq

\* What a step leaves ahead when it puts nothing in front of the rest.
LEMMA Dropped ==
  ASSUME NEW q \in Seq(Step), q # << >>, Ordered(q)
  PROVE  /\ Head(q) \in Steps(q)
         /\ Steps(Tail(q)) \subseteq Steps(q)
         /\ Steps(q) \subseteq Steps(Tail(q)) \cup {Head(q)}
         /\ Ordered(Tail(q))
         /\ \A e \in Entries :
              /\ Tail(q) # << >> /\ Head(Tail(q)) \in {<<"look", e>>, <<"write", e>>}
                 => Head(q) = <<"render", e>>
              /\ Head(q) = <<"render", e>> =>
                   Steps(Tail(q)) \cap {<<"look", e>>, <<"write", e>>} # {}
              /\ Head(q) = <<"remove", e>> => <<"orphan", "both">> \in Steps(Tail(q))
         /\ Head(q)[1] \in {"remove", "orphan", "unlink"}
            => Steps(Tail(q)) \subseteq {<<"orphan", "both">>, <<"done", "both">>}
         /\ \A s \in Steps(q) : s[1] \in {"remove", "unlink"} => s = Head(q)
<1> DEFINE r == Tail(q)  n == Len(q)
<1>1. /\ n \in Nat \ {0} /\ Head(q) = q[1] /\ r \in Seq(Step) /\ Len(r) = n - 1
      /\ \A i \in 1 .. Len(r) : r[i] = q[i + 1]
  BY Rest
<1> HIDE DEF r, n
<1>2. \A i \in 1 .. Len(r) : i + 1 \in 1 .. n /\ i + 1 # 1 /\ (i + 1) - 1 = i
  BY <1>1
<1>3. ASSUME NEW i \in 1 .. n, i # 1 PROVE \E k \in 1 .. Len(r) : q[i] = r[k]
  <2>1. PICK k \in 1 .. Len(r) : k + 1 = i
    <3>1. i - 1 \in 1 .. Len(r) /\ (i - 1) + 1 = i
      BY <1>1, <1>3
    <3> QED
      BY <3>1
  <2> QED
    BY <1>1, <2>1
<1>4. Steps(r) \subseteq Steps(q) /\ Steps(q) \subseteq Steps(r) \cup {Head(q)} /\ Head(q) \in Steps(q)
  <2>1. Steps(r) \subseteq Steps(q)
    BY <1>1, <1>2 DEF Steps, n
  <2>2. Steps(q) \subseteq Steps(r) \cup {Head(q)}
    <3>1. \A i \in 1 .. n : q[i] = Head(q) \/ \E k \in 1 .. Len(r) : q[i] = r[k]
      BY <1>1, <1>3
    <3> QED
      BY <3>1 DEF Steps, n
  <2>3. 1 \in 1 .. n
    BY <1>1
  <2>4. Head(q) \in Steps(q)
    BY <1>1, <2>3 DEF Steps, n
  <2> QED
    BY <2>1, <2>2, <2>4
<1>5. Ordered(r)
  <2>1. ASSUME NEW i \in 1 .. Len(r), NEW e \in Entries
        PROVE  /\ r[i] \in {<<"look", e>>, <<"write", e>>} => i = 1 \/ r[i - 1] = <<"render", e>>
               /\ r[i] = <<"render", e>> =>
                    i + 1 \in 1 .. Len(r) /\ r[i + 1] \in {<<"look", e>>, <<"write", e>>}
               /\ r[i] # <<"remove", e>> /\ r[i] # <<"unlink", "both">>
    <3>1. /\ i + 1 \in 1 .. n /\ r[i] = q[i + 1] /\ i + 1 # 1
          /\ i = 1 \/ r[i - 1] = q[(i + 1) - 1]
      <4>1. i = 1 \/ (i - 1 \in 1 .. Len(r) /\ (i - 1) + 1 = (i + 1) - 1)
        BY <1>1
      <4> QED
        BY <1>1, <1>2, <4>1
    <3>2. (i + 1) + 1 \in 1 .. n => i + 1 \in 1 .. Len(r) /\ r[i + 1] = q[(i + 1) + 1]
      BY <1>1
    <3> QED
      BY <3>1, <3>2 DEF Ordered, n
  <2>2. ASSUME NEW i \in 1 .. Len(r), NEW j \in 1 .. Len(r), i < j,
               r[i][1] \in {"remove", "orphan", "unlink"}
        PROVE  r[j] \in {<<"orphan", "both">>, <<"done", "both">>}
    <3>1. i + 1 \in 1 .. n /\ j + 1 \in 1 .. n /\ i + 1 < j + 1 /\ r[i] = q[i + 1] /\ r[j] = q[j + 1]
      <4>1. i + 1 < j + 1
        BY <2>2
      <4> QED
        BY <1>1, <1>2, <4>1
    <3> QED
      BY <2>2, <3>1 DEF Ordered, n
  <2> QED
    BY <2>1, <2>2 DEF Ordered, Entries
<1>6. ASSUME NEW e \in Entries
      PROVE  /\ r # << >> /\ Head(r) \in {<<"look", e>>, <<"write", e>>} => q[1] = <<"render", e>>
             /\ q[1] = <<"render", e>> => Steps(r) \cap {<<"look", e>>, <<"write", e>>} # {}
             /\ q[1] = <<"remove", e>> => <<"orphan", "both">> \in Steps(r)
  <2>1. r # << >> => 2 \in 1 .. n /\ Head(r) = q[2]
    <3>1. r # << >> => 1 \in 1 .. Len(r) /\ 2 \in 1 .. n /\ Head(r) = r[1] /\ 1 + 1 = 2
      BY <1>1
    <3> QED
      BY <1>1, <3>1
  <2>2. 2 \in 1 .. n => q[2] \in Steps(r)
    <3>1. 2 \in 1 .. n => 1 \in 1 .. Len(r) /\ 1 + 1 = 2
      BY <1>1
    <3> QED
      BY <1>1, <3>1 DEF Steps
  <2>3. 2 # 1 /\ 2 - 1 = 1 /\ 1 + 1 = 2 /\ 1 \in 1 .. n
    BY <1>1
  <2>4. /\ 2 \in 1 .. n /\ q[2] \in {<<"look", e>>, <<"write", e>>} => q[1] = <<"render", e>>
        /\ q[1] = <<"render", e>> => 2 \in 1 .. n /\ q[2] \in {<<"look", e>>, <<"write", e>>}
        /\ q[1] = <<"remove", e>> => 2 \in 1 .. n /\ q[2] = <<"orphan", "both">>
    BY <2>3 DEF Ordered, n
  <2> QED
    BY <2>1, <2>2, <2>4
<1>7. q[1][1] \in {"remove", "orphan", "unlink"}
      => Steps(r) \subseteq {<<"orphan", "both">>, <<"done", "both">>}
  <2> SUFFICES ASSUME q[1][1] \in {"remove", "orphan", "unlink"}, NEW i \in 1 .. Len(r)
               PROVE  r[i] \in {<<"orphan", "both">>, <<"done", "both">>}
    BY DEF Steps
  <2>1. 1 \in 1 .. n /\ i + 1 \in 1 .. n /\ 1 < i + 1
    BY <1>1
  <2> QED
    BY <1>1, <2>1 DEF Ordered, n
<1>8. ASSUME NEW s \in Steps(q), s[1] \in {"remove", "unlink"} PROVE s = q[1]
  <2>1. PICK i \in 1 .. n : s = q[i]
    BY DEF Steps, n
  <2>2. q[i] \in Step
    BY <2>1, ElementOfSeq DEF n
  <2>3. s = <<"unlink", "both">> \/ \E e \in Entries : s = <<"remove", e>>
    BY <1>8, <2>1, <2>2 DEF Step
  <2> QED
    BY <2>1, <2>3 DEF Ordered, n
<1> QED
  BY <1>1, <1>4, <1>5, <1>6, <1>7, <1>8 DEF r

\* What a step leaves ahead that puts another in front of the rest: a look the
\* write, an orphan check the removal.
LEMMA Swapped ==
  ASSUME NEW q \in Seq(Step), q # << >>, Ordered(q), NEW w \in Step,
         \/ \E e \in Entries : Head(q) = <<"look", e>> /\ w = <<"write", e>>
         \/ Head(q) = <<"orphan", "both">> /\ w = <<"unlink", "both">>
  PROVE  /\ <<w>> \o Tail(q) \in Seq(Step)
         /\ <<w>> \o Tail(q) # << >>
         /\ Head(<<w>> \o Tail(q)) = w
         /\ Steps(<<w>> \o Tail(q)) \subseteq Steps(q) \cup {w}
         /\ Steps(q) \cup {w} \subseteq Steps(<<w>> \o Tail(q)) \cup {Head(q)}
         /\ Ordered(<<w>> \o Tail(q))
<1> DEFINE x == <<w>>  r == Tail(q)  p == x \o r  n == Len(q)
<1>1. /\ n \in Nat \ {0} /\ Head(q) = q[1] /\ r \in Seq(Step) /\ Len(r) = n - 1
      /\ \A i \in 1 .. Len(r) : r[i] = q[i + 1]
  BY Rest
<1>2. Len(x) = 1 /\ x[1] = w
  OBVIOUS
<1>0. x \in Seq(Step) /\ r \in Seq(Step)
  BY Rest
<1> HIDE DEF x, r, n
<1>3. /\ p \in Seq(Step) /\ Len(p) = Len(x) + Len(r)
      /\ \A i \in 1 .. Len(p) : p[i] = IF i <= Len(x) THEN x[i] ELSE r[i - Len(x)]
  BY <1>0, ConcatProperties
<1> HIDE DEF p
<1>4. Len(p) = n /\ p[1] = w
  BY <1>1, <1>2, <1>3
<1>5. ASSUME NEW i \in 1 .. n, i # 1 PROVE p[i] = q[i]
  <2>1. i - 1 \in 1 .. Len(r) /\ (i - 1) + 1 = i /\ ~(i <= 1) /\ i \in 1 .. Len(p)
    BY <1>1, <1>4, <1>5
  <2>2. p[i] = r[i - 1]
    BY <1>2, <1>3, <2>1
  <2>3. r[i - 1] = q[(i - 1) + 1]
    BY <1>1, <2>1
  <2> QED
    BY <2>1, <2>2, <2>3
<1>6. 1 \in 1 .. n
  BY <1>1
<1>7. /\ Steps(p) \subseteq Steps(q) \cup {w}
      /\ Steps(q) \cup {w} \subseteq Steps(p) \cup {Head(q)}
  <2>1. \A i \in 1 .. n : p[i] = w \/ p[i] = q[i]
    BY <1>4, <1>5
  <2>2. \A i \in 1 .. n : q[i] = Head(q) \/ q[i] = p[i]
    BY <1>1, <1>5
  <2>3. Steps(p) = {p[i] : i \in 1 .. n} /\ Steps(q) = {q[i] : i \in 1 .. n}
    BY <1>4 DEF Steps, n
  <2>4. w \in Steps(p)
    BY <1>4, <1>6, <2>3
  <2> QED
    BY <2>1, <2>2, <2>3, <2>4
<1>8. /\ \A e \in Entries : w # <<"look", e>> /\ w # <<"render", e>> /\ w # <<"remove", e>>
      /\ \A e \in Entries : q[1] # <<"render", e>> /\ q[1] # <<"remove", e>>
      /\ w[1] \in {"remove", "orphan", "unlink"} => q[1][1] = "orphan"
  BY <1>1
<1>9. Ordered(p)
  <2>1. ASSUME NEW i \in 1 .. n, NEW e \in Entries
        PROVE  /\ p[i] \in {<<"look", e>>, <<"write", e>>} => i = 1 \/ p[i - 1] = <<"render", e>>
               /\ p[i] = <<"render", e>> =>
                    i + 1 \in 1 .. n /\ p[i + 1] \in {<<"look", e>>, <<"write", e>>}
               /\ p[i] # <<"remove", e>>
               /\ p[i] = <<"unlink", "both">> => i = 1
    <3>1. CASE i = 1
      BY <1>4, <1>8, <3>1
    <3>2. CASE i # 1
      <4>1. p[i] = q[i]
        BY <1>5, <3>2
      <4>2. i - 1 = 1 \/ (i - 1 \in 1 .. n /\ p[i - 1] = q[i - 1])
        <5>1. i - 1 \in 1 .. n
          BY <1>1, <3>2
        <5> QED
          BY <1>5, <5>1
      <4>3. i + 1 \in 1 .. n => p[i + 1] = q[i + 1]
        <5>1. i + 1 # 1
          OBVIOUS
        <5> QED
          BY <1>5, <5>1
      <4>4. /\ q[i] \in {<<"look", e>>, <<"write", e>>} => q[i - 1] = <<"render", e>>
            /\ q[i] = <<"render", e>> =>
                 i + 1 \in 1 .. n /\ q[i + 1] \in {<<"look", e>>, <<"write", e>>}
            /\ q[i] # <<"remove", e>> /\ q[i] # <<"unlink", "both">>
        BY <3>2 DEF Ordered, n
      <4> QED
        BY <1>8, <4>1, <4>2, <4>3, <4>4
    <3> QED
      BY <3>1, <3>2
  <2>2. ASSUME NEW i \in 1 .. n, NEW j \in 1 .. n, i < j,
               p[i][1] \in {"remove", "orphan", "unlink"}
        PROVE  p[j] \in {<<"orphan", "both">>, <<"done", "both">>}
    <3>1. j # 1 /\ p[j] = q[j]
      BY <1>5, <2>2
    <3>2. q[i][1] \in {"remove", "orphan", "unlink"}
      BY <1>4, <1>5, <1>8, <2>2
    <3> QED
      BY <2>2, <3>1, <3>2 DEF Ordered, n
  <2> QED
    BY <1>4, <2>1, <2>2 DEF Ordered, Entries
<1>10. p # << >> /\ Head(p) = p[1]
  BY <1>1, <1>3, <1>4
<1> QED
  BY <1>3, <1>4, <1>7, <1>9, <1>10 DEF p, x, r

\* Thread t takes its next step, s, and has the steps W to do besides the rest.
Takes(t, s, W) ==
  /\ todo[t] # << >> /\ Head(todo[t]) = s /\ s \in Steps(todo[t]) /\ Turn(t)
  /\ todo' \in [Thread -> Seq(Step)]
  /\ \A u \in Thread \ {t} : todo'[u] = todo[u]
  /\ Steps(todo'[t]) \subseteq Steps(todo[t]) \cup W
  /\ Steps(todo[t]) \cup W \subseteq Steps(todo'[t]) \cup {s}
  /\ Ordered(todo'[t])

LEMMA TakesOne ==
  ASSUME TypeOK, PlanInv, NEW t \in Thread, NEW s, Does(t, s, << >>)
  PROVE  /\ Takes(t, s, {})
         /\ todo' = [todo EXCEPT ![t] = Tail(@)]
         /\ \A e \in Entries :
              /\ todo'[t] # << >> /\ Head(todo'[t]) \in {<<"look", e>>, <<"write", e>>}
                 => s = <<"render", e>>
              /\ s = <<"render", e>> =>
                   Steps(todo'[t]) \cap {<<"look", e>>, <<"write", e>>} # {}
              /\ s = <<"remove", e>> => <<"orphan", "both">> \in Steps(todo'[t])
         /\ s[1] \in {"remove", "orphan", "unlink"}
            => Steps(todo'[t]) \subseteq {<<"orphan", "both">>, <<"done", "both">>}
<1> DEFINE q == todo[t]
<1>1. q \in Seq(Step) /\ q # << >> /\ Ordered(q) /\ Head(q) = s
  BY DEF TypeOK, PlanInv, Does
<1>2. todo' = [todo EXCEPT ![t] = Tail(q)] /\ Tail(q) \in Seq(Step)
  BY <1>1, Rest DEF Does
<1>3. todo' \in [Thread -> Seq(Step)] /\ todo'[t] = Tail(q) /\ \A u \in Thread \ {t} : todo'[u] = todo[u]
  BY <1>2 DEF TypeOK
<1>4. Turn(t)
  BY DEF Does
<1> HIDE DEF q
<1> QED
  <2> DEFINE r == Tail(q)
  <2>1. /\ s \in Steps(q)
        /\ Steps(r) \subseteq Steps(q)
        /\ Steps(q) \subseteq Steps(r) \cup {s}
        /\ Ordered(r)
        /\ \A e \in Entries :
             /\ r # << >> /\ Head(r) \in {<<"look", e>>, <<"write", e>>} => s = <<"render", e>>
             /\ s = <<"render", e>> => Steps(r) \cap {<<"look", e>>, <<"write", e>>} # {}
             /\ s = <<"remove", e>> => <<"orphan", "both">> \in Steps(r)
        /\ s[1] \in {"remove", "orphan", "unlink"}
           => Steps(r) \subseteq {<<"orphan", "both">>, <<"done", "both">>}
    BY <1>1, Dropped
  <2> HIDE DEF r
  <2>2. todo'[t] = r
    BY <1>3 DEF r
  <2>3. Takes(t, s, {})
    BY <1>1, <1>3, <1>4, <2>1, <2>2 DEF Takes, q
  <2>4. todo' = [todo EXCEPT ![t] = Tail(@)]
    BY <1>2 DEF q
  <2> QED
    BY <2>1, <2>2, <2>3, <2>4

LEMMA TakesFor ==
  ASSUME TypeOK, PlanInv, NEW t \in Thread, NEW s, NEW w \in Step, Does(t, s, <<w>>),
         \/ \E e \in Entries : s = <<"look", e>> /\ w = <<"write", e>>
         \/ s = <<"orphan", "both">> /\ w = <<"unlink", "both">>
  PROVE  Takes(t, s, {w}) /\ todo'[t] # << >> /\ Head(todo'[t]) = w
<1> DEFINE q == todo[t]
<1>1. q \in Seq(Step) /\ q # << >> /\ Ordered(q) /\ Head(q) = s
  BY DEF TypeOK, PlanInv, Does
<1>2. todo' = [todo EXCEPT ![t] = <<w>> \o Tail(q)] /\ <<w>> \o Tail(q) \in Seq(Step)
  BY <1>1, Swapped DEF Does
<1>3. /\ todo' \in [Thread -> Seq(Step)] /\ todo'[t] = <<w>> \o Tail(q)
      /\ \A u \in Thread \ {t} : todo'[u] = todo[u]
  BY <1>2 DEF TypeOK
<1>4. Turn(t) /\ s \in Steps(q)
  BY <1>1, Dropped DEF Does
<1> HIDE DEF q
<1> QED
  <2> DEFINE r == <<w>> \o Tail(q)
  <2>1. /\ r # << >> /\ Head(r) = w /\ Ordered(r)
        /\ Steps(r) \subseteq Steps(q) \cup {w}
        /\ Steps(q) \cup {w} \subseteq Steps(r) \cup {s}
    BY <1>1, Swapped
  <2> HIDE DEF r
  <2>2. todo'[t] = r
    BY <1>3 DEF r
  <2> QED
    BY <1>1, <1>3, <1>4, <2>1, <2>2 DEF Takes, q

\* A landed copy finds no other step in the worker's plan.
LEMMA TakesCopy ==
  ASSUME TypeOK, PlanInv, NEW p \in Seq(Step), Does("worker", <<"copy", "both">>, p)
  PROVE  /\ Turn("worker") /\ todo["worker"] = << <<"copy", "both">> >>
         /\ todo' = [todo EXCEPT !["worker"] = p]
<1>1. /\ todo["worker"] \in Seq(Step) /\ todo["worker"] # << >> /\ Ordered(todo["worker"])
      /\ Head(todo["worker"]) = <<"copy", "both">>
  BY DEF TypeOK, PlanInv, Does, Thread
<1>2. todo["worker"] = << <<"copy", "both">> >>
  BY <1>1, Dropped DEF PlanInv, Ahead
<1>3. Tail(todo["worker"]) = << >> /\ p \o << >> = p
  BY <1>2, ConcatEmptySeq
<1> QED
  BY <1>2, <1>3 DEF Does

\* In a calm world the other thread waits, or only a copy is under way.
LEMMA Waits ==
  ASSUME PlanInv, Calm, NEW t \in Thread, Turn(t), NEW u \in Thread \ {t}
  PROVE  /\ Steps(todo[u]) \subseteq {<<"copy", "both">>}
         /\ todo[u] = << >> \/ Head(todo[u]) = <<"copy", "both">>
         /\ t = "gui" => todo[u] \in {<< >>, << <<"copy", "both">> >>}
         /\ t = "worker" => todo[u] = << >>
  BY ShortPlans DEF Calm, Turn, Thread

\* The plans stay in order under a step of one thread.
LEMMA PlanStep ==
  ASSUME TypeOK, PlanInv, NEW t \in Thread, NEW s, NEW W, Takes(t, s, W),
         s # <<"copy", "both">>, <<"copy", "both">> \notin W,
         t = "gui" => W \subseteq GuiStep,
         t = "worker" => W \subseteq WorkerStep,
         UNCHANGED <<world, path, build>>,
         \A u \in Thread \ {t} : text'[u] = text[u],
         \A e \in Entries :
           todo'[t] # << >> /\ Head(todo'[t]) \in {<<"look", e>>, <<"write", e>>}
           => text'[t] \in Targets
  PROVE  PlanInv'
<1>1. \A u \in Thread : Ordered(todo'[u])
  BY DEF Takes, PlanInv
<1>2. Ahead("gui")' \subseteq GuiStep /\ Ahead("worker")' \subseteq WorkerStep
  BY DEF Takes, PlanInv, Ahead, Thread
<1>3. <<"copy", "both">> \in Ahead("worker")' => todo'["worker"] = << <<"copy", "both">> >>
  <2>1. CASE t = "gui"
    BY <2>1 DEF Takes, PlanInv, Ahead, Thread
  <2>2. CASE t = "worker"
    <3>1. Head(<< <<"copy", "both">> >>) = <<"copy", "both">>
      BY ShortPlans
    <3>2. <<"copy", "both">> \notin Steps(todo["worker"])
      BY <2>2, <3>1 DEF Takes, PlanInv, Ahead
    <3> QED
      BY <2>2, <3>2 DEF Takes, Ahead
  <2> QED
    BY <2>1, <2>2 DEF Thread
<1>4. path' # NoProcess /\ build' \in Builds
  BY DEF Takes, PlanInv
<1>5. \A u \in Thread, e \in Entries :
        todo'[u] # << >> /\ Head(todo'[u]) \in {<<"look", e>>, <<"write", e>>} => text'[u] \in Targets
  BY DEF Takes, PlanInv
<1>6. Calm' => todo'["gui"] = << >> \/ todo'["worker"] \in {<< >>, << <<"copy", "both">> >>}
  <2>1. CASE t = "gui"
    BY <2>1, Waits DEF Takes, Calm, Thread
  <2>2. CASE t = "worker"
    BY <2>2, Waits DEF Takes, Calm, Thread
  <2> QED
    BY <2>1, <2>2 DEF Thread
<1> QED
  BY <1>1, <1>2, <1>3, <1>4, <1>5, <1>6 DEF PlanInv

-----------------------------------------------------------------------------
(***************************************************************************)
(* The invariant, one action at a time.                                    *)
(***************************************************************************)

LEMMA DownloadStep ==
  ASSUME IInv, NEW b \in Builds, Download(b)
  PROVE  IInv'
<1>1. UNCHANGED <<world, copy, entry, path, build, todo, text, wanted, launches, toggles>>
  BY DEF Download
<1>2. TypeOK' /\ PlanInv' /\ CalmInv' /\ CopyInv' /\ HealInv' /\ LeakInv' /\ WantedInv'
  <2>1. downloads' \subseteq Builds
    BY DEF Download, IInv, TypeOK
  <2> QED
    <3>1. TypeOK' /\ PlanInv'
      BY <1>1, <2>1 DEF IInv, TypeOK, PlanInv, Calm, Ahead
    <3>2. CalmInv' /\ CopyInv' /\ HealInv'
      BY <1>1 DEF IInv, CalmInv, CopyInv, HealInv, Calm, Ahead, Enabled, ExecTarget, Faulty
    <3>3. LeakInv' /\ WantedInv'
      BY <1>1 DEF IInv, LeakInv, WantedInv, Calm, Ahead, Enabled, Faulty
    <3> QED
      BY <3>1, <3>2, <3>3
<1>3. CurrentInv'
  <2>1. path' \in downloads' \cup {Stable} => path \in downloads \cup {Stable}
    BY DEF Download
  <2> QED
    BY <1>1, <2>1 DEF IInv, CurrentInv, Calm, Ahead, Enabled, Faulty
<1> QED
  BY <1>2, <1>3 DEF IInv

LEMMA EndStep ==
  ASSUME IInv, End
  PROVE  IInv'
<1>1. /\ path' = NoProcess /\ build' = NoProcess
      /\ todo' = [t \in Thread |-> << >>] /\ text' = [t \in Thread |-> Off]
      /\ UNCHANGED <<world, downloads, copy, entry, wanted, launches, toggles>>
  BY DEF End
<1>2. \A t \in Thread : todo'[t] = << >> /\ Ahead(t)' = {}
  BY <1>1, ShortPlans DEF Ahead
<1>3. "gui" \in Thread /\ "worker" \in Thread
  BY DEF Thread
<1>4. ~Faulty("kill") => \A t \in Thread : Ahead(t) = {}
  BY ShortPlans DEF End, Ahead
<1>5. TypeOK'
  BY <1>1, ShortPlans DEF IInv, TypeOK, Targets
<1>6. PlanInv' /\ CalmInv'
  BY <1>1, <1>2, <1>3, ShortPlans DEF PlanInv, CalmInv
<1>7. CopyInv'
  BY <1>1, LauncherEntriesAssumption DEF IInv, CopyInv, Calm
<1>8. HealInv' /\ CurrentInv'
  <2>1. path' \notin downloads' \cup {Stable}
    BY <1>1, LauncherEntriesAssumption DEF IInv, TypeOK
  <2> QED
    BY <1>1, <2>1 DEF HealInv, CurrentInv
<1>9. LeakInv'
  BY <1>1, <1>4 DEF IInv, LeakInv, Enabled, Faulty
<1>10. WantedInv'
  BY <1>1, <1>2, <1>3, <1>4 DEF IInv, WantedInv, Calm, Enabled, Faulty
<1> QED
  BY <1>5, <1>6, <1>7, <1>8, <1>9, <1>10 DEF IInv

LEMMA LaunchStep ==
  ASSUME IInv, NEW b \in Builds, NEW p \in Targets, Launch(b, p)
  PROVE  IInv'
<1>1. /\ path = NoProcess /\ path' = p /\ build' = b /\ todo' = [todo EXCEPT !["gui"] = Startup]
      /\ launches' = launches + 1 /\ launches < MaxLaunches
      /\ UNCHANGED <<world, downloads, copy, entry, text, wanted, toggles>>
  BY DEF Launch
<1>0. \/ p = b
      \/ p = Stable /\ b = copy /\ \E e \in Entries : entry[e] = Stable
  BY DEF Launch
<1>2. /\ \A t \in Thread : todo[t] = << >> /\ Ahead(t) = {}
      /\ todo'["gui"] = Startup /\ todo'["worker"] = << >> /\ Ahead("worker")' = {}
      /\ Ahead("gui")' = {"start", "render", "look"} \X Entries
      /\ todo' \in [Thread -> Seq(Step)]
  BY <1>1, ShortPlans, StartupPlan, Plans DEF IInv, PlanInv, TypeOK, Ahead, Thread
<1>3. p # NoProcess /\ b # NoFile
  BY LauncherEntriesAssumption DEF Targets
<1>4. TypeOK'
  BY <1>1, <1>2, LauncherEntriesAssumption DEF IInv, TypeOK
<1>5. PlanInv'
  <2>1. \A t \in Thread : Ordered(todo'[t])
    BY <1>2, ShortPlans, StartupPlan DEF Thread
  <2>2. Ahead("gui")' \subseteq GuiStep /\ Ahead("worker")' \subseteq WorkerStep
    BY <1>2 DEF GuiStep
  <2>3. \A t \in Thread, e \in Entries :
          todo'[t] # << >> => Head(todo'[t]) \notin {<<"look", e>>, <<"write", e>>}
    BY <1>2, StartupPlan DEF Thread
  <2> QED
    BY <1>1, <1>2, <1>3, <2>1, <2>2, <2>3 DEF PlanInv
<1>6. CalmInv'
  <2>1. \A t \in Thread, e \in Entries :
          /\ todo'[t] # << >> => Head(todo'[t]) \notin {<<"look", e>>, <<"write", e>>}
          /\ <<"unlink", "both">> \notin Ahead(t)' /\ <<"write", e>> \notin Ahead("worker")'
    BY <1>2, StartupPlan DEF Thread
  <2> QED
    BY <2>1 DEF CalmInv, Thread, Entries
<1>7. CopyInv'
  <2>1. \A e \in Entries : <<"remove", e>> \notin Ahead("gui")'
    BY <1>2
  <2>2. p = Stable => \E e \in Entries : entry[e] # Off /\ copy = b
    BY <1>0, LauncherEntriesAssumption
  <2> QED
    BY <1>1, <2>1, <2>2 DEF IInv, CopyInv, Calm, Enabled
<1>8. HealInv'
  <2>1. \A e \in Entries : <<"render", e>> \in Ahead("gui")'
    BY <1>2
  <2> QED
    BY <2>1 DEF HealInv, Thread, Enabled
<1>9. CurrentInv'
  <2>1. \A e \in Entries : <<"start", e>> \in Ahead("gui")' /\ <<"write", e>> \notin Ahead("gui")'
    BY <1>2
  <2> QED
    BY <2>1 DEF CurrentInv, Enabled
<1>10. LeakInv'
  BY <1>1, <1>2 DEF IInv, LeakInv, Enabled, Faulty
<1>11. WantedInv'
  <2>1. /\ \A e \in Entries : <<"remove", e>> \notin Ahead("gui")'
        /\ \A t \in Thread, e \in Entries : <<"write", e>> \notin Ahead(t)'
    BY <1>2 DEF Thread
  <2>2. /\ \A e \in Entries : <<"remove", e>> \notin Ahead("gui")
        /\ \A t \in Thread, e \in Entries : <<"write", e>> \notin Ahead(t)
    BY <1>2 DEF Thread
  <2> QED
    BY <1>1, <2>1, <2>2 DEF IInv, WantedInv, Calm, Enabled, Faulty, Thread
<1> QED
  BY <1>4, <1>5, <1>6, <1>7, <1>8, <1>9, <1>10, <1>11 DEF IInv

LEMMA ToggleStep ==
  ASSUME IInv, NEW e \in Entries, Toggle(e)
  PROVE  IInv'
<1> DEFINE on == e \in Enabled
           plan == IF on THEN TurnOff(e) ELSE TurnOn(e)
<1>1. /\ path # NoProcess /\ todo["gui"] = << >> /\ Turn("gui") /\ toggles < MaxToggles
      /\ path = Stable /\ Enabled = {e} => world.untick
      /\ todo' = [todo EXCEPT !["gui"] = plan]
      /\ wanted' = IF on THEN wanted \ {e} ELSE wanted \cup {e}
      /\ toggles' = toggles + 1
      /\ UNCHANGED <<world, downloads, copy, entry, path, build, text, launches>>
  BY DEF Toggle
<1>2. /\ plan \in Seq(Step) /\ Ordered(plan) /\ plan # << >>
      /\ Head(plan) = IF on THEN <<"remove", e>> ELSE <<"ensure", "both">>
      /\ Steps(plan) = IF on THEN {<<"remove", e>>, <<"orphan", "both">>}
                       ELSE {<<"ensure", "both">>, <<"render", e>>, <<"write", e>>}
  BY ShortPlans
<1> HIDE DEF plan
<1>3. /\ todo'["gui"] = plan /\ todo'["worker"] = todo["worker"] /\ todo' \in [Thread -> Seq(Step)]
      /\ Ahead("gui") = {} /\ Ahead("gui")' = Steps(plan) /\ Ahead("worker")' = Ahead("worker")
  BY <1>1, <1>2, ShortPlans DEF IInv, TypeOK, Thread, Ahead
<1>4. Calm => /\ todo["worker"] \in {<< >>, << <<"copy", "both">> >>}
              /\ Ahead("worker") \subseteq {<<"copy", "both">>}
  BY <1>1, Waits DEF IInv, Thread, Ahead
<1>5. TypeOK'
  BY <1>1, <1>3, LauncherEntriesAssumption DEF IInv, TypeOK
<1>6. PlanInv'
  <2>1. \A t \in Thread : Ordered(todo'[t])
    BY <1>2, <1>3 DEF IInv, PlanInv, Thread
  <2>2. Ahead("gui")' \subseteq GuiStep /\ Ahead("worker")' \subseteq WorkerStep
    BY <1>2, <1>3 DEF IInv, PlanInv, GuiStep
  <2>3. \A t \in Thread, f \in Entries :
          todo'[t] # << >> /\ Head(todo'[t]) \in {<<"look", f>>, <<"write", f>>} => text'[t] \in Targets
    BY <1>1, <1>2, <1>3 DEF IInv, PlanInv, Thread
  <2> QED
    BY <1>1, <1>3, <1>4, <2>1, <2>2, <2>3 DEF IInv, PlanInv, Calm
<1>7. CalmInv'
  <2>1. \A t \in Thread, f \in Entries :
          /\ todo'[t] # << >> /\ Head(todo'[t]) \in {<<"look", f>>, <<"write", f>>}
             => t = "worker" /\ todo[t] = todo'[t]
          /\ <<"unlink", "both">> \in Ahead(t)' => t = "worker" /\ <<"unlink", "both">> \in Ahead(t)
    BY <1>2, <1>3 DEF Thread
  <2> QED
    BY <1>1, <1>3, <2>1 DEF IInv, CalmInv, Calm, ExecTarget, Enabled
<1>8. CopyInv'
  <2>1. ASSUME Calm, ~world.untick, path = Stable
        PROVE  \E f \in Enabled : <<"remove", f>> \notin Ahead("gui")'
    <3>1. CASE on
      <4>1. PICK f \in Enabled : f # e
        BY <1>1, <2>1, <3>1
      <4> QED
        BY <1>2, <1>3, <3>1, <4>1
    <3>2. CASE ~on
      BY <1>2, <1>3, <2>1, <3>2 DEF IInv, CopyInv
    <3> QED
      BY <3>1, <3>2
  <2> QED
    BY <1>1, <2>1 DEF IInv, CopyInv, Calm, Enabled
<1>9. HealInv'
  BY <1>1, <1>3 DEF IInv, HealInv, Calm, Enabled, ExecTarget, Faulty, Thread
<1>10. CurrentInv'
  <2>1. on => \A f \in Entries : <<"write", f>> \notin Ahead("gui")'
    BY <1>2, <1>3
  <2>2. ~on => <<"ensure", "both">> \in Ahead("gui")'
    BY <1>2, <1>3
  <2> QED
    BY <1>1, <1>3, <2>1, <2>2 DEF IInv, CurrentInv, Calm, Enabled, Faulty
<1>11. LeakInv'
  BY <1>1, <1>3 DEF IInv, LeakInv, Enabled, Faulty, Thread
<1>12. WantedInv'
  <2> SUFFICES ASSUME ~Faulty("writeFails"), ~Faulty("kill"), NEW f \in Entries
               PROVE  /\ <<"remove", f>> \in Ahead("gui")' => f \notin wanted'
                      /\ f \in wanted' => f \in Enabled \/ <<"write", f>> \in Ahead("gui")'
                      /\ Calm => /\ \A t \in Thread : <<"write", f>> \in Ahead(t)' => f \in wanted'
                                 /\ f \in Enabled => f \in wanted' \/ <<"remove", f>> \in Ahead("gui")'
    BY <1>1 DEF WantedInv, Calm, Faulty, Enabled
  <2>1. /\ f \in wanted => f \in Enabled
        /\ Calm => (f \in Enabled <=> f \in wanted)
    BY <1>3 DEF IInv, WantedInv
  <2>2. Calm => <<"write", f>> \notin Ahead("worker")'
    BY <1>3, <1>4
  <2>3. /\ <<"remove", f>> \in Ahead("gui")' <=> on /\ f = e
        /\ <<"write", f>> \in Ahead("gui")' <=> ~on /\ f = e
    BY <1>2, <1>3
  <2> QED
    BY <1>1, <2>1, <2>2, <2>3 DEF Thread
<1> QED
  BY <1>5, <1>6, <1>7, <1>8, <1>9, <1>10, <1>11, <1>12 DEF IInv

LEMMA EnsureStep ==
  ASSUME IInv, Ensure
  PROVE  IInv'
<1> DEFINE s == Head(todo["gui"])
           rest == [todo EXCEPT !["gui"] = Tail(@)]
           c == << <<"copy", "both">> >>
<1>1. /\ todo["gui"] # << >> /\ Turn("gui")
      /\ UNCHANGED <<world, downloads, copy, entry, path, build, text, wanted, launches, toggles>>
  BY DEF Ensure
<1>2. /\ \/ s = <<"ensure", "both">>
         \/ \E e \in Entries : s = <<"start", e>>
      /\ \/ todo' = rest
         \/ StableCopyStale /\ todo["worker"] = << >> /\ todo' = [rest EXCEPT !["worker"] = c]
      /\ s = <<"ensure", "both">> \/ (\E e \in Enabled : s = <<"start", e>>)
         => \/ ~StableCopyStale
            \/ todo["worker"] # << >>
            \/ todo' = [rest EXCEPT !["worker"] = c]
  <2>1. [todo EXCEPT !["gui"] = Tail(@), !["worker"] = c] = [rest EXCEPT !["worker"] = c]
    OBVIOUS
  <2>2. CASE s = <<"ensure", "both">>
    <3>1. todo' = Start("gui", << >>)
      BY <2>2 DEF Ensure
    <3> QED
      BY <2>1, <2>2, <3>1 DEF Start
  <2>3. ASSUME NEW e \in Entries, s = <<"start", e>>,
               todo' = IF e \in Enabled THEN Start("gui", << >>) ELSE rest
        PROVE  <1>2!1 /\ <1>2!2 /\ <1>2!3
    <3>1. CASE e \in Enabled
      BY <2>1, <2>3, <3>1 DEF Start
    <3>2. CASE e \notin Enabled
      <4>1. \A f \in Entries : <<"start", f>> = <<"start", e>> => f = e
        BY DEF Entries
      <4> QED
        BY <2>3, <3>2, <4>1 DEF Enabled
    <3> QED
      BY <3>1, <3>2
  <2> QED
    BY <2>2, <2>3 DEF Ensure
<1>3. /\ todo["gui"] \in Seq(Step) /\ Ordered(todo["gui"])
      /\ Tail(todo["gui"]) \in Seq(Step) /\ c \in Seq(Step) /\ "gui" \in Thread /\ "worker" \in Thread
  BY <1>1, Rest, ShortPlans DEF IInv, TypeOK, PlanInv, Thread
<1>4. /\ todo' \in [Thread -> Seq(Step)] /\ todo'["gui"] = Tail(todo["gui"])
      /\ \/ todo'["worker"] = todo["worker"]
         \/ todo["worker"] = << >> /\ todo'["worker"] = c
  <2>1. rest \in [Thread -> Seq(Step)] /\ rest["gui"] = Tail(todo["gui"]) /\ rest["worker"] = todo["worker"]
    BY <1>3 DEF IInv, TypeOK, Thread
  <2> HIDE DEF rest, c
  <2> QED
    BY <1>2, <1>3, <2>1 DEF Thread
<1>5. /\ s \in Steps(todo["gui"])
      /\ Ahead("gui")' \subseteq Ahead("gui") /\ Ahead("gui") \subseteq Ahead("gui")' \cup {s}
      /\ Ordered(todo'["gui"])
      /\ \A e \in Entries :
           todo'["gui"] # << >> => Head(todo'["gui"]) \notin {<<"look", e>>, <<"write", e>>}
  <2> DEFINE r == Tail(todo["gui"])
  <2>1. /\ s \in Steps(todo["gui"]) /\ Steps(r) \subseteq Steps(todo["gui"])
        /\ Steps(todo["gui"]) \subseteq Steps(r) \cup {s} /\ Ordered(r)
        /\ \A e \in Entries :
             r # << >> /\ Head(r) \in {<<"look", e>>, <<"write", e>>} => s = <<"render", e>>
    BY <1>1, <1>3, Dropped
  <2> HIDE DEF r
  <2>2. todo'["gui"] = r
    BY <1>4 DEF r
  <2> HIDE DEF s
  <2>3. \A e \in Entries : s # <<"render", e>>
    BY <1>2
  <2> QED
    BY <2>1, <2>2, <2>3 DEF Ahead
<1>6. /\ Ordered(c) /\ c # << >> /\ Steps(c) = {<<"copy", "both">>}
      /\ \A e \in Entries : Head(c) \notin {<<"look", e>>, <<"write", e>>}
  BY ShortPlans
<1> HIDE DEF s, rest, c
<1>7. /\ \A k \in {"render", "look", "write", "remove", "orphan", "unlink"} :
           \A x \in {"autostart", "menu", "both"} : <<k, x>> \in Ahead("gui") => <<k, x>> \in Ahead("gui")'
      /\ Ahead("worker")' \subseteq Ahead("worker") \cup {<<"copy", "both">>}
      /\ Ahead("worker") \subseteq Ahead("worker")'
  <2>1. s[1] \in {"ensure", "start"}
    BY <1>2
  <2>2. \A k \in {"render", "look", "write", "remove", "orphan", "unlink"} :
          \A x \in {"autostart", "menu", "both"} : <<k, x>> # s
    BY <2>1
  <2>3. Steps(<< >>) = {}
    BY ShortPlans
  <2> QED
    BY <1>4, <1>5, <1>6, <2>2, <2>3 DEF Ahead
<1>8. TypeOK'
  BY <1>1, <1>4 DEF IInv, TypeOK
<1>9. PlanInv'
  <2>1. \A t \in Thread : Ordered(todo'[t])
    BY <1>4, <1>5, <1>6 DEF IInv, PlanInv, Thread
  <2>2. Ahead("gui")' \subseteq GuiStep /\ Ahead("worker")' \subseteq WorkerStep
    BY <1>5, <1>7 DEF IInv, PlanInv, WorkerStep
  <2>3. <<"copy", "both">> \in Ahead("worker")' => todo'["worker"] = << <<"copy", "both">> >>
    BY <1>4 DEF IInv, PlanInv, Ahead, c
  <2>4. path' # NoProcess /\ build' \in Builds
    BY <1>1, <1>3 DEF IInv, PlanInv
  <2>5. \A t \in Thread, e \in Entries :
          todo'[t] # << >> /\ Head(todo'[t]) \in {<<"look", e>>, <<"write", e>>} => text'[t] \in Targets
    BY <1>1, <1>4, <1>5, <1>6 DEF IInv, PlanInv, Thread
  <2>6. Calm' => todo'["worker"] \in {<< >>, << <<"copy", "both">> >>}
    BY <1>1, <1>4, Waits DEF IInv, Thread, Calm, c
  <2> QED
    BY <2>1, <2>2, <2>3, <2>4, <2>5, <2>6 DEF PlanInv
<1>10. CalmInv'
  <2>1. \A t \in Thread, e \in Entries :
          todo'[t] # << >> /\ Head(todo'[t]) \in {<<"look", e>>, <<"write", e>>}
          => t = "worker" /\ todo'[t] = todo[t]
    BY <1>4, <1>5, <1>6 DEF Thread
  <2>2. \A t \in Thread : <<"unlink", "both">> \in Ahead(t)' => <<"unlink", "both">> \in Ahead(t)
    BY <1>5, <1>7 DEF Thread
  <2>3. \A e \in Entries : <<"write", e>> \in Ahead("worker")' => <<"write", e>> \in Ahead("worker")
    BY <1>7
  <2> QED
    BY <1>1, <2>1, <2>2, <2>3 DEF IInv, CalmInv, Calm, ExecTarget, Enabled
<1>11. CopyInv'
  BY <1>1, <1>5 DEF IInv, CopyInv, Calm, Enabled
<1>12. HealInv'
  BY <1>1, <1>7 DEF IInv, HealInv, Calm, Enabled, ExecTarget, Faulty, Thread, Entries
<1>13. CurrentInv'
  <2> SUFFICES ASSUME Calm, ~world.untick, ~Faulty("copyFails"), path \in downloads \cup {Stable},
                      Enabled # {} \/ \E e \in Entries : <<"write", e>> \in Ahead("gui")'
               PROVE  \/ copy = build
                      \/ <<"copy", "both">> \in Ahead("worker")'
                      \/ <<"ensure", "both">> \in Ahead("gui")'
                      \/ \E e \in Enabled : <<"start", e>> \in Ahead("gui")'
    BY <1>1 DEF CurrentInv, Calm, Faulty, Enabled
  <2>1. \/ copy = build
        \/ <<"copy", "both">> \in Ahead("worker")
        \/ <<"ensure", "both">> \in Ahead("gui")
        \/ \E e \in Enabled : <<"start", e>> \in Ahead("gui")
    BY <1>5 DEF IInv, CurrentInv
  <2>2. CASE s = <<"ensure", "both">> \/ \E e \in Enabled : s = <<"start", e>>
    <3>1. CASE ~StableCopyStale
      BY <2>1, <3>1 DEF StableCopyStale, IInv, CopyInv
    <3>2. CASE todo["worker"] # << >>
      <4>1. todo'["worker"] = << <<"copy", "both">> >>
        BY <1>1, <1>4, <3>2, Waits DEF IInv, Thread, c
      <4> QED
        BY <4>1, <1>6 DEF Ahead, c
    <3>3. CASE todo' = [rest EXCEPT !["worker"] = c]
      <4>1. todo'["worker"] = c
        BY <1>3, <1>4, <3>3 DEF rest, IInv, TypeOK, Thread
      <4> QED
        BY <1>6, <4>1 DEF Ahead
    <3> QED
      BY <1>2, <2>2, <3>1, <3>2, <3>3
  <2>3. CASE ~(s = <<"ensure", "both">> \/ \E e \in Enabled : s = <<"start", e>>)
    BY <1>5, <1>7, <2>1, <2>3
  <2> QED
    BY <2>2, <2>3
<1>14. LeakInv'
  BY <1>1, <1>7 DEF IInv, LeakInv, Enabled, Faulty, Thread
<1>15. WantedInv'
  <2>1. /\ \A e \in Entries : <<"remove", e>> \in Ahead("gui")' <=> <<"remove", e>> \in Ahead("gui")
        /\ \A e \in Entries : <<"write", e>> \in Ahead("gui")' <=> <<"write", e>> \in Ahead("gui")
        /\ \A e \in Entries : <<"write", e>> \in Ahead("worker")' => <<"write", e>> \in Ahead("worker")
    BY <1>5, <1>7 DEF Entries
  <2> QED
    BY <1>1, <2>1 DEF IInv, WantedInv, Calm, Faulty, Enabled, Thread
<1> QED
  BY <1>8, <1>9, <1>10, <1>11, <1>12, <1>13, <1>14, <1>15 DEF IInv

LEMMA CopyStepStep ==
  ASSUME IInv, CopyStep
  PROVE  IInv'
<1> DEFINE lands == path \in downloads /\ Does("worker", <<"copy", "both">>, Landed) /\ copy' = build
           fails == /\ Faulty("copyFails") \/ path \notin downloads
                    /\ Does("worker", <<"copy", "both">>, Done)
                    /\ copy' = copy
<1>1. UNCHANGED <<world, downloads, entry, path, build, text, wanted, launches, toggles>>
  BY DEF CopyStep
<1>2. lands \/ fails
  BY DEF CopyStep
<1>3. /\ Done \in Seq(Step) /\ Ordered(Done) /\ Done # << >>
      /\ Head(Done) = <<"done", "both">> /\ Steps(Done) = {<<"done", "both">>}
  BY ShortPlans DEF Done
<1>4. /\ Turn("worker") /\ todo["worker"] = << <<"copy", "both">> >>
      /\ todo' = [todo EXCEPT !["worker"] = IF lands THEN Landed ELSE Done]
  BY <1>2, <1>3, TakesCopy, Plans DEF IInv
<1>5. /\ todo' \in [Thread -> Seq(Step)] /\ todo'["gui"] = todo["gui"] /\ Ahead("gui")' = Ahead("gui")
      /\ todo'["worker"] = IF lands THEN Landed ELSE Done
      /\ Ahead("worker") = {<<"copy", "both">>}
      /\ Ahead("worker")' = IF lands THEN ({"render", "look"} \X Entries)
                                          \cup {<<"orphan", "both">>, <<"done", "both">>}
                            ELSE {<<"done", "both">>}
  BY <1>3, <1>4, Plans, LandedPlan, ShortPlans DEF IInv, TypeOK, Thread, Ahead
<1>6. build \in Builds /\ path # NoProcess /\ build # NoFile
  BY <1>4, LauncherEntriesAssumption, ShortPlans DEF IInv, PlanInv, Thread
<1>7. Calm => todo["gui"] = << >> /\ Ahead("gui") = {}
  BY <1>4, Waits, ShortPlans DEF IInv, Thread, Ahead
<1>8. /\ Ordered(todo'["worker"])
      /\ \A e \in Entries : Head(todo'["worker"]) \notin {<<"look", e>>, <<"write", e>>}
      /\ <<"unlink", "both">> \notin Ahead("worker")' /\ <<"copy", "both">> \notin Ahead("worker")'
      /\ \A e \in Entries : <<"write", e>> \notin Ahead("worker")'
  <2> HIDE DEF lands
  <2>1. CASE lands
    <3>1. Ordered(todo'["worker"]) /\ Head(todo'["worker"]) = <<"render", "autostart">>
      BY <1>5, <2>1, LandedPlan
    <3>2. Ahead("worker")' = ({"render", "look"} \X Entries)
                             \cup {<<"orphan", "both">>, <<"done", "both">>}
      BY <1>5, <2>1
    <3> QED
      BY <3>1, <3>2
  <2>2. CASE ~lands
    BY <1>3, <1>5, <2>2
  <2> QED
    BY <2>1, <2>2
<1>9. copy' = IF lands THEN build ELSE copy
  BY <1>2
<1>10. ~lands => Faulty("copyFails") \/ path \notin downloads
  BY <1>2
<1> HIDE DEF lands, fails
<1>11. TypeOK'
  BY <1>1, <1>5, <1>6, <1>9 DEF IInv, TypeOK
<1>12. PlanInv'
  <2>1. \A t \in Thread : Ordered(todo'[t])
    BY <1>5, <1>8 DEF IInv, PlanInv, Thread
  <2>2. Ahead("gui")' \subseteq GuiStep /\ Ahead("worker")' \subseteq WorkerStep
    BY <1>5 DEF IInv, PlanInv, WorkerStep
  <2>3. \A t \in Thread, e \in Entries :
          todo'[t] # << >> /\ Head(todo'[t]) \in {<<"look", e>>, <<"write", e>>} => text'[t] \in Targets
    BY <1>1, <1>5, <1>8 DEF IInv, PlanInv, Thread
  <2>4. Calm' => todo'["gui"] = << >>
    BY <1>1, <1>5, <1>7 DEF Calm
  <2> QED
    BY <1>1, <1>6, <1>8, <2>1, <2>2, <2>3, <2>4 DEF PlanInv
<1>13. CalmInv'
  <2> SUFFICES ASSUME Calm PROVE CalmInv'
    BY <1>1 DEF CalmInv, Calm
  <2>1. \A t \in Thread, e \in Entries :
          /\ ~(todo'[t] # << >> /\ Head(todo'[t]) \in {<<"look", e>>, <<"write", e>>})
          /\ <<"unlink", "both">> \notin Ahead(t)'
    BY <1>5, <1>7, <1>8 DEF Thread
  <2> QED
    BY <1>8, <2>1 DEF CalmInv, Thread, Entries
<1>14. CopyInv'
  BY <1>1, <1>5, <1>6, <1>9 DEF IInv, CopyInv, Calm, Enabled
<1>15. HealInv'
  <2>1. CASE lands
    <3>1. \A e \in Entries : <<"render", e>> \in Ahead("worker")'
      BY <1>5, <2>1
    <3> QED
      BY <3>1 DEF HealInv, Thread, Enabled
  <2>2. CASE ~lands
    BY <1>1, <1>5, <1>9, <2>2 DEF IInv, HealInv, Calm, Enabled, ExecTarget, Faulty, Thread
  <2> QED
    BY <2>1, <2>2
<1>16. CurrentInv'
  BY <1>1, <1>9, <1>10 DEF IInv, CurrentInv, CopyInv, Calm, Faulty
<1>17. LeakInv'
  <2>1. CASE lands
    <3>1. <<"orphan", "both">> \in Ahead("worker")'
      BY <1>5, <2>1
    <3> QED
      BY <3>1 DEF LeakInv, Thread
  <2>2. CASE ~lands
    <3>1. \A k \in {"orphan", "unlink"} : <<k, "both">> \notin Ahead("worker")
      BY <1>5
    <3> QED
      BY <1>1, <1>5, <1>9, <2>2, <3>1 DEF IInv, LeakInv, Enabled, Faulty, Thread
  <2> QED
    BY <2>1, <2>2
<1>18. WantedInv'
  BY <1>1, <1>5, <1>8 DEF IInv, WantedInv, Calm, Enabled, Faulty, Thread
<1> QED
  BY <1>11, <1>12, <1>13, <1>14, <1>15, <1>16, <1>17, <1>18 DEF IInv

\* The steps that leave the files alone: a rendering, a look, an orphan check
\* and the end of the worker.
LEMMA QuietStep ==
  ASSUME IInv, NEW t \in Thread, NEW s, NEW W, Takes(t, s, W),
         s \in ({"render", "look"} \X Entries) \cup ({"orphan", "done"} \X {"both"}),
         W \subseteq ({"write"} \X Entries) \cup {<<"unlink", "both">>},
         \A e \in Entries :
           /\ <<"write", e>> \in W => s = <<"look", e>> /\ e \in Enabled
           /\ s = <<"look", e>> => \/ entry[e] \in {Off, text[t]}
                                   \/ <<"write", e>> \in W
           /\ s = <<"render", e>> => Steps(todo'[t]) \cap {<<"look", e>>, <<"write", e>>} # {},
         <<"unlink", "both">> \in W => Enabled = {},
         s = <<"orphan", "both">> /\ Enabled = {} => <<"unlink", "both">> \in W,
         \A e \in Entries :
           todo'[t] # << >> /\ Head(todo'[t]) \in {<<"look", e>>, <<"write", e>>}
           => text'[t] \in Targets /\ (Calm => text'[t] = ExecTarget),
         text' \in [Thread -> Targets \cup {Off}],
         \A u \in Thread \ {t} : text'[u] = text[u],
         UNCHANGED <<world, downloads, copy, entry, path, build, wanted, launches, toggles>>
  PROVE  IInv'
<1>1. /\ todo[t] # << >> /\ Head(todo[t]) = s /\ Turn(t) /\ todo' \in [Thread -> Seq(Step)]
      /\ \A u \in Thread \ {t} : todo'[u] = todo[u]
      /\ Ahead(t)' \subseteq Ahead(t) \cup W /\ Ahead(t) \cup W \subseteq Ahead(t)' \cup {s}
      /\ \A u \in Thread \ {t} : Ahead(u)' = Ahead(u)
  BY DEF Takes, Ahead
<1>2. /\ \A u \in Thread : Ahead(u)' \subseteq Ahead(u) \cup W
      /\ \A u \in Thread : Ahead(u) \subseteq Ahead(u)' \cup {s}
      /\ "gui" \in Thread /\ "worker" \in Thread
  BY <1>1 DEF Thread
<1>3. /\ s[1] \in {"render", "look", "orphan", "done"}
      /\ s # <<"copy", "both">> /\ s # <<"ensure", "both">> /\ s # <<"unlink", "both">>
      /\ \A e \in Entries : s # <<"start", e>> /\ s # <<"write", e>> /\ s # <<"remove", e>>
      /\ <<"copy", "both">> \notin W
      /\ \A e \in Entries : <<"remove", e>> \notin W /\ <<"start", e>> \notin W
  OBVIOUS
<1>4. TypeOK'
  BY <1>1 DEF IInv, TypeOK
<1>5. PlanInv'
  <2>1. W \subseteq GuiStep /\ W \subseteq WorkerStep
    BY DEF GuiStep, WorkerStep
  <2> QED
    BY <1>3, <2>1, PlanStep DEF IInv
<1>6. CalmInv'
  <2> SUFFICES ASSUME Calm PROVE CalmInv'
    BY DEF CalmInv, Calm
  <2>1. ExecTarget' = ExecTarget /\ Enabled' = Enabled
    BY DEF ExecTarget, Enabled
  <2>2. ASSUME NEW u \in Thread, NEW e \in Entries, todo'[u] # << >>,
               Head(todo'[u]) \in {<<"look", e>>, <<"write", e>>}
        PROVE  text'[u] = ExecTarget
    <3>1. CASE u = t
      BY <2>2, <3>1
    <3>2. CASE u # t
      BY <1>1, <2>2, <3>2 DEF IInv, CalmInv
    <3> QED
      BY <3>1, <3>2
  <2>3. \A u \in Thread : <<"unlink", "both">> \in Ahead(u)' => Enabled = {}
    BY <1>2 DEF IInv, CalmInv
  <2>4. \A e \in Entries : <<"write", e>> \in Ahead("worker")' => e \in Enabled
    BY <1>2 DEF IInv, CalmInv
  <2> QED
    BY <2>1, <2>2, <2>3, <2>4 DEF CalmInv
<1>7. CopyInv'
  <2>1. \A e \in Entries : <<"remove", e>> \in Ahead("gui")' => <<"remove", e>> \in Ahead("gui")
    BY <1>2, <1>3
  <2> QED
    BY <2>1 DEF IInv, CopyInv, Calm, Enabled
<1>8. HealInv'
  <2> SUFFICES ASSUME Calm, path # NoProcess, ~Faulty("writeFails"), NEW e \in Enabled, entry[e] # ExecTarget
               PROVE  \E u \in Thread : Ahead(u)' \cap {<<"render", e>>, <<"look", e>>, <<"write", e>>} # {}
    BY DEF HealInv, Calm, Faulty, Enabled, ExecTarget
  <2>1. e \in Entries /\ entry[e] # Off
    BY DEF Enabled
  <2>2. PICK u \in Thread : \E x \in Ahead(u) : x \in {<<"render", e>>, <<"look", e>>, <<"write", e>>}
    BY DEF IInv, HealInv
  <2>3. PICK x \in Ahead(u) : x \in {<<"render", e>>, <<"look", e>>, <<"write", e>>}
    BY <2>2
  <2>4. CASE x \in Ahead(u)'
    BY <2>3, <2>4
  <2>5. CASE x = s /\ u = t
    <3>1. CASE s = <<"render", e>>
      <4>1. Ahead(t)' \cap {<<"look", e>>, <<"write", e>>} # {}
        BY <2>1, <3>1 DEF Ahead
      <4> QED
        BY <4>1
    <3>2. CASE s = <<"look", e>>
      <4>1. text[t] = ExecTarget
        BY <1>1, <2>1, <3>2 DEF IInv, CalmInv
      <4>2. <<"write", e>> \in W
        BY <2>1, <3>2, <4>1
      <4>3. <<"write", e>> \in Ahead(t)'
        BY <1>1, <1>3, <2>1, <4>2
      <4> QED
        BY <4>3
    <3> QED
      BY <1>3, <2>1, <2>3, <2>5, <3>1, <3>2
  <2> QED
    BY <1>1, <2>4, <2>5
<1>9. CurrentInv'
  <2>1. \A e \in Entries : <<"write", e>> \in Ahead("gui")' => <<"write", e>> \in Ahead("gui") \/ Enabled # {}
    BY <1>2
  <2>2. /\ <<"copy", "both">> \in Ahead("worker") => <<"copy", "both">> \in Ahead("worker")'
        /\ <<"ensure", "both">> \in Ahead("gui") => <<"ensure", "both">> \in Ahead("gui")'
        /\ \A e \in Entries : <<"start", e>> \in Ahead("gui") => <<"start", e>> \in Ahead("gui")'
    BY <1>2, <1>3
  <2> QED
    BY <2>1, <2>2 DEF IInv, CurrentInv, Calm, Faulty, Enabled
<1>10. LeakInv'
  <2> SUFFICES ASSUME ~Faulty("kill"), Enabled = {}, copy # NoFile
               PROVE  \E u \in Thread : Ahead(u)' \cap {<<"orphan", "both">>, <<"unlink", "both">>} # {}
    BY DEF LeakInv, Faulty, Enabled
  <2>1. PICK u \in Thread : \E x \in Ahead(u) : x \in {<<"orphan", "both">>, <<"unlink", "both">>}
    BY DEF IInv, LeakInv
  <2>2. CASE s = <<"orphan", "both">>
    <3>1. <<"unlink", "both">> \in Ahead(t)'
      BY <1>1, <1>3, <2>2
    <3> QED
      BY <3>1
  <2>3. CASE s # <<"orphan", "both">>
    <3>1. \A x \in Ahead(u) : x \in {<<"orphan", "both">>, <<"unlink", "both">>} => x \in Ahead(u)'
      BY <1>2, <1>3, <2>3
    <3> QED
      BY <2>1, <3>1
  <2> QED
    BY <2>2, <2>3
<1>11. WantedInv'
  <2> SUFFICES ASSUME ~Faulty("writeFails"), ~Faulty("kill"), NEW e \in Entries
               PROVE  /\ <<"remove", e>> \in Ahead("gui")' => e \notin wanted
                      /\ e \in wanted => e \in Enabled \/ <<"write", e>> \in Ahead("gui")'
                      /\ Calm => /\ \A u \in Thread : <<"write", e>> \in Ahead(u)' => e \in wanted
                                 /\ e \in Enabled => e \in wanted \/ <<"remove", e>> \in Ahead("gui")'
    BY DEF WantedInv, Calm, Faulty, Enabled
  <2>1. Calm /\ <<"write", e>> \in W => <<"remove", e>> \notin Ahead("gui")
    <3>1. CASE t = "gui"
      <4>1. /\ todo["gui"] \in Seq(Step) /\ Ordered(todo["gui"]) /\ todo["gui"] # << >>
            /\ Head(todo["gui"]) # <<"remove", e>>
        BY <1>1, <1>3, <3>1 DEF IInv, TypeOK, PlanInv
      <4> QED
        BY <4>1, Dropped DEF Ahead
    <3>2. CASE t = "worker"
      BY <1>1, <1>2, <3>2, Waits, ShortPlans DEF IInv, Ahead
    <3> QED
      BY <3>1, <3>2 DEF Thread
  <2>2. Calm /\ <<"write", e>> \in W => e \in wanted
    BY <2>1 DEF IInv, WantedInv
  <2>3. /\ <<"remove", e>> \in Ahead("gui")' <=> <<"remove", e>> \in Ahead("gui")
        /\ <<"write", e>> \in Ahead("gui") => <<"write", e>> \in Ahead("gui")'
        /\ \A u \in Thread : <<"write", e>> \in Ahead(u)' => <<"write", e>> \in Ahead(u) \cup W
    BY <1>2, <1>3
  <2> QED
    BY <2>2, <2>3 DEF IInv, WantedInv
<1> QED
  BY <1>4, <1>5, <1>6, <1>7, <1>8, <1>9, <1>10, <1>11 DEF IInv


LEMMA FinishStep ==
  ASSUME IInv, NEW t \in Thread, Finish(t)
  PROVE  IInv'
<1> DEFINE s == <<"done", "both">>
<1>1. /\ Does(t, s, << >>)
      /\ UNCHANGED <<world, downloads, copy, entry, path, build, text, wanted, launches, toggles>>
  BY DEF Finish
<1>2. \A e \in Entries : s # <<"render", e>> /\ s # <<"look", e>>
  OBVIOUS
<1>3. /\ Takes(t, s, {})
      /\ \A e \in Entries : ~(todo'[t] # << >> /\ Head(todo'[t]) \in {<<"look", e>>, <<"write", e>>})
  BY <1>1, <1>2, TakesOne DEF IInv
<1>4. text' \in [Thread -> Targets \cup {Off}] /\ s # <<"orphan", "both">>
  BY <1>1 DEF IInv, TypeOK
<1>5. s \in ({"render", "look"} \X Entries) \cup ({"orphan", "done"} \X {"both"})
  OBVIOUS
<1> HIDE DEF s
<1> QED
  BY <1>1, <1>2, <1>3, <1>4, <1>5, QuietStep

LEMMA OrphanStep ==
  ASSUME IInv, NEW t \in Thread, Orphan(t)
  PROVE  IInv'
<1> DEFINE s == <<"orphan", "both">>
           w == <<"unlink", "both">>
           W == IF Enabled = {} THEN {w} ELSE {}
<1>1. /\ Does(t, s, IF Enabled = {} THEN <<w>> ELSE << >>)
      /\ UNCHANGED <<world, downloads, copy, entry, path, build, text, wanted, launches, toggles>>
  BY DEF Orphan
<1>2. /\ \A e \in Entries : /\ s # <<"render", e>> /\ s # <<"look", e>>
                            /\ w # <<"write", e>> /\ w # <<"look", e>>
      /\ w \in Step
      /\ s \in ({"render", "look"} \X Entries) \cup ({"orphan", "done"} \X {"both"})
  BY DEF Step
<1>3. /\ Takes(t, s, W)
      /\ \A e \in Entries : ~(todo'[t] # << >> /\ Head(todo'[t]) \in {<<"look", e>>, <<"write", e>>})
  <2>1. CASE Enabled = {}
    <3>1. Does(t, s, <<w>>)
      BY <1>1, <2>1
    <3> QED
      BY <1>2, <2>1, <3>1, TakesFor DEF IInv
  <2>2. CASE Enabled # {}
    <3>1. Does(t, s, << >>)
      BY <1>1, <2>2
    <3> QED
      BY <1>2, <2>2, <3>1, TakesOne DEF IInv
  <2> QED
    BY <2>1, <2>2
<1>4. text' \in [Thread -> Targets \cup {Off}]
  BY <1>1 DEF IInv, TypeOK
<1>5. /\ w \in W <=> Enabled = {}
      /\ W \subseteq {w}
  OBVIOUS
<1>6. /\ W \subseteq ({"write"} \X Entries) \cup {<<"unlink", "both">>}
      /\ \A e \in Entries : <<"write", e>> \notin W
  BY <1>2, <1>5
<1>7. <<"unlink", "both">> \in W <=> Enabled = {}
  BY <1>5
<1> HIDE DEF s, W, w
<1> QED
  BY <1>1, <1>2, <1>3, <1>4, <1>6, <1>7, QuietStep

LEMMA RenderStep ==
  ASSUME IInv, NEW t \in Thread, NEW e \in Entries, RenderEntry(t, e)
  PROVE  IInv'
<1> DEFINE s == <<"render", e>>
<1>1. /\ Does(t, s, << >>) /\ text' = [text EXCEPT ![t] = ExecTarget]
      /\ UNCHANGED <<world, downloads, copy, entry, path, build, wanted, launches, toggles>>
  BY DEF RenderEntry
<1>2. \A f \in Entries : /\ s # <<"look", f>>
                         /\ s = <<"render", f>> => f = e
  BY DEF Entries
<1>3. /\ Takes(t, s, {})
      /\ Steps(todo'[t]) \cap {<<"look", e>>, <<"write", e>>} # {}
  BY <1>1, <1>2, TakesOne DEF IInv
<1>4. ExecTarget \in Targets
  BY <1>3 DEF Takes, ExecTarget, Targets, IInv, TypeOK, PlanInv
<1>5. /\ text' \in [Thread -> Targets \cup {Off}] /\ text'[t] = ExecTarget
      /\ \A u \in Thread \ {t} : text'[u] = text[u]
  BY <1>1, <1>4 DEF IInv, TypeOK
<1>6. /\ s \in ({"render", "look"} \X Entries) \cup ({"orphan", "done"} \X {"both"})
      /\ s # <<"orphan", "both">>
  OBVIOUS
<1> HIDE DEF s
<1> QED
  BY <1>1, <1>2, <1>3, <1>4, <1>5, <1>6, QuietStep

LEMMA LookStep ==
  ASSUME IInv, NEW t \in Thread, NEW e \in Entries, Look(t, e)
  PROVE  IInv'
<1> DEFINE s == <<"look", e>>
           w == <<"write", e>>
           stale == entry[e] \notin {Off, text[t]}
           W == IF stale THEN {w} ELSE {}
<1>1. /\ Does(t, s, IF stale THEN <<w>> ELSE << >>)
      /\ UNCHANGED <<world, downloads, copy, entry, path, build, text, wanted, launches, toggles>>
  BY DEF Look
<1>2. /\ \A f \in Entries : /\ s # <<"render", f>>
                            /\ s = <<"look", f>> => f = e
                            /\ w = <<"write", f>> => f = e
      /\ w \in Step
      /\ s \in ({"render", "look"} \X Entries) \cup ({"orphan", "done"} \X {"both"})
      /\ s # <<"orphan", "both">> /\ w # <<"unlink", "both">>
  BY DEF Step, Entries
<1>3. Head(todo[t]) = s /\ todo[t] # << >>
  BY <1>1 DEF Does
<1>4. text[t] \in Targets /\ (Calm => text[t] = ExecTarget)
  BY <1>3 DEF IInv, PlanInv, CalmInv
<1>5. /\ Takes(t, s, W)
      /\ \A f \in Entries :
           todo'[t] # << >> /\ Head(todo'[t]) \in {<<"look", f>>, <<"write", f>>} => stale
  <2>1. CASE stale
    <3>1. Does(t, s, <<w>>)
      BY <1>1, <2>1
    <3> QED
      BY <1>2, <2>1, <3>1, TakesFor DEF IInv
  <2>2. CASE ~stale
    <3>1. Does(t, s, << >>)
      BY <1>1, <2>2
    <3> QED
      BY <1>2, <2>2, <3>1, TakesOne DEF IInv
  <2> QED
    BY <2>1, <2>2
<1>6. text' \in [Thread -> Targets \cup {Off}] /\ \A u \in Thread : text'[u] = text[u]
  BY <1>1 DEF IInv, TypeOK
<1>7. /\ W \subseteq ({"write"} \X Entries) \cup {<<"unlink", "both">>}
      /\ <<"unlink", "both">> \notin W
      /\ \A f \in Entries : /\ <<"write", f>> \in W => f = e /\ e \in Enabled
                            /\ s = <<"look", f>> =>
                                 \/ entry[f] \in {Off, text[t]}
                                 \/ <<"write", f>> \in W
  <2>1. stale => e \in Enabled
    BY DEF Enabled
  <2>2. W \subseteq {w} /\ (w \in W <=> stale)
    OBVIOUS
  <2> HIDE DEF W, s
  <2> QED
    BY <1>2, <2>1, <2>2
<1> HIDE DEF s, w, W, stale
<1>8. \A f \in Entries : <<"write", f>> \in W => s = <<"look", f>> /\ f \in Enabled
  BY <1>7 DEF s
<1> QED
  BY <1>1, <1>2, <1>4, <1>5, <1>6, <1>7, <1>8, QuietStep


\* The facts that the three steps on the files share.
LEMMA FileStep ==
  ASSUME IInv, NEW t \in Thread, NEW s, Does(t, s, << >>),
         s \in ({"write", "remove"} \X Entries) \cup {<<"unlink", "both">>},
         UNCHANGED <<world, downloads, path, build, text, wanted, launches, toggles>>
  PROVE  /\ todo[t] # << >> /\ Head(todo[t]) = s /\ s \in Ahead(t) /\ Turn(t)
         /\ todo' \in [Thread -> Seq(Step)]
         /\ \A u \in Thread : Ahead(u)' \subseteq Ahead(u) /\ Ahead(u) \subseteq Ahead(u)' \cup {s}
         /\ \A u \in Thread \ {t} : todo'[u] = todo[u] /\ Ahead(u)' = Ahead(u)
         /\ \A e \in Entries :
              todo'[t] # << >> => Head(todo'[t]) \notin {<<"look", e>>, <<"write", e>>}
         /\ \A x \in Ahead(t) : x[1] \in {"remove", "unlink"} => x = s
         /\ s[1] \in {"remove", "unlink"} => Ahead(t)' \subseteq {<<"orphan", "both">>, <<"done", "both">>}
         /\ \A e \in Entries : s = <<"remove", e>> => <<"orphan", "both">> \in Ahead(t)'
         /\ Calm => \A u \in Thread \ {t} :
                      /\ Ahead(u) \subseteq {<<"copy", "both">>}
                      /\ t = "worker" => Ahead(u) = {}
         /\ PlanInv'
<1>1. \A e \in Entries : s # <<"render", e>>
  OBVIOUS
<1>2. /\ Takes(t, s, {})
      /\ \A e \in Entries :
           todo'[t] # << >> => Head(todo'[t]) \notin {<<"look", e>>, <<"write", e>>}
      /\ \A e \in Entries : s = <<"remove", e>> => <<"orphan", "both">> \in Ahead(t)'
      /\ s[1] \in {"remove", "orphan", "unlink"} =>
           Ahead(t)' \subseteq {<<"orphan", "both">>, <<"done", "both">>}
  BY <1>1, TakesOne DEF IInv, Ahead
<1>3. /\ todo[t] # << >> /\ Head(todo[t]) = s /\ s \in Ahead(t) /\ Turn(t)
      /\ todo' \in [Thread -> Seq(Step)]
      /\ \A u \in Thread \ {t} : todo'[u] = todo[u] /\ Ahead(u)' = Ahead(u)
      /\ Ahead(t)' \subseteq Ahead(t) /\ Ahead(t) \subseteq Ahead(t)' \cup {s}
  BY <1>2 DEF Takes, Ahead
<1>4. \A x \in Ahead(t) : x[1] \in {"remove", "unlink"} => x = s
  BY <1>3, Dropped DEF IInv, TypeOK, PlanInv, Ahead
<1>5. Calm => \A u \in Thread \ {t} :
                /\ Ahead(u) \subseteq {<<"copy", "both">>}
                /\ t = "worker" => Ahead(u) = {}
  BY <1>3, Waits, ShortPlans DEF IInv, Ahead
<1>6. PlanInv'
  <2>1. s # <<"copy", "both">>
    OBVIOUS
  <2> QED
    BY <1>2, <2>1, PlanStep DEF IInv
<1> QED
  BY <1>2, <1>3, <1>4, <1>5, <1>6

LEMMA WriteStep ==
  ASSUME IInv, NEW t \in Thread, NEW e \in Entries, WriteEntry(t, e)
  PROVE  IInv'
<1> DEFINE s == <<"write", e>>
<1>1. /\ Does(t, s, << >>)
      /\ UNCHANGED <<world, downloads, copy, path, build, text, wanted, launches, toggles>>
      /\ \/ entry' = [entry EXCEPT ![e] = text[t]]
         \/ Faulty("writeFails") /\ entry' = entry
  BY DEF WriteEntry
<1>2. /\ s \in ({"write", "remove"} \X Entries) \cup {<<"unlink", "both">>}
      /\ s[1] = "write" /\ s # <<"copy", "both">> /\ s # <<"ensure", "both">>
      /\ s # <<"orphan", "both">> /\ s # <<"unlink", "both">>
      /\ \A f \in Entries : /\ s # <<"start", f>> /\ s # <<"remove", f>>
                            /\ s = <<"write", f>> => f = e
                            /\ f # e => s \notin {<<"render", f>>, <<"look", f>>, <<"write", f>>}
  BY DEF Entries
<1>3. /\ todo[t] # << >> /\ Head(todo[t]) = s /\ s \in Ahead(t) /\ Turn(t)
      /\ todo' \in [Thread -> Seq(Step)]
      /\ \A u \in Thread : Ahead(u)' \subseteq Ahead(u) /\ Ahead(u) \subseteq Ahead(u)' \cup {s}
      /\ \A u \in Thread \ {t} : todo'[u] = todo[u] /\ Ahead(u)' = Ahead(u)
      /\ \A f \in Entries :
           todo'[t] # << >> => Head(todo'[t]) \notin {<<"look", f>>, <<"write", f>>}
      /\ \A x \in Ahead(t) : x[1] \in {"remove", "unlink"} => x = s
      /\ Calm => \A u \in Thread \ {t} : Ahead(u) \subseteq {<<"copy", "both">>}
      /\ PlanInv'
  BY <1>1, <1>2, FileStep
<1>4. text[t] \in Targets /\ text[t] # Off /\ (Calm => text[t] = ExecTarget)
  BY <1>3, LauncherEntriesAssumption DEF IInv, PlanInv, CalmInv, Targets
<1>5. /\ entry' \in [Entries -> Targets \cup {Off}]
      /\ \A f \in Entries \ {e} : entry'[f] = entry[f]
      /\ \/ entry'[e] = text[t]
         \/ Faulty("writeFails") /\ entry' = entry
  BY <1>1, <1>4 DEF IInv, TypeOK
<1> HIDE DEF s
<1>6. /\ Enabled' \subseteq Enabled \cup {e} /\ Enabled \subseteq Enabled'
      /\ e \in Enabled' \/ Enabled' = Enabled
  BY <1>1, <1>4, <1>5 DEF Enabled
<1>7. "gui" \in Thread /\ "worker" \in Thread
  BY DEF Thread
<1>8. TypeOK'
  BY <1>1, <1>3, <1>5 DEF IInv, TypeOK
<1>9. CalmInv'
  <2> SUFFICES ASSUME Calm PROVE CalmInv'
    BY <1>1 DEF CalmInv, Calm
  <2>1. \A u \in Thread, f \in Entries :
          todo'[u] # << >> /\ Head(todo'[u]) \in {<<"look", f>>, <<"write", f>>}
          => text'[u] = ExecTarget'
    BY <1>1, <1>3 DEF IInv, CalmInv, ExecTarget
  <2>2. \A u \in Thread : <<"unlink", "both">> \notin Ahead(u)'
    BY <1>2, <1>3
  <2>3. \A f \in Entries : <<"write", f>> \in Ahead("worker")' => f \in Enabled'
    BY <1>3, <1>6, <1>7 DEF IInv, CalmInv
  <2> QED
    BY <2>1, <2>2, <2>3 DEF CalmInv
<1>10. CopyInv'
  <2> SUFFICES ASSUME Calm, ~world.untick PROVE CopyInv'
    BY <1>1 DEF CopyInv, Calm
  <2>1. /\ \A f \in Entries : entry[f] = Stable => copy # NoFile
        /\ path = Stable => copy = build /\ \E f \in Enabled : <<"remove", f>> \notin Ahead("gui")
    BY DEF IInv, CopyInv
  <2>2. build # NoFile
    BY <1>3, LauncherEntriesAssumption DEF IInv, PlanInv
  <2>3. text[t] = Stable => copy # NoFile
    BY <1>4, <2>1, <2>2 DEF ExecTarget
  <2>4. \A f \in Entries : entry'[f] = Stable => copy # NoFile
    BY <1>5, <2>1, <2>3
  <2>5. path = Stable => \E f \in Enabled' : <<"remove", f>> \notin Ahead("gui")'
    BY <1>3, <1>6, <1>7, <2>1
  <2> QED
    BY <1>1, <2>1, <2>4, <2>5 DEF CopyInv
<1>11. HealInv'
  <2> SUFFICES ASSUME Calm, path # NoProcess, ~Faulty("writeFails"), NEW f \in Enabled',
                      entry'[f] # ExecTarget
               PROVE  \E u \in Thread : Ahead(u)' \cap {<<"render", f>>, <<"look", f>>, <<"write", f>>} # {}
    BY <1>1 DEF HealInv, Calm, Faulty, ExecTarget
  <2>1. f \in Entries /\ f # e
    BY <1>4, <1>5 DEF Enabled
  <2>2. f \in Enabled /\ entry[f] # ExecTarget
    BY <1>5, <1>6, <2>1
  <2>3. PICK u \in Thread : \E x \in Ahead(u) : x \in {<<"render", f>>, <<"look", f>>, <<"write", f>>}
    BY <2>2 DEF IInv, HealInv
  <2> QED
    BY <1>2, <1>3, <2>1, <2>3
<1>12. CurrentInv'
  <2> SUFFICES ASSUME Calm, ~world.untick, ~Faulty("copyFails"), path \in downloads \cup {Stable}
               PROVE  \/ copy = build
                      \/ <<"copy", "both">> \in Ahead("worker")'
                      \/ <<"ensure", "both">> \in Ahead("gui")'
                      \/ \E f \in Enabled' : <<"start", f>> \in Ahead("gui")'
    BY <1>1 DEF CurrentInv, Calm, Faulty
  <2>1. Enabled # {} \/ \E f \in Entries : <<"write", f>> \in Ahead("gui")
    <3>1. CASE t = "gui"
      BY <1>3, <3>1 DEF s
    <3>2. CASE t = "worker"
      BY <1>3, <3>2 DEF IInv, CalmInv, s
    <3> QED
      BY <3>1, <3>2 DEF Thread
  <2>2. \/ copy = build
        \/ <<"copy", "both">> \in Ahead("worker")
        \/ <<"ensure", "both">> \in Ahead("gui")
        \/ \E f \in Enabled : <<"start", f>> \in Ahead("gui")
    BY <2>1 DEF IInv, CurrentInv
  <2>3. \A f \in Enabled : f \in Entries
    BY DEF Enabled
  <2> QED
    BY <1>2, <1>3, <1>6, <1>7, <2>2, <2>3
<1>13. LeakInv'
  <2> SUFFICES ASSUME ~Faulty("kill"), Enabled' = {}, copy # NoFile
               PROVE  \E u \in Thread : Ahead(u)' \cap {<<"orphan", "both">>, <<"unlink", "both">>} # {}
    BY <1>1 DEF LeakInv, Faulty
  <2>1. Enabled = {}
    BY <1>6
  <2>2. PICK u \in Thread : \E x \in Ahead(u) : x \in {<<"orphan", "both">>, <<"unlink", "both">>}
    BY <2>1 DEF IInv, LeakInv
  <2> QED
    BY <1>2, <1>3, <2>2
<1>14. WantedInv'
  <2> SUFFICES ASSUME ~Faulty("writeFails"), ~Faulty("kill"), NEW f \in Entries
               PROVE  /\ <<"remove", f>> \in Ahead("gui")' => f \notin wanted
                      /\ f \in wanted => f \in Enabled' \/ <<"write", f>> \in Ahead("gui")'
                      /\ Calm => /\ \A u \in Thread : <<"write", f>> \in Ahead(u)' => f \in wanted
                                 /\ f \in Enabled' => f \in wanted \/ <<"remove", f>> \in Ahead("gui")'
    BY <1>1 DEF WantedInv, Calm, Faulty
  <2>1. e \in Enabled' /\ (Calm => e \in wanted)
    BY <1>3, <1>4, <1>5 DEF IInv, WantedInv, Enabled, s
  <2>2. /\ <<"remove", f>> \in Ahead("gui") => f \notin wanted
        /\ f \in wanted => f \in Enabled \/ <<"write", f>> \in Ahead("gui")
        /\ Calm => /\ \A u \in Thread : <<"write", f>> \in Ahead(u) => f \in wanted
                   /\ f \in Enabled => f \in wanted \/ <<"remove", f>> \in Ahead("gui")
    BY DEF IInv, WantedInv
  <2> QED
    BY <1>2, <1>3, <1>6, <1>7, <2>1, <2>2
<1> QED
  BY <1>3, <1>8, <1>9, <1>10, <1>11, <1>12, <1>13, <1>14 DEF IInv


LEMMA RemoveStep ==
  ASSUME IInv, NEW t \in Thread, NEW e \in Entries, RemoveEntry(t, e)
  PROVE  IInv'
<1> DEFINE s == <<"remove", e>>
<1>1. /\ Does(t, s, << >>)
      /\ UNCHANGED <<world, downloads, copy, path, build, text, wanted, launches, toggles>>
      /\ entry' = [entry EXCEPT ![e] = Off]
  BY DEF RemoveEntry
<1>2. /\ s \in ({"write", "remove"} \X Entries) \cup {<<"unlink", "both">>}
      /\ s[1] = "remove" /\ s # <<"copy", "both">> /\ s # <<"ensure", "both">>
      /\ s # <<"orphan", "both">> /\ s # <<"unlink", "both">>
      /\ \A f \in Entries : /\ s # <<"start", f>> /\ s # <<"write", f>>
                            /\ s # <<"render", f>> /\ s # <<"look", f>>
                            /\ s = <<"remove", f>> => f = e
  BY DEF Entries
<1>3. /\ todo[t] # << >> /\ Head(todo[t]) = s /\ s \in Ahead(t) /\ Turn(t)
      /\ todo' \in [Thread -> Seq(Step)]
      /\ \A u \in Thread : Ahead(u)' \subseteq Ahead(u) /\ Ahead(u) \subseteq Ahead(u)' \cup {s}
      /\ \A u \in Thread \ {t} : todo'[u] = todo[u] /\ Ahead(u)' = Ahead(u)
      /\ \A f \in Entries :
           todo'[t] # << >> => Head(todo'[t]) \notin {<<"look", f>>, <<"write", f>>}
      /\ Ahead(t)' \subseteq {<<"orphan", "both">>, <<"done", "both">>}
      /\ <<"orphan", "both">> \in Ahead(t)'
      /\ Calm => \A u \in Thread \ {t} : Ahead(u) \subseteq {<<"copy", "both">>}
      /\ PlanInv'
  BY <1>1, <1>2, FileStep
<1>4. t = "gui"
  <2>1. s \notin WorkerStep
    BY DEF WorkerStep
  <2> QED
    BY <1>3, <2>1 DEF IInv, PlanInv, Thread
<1> HIDE DEF s
<1>5. /\ entry' \in [Entries -> Targets \cup {Off}]
      /\ \A f \in Entries \ {e} : entry'[f] = entry[f]
      /\ entry'[e] = Off
      /\ Enabled' = Enabled \ {e}
  BY <1>1 DEF IInv, TypeOK, Enabled
<1>6. "gui" \in Thread /\ "worker" \in Thread
  BY DEF Thread
<1>7. TypeOK'
  BY <1>1, <1>3, <1>5 DEF IInv, TypeOK
<1>8. CalmInv'
  <2> SUFFICES ASSUME Calm PROVE CalmInv'
    BY <1>1 DEF CalmInv, Calm
  <2>1. \A u \in Thread, f \in Entries :
          todo'[u] # << >> /\ Head(todo'[u]) \in {<<"look", f>>, <<"write", f>>}
          => text'[u] = ExecTarget'
    BY <1>1, <1>3 DEF IInv, CalmInv, ExecTarget
  <2>2. \A u \in Thread : <<"unlink", "both">> \in Ahead(u)' => Enabled' = {}
    BY <1>3, <1>5 DEF IInv, CalmInv
  <2>3. \A f \in Entries : <<"write", f>> \notin Ahead("worker")'
    BY <1>3, <1>4, <1>6
  <2> QED
    BY <2>1, <2>2, <2>3 DEF CalmInv
<1>9. CopyInv'
  <2> SUFFICES ASSUME Calm, ~world.untick PROVE CopyInv'
    BY <1>1 DEF CopyInv, Calm
  <2>1. /\ \A f \in Entries : entry[f] = Stable => copy # NoFile
        /\ path = Stable => copy = build /\ \E f \in Enabled : <<"remove", f>> \notin Ahead("gui")
    BY DEF IInv, CopyInv
  <2>2. \A f \in Entries : entry'[f] = Stable => copy # NoFile
    BY <1>5, <2>1, LauncherEntriesAssumption
  <2>3. path = Stable => \E f \in Enabled' : <<"remove", f>> \notin Ahead("gui")'
    BY <1>3, <1>4, <1>5, <1>6, <2>1 DEF s
  <2> QED
    BY <1>1, <2>1, <2>2, <2>3 DEF CopyInv
<1>10. HealInv'
  <2> SUFFICES ASSUME Calm, path # NoProcess, ~Faulty("writeFails"), NEW f \in Enabled',
                      entry'[f] # ExecTarget
               PROVE  \E u \in Thread : Ahead(u)' \cap {<<"render", f>>, <<"look", f>>, <<"write", f>>} # {}
    BY <1>1 DEF HealInv, Calm, Faulty, ExecTarget
  <2>1. f \in Entries /\ f \in Enabled /\ entry[f] # ExecTarget
    BY <1>5 DEF Enabled
  <2>2. PICK u \in Thread : \E x \in Ahead(u) : x \in {<<"render", f>>, <<"look", f>>, <<"write", f>>}
    BY <2>1 DEF IInv, HealInv
  <2> QED
    BY <1>2, <1>3, <2>1, <2>2
<1>11. CurrentInv'
  <2> SUFFICES ASSUME Calm, ~world.untick, ~Faulty("copyFails"), path \in downloads \cup {Stable},
                      Enabled' # {} \/ \E f \in Entries : <<"write", f>> \in Ahead("gui")'
               PROVE  \/ copy = build
                      \/ <<"copy", "both">> \in Ahead("worker")'
    BY <1>1 DEF CurrentInv, Calm, Faulty
  <2>1. Enabled # {}
    BY <1>3, <1>4, <1>5
  <2>2. \/ copy = build
        \/ <<"copy", "both">> \in Ahead("worker")
        \/ <<"ensure", "both">> \in Ahead("gui")
        \/ \E f \in Enabled : <<"start", f>> \in Ahead("gui")
    BY <2>1 DEF IInv, CurrentInv
  <2>3. \A f \in Enabled : f \in Entries
    BY DEF Enabled
  <2>4. Ahead("gui") \subseteq {<<"orphan", "both">>, <<"done", "both">>, s}
    BY <1>3, <1>4, <1>6
  <2>5. <<"ensure", "both">> \notin Ahead("gui") /\ \A f \in Entries : <<"start", f>> \notin Ahead("gui")
    BY <1>2, <2>4
  <2> QED
    BY <1>3, <1>4, <1>6, <2>2, <2>3, <2>5
<1>12. LeakInv'
  BY <1>3 DEF LeakInv
<1>13. WantedInv'
  <2> SUFFICES ASSUME ~Faulty("writeFails"), ~Faulty("kill"), NEW f \in Entries
               PROVE  /\ <<"remove", f>> \in Ahead("gui")' => f \notin wanted
                      /\ f \in wanted => f \in Enabled' \/ <<"write", f>> \in Ahead("gui")'
                      /\ Calm => /\ \A u \in Thread : <<"write", f>> \in Ahead(u)' => f \in wanted
                                 /\ f \in Enabled' => f \in wanted \/ <<"remove", f>> \in Ahead("gui")'
    BY <1>1 DEF WantedInv, Calm, Faulty
  <2>1. e \notin wanted
    BY <1>3, <1>4 DEF IInv, WantedInv, s
  <2>2. /\ <<"remove", f>> \in Ahead("gui") => f \notin wanted
        /\ f \in wanted => f \in Enabled \/ <<"write", f>> \in Ahead("gui")
        /\ Calm => /\ \A u \in Thread : <<"write", f>> \in Ahead(u) => f \in wanted
                   /\ f \in Enabled => f \in wanted \/ <<"remove", f>> \in Ahead("gui")
    BY DEF IInv, WantedInv
  <2> QED
    BY <1>2, <1>3, <1>5, <1>6, <2>1, <2>2
<1> QED
  BY <1>3, <1>7, <1>8, <1>9, <1>10, <1>11, <1>12, <1>13 DEF IInv

LEMMA UnlinkStep ==
  ASSUME IInv, NEW t \in Thread, Unlink(t)
  PROVE  IInv'
<1> DEFINE s == <<"unlink", "both">>
<1>1. /\ Does(t, s, << >>)
      /\ copy' = NoFile
      /\ UNCHANGED <<world, downloads, entry, path, build, text, wanted, launches, toggles>>
  BY DEF Unlink
<1>2. /\ s \in ({"write", "remove"} \X Entries) \cup {<<"unlink", "both">>}
      /\ s[1] = "unlink"
      /\ \A f \in Entries : s # <<"write", f>> /\ s # <<"remove", f>>
  OBVIOUS
<1>3. /\ todo[t] # << >> /\ Head(todo[t]) = s /\ s \in Ahead(t) /\ Turn(t)
      /\ todo' \in [Thread -> Seq(Step)]
      /\ \A u \in Thread : Ahead(u)' \subseteq Ahead(u) /\ Ahead(u) \subseteq Ahead(u)' \cup {s}
      /\ \A u \in Thread \ {t} : todo'[u] = todo[u] /\ Ahead(u)' = Ahead(u)
      /\ \A f \in Entries :
           todo'[t] # << >> => Head(todo'[t]) \notin {<<"look", f>>, <<"write", f>>}
      /\ Ahead(t)' \subseteq {<<"orphan", "both">>, <<"done", "both">>}
      /\ Calm => \A u \in Thread \ {t} : Ahead(u) \subseteq {<<"copy", "both">>}
                                         /\ (t = "worker" => Ahead(u) = {})
      /\ PlanInv'
  BY <1>1, <1>2, FileStep
<1>4. "gui" \in Thread /\ "worker" \in Thread
  BY DEF Thread
<1>5. Calm => Enabled = {} /\ Enabled' = {}
  BY <1>1, <1>3 DEF IInv, CalmInv, Enabled
<1>6. Calm => \A u \in Thread \ {t} : todo[u] = << >> \/ Head(todo[u]) = <<"copy", "both">>
  BY <1>3, Waits DEF IInv
<1> HIDE DEF s
<1>7. TypeOK'
  BY <1>1, <1>3 DEF IInv, TypeOK
<1>8. CalmInv'
  <2> SUFFICES ASSUME Calm PROVE CalmInv'
    BY <1>1 DEF CalmInv, Calm
  <2>1. \A u \in Thread, f \in Entries :
          ~(todo'[u] # << >> /\ Head(todo'[u]) \in {<<"look", f>>, <<"write", f>>})
    <3>1. \A f \in Entries : <<"copy", "both">> \notin {<<"look", f>>, <<"write", f>>}
      OBVIOUS
    <3> QED
      BY <1>3, <1>6, <3>1
  <2>2. \A f \in Entries : <<"write", f>> \notin Ahead("worker")'
    BY <1>3, <1>4
  <2> QED
    BY <1>5, <2>1, <2>2 DEF CalmInv
<1>9. CopyInv'
  <2> SUFFICES ASSUME Calm, ~world.untick PROVE CopyInv'
    BY <1>1 DEF CopyInv, Calm
  <2>1. \A f \in Entries : entry[f] # Stable
    BY <1>5, LauncherEntriesAssumption DEF Enabled
  <2>2. path # Stable
    BY <1>5 DEF IInv, CopyInv
  <2> QED
    BY <1>1, <2>1, <2>2 DEF CopyInv
<1>10. HealInv'
  BY <1>1, <1>5 DEF HealInv, Calm
<1>11. CurrentInv'
  <2>1. Calm => \A f \in Entries : <<"write", f>> \notin Ahead("gui")'
    BY <1>3, <1>4
  <2> QED
    BY <1>1, <1>5, <2>1 DEF CurrentInv, Calm
<1>12. LeakInv'
  BY <1>1 DEF LeakInv
<1>13. WantedInv'
  <2>1. \A f \in Entries : /\ <<"remove", f>> \in Ahead("gui")' <=> <<"remove", f>> \in Ahead("gui")
                           /\ \A u \in Thread : <<"write", f>> \in Ahead(u)' <=> <<"write", f>> \in Ahead(u)
    BY <1>2, <1>3, <1>4
  <2> QED
    BY <1>1, <1>4, <2>1 DEF IInv, WantedInv, Calm, Enabled, Faulty
<1> QED
  BY <1>3, <1>7, <1>8, <1>9, <1>10, <1>11, <1>12, <1>13 DEF IInv

-----------------------------------------------------------------------------
(***************************************************************************)
(* The theorems.                                                           *)
(***************************************************************************)

LEMMA InitHolds == Init => IInv
<1> SUFFICES ASSUME Init PROVE IInv
  OBVIOUS
<1>1. /\ \A t \in Thread : todo[t] = << >> /\ text[t] = Off
      /\ \A e \in Entries : entry[e] = Off
      /\ Enabled = {} /\ copy = NoFile /\ path = NoProcess /\ build = NoProcess /\ wanted = {}
      /\ "gui" \in Thread /\ "worker" \in Thread
  BY DEF Init, Thread, Enabled
<1>2. \A t \in Thread : Ordered(todo[t]) /\ Ahead(t) = {}
  BY <1>1, ShortPlans DEF Ahead
<1>3. TypeOK
  BY LauncherEntriesAssumption, ShortPlans DEF Init, TypeOK, Targets
<1>4. PlanInv /\ CalmInv /\ LeakInv /\ HealInv
  BY <1>1, <1>2 DEF PlanInv, CalmInv, LeakInv, HealInv
<1>5. path \notin downloads \cup {Stable}
  BY <1>1, LauncherEntriesAssumption DEF Init
<1>6. CopyInv /\ CurrentInv /\ WantedInv
  BY <1>1, <1>2, <1>5, LauncherEntriesAssumption DEF CopyInv, CurrentInv, WantedInv
<1> QED
  BY <1>3, <1>4, <1>6 DEF IInv

LEMMA StepHolds == IInv /\ [Next]_vars => IInv'
<1> SUFFICES ASSUME IInv, [Next]_vars PROVE IInv'
  OBVIOUS
<1>1. CASE \E b \in Builds : Download(b)
  BY <1>1, DownloadStep
<1>2. CASE \E b \in Builds, p \in Targets : Launch(b, p)
  BY <1>2, LaunchStep
<1>3. CASE \E e \in Entries : Toggle(e)
  BY <1>3, ToggleStep
<1>4. CASE End
  BY <1>4, EndStep
<1>5. CASE Ensure
  BY <1>5, EnsureStep
<1>6. CASE CopyStep
  BY <1>6, CopyStepStep
<1>7. CASE \E t \in Thread : ThreadStep(t)
  BY <1>7, FinishStep, OrphanStep, UnlinkStep, RenderStep, LookStep, WriteStep, RemoveStep
     DEF ThreadStep
<1>8. CASE UNCHANGED vars
  <2>1. TypeOK' /\ PlanInv'
    BY <1>8 DEF vars, IInv, TypeOK, PlanInv, Calm, Ahead
  <2>2. CalmInv' /\ CopyInv' /\ HealInv'
    BY <1>8 DEF vars, IInv, CalmInv, CopyInv, HealInv, Calm, Ahead, Enabled, ExecTarget, Faulty
  <2>3. CurrentInv' /\ LeakInv' /\ WantedInv'
    BY <1>8 DEF vars, IInv, CurrentInv, LeakInv, WantedInv, Calm, Ahead, Enabled, Faulty
  <2> QED
    BY <2>1, <2>2, <2>3 DEF IInv
<1> QED
  BY <1>1, <1>2, <1>3, <1>4, <1>5, <1>6, <1>7, <1>8 DEF Next

\* What the two threads work with and what they still have to do stays in order
\* at every step, whatever is launched, clicked, lost or killed.
THEOREM InvHolds == Spec => []IInv
  BY InitHolds, StepHolds, PTL DEF Spec

\* Every step of the two threads keeps the files and the plans well-formed.
THEOREM TypeCorrect == Spec => []TypeOK
<1>1. IInv => TypeOK
  BY DEF IInv
<1> QED
  BY <1>1, InvHolds, PTL

LEMMA IdleAhead ==
  ASSUME Idle
  PROVE  \A t \in Thread : Ahead(t) = {}
  BY ShortPlans DEF Idle, Ahead

\* In a calm world no entry launches a copy that is not there: execLine() names
\* the copy only where it found it, and the copy goes only once nothing names
\* it.  Where the last entry may be turned off in a session of the copy itself
\* an entry may, until a session of a download has come to rest.
THEOREM NoDanglingHolds == Spec => []NoDangling
<1>1. ASSUME IInv, Calm, NEW e \in Entries, entry[e] = Stable, copy = NoFile
      PROVE  world.untick /\ (Idle => path \in {Stable, NoProcess} \/ Faulty("writeFails"))
  <2>1. world.untick
    BY <1>1 DEF IInv, CopyInv
  <2>2. ASSUME Idle, path # NoProcess, ~Faulty("writeFails")
        PROVE  path = Stable
    <3>1. e \in Enabled
      BY <1>1, LauncherEntriesAssumption DEF Enabled
    <3> QED
      BY <1>1, <2>2, <3>1, IdleAhead DEF IInv, HealInv, ExecTarget
  <2> QED
    BY <2>1, <2>2
<1>2. IInv => NoDangling
  BY <1>1 DEF Calm, NoDangling
<1> QED
  BY <1>2, InvHolds, PTL

\* In a calm world, where writes succeed, a session at rest has its enabled
\* entries at the best there is: every entry that is behind has a refresh ahead,
\* so none is when nothing is ahead.
THEOREM EntriesHealedHolds == Spec => []EntriesHealed
<1>1. IInv => EntriesHealed
  <2>1. Idle => \A t \in Thread : Ahead(t) = {}
    BY IdleAhead
  <2> QED
    BY <2>1 DEF IInv, HealInv, Calm, EntriesHealed, ExecTarget
<1> QED
  BY <1>1, InvHolds, PTL

\* In a calm world where copies succeed and the copy's own sessions keep an
\* entry, a session at rest whose file is still there leaves its own build
\* behind the entries.
THEOREM CopyIsCurrentHolds == Spec => []CopyIsCurrent
<1>1. IInv => CopyIsCurrent
  <2>1. Idle => Ahead("gui") = {} /\ Ahead("worker") = {}
    BY IdleAhead DEF Thread
  <2> QED
    BY <2>1 DEF IInv, CurrentInv, Calm, CopyIsCurrent
<1> QED
  BY <1>1, InvHolds, PTL

\* With both entries off no copy stays behind, whatever the two threads
\* interleave: who made an orphan of the copy still has its check ahead.
THEOREM NoLeakHolds == Spec => []NoLeak
<1>1. IInv => NoLeak
  <2>1. Idle => \A t \in Thread : Ahead(t) = {}
    BY IdleAhead
  <2> QED
    BY <2>1 DEF IInv, LeakInv, NoLeak
<1> QED
  BY <1>1, InvHolds, PTL

\* A session at rest has every entry that the last clicks left enabled, whatever
\* the two threads interleave, and in a calm world no other.
THEOREM ToggleObeyedHolds == Spec => []ToggleObeyed
<1>1. IInv => ToggleObeyed
  <2>1. Idle => \A t \in Thread : Ahead(t) = {}
    BY IdleAhead
  <2>2. "gui" \in Thread /\ Enabled \subseteq Entries
    BY DEF Thread, Enabled
  <2> QED
    BY <2>1, <2>2 DEF IInv, WantedInv, TypeOK, Calm, ToggleObeyed
<1> QED
  BY <1>1, InvHolds, PTL
=============================================================================

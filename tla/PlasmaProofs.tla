---------------------------- MODULE PlasmaProofs -----------------------------
(***************************************************************************)
(* Proofs about the Plasma build.  PlasmaMounts: its types, that a key     *)
(* that was never unplugged stays in the live set while it is tracked, and *)
(* that a ring with a value keeps one through every rebuild of the         *)
(* Sensors.  UpdateCheck: whatever is released, installed, dismissed and   *)
(* answered late, the notification keeps what UpdateNotice promises.       *)
(***************************************************************************)
EXTENDS PlasmaMounts, UpdateCheck, TLAPS

\* The steps that the proofs split Next into.
LEMMA Steps ==
    ASSUME MountsNext
    PROVE  \/ \E k \in Keys : Plug(k) \/ Unplug(k)
           \/ FindmntBreaks \/ SetActive
           \/ PollMounts \/ Findmnt \/ NewData \/ Refresh \/ Settle
           \/ \E i \in Ids : Insert(i) \/ Resolve(i) \/ Sample(i)
  BY DEF MountsNext, Surroundings

-----------------------------------------------------------------------------
(***************************************************************************)
(* Types.                                                                  *)
(***************************************************************************)

LEMMA TypeInit == MountsInit => TypeOK
<1> SUFFICES ASSUME MountsInit PROVE TypeOK
  OBVIOUS
<1>1. scan \in {NoScan, Begun} \cup [phase : {"done"}, ok : BOOLEAN, got : SUBSET Ids]
  BY DEF MountsInit
<1>2. pulled \subseteq Keys /\ parts \in [Ids -> Label]
  BY DEF MountsInit, Label
<1>3. enabled \subseteq Ids /\ plugged \subseteq Ids
  BY PlasmaMountsAssumption DEF MountsInit, Ids
<1>4. changes \in 0 .. MaxChanges
  BY PlasmaMountsAssumption DEF MountsInit
<1>5. /\ trouble \in BOOLEAN /\ active \in BOOLEAN /\ refreshing \in BOOLEAN
      /\ settling \in BOOLEAN /\ ready \in BOOLEAN
  BY DEF MountsInit
<1>6. /\ optOut \subseteq Keys /\ mounted \subseteq Ids /\ nodes \subseteq Ids
      /\ named \subseteq nodes /\ live \subseteq Ids /\ last \subseteq Ids
  BY DEF MountsInit
<1> QED BY <1>1, <1>2, <1>3, <1>4, <1>5, <1>6 DEF TypeOK

\* What is rendered again keeps the type of the cache.
LEMMA RenderedType ==
    ASSUME last \subseteq Ids, live' \subseteq Ids, Rendered
    PROVE  last' \subseteq Ids
  BY DEF Rendered, Remembered

LEMMA RewalkType ==
    ASSUME TypeOK, Rewalk
    PROVE  /\ parts' \in [Ids -> Label]
           /\ live' \subseteq Ids /\ last' \subseteq Ids
<1>1. parts' \in [Ids -> Label]
  BY DEF Rewalk, LabelOf, Label
<1>2. live' \subseteq Ids
  BY DEF Rewalk, TypeOK
<1>3. last' \subseteq Ids
  BY <1>2, RenderedType DEF Rewalk, TypeOK
<1> QED BY <1>1, <1>2, <1>3

LEMMA TypeStep == TypeOK /\ [MountsNext]_mountsVars => TypeOK'
<1> SUFFICES ASSUME TypeOK, [MountsNext]_mountsVars PROVE TypeOK'
  OBVIOUS
<1> USE PlasmaMountsAssumption
<1>1. ASSUME NEW k \in Keys, Plug(k) PROVE TypeOK'
  BY <1>1 DEF Plug, Change, TypeOK, settings, info, tree, walk, sensors, Ids
<1>2. ASSUME NEW k \in Keys, Unplug(k) PROVE TypeOK'
  BY <1>2 DEF Unplug, Change, TypeOK, settings, info, tree, walk, sensors, Ids
<1>3. CASE FindmntBreaks
  BY <1>3 DEF FindmntBreaks, Change, TypeOK, settings, info, tree, walk, sensors
<1>4. CASE SetActive
  <2>1. last' \subseteq Ids
    BY <1>4, RenderedType DEF SetActive, TypeOK
  <2> QED BY <1>4, <2>1 DEF SetActive, Change, TypeOK, settings, tree, walk
<1>5. CASE PollMounts
  BY <1>5 DEF PollMounts, TypeOK, env, settings, tree, walk, sensors
<1>6. CASE Findmnt
  BY <1>6 DEF Findmnt, TypeOK, env, settings, tree, walk, sensors
<1>7. CASE NewData
  <2>1. mounted' \subseteq Ids
    BY <1>7 DEF NewData, Parsed, TypeOK, NoScan, Begun
  <2>2. last' \subseteq Ids
    BY <1>7, RenderedType DEF NewData, TypeOK
  <2> QED BY <1>7, <2>1, <2>2 DEF NewData, TypeOK, env, settings, tree, walk
<1>8. CASE Refresh
  BY <1>8, RewalkType DEF Refresh, TypeOK, env, settings, info, tree
<1>9. CASE Settle
  BY <1>9, RewalkType DEF Settle, SettledWalk, TypeOK, env, settings, info, tree
<1>10. ASSUME NEW i \in Ids, Insert(i) PROVE TypeOK'
  BY <1>10 DEF Insert, TypeOK, env, settings, info, sensors
<1>11. ASSUME NEW i \in Ids, Resolve(i) PROVE TypeOK'
  BY <1>11 DEF Resolve, TypeOK, env, settings, info, walk, sensors
<1>12. ASSUME NEW i \in Ids, Sample(i) PROVE TypeOK'
  <2>1. live' \subseteq Ids
    BY <1>12 DEF Sample, TypeOK
  <2>2. last' \subseteq Ids
    BY <1>12, <2>1, RenderedType DEF Sample, TypeOK
  <2> QED BY <1>12, <2>1, <2>2 DEF Sample, TypeOK, env, settings, info, tree, walk
<1>13. CASE UNCHANGED mountsVars
  BY <1>13 DEF mountsVars, env, settings, info, tree, walk, sensors, TypeOK
<1> QED
  BY <1>1, <1>2, <1>3, <1>4, <1>5, <1>6, <1>7, <1>8, <1>9, <1>10, <1>11, <1>12,
     <1>13, Steps

\* Every variable of the Plasma disk rings keeps its type, whatever is mounted
\* and however often findmnt fails.
THEOREM TypeCorrect == MountsSpec => []TypeOK
  BY TypeInit, TypeStep, PTL DEF MountsSpec

-----------------------------------------------------------------------------
(***************************************************************************)
(* The live set.                                                           *)
(***************************************************************************)

\* A key that is in the live set and was never unplugged is still plugged, and
\* a finished run has seen it: a run that ends was begun after the last one
\* had landed.
Tracked ==
    \A k \in Keys : k \in mounted /\ k \notin pulled =>
        /\ k \in plugged
        /\ scan.phase = "done" /\ scan.ok => k \in scan.got

\* What a run has seen and was never unplugged is plugged as well.
Seen ==
    \A k \in Keys :
        scan.phase = "done" /\ k \in scan.got /\ k \notin pulled => k \in plugged

LEMMA TrackedStep ==
    ASSUME TypeOK, Tracked, Seen, [MountsNext]_mountsVars
    PROVE  Tracked' /\ Seen'
<1>1. ASSUME NEW k \in Keys, Plug(k) PROVE Tracked' /\ Seen'
  BY <1>1 DEF Plug, Tracked, Seen, info
<1>2. ASSUME NEW k \in Keys, Unplug(k) PROVE Tracked' /\ Seen'
  <2>1. /\ plugged' = plugged \ {k}
        /\ k \in pulled'
        /\ \A j \in Keys \ {k} : j \in pulled' <=> j \in pulled
        /\ UNCHANGED <<scan, mounted>>
    BY <1>2 DEF Unplug, TypeOK, info
  <2> QED BY <2>1 DEF Tracked, Seen
<1>3. CASE FindmntBreaks
  BY <1>3 DEF FindmntBreaks, Tracked, Seen, info
<1>4. CASE SetActive
  BY <1>4 DEF SetActive, Tracked, Seen
<1>5. CASE PollMounts
  BY <1>5 DEF PollMounts, Begun, Tracked, Seen, env
<1>6. CASE Findmnt
  BY <1>6 DEF Findmnt, Tracked, Seen, env
<1>7. CASE NewData
  BY <1>7 DEF NewData, Parsed, NoScan, Tracked, Seen, env
<1>8. CASE Refresh \/ Settle \/ \E i \in Ids : Insert(i) \/ Resolve(i) \/ Sample(i)
  BY <1>8 DEF Refresh, Settle, Insert, Resolve, Sample, Tracked, Seen, env, info
<1>9. CASE UNCHANGED mountsVars
  BY <1>9 DEF mountsVars, env, info, Tracked, Seen
<1> QED BY <1>1, <1>2, <1>3, <1>4, <1>5, <1>6, <1>7, <1>8, <1>9, Steps

\* While the mounts are tracked, a key that was never unplugged never drops out
\* of the live set.
THEOREM NoBlinkHolds == MountsSpec => NoBlink
<1> DEFINE IInv == TypeOK /\ Tracked /\ Seen
<1>1. MountsInit => IInv
  BY TypeInit DEF MountsInit, Tracked, Seen, NoScan
<1>2. IInv /\ [MountsNext]_mountsVars => IInv'
  BY TypeStep, TrackedStep
<1>3. IInv /\ [MountsNext]_mountsVars =>
        [\A k \in Keys : k \in mounted \ mounted' /\ active' => k \in pulled]_mountsVars
  <2> SUFFICES ASSUME IInv, MountsNext, NEW k \in Keys, k \in mounted, k \notin mounted',
                      active', k \notin pulled
               PROVE  FALSE
    BY DEF mountsVars, env, info
  <2>1. CASE SetActive
    BY <2>1 DEF SetActive
  <2>2. CASE NewData
    BY <2>2 DEF NewData, Parsed, Tracked
  <2>3. CASE ~SetActive /\ ~NewData
    <3>1. mounted' = mounted
      BY <2>3, Steps
      DEF Plug, Unplug, FindmntBreaks, PollMounts, Findmnt, Refresh, Settle, Insert,
          Resolve, Sample, info
    <3> QED BY <3>1
  <2> QED BY <2>1, <2>2, <2>3
<1> QED BY <1>1, <1>2, <1>3, PTL DEF MountsSpec, NoBlink

-----------------------------------------------------------------------------
(***************************************************************************)
(* The values.                                                             *)
(***************************************************************************)

\* A value on a ring is always cached as well.
Cached == Rings \cap live \subseteq last

\* Whatever is not rendered again leaves the rings and their values alone.
LEMMA RenderedOrSame ==
    ASSUME MountsNext
    PROVE  Rendered \/ UNCHANGED <<Rings, live, last>>
<1>1. CASE SetActive \/ NewData \/ Refresh \/ Settle \/ \E i \in Ids : Sample(i)
  BY <1>1 DEF SetActive, NewData, Refresh, Settle, SettledWalk, Rewalk, Sample
<1>2. CASE \/ \E k \in Keys : Plug(k) \/ Unplug(k)
           \/ FindmntBreaks \/ PollMounts \/ Findmnt
           \/ \E i \in Ids : Insert(i) \/ Resolve(i)
  <2>1. UNCHANGED <<settings, active, mounted, parts, sensors>>
    BY <1>2
    DEF Plug, Unplug, FindmntBreaks, PollMounts, Findmnt, Insert, Resolve, info, walk
  <2> QED BY <2>1 DEF Rings, Listed, IsMounted, settings, sensors
<1> QED BY <1>1, <1>2, Steps

LEMMA CachedStep == Cached /\ [MountsNext]_mountsVars => Cached'
<1> SUFFICES ASSUME Cached, [MountsNext]_mountsVars PROVE Cached'
  OBVIOUS
<1>1. CASE Rendered
  BY <1>1 DEF Rendered, Remembered, Cached
<1>2. CASE UNCHANGED <<Rings, live, last>>
  BY <1>2 DEF Cached
<1>3. CASE UNCHANGED mountsVars
  BY <1>3
  DEF mountsVars, env, settings, info, tree, walk, sensors, Cached, Rings, Listed, IsMounted
<1> QED BY <1>1, <1>2, <1>3, RenderedOrSame

\* A ring that shows a value never falls to 0 while it stays, although every
\* change of the partition list rebuilds all the Sensors.
THEOREM NoCollapseHolds == MountsSpec => NoCollapse
<1>1. MountsInit => Cached
  BY DEF MountsInit, Cached
<1>2. Cached /\ [MountsNext]_mountsVars =>
        [\A i \in Rings \cap Rings' : Value(i) # "zero" => Value(i)' # "zero"]_mountsVars
  <2> SUFFICES ASSUME Cached, MountsNext, NEW i \in Rings \cap Rings', Value(i) # "zero"
               PROVE  Value(i)' # "zero"
    OBVIOUS
  <2>1. i \in last
    BY DEF Value, Cached
  <2>2. i \in last'
    BY <2>1, RenderedOrSame DEF Rendered, Remembered
  <2> QED BY <2>2 DEF Value
<1> QED BY <1>1, <1>2, CachedStep, PTL DEF MountsSpec, NoCollapse

-----------------------------------------------------------------------------
(***************************************************************************)
(* UpdateCheck: the notification.                                          *)
(***************************************************************************)

\* The values of a configuration when the releases of `list` are out.
Sound(c, list) == /\ DOMAIN c = {"known", "ack", "age", "enabled"}
                  /\ {c.known, c.ack} \subseteq Candidates(list) \cup {None}

\* Both checkers of the Plasma build use one configuration, what it knows and
\* what was dismissed are releases that are out, and so is an answered tag; an
\* open page holds such a configuration too.
IInv == /\ store = [h \in {"shell"} |-> file]
        /\ DOMAIN running = {"shell"}
        /\ Sound(file, feed)
        /\ page = NoPage \/ Sound(page, feed)
        /\ DOMAIN feed = Releases
        /\ call \in [Checkers -> [state : {"idle", "waiting", "answered"},
                                  tag : Candidates(feed) \cup {None}]]

\* The one configuration of the Plasma build.
LEMMA OneHost == ASSUME Build = "plasma"
                 PROVE  Hosts = {"shell"} /\ Shell = "shell" /\ \A c \in Checkers : Host(c) = "shell"
BY DEF Hosts, Host, Shell, Checkers

\* What is picked of a list of releases is one of its candidates.
LEMMA PickedIsCandidate ==
  ASSUME NEW list, DOMAIN list = Releases
  PROVE  pickRelevantRelease(list) \in Candidates(list) \cup {None}
<1>1. CASE Candidates(list) = {}
  BY <1>1 DEF pickRelevantRelease
<1>2. CASE Candidates(list) # {}
  <2>1. Candidates(list) \in SUBSET {r \in Releases : r.core # <<>>}
    BY DEF Candidates
  <2>2. \E r \in Candidates(list) : \A s \in Candidates(list) : compareSemver(r.core, s.core) # -1
    BY <1>2, <2>1, NewestAssumption
  <2> QED
    BY <1>2, <2>2 DEF pickRelevantRelease
<1> QED
  BY <1>1, <1>2

\* No version is newer than itself.
LEMMA NotAboveItself == \A r : ~isNewerVersion(r, r)
BY DEF isNewerVersion, compareSemver

\* Releases come out and stay out.
LEMMA OutGrows ==
  ASSUME IInv, NEW r \in Releases, Publish(r)
  PROVE  Candidates(feed) \subseteq Candidates(feed') /\ DOMAIN feed' = Releases
<1>1. feed' = [feed EXCEPT ![r] = feed'[r]] /\ (feed[r] = "out" => feed'[r] = "out")
  BY DEF Publish, IInv
<1> QED
  BY <1>1 DEF IInv, Candidates

LEMMA InitHolds == Build = "plasma" /\ Init => IInv
BY OneHost DEF Init, IInv, Sound, Fresh, Idle

\* Every step keeps the invariant.
LEMMA Inductive == ASSUME Build = "plasma", IInv, [Next]_vars PROVE IInv'
<1> USE OneHost DEF IInv, Sound
<1>1. ASSUME NEW c \in Checkers, Load(c) PROVE IInv'
  <2>1. /\ store' = [h \in {"shell"} |-> file] /\ file' = file /\ feed' = feed
        /\ page' \in {NoPage, file} /\ DOMAIN running' = {"shell"}
    BY <1>1 DEF Load
  <2>2. call' \in [Checkers -> [state : {"idle", "waiting", "answered"},
                                tag : Candidates(feed) \cup {None}]]
    BY <1>1 DEF Load, Idle, Waiting
  <2> QED
    BY <2>1, <2>2 DEF Candidates
<1>2. ASSUME NEW c \in Checkers, Serve(c) PROVE IInv'
  <2>1. pickRelevantRelease(feed) \in Candidates(feed) \cup {None}
    BY PickedIsCandidate
  <2> QED
    BY <1>2, <2>1 DEF Serve
<1>3. ASSUME NEW c \in Checkers, Fail(c) PROVE IInv'
  BY <1>3 DEF Fail, Idle
<1>4. ASSUME NEW c \in Checkers, Record(c) PROVE IInv'
  <2>1. file' = IF call[c].tag = None THEN file ELSE [file EXCEPT !.known = call[c].tag, !.age = "fresh"]
    BY <1>4 DEF Record
  <2>2. store' = [h \in {"shell"} |-> file']
    BY <1>4 DEF Record
  <2>3. call[c].tag \in Candidates(feed) \cup {None}
    OBVIOUS
  <2> QED
    BY <1>4, <2>1, <2>2, <2>3 DEF Record, Idle
<1>5. ASSUME NEW h \in Hosts, Acknowledge(h) \/ ToggleChecks(h) PROVE IInv'
  <2>1. ASSUME Acknowledge(h) PROVE IInv'
    BY <2>1 DEF Acknowledge, Write
  <2>2. ASSUME ApplyPage PROVE IInv'
    BY <2>2 DEF ApplyPage
  <2> QED
    BY <1>5, <2>1, <2>2 DEF ToggleChecks
<1>6. ASSUME NEW r \in Releases, Publish(r) PROVE IInv'
  <2>1. Candidates(feed) \subseteq Candidates(feed') /\ DOMAIN feed' = Releases
    BY <1>6, OutGrows
  <2> QED
    BY <1>6, <2>1 DEF Publish
<1>7. CASE Poll
  BY <1>7 DEF Poll
<1>8. CASE Expire
  <2>1. /\ file' \in {file, [file EXCEPT !.age = "expired"]}
        /\ page' \in {page, [page EXCEPT !.age = "expired"]} /\ (page = NoPage => page' = NoPage)
        /\ store' = [h \in {"shell"} |-> file']
        /\ UNCHANGED <<feed, running, call>>
    <3> DEFINE old(c) == IF c.age = "fresh" THEN [c EXCEPT !.age = "expired"] ELSE c
    <3>1. /\ \E H \in SUBSET Hosts, f \in BOOLEAN :
               /\ Build = "plasma" => H = Hosts /\ f
               /\ store' = [h \in Hosts |-> IF h \in H THEN old(store[h]) ELSE store[h]]
               /\ file' = IF f THEN old(file) ELSE file
          /\ page' = old(page)
          /\ UNCHANGED <<feed, running, call>>
      BY <1>8, Zenon DEF Expire
    <3>2. file' = old(file) /\ store' = [h \in {"shell"} |-> old(store[h])]
      BY <3>1
    <3>3. store' = [h \in {"shell"} |-> old(file)]
      BY <3>2
    <3>4. page = NoPage => page' = NoPage
      BY <3>1 DEF NoPage
    <3> QED
      BY <3>1, <3>2, <3>3, <3>4
  <2> QED
    BY <2>1 DEF Candidates
<1>9. CASE BeginInstall \/ EndInstall \/ UNCHANGED vars
  BY <1>9 DEF BeginInstall, EndInstall, vars
<1> QED
  BY <1>1, <1>2, <1>3, <1>4, <1>5, <1>6, <1>7, <1>8, <1>9 DEF Next

\* The badge is a function of the running version and the configuration.
LEMMA BadgeIs ==
  ASSUME Build = "plasma", IInv
  PROVE  /\ Badge = IF shouldNotify(running["shell"], file.known, file.ack) THEN file.known ELSE None
         /\ running[Shell] = running["shell"] /\ store[Shell].ack = file.ack
BY OneHost DEF IInv, updateAvailable, Badge

\* A version the badge names may be shown.
LEMMA BadgeMay ==
  ASSUME Build = "plasma", IInv, Badge # None
  PROVE  Notice!May(Badge, running[Shell], store[Shell].ack, Candidates(feed))
<1>1. shouldNotify(running["shell"], file.known, file.ack) /\ Badge = file.known
  BY BadgeIs
<1>2. /\ isNewerVersion(running["shell"], file.known)
      /\ file.ack.core = <<>> \/ isNewerVersion(file.ack, file.known)
  BY <1>1 DEF shouldNotify
<1>3. file.known \in Candidates(feed)
  BY <1>1 DEF IInv, Sound
<1>4. file.ack = None \/ file.ack.core # <<>>
  BY DEF IInv, Sound, Candidates
<1> QED
  BY <1>1, <1>2, <1>3, <1>4, BadgeIs DEF Notice!May, Above

\* Every step is one of the promise's, or changes nothing of it.
LEMMA StepRefines ==
  ASSUME Build = "plasma", IInv, IInv', [Next]_vars
  PROVE  [Notice!Next]_(Notice!vars)
<1> USE DEF Sound
<1> DEFINE Opened == IF page = NoPage THEN <<>> ELSE <<page.ack>>
           Keeps == /\ running'[Shell] = running[Shell]
                    /\ file'.known = file.known /\ file'.ack = file.ack
<1>1. /\ Shell = "shell" /\ Shell' = "shell" /\ Hosts = {"shell"} /\ \A c \in Checkers : Host(c) = "shell"
      /\ store["shell"] = file /\ store'["shell"] = file'
  BY OneHost DEF IInv
<1>2. /\ Badge = IF shouldNotify(running["shell"], file.known, file.ack) THEN file.known ELSE None
      /\ Badge' = IF shouldNotify(running'["shell"], file'.known, file'.ack) THEN file'.known ELSE None
  <2>1. Badge' = IF updateAvailable(Shell)' THEN file'.known ELSE None
    BY <1>1 DEF Badge
  <2>2. updateAvailable(Shell)' = shouldNotify(running'["shell"], file'.known, file'.ack)
    BY <1>1 DEF updateAvailable, shouldNotify, isNewerVersion, compareSemver, scopeRelevant
  <2> QED
    BY <2>1, <2>2, BadgeIs
<1>3. Badge' # None => Notice!May(Badge', running'[Shell], file'.ack, Candidates(feed'))
  <2>1. (Badge # None => Notice!May(Badge, running[Shell], store[Shell].ack, Candidates(feed)))'
    BY BadgeMay, PTL
  <2> QED
    BY <2>1, <1>1 
<1>4. ASSUME Keeps, feed' = feed, Opened' = Opened PROVE UNCHANGED Notice!vars
  BY <1>1, <1>2, <1>4 DEF Notice!vars, Candidates
<1>5. ASSUME NEW c \in Checkers, Load(c) PROVE [Notice!Next]_(Notice!vars)
  <2>1. /\ file' = file /\ feed' = feed
        /\ \/ page' = NoPage
           \/ page' = file /\ running' = running
    BY <1>5, <1>1 DEF Load
  <2>2. CASE page' = NoPage
    <3>1. Notice!Restart
      BY <1>1, <1>3, <2>1, <2>2 DEF Notice!Restart, Notice!May, Candidates
    <3> QED
      BY <3>1 DEF Notice!Next
  <2>3. CASE page' = file /\ running' = running
    <3>1. file # NoPage
      <4>1. "known" \in DOMAIN file
        BY DEF IInv
      <4>2. "known" \notin DOMAIN NoPage
        BY DEF NoPage
      <4> QED
        BY <4>1, <4>2
    <3>2. Opened' = <<file.ack>> /\ Badge' = Badge
      BY <1>2, <2>1, <2>3, <3>1
    <3>3. Notice!Open
      BY <1>1, <2>1, <2>3, <3>2 DEF Notice!Open, Candidates
    <3> QED
      BY <3>3 DEF Notice!Next
  <2> QED
    BY <2>1, <2>2, <2>3
<1>6. ASSUME NEW c \in Checkers, Serve(c) \/ Fail(c) PROVE [Notice!Next]_(Notice!vars)
  BY <1>1, <1>4, <1>6 DEF Serve, Fail
<1>7. ASSUME NEW c \in Checkers, Record(c) PROVE [Notice!Next]_(Notice!vars)
  <2>1. file'.ack = file.ack /\ running' = running /\ feed' = feed /\ page' = page
    BY <1>1, <1>7 DEF Record, IInv
  <2>2. CASE Badge' = Badge
    BY <1>1, <2>1, <2>2 DEF Notice!vars, Candidates
  <2>3. CASE Badge' # Badge
    <3>1. Notice!Show
      BY <1>1, <1>3, <2>1, <2>3 DEF Notice!Show, Notice!May, Candidates
    <3> QED
      BY <3>1 DEF Notice!Next
  <2> QED
    BY <2>2, <2>3
<1>8. ASSUME NEW h \in Hosts, Acknowledge(h) PROVE [Notice!Next]_(Notice!vars)
  <2>1. /\ updateAvailable("shell") /\ file' = [file EXCEPT !.ack = file.known]
        /\ running' = running /\ feed' = feed /\ page' = page
    BY <1>1, <1>8 DEF Acknowledge, Write
  <2>2. shouldNotify(running["shell"], file.known, file.ack)
    BY <1>1, <2>1 DEF updateAvailable
  <2>3. Badge = file.known /\ file.known \in Candidates(feed)
    BY <1>2, <2>2 DEF IInv, shouldNotify, isNewerVersion, compareSemver, None
  <2>4. file'.ack = file.known /\ file'.known = file.known
    BY <2>1 DEF IInv
  <2>5. Badge' = None
    BY <1>2, <2>3, <2>4, NotAboveItself DEF shouldNotify, Candidates
  <2>6. Notice!Dismiss
    BY <1>1, <2>1, <2>3, <2>4, <2>5 DEF Notice!Dismiss, Candidates, None
  <2> QED
    BY <2>6 DEF Notice!Next
<1>9. ASSUME ApplyPage PROVE [Notice!Next]_(Notice!vars)
  <2>1. /\ page # NoPage /\ page'.ack = page.ack /\ page' # NoPage
        /\ running' = running /\ feed' = feed
        /\ \/ file' = page'
           \/ file'.known = file.known /\ file'.ack = file.ack
    <3>1. /\ page # NoPage /\ page' = [page EXCEPT !.enabled = ~page.enabled]
          /\ file' \in {page', [file EXCEPT !.enabled = ~page.enabled]}
          /\ running' = running /\ feed' = feed
      BY <1>9 DEF ApplyPage
    <3> QED
      BY <3>1 DEF IInv, NoPage
  <2>2. Opened' = Opened /\ Opened = <<page.ack>>
    BY <2>1
  <2>3. CASE file'.known = file.known /\ file'.ack = file.ack
    BY <1>1, <1>4, <2>1, <2>2, <2>3
  <2>4. CASE file' = page'
    <3>1. Notice!Apply
      BY <1>1, <1>3, <2>1, <2>2, <2>4 DEF Notice!Apply, Notice!May, Candidates
    <3> QED
      BY <3>1 DEF Notice!Next
  <2> QED
    BY <2>1, <2>3, <2>4
<1>10. ASSUME NEW r \in Releases, Publish(r) PROVE [Notice!Next]_(Notice!vars)
  <2>1. Candidates(feed) \subseteq Candidates(feed')
    BY <1>10, OutGrows
  <2>2. UNCHANGED <<running, file, store, page>>
    BY <1>10 DEF Publish
  <2>3. Badge' = Badge
    BY <1>2, <2>2
  <2>4. Notice!Release
    BY <1>1, <2>1, <2>2, <2>3 DEF Notice!Release, Candidates
  <2> QED
    BY <2>4 DEF Notice!Next
<1>11. ASSUME Expire PROVE [Notice!Next]_(Notice!vars)
  <2>1. /\ file'.known = file.known /\ file'.ack = file.ack
        /\ page = NoPage => page' = NoPage
        /\ page # NoPage => page' # NoPage /\ page'.ack = page.ack
        /\ running' = running /\ feed' = feed
    BY <1>11 DEF Expire, IInv, NoPage
  <2> QED
    BY <1>1, <1>4, <2>1
<1>12. CASE Poll \/ BeginInstall \/ EndInstall \/ UNCHANGED vars
  BY <1>1, <1>4, <1>12 DEF Poll, BeginInstall, EndInstall, vars
<1>13. ASSUME NEW h \in Hosts, ToggleChecks(h) PROVE [Notice!Next]_(Notice!vars)
  BY <1>9, <1>13 DEF ToggleChecks
<1> QED
  BY <1>5, <1>6, <1>7, <1>8, <1>9, <1>10, <1>11, <1>12, <1>13 DEF Next

\* Nothing is shown or dismissed at the start.
LEMMA InitRefines == Build = "plasma" /\ Init => Notice!Init
BY OneHost DEF Init, Fresh, Notice!Init, Badge, updateAvailable, shouldNotify, isNewerVersion,
               compareSemver, None

\* The widget's badge refines the abstract notification in the Plasma build,
\* for any releases, installs, dismissals, late answers and restarts.
THEOREM NoticeHolds == ASSUME Build = "plasma" PROVE Spec => NoticeRefined
<1>1. Init => IInv /\ Notice!Init
  BY InitHolds, InitRefines
<1>2. IInv /\ [Next]_vars => IInv'
  BY Inductive
<1>3. IInv /\ IInv' /\ [Next]_vars => [Notice!Next]_(Notice!vars)
  BY StepRefines
<1> QED
  BY <1>1, <1>2, <1>3, PTL DEF Spec, NoticeRefined, Notice!Spec

=============================================================================

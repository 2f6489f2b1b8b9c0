----------------------------- MODULE PlasmaMounts -----------------------------
(***************************************************************************)
(* The disk rings of the Plasma widget.  Two sources are joined: the       *)
(* ksysguard sensor tree, walked by DiskPartitions, which learns of a      *)
(* plugged filesystem but never of an unplugged one; and MountInfo, which  *)
(* polls findmnt while the disk metric is enabled.  DiskPartitionSensors   *)
(* holds a Sensor per partition, MainContent chooses the rings, and the    *)
(* settings page lists what can be selected and what is gone.              *)
(*                                                                         *)
(* Filesystems are their UUIDs.  A value is named by where it comes from:  *)
(* the live Sensor, the last good value, or 0 for neither.                 *)
(***************************************************************************)
EXTENDS Naturals

CONSTANTS
    Fixed,       \* filesystems mounted for good
    Keys,        \* filesystems on removable media, under /run/media
    Selections,  \* the hand-checked selections to consider
    MaxChanges   \* bound: changes of the surroundings and of the settings

ASSUME PlasmaMountsAssumption ==
    /\ MaxChanges \in Nat
    /\ Fixed \cap Keys = {}
    /\ Selections \subseteq SUBSET (Fixed \cup Keys)

Ids == Fixed \cup Keys

VARIABLES
    plugged,     \* what is mounted
    trouble,     \* findmnt does not work
    changes,     \* how often the surroundings or the settings have changed
    pulled,      \* history: the keys that were ever unplugged
    enabled,     \* enabledPartitions, the hand-checked selection
    optOut,      \* partitionOptOut
    active,      \* MountInfo.active: the disk metric is enabled
    scan,        \* the findmnt source: idle, connected, or with a result
    mounted,     \* MountInfo._mounted
    nodes,       \* disk/<uuid> nodes of the SensorTreeModel
    named,       \* nodes whose volume label has resolved
    refreshing,  \* refreshTimer.running
    settling,    \* settleTimer.running
    ready,       \* DiskPartitions._ready
    parts,       \* DiskPartitions._partitions: each id's label, if it is listed
    live,        \* ids whose usedPercent Sensor is Ready
    last         \* ids with an entry in DiskPartitionSensors._lastValue

env      == <<plugged, trouble, changes, pulled>>
settings == <<enabled, optOut>>
info     == <<scan, mounted>>
tree     == <<nodes, named>>
walk     == <<refreshing, settling, ready, parts>>
sensors  == <<live, last>>
mountsVars == <<env, settings, active, info, tree, walk, sensors>>

Label == {"absent", "uuid", "name"}
NoScan == [phase |-> "idle"]
Begun == [phase |-> "begun"]

TypeOK ==
    /\ plugged \subseteq Ids /\ trouble \in BOOLEAN /\ changes \in 0 .. MaxChanges
    /\ pulled \subseteq Keys
    /\ enabled \subseteq Ids /\ optOut \subseteq Keys /\ active \in BOOLEAN
    /\ scan \in {NoScan, Begun} \cup [phase : {"done"}, ok : BOOLEAN, got : SUBSET Ids]
    /\ mounted \subseteq Ids
    /\ nodes \subseteq Ids /\ named \subseteq nodes
    /\ refreshing \in BOOLEAN /\ settling \in BOOLEAN /\ ready \in BOOLEAN
    /\ parts \in [Ids -> Label]
    /\ live \subseteq Ids /\ last \subseteq Ids

\* Component.onCompleted has walked the tree, still empty, once.
MountsInit ==
    /\ plugged \in {Fixed, Ids} /\ trouble = FALSE /\ changes = 0
    /\ pulled = {}
    /\ enabled \in Selections /\ optOut \in SUBSET Keys /\ active \in BOOLEAN
    /\ scan = NoScan /\ mounted = {}
    /\ nodes = {} /\ named = {}
    /\ refreshing = FALSE /\ settling = TRUE /\ ready = FALSE
    /\ parts = [i \in Ids |-> "absent"]
    /\ live = {} /\ last = {}

-----------------------------------------------------------------------------
(***************************************************************************)
(* What is shown.                                                          *)
(***************************************************************************)

\* availablePartitions
Listed == {i \in Ids : parts[i] # "absent"}

\* Faulty variant: the selection is not checked against the live mounts.
IsMounted_Frozen(i) == TRUE

\* resolveDiskRingIds' and filterToMounted's gate: no data, no gate.
IsMounted(i) == mounted # {} => i \in mounted

\* _diskSelectedIds, without its order and cap; drawn if the metric is enabled.
Rings ==
    IF active
    THEN {i \in enabled \cap Listed : IsMounted(i)} \cup ((mounted \cap Keys) \ optOut)
    ELSE {}

\* partitionValue(i)
Value(i) ==
    IF i \in live THEN "live" ELSE IF i \in last THEN "held" ELSE "zero"

\* Faulty variant: a value is only as old as its Sensor.
Remembered_Nothing(rings, ready_) == {}

\* _usedPercent() caches the value of each ring it renders.
Remembered(rings, ready_) == last \cup (rings \cap ready_)

\* The rings are rendered again after every step that touches what they read.
Rendered == last' = Remembered(Rings', live')

-----------------------------------------------------------------------------
(***************************************************************************)
(* The surroundings and the settings.                                      *)
(***************************************************************************)

Change == changes < MaxChanges /\ changes' = changes + 1

Plug(k) ==
    /\ Change
    /\ plugged' = plugged \cup {k} /\ k \notin plugged
    /\ UNCHANGED <<trouble, pulled, settings, active, info, tree, walk, sensors>>

\* ksysguard's tree freezes: the node stays.
Unplug(k) ==
    /\ Change
    /\ plugged' = plugged \ {k} /\ k \in plugged
    /\ pulled' = pulled \cup {k}
    /\ UNCHANGED <<trouble, settings, active, info, tree, walk, sensors>>

FindmntBreaks ==
    /\ Change
    /\ trouble' = ~trouble
    /\ UNCHANGED <<plugged, pulled, settings, active, info, tree, walk, sensors>>

\* The disk metric is enabled or disabled: onActiveChanged drops the last set.
SetActive ==
    /\ Change
    /\ active' = ~active
    /\ mounted' = IF active THEN {} ELSE mounted
    /\ UNCHANGED <<plugged, trouble, pulled, settings, scan, tree, walk, live>>
    /\ Rendered

-----------------------------------------------------------------------------
(***************************************************************************)
(* MountInfo.                                                              *)
(***************************************************************************)

\* The Timer: connectSource() does nothing while the last run is connected.
PollMounts ==
    /\ active
    /\ scan = NoScan
    /\ scan' = Begun
    /\ UNCHANGED <<env, settings, active, mounted, tree, walk, sensors>>

\* findmnt reads the mount table, or fails with nothing on its output.
Findmnt ==
    /\ scan = Begun
    /\ scan' = [phase |-> "done", ok |-> ~trouble,
                got |-> IF trouble THEN {} ELSE plugged]
    /\ UNCHANGED <<env, settings, active, mounted, tree, walk, sensors>>

\* Faulty variant: the exit code is not looked at.
Parsed_Always(run) == run.got

\* A failed run keeps the last good set.
Parsed(run) == IF run.ok THEN run.got ELSE mounted

\* onNewData: the source is disconnected; nobody asks whether `active` still is.
NewData ==
    /\ scan.phase = "done"
    /\ mounted' = Parsed(scan)
    /\ scan' = NoScan
    /\ UNCHANGED <<env, settings, active, tree, walk, live>>
    /\ Rendered

-----------------------------------------------------------------------------
(***************************************************************************)
(* DiskPartitions and DiskPartitionSensors.                                *)
(***************************************************************************)

\* ksysguard inserts the node of a mounted filesystem, at a time with its label
\* or ahead of it, and emits rowsInserted.
Insert(i) ==
    /\ i \in plugged \ nodes
    /\ nodes' = nodes \cup {i}
    /\ named' \in {named, named \cup {i}}
    /\ refreshing' = TRUE
    /\ UNCHANGED <<env, settings, active, info, settling, ready, parts, sensors>>

\* The volume label resolves, without a signal.
Resolve(i) ==
    /\ i \in nodes \ named
    /\ named' = named \cup {i}
    /\ UNCHANGED <<env, settings, active, info, nodes, walk, sensors>>

LabelOf(i) == IF i \in named THEN "name" ELSE "uuid"

\* _rewalk(): a changed list rebuilds every delegate, whose Sensors start over.
Rewalk ==
    /\ parts' = [i \in Ids |-> IF i \in nodes THEN LabelOf(i) ELSE "absent"]
    /\ live' = IF parts' = parts THEN live ELSE {}
    /\ Rendered

\* The coalescing timer: _refresh().
Refresh ==
    /\ refreshing
    /\ refreshing' = FALSE
    /\ settling' = TRUE
    /\ UNCHANGED <<env, settings, active, info, tree, ready>>
    /\ Rewalk

\* Faulty variant: the settle timer only sets the flag.
SettledWalk_FlagOnly == UNCHANGED <<parts, sensors>>

SettledWalk == Rewalk

\* settleTimer fires: settleMs after the last refresh, which is later than the
\* pending refresh of interval 0, and than a label takes to resolve.
Settle ==
    /\ settling /\ ~refreshing
    /\ nodes \subseteq named
    /\ settling' = FALSE
    /\ ready' = TRUE
    /\ UNCHANGED <<env, settings, active, info, tree, refreshing>>
    /\ SettledWalk

\* The daemon's first sample makes the Sensor of a listed partition Ready.
Sample(i) ==
    /\ i \in (plugged \cap Listed) \ live
    /\ live' = live \cup {i}
    /\ UNCHANGED <<env, settings, active, info, tree, walk>>
    /\ Rendered

-----------------------------------------------------------------------------

Surroundings == \/ \E k \in Keys : Plug(k) \/ Unplug(k)
                \/ FindmntBreaks
                \/ SetActive

MountsNext ==
    \/ Surroundings
    \/ PollMounts \/ Findmnt \/ NewData
    \/ Refresh \/ Settle
    \/ \E i \in Ids : Insert(i) \/ Resolve(i) \/ Sample(i)

\* Timers repeat, findmnt ends, and the daemon reports what is mounted.
MountsFairness ==
    /\ WF_mountsVars(PollMounts) /\ WF_mountsVars(Findmnt) /\ WF_mountsVars(NewData)
    /\ WF_mountsVars(Refresh) /\ WF_mountsVars(Settle)
    /\ \A i \in Ids : WF_mountsVars(Insert(i)) /\ WF_mountsVars(Resolve(i)) /\ WF_mountsVars(Sample(i))

MountsSpec == MountsInit /\ [][MountsNext]_mountsVars

MountsFairSpec == MountsSpec /\ MountsFairness

-----------------------------------------------------------------------------
(***************************************************************************)
(* Properties.                                                             *)
(***************************************************************************)

\* While it is tracked, a key that was never unplugged never drops out of the
\* live set: neither a failed run nor a run that began before an earlier
\* deactivation blinks its ring away (MountInfo.qml:70-74).
NoBlink ==
    [][\A k \in Keys : k \in mounted \ mounted' /\ active' => k \in pulled]_mountsVars

\* A ring that has shown a value never collapses to 0 while it is drawn,
\* although every plug and every label rebuilds all the Sensors
\* (DiskPartitionSensors.qml:33-36).
NoCollapse ==
    [][\A i \in Rings \cap Rings' : Value(i) # "zero" => Value(i)' # "zero"]_mountsVars

\* With the metric enabled and findmnt working, the rings come to be those of
\* the mounted part of the selection and of the keys that are in, whatever was
\* plugged, unplugged, disabled and re-enabled on the way and although the tree
\* still lists what is gone (#58).
RingsSettle ==
    <>[](active /\ ~trouble)
    => <>[](Rings = (enabled \cap plugged) \cup ((plugged \cap Keys) \ optOut))

\* Every mounted filesystem comes to be listed under its volume label, although
\* the label of a hot-plugged one resolves late and without a signal.
NamesSettle == <>[](\A i \in plugged : parts[i] = "name")

=============================================================================

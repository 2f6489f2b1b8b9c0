-------------------------- MODULE PartitionSettings --------------------------
(***************************************************************************)
(* The partitions on the Metrics settings page: MetricsBody with the       *)
(* selection, the order, the opt-outs, the cached labels and the colors it *)
(* edits, in its two hosts.  Plasma hands the page a copy of the stored    *)
(* configuration and stores what Apply finds; the standalone dialog writes *)
(* each change back at once and fills in the default selection.            *)
(*                                                                         *)
(* The page stages its housekeeping (merged labels, pruned colors) beside  *)
(* the configuration and moves it there only with a user's gesture.        *)
(*                                                                         *)
(* CSV lists are sets here (what depends on their order is drawn           *)
(* elsewhere), and a map from partitions is the set of those it maps.      *)
(***************************************************************************)
EXTENDS Naturals

CONSTANTS
    Ids,      \* partitions, by UUID
    Home,     \* the one that holds $HOME
    Never,    \* what a map that has never been written holds instead
    Gestures  \* bound: the user's gestures

ASSUME PartitionSettingsAssumption == Home \in Ids /\ Never \notin Ids /\ Gestures \in Nat

VARIABLES
    host,          \* "plasma" or "standalone"
    store,         \* the stored configuration
    open,          \* the page exists
    page,          \* the page's bridged copy of it
    stagedLabels,  \* _stagedLabelsJson
    stagedColors,  \* _stagedColorsJson
    present,       \* what is mounted while the page is open
    discovered,    \* diskPartitions, what the page knows of it
    removable,     \* removablePartitions
    ready,         \* partitionsReady
    touched,       \* history: a gesture since the page opened or was applied
    gestures       \* the gestures so far

staged   == <<stagedLabels, stagedColors>>
world    == <<present, discovered, removable>>
pageVars     == <<host, store, open, page, staged, world, ready, touched, gestures>>

\* "", the default of both maps; "{}" is the empty set.
Unset  == {Never}
Map    == {Unset} \cup SUBSET Ids
Config == [enabled : SUBSET Ids, order : SUBSET Ids, optOut : SUBSET Ids,
           labels : Map, colors : Map]

PageTypeOK ==
    /\ host \in {"plasma", "standalone"}
    /\ store \in Config /\ page \in Config
    /\ stagedLabels \in Map /\ stagedColors \in Map
    /\ present \subseteq Ids /\ discovered \subseteq present
    /\ removable \subseteq discovered
    /\ open \in BOOLEAN /\ ready \in BOOLEAN /\ touched \in BOOLEAN
    /\ gestures \in 0 .. Gestures

PageInit ==
    /\ host \in {"plasma", "standalone"}
    /\ store = [enabled |-> {}, order |-> {}, optOut |-> {},
                labels |-> Unset, colors |-> Unset]
    /\ open = FALSE /\ page = store
    /\ stagedLabels = Unset /\ stagedColors = Unset
    /\ present = {} /\ discovered = {} /\ removable = {}
    /\ ready = FALSE /\ touched = FALSE /\ gestures = 0

-----------------------------------------------------------------------------
(***************************************************************************)
(* The maps.                                                               *)
(***************************************************************************)

\* parseUuidMap()
Keys(map) == map \ Unset

\* _referencedPartitionIds()
Referenced(p) == p.enabled \cup p.order

\* _settledMap(): the unset map counts as an empty one.
Settled(current, next) ==
    IF next = {} /\ current = Unset THEN current ELSE next

\* mergeLabelCache() in _refreshLabelCache()
LabelsMerged(map, p, found) ==
    Settled(map, (Keys(map) \cup found) \cap Referenced(p))

\* Faulty variant: the prune does not wait for discovery.
ColorsPruned_AtOnce(map, p, found, settled) ==
    Settled(map, Keys(map) \cap (Referenced(p) \cup found))

\* pruneMap() in _refreshColorMap()
ColorsPruned(map, p, found, settled) ==
    IF settled /\ found # {}
    THEN Settled(map, Keys(map) \cap (Referenced(p) \cup found))
    ELSE map

-----------------------------------------------------------------------------
(***************************************************************************)
(* The page and what it is told.                                           *)
(***************************************************************************)

\* The dialog's change handlers write each property back to the ConfigStore.
WriteBack == store' = IF host = "standalone" THEN page' ELSE store

\* The wrapper fills in the configuration: labels come after the lists they
\* refer to, and Component.onCompleted refreshes what nothing is known of yet.
Open ==
    /\ ~open
    /\ open' = TRUE
    /\ page' = store
    /\ stagedLabels' = LabelsMerged(store.labels, store, {})
    /\ stagedColors' = store.colors
    /\ present' \in SUBSET Ids /\ discovered' = {} /\ removable' = {}
    /\ ready' = (host = "standalone")
    /\ touched' = FALSE
    /\ UNCHANGED <<host, store, gestures>>

\* Closed without Apply, or with the process; what was not stored is lost.
Close ==
    /\ open
    /\ open' = FALSE
    /\ page' = store
    /\ stagedLabels' = Unset /\ stagedColors' = Unset
    /\ present' = {} /\ discovered' = {} /\ removable' = {}
    /\ ready' = FALSE /\ touched' = FALSE
    /\ UNCHANGED <<host, store, gestures>>

Apply ==
    /\ open /\ host = "plasma"
    /\ store' = page
    /\ touched' = FALSE
    /\ UNCHANGED <<host, open, page, staged, world, ready, gestures>>

\* mountedAvailablePartitions, or the dialog's own enumeration.
Listed(found) == found

\* _seedDefaultIfEmpty(): the default is [] on Plasma.
Seeded(p) ==
    IF p.enabled = {} /\ host = "standalone"
    THEN [p EXCEPT !.enabled = {Home}]
    ELSE p

\* Faulty variant: the housekeeping is written where the user's changes are.
Kept_Written(p, newLabels, newColors) ==
    [p EXCEPT !.labels = Settled(@, newLabels), !.colors = Settled(@, newColors)]

\* Discovery leaves the bridged maps alone.
Kept(p, newLabels, newColors) == p

\* onDiskPartitionsChanged.  Before discovery has settled the page knows part
\* of what is mounted, and after it all, a moment later; a filesystem is
\* removable by where it is mounted this time.
Discover(mounted, found) ==
    /\ open
    /\ found \subseteq mounted
    /\ ready => found = mounted
    /\ host = "standalone" => Home \in found
    /\ present' = mounted
    /\ discovered' = Listed(found)
    /\ removable' \in SUBSET (found \ {Home})
    /\ LET p == Seeded(page) IN
       /\ stagedLabels' = LabelsMerged(stagedLabels, p, discovered')
       /\ stagedColors' = ColorsPruned(stagedColors, p, discovered', ready)
       /\ page' = Kept(p, stagedLabels', stagedColors')
    /\ WriteBack
    /\ UNCHANGED <<host, open, ready, touched, gestures>>

\* DiskPartitions.ready: the tree has come to rest.
Settle ==
    /\ open /\ ~ready
    /\ discovered = present
    /\ ready' = TRUE
    /\ UNCHANGED <<host, store, open, page, staged, world, touched, gestures>>

-----------------------------------------------------------------------------
(***************************************************************************)
(* The user's gestures.                                                    *)
(***************************************************************************)

\* A setter that leaves the page as p and the staged colors as c, and ends in
\* _flushStaged().
Gesture(p, c) ==
    /\ open
    /\ gestures < Gestures
    /\ gestures' = gestures + 1
    /\ stagedLabels' = LabelsMerged(stagedLabels, p, discovered)
    /\ stagedColors' = ColorsPruned(c, p, discovered, ready)
    /\ page' = [p EXCEPT !.labels = Settled(@, stagedLabels'),
                         !.colors = Settled(@, stagedColors')]
    /\ WriteBack
    /\ touched' = TRUE
    /\ UNCHANGED <<host, open, world, ready>>

\* setEnabled(), of a metric.
ToggleMetric == Gesture(page, stagedColors)

\* isPartitionShown(), the check box of a listed partition.
Checked(i) == IF i \in removable THEN i \notin page.optOut ELSE i \in page.enabled

With(set, i, on) == IF on THEN set \cup {i} ELSE set \ {i}

\* setPartitionEnabled(): the box of a removable one is that of the opt-outs.
TogglePartition(i) ==
    /\ i \in discovered
    /\ Gesture(IF i \in removable
               THEN [page EXCEPT !.enabled = @ \ {i},
                                 !.optOut = With(@, i, Checked(i))]
               ELSE [page EXCEPT !.enabled = With(@, i, ~Checked(i))],
               stagedColors)

SetColor(i) ==
    /\ i \in discovered
    /\ Gesture(page, Keys(stagedColors) \cup {i})

ClearColor(i) ==
    /\ i \in discovered \cap Keys(stagedColors)
    /\ Gesture(page, Keys(stagedColors) \ {i})

\* commitPartitionOrder() after a drag: the order is that of the listed rows.
Reorder ==
    /\ \E i, j \in discovered : i # j
    /\ Gesture([page EXCEPT !.order = discovered], stagedColors)

\* stalePartitionList
StaleRows ==
    IF ready /\ discovered # {} THEN Referenced(page) \ discovered ELSE {}

Dropped(i) == [page EXCEPT !.enabled = @ \ {i}, !.order = @ \ {i}]

\* Faulty variant: the color goes, and the maps are flushed, before the lists.
Trash_ColorFirst(i) ==
    /\ i \in StaleRows
    /\ open
    /\ gestures < Gestures
    /\ gestures' = gestures + 1
    /\ LET c == Keys(stagedColors) \ {i} IN
       /\ stagedLabels' = LabelsMerged(stagedLabels, Dropped(i), discovered)
       /\ stagedColors' = ColorsPruned(c, page, discovered, ready)
       /\ page' = [Dropped(i) EXCEPT
                     !.labels = Settled(@, LabelsMerged(stagedLabels, page, discovered)),
                     !.colors = Settled(@, stagedColors')]
    /\ WriteBack
    /\ touched' = TRUE
    /\ UNCHANGED <<host, open, world, ready>>

\* removeStalePartition()
Trash(i) ==
    /\ i \in StaleRows
    /\ Gesture(Dropped(i), Keys(stagedColors) \ {i})

-----------------------------------------------------------------------------

PageNext ==
    \/ Open \/ Close \/ Apply \/ Settle
    \/ \E mounted \in SUBSET Ids : \E found \in SUBSET mounted : Discover(mounted, found)
    \/ ToggleMetric \/ Reorder
    \/ \E i \in Ids : TogglePartition(i) \/ SetColor(i) \/ ClearColor(i) \/ Trash(i)

PageSpec == PageInit /\ [][PageNext]_pageVars

-----------------------------------------------------------------------------
(***************************************************************************)
(* Properties.                                                             *)
(***************************************************************************)

\* On Plasma, opening the page and whatever discovery then finds never differs
\* from the stored configuration, so Apply stays disabled until the user does
\* something (#132, #134).
CleanUntilTouched == host = "plasma" /\ ~touched => page = store

\* An open page forgets a color only when the user takes it away, or when its
\* partition is both gone and unreferenced; one that is merely not discovered
\* yet keeps it (#134).
ColorsKept ==
    [][open /\ open' =>
         \A i \in Keys(stagedColors) \ Keys(stagedColors') :
            \/ ClearColor(i) \/ Trash(i)
            \/ i \notin present' \cup Referenced(page')]_pageVars

\* A stale row that goes without its partition coming back, trashed or
\* forgotten by a reorder, leaves no trace in the maps, staged or bridged:
\* nothing outlives the last reference to what is gone.
NoTrace ==
    [][open' /\ discovered' # {} =>
         (StaleRows \ (StaleRows' \cup discovered'))
         \cap (Keys(stagedLabels') \cup Keys(stagedColors')
               \cup Keys(page'.labels) \cup Keys(page'.colors)) = {}]_pageVars

\* The label caches stay bounded by the references, on the page and in the store.
LabelsBounded ==
    /\ open => Keys(stagedLabels) \subseteq Referenced(page)
    /\ Keys(store.labels) \subseteq Referenced(store)

=============================================================================

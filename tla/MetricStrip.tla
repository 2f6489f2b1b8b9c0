---------------------------- MODULE MetricStrip -----------------------------
(***************************************************************************)
(* Which rings the widget shows and in which order: MetricsCatalog.js, the *)
(* metric half of the settings page (MetricsBody.qml, MetricsRowDelegate,  *)
(* MetricSubOptions), the drag of its rows (DraggableList.qml and          *)
(* ReorderLogic.js) and the list the widget derives (MainContent.qml).     *)
(* The page writes the settings the widget reads, as the standalone        *)
(* build does; the backend reports what it can measure at any time.        *)
(*                                                                         *)
(* Abstractions: a CSV is the sequence of its ids, and a row's height is a *)
(* number of pixels that depends on its metric alone.                      *)
(***************************************************************************)
EXTENDS Integers, Sequences, SequencesExt

CONSTANTS
  METRIC_IDS,   \* the catalog, in its canonical order
  SavedOrders,  \* orders earlier releases can have saved
  Height,       \* Height[id]: a row's height
  Spacing       \* rowSpacing

ASSUME CatalogAssumption == METRIC_IDS \in Seq(STRING) /\ IsInjective(METRIC_IDS)
ASSUME SavedAssumption ==
  \A s \in SavedOrders : s \in Seq(STRING) /\ IsInjective(s) /\ ToSet(s) \subseteq ToSet(METRIC_IDS)
ASSUME HeightAssumption == Height \in [ToSet(METRIC_IDS) -> Nat \ {0}] /\ Spacing \in Nat

Ids   == ToSet(METRIC_IDS)
Bases == {"cpu", "gpu"}
TempOf(b) == IF b = "cpu" THEN "cpuTemp" ELSE "gpuTemp"
Always == {"cpu", "ram", "disk", "diskIo"}  \* metrics every host measures

VARIABLES
  metricOrder,  \* saved order of the metrics
  enabled,      \* saved list of the enabled ones, in the order of enabling
  merge,        \* merge[b]: show the temperature in the right half of b's ring
  loading,      \* the backend has not measured yet
  flags,        \* ids with a data source
  rows,         \* orderModel: the rows of the page
  dragSource, dragTarget,  \* rows, 0 when nothing is dragged
  dropped       \* what the last release did: [rows, from, to] before the move

stripVars == <<metricOrder, enabled, merge, loading, flags, rows, dragSource, dragTarget, dropped>>

-----------------------------------------------------------------------------
(* MetricsCatalog.js *)

\* The members of S, in the order of the list: a loop that pushes them.
Keep(seq, S) ==
  LET out[n \in 0..Len(seq)] ==
        IF n = 0 THEN <<>> ELSE IF seq[n] \in S THEN Append(out[n - 1], seq[n]) ELSE out[n - 1]
  IN out[Len(seq)]

filterByOrder(ids, order) == Keep(order, ToSet(ids))

filterByAvailable(ids, available) == Keep(ids, ToSet(available))

availableMetricsFrom(fl) == Keep(METRIC_IDS, fl)

mergeWithCatalog(ids) == ids \o Keep(METRIC_IDS, Ids \ ToSet(ids))

isSplitForBase(b, ids, mg) ==
  b \in Bases /\ mg[b] /\ {b, TempOf(b)} \subseteq ToSet(ids)

\* Mutant: the temperature is hidden although its base ring is not there.
applyMergedTempMode_Blind(ids, mg) == Keep(ids, ToSet(ids) \ {TempOf(b) : b \in {c \in Bases : mg[c]}})

applyMergedTempMode(ids, mg) ==
  Keep(ids, ToSet(ids) \ {TempOf(b) : b \in {c \in Bases : mg[c] /\ {c, TempOf(c)} \subseteq ToSet(ids)}})

toggleEnabled(ids, id, on) ==
  LET others == Keep(ids, ToSet(ids) \ {id})
  IN IF on THEN Append(others, id) ELSE others

-----------------------------------------------------------------------------
(* ReorderLogic.js, with rows counted from 1 and 0 for "none" *)

computeYShift(row, src, tgt, extent) ==
  CASE src = 0 \/ tgt = 0 \/ row = src \/ src = tgt -> 0
    [] src < tgt /\ row > src /\ row <= tgt -> -extent
    [] src > tgt /\ row >= tgt /\ row < src -> extent
    [] OTHER -> 0

\* Mutant: the dragged row lands before the target whichever way it came.
applyMove_Before(arr, from, to) ==
  InsertAt(RemoveAt(arr, from), IF from < to THEN to - 1 ELSE to, arr[from])

\* splice the row out, splice it in at the target's index.
applyMove(arr, from, to) == InsertAt(RemoveAt(arr, from), to, arr[from])

-----------------------------------------------------------------------------
(* MainContent.qml: from the settings and the backend to the rings. *)

rawEnabledList == filterByOrder(enabled, mergeWithCatalog(metricOrder))
availableEnabledList ==
  IF loading THEN rawEnabledList
  ELSE filterByAvailable(rawEnabledList, availableMetricsFrom(flags))
enabledList == applyMergedTempMode(availableEnabledList, merge)
SplitOn(id) == isSplitForBase(id, availableEnabledList, merge)

-----------------------------------------------------------------------------
Idle == [rows |-> <<>>, from |-> 0, to |-> 0]

StripInit == /\ metricOrder \in SavedOrders
             /\ enabled = <<"cpu", "ram">>
             /\ merge = [b \in Bases |-> FALSE]
             /\ loading = TRUE /\ flags = {}
             /\ rows = mergeWithCatalog(metricOrder)     \* loadOrder()
             /\ dragSource = 0 /\ dragTarget = 0 /\ dropped = Idle

\* The backend: the first measurement, and sources that come and go.
Report(fl) == /\ loading' = FALSE /\ flags' = fl
              /\ UNCHANGED <<metricOrder, enabled, merge, rows, dragSource, dragTarget>>
              /\ dropped' = Idle

isEnabled(id) == id \in ToSet(enabled)
isMetricAvailable(id) == loading \/ id \in ToSet(availableMetricsFrom(flags))

\* setEnabled: turning a base metric off takes its merge toggle along.
SetEnabled(id, on) ==
  /\ enabled' = toggleEnabled(enabled, id, on)
  /\ merge' = [b \in Bases |-> merge[b] /\ ~(b = id /\ ~on)]

\* A row's check box, frozen when it is unavailable and unchecked.
Check(id) ==
  /\ isMetricAvailable(id) \/ isEnabled(id)
  /\ SetEnabled(id, ~isEnabled(id))
  /\ UNCHANGED <<metricOrder, loading, flags, rows, dragSource, dragTarget>>
  /\ dropped' = Idle

\* The merge box of an enabled temperature; it enables the base metric.
CheckMerge(b) ==
  /\ isEnabled(TempOf(b))
  /\ merge' = [merge EXCEPT ![b] = ~@]
  /\ enabled' = IF ~merge[b] /\ ~isEnabled(b) THEN toggleEnabled(enabled, b, TRUE) ELSE enabled
  /\ UNCHANGED <<metricOrder, loading, flags, rows, dragSource, dragTarget>>
  /\ dropped' = Idle

Drag(src, tgt) ==
  /\ dragSource' = src /\ dragTarget' = tgt /\ dropped' = Idle
  /\ UNCHANGED <<metricOrder, enabled, merge, loading, flags, rows>>

Press(i)  == dragSource = 0 /\ Drag(i, i)
Entered(i) == dragSource # 0 /\ Drag(dragSource, i)
Exited    == dragSource # 0 /\ Drag(dragSource, dragSource)
Cancel    == dragSource # 0 /\ Drag(0, 0)

\* onReleased, onReordered and commitOrder; loadOrder() follows the new order.
Release ==
  /\ dragSource # 0
  /\ dragSource' = 0 /\ dragTarget' = 0
  /\ IF dragSource = dragTarget THEN UNCHANGED <<rows, metricOrder>> /\ dropped' = Idle
     ELSE /\ metricOrder' = applyMove(rows, dragSource, dragTarget)
          /\ rows' = mergeWithCatalog(metricOrder')
          /\ dropped' = [rows |-> rows, from |-> dragSource, to |-> dragTarget]
  /\ UNCHANGED <<enabled, merge, loading, flags>>

StripNext == \/ \E fl \in SUBSET Ids : Always \cap Ids \subseteq fl /\ Report(fl)
             \/ \E id \in Ids : Check(id)
             \/ \E b \in Bases : CheckMerge(b)
             \/ \E i \in 1..Len(rows) : Press(i) \/ Entered(i)
             \/ Exited \/ Cancel \/ Release

StripSpec == StripInit /\ [][StripNext]_stripVars
-----------------------------------------------------------------------------
Count(seq, x) == Cardinality({i \in DOMAIN seq : seq[i] = x})
Top(seq, i) == FoldFunctionOnSet(+, 0, [j \in 1..Len(seq) |-> Height[seq[j]] + Spacing], 1..(i - 1))

\* Every enabled metric with a data source (every enabled one while loading)
\* is shown exactly once, as a ring or as the right half of its base's ring,
\* and nothing else is: over old saved orders, sources that vanish and the
\* merge toggles (MainContent.qml:57-65, MetricsCatalog.js:183, :269).
ShownOnce ==
  \A id \in Ids :
    LET halves == {b \in Bases : TempOf(b) = id /\ SplitOn(b) /\ Count(enabledList, b) = 1}
        times == Count(enabledList, id) + (IF halves = {} THEN 0 ELSE 1)
    IN times = IF isEnabled(id) /\ (loading \/ id \in flags) THEN 1 ELSE 0

\* A drop puts every row where the drag showed it: the others at the shift
\* computed from the dragged row's own extent, the dragged one at the target
\* (ReorderLogic.js:28, DraggableList.qml:114).
DropLandsAsShown ==
  dropped # Idle =>
    LET old == dropped.rows
        extent == Height[old[dropped.from]] + Spacing
        now(i) == CHOOSE k \in 1..Len(rows) : rows[k] = old[i]
    IN /\ now(dropped.from) = dropped.to
       /\ \A i \in 1..Len(old) \ {dropped.from} :
            Top(rows, now(i)) = Top(old, i) + computeYShift(i, dropped.from, dropped.to, extent)
=============================================================================

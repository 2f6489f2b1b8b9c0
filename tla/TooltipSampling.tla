--------------------------- MODULE TooltipSampling ---------------------------
(***************************************************************************)
(* The hover tooltips of the rings and what they switch on: the delegates  *)
(* of MainContent's Repeater with their TooltipBehavior, the gates they    *)
(* drive on the metrics backend, and the two standalone samplers behind    *)
(* gates, ProcessSampler and DiskIoSampler.                                *)
(*                                                                         *)
(* A sampler's numbers are named by what they were computed from. A        *)
(* baseline is that of the previous tick ("last"), one that a skipped read *)
(* has left behind ("skipped"), or one that has nothing to do with the     *)
(* present activation ("stale"): the result is then good, stretched over   *)
(* several windows, or bogus.                                              *)
(***************************************************************************)
CONSTANTS
    Strips        \* the enabledLists that settings and availability allow

\* The rings with a tooltip, those whose tooltip needs the process list, and
\* those whose delegate drives a gate of the backend itself.
Tipped    == {"cpu", "ram", "disk", "gpu"}
ByProcess == {"cpu", "ram"}
Detailed  == {"disk", "gpu"}
Rings     == Tipped \cup {"diskIo"}

ASSUME TooltipSamplingAssumption == Strips \subseteq SUBSET Rings

VARIABLES
    rings,     \* enabledList: the delegates of the Repeater
    hovered,   \* HoverHandler.hovered, per delegate
    delay,     \* showDelay.running
    shown,     \* TooltipBehavior._show
    forwarded, \* _cpuTooltipHovered, _memTooltipHovered
    detail,    \* diskTooltipActive, gpuDetailSamplingActive
    pids,      \* ProcessSampler._prevPids
    jiffies,   \* ProcessSampler._prevAll
    top,       \* ProcessSampler._top
    sectors,   \* DiskIoSampler._prev
    rate       \* DiskIoSampler's rates

tips     == <<hovered, delay, shown, forwarded, detail>>
process  == <<pids, jiffies, top>>
io       == <<sectors, rate>>
hoverVars == <<rings, tips, process, io>>

Baseline == {"none", "last", "skipped", "stale"}
Result   == {"none", "good", "stretched", "bogus"}

\* What a delta against a baseline of this kind is worth.
Worth == [none |-> "none", last |-> "good", skipped |-> "stretched",
          stale |-> "bogus"]

TypeOK ==
    /\ rings \subseteq Rings
    /\ hovered \subseteq Tipped
    /\ delay \subseteq Tipped
    /\ shown \subseteq Tipped
    /\ forwarded \subseteq ByProcess
    /\ detail \subseteq Detailed
    /\ pids \in Baseline /\ jiffies \in Baseline /\ sectors \in Baseline
    /\ top \in Result /\ rate \in Result

HoverInit ==
    /\ rings \in Strips
    /\ hovered = {} /\ delay = {} /\ shown = {}
    /\ forwarded = {} /\ detail = {}
    /\ pids = "none" /\ jiffies = "none" /\ top = "none"
    /\ sectors = "none" /\ rate = "none"

-----------------------------------------------------------------------------
(***************************************************************************)
(* The gates.                                                              *)
(***************************************************************************)

\* processSamplingActive: either tooltip keeps the sampler on.
ProcessGate(fw) == fw # {}

\* diskIoSamplingActive: the ring is on the strip.
IoGate(strip) == "diskIo" \in strip

\* Faulty variants only: what a sampler keeps across its gate is of another time.
Age(base) == IF base = "none" THEN base ELSE "stale"

\* Faulty variant: the sampler keeps its baseline for the next hover.
ProcessReset_KeepsBaseline ==
    top' = "none" /\ pids' = Age(pids) /\ jiffies' = Age(jiffies)

\* ProcessSampler._reset()
ProcessReset == pids' = "none" /\ jiffies' = "none" /\ top' = "none"

\* onActiveChanged of the ProcessSampler, with the gate's next value.
ProcessGateMoves(fw) ==
    IF ProcessGate(forwarded) /\ ~ProcessGate(fw)
    THEN ProcessReset
    ELSE UNCHANGED process

\* DiskIoSampler._reset()
IoReset == sectors' = "none" /\ rate' = "none"

IoGateMoves(strip) ==
    IF IoGate(rings) /\ ~IoGate(strip) THEN IoReset ELSE UNCHANGED io

-----------------------------------------------------------------------------
(***************************************************************************)
(* The pointer and the tooltips.                                           *)
(***************************************************************************)

\* The flags after the Binding of ring r, which exists for the rings of own.
Written(flags, r, own, on) ==
    IF on THEN flags \cup ({r} \cap own) ELSE flags \ {r}

\* The Bindings of the delegate of r follow its samplingActive.
Drive(r, on) ==
    /\ forwarded' = Written(forwarded, r, ByProcess, on)
    /\ detail' = Written(detail, r, Detailed, on)
    /\ ProcessGateMoves(forwarded')
    /\ UNCHANGED <<rings, io>>

\* The pointer comes to ring r: the gate opens and the delay starts.
Enter(r) ==
    /\ r \in rings \cap Tipped
    /\ hovered = {}
    /\ hovered' = {r}
    /\ delay' = delay \cup {r}
    /\ UNCHANGED shown
    /\ Drive(r, TRUE)

\* Faulty variant: leaving does not stop the delay.
Leave_DelayRuns(r) ==
    /\ r \in hovered
    /\ hovered' = hovered \ {r}
    /\ shown' = shown \ {r}
    /\ UNCHANGED delay
    /\ Drive(r, FALSE)

\* It leaves: the delay stops, the tooltip goes and the gate closes.
Leave(r) ==
    /\ r \in hovered
    /\ hovered' = hovered \ {r}
    /\ delay' = delay \ {r}
    /\ shown' = shown \ {r}
    /\ Drive(r, FALSE)

ShowDelay(r) ==
    /\ r \in delay
    /\ delay' = delay \ {r}
    /\ shown' = shown \cup {r}
    /\ UNCHANGED <<rings, hovered, forwarded, detail, process, io>>

\* Faulty variant: a delegate that goes leaves its flag as it is.
Teardown_NoReset == forwarded

\* Component.onDestruction of the old delegates.
Teardown == forwarded \ rings

\* The Bindings of the new delegates write FALSE.
Rewritten(flags, strip) == flags \ strip

\* enabledList changes: the Repeater destroys all its delegates, whose Bindings
\* restore nothing, and builds new ones.
Rebuild(strip) ==
    /\ rings' = strip
    /\ hovered' = {} /\ delay' = {} /\ shown' = {}
    /\ forwarded' = Rewritten(Teardown, strip)
    /\ detail' = Rewritten(detail, strip)
    /\ ProcessGateMoves(forwarded')
    /\ IoGateMoves(strip)

-----------------------------------------------------------------------------
(***************************************************************************)
(* The samplers' Timers.                                                   *)
(***************************************************************************)

\* ProcessSampler._sample(): /proc/stat gives the denominator, the pids' own
\* stat files the numerators; without a positive denominator there is no list.
ProcessTick(statRead) ==
    /\ ProcessGate(forwarded)
    /\ top' = IF ~statRead \/ jiffies = "none" \/ pids = "none" THEN "none"
              ELSE IF jiffies = "last" THEN Worth[pids]
              ELSE Worth[jiffies]
    /\ jiffies' = IF statRead THEN "last" ELSE "none"
    /\ pids' = "last"
    /\ UNCHANGED <<rings, tips, io>>

\* Faulty variant: an empty read is a baseline of zero sectors.
IoTick_AnyRead(read) ==
    /\ IoGate(rings)
    /\ sectors' = IF read THEN "last" ELSE "stale"
    /\ rate' = IF read /\ sectors # "none" THEN Worth[sectors] ELSE rate
    /\ UNCHANGED <<rings, tips, process>>

\* DiskIoSampler._sample(): a read without devices is skipped.
IoTick(read) ==
    /\ IoGate(rings)
    /\ sectors' = IF read THEN "last"
                  ELSE IF sectors = "last" THEN "skipped" ELSE sectors
    /\ rate' = IF read /\ sectors # "none" THEN Worth[sectors] ELSE rate
    /\ UNCHANGED <<rings, tips, process>>

HoverNext ==
    \/ \E r \in Rings : Enter(r) \/ Leave(r) \/ ShowDelay(r)
    \/ \E strip \in Strips : Rebuild(strip)
    \/ \E ok \in BOOLEAN : ProcessTick(ok) \/ IoTick(ok)

HoverSpec == HoverInit /\ [][HoverNext]_hoverVars

-----------------------------------------------------------------------------
(***************************************************************************)
(* Properties.                                                             *)
(***************************************************************************)

\* The process sampler runs exactly while the pointer is over the CPU or the
\* RAM ring, through every hand-over between the two, every rebuild of the
\* strip under the pointer and every ring removed while hovered: it never
\* polls /proc in the background and never misses a hover.
ProcessGateExact == ProcessGate(forwarded) <=> hovered \cap ByProcess # {}

\* On every ring that is on the strip, the backend's detail gate and the
\* pointer agree: no delegate of an earlier strip holds it open or shut.
DetailGatesExact ==
    \A r \in Detailed \cap rings : r \in detail <=> r \in hovered

\* A tooltip, or the delay before one, never outlives the hover: a quick pass
\* over a ring never pops a tooltip up afterwards.
TipFollowsHover == delay \cup shown \subseteq hovered

\* The ranked process list is always the delta of two consecutive ticks of one
\* hover, whatever came before and whichever read of /proc/stat failed, and
\* nothing of it survives the hover.
RankedOverOneTick ==
    /\ top \in {"none", "good"}
    /\ top # "none" => ProcessGate(forwarded)

\* A disk rate is never computed against a counter of an earlier time the ring
\* was shown, nor against the zero of a failed read, and a ring that is shown
\* again starts without one.
RateOfThisActivation ==
    /\ rate # "bogus"
    /\ rate # "none" => IoGate(rings)

=============================================================================

-------------------------- MODULE CounterSampling ---------------------------
(***************************************************************************)
(* How the standalone build turns the kernel's running counters into the   *)
(* values it shows: CPU usage from /proc/stat (MetricsBackend.qml _sample, *)
(* ProcStatParser.js), disk throughput from /proc/diskstats                *)
(* (DiskIoSampler.qml, DiskStatsParser.js) and the rows of                 *)
(* the process tooltips from /proc/<pid>/stat (ProcessSampler.qml,         *)
(* ProcParser.js, ProcessRanking.js).  Reads fail, cores go on- and        *)
(* offline, disks are plugged and unplugged, pids are reused.              *)
(*                                                                         *)
(* Abstractions: a cpu line has the fields user, idle and iowait; a device *)
(* has one sector counter; rates are in sectors per window (the factor     *)
(* 512 B over the window is a constant) and percentages are rounded down.  *)
(* The three samplers share no state: scene says which of them a behaviour *)
(* is about.                                                               *)
(***************************************************************************)
EXTENDS Integers, Sequences, FiniteSets, Functions

CONSTANTS
  Cpus,             \* core numbers
  Whole,            \* whole physical disks
  BaseOf,           \* BaseOf[d]: the disk that d (a partition or area) is part of, d for a whole disk
  Virtual,          \* loop, ram, dm-, ... devices
  Pids,             \* process ids
  Limit,            \* rows of a process tooltip
  PEAK_FLOOR,       \* least peak of the disk ring, in sectors per window
  PEAK_DECAY,       \* what is left of a peak after a sample, in percent
  MaxWork,          \* bound: ticks, sectors or jiffies of a behaviour
  MaxChanges        \* bound: hotplugs, exits and switches of a behaviour

ASSUME CpusAssumption == Cpus \subseteq Nat /\ IsFiniteSet(Cpus) /\ 0 \in Cpus
ASSUME DisksAssumption == /\ BaseOf \in [Whole \cup Virtual \cup DOMAIN BaseOf -> Whole \cup Virtual]
                          /\ \A d \in Whole \cup Virtual : BaseOf[d] = d
                          /\ IsFiniteSet(DOMAIN BaseOf)
ASSUME PeakAssumption == PEAK_FLOOR \in Nat \ {0} /\ PEAK_DECAY \in 0..100
ASSUME BoundsAssumption == /\ Pids \subseteq Nat /\ IsFiniteSet(Pids) /\ {Limit, MaxWork, MaxChanges} \subseteq Nat

Devices == DOMAIN BaseOf
Null    == <<>>
NoStat  == [all |-> Null, cores |-> <<>>]

VARIABLES
  scene, work, changes,
  \* /proc/stat, and MetricsBackend's _prev, _aggregateUsage and _coreUsage
  ticks, online, prev, aggregate, coreUsage,
  reads,                \* history: [ticks, online] at the last two good reads
  \* /proc/diskstats, and DiskIoSampler
  sectors, active, base, rate,
  peak,                 \* what fills the ring, in hundredths of a sector
  moved,                \* history: sectors moved since the last good read
  due, most,            \* history: those moved before the read that set rate; its maximum
  \* /proc/<pid>, and ProcessSampler
  jiffies, uptime, prevAll, totalDelta, prevPids, top,
  pids,                 \* a sample has read the total and reads the processes next
  spent                 \* history: jiffies spent by each pid, now and when top was set

cpuVars  == <<ticks, online, prev, aggregate, coreUsage, reads>>
diskVars == <<sectors, active, base, rate, peak, moved, due, most>>
procVars == <<jiffies, uptime, prevAll, totalDelta, prevPids, top, pids, spent>>
vars == <<scene, work, changes, cpuVars, diskVars, procVars>>

\* The elements of a finite set, sorted.
InOrder(S, Before(_, _)) ==
  CHOOSE s \in [1..Cardinality(S) -> S] : \A i, j \in 1..Cardinality(S) : i < j => Before(s[i], s[j])

clampPercent(p) == IF p < 0 THEN 0 ELSE IF p > 100 THEN 100 ELSE p

-----------------------------------------------------------------------------
(* ProcStatParser.js *)

\* The cores of the lines cpu0, cpu1, ...
coreLines(on) == InOrder(on, <)

\* The aggregate line counts every core, the core lines the online ones.
parseProcStat(tk, on) ==
  [all |-> [f \in 1..3 |-> SumFunction([c \in Cpus |-> tk[c][f]])],
   cores |-> LET idx == coreLines(on) IN [k \in 1..Len(idx) |-> tk[idx[k]]]]

percentFromSample(p, c) ==
  LET dTotal == SumFunction(c) - SumFunction(p)
      dIdle  == (c[2] + c[3]) - (p[2] + p[3])
  IN IF p = Null \/ c = Null \/ dTotal <= 0 THEN 0
     ELSE clampPercent((100 * (dTotal - dIdle)) \div dTotal)

(* DiskStatsParser.js: map[d] for the devices listed. *)
_isPartitionOf(name, names) == BaseOf[name] # name /\ BaseOf[name] \in names

aggregateWholeDisks(map) ==
  SumFunction([d \in {n \in DOMAIN map : n \notin Virtual /\ ~_isPartitionOf(n, DOMAIN map)} |-> map[d]])

ratesFromSamples(p, c) == IF c < p THEN 0 ELSE c - p

(* DiskIoScale.js: the peak that fills the ring, and the share of it. *)
updatePeak(prevPeak, r) ==
  CHOOSE m \in {100 * r, (prevPeak * PEAK_DECAY) \div 100, 100 * PEAK_FLOOR} :
    m >= 100 * r /\ m >= (prevPeak * PEAK_DECAY) \div 100 /\ m >= 100 * PEAK_FLOOR

rateToPercent(r, pk) == IF pk = 0 THEN 0 ELSE clampPercent((10000 * r) \div pk)

(* ProcParser.js: maps from pid to jiffies. *)

\* Mutant: a pid without a previous record counts from zero.
computePercents_FromZero(p, c, delta) ==
  IF p = Null \/ delta <= 0 THEN {}
  ELSE {[pid |-> q, cpu |-> clampPercent((100 * (c[q] - (IF q \in DOMAIN p THEN p[q] ELSE 0))) \div delta)] :
          q \in DOMAIN c}

computePercents(p, c, delta) ==
  IF p = Null \/ delta <= 0 THEN {}
  ELSE {[pid |-> q, cpu |-> clampPercent((100 * (c[q] - p[q])) \div delta)] :
          q \in DOMAIN c \cap DOMAIN p}

(* ProcessRanking.js: by share, then by pid, cut to the limit. *)
rankByCpu(records) ==
  LET sorted == InOrder(records, LAMBDA a, b : a.cpu > b.cpu \/ (a.cpu = b.cpu /\ a.pid < b.pid))
  IN SubSeq(sorted, 1, IF Len(sorted) < Limit THEN Len(sorted) ELSE Limit)

-----------------------------------------------------------------------------
Init == /\ scene \in {"cpu", "disk", "proc"} /\ work = 0 /\ changes = 0
        /\ ticks = [c \in Cpus |-> <<0, 0, 0>>] /\ online = Cpus
        /\ prev = NoStat /\ aggregate = 0 /\ coreUsage = <<>>
        /\ reads = <<[ticks |-> ticks, online |-> {}]>>
        /\ sectors = [d \in Devices |-> 0] /\ active = FALSE
        /\ base = Null /\ rate = 0 /\ peak = 0 /\ moved = 0 /\ due = 0 /\ most = 0
        /\ jiffies = [p \in {} |-> 0] /\ uptime = 0 /\ prevAll = Null /\ totalDelta = 0
        /\ prevPids = Null /\ top = <<>> /\ pids = FALSE
        /\ spent = [now |-> [p \in Pids |-> 0], then |-> [p \in Pids |-> 0], total |-> 0]

Work(n)   == work + n <= MaxWork /\ work' = work + n /\ UNCHANGED <<scene, changes>>
Change    == changes < MaxChanges /\ changes' = changes + 1 /\ UNCHANGED <<scene, work>>
Steady    == UNCHANGED <<scene, work, changes>>
OnlyCpu   == scene = "cpu" /\ UNCHANGED <<diskVars, procVars>>
OnlyDisk  == scene = "disk" /\ UNCHANGED <<cpuVars, procVars>>
OnlyProc  == scene = "proc" /\ UNCHANGED <<cpuVars, diskVars>>

\* Time passes on an online core, busy, idle or waiting.
Run(c, f) == /\ OnlyCpu /\ Work(1) /\ c \in online
             /\ ticks' = [ticks EXCEPT ![c][f] = @ + 1]
             /\ UNCHANGED <<online, prev, aggregate, coreUsage, reads>>

\* A core goes off- or online; its counters stay.
Hotplug(c) == /\ OnlyCpu /\ Change /\ c # 0
              /\ online' = IF c \in online THEN online \ {c} ELSE online \cup {c}
              /\ UNCHANGED <<ticks, prev, aggregate, coreUsage, reads>>

\* Mutant: a failed read drops the previous sample.
kept_Last(parsed) == parsed

kept(parsed) == IF parsed.all # Null THEN parsed ELSE prev

\* The /proc/stat part of MetricsBackend._sample(): a good second read sets
\* the usage, a failed one changes nothing.
SampleCpu(ok) ==
  LET parsed == IF ok THEN parseProcStat(ticks, online) ELSE NoStat
      n == CHOOSE m \in {Len(prev.cores), Len(parsed.cores)} :
             m <= Len(prev.cores) /\ m <= Len(parsed.cores)
  IN /\ OnlyCpu /\ Steady
     /\ IF parsed.all # Null /\ prev.all # Null
        THEN /\ aggregate' = percentFromSample(prev.all, parsed.all)
             /\ coreUsage' = [i \in 1..n |-> percentFromSample(prev.cores[i], parsed.cores[i])]
        ELSE UNCHANGED <<aggregate, coreUsage>>
     /\ prev' = kept(parsed)
     /\ reads' = IF ok THEN <<reads[Len(reads)], [ticks |-> ticks, online |-> online]>> ELSE reads
     /\ UNCHANGED <<ticks, online>>

-----------------------------------------------------------------------------
\* Traffic on a device also counts on the disk it is part of.
Transfer(d) ==
  /\ OnlyDisk /\ Work(1) /\ d \in DOMAIN sectors /\ BaseOf[d] \in DOMAIN sectors
  /\ sectors' = [e \in DOMAIN sectors |-> sectors[e] + (IF e \in {d, BaseOf[d]} THEN 1 ELSE 0)]
  /\ moved' = moved + (IF BaseOf[d] \in Whole THEN 1 ELSE 0)
  /\ UNCHANGED <<active, base, rate, peak, due, most>>

\* A disk and its parts disappear, or come back with fresh counters.
Plug(w) ==
  LET parts == {d \in Devices : BaseOf[d] = w}
  IN /\ OnlyDisk /\ Change
     /\ sectors' = IF w \in DOMAIN sectors THEN [d \in DOMAIN sectors \ parts |-> sectors[d]]
                   ELSE [d \in DOMAIN sectors \cup parts |-> IF d \in parts THEN 0 ELSE sectors[d]]
     /\ UNCHANGED <<active, base, rate, peak, moved, due, most>>

\* The ring appears or disappears; the peak is kept.
SetActive ==
  /\ OnlyDisk /\ Change
  /\ active' = ~active
  /\ IF active THEN base' = Null /\ rate' = 0 /\ due' = 0 ELSE UNCHANGED <<base, rate, due>>
  /\ UNCHANGED <<sectors, peak, moved, most>>

\* Mutant: a failed read counts as a read of empty counters.
skipped_Never(map) == FALSE

skipped(map) == DOMAIN map = {}

\* DiskIoSampler._sample(): an empty read is skipped, the first one seeds the
\* baseline, the next set the rate.
SampleIo(ok) ==
  LET map == [d \in IF ok THEN DOMAIN sectors ELSE {} |-> sectors[d]]
      r == ratesFromSamples(base[1], aggregateWholeDisks(map))
  IN /\ OnlyDisk /\ Steady /\ active /\ ~skipped(map)
     /\ IF base # Null
        THEN /\ rate' = r /\ peak' = updatePeak(peak, r)
             /\ due' = moved /\ most' = IF moved > most THEN moved ELSE most
        ELSE UNCHANGED <<rate, peak, due, most>>
     /\ base' = <<aggregateWholeDisks(map)>> /\ moved' = 0
     /\ UNCHANGED <<sectors, active>>

-----------------------------------------------------------------------------
\* A process runs, or the machine is idle (p = 0).
Spend(p) ==
  /\ OnlyProc /\ Work(1)
  /\ p \in DOMAIN jiffies \cup {0}
  /\ uptime' = uptime + 1
  /\ IF p = 0 THEN UNCHANGED <<jiffies, spent>>
     ELSE jiffies' = [jiffies EXCEPT ![p] = @ + 1] /\ spent' = [spent EXCEPT !.now[p] = @ + 1]
  /\ UNCHANGED <<prevAll, totalDelta, prevPids, top, pids>>

\* A process starts with no jiffies, perhaps under a pid used before, or ends.
Fork(p) == /\ OnlyProc /\ Change
           /\ jiffies' = IF p \in DOMAIN jiffies
                         THEN [q \in DOMAIN jiffies \ {p} |-> jiffies[q]]
                         ELSE [q \in DOMAIN jiffies \cup {p} |-> IF q = p THEN 0 ELSE jiffies[q]]
           /\ UNCHANGED <<uptime, prevAll, totalDelta, prevPids, top, pids, spent>>

\* ProcessSampler._sample(), its read of /proc/stat ...
SampleTotal(ok) ==
  /\ OnlyProc /\ Steady /\ ~pids /\ pids' = TRUE
  /\ totalDelta' = IF ok /\ prevAll # Null THEN uptime - prevAll[1] ELSE 0
  /\ prevAll' = IF ok THEN <<uptime>> ELSE Null
  /\ UNCHANGED <<jiffies, uptime, prevPids, top, spent>>

\* ... and its reads of the processes, some of which fail.
SamplePids(readable) ==
  LET cur == [q \in readable |-> jiffies[q]]
  IN /\ OnlyProc /\ Steady /\ pids /\ pids' = FALSE /\ readable \subseteq DOMAIN jiffies
     /\ top' = rankByCpu(computePercents(prevPids, cur, totalDelta))
     /\ prevPids' = cur
     /\ spent' = [now |-> [p \in Pids |-> 0], then |-> spent.now, total |-> totalDelta]
     /\ UNCHANGED <<jiffies, uptime, prevAll, totalDelta>>

\* The tooltip closes: ProcessSampler._reset().
Close == /\ OnlyProc /\ Change /\ ~pids
         /\ prevPids' = Null /\ prevAll' = Null /\ top' = <<>>
         /\ UNCHANGED <<jiffies, uptime, totalDelta, pids, spent>>

Next == \/ \E c \in Cpus : (\E f \in 1..3 : Run(c, f)) \/ Hotplug(c)
        \/ \E ok \in BOOLEAN : SampleCpu(ok) \/ SampleIo(ok) \/ SampleTotal(ok)
        \/ \E d \in Devices : Transfer(d)
        \/ \E w \in Whole : Plug(w)
        \/ SetActive \/ Close
        \/ \E p \in Pids \cup {0} : Spend(p)
        \/ \E p \in Pids : Fork(p)
        \/ \E s \in SUBSET Pids : SamplePids(s)

Spec == Init /\ [][Next]_vars
-----------------------------------------------------------------------------
Share(part, total) == IF total = 0 THEN 0 ELSE (100 * part) \div total

\* Across failed reads and hotplugs, the CPU ring shows the busy share of all
\* cores between the last two good reads, and every core ring the share of
\* its own core unless the set of online cores changed in between
\* (MetricsBackend.qml:412-431).
CpuUsageExact ==
  Len(reads) = 2 /\ reads[1].online # {} =>
    LET past(c) == [f \in 1..3 |-> reads[2].ticks[c][f] - reads[1].ticks[c][f]]
        idx == coreLines(reads[2].online)
    IN /\ aggregate = Share(SumFunction([c \in Cpus |-> past(c)[1]]),
                            SumFunction([c \in Cpus |-> SumFunction(past(c))]))
       /\ reads[1].online = reads[2].online =>
            coreUsage = [k \in 1..Len(idx) |-> Share(past(idx[k])[1], SumFunction(past(idx[k])))]

\* The disk ring never shows more than the physical disks moved since the
\* previous good read: not the counters since boot after a failed read, a
\* pause or a plugged disk, and nothing twice.  Its scale, which outlives
\* the pauses, is never above what some window really moved, and the ring is
\* full only at the peak (DiskIoSampler.qml:65-72, :89-93).
NoSpuriousBurst ==
  /\ rate <= due
  /\ peak <= 100 * (IF most > PEAK_FLOOR THEN most ELSE PEAK_FLOOR)
  /\ rateToPercent(rate, peak) = 100 => 100 * rate = peak

\* A row is charged only with time its pid spent since the previous reading
\* of the processes, also when the pid was reused or a reading failed, and
\* the rows have one order (ProcParser.js:86, ProcessRanking.js:64).
OwnShareOnly ==
  /\ \A i \in DOMAIN top : top[i].cpu * spent.total <= 100 * spent.then[top[i].pid]
  /\ \A i, j \in DOMAIN top :
       i < j => top[i].cpu > top[j].cpu \/ (top[i].cpu = top[j].cpu /\ top[i].pid < top[j].pid)
=============================================================================

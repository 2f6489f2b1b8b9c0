-------------------------- MODULE PartitionReadings --------------------------
(***************************************************************************)
(* The disk rings of the standalone widget: MetricsBackend follows         *)
(* /proc/mounts once a tick (_refreshPartitions) and renders every         *)
(* partition from ProcReader's cache, which detached threads fill with     *)
(* statvfs() (requestStatvfs, onStatvfsDone).                              *)
(*                                                                         *)
(* A reading is named by the filesystem it measures.  The cache is keyed   *)
(* by mount point, so what a ring shows depends on what was mounted there  *)
(* when the syscall looked.                                                *)
(***************************************************************************)
EXTENDS Naturals, Sequences, FiniteSets

CONSTANTS
    Filesystems,   \* block devices, the partition ids of the rings
    Points,        \* mount points
    Rank,          \* of each of Points: segments of the path, then its name
    Threads,       \* worker threads the process can have at a time
    Period,        \* the sampling Timer's interval, in steps of the clock
    Throttle,      \* kStatvfsMinIntervalMs, in steps of the clock
    MaxChanges,    \* bound: changes of the mounts and of their health
    Healths,       \* what a filesystem can become: "ok", "hung", "failing"
    Enclosing,     \* the reading of an unmounted mount point: its parent's
    NoReading      \* the empty map: never read, or statvfs() failed

ASSUME PartitionReadingsAssumption ==
    /\ Period \in Nat \ {0} /\ Throttle \in Nat \ {0} /\ MaxChanges \in Nat
    /\ Healths \subseteq {"ok", "hung", "failing"}
    /\ Enclosing # NoReading
    /\ {Enclosing, NoReading} \cap Filesystems = {}
    /\ Rank \in [Points -> Nat]
    /\ \A S \in SUBSET Points :          \* as every finite set has one
         S # {} => \E m \in S : \A n \in S : Rank[m] <= Rank[n]

VARIABLES
    mounts,    \* the kernel's table, oldest entry first
    health,    \* how each filesystem answers
    strained,  \* the system refuses new threads
    changes,   \* how often the surroundings have changed
    seen,      \* _lastMountsRaw: the table of the last rebuild
    inFlight,  \* m_statvfsInFlight
    cache,     \* m_statvfsCache
    age,       \* clock steps since m_statvfsLastDoneMs, up to Throttle
    thread,    \* each worker, until its result has been delivered
    shown,     \* what each partition's ring shows
    since,     \* clock steps since the last tick
    reads      \* reads launched since the last tick, per mount point

env  == <<mounts, health, strained, changes>>
vars == <<mounts, health, strained, changes, seen, inFlight, cache, age, thread, shown,
          since, reads>>

Readings == Filesystems \cup {Enclosing, NoReading}

\* Reads of one mount point that fit between two ticks (see NoSpin).
MaxReads == Period \div Throttle + 1

Idle == [phase |-> "idle"]

Worker ==
    {Idle}
    \cup [phase : {"started"}, mount : Points]
    \cup [phase : {"blocked", "posted"}, mount : Points, reading : Readings]

TypeOK ==
    /\ mounts \in Seq([fs : Filesystems, at : Points])
    /\ health \in [Filesystems -> {"ok", "hung", "failing"}]
    /\ strained \in BOOLEAN
    /\ changes \in 0 .. MaxChanges
    /\ seen \in Seq([fs : Filesystems, at : Points])
    /\ inFlight \subseteq Points
    /\ cache \in [Points -> Readings]
    /\ age \in [Points -> 0 .. Throttle]
    /\ thread \in [Threads -> Worker]
    /\ shown \in [Filesystems -> Readings]
    /\ since \in 0 .. Period
    /\ reads \in [Points -> 0 .. MaxReads + 1]

-----------------------------------------------------------------------------
(***************************************************************************)
(* Mounts and partitions.                                                  *)
(***************************************************************************)

Entries(table) == {table[i] : i \in 1 .. Len(table)}

Mounted(f, table) == \E e \in Entries(table) : e.fs = f

\* The i-th entry is the last one mounted on m.
Covers(i, m, table) ==
    /\ table[i].at = m
    /\ \A j \in i + 1 .. Len(table) : table[j].at # m

\* statvfs() of a path measures what was mounted there last.
Top(m, table) ==
    IF \E i \in 1 .. Len(table) : Covers(i, m, table)
    THEN table[CHOOSE i \in 1 .. Len(table) : Covers(i, m, table)].fs
    ELSE Enclosing

PointsOf(f, table) == {e.at : e \in {x \in Entries(table) : x.fs = f}}

\* _representativeMount(): the shortest of the mount points.
Representative(S) == CHOOSE m \in S : \A n \in S : Rank[m] <= Rank[n]

\* _mountForId[id]
MountFor(f, table) == Representative(PointsOf(f, table))

Init ==
    /\ mounts \in {<< >>} \cup {<<[fs |-> f, at |-> m]>> : f \in Filesystems, m \in Points}
    /\ health \in [Filesystems -> {"ok", "hung"}]
    /\ strained = FALSE
    /\ changes = 0
    /\ seen = << >>
    /\ inFlight = {}
    /\ cache = [m \in Points |-> NoReading]
    /\ age = [m \in Points |-> Throttle]
    /\ thread = [t \in Threads |-> Idle]
    /\ shown = [f \in Filesystems |-> NoReading]
    /\ since = Period
    /\ reads = [m \in Points |-> 0]

Change ==
    /\ changes < MaxChanges
    /\ changes' = changes + 1
    /\ UNCHANGED <<seen, inFlight, cache, age, thread, shown, since, reads>>

Mount(f, m) ==
    /\ Change
    /\ [fs |-> f, at |-> m] \notin Entries(mounts)
    /\ mounts' = Append(mounts, [fs |-> f, at |-> m])
    /\ UNCHANGED <<health, strained>>

\* A lazy unmount works on a hung filesystem too; the thread stays blocked.
Unmount(i) ==
    /\ Change
    /\ Covers(i, mounts[i].at, mounts)
    /\ mounts' = SubSeq(mounts, 1, i - 1) \o SubSeq(mounts, i + 1, Len(mounts))
    /\ UNCHANGED <<health, strained>>

Turn(f, h) ==
    /\ Change
    /\ health[f] # h
    /\ health' = [health EXCEPT ![f] = h]
    /\ UNCHANGED <<mounts, strained>>

Strain(b) ==
    /\ Change
    /\ strained # b
    /\ strained' = b
    /\ UNCHANGED <<mounts, health>>

-----------------------------------------------------------------------------
(***************************************************************************)
(* ProcReader, on the GUI thread.                                          *)
(***************************************************************************)

\* Faulty variant: requests are not deduplicated.
Due_NoDedup(m, flying, ages) == ages[m] >= Throttle

\* Faulty variant: requests are not throttled.
Due_NoThrottle(m, flying, ages) == m \notin flying

\* requestStatvfs() starts a read: none is in flight and the last is not fresh.
Due(m, flying, ages) == m \notin flying /\ ages[m] >= Throttle

\* Faulty variant: a failed thread creation leaves the in-flight flag set.
Flying_AlsoFailed(flying, due, begun) == flying \cup due

\* A std::system_error from std::thread clears the flag again.
Flying(flying, due, begun) == flying \cup begun

\* requestStatvfs() of each mount point in `wanted`, the readers of a render.
\* `counts` are the reads since the last tick.
Request(wanted, flying, ages, workers, counts) ==
    LET due  == {m \in wanted : Due(m, flying, ages)}
        free == {t \in Threads : workers[t] = Idle}
    IN  \E begun \in SUBSET due :
          /\ \/ begun = due
             \/ strained
             \/ Cardinality(begun) = Cardinality(free)
          /\ inFlight' = Flying(flying, due, begun)
          /\ reads' = [m \in Points |->
               IF m \in begun /\ counts[m] <= MaxReads THEN counts[m] + 1
               ELSE counts[m]]
          /\ \E by \in [begun -> free] :
               /\ \A m, n \in begun : by[m] = by[n] => m = n
               /\ thread' = [t \in Threads |->
                    IF \E m \in begun : by[m] = t
                    THEN [phase |-> "started",
                          mount |-> CHOOSE m \in begun : by[m] = t]
                    ELSE workers[t]]

\* What partitionValue(id) returns for each partition of the table: the cached
\* reading of its mount point, 0 % for the empty map.
Values(table, readings) ==
    [f \in Filesystems |->
       IF Mounted(f, table) THEN readings[MountFor(f, table)] ELSE NoReading]

\* The bindings on partitionValue(id) evaluate: each asks and shows.
Render(table, flying, readings, ages, workers, counts) ==
    /\ shown' = Values(table, readings)
    /\ Request({MountFor(f, table) : f \in {g \in Filesystems : Mounted(g, table)}},
               flying, ages, workers, counts)

\* _sample(): _refreshPartitions() rebuilds the list whenever the text of
\* /proc/mounts differs, and _tick renders every ring.
Tick ==
    /\ since = Period
    /\ since' = 0
    /\ seen' = mounts
    /\ Render(seen', inFlight, cache, age, thread, [m \in Points |-> 0])
    /\ UNCHANGED <<env, cache, age>>

\* onStatvfsDone(), posted by the worker to the GUI thread: the result goes to
\* the cache, and statvfsReady renders the rings again.
StatvfsDone(t) ==
    /\ thread[t].phase = "posted"
    /\ LET m == thread[t].mount
           r == thread[t].reading
       IN  /\ cache' = [cache EXCEPT ![m] = r]
           /\ age' = [age EXCEPT ![m] = 0]
           /\ Render(seen, inFlight \ {m}, cache', age',
                     [thread EXCEPT ![t] = Idle], reads)
    /\ UNCHANGED <<env, seen, since>>

-----------------------------------------------------------------------------
(***************************************************************************)
(* The workers and the clock.                                              *)
(***************************************************************************)

\* The syscall resolves the path: what it will measure is settled now.
Enter(t) ==
    /\ thread[t].phase = "started"
    /\ thread' = [thread EXCEPT ![t] =
         [phase |-> "blocked", mount |-> @.mount, reading |-> Top(@.mount, mounts)]]
    /\ UNCHANGED <<env, seen, inFlight, cache, age, shown, since, reads>>

\* It returns, unless the filesystem hangs, and the result is posted.
Return(t) ==
    /\ thread[t].phase = "blocked"
    /\ LET f == thread[t].reading
           h == IF f \in Filesystems THEN health[f] ELSE "ok"
       IN  /\ h # "hung"
           /\ thread' = [thread EXCEPT ![t] =
                [phase |-> "posted", mount |-> @.mount,
                 reading |-> IF h = "failing" THEN NoReading ELSE f]]
    /\ UNCHANGED <<env, seen, inFlight, cache, age, shown, since, reads>>

\* A removed mount point directory makes the syscall fail.
ReturnMissing(t) ==
    /\ thread[t].phase = "started"
    /\ Top(thread[t].mount, mounts) = Enclosing
    /\ thread' = [thread EXCEPT ![t] =
         [phase |-> "posted", mount |-> @.mount, reading |-> NoReading]]
    /\ UNCHANGED <<env, seen, inFlight, cache, age, shown, since, reads>>

Elapse ==
    /\ since < Period
    /\ since' = since + 1
    /\ age' = [m \in Points |-> IF age[m] < Throttle THEN age[m] + 1 ELSE Throttle]
    /\ UNCHANGED <<env, seen, inFlight, cache, thread, shown, reads>>

-----------------------------------------------------------------------------

Surroundings ==
    \/ \E f \in Filesystems, m \in Points : Mount(f, m)
    \/ \E i \in 1 .. Len(mounts) : Unmount(i)
    \/ \E f \in Filesystems, h \in Healths : Turn(f, h)
    \/ \E b \in BOOLEAN : Strain(b)

WorkerStep(t) == Enter(t) \/ Return(t) \/ ReturnMissing(t) \/ StatvfsDone(t)

Next == Surroundings \/ Tick \/ Elapse \/ \E t \in Threads : WorkerStep(t)

\* The Timer repeats, the event loop delivers what is posted to it, and a
\* syscall that is not stuck returns.
Fairness ==
    /\ WF_vars(Tick)
    /\ WF_vars(Elapse)
    /\ \A t \in Threads : WF_vars(WorkerStep(t))

Spec == Init /\ [][Next]_vars

FairSpec == Spec /\ Fairness

-----------------------------------------------------------------------------
(***************************************************************************)
(* What the reader is for.                                                 *)
(***************************************************************************)

Busy(t) == thread[t] # Idle

\* A hung mount freezes exactly one worker, never a pile: no two workers are
\* ever at one mount point, and a mount point counts as in flight exactly while
\* a worker or its undelivered result exists (proc_reader.h:93-95).
NoPile ==
    /\ \A t, u \in Threads :
         Busy(t) /\ Busy(u) /\ thread[t].mount = thread[u].mount => t = u
    /\ inFlight = {thread[t].mount : t \in {u \in Threads : Busy(u)}}

\* The re-render that every landed result causes does not spin the syscall:
\* between two ticks a mount point is read only as often as the throttle lets
\* it (MetricsBackend.qml: "no loop, the re-request is throttled").
NoSpin == \A m \in Points : reads[m] <= MaxReads

\* The ring of f can be read: it is mounted, its mount point shows it, it
\* answers, threads can be made, and no worker sits there in another, hung one.
Readable(f) ==
    /\ Mounted(f, mounts)
    /\ Top(MountFor(f, mounts), mounts) = f
    /\ health[f] = "ok"
    /\ ~strained
    /\ \A t \in Threads :
         /\ thread[t].phase = "blocked"
         /\ thread[t].mount = MountFor(f, mounts)
         /\ thread[t].reading \in Filesystems
         => health[thread[t].reading] # "hung"

\* A ring that can be read comes to show its own filesystem, and keeps showing
\* it, whatever was cached for its mount point before, and however many other
\* mounts hang: one hung mount never holds up the rest (issue #48).
RingCatchesUp ==
    \A f \in Filesystems : <>[]Readable(f) => <>[](shown[f] = f)

=============================================================================

-------------------------- MODULE PartitionProofs ---------------------------
(***************************************************************************)
(* Proofs about the partitions: what their rings show (PartitionReadings,  *)
(* first part) and how they are chosen (PartitionSettings, second part).   *)
(* The two parts share no fact.                                            *)
(*                                                                         *)
(* First part: the types, that a hung mount point holds one worker, and    *)
(* that the re-renders do not spin the syscall, whatever the number of     *)
(* mounts, rings and threads and the two periods.                          *)
(*                                                                         *)
(* Second part: the types, that Apply stays disabled until the user does   *)
(* something, that the label caches are bounded, that no color is lost but *)
(* by the user's hand or with its partition, and that a stale row that     *)
(* goes leaves nothing behind.                                             *)
(***************************************************************************)
EXTENDS PartitionReadings, PartitionSettings, SequenceTheorems, TLAPS

-----------------------------------------------------------------------------
(***************************************************************************)
(* First part: PartitionReadings.                                          *)
(***************************************************************************)

Table == Seq([fs : Filesystems, at : Points])

\* NoPile, of any assignment of workers: one worker per mount point, ...
Alone(workers) ==
    \A t, u \in Threads :
        /\ workers[t] # Idle
        /\ workers[u] # Idle
        /\ workers[t].mount = workers[u].mount
        => t = u

\* ... and the mount points in flight are theirs.
Flown(workers, flying) ==
    flying = {workers[t].mount : t \in {u \in Threads : workers[u] # Idle}}

\* The in-flight set is exactly right: the inductive invariant.
Inv == TypeOK /\ Alone(thread) /\ Flown(thread, inFlight)

-----------------------------------------------------------------------------

\* A mounted filesystem has a representative mount point.
LEMMA MountForType ==
    ASSUME NEW table \in Table, NEW f \in Filesystems, Mounted(f, table)
    PROVE  MountFor(f, table) \in Points
<1> DEFINE S == PointsOf(f, table)
<1>1. S \subseteq Points
  <2>1. \A i \in 1 .. Len(table) : table[i] \in [fs : Filesystems, at : Points]
    BY ElementOfSeq DEF Table
  <2> QED
    BY <2>1 DEF PointsOf, Entries
<1>2. S # {}
  BY DEF PointsOf, Entries, Mounted, Table
<1>3. PICK m \in S : \A n \in S : Rank[m] <= Rank[n]
  BY <1>1, <1>2, PartitionReadingsAssumption
<1>4. Representative(S) \in S
  BY <1>3 DEF Representative
<1> QED
  BY <1>1, <1>4 DEF MountFor

\* A look at a mount point finds a reading.
LEMMA TopType ==
    ASSUME NEW table \in Table, NEW m \in Points
    PROVE  Top(m, table) \in Filesystems \cup {Enclosing}
<1>1. \A i \in 1 .. Len(table) : table[i] \in [fs : Filesystems, at : Points]
  BY ElementOfSeq DEF Table
<1> QED
  BY <1>1 DEF Top

\* A started worker is one.
LEMMA StartedType ==
    ASSUME NEW m \in Points
    PROVE  /\ [phase |-> "started", mount |-> m] \in Worker
           /\ [phase |-> "started", mount |-> m] # Idle
  BY DEF Worker, Idle

\* A busy worker is at a mount point.
LEMMA BusyMount ==
    ASSUME NEW w \in Worker, w # Idle
    PROVE  w.mount \in Points
  BY DEF Worker, Idle

\* What starting workers for idle threads does: the rings' requests keep one
\* worker per mount point and the in-flight set exact.
LEMMA RequestKeeps ==
    ASSUME NEW wanted, wanted \subseteq Points,
           NEW flying, flying \subseteq Points,
           NEW ages,
           NEW workers \in [Threads -> Worker],
           NEW counts \in [Points -> 0 .. MaxReads + 1],
           Alone(workers), Flown(workers, flying),
           Request(wanted, flying, ages, workers, counts)
    PROVE  /\ thread' \in [Threads -> Worker]
           /\ inFlight' \subseteq Points
           /\ reads' \in [Points -> 0 .. MaxReads + 1]
           /\ Alone(thread')
           /\ Flown(thread', inFlight')
<1> DEFINE due  == {m \in wanted : Due(m, flying, ages)}
           free == {t \in Threads : workers[t] = Idle}
<1>1. PICK begun \in SUBSET due :
        /\ inFlight' = Flying(flying, due, begun)
        /\ reads' = [m \in Points |->
               IF m \in begun /\ counts[m] <= MaxReads THEN counts[m] + 1
               ELSE counts[m]]
        /\ \E by \in [begun -> free] :
             /\ \A m, n \in begun : by[m] = by[n] => m = n
             /\ thread' = [t \in Threads |->
                  IF \E m \in begun : by[m] = t
                  THEN [phase |-> "started",
                        mount |-> CHOOSE m \in begun : by[m] = t]
                  ELSE workers[t]]
  BY Zenon DEF Request
<1>2. PICK by \in [begun -> free] :
        /\ \A m, n \in begun : by[m] = by[n] => m = n
        /\ thread' = [t \in Threads |->
             IF \E m \in begun : by[m] = t
             THEN [phase |-> "started", mount |-> CHOOSE m \in begun : by[m] = t]
             ELSE workers[t]]
  BY <1>1
<1>3. begun \subseteq Points /\ begun \cap flying = {}
  BY DEF Due
<1>4. ASSUME NEW m \in begun
      PROVE  /\ by[m] \in free
             /\ thread'[by[m]] = [phase |-> "started", mount |-> m]
  <2>1. by[m] \in free
    BY <1>2
  <2>2. (CHOOSE n \in begun : by[n] = by[m]) = m
    BY <1>2
  <2> QED
    BY <1>2, <2>1, <2>2
<1>a. ASSUME NEW t \in Threads, \E m \in begun : by[m] = t
      PROVE  \E m \in begun :
               /\ by[m] = t
               /\ thread'[t] = [phase |-> "started", mount |-> m]
               /\ thread'[t] \in Worker
               /\ thread'[t] # Idle
               /\ thread'[t].mount = m
  <2>1. PICK m \in begun : by[m] = t
    BY <1>a
  <2>2. thread'[t] = [phase |-> "started", mount |-> m]
    BY <2>1, <1>4
  <2>3. m \in Points
    BY <1>3
  <2> QED
    BY <2>1, <2>2, <2>3, StartedType
<1>5. ASSUME NEW t \in Threads, ~ \E m \in begun : by[m] = t
      PROVE  thread'[t] = workers[t]
  BY <1>2, <1>5
<1>6. thread' \in [Threads -> Worker]
  <2>1. ASSUME NEW t \in Threads PROVE thread'[t] \in Worker
    <3>1. CASE \E m \in begun : by[m] = t
      BY <3>1, <1>a
    <3>2. CASE ~ \E m \in begun : by[m] = t
      BY <3>2, <1>5
    <3> QED
      BY <3>1, <3>2
  <2>2. DOMAIN thread' = Threads /\ thread' = [t \in Threads |-> thread'[t]]
    BY <1>2
  <2> QED
    BY <2>1, <2>2
<1>7. inFlight' = flying \cup begun
  BY <1>1 DEF Flying
<1>8. reads' \in [Points -> 0 .. MaxReads + 1]
  <2>1. MaxReads \in Nat
    BY PartitionReadingsAssumption DEF MaxReads
  <2> QED
    BY <1>1, <2>1
<1>9. Alone(thread')
  <2> SUFFICES ASSUME NEW t \in Threads, NEW u \in Threads,
                      thread'[t] # Idle, thread'[u] # Idle,
                      thread'[t].mount = thread'[u].mount
               PROVE  t = u
    BY DEF Alone
  <2>1. ASSUME NEW m \in begun, NEW x \in Threads,
               ~ \E n \in begun : by[n] = x, thread'[x] # Idle
        PROVE  thread'[x].mount # m
    BY <2>1, <1>3, <1>5 DEF Flown
  <2>2. CASE (\E m \in begun : by[m] = t) /\ (\E m \in begun : by[m] = u)
    <3>1. PICK m \in begun : by[m] = t /\ thread'[t].mount = m
      BY <2>2, <1>a
    <3>2. PICK n \in begun : by[n] = u /\ thread'[u].mount = n
      BY <2>2, <1>a
    <3> QED
      BY <3>1, <3>2
  <2>3. CASE (\E m \in begun : by[m] = t) /\ ~(\E m \in begun : by[m] = u)
    BY <2>3, <2>1, <1>a
  <2>4. CASE ~(\E m \in begun : by[m] = t) /\ (\E m \in begun : by[m] = u)
    BY <2>4, <2>1, <1>a
  <2>5. CASE ~(\E m \in begun : by[m] = t) /\ ~(\E m \in begun : by[m] = u)
    BY <2>5, <1>5 DEF Alone
  <2> QED
    BY <2>2, <2>3, <2>4, <2>5
<1>10. Flown(thread', inFlight')
  <2>1. ASSUME NEW m \in inFlight'
        PROVE  \E t \in Threads : thread'[t] # Idle /\ thread'[t].mount = m
    <3>1. CASE m \in begun
      <4>1. by[m] \in Threads /\ \E n \in begun : by[n] = by[m]
        BY <3>1, <1>4
      <4>2. PICK n \in begun :
              by[n] = by[m] /\ thread'[by[m]] # Idle /\ thread'[by[m]].mount = n
        BY <4>1, <1>a
      <4>3. n = m
        BY <4>2, <3>1, <1>2
      <4> QED
        BY <4>1, <4>2, <4>3
    <3>2. CASE m \in flying
      <4>1. PICK t \in Threads : workers[t] # Idle /\ workers[t].mount = m
        BY <3>2 DEF Flown
      <4>2. ~ \E n \in begun : by[n] = t
        BY <4>1, <1>4
      <4> QED
        BY <4>1, <4>2, <1>5
    <3> QED
      BY <2>1, <3>1, <3>2, <1>7
  <2>2. ASSUME NEW t \in Threads, thread'[t] # Idle
        PROVE  thread'[t].mount \in inFlight'
    <3>1. CASE \E m \in begun : by[m] = t
      BY <3>1, <1>a, <1>7
    <3>2. CASE ~ \E m \in begun : by[m] = t
      BY <3>2, <2>2, <1>5, <1>7 DEF Flown
    <3> QED
      BY <3>1, <3>2
  <2> QED
    BY <2>1, <2>2, Zenon DEF Flown
<1> QED
  BY <1>3, <1>6, <1>7, <1>8, <1>9, <1>10

-----------------------------------------------------------------------------

\* The in-flight set is exact before the first tick.
THEOREM InitInv == Init => Inv
<1> SUFFICES ASSUME Init PROVE Inv
  OBVIOUS
<1>1. TypeOK
  <2>1. mounts \in Table
    <3>1. ASSUME NEW r \in [fs : Filesystems, at : Points] PROVE <<r>> \in Table
      BY DEF Table
    <3>2. << >> \in Table
      BY DEF Table
    <3>3. \A f \in Filesystems, m \in Points :
             [fs |-> f, at |-> m] \in [fs : Filesystems, at : Points]
      OBVIOUS
    <3> QED
      BY <3>1, <3>2, <3>3 DEF Init
  <2>2. thread \in [Threads -> Worker]
    BY DEF Init, Worker
  <2>3. MaxReads \in Nat
    BY PartitionReadingsAssumption DEF MaxReads
  <2>4. /\ cache \in [Points -> Readings] /\ shown \in [Filesystems -> Readings]
        /\ health \in [Filesystems -> {"ok", "hung", "failing"}]
    BY DEF Init, Readings
  <2>5. /\ age \in [Points -> 0 .. Throttle] /\ since \in 0 .. Period
        /\ changes \in 0 .. MaxChanges
        /\ reads \in [Points -> 0 .. MaxReads + 1]
    BY <2>3, PartitionReadingsAssumption DEF Init
  <2>6. seen \in Table /\ inFlight \subseteq Points
    BY DEF Init, Table
  <2>7. strained \in BOOLEAN
    BY Zenon DEF Init
  <2> QED
    BY <2>1, <2>2, <2>4, <2>5, <2>6, <2>7 DEF TypeOK, Table
<1>2. Alone(thread) /\ Flown(thread, inFlight)
  BY DEF Init, Alone, Flown
<1> QED
  BY <1>1, <1>2 DEF Inv

\* The table without one of its entries is a table.
LEMMA RemovedType ==
    ASSUME NEW table \in Table, NEW i \in 1 .. Len(table)
    PROVE  SubSeq(table, 1, i - 1) \o SubSeq(table, i + 1, Len(table)) \in Table
<1>1. \A j \in 1 .. Len(table) : table[j] \in [fs : Filesystems, at : Points]
  BY ElementOfSeq DEF Table
<1>2. Len(table) \in Nat
  BY DEF Table
<1>3. SubSeq(table, 1, i - 1) \in Table
  BY <1>1, <1>2, SubSeqProperties DEF Table
<1>4. SubSeq(table, i + 1, Len(table)) \in Table
  BY <1>1, <1>2, SubSeqProperties DEF Table
<1> QED
  BY <1>3, <1>4, ConcatProperties DEF Table

\* What a worker's own step does to the worker leaves the accounts alone.
LEMMA WorkerMoves ==
    ASSUME Inv, NEW t \in Threads, thread[t] # Idle,
           NEW w \in Worker, w # Idle, w.mount = thread[t].mount,
           thread' = [thread EXCEPT ![t] = w],
           UNCHANGED <<env, seen, inFlight, cache, age, shown, since, reads>>
    PROVE  Inv'
<1>1. thread' \in [Threads -> Worker]
  BY DEF Inv, TypeOK
<1>2. TypeOK'
  BY <1>1 DEF Inv, TypeOK, env
<1>3. \A u \in Threads :
        /\ thread'[u] # Idle <=> thread[u] # Idle
        /\ thread'[u].mount = thread[u].mount
  BY DEF Inv, TypeOK
<1>4. Alone(thread')
  BY <1>3 DEF Inv, Alone
<1>5. Flown(thread', inFlight')
  BY <1>3 DEF Inv, Flown
<1> QED
  BY <1>2, <1>4, <1>5 DEF Inv

\* What a render leaves to be typed.
LEMMA RenderKeeps ==
    ASSUME NEW table \in Table,
           NEW flying, flying \subseteq Points,
           NEW readings \in [Points -> Readings],
           NEW ages,
           NEW workers \in [Threads -> Worker],
           NEW counts \in [Points -> 0 .. MaxReads + 1],
           Alone(workers), Flown(workers, flying),
           Render(table, flying, readings, ages, workers, counts)
    PROVE  /\ shown' \in [Filesystems -> Readings]
           /\ thread' \in [Threads -> Worker]
           /\ inFlight' \subseteq Points
           /\ reads' \in [Points -> 0 .. MaxReads + 1]
           /\ Alone(thread')
           /\ Flown(thread', inFlight')
<1> DEFINE wanted == {MountFor(f, table) : f \in {g \in Filesystems : Mounted(g, table)}}
<1>1. wanted \subseteq Points
  BY MountForType
<1>2. Request(wanted, flying, ages, workers, counts)
  BY DEF Render
<1>3. shown' \in [Filesystems -> Readings]
  BY MountForType DEF Render, Values, Readings
<1> HIDE DEF wanted
<1> QED
  BY <1>1, <1>2, <1>3, RequestKeeps

\* The surroundings do not touch the reader.
LEMMA SurroundingsKeep == ASSUME Inv, Surroundings PROVE Inv'
<1>1. UNCHANGED <<seen, inFlight, cache, age, thread, shown, since, reads>>
  BY DEF Surroundings, Mount, Unmount, Turn, Strain, Change
<1>2. changes' \in 0 .. MaxChanges
  <2>1. changes < MaxChanges /\ changes' = changes + 1
    BY DEF Surroundings, Mount, Unmount, Turn, Strain, Change
  <2> QED
    BY <2>1, PartitionReadingsAssumption DEF Inv, TypeOK
<1>3. mounts' \in Table
  <2>1. CASE \E f \in Filesystems, m \in Points : Mount(f, m)
    BY <2>1, AppendProperties DEF Mount, Inv, TypeOK, Table
  <2>2. CASE \E i \in 1 .. Len(mounts) : Unmount(i)
    BY <2>2, RemovedType DEF Unmount, Inv, TypeOK, Table
  <2>3. CASE UNCHANGED mounts
    BY <2>3 DEF Inv, TypeOK, Table
  <2> QED
    BY <2>1, <2>2, <2>3 DEF Surroundings, Turn, Strain
<1>4. health' \in [Filesystems -> {"ok", "hung", "failing"}] /\ strained' \in BOOLEAN
  BY PartitionReadingsAssumption
  DEF Surroundings, Mount, Unmount, Turn, Strain, Inv, TypeOK
<1>5. TypeOK'
  BY <1>1, <1>2, <1>3, <1>4 DEF Inv, TypeOK, Table
<1>6. Alone(thread') /\ Flown(thread', inFlight')
  BY <1>1 DEF Inv
<1> QED
  BY <1>5, <1>6 DEF Inv

\* Every step of the ticks, the workers and the filesystems keeps it exact.
THEOREM NextInv == Inv /\ [Next]_vars => Inv'
<1> SUFFICES ASSUME Inv, [Next]_vars PROVE Inv'
  OBVIOUS
<1>1. CASE Surroundings
  BY <1>1, SurroundingsKeep
<1>2. CASE Tick
  <2>1. /\ Render(mounts, inFlight, cache, age, thread, [m \in Points |-> 0])
        /\ seen' = mounts /\ since' = 0
        /\ UNCHANGED <<env, cache, age>>
    BY <1>2 DEF Tick
  <2>2. [m \in Points |-> 0] \in [Points -> 0 .. MaxReads + 1]
    BY PartitionReadingsAssumption DEF MaxReads
  <2>3. /\ shown' \in [Filesystems -> Readings]
        /\ thread' \in [Threads -> Worker]
        /\ inFlight' \subseteq Points
        /\ reads' \in [Points -> 0 .. MaxReads + 1]
        /\ Alone(thread')
        /\ Flown(thread', inFlight')
    BY <2>1, <2>2, RenderKeeps DEF Inv, TypeOK, Table
  <2>4. TypeOK'
    BY <2>1, <2>3, PartitionReadingsAssumption DEF Inv, TypeOK, env
  <2> QED
    BY <2>3, <2>4 DEF Inv
<1>3. CASE Elapse
  <2>1. since' \in 0 .. Period /\ age' \in [Points -> 0 .. Throttle]
    BY <1>3, PartitionReadingsAssumption DEF Elapse, Inv, TypeOK
  <2>2. TypeOK'
    BY <1>3, <2>1 DEF Elapse, Inv, TypeOK, env
  <2> QED
    BY <1>3, <2>2 DEF Elapse, Inv
<1>4. ASSUME NEW t \in Threads, Enter(t) PROVE Inv'
  <2> DEFINE w == [phase |-> "blocked", mount |-> thread[t].mount,
                   reading |-> Top(thread[t].mount, mounts)]
  <2>1. thread[t] \in Worker /\ thread[t] # Idle /\ thread[t].mount \in Points
    <3>1. thread[t] \in Worker /\ thread[t] # Idle
      BY <1>4 DEF Enter, Inv, TypeOK, Idle
    <3> QED
      BY <3>1, BusyMount
  <2>2. Top(thread[t].mount, mounts) \in Readings
    BY <2>1, TopType DEF Inv, TypeOK, Table, Readings
  <2>3. w \in Worker /\ w # Idle /\ w.mount = thread[t].mount
    BY <2>1, <2>2 DEF Worker, Idle
  <2>4. thread' = [thread EXCEPT ![t] = w]
    BY <1>4 DEF Enter
  <2> HIDE DEF w
  <2> QED
    BY <1>4, <2>1, <2>3, <2>4, WorkerMoves DEF Enter
<1>5. ASSUME NEW t \in Threads, Return(t) PROVE Inv'
  <2>1. /\ thread[t] \in Worker /\ thread[t] # Idle /\ thread[t].mount \in Points
        /\ thread[t].reading \in Readings
    BY <1>5 DEF Return, Inv, TypeOK, Worker, Idle
  <2>2. PICK r \in Readings :
          thread' = [thread EXCEPT ![t] =
            [phase |-> "posted", mount |-> thread[t].mount, reading |-> r]]
    BY <1>5, <2>1 DEF Return, Readings
  <2> DEFINE w == [phase |-> "posted", mount |-> thread[t].mount, reading |-> r]
  <2>3. w \in Worker /\ w # Idle /\ w.mount = thread[t].mount
    BY <2>1 DEF Worker, Idle
  <2>4. thread' = [thread EXCEPT ![t] = w]
    BY <2>2
  <2> HIDE DEF w
  <2> QED
    BY <1>5, <2>1, <2>3, <2>4, WorkerMoves DEF Return
<1>6. ASSUME NEW t \in Threads, ReturnMissing(t) PROVE Inv'
  <2>1. thread[t] \in Worker /\ thread[t] # Idle /\ thread[t].mount \in Points
    <3>1. thread[t] \in Worker /\ thread[t] # Idle
      BY <1>6 DEF ReturnMissing, Inv, TypeOK, Idle
    <3> QED
      BY <3>1, BusyMount
  <2> DEFINE w == [phase |-> "posted", mount |-> thread[t].mount,
                   reading |-> NoReading]
  <2>3. w \in Worker /\ w # Idle /\ w.mount = thread[t].mount
    BY <2>1 DEF Worker, Idle, Readings
  <2>4. thread' = [thread EXCEPT ![t] = w]
    BY <1>6 DEF ReturnMissing
  <2> HIDE DEF w
  <2> QED
    BY <1>6, <2>1, <2>3, <2>4, WorkerMoves DEF ReturnMissing
<1>7. ASSUME NEW t \in Threads, StatvfsDone(t) PROVE Inv'
  <2> DEFINE m == thread[t].mount
             rest == [thread EXCEPT ![t] = Idle]
  <2>1. /\ thread[t] \in Worker /\ thread[t] # Idle /\ m \in Points
        /\ thread[t].reading \in Readings
    BY <1>7 DEF StatvfsDone, Inv, TypeOK, Worker, Idle
  <2>2. /\ cache' = [cache EXCEPT ![m] = thread[t].reading]
        /\ age' = [age EXCEPT ![m] = 0]
        /\ Render(seen, inFlight \ {m}, cache', age', rest, reads)
        /\ UNCHANGED <<env, seen, since>>
    BY <1>7 DEF StatvfsDone
  <2>3. /\ cache' \in [Points -> Readings]
        /\ age' \in [Points -> 0 .. Throttle]
    BY <2>1, <2>2, PartitionReadingsAssumption DEF Inv, TypeOK
  <2>4. /\ rest \in [Threads -> Worker]
        /\ rest[t] = Idle
        /\ \A u \in Threads : u # t => rest[u] = thread[u]
    BY DEF Inv, TypeOK, Worker
  <2> HIDE DEF rest
  <2>5. Alone(rest)
    BY <2>4 DEF Inv, Alone
  <2>6. Flown(rest, inFlight \ {m})
    <3>1. ASSUME NEW n \in inFlight, n # m
          PROVE  \E u \in Threads : rest[u] # Idle /\ rest[u].mount = n
      <4>1. PICK u \in Threads : thread[u] # Idle /\ thread[u].mount = n
        BY DEF Inv, Flown
      <4> QED
        BY <4>1, <2>4, <3>1
    <3>2. ASSUME NEW u \in Threads, rest[u] # Idle
          PROVE  rest[u].mount \in inFlight /\ rest[u].mount # m
      <4>1. u # t /\ rest[u] = thread[u]
        BY <3>2, <2>4
      <4>2. rest[u].mount \in inFlight
        BY <4>1, <3>2 DEF Inv, Flown
      <4>3. rest[u].mount # m
        BY <4>1, <3>2, <2>1 DEF Inv, Alone
      <4> QED
        BY <4>2, <4>3
    <3> QED
      BY <3>1, <3>2 DEF Flown
  <2> HIDE DEF m
  <2>7. /\ shown' \in [Filesystems -> Readings]
        /\ thread' \in [Threads -> Worker]
        /\ inFlight' \subseteq Points
        /\ reads' \in [Points -> 0 .. MaxReads + 1]
        /\ Alone(thread')
        /\ Flown(thread', inFlight')
    <3>1. seen \in Table /\ inFlight \ {m} \subseteq Points
          /\ reads \in [Points -> 0 .. MaxReads + 1]
      BY DEF Inv, TypeOK, Table
    <3> QED
      BY <3>1, <2>2, <2>3, <2>4, <2>5, <2>6, RenderKeeps
  <2>8. TypeOK'
    BY <2>2, <2>3, <2>7 DEF Inv, TypeOK, env
  <2> QED
    BY <2>7, <2>8 DEF Inv
<1>8. CASE UNCHANGED vars
  <2>1. TypeOK'
    BY <1>8 DEF vars, Inv, TypeOK
  <2> QED
    BY <1>8, <2>1 DEF vars, Inv
<1> QED
  BY <1>1, <1>2, <1>3, <1>4, <1>5, <1>6, <1>7, <1>8 DEF Next, WorkerStep

\* The in-flight set is exact in every reachable state.
THEOREM InvHolds == Spec => []Inv
<1> QED
  BY InitInv, NextInv, PTL DEF Spec

\* Every variable keeps its type.
THEOREM TypeCorrect == Spec => []TypeOK
<1>1. Inv => TypeOK
  BY DEF Inv
<1> QED
  BY <1>1, InvHolds, PTL

\* However many mounts hang, and whatever is mounted, unmounted or refused a
\* thread meanwhile, no mount point ever has two workers, and one without a
\* worker is never taken for in flight.
THEOREM NoPileHolds == Spec => []NoPile
<1>1. Inv => NoPile
  BY DEF Inv, Alone, Flown, NoPile, Busy
<1> QED
  BY <1>1, InvHolds, PTL

-----------------------------------------------------------------------------

\* Every read but the last since the tick took the throttle's time, and the age
\* of a reading that has landed has passed since it landed.
Paced(flying, ages, counts, elapsed) ==
    \A m \in Points :
        counts[m] # 0 =>
            (counts[m] - 1) * Throttle + (IF m \in flying THEN 0 ELSE ages[m])
                <= elapsed

LEMMA OneMoreRead ==
    ASSUME NEW k \in Nat
    PROVE  (k + 1 - 1) * Throttle = (k - 1) * Throttle + Throttle
  BY PartitionReadingsAssumption

\* What fits between two ticks.
LEMMA ReadsThatFit ==
    ASSUME NEW k \in Nat, k = 0 \/ (k - 1) * Throttle <= Period
    PROVE  k <= MaxReads
<1> DEFINE q == Period \div Throttle
<1>1. q \in Nat /\ Period < q * Throttle + Throttle
  BY PartitionReadingsAssumption
<1>2. ASSUME k > q + 1 PROVE FALSE
  <2>1. (k - 1) \in Nat /\ (k - 1) * Throttle <= Period
    BY <1>1, <1>2
  <2>2. PICK d \in Nat : k - 1 = q + 1 + d
    <3>1. k - 1 - (q + 1) \in Nat /\ k - 1 = q + 1 + (k - 1 - (q + 1))
      BY <1>1, <1>2
    <3> QED
      BY <3>1
  <2>3. (q + 1 + d) * Throttle = q * Throttle + Throttle + d * Throttle
    BY <1>1, PartitionReadingsAssumption
  <2>4. d * Throttle \in Nat
    BY PartitionReadingsAssumption
  <2>5. q * Throttle \in Nat
    BY <1>1, PartitionReadingsAssumption
  <2> HIDE DEF q
  <2> QED
    BY <1>1, <2>1, <2>2, <2>3, <2>4, <2>5, PartitionReadingsAssumption
<1> HIDE DEF q
<1>3. k <= q + 1
  BY <1>1, <1>2
<1> QED
  BY <1>3 DEF MaxReads, q

\* A request adds a read only where none is in flight and the last has aged.
LEMMA RequestPaced ==
    ASSUME NEW wanted, wanted \subseteq Points,
           NEW flying,
           NEW ages \in [Points -> 0 .. Throttle],
           NEW workers,
           NEW counts \in [Points -> 0 .. MaxReads + 1],
           NEW elapsed \in Nat,
           Paced(flying, ages, counts, elapsed),
           Request(wanted, flying, ages, workers, counts)
    PROVE  Paced(inFlight', ages, reads', elapsed)
<1>1. PICK begun \in SUBSET {m \in wanted : Due(m, flying, ages)} :
        /\ inFlight' = flying \cup begun
        /\ reads' = [m \in Points |->
               IF m \in begun /\ counts[m] <= MaxReads THEN counts[m] + 1
               ELSE counts[m]]
  BY Zenon DEF Request, Flying
<1> SUFFICES ASSUME NEW m \in Points, reads'[m] # 0
             PROVE  (reads'[m] - 1) * Throttle
                      + (IF m \in inFlight' THEN 0 ELSE ages[m]) <= elapsed
  BY DEF Paced
<1>2. Throttle \in Nat /\ MaxReads \in Nat
  BY PartitionReadingsAssumption DEF MaxReads
<1>3. counts[m] \in Nat /\ ages[m] \in 0 .. Throttle
  BY <1>2
<1>4. CASE m \in begun /\ counts[m] <= MaxReads
  <2>1. reads'[m] = counts[m] + 1 /\ m \in inFlight'
    BY <1>1, <1>4
  <2>2. m \notin flying /\ ages[m] = Throttle
    BY <1>1, <1>3, <1>4, <1>2 DEF Due
  <2>3. CASE counts[m] = 0
    BY <2>1, <2>3, <1>2
  <2>4. CASE counts[m] # 0
    <3>1. (counts[m] - 1) * Throttle + Throttle <= elapsed
      BY <2>2, <2>4 DEF Paced
    <3>2. (counts[m] + 1 - 1) * Throttle = (counts[m] - 1) * Throttle + Throttle
      BY <1>3, OneMoreRead
    <3>3. (counts[m] + 1 - 1) * Throttle \in Int
      BY <1>2, <1>3
    <3> QED
      BY <2>1, <3>1, <3>2, <3>3
  <2> QED
    BY <2>3, <2>4
<1>5. CASE ~(m \in begun /\ counts[m] <= MaxReads)
  <2>1. reads'[m] = counts[m]
    BY <1>1, <1>5
  <2>2. (counts[m] - 1) * Throttle
          + (IF m \in flying THEN 0 ELSE ages[m]) <= elapsed
    BY <2>1 DEF Paced
  <2>3. (counts[m] - 1) * Throttle \in Int
    BY <1>2, <1>3
  <2>4. (IF m \in inFlight' THEN 0 ELSE ages[m])
          <= (IF m \in flying THEN 0 ELSE ages[m])
    BY <1>1, <1>2, <1>3
  <2>5. /\ (IF m \in inFlight' THEN 0 ELSE ages[m]) \in Int
        /\ (IF m \in flying THEN 0 ELSE ages[m]) \in Int
    BY <1>2, <1>3
  <2> QED
    BY <2>1, <2>2, <2>3, <2>4, <2>5
<1> QED
  BY <1>4, <1>5

\* The reads since the tick keep the throttle's pace: the inductive invariant.
PaceInv == Inv /\ Paced(inFlight, age, reads, since)

LEMMA PaceStep == PaceInv /\ [Next]_vars => PaceInv'
<1> SUFFICES ASSUME PaceInv, [Next]_vars
             PROVE  Paced(inFlight', age', reads', since')
  BY NextInv DEF PaceInv
<1> USE DEF PaceInv
<1>t. /\ Throttle \in Nat \ {0} /\ Period \in Nat /\ MaxReads \in Nat
      /\ since \in Nat
      /\ reads \in [Points -> 0 .. MaxReads + 1]
      /\ age \in [Points -> 0 .. Throttle]
  BY PartitionReadingsAssumption DEF MaxReads, Inv, TypeOK
<1>1. CASE UNCHANGED <<inFlight, age, reads, since>>
  BY <1>1 DEF Paced
<1>2. CASE Tick
  <2> DEFINE none == [m \in Points |-> 0]
             wanted == {MountFor(f, mounts) : f \in {g \in Filesystems : Mounted(g, mounts)}}
  <2>1. /\ Request(wanted, inFlight, age, thread, none)
        /\ since' = 0 /\ age' = age
    BY <1>2 DEF Tick, Render
  <2>2. none \in [Points -> 0 .. MaxReads + 1]
    BY <1>t
  <2>3. Paced(inFlight, age, none, 0)
    BY DEF Paced
  <2>4. wanted \subseteq Points
    BY MountForType DEF Inv, TypeOK, Table
  <2> HIDE DEF none, wanted
  <2> QED
    BY <1>t, <2>1, <2>2, <2>3, <2>4, RequestPaced
<1>3. CASE Elapse
  <2> SUFFICES ASSUME NEW m \in Points, reads'[m] # 0
               PROVE  (reads'[m] - 1) * Throttle
                        + (IF m \in inFlight' THEN 0 ELSE age'[m]) <= since'
    BY DEF Paced
  <2>1. reads' = reads /\ inFlight' = inFlight /\ since' = since + 1
    BY <1>3 DEF Elapse
  <2>2. age'[m] \in Nat /\ age[m] \in Nat /\ age'[m] <= age[m] + 1
    BY <1>3, <1>t DEF Elapse
  <2>3. (reads[m] - 1) * Throttle \in Int
    BY <1>t
  <2>4. (reads[m] - 1) * Throttle + (IF m \in inFlight THEN 0 ELSE age[m]) <= since
    BY <2>1 DEF Paced
  <2>5. CASE m \in inFlight
    BY <2>1, <2>3, <2>4, <2>5, <1>t
  <2>6. CASE m \notin inFlight
    BY <2>1, <2>2, <2>3, <2>4, <2>6, <1>t
  <2> QED
    BY <2>5, <2>6
<1>4. ASSUME NEW t \in Threads, StatvfsDone(t)
      PROVE  Paced(inFlight', age', reads', since')
  <2> DEFINE m == thread[t].mount
             rest == [thread EXCEPT ![t] = Idle]
             wanted == {MountFor(f, seen) : f \in {g \in Filesystems : Mounted(g, seen)}}
  <2>1. m \in Points
    BY <1>4 DEF StatvfsDone, Inv, TypeOK, Worker, Idle
  <2>2. /\ age' = [age EXCEPT ![m] = 0]
        /\ Request(wanted, inFlight \ {m}, age', rest, reads)
        /\ since' = since
    BY <1>4 DEF StatvfsDone, Render
  <2>3. m \in inFlight
    BY <1>4 DEF StatvfsDone, Inv, Flown, Idle
  <2>4. wanted \subseteq Points
    BY MountForType DEF Inv, TypeOK, Table
  <2> HIDE DEF m, rest, wanted
  <2>5. age' \in [Points -> 0 .. Throttle]
    <3>1. 0 \in 0 .. Throttle
      BY <1>t
    <3>2. age' = [age EXCEPT ![m] = 0]
      BY <2>2
    <3> QED
      BY <3>1, <3>2, <2>1, <1>t
  <2>6. Paced(inFlight \ {m}, age', reads, since)
    BY <2>1, <2>2, <2>3, <1>t DEF Paced
  <2> QED
    BY <1>t, <2>2, <2>4, <2>5, <2>6, RequestPaced
<1>5. ASSUME NEW t \in Threads, Enter(t) \/ Return(t) \/ ReturnMissing(t)
      PROVE  UNCHANGED <<inFlight, age, reads, since>>
  BY <1>5 DEF Enter, Return, ReturnMissing
<1>6. ASSUME Surroundings PROVE UNCHANGED <<inFlight, age, reads, since>>
  BY <1>6 DEF Surroundings, Mount, Unmount, Turn, Strain, Change
<1>7. ASSUME UNCHANGED vars PROVE UNCHANGED <<inFlight, age, reads, since>>
  BY <1>7 DEF vars
<1> QED
  BY <1>1, <1>2, <1>3, <1>4, <1>5, <1>6, <1>7 DEF Next, WorkerStep

\* However often results land and render the rings again, a mount point is read
\* no more often between two ticks than the throttle allows, whatever the
\* periods.
THEOREM NoSpinHolds == Spec => []NoSpin
<1>1. Init => PaceInv
  BY InitInv DEF PaceInv, Init, Paced
<1>2. PaceInv => NoSpin
  <2> SUFFICES ASSUME PaceInv, NEW m \in Points PROVE reads[m] <= MaxReads
    BY DEF NoSpin
  <2>1. /\ reads[m] \in Nat /\ since \in Nat /\ since <= Period
        /\ Throttle \in Nat /\ age[m] \in Nat /\ Period \in Nat
    BY PartitionReadingsAssumption DEF PaceInv, Inv, TypeOK, MaxReads
  <2>2. (reads[m] - 1) * Throttle \in Int
    BY <2>1
  <2>3. reads[m] = 0 \/ (reads[m] - 1) * Throttle <= Period
    <3>1. CASE reads[m] # 0 /\ m \in inFlight
      BY <3>1, <2>1, <2>2 DEF PaceInv, Paced
    <3>2. CASE reads[m] # 0 /\ m \notin inFlight
      BY <3>2, <2>1, <2>2 DEF PaceInv, Paced
    <3> QED
      BY <3>1, <3>2
  <2> QED
    BY <2>1, <2>3, ReadsThatFit
<1> QED
  BY <1>1, <1>2, PaceStep, PTL DEF Spec

-----------------------------------------------------------------------------
(***************************************************************************)
(* Second part: PartitionSettings.                                         *)
(***************************************************************************)

\* The steps that the proofs split PageNext into.
LEMMA Steps ==
    ASSUME PageNext
    PROVE  \/ Open \/ Close \/ Apply \/ Settle
           \/ \E mounted \in SUBSET Ids : \E found \in SUBSET mounted :
                 Discover(mounted, found)
           \/ ToggleMetric \/ Reorder
           \/ \E i \in Ids : TogglePartition(i) \/ SetColor(i) \/ ClearColor(i) \/ Trash(i)
  BY DEF PageNext

-----------------------------------------------------------------------------
(***************************************************************************)
(* The maps.                                                               *)
(***************************************************************************)

\* What a map settles to has the keys of the recomputed map.
LEMMA SettledKeys ==
    ASSUME NEW current, NEW next, Never \notin next
    PROVE  Keys(Settled(current, next)) = next
  BY DEF Keys, Settled, Unset

LEMMA SettledType ==
    ASSUME NEW current \in Map, NEW next \in SUBSET Ids
    PROVE  Settled(current, next) \in Map
  BY DEF Settled, Map

LEMMA KeysType ==
    ASSUME NEW map \in Map
    PROVE  Keys(map) \subseteq Ids
  BY DEF Keys, Map, Unset

LEMMA ReferencedType ==
    ASSUME NEW p \in Config
    PROVE  Referenced(p) \subseteq Ids
  BY DEF Referenced, Config

LEMMA LabelsMergedType ==
    ASSUME NEW map \in Map, NEW p \in Config, NEW found \in SUBSET Ids
    PROVE  /\ LabelsMerged(map, p, found) \in Map
           /\ Keys(LabelsMerged(map, p, found))
                = (Keys(map) \cup found) \cap Referenced(p)
<1> DEFINE next == (Keys(map) \cup found) \cap Referenced(p)
<1>1. next \in SUBSET Ids
  BY ReferencedType
<1>2. Never \notin next
  BY <1>1, PartitionSettingsAssumption
<1> HIDE DEF next
<1>3. Keys(Settled(map, next)) = next
  BY <1>2, SettledKeys
<1>4. Settled(map, next) \in Map
  BY <1>1, SettledType
<1> QED BY <1>3, <1>4 DEF next, LabelsMerged

LEMMA ColorsPrunedType ==
    ASSUME NEW map \in Map, NEW p, NEW found, NEW settled
    PROVE  /\ ColorsPruned(map, p, found, settled) \in Map
           /\ Keys(ColorsPruned(map, p, found, settled)) \subseteq Keys(map)
           /\ \A i \in Keys(map) \ Keys(ColorsPruned(map, p, found, settled)) :
                 settled /\ found # {} /\ i \notin Referenced(p) \cup found
<1> DEFINE next == Keys(map) \cap (Referenced(p) \cup found)
<1>1. next \in SUBSET Ids
  BY KeysType
<1>2. Never \notin next
  BY <1>1, PartitionSettingsAssumption
<1>3. \A i \in Keys(map) \ next : i \notin Referenced(p) \cup found
  OBVIOUS
<1>4. next \subseteq Keys(map)
  OBVIOUS
<1>5. ColorsPruned(map, p, found, settled)
        = IF settled /\ found # {} THEN Settled(map, next) ELSE map
  BY DEF ColorsPruned
<1> HIDE DEF next
<1>6. CASE settled /\ found # {}
  <2>1. ColorsPruned(map, p, found, settled) = Settled(map, next)
    BY <1>5, <1>6
  <2>2. Keys(Settled(map, next)) = next
    BY <1>2, SettledKeys
  <2>3. Settled(map, next) \in Map
    BY <1>1, SettledType
  <2> QED BY <1>3, <1>4, <1>6, <2>1, <2>2, <2>3
<1>7. CASE ~(settled /\ found # {})
  BY <1>5, <1>7
<1> QED BY <1>6, <1>7

-----------------------------------------------------------------------------
(***************************************************************************)
(* Types.                                                                  *)
(***************************************************************************)

LEMMA TypeInit == PageInit => PageTypeOK
<1> SUFFICES ASSUME PageInit PROVE PageTypeOK
  OBVIOUS
<1>1. Unset \in Map
  BY DEF Map
<1>2. store \in Config
  BY <1>1 DEF PageInit, Config
<1>3. gestures \in 0 .. Gestures
  BY PartitionSettingsAssumption DEF PageInit
<1>4. page \in Config
  BY <1>2 DEF PageInit
<1>5. stagedLabels \in Map /\ stagedColors \in Map
  BY <1>1 DEF PageInit
<1>6. /\ present \subseteq Ids /\ discovered \subseteq present
      /\ removable \subseteq discovered
      /\ open \in BOOLEAN /\ ready \in BOOLEAN /\ touched \in BOOLEAN
      /\ host \in {"plasma", "standalone"}
  BY DEF PageInit
<1> QED BY <1>2, <1>3, <1>4, <1>5, <1>6 DEF PageTypeOK

LEMMA SeededType ==
    ASSUME NEW p \in Config
    PROVE  Seeded(p) \in Config /\ Referenced(p) \subseteq Referenced(Seeded(p))
<1>1. CASE p.enabled = {} /\ host = "standalone"
  <2>1. Seeded(p) = [p EXCEPT !.enabled = {Home}]
    BY <1>1 DEF Seeded
  <2> QED BY <1>1, <2>1, PartitionSettingsAssumption DEF Config, Referenced
<1>2. CASE ~(p.enabled = {} /\ host = "standalone")
  BY <1>2 DEF Seeded
<1> QED BY <1>1, <1>2

\* What every gesture does to the types and to the maps it stages and writes.
LEMMA GestureFacts ==
    ASSUME PageTypeOK, NEW p \in Config, NEW c \in Map, Gesture(p, c)
    PROVE  /\ PageTypeOK'
           /\ open' /\ touched' = TRUE /\ UNCHANGED <<host, present, discovered, ready>>
           /\ Referenced(page') = Referenced(p)
           /\ Keys(stagedLabels') = (Keys(stagedLabels) \cup discovered) \cap Referenced(p)
           /\ Keys(page'.labels) = Keys(stagedLabels')
           /\ stagedColors' = ColorsPruned(c, p, discovered, ready)
           /\ WriteBack
<1> DEFINE l == LabelsMerged(stagedLabels, p, discovered)
           k == ColorsPruned(c, p, discovered, ready)
<1>1. discovered \in SUBSET Ids
  BY DEF PageTypeOK
<1>2. /\ l \in Map
      /\ Keys(l) = (Keys(stagedLabels) \cup discovered) \cap Referenced(p)
  BY <1>1, LabelsMergedType DEF PageTypeOK
<1>3. k \in Map
  BY ColorsPrunedType
<1>4. stagedLabels' = l /\ stagedColors' = k
  BY DEF Gesture
<1>5. p.labels \in Map /\ p.colors \in Map
  BY DEF Config
<1>6. page' = [p EXCEPT !.labels = Settled(p.labels, l), !.colors = Settled(p.colors, k)]
  BY <1>4 DEF Gesture
<1> HIDE DEF l, k
<1>7. Settled(p.labels, l) \in Map /\ Settled(p.colors, k) \in Map
  BY <1>2, <1>3, <1>5 DEF Settled
<1>8. page' \in Config /\ Referenced(page') = Referenced(p)
  BY <1>6, <1>7 DEF Config, Referenced
<1>9. Keys(page'.labels) = Keys(stagedLabels')
  <2>1. page'.labels = Settled(p.labels, l)
    BY <1>6 DEF Config
  <2>2. Keys(Settled(p.labels, l)) = Keys(l)
    BY DEF Settled, Keys
  <2> QED BY <1>4, <2>1, <2>2
<1>10. store' \in Config
  BY <1>8 DEF Gesture, WriteBack, PageTypeOK
<1>11. gestures' \in 0 .. Gestures
  BY PartitionSettingsAssumption DEF Gesture, PageTypeOK
<1>12. PageTypeOK'
  BY <1>2, <1>3, <1>4, <1>8, <1>10, <1>11 DEF Gesture, PageTypeOK, world
<1> QED BY <1>2, <1>4, <1>8, <1>9, <1>12 DEF Gesture, k, world

\* The gestures of the page, each a Gesture of a configuration.
LEMMA GestureArguments ==
    ASSUME PageTypeOK
    PROVE  /\ page \in Config /\ stagedColors \in Map
           /\ [page EXCEPT !.order = discovered] \in Config
           /\ \A i \in Ids :
                 /\ [page EXCEPT !.enabled = page.enabled \ {i},
                                 !.optOut = With(page.optOut, i, Checked(i))] \in Config
                 /\ [page EXCEPT !.enabled = With(page.enabled, i, ~Checked(i))] \in Config
                 /\ Dropped(i) \in Config
                 /\ Keys(stagedColors) \cup {i} \in Map
                 /\ Keys(stagedColors) \ {i} \in Map
<1>1. page \in Config /\ stagedColors \in Map /\ discovered \subseteq Ids
  BY DEF PageTypeOK
<1>2. Keys(stagedColors) \subseteq Ids
  BY <1>1, KeysType
<1>3. \A i \in Ids : Keys(stagedColors) \cup {i} \in Map /\ Keys(stagedColors) \ {i} \in Map
  BY <1>2 DEF Map
<1>4. \A i \in Ids : \A set \in SUBSET Ids : \A on : With(set, i, on) \in SUBSET Ids
  BY DEF With
<1>5. page.enabled \in SUBSET Ids /\ page.optOut \in SUBSET Ids
  BY <1>1 DEF Config
<1>6. [page EXCEPT !.order = discovered] \in Config
  BY <1>1 DEF Config
<1>7. ASSUME NEW i \in Ids
      PROVE  /\ [page EXCEPT !.enabled = page.enabled \ {i},
                             !.optOut = With(page.optOut, i, Checked(i))] \in Config
             /\ [page EXCEPT !.enabled = With(page.enabled, i, ~Checked(i))] \in Config
             /\ Dropped(i) \in Config
  <2>1. /\ With(page.optOut, i, Checked(i)) \in SUBSET Ids
        /\ With(page.enabled, i, ~Checked(i)) \in SUBSET Ids
    BY <1>4, <1>5
  <2> QED BY <1>1, <2>1 DEF Config, Dropped
<1> QED BY <1>1, <1>3, <1>6, <1>7

\* Every gesture leaves the page as some configuration and stages some colors.
LEMMA AGesture ==
    ASSUME PageTypeOK,
           \/ ToggleMetric \/ Reorder
           \/ \E i \in Ids : TogglePartition(i) \/ SetColor(i) \/ ClearColor(i) \/ Trash(i)
    PROVE  \E p \in Config, c \in Map :
              /\ Gesture(p, c)
              /\ \A i \in Keys(stagedColors) \ Keys(c) : ClearColor(i) \/ Trash(i)
<1>1. CASE ToggleMetric
  BY <1>1, GestureArguments DEF ToggleMetric
<1>2. CASE Reorder
  BY <1>2, GestureArguments DEF Reorder
<1>3. ASSUME NEW i \in Ids, TogglePartition(i)
      PROVE  \E p \in Config, c \in Map :
                Gesture(p, c) /\ \A j \in Keys(stagedColors) \ Keys(c) : FALSE
  <2>1. CASE i \in removable
    <3>1. Gesture([page EXCEPT !.enabled = page.enabled \ {i},
                               !.optOut = With(page.optOut, i, Checked(i))], stagedColors)
      BY <1>3, <2>1 DEF TogglePartition
    <3> QED BY <3>1, GestureArguments
  <2>2. CASE i \notin removable
    <3>1. Gesture([page EXCEPT !.enabled = With(page.enabled, i, ~Checked(i))], stagedColors)
      BY <1>3, <2>2 DEF TogglePartition
    <3> QED BY <3>1, GestureArguments
  <2> QED BY <2>1, <2>2
<1>4. ASSUME NEW i \in Ids, SetColor(i)
      PROVE  \E p \in Config, c \in Map :
                Gesture(p, c) /\ \A j \in Keys(stagedColors) \ Keys(c) : FALSE
  <2>1. Gesture(page, Keys(stagedColors) \cup {i})
    BY <1>4 DEF SetColor
  <2>2. \A j \in Keys(stagedColors) \ Keys(Keys(stagedColors) \cup {i}) : FALSE
    BY DEF Keys
  <2> QED BY <2>1, <2>2, GestureArguments
<1>5. ASSUME NEW i \in Ids, NEW p \in Config, Gesture(p, Keys(stagedColors) \ {i}),
             ClearColor(i) \/ Trash(i)
      PROVE  \E q \in Config, c \in Map :
                /\ Gesture(q, c)
                /\ \A j \in Keys(stagedColors) \ Keys(c) : ClearColor(j) \/ Trash(j)
  <2>1. \A j \in Keys(stagedColors) \ Keys(Keys(stagedColors) \ {i}) : j = i
    BY DEF Keys
  <2> QED BY <1>5, <2>1, GestureArguments
<1>6. ASSUME NEW i \in Ids, ClearColor(i)
      PROVE  Gesture(page, Keys(stagedColors) \ {i})
  BY <1>6 DEF ClearColor
<1>7. ASSUME NEW i \in Ids, Trash(i)
      PROVE  Gesture(Dropped(i), Keys(stagedColors) \ {i})
  BY <1>7 DEF Trash
<1>8. \A i \in Ids : page \in Config /\ Dropped(i) \in Config
  BY GestureArguments
<1>9. ASSUME NEW i \in Ids, ClearColor(i) \/ Trash(i)
      PROVE  \E q \in Config, c \in Map :
                /\ Gesture(q, c)
                /\ \A j \in Keys(stagedColors) \ Keys(c) : ClearColor(j) \/ Trash(j)
  BY <1>5, <1>6, <1>7, <1>8, <1>9
<1> QED BY <1>1, <1>2, <1>3, <1>4, <1>9

\* What discovery does to the types and the maps.
LEMMA DiscoverFacts ==
    ASSUME PageTypeOK, NEW mounted \in SUBSET Ids, NEW found \in SUBSET mounted,
           Discover(mounted, found)
    PROVE  /\ PageTypeOK'
           /\ open /\ open' /\ UNCHANGED <<host, ready, touched>>
           /\ page' = Seeded(page)
           /\ present' = mounted /\ discovered' = found
           /\ ready => found = mounted
           /\ Keys(stagedLabels')
                = (Keys(stagedLabels) \cup found) \cap Referenced(page')
           /\ stagedColors' = ColorsPruned(stagedColors, page', found, ready)
           /\ WriteBack
<1>1. page' = Seeded(page) /\ discovered' = found /\ present' = mounted
  BY DEF Discover, Listed, Kept
<1>2. page' \in Config
  BY <1>1, SeededType DEF PageTypeOK
<1>3. stagedLabels' = LabelsMerged(stagedLabels, page', found)
  BY <1>1 DEF Discover
<1>4. stagedColors' = ColorsPruned(stagedColors, page', found, ready)
  BY <1>1 DEF Discover
<1>5. /\ stagedLabels' \in Map
      /\ Keys(stagedLabels') = (Keys(stagedLabels) \cup found) \cap Referenced(page')
  BY <1>2, <1>3, LabelsMergedType DEF PageTypeOK
<1>6. stagedColors' \in Map
  BY <1>4, ColorsPrunedType DEF PageTypeOK
<1>7. store' \in Config
  BY <1>2 DEF Discover, WriteBack, PageTypeOK
<1>8. removable' \subseteq discovered'
  BY <1>1 DEF Discover
<1>9. PageTypeOK'
  BY <1>1, <1>2, <1>5, <1>6, <1>7, <1>8 DEF Discover, PageTypeOK
<1> QED BY <1>1, <1>4, <1>5, <1>9 DEF Discover

LEMMA OpenType ==
    ASSUME PageTypeOK, Open
    PROVE  PageTypeOK'
<1>1. stagedLabels' \in Map
  <2>1. stagedLabels' = LabelsMerged(store.labels, store, {})
    BY DEF Open
  <2>2. store.labels \in Map /\ store \in Config
    BY DEF PageTypeOK, Config
  <2> QED BY <2>1, <2>2, LabelsMergedType
<1>2. stagedColors' \in Map /\ page' \in Config
  BY DEF Open, PageTypeOK, Config
<1> QED BY <1>1, <1>2 DEF Open, PageTypeOK

LEMMA CloseType ==
    ASSUME PageTypeOK, Close
    PROVE  PageTypeOK'
<1>1. stagedLabels' \in Map /\ stagedColors' \in Map
  BY DEF Close, Map
<1>2. page' \in Config /\ store' \in Config
  BY DEF Close, PageTypeOK
<1> QED BY <1>1, <1>2 DEF Close, PageTypeOK

LEMMA TypeStep == PageTypeOK /\ [PageNext]_pageVars => PageTypeOK'
<1> SUFFICES ASSUME PageTypeOK, [PageNext]_pageVars PROVE PageTypeOK'
  OBVIOUS
<1>1. CASE Open
  BY <1>1, OpenType
<1>2. CASE Close
  BY <1>2, CloseType
<1>3. CASE Apply
  BY <1>3 DEF Apply, PageTypeOK, staged, world
<1>4. CASE Settle
  BY <1>4 DEF Settle, PageTypeOK, staged, world
<1>5. CASE \E mounted \in SUBSET Ids : \E found \in SUBSET mounted : Discover(mounted, found)
  BY <1>5, DiscoverFacts
<1>6. CASE \/ ToggleMetric \/ Reorder
           \/ \E i \in Ids : TogglePartition(i) \/ SetColor(i) \/ ClearColor(i) \/ Trash(i)
  <2>1. PICK p \in Config, c \in Map : Gesture(p, c)
    BY <1>6, AGesture
  <2> QED BY <2>1, GestureFacts
<1>7. CASE UNCHANGED pageVars
  BY <1>7 DEF pageVars, PageTypeOK, staged, world
<1> QED BY <1>1, <1>2, <1>3, <1>4, <1>5, <1>6, <1>7, Steps

\* Every variable of the settings page keeps its type, for any partitions and
\* any number of gestures.
THEOREM PageTypeCorrect == PageSpec => []PageTypeOK
<1> QED BY TypeInit, TypeStep, PTL DEF PageSpec

-----------------------------------------------------------------------------
(***************************************************************************)
(* Apply stays disabled.                                                   *)
(***************************************************************************)

\* No step makes the untouched page differ from the stored configuration.
LEMMA CleanStep == PageTypeOK /\ CleanUntilTouched /\ [PageNext]_pageVars => CleanUntilTouched'
<1> SUFFICES ASSUME PageTypeOK, CleanUntilTouched, [PageNext]_pageVars,
                    host' = "plasma", ~touched'
             PROVE  page' = store'
  BY DEF CleanUntilTouched
<1>1. CASE Open
  BY <1>1 DEF Open
<1>2. CASE Close
  BY <1>2 DEF Close
<1>3. CASE Apply
  BY <1>3 DEF Apply
<1>4. CASE Settle
  BY <1>4 DEF Settle, CleanUntilTouched
<1>5. ASSUME NEW mounted \in SUBSET Ids, NEW found \in SUBSET mounted,
             Discover(mounted, found)
      PROVE  page' = store'
  <2>1. UNCHANGED <<host, touched>> /\ page' = Seeded(page) /\ WriteBack
    BY <1>5, DiscoverFacts
  <2>2. host = "plasma" /\ page = store
    BY <2>1 DEF CleanUntilTouched
  <2> QED BY <2>1, <2>2 DEF Seeded, WriteBack
<1>6. CASE \/ ToggleMetric \/ Reorder
           \/ \E i \in Ids : TogglePartition(i) \/ SetColor(i) \/ ClearColor(i) \/ Trash(i)
  <2>1. PICK p \in Config, c \in Map : Gesture(p, c)
    BY <1>6, AGesture
  <2> QED BY <2>1, GestureFacts
<1>7. CASE UNCHANGED pageVars
  BY <1>7 DEF pageVars, CleanUntilTouched
<1> QED BY <1>1, <1>2, <1>3, <1>4, <1>5, <1>6, <1>7, Steps

\* On Plasma no discovery, however it goes, makes an untouched settings page
\* differ from the stored configuration.
THEOREM CleanUntilTouchedHolds == PageSpec => []CleanUntilTouched
<1>1. PageInit => CleanUntilTouched
  BY DEF PageInit, CleanUntilTouched
<1> QED BY <1>1, PageTypeCorrect, CleanStep, PTL DEF PageSpec

-----------------------------------------------------------------------------
(***************************************************************************)
(* The label caches are bounded.                                           *)
(***************************************************************************)

\* The bridged cache is what reaches the store, so it is bounded as well.
LabelsIInv ==
    /\ LabelsBounded
    /\ Keys(page.labels) \subseteq Referenced(page)
    /\ open /\ host = "standalone" => store = page

LEMMA LabelsInit == PageInit => LabelsIInv
  BY DEF PageInit, LabelsIInv, LabelsBounded, Keys

LEMMA LabelsStep == PageTypeOK /\ LabelsIInv /\ [PageNext]_pageVars => LabelsIInv'
<1> SUFFICES ASSUME PageTypeOK, LabelsIInv, [PageNext]_pageVars PROVE LabelsIInv'
  OBVIOUS
<1>1. CASE Open
  <2>1. Keys(stagedLabels') \subseteq Referenced(page')
    <3>1. stagedLabels' = LabelsMerged(store.labels, store, {}) /\ page' = store
      BY <1>1 DEF Open
    <3>2. store.labels \in Map /\ store \in Config
      BY DEF PageTypeOK, Config
    <3> QED BY <3>1, <3>2, LabelsMergedType
  <2> QED BY <1>1, <2>1 DEF Open, LabelsIInv, LabelsBounded
<1>2. CASE Close
  BY <1>2 DEF Close, LabelsIInv, LabelsBounded
<1>3. CASE Apply
  BY <1>3 DEF Apply, LabelsIInv, LabelsBounded, staged
<1>4. CASE Settle
  BY <1>4 DEF Settle, LabelsIInv, LabelsBounded, staged
<1>5. ASSUME NEW mounted \in SUBSET Ids, NEW found \in SUBSET mounted,
             Discover(mounted, found)
      PROVE  LabelsIInv'
  <2>1. page' = Seeded(page) /\ UNCHANGED host /\ WriteBack /\ open /\ open'
    BY <1>5, DiscoverFacts
  <2>2. Keys(stagedLabels') \subseteq Referenced(page')
    BY <1>5, DiscoverFacts
  <2>3. page'.labels = page.labels
    BY <2>1 DEF Seeded, PageTypeOK, Config
  <2>4. Referenced(page) \subseteq Referenced(page')
    BY <2>1, SeededType DEF PageTypeOK
  <2>5. Keys(page'.labels) \subseteq Referenced(page')
    BY <2>3, <2>4 DEF LabelsIInv
  <2> QED BY <2>1, <2>2, <2>5 DEF WriteBack, LabelsIInv, LabelsBounded
<1>6. CASE \/ ToggleMetric \/ Reorder
           \/ \E i \in Ids : TogglePartition(i) \/ SetColor(i) \/ ClearColor(i) \/ Trash(i)
  <2>1. PICK p \in Config, c \in Map : Gesture(p, c)
    BY <1>6, AGesture
  <2>2. /\ Keys(stagedLabels') \subseteq Referenced(page')
        /\ Keys(page'.labels) = Keys(stagedLabels')
        /\ open' /\ UNCHANGED host /\ WriteBack
    BY <2>1, GestureFacts
  <2> QED BY <2>2 DEF WriteBack, LabelsIInv, LabelsBounded
<1>7. CASE UNCHANGED pageVars
  BY <1>7 DEF pageVars, LabelsIInv, LabelsBounded, staged
<1> QED BY <1>1, <1>2, <1>3, <1>4, <1>5, <1>6, <1>7, Steps

\* The label caches never hold a partition that neither list refers to, on the
\* page and in the store, however discovery and gestures interleave.
THEOREM LabelsBoundedHolds == PageSpec => []LabelsBounded
<1>1. LabelsIInv => LabelsBounded
  BY DEF LabelsIInv
<1> QED BY <1>1, PageTypeCorrect, LabelsInit, LabelsStep, PTL DEF PageSpec

-----------------------------------------------------------------------------
(***************************************************************************)
(* Colors.                                                                 *)
(***************************************************************************)

\* Once discovery has settled, what it lists is all there is.
Settled_IsAll == open /\ ready /\ discovered # {} => discovered = present

LEMMA IsAllStep == PageTypeOK /\ Settled_IsAll /\ [PageNext]_pageVars => Settled_IsAll'
<1> SUFFICES ASSUME PageTypeOK, Settled_IsAll, [PageNext]_pageVars PROVE Settled_IsAll'
  OBVIOUS
<1>1. CASE Open \/ Close \/ Settle
  BY <1>1 DEF Open, Close, Settle, Settled_IsAll, world
<1>2. CASE Apply
  BY <1>2 DEF Apply, Settled_IsAll, world
<1>3. CASE \E mounted \in SUBSET Ids : \E found \in SUBSET mounted : Discover(mounted, found)
  BY <1>3, DiscoverFacts DEF Settled_IsAll
<1>4. CASE \/ ToggleMetric \/ Reorder
           \/ \E i \in Ids : TogglePartition(i) \/ SetColor(i) \/ ClearColor(i) \/ Trash(i)
  <2>1. PICK p \in Config, c \in Map : Gesture(p, c)
    BY <1>4, AGesture
  <2>2. open
    BY <2>1 DEF Gesture
  <2> QED BY <2>1, <2>2, GestureFacts DEF Settled_IsAll
<1>5. CASE UNCHANGED pageVars
  BY <1>5 DEF pageVars, Settled_IsAll, world
<1> QED BY <1>1, <1>2, <1>3, <1>4, <1>5, Steps

\* What a step of an open page may do to its colors.
ColorsStep ==
    open /\ open' =>
      \A i \in Keys(stagedColors) \ Keys(stagedColors') :
         \/ ClearColor(i) \/ Trash(i)
         \/ i \notin present' \cup Referenced(page')

LEMMA ColorsStepHolds == PageTypeOK /\ Settled_IsAll /\ [PageNext]_pageVars => [ColorsStep]_pageVars
<1> SUFFICES ASSUME PageTypeOK, Settled_IsAll, PageNext, open, open',
                    NEW i \in Keys(stagedColors) \ Keys(stagedColors')
             PROVE  \/ ClearColor(i) \/ Trash(i)
                    \/ i \notin present' \cup Referenced(page')
  BY DEF ColorsStep
<1>1. CASE Open \/ Close
  BY <1>1 DEF Open, Close
<1>2. CASE Apply \/ Settle
  BY <1>2 DEF Apply, Settle, staged
<1>3. ASSUME NEW mounted \in SUBSET Ids, NEW found \in SUBSET mounted,
             Discover(mounted, found)
      PROVE  i \notin present' \cup Referenced(page')
  <2>1. /\ stagedColors' = ColorsPruned(stagedColors, page', found, ready)
        /\ present' = mounted /\ (ready => found = mounted)
    BY <1>3, DiscoverFacts
  <2>2. ready /\ i \notin Referenced(page') \cup found
    BY <2>1, ColorsPrunedType DEF PageTypeOK
  <2> QED BY <2>1, <2>2
<1>4. CASE \/ ToggleMetric \/ Reorder
           \/ \E j \in Ids : TogglePartition(j) \/ SetColor(j) \/ ClearColor(j) \/ Trash(j)
  <2>1. PICK p \in Config, c \in Map :
           /\ Gesture(p, c)
           /\ \A j \in Keys(stagedColors) \ Keys(c) : ClearColor(j) \/ Trash(j)
    BY <1>4, AGesture
  <2>2. /\ stagedColors' = ColorsPruned(c, p, discovered, ready)
        /\ Referenced(page') = Referenced(p) /\ present' = present
    BY <2>1, GestureFacts
  <2>3. CASE i \notin Keys(c)
    BY <2>1, <2>3
  <2>4. CASE i \in Keys(c)
    <3>1. ready /\ discovered # {} /\ i \notin Referenced(p) \cup discovered
      BY <2>2, <2>4, ColorsPrunedType
    <3> QED BY <2>2, <3>1 DEF Settled_IsAll
  <2> QED BY <2>3, <2>4
<1> QED BY <1>1, <1>2, <1>3, <1>4, Steps

\* An open page loses a color only by the user's hand, or when its partition is
\* both gone and unreferenced, for any partitions and any number of gestures.
THEOREM ColorsKeptHolds == PageSpec => ColorsKept
<1>1. PageInit => Settled_IsAll
  BY DEF PageInit, Settled_IsAll
<1>2. PageSpec => [][ColorsStep]_pageVars
  BY <1>1, PageTypeCorrect, IsAllStep, ColorsStepHolds, PTL DEF PageSpec
<1>3. QED
  BY <1>2 DEF ColorsKept, ColorsStep

-----------------------------------------------------------------------------
(***************************************************************************)
(* Stale rows.                                                             *)
(***************************************************************************)

\* A settled prune keeps the keys that are referenced or there.
LEMMA PrunedKeys ==
    ASSUME NEW map \in Map, NEW p, NEW found, found # {}
    PROVE  Keys(ColorsPruned(map, p, found, TRUE))
             = Keys(map) \cap (Referenced(p) \cup found)
<1> DEFINE next == Keys(map) \cap (Referenced(p) \cup found)
<1>1. Never \notin next
  BY KeysType, PartitionSettingsAssumption
<1>2. ColorsPruned(map, p, found, TRUE) = Settled(map, next)
  BY DEF ColorsPruned
<1> HIDE DEF next
<1>3. Keys(Settled(map, next)) = next
  BY <1>1, SettledKeys
<1> QED BY <1>2, <1>3 DEF next

\* What the page's own colors hold after a gesture is what was staged.
LEMMA FlushedColors ==
    ASSUME NEW p \in Config, NEW c, Gesture(p, c)
    PROVE  Keys(page'.colors) = Keys(stagedColors')
<1>1. page'.colors = Settled(p.colors, stagedColors')
  BY DEF Gesture, Config
<1>2. Keys(Settled(p.colors, stagedColors')) = Keys(stagedColors')
  BY DEF Settled, Keys
<1> QED BY <1>1, <1>2

\* What a step of an open page may leave of a row that was stale.
TraceStep ==
    open' /\ discovered' # {} =>
      (StaleRows \ (StaleRows' \cup discovered'))
      \cap (Keys(stagedLabels') \cup Keys(stagedColors')
            \cup Keys(page'.labels) \cup Keys(page'.colors)) = {}

LEMMA TraceStepHolds == PageTypeOK /\ [PageNext]_pageVars => [TraceStep]_pageVars
<1> SUFFICES ASSUME PageTypeOK, PageNext, open', discovered' # {},
                    NEW i \in StaleRows, i \notin StaleRows', i \notin discovered'
             PROVE  i \notin Keys(stagedLabels') \cup Keys(stagedColors')
                             \cup Keys(page'.labels) \cup Keys(page'.colors)
  BY DEF TraceStep
<1>1. ready = TRUE /\ discovered # {} /\ i \in Referenced(page) \ discovered
  BY DEF StaleRows, PageTypeOK
<1>2. CASE Open \/ Close
  BY <1>2 DEF Open, Close
<1>3. CASE Apply \/ Settle
  BY <1>1, <1>3 DEF Apply, Settle, world, StaleRows
<1>4. ASSUME NEW mounted \in SUBSET Ids, NEW found \in SUBSET mounted,
             Discover(mounted, found)
      PROVE  FALSE
  <2>1. page' = Seeded(page) /\ ready' = ready
    BY <1>4, DiscoverFacts
  <2>2. i \in Referenced(page')
    BY <1>1, <2>1, SeededType DEF PageTypeOK
  <2> QED BY <1>1, <2>1, <2>2 DEF StaleRows
<1>5. CASE \/ ToggleMetric \/ Reorder
           \/ \E j \in Ids : TogglePartition(j) \/ SetColor(j) \/ ClearColor(j) \/ Trash(j)
  <2>1. PICK p \in Config, c \in Map : Gesture(p, c)
    BY <1>5, AGesture
  <2>2. /\ UNCHANGED <<discovered, ready>>
        /\ Referenced(page') = Referenced(p)
        /\ Keys(stagedLabels') \subseteq Referenced(p)
        /\ Keys(page'.labels) = Keys(stagedLabels')
        /\ stagedColors' = ColorsPruned(c, p, discovered, ready)
    BY <2>1, GestureFacts
  <2>3. i \notin Referenced(p)
    BY <1>1, <2>2 DEF StaleRows
  <2>4. Keys(stagedColors') = Keys(c) \cap (Referenced(p) \cup discovered)
    BY <1>1, <2>2, PrunedKeys
  <2>5. Keys(page'.colors) = Keys(stagedColors')
    BY <2>1, FlushedColors
  <2> QED BY <1>1, <2>2, <2>3, <2>4, <2>5
<1> QED BY <1>2, <1>3, <1>4, <1>5, Steps

\* A stale row goes with everything the maps held of it: only a gesture takes
\* one away, each flushes both maps, and by then discovery has settled, so that
\* the prune is not put off.
THEOREM NoTraceHolds == PageSpec => NoTrace
<1>1. PageSpec => [][TraceStep]_pageVars
  BY PageTypeCorrect, TraceStepHolds, PTL DEF PageSpec
<1>2. QED
  BY <1>1 DEF NoTrace, TraceStep

=============================================================================

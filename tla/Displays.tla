------------------------------ MODULE Displays -------------------------------
(***************************************************************************)
(* The standalone widget as it is seen: its window and rings               *)
(* (StandaloneWindow), and the numbers it shows of the sample that came    *)
(* last (Readouts).                                                        *)
(***************************************************************************)
EXTENDS StandaloneWindow, Readouts

CONSTANTS
  Disks,            \* statvfs() results: records [total, free, available] of blocks of [block] bytes
  Rates,            \* bytes per second
  Records,          \* NVML's process records: [pid, vram]
  Limit,            \* rows of the process table
  MaxRecords        \* bound: records of one sample

ASSUME DisksAssumption ==
  /\ Disks \subseteq [block : Nat \ {0}, total : Nat, free : Nat, available : Nat]
  /\ \A d \in Disks : d.available <= d.free /\ d.free <= d.total
ASSUME RatesAssumption == Rates \cup {Limit, MaxRecords} \subseteq Nat
ASSUME RecordsAssumption == Records \subseteq [pid : Nat, vram : Nat]

NoSample == [disk |-> [block |-> 1, total |-> 0, free |-> 0, available |-> 0], rate |-> 0, processes |-> <<>>]

VARIABLE sample

DisplayInit == Init /\ sample = NoSample

\* A tick: what the rings and the tooltips show is computed from this sample.
SampleDisk == \E d \in Disks : sample' = [sample EXCEPT !.disk = d]
SampleRate == \E r \in Rates : sample' = [sample EXCEPT !.rate = r]
SampleGpu  == \E r \in Records : /\ Len(sample.processes) < MaxRecords
                                 /\ sample' = [sample EXCEPT !.processes = Append(@, r)]

\* Bound: the numbers depend on no setting and no screen, so the behaviours
\* that sample are those whose window has not been touched.
DisplayNext == \/ sample = NoSample /\ Next /\ UNCHANGED sample
               \/ window = Nowhere /\ changes = 0 /\ (SampleDisk \/ SampleRate \/ SampleGpu) /\ UNCHANGED vars

DisplaySpec == DisplayInit /\ [][DisplayNext]_<<vars, sample>>
-----------------------------------------------------------------------------
\* The text spells the number to within half of its last digit, and spells
\* fewer than limit units unless the unit is the largest.
Spells(text, number, units, limit) ==
  LET factor == units[text.unit]
      digit  == IF text.tenths % 10 # 0 \/ text.tenths < 100 THEN factor ELSE 10 * factor
      off    == 10 * (number - (text.tenths \div 10) * factor) - (text.tenths % 10) * factor
  IN /\ 2 * off <= digit /\ -2 * off <= digit
     /\ text.unit < Len(units) => text.tenths < 10 * limit

\* The ring's share of a disk is never above the share of its tooltip's bytes,
\* and the two are equal where no blocks are reserved.
RingBelowBytes(disk) ==
  LET ring == diskUsagePercent(disk)
      used == buildRows(disk).used
  IN /\ ring.n * disk.total <= used * ring.of
     /\ disk.available = disk.free => ring.n * disk.total = used * ring.of

(* The tooltip of a file system and its ring do not contradict each other: *)
(* sizes and rates are spelt to half a digit and never as 1024 of a unit   *)
(* (1000 of a rate's); the ring's share (df's) is never above the share of *)
(* the tooltip's bytes, which count the reserved blocks as used, and they  *)
(* are equal without a reservation; each process is listed once, with its  *)
(* largest record, largest first.                                          *)
ReadoutsAgree ==
  LET top  == rankProcesses(dedupeByPid(sample.processes), Limit)
      all  == ToSet(sample.processes)
  IN /\ \A t \in buildRows(sample.disk).texts : Spells(t.text, t.number, SizeUnits, 1024)
     /\ Spells(formatRate(sample.rate), sample.rate, RateUnits, 1000)
     /\ RingBelowBytes(sample.disk)
     /\ \A i, j \in 1 .. Len(top) : i < j => top[i].pid # top[j].pid /\ top[i].vram >= top[j].vram
     /\ \A r \in ToSet(top) : \A q \in all : q.pid = r.pid => q.vram <= r.vram
     /\ \A q \in all : (\A r \in ToSet(top) : r.pid # q.pid) =>
          Len(top) = Limit /\ \A r \in ToSet(top) : r.vram >= q.vram
=============================================================================

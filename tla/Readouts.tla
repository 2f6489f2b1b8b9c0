------------------------------ MODULE Readouts -------------------------------
(***************************************************************************)
(* The numbers a ring and its tooltip show: usage of memory and of a file  *)
(* system (MemInfoParser.js), sizes (DiskTooltipModel.js), rates           *)
(* (DiskIoScale.js) and the process rows of a GPU (GpuTooltipModel.js).    *)
(*                                                                         *)
(* A text is the number it spells, in tenths of its unit, and the index of *)
(* the unit.  The units stop at the third (MiB, MB/s): the further ones    *)
(* repeat the same step.                                                   *)
(***************************************************************************)
EXTENDS Integers, Sequences, SequencesExt, FiniteSetsExt

RoundOff(n, d) == (2 * n + d) \div (2 * d)      \* Math.round(n / d)

SizeUnits == <<1, 1024, 1048576>>
RateUnits == <<1, 1000, 1000000>>

\* n / d in tenths; the whole part apart keeps the product small.
Tenths(n, d) == 10 * (n \div d) + RoundOff(10 * (n % d), d)
-----------------------------------------------------------------------------
(* DiskTooltipModel.js, and formatVram of GpuTooltipModel.js *)

scaleSize(bytes) == Max({1} \cup {k \in 1 .. 3 : bytes >= SizeUnits[k]})

\* The largest unit in which the number is 1 or more, or the next one where
\* it would be spelt 1024.
sizeUnit(bytes) ==
  LET i == scaleSize(bytes)
  IN IF i < 3 /\ 2 * bytes >= 2047 * SizeUnits[i] THEN i + 1 ELSE i

formatSize(bytes) ==
  LET i == sizeUnit(bytes)
  IN [unit |-> i,
      tenths |-> IF i > 1 /\ bytes < 10 * SizeUnits[i] THEN Tenths(bytes, SizeUnits[i])
                                                       ELSE 10 * RoundOff(bytes, SizeUnits[i])]

\* The used part of a file system, in blocks, and the texts of its row;
\* freeBytes is statvfs' f_bavail.
buildRows(disk) ==
  LET used == IF disk.total > disk.available THEN disk.total - disk.available ELSE 0
  IN [used |-> used,
      texts |-> {[number |-> n * disk.block, text |-> formatSize(n * disk.block)]
                 : n \in {used, disk.total, disk.available}}]
-----------------------------------------------------------------------------
(* MemInfoParser.js.  A percentage is the pair of its terms, [n, of]. *)

diskUsagePercent(disk) ==
  LET used == disk.total - disk.free
  IN IF disk.total = 0 \/ used + disk.available <= 0 THEN [n |-> 0, of |-> 1]
     ELSE [n |-> IF used > 0 THEN used ELSE 0, of |-> used + disk.available]
-----------------------------------------------------------------------------
(* DiskIoScale.js *)

\* The largest unit of which the rate has one, or the smallest.
wholeUnit(rate) == Max({1} \cup {k \in 1 .. 3 : rate >= RateUnits[k]})

\* Faulty variant: a rate that would be spelt 1000 keeps its unit.
scaleRate_Unpromoted(rate) == wholeUnit(rate)

\* The unit of a rate; one that would be spelt 1000 goes to the next.
scaleRate(rate) ==
  LET i == wholeUnit(rate)
  IN IF i < 3 /\ 2 * rate >= 1999 * RateUnits[i] THEN i + 1 ELSE i

formatRate(rate) ==
  LET i == scaleRate(rate)
  IN [unit |-> i,
      tenths |-> IF rate < 100 * RateUnits[i] THEN Tenths(rate, RateUnits[i])
                                              ELSE 10 * RoundOff(rate, RateUnits[i])]
-----------------------------------------------------------------------------
(* GpuTooltipModel.js: records are [pid, vram]. *)

\* A record of a new pid joins the list, another takes the place of the record
\* of its pid if it has more memory.
addRecord(out, r) ==
  LET same == {k \in DOMAIN out : out[k].pid = r.pid}
  IN IF same = {} THEN Append(out, r)
     ELSE [k \in DOMAIN out |-> IF k \in same /\ r.vram > out[k].vram THEN r ELSE out[k]]

dedupeByPid(records) ==
  LET out[n \in 0 .. Len(records)] == IF n = 0 THEN <<>> ELSE addRecord(out[n - 1], records[n])
  IN out[Len(records)]

\* The comparator of the sort.
Before(a, b) == a.vram > b.vram \/ (a.vram = b.vram /\ a.pid < b.pid)

rankProcesses(records, limit) ==
  LET rows  == DOMAIN records
      place == CHOOSE p \in Bijection(rows, rows) :
                 \A i, j \in rows : i < j => ~Before(records[p[j]], records[p[i]])
  IN [k \in 1 .. Min({limit, Len(records)}) |-> records[place[k]]]
=============================================================================

------------------------- MODULE MCCounterSampling --------------------------
(* An instance of CounterSampling for TLC: a fixed disk with a partition, a  *)
(* disk that is plugged, a stacked device and three cores.                   *)
EXTENDS CounterSampling

MCBaseOf == [d \in {"sda", "sda1", "sdb", "dm-0"} |-> IF d = "sda1" THEN "sda" ELSE d]
=============================================================================

--------------------------- MODULE MCMetricStrip ----------------------------
(* An instance of MetricStrip for TLC. *)
EXTENDS MetricStrip

MCIds == <<"cpu", "ram", "gpu", "gpuTemp">>
\* Before a release added gpuTemp, or gpu; or complete and rearranged.
MCSaved == {<<"ram", "cpu", "gpu">>, <<"cpu", "gpuTemp", "ram">>, <<"gpuTemp", "gpu", "ram", "cpu">>}
MCHeight == [id \in {"cpu", "ram", "gpu", "gpuTemp"} |->
               IF id = "cpu" THEN 3 ELSE IF id = "gpuTemp" THEN 5 ELSE 2]
=============================================================================

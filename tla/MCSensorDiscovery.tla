------------------------ MODULE MCSensorDiscovery --------------------------
(* Machines for TLC: two drives of one chip name beside the CPU chip; a      *)
(* board whose ACPI chip mirrors a thermal zone; one with thermal zones      *)
(* only, two of one type; an NVIDIA beside an AMD card; one AMD card alone.  *)
EXTENDS SensorDiscovery

MCMachines == {{"cpu", "nvme1", "nvme2"}, {"acpi", "zone1"}, {"zone1", "zone2", "zone3"}, {"nv", "amd"}, {"amd"}}
MCName   == [cpu |-> "k10temp", nvme1 |-> "nvme", nvme2 |-> "nvme", acpi |-> "acpitz",
             zone1 |-> "acpitz", zone2 |-> "x86_pkg_temp", zone3 |-> "x86_pkg_temp"]
MCDevice == [cpu |-> <<"18.3">>, nvme1 |-> <<"04:00">>, nvme2 |-> <<"05:00">>, acpi |-> <<>>,
             zone1 |-> <<>>, zone2 |-> <<"LNXSYSTM">>, zone3 |-> <<"LNXCPU">>]
MCMirrors == [c \in {"cpu", "nvme1", "nvme2", "acpi"} |-> IF c = "acpi" THEN "zone1" ELSE ""]
MCLabel  == [cpu |-> <<"Tccd1", "Tctl">>, nvme1 |-> <<"Composite">>, nvme2 |-> <<"Composite">>, acpi |-> <<"">>]
MCVendor == [nv |-> "nvidia", amd |-> "amd"]
MCRank   == [l \in {"Tccd1", "Tctl", "Composite", ""} |-> CASE l = "Tctl" -> 0 [] l = "Tccd1" -> 2 [] OTHER -> 100]
MCCpuNames == <<"coretemp", "k10temp">>
MCCpuTypes == <<"x86_pkg_temp", "acpitz">>
=============================================================================

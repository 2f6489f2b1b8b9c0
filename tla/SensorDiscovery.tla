-------------------------- MODULE SensorDiscovery ---------------------------
(***************************************************************************)
(* How the standalone build finds its temperature and GPU sources in sysfs *)
(* and keeps reading them: MetricsBackend.qml (_sample and                 *)
(* onSensorTempIdChanged), HwmonTempSensors.qml, GpuSampler.qml and the    *)
(* pure HwmonTempDiscovery.js, CpuTempDiscovery.js and GpuDiscovery.js.    *)
(*                                                                         *)
(* The hwmonN, thermal_zoneN and cardN numbers are given in the order in   *)
(* which drivers register, so they differ between boots, and drivers       *)
(* register late or go away; the user's choice of a sensor is kept as an   *)
(* id that must outlive that.                                              *)
(*                                                                         *)
(* Abstractions: a reading is the part it was read from; a path is a kind, *)
(* a number and a file; an id and a label are tuples of their parts.  The  *)
(* catalog is a set: where its order matters (two entries of one id) the   *)
(* entries are equal in the order the code sorts by, so it is arbitrary.   *)
(***************************************************************************)
EXTENDS Integers, Sequences, FiniteSets, TLC

CONSTANTS
  Chips, Zones, Cards,  \* hwmon chips, thermal zones and DRM cards
  Machines,             \* each one a set of them
  Name, Device,         \* of a chip or zone: its name or type; <<its device>>, or <<>>
  Mirrors,              \* Mirrors[c]: the zone whose readings chip c exposes, or ""
  Label,                \* Label[c]: its inputs and their labels, "" for none
  Vendor,               \* Vendor[k]: "amd", "intel" or "nvidia"
  CpuNames, CpuTypes,   \* CPU_HWMON_NAMES and CPU_THERMAL_ZONE_TYPES
  LabelRank,            \* _labelRank, for every label
  MaxTries,             \* 60 in the code
  MaxBoots, MaxChanges  \* bounds: boots; registrations, removals and choices

ASSUME PartsAssumption ==
  /\ \A m \in Machines : m \subseteq Chips \cup Zones \cup Cards /\ IsFiniteSet(m)
  /\ {Chips \cap Zones, Chips \cap Cards, Zones \cap Cards} = {{}}
  /\ Vendor \in [Cards -> {"amd", "intel", "nvidia"}]
\* A chip's inputs count from one, 0 being a zone's only one; a device link
\* that leads to a zone is what Mirrors says, and no chip is behind a chip.
ASSUME SensorsAssumption ==
  /\ \A c \in Chips : DOMAIN Label[c] \subseteq Nat \ {0} /\ Mirrors[c] \notin Chips
  /\ \A p \in Chips \cup Zones : Device[p] \notin {"zone"} \X Nat
ASSUME TriesAssumption == {MaxTries, MaxBoots, MaxChanges} \subseteq Nat \ {0}

None == <<>>

VARIABLES
  machine, num,         \* the parts built in; the number of every registered one
  files,                \* <<card, file>> present in sysfs
  boots, changes,
  \* MetricsBackend and its sensorProbe
  cpuPath, cpuTries, catalog, enumTries, sensorTempId, sensorPath, sensorTemp,
  \* GpuSampler: the paths, and where the last good values came from
  gpu, gpuTries, usage, temp, model, vram, available,
  \* history: the part chosen with what was registered then; what was
  \* registered when the catalog was built; since the boot, whether a part
  \* went away, and the availability of NVML at each tick
  picked, seen, removed, nvml

hardware == <<machine, num, files, boots, changes>>
temps    == <<cpuPath, cpuTries, catalog, enumTries, sensorPath, sensorTemp, seen>>
gpus     == <<gpu, gpuTries, usage, temp, model, vram, available, nvml>>
vars     == <<hardware, temps, gpus, sensorTempId, picked, removed>>

Files  == {"busy", "temp", "vram"}
NoGpu  == [vendor |-> "", busy |-> None, temp |-> None, vram |-> None]

-----------------------------------------------------------------------------
(* sysfs: what a path reads, None for a failed read. *)
Registered(kind) == DOMAIN num \cap kind
Reading(path) ==
  LET kind  == IF path = None THEN {}
               ELSE CASE path[1] = "hwmon" -> Chips [] path[1] = "zone" -> Zones [] OTHER -> Cards
      owner == {p \in Registered(kind) : num[p] = path[2]}
      has(p) == CASE p \in Chips -> path[3] \in DOMAIN Label[p]
                  [] p \in Cards -> <<p, path[3]>> \in files [] OTHER -> TRUE
      found == {<<p, path[3]>> : p \in {q \in owner : has(q)}}
  IN IF found = {} THEN None ELSE CHOOSE r \in found : TRUE

-----------------------------------------------------------------------------
(* HwmonTempDiscovery.js *)

ChipDevice(c) == IF Mirrors[c] \in Registered(Zones) THEN <<"zone", num[Mirrors[c]]>> ELSE Device[c]

\* The name alone, or with the device when another chip or zone has it too.
Stem(p, device, all) ==
  IF \E q \in all \ {p} : Name[q] = Name[p] THEN <<Name[p], device>> ELSE <<Name[p], None>>

\* "label (stem)", or "label (id)" for one of several alike; a bare label
\* when it is the stem.
_disambiguateLabels(entries) ==
  LET form(e) == IF <<e.label, None>> = e.id[1] THEN <<e.label>> ELSE <<e.label, e.id[1]>>
  IN {[e EXCEPT !.label = IF \E f \in entries \ {e} : form(f) = form(e) THEN <<e.label>> \o e.id ELSE form(e)] :
        e \in entries}

\* Mutant: the number of the chip identifies it.
buildCatalog_ByNumber(chips) ==
  _disambiguateLabels(UNION {{[id |-> <<<<Name[c], <<"hwmon", num[c]>>>>, i>>, label |-> Label[c][i],
                               path |-> <<"hwmon", num[c], i>>] : i \in DOMAIN Label[c]} : c \in chips})

buildCatalog(chips) ==
  _disambiguateLabels(UNION {{[id |-> <<Stem(c, ChipDevice(c), chips), i>>,
                               label |-> IF Label[c][i] = "" THEN ToString(i) ELSE Label[c][i],
                               path |-> <<"hwmon", num[c], i>>] : i \in DOMAIN Label[c]} : c \in chips})

buildThermalCatalog(zones) ==
  _disambiguateLabels({[id |-> <<Stem(z, IF Device[z] = None THEN <<"zone", num[z]>> ELSE Device[z], zones), 0>>,
                        label |-> Name[z], path |-> <<"zone", num[z], 0>>] : z \in zones})

\* Mutant: no zone is a mirror.
filterMirroredZones_All(chips, zones) == zones

filterMirroredZones(chips, zones) == {z \in zones : \A c \in chips : ChipDevice(c) # <<"zone", num[z]>>}

\* HwmonTempSensors.enumerate()
enumerate == buildCatalog(Registered(Chips))
             \cup buildThermalCatalog(filterMirroredZones(Registered(Chips), Registered(Zones)))

\* resolveSensorPath: one of the entries with the id, if there is one.
resolveSensorPaths(entries, id) ==
  LET matches == {e \in entries : e.id = id} IN IF matches = {} THEN {None} ELSE {e.path : e \in matches}

-----------------------------------------------------------------------------
(* CpuTempDiscovery.js: the parts whose name comes first in the list. *)
FirstListed(parts, names) ==
  {p \in parts : \E k \in DOMAIN names : Name[p] = names[k] /\ \A q \in parts, j \in 1..(k-1) : Name[q] # names[j]}

\* pickCpuTempInput: the best label, then the lowest input.
BestInputs(c) ==
  {i \in DOMAIN Label[c] : \A j \in DOMAIN Label[c] :
     LET a == LabelRank[Label[c][i]]  b == LabelRank[Label[c][j]] IN a < b \/ (a = b /\ i <= j)}

\* MetricsBackend._resolveCpuTempPath(): a chip, else a zone.
CpuTempPaths ==
  LET chips  == FirstListed(Registered(Chips), CpuNames)
      zones  == FirstListed(Registered(Zones), CpuTypes)
      zone   == IF zones = {} THEN {None} ELSE {<<"zone", num[z], 0>> : z \in zones}
  IN IF chips = {} THEN zone
     ELSE UNION {IF DOMAIN Label[c] = {} THEN zone ELSE {<<"hwmon", num[c], i>> : i \in BestInputs(c)} : c \in chips}

(* GpuDiscovery.js: the lowest AMD or Intel card, else the lowest NVIDIA. *)
discoverGpu ==
  LET lowest(ks) == CHOOSE k \in ks : \A j \in ks : num[k] <= num[j]
      first  == {k \in Registered(Cards) : Vendor[k] \in {"amd", "intel"}}
      card   == lowest(IF first = {} THEN Registered(Cards) ELSE first)
      path(f) == IF <<card, f>> \in files THEN <<"card", num[card], f>> ELSE None
      amd(f)  == IF Vendor[card] = "amd" THEN path(f) ELSE None
  IN [vendor |-> Vendor[card], busy |-> amd("busy"), temp |-> path("temp"), vram |-> amd("vram")]

-----------------------------------------------------------------------------
\* The parts there at a boot are numbered from zero, each kind on its own.
Numberings(ps) ==
  {n \in [ps -> 0..Cardinality(ps)] : \A kind \in {Chips, Zones, Cards} :
     {n[p] : p \in ps \cap kind} = 0..(Cardinality(ps \cap kind) - 1)}

\* The program starts: the probe walks sysfs, and the id comes from the store.
Start(id) ==
  /\ cpuPath' = None /\ cpuTries' = 0 /\ enumTries' = 0 /\ sensorTemp' = None
  /\ catalog' = enumerate' /\ seen' = DOMAIN num' /\ sensorPath' \in resolveSensorPaths(catalog', id)
  /\ gpu' = NoGpu /\ gpuTries' = 0 /\ usage' = None /\ temp' = None /\ model' = None /\ vram' = None
  /\ available' = [usage |-> FALSE, temp |-> FALSE] /\ removed' = FALSE /\ nvml' = {}

Init == /\ machine \in Machines /\ num = [p \in {} |-> 0] /\ files = {} /\ boots = 0 /\ changes = 0
        /\ cpuPath = None /\ cpuTries = 0 /\ catalog = {} /\ enumTries = 0
        /\ sensorTempId = None /\ sensorPath = None /\ sensorTemp = None
        /\ gpu = NoGpu /\ gpuTries = 0 /\ usage = None /\ temp = None /\ model = None /\ vram = None
        /\ available = [usage |-> FALSE, temp |-> FALSE]
        /\ picked = [part |-> None, among |-> {}] /\ seen = {} /\ removed = FALSE /\ nvml = {}

Boot(n, fs) ==
  /\ boots' = boots + 1
  /\ num' = n /\ files' = fs
  /\ Start(sensorTempId)
  /\ UNCHANGED <<machine, changes, sensorTempId, picked>>

Change == boots > 0 /\ changes < MaxChanges /\ changes' = changes + 1 /\ UNCHANGED <<machine, boots>>

\* A driver registers a part under the lowest free number of its kind.
Register(p) ==
  /\ Change /\ p \in machine \ DOMAIN num
  /\ \E kind \in {Chips, Zones, Cards} :
       LET taken == {num[q] : q \in DOMAIN num \cap kind}
           free  == CHOOSE n \in (0..Cardinality(taken)) \ taken : 0..(n-1) \subseteq taken
       IN p \in kind /\ num' = [q \in DOMAIN num \cup {p} |-> IF q = p THEN free ELSE num[q]]
  /\ UNCHANGED <<files, temps, gpus, sensorTempId, picked, removed>>

HasFile(k, f) == k \in Cards /\ (f = "temp" \/ Vendor[k] = "amd")

\* The driver of a card adds a file: VRAM accounting, or its hwmon directory.
AddFile(k, f) ==
  /\ Change /\ k \in Registered(Cards) /\ <<k, f>> \notin files /\ HasFile(k, f)
  /\ files' = files \cup {<<k, f>>}
  /\ UNCHANGED <<num, temps, gpus, sensorTempId, picked, removed>>

\* A part is unplugged, or its driver unloaded.
Remove(p) ==
  /\ Change /\ p \in DOMAIN num
  /\ num' = [q \in DOMAIN num \ {p} |-> num[q]] /\ files' = {f \in files : f[1] # p}
  /\ removed' = TRUE
  /\ UNCHANGED <<temps, gpus, sensorTempId, picked>>

\* The user picks entry e in the settings (SettingsDialog.qml:81-108), from a list
\* that its own probe made of the parts `among`; the backend looks the id up in
\* its own catalog: onSensorTempIdChanged.  Scope: an entry whose reading the
\* user can see.
Pick(e, among) ==
  /\ Change /\ e.id # sensorTempId
  /\ sensorTempId' = e.id /\ picked' = [part |-> Reading(e.path), among |-> among]
  /\ Reading(e.path) # None /\ ~removed
  /\ sensorPath' \in resolveSensorPaths(catalog, e.id)
  /\ sensorTemp' = None
  /\ UNCHANGED <<num, files, cpuPath, cpuTries, catalog, enumTries, seen, gpus, removed>>

-----------------------------------------------------------------------------
\* MetricsBackend._sample(), the CPU temperature ...
SampleCpuTemp ==
  LET walk == cpuPath = None /\ cpuTries < MaxTries
  IN /\ cpuTries' = cpuTries + (IF walk THEN 1 ELSE 0)
     /\ cpuPath' \in IF walk THEN CpuTempPaths ELSE {cpuPath}

\* ... the configured sensor ...
SampleSensor ==
  LET walk == catalog = {} /\ enumTries < MaxTries
  IN /\ enumTries' = enumTries + (IF walk THEN 1 ELSE 0)
     /\ catalog' = IF walk THEN enumerate ELSE catalog
     /\ seen' = IF walk THEN DOMAIN num ELSE seen
     /\ sensorPath' \in IF sensorTempId # None /\ sensorPath = None
                        THEN resolveSensorPaths(catalog', sensorTempId) ELSE {sensorPath}
     /\ sensorTemp' = IF sensorPath' # None THEN Reading(sensorPath') ELSE sensorTemp

\* ... and the GPU: GpuSampler.sample().
\* Mutant: looks again only when both paths are missing (issue #83).
gpuPathsIncomplete_Both(g) == g.busy = None /\ g.temp = None

gpuPathsIncomplete(g) == \/ g.vendor \in {"", "amd"} /\ g.busy = None
                         \/ g.temp = None
                         \/ g.vendor = "amd" /\ g.vram = None

\* Mutant: sysfs is read beside NVML.
sysfsTurn_Always(nv) == TRUE

sysfsTurn(nv) == "available" \notin nv

\* nv: what this tick's NVML queries returned; detail: the tooltip is up.
SampleGpu(nv, detail) ==
  LET N(field) == IF field \in nv THEN <<CHOOSE k \in Cards : Vendor[k] = "nvidia", field>> ELSE None
      walk == sysfsTurn(nv) /\ gpuPathsIncomplete(gpu) /\ gpuTries < MaxTries
      S(field, wanted) == LET r == Reading(gpu'[field])
                          IN IF sysfsTurn(nv) /\ wanted /\ r # None THEN r ELSE None
      last(old, n, s) == IF s # None THEN s ELSE IF n # None THEN n ELSE old
  IN /\ gpuTries' = gpuTries + (IF walk THEN 1 ELSE 0)
     /\ gpu' = IF walk /\ Registered(Cards) # {} THEN discoverGpu ELSE gpu
     /\ usage' = last(usage, N("usage"), S("busy", TRUE))
     /\ temp' = last(temp, N("temp"), S("temp", TRUE))
     /\ model' = IF detail /\ N("model") # None THEN N("model") ELSE model
     /\ vram' = last(vram, IF detail THEN N("vram") ELSE None, S("vram", detail))
     /\ available' = [usage |-> "available" \in nv \/ S("busy", TRUE) # None,
                      temp |-> "available" \in nv \/ S("temp", TRUE) # None]
     /\ nvml' = nvml \cup {"available" \in nv}

\* NVML answers for an NVIDIA card; only a ring of some card has a tooltip.
Tick(nv, detail) == /\ boots > 0
                    /\ nv # {} => \E k \in Registered(Cards) : Vendor[k] = "nvidia"
                    /\ detail => Registered(Cards) # {}
                    /\ UNCHANGED <<hardware, sensorTempId, picked, removed>>
                    /\ SampleCpuTemp /\ SampleSensor /\ SampleGpu(nv, detail)

\* What the ring and the tooltip show: absent fields have no row.
gpuDetail == [Model |-> model, Usage |-> IF available.usage THEN usage ELSE None,
              VRAM |-> vram, Temperature |-> IF available.temp THEN temp ELSE None]
buildStatRows(detail) ==
  {[label |-> l, value |-> detail[l]] : l \in {f \in DOMAIN detail : detail[f] # None}}

\* NVML answers some of the queries, or not at all.
NvmlResults == {{}} \cup {{"available"} \cup s : s \in {{}, {"usage"}, {"temp", "vram"}, {"usage", "temp", "model", "vram"}}}

Next ==
  \/ boots < MaxBoots /\ \E ps \in SUBSET machine :
       \E n \in Numberings(ps), fs \in {{}, {f \in ps \X Files : HasFile(f[1], f[2])}} : Boot(n, fs)
  \/ \E p \in machine : Register(p) \/ Remove(p)
  \/ \E k \in Cards, f \in Files : AddFile(k, f)
  \* Bound: the dialog's list is as old as the backend's, or of this moment.
  \/ \E e \in catalog : Pick(e, seen)
  \/ \E e \in enumerate : Pick(e, DOMAIN num)
  \/ \E nv \in NvmlResults, detail \in BOOLEAN : Tick(nv, detail)

\* The 2 Hz timer keeps ticking (MetricsBackend.qml).  Fairness is stated
\* for the ticks that get no answer from NVML, the only ones of a machine
\* without an NVIDIA card; of the others nothing is claimed to happen.
Spec == Init /\ [][Next]_vars /\ WF_vars(\E detail \in BOOLEAN : Tick({}, detail))
-----------------------------------------------------------------------------
\* Nothing else has the chosen part's name and device: its id is its own.
OneOfItsId(part) ==
  LET p == part[1]
  IN /\ p \in Chips => Mirrors[p] \notin Zones
     /\ \A q \in ((Chips \cup Zones) \cap seen) \ {p} :
          Name[q] = Name[p] => Device[p] # None /\ Device[q] # None /\ Device[q] # Device[p]

\* A boot that registers the same parts as when the user chose a sensor,
\* under whatever numbers, finds that sensor again, and what is shown under
\* its id is never another sensor's reading, neither from before the choice
\* nor after a later driver (HwmonTempDiscovery.js:13, MetricsBackend.qml
\* onSensorTempIdChanged).  Nothing is said while the backend's catalog is of
\* other parts than the list the user chose from.
PickedSensorShown ==
  sensorTempId # None /\ boots > 0 /\ ~removed /\ seen = picked.among /\ OneOfItsId(picked.part) =>
    sensorPath # None /\ sensorTemp \in {None, picked.part}

\* The picker maps a label to an id and takes the first match: no two ids of
\* one list share a label, and no sensor is listed twice, as a chip and as
\* the zone behind it (HwmonTempDiscovery.js:71, :222).
PickerUnambiguous == \A list \in {catalog, enumerate} :
  \A e, f \in list :
    /\ e.id # f.id => e.label # f.label
    /\ ~removed /\ e.path[1] = "hwmon" => Mirrors[Reading(e.path)[1]] # Reading(f.path)[1]

\* A CPU sensor, or the files of an AMD card, that come late but within the
\* sixty tries are found, also when only one of the card's was there before
\* (GpuSampler.qml:93, issue #83).
CpuThere == boots > 0 /\ CpuTempPaths # {None}
GpuThere == /\ Registered(Cards) # {} /\ {Vendor[k] : k \in machine \cap Cards} = {"amd"}
            /\ None \notin {discoverGpu.busy, discoverGpu.temp}
LateSourceFound ==
  /\ (CpuThere /\ cpuTries < MaxTries) ~> (cpuPath # None \/ ~CpuThere)
  /\ (GpuThere /\ gpuTries < MaxTries) ~> (None \notin {gpu.busy, gpu.temp} \/ ~GpuThere)

\* As long as NVML does not come and go, all that the ring and its tooltip
\* show is of one card (GpuSampler.qml:46).
GpuRowsOneCard ==
  nvml # BOOLEAN /\ ~removed =>
    \A r, q \in buildStatRows(gpuDetail) : r.value[1] = q.value[1]
=============================================================================

# A verification development of Ring Monitor

Ring Monitor draws system metrics as rings, as a KDE Plasma widget and as a
standalone Qt/QML AppImage. `contents/ui/core/` is shared and knows no
platform; `contents/ui/platforms/plasma/` feeds it from KSysGuard, and
`contents/ui/platforms/standalone/` with the C++ of `standalone/` feeds it from
`/proc`, `/sys`, `statvfs(3)` and NVML. Each process runs one GUI event loop.
What makes it hard is around that loop: other processes of the same program,
detached worker threads, asynchronous results, a mount table and a sensor tree
that change under it, and QML bindings that outlive, or do not outlive, what
they were written for.

The modules here model that part, and what is drawn and spelt only where
numbers have to agree.
`PROJECT.json` lists the components, runs, mutants, source lines, hazards and
theorems.

## The system

**Single-instance guard** (`single_instance.cpp`, `main.cpp`). State: a socket
file shared by all processes, a listening `QLocalServer` per primary, the pass
counter of `main()`'s loop. A newcomer probes, sends its intent and version and
waits two seconds for *defer* or *takeover*; without a primary it claims the
name, re-probing before it removes a file it takes for stale. The primary
serves one line per connection and quits for a widget of another build. Hard:
several launches at once, kills that leave the file, late answers, one process'
`close()` unlinking another's name. Correct when launches do not pile up, a
live socket is never unlinked, a hand-over never loses the widget and every
launch settles.

**Partition readings** (`proc_reader.cpp`, standalone `MetricsBackend.qml`,
`DiskDiscovery.js`). State: a cache per mount point, an in-flight set, a time
stamp per read, the partitions parsed from `/proc/mounts`. Every tick renders
the rings; rendering requests a `statvfs` on a detached thread, whose result
renders again. Hard: a mount that hangs, threads that cannot be made, a mount
point taken over by another filesystem. Correct when a hung mount costs one
thread, results do not spin and every ring comes to show its own filesystem.

**Launcher entries** (`desktop_entry.cpp`, `autostart.cpp`, `menu_entry.cpp`).
State: two `.desktop` files and a stable copy of the AppImage, outliving the
process; an `inFlight` flag. The GUI thread writes and removes entries, a
detached worker copies and re-renders. Hard: every file access of the two
threads interleaves, a kill may come between any two, builds are upgraded and
deleted. Correct when no entry dangles, entries converge to the copy, the copy
is the build last run, and neither a click is lost nor a copy left behind.

**Tooltips and samplers** (`MainContent.qml`, `TooltipBehavior.qml`, standalone
`ProcessSampler.qml` and `DiskIoSampler.qml`). State: the hover, the delay
and the popup of every delegate, the gates they drive, the baselines of the
samplers. Hard: a settings change destroys the delegate under the pointer, two
bindings write one gate, reads fail. Correct when gates follow the pointer and
no rate is computed against a foreign baseline.

**Plasma mounts** (`MountInfo`, `DiskPartitions`, `DiskPartitionSensors`, the
disk part of the Plasma `MetricsBackend`). State: the last good `findmnt` set,
the partition list with its labels, the settle timer and `ready`, a value cache
per UUID. Hard: the sensor tree fills node by node, never shrinks, resolves
labels late and silently; every change of the list rebuilds all Sensors;
`findmnt` fails or lands after tracking was turned off. Correct when rings do
not blink or collapse, and rings, picker and labels come to match the mounts.

**Settings page, partitions** (`MetricsBody.qml`, `DiskPartitionPicker.qml`,
`configMetrics.qml`, `SettingsDialog.qml`, `DiskMetrics.js`). State: the
bridged configuration, two staged maps, what discovery has found. Hard: its
property handlers run each other, before discovery has settled and while one
gesture is still writing; Plasma stores on Apply, the dialog on every write.
Correct when discovery alone dirties nothing, and names, colors and traces
live exactly as long as what they belong to.

**Update notification** (`UpdateCheck.js`, `UpdateChecker.qml`,
`RestartPending.js/.qml`). State: the recorded newest tag, the dismissed one,
the time of the last check, a request per checker, the version read from disk.
Hard: answers late or never, two checkers on one configuration, packages
replaced upwards or downwards under a running shell, files half written.
Correct when the badge names only what may be offered, stays away once
dismissed, comes to name the newest release, and a replaced package is announced.

**Metric strip and its list** (`MetricsCatalog.js`, `DraggableList.qml`,
`ReorderLogic.js`, the metric half of `MetricsBody.qml`). State: saved order,
enabled list, merge toggles, what the backend can measure, a drag. Hard: orders
saved by older releases, sources that come and go, temperatures merged into
another ring, rows of different heights. Correct when each enabled metric is
shown exactly once and a drop lands where the drag showed it.

**Counter sampling** (standalone `MetricsBackend.qml`, `DiskIoSampler.qml`,
`ProcessSampler.qml` and their parsers). State: the previous counters of CPU,
disks and processes, the rolling peak. Hard: failed reads, hotplug that shifts
indices, reused pids, pauses. Correct when what is shown belongs to the window
since the last good read.

**Sensor discovery** (`HwmonTempDiscovery.js`, `CpuTempDiscovery.js`,
`GpuDiscovery.js`, `HwmonTempSensors.qml`, `GpuSampler.qml`). State: paths, a
catalog, tries, last good GPU values; the stored sensor id. Hard: numbers that
differ at every boot, drivers that register late or go away, NVML that answers
in part. Correct when the chosen sensor is found again, the picker tells
sensors apart, GPU rows are of one card and late sources are found.

**Standalone window, rings, readouts** (`Main.qml`, `WindowPlacement.js`,
`RingGeometry.js`, `RingGauge.qml`, the tooltip models). State: settings, screens, where the
window was put. Hard: deferred placement that depends on which signals are
listened to; rounding in several places. Correct when the rings stand at their
margins, nothing is cut and no two numbers contradict each other.

The components meet at few places: `MainContent` reads what a backend
publishes and drives its gates; the settings page reads its own backend and
writes the configuration the widget reads; the launcher entries decide which
binary the single-instance guard meets. The models cut at these places: the
settings page sees any discovery that the backends could deliver, PlasmaMounts
any selection the settings could store, the strip any set of measurable metrics.
Inside them the components are composed: page, store and strip in
`MetricStrip`, window and readouts in `Displays`, two checkers on shared or
separate stores in `UpdateCheck`.

## The modules

| Module | Models | State and actions |
|---|---|---|
| `SingleInstance` | the guard, both sides | `pc` is a process' place in `main()` or `onNewConnection()`; `sock` what the path names, `backlog` the pending connections; one action per system call, so that they interleave |
| `PartitionReadings` | `ProcReader` and who calls it | `thread` is each worker from `requestStatvfs` to `onStatvfsDone`; `Tick` renders and requests; `Enter` and `Return` are the two ends of the system call; mounts, health and threads change in between |
| `LauncherEntries` | entries and copy | `todo` is the list of file accesses each thread still has to make, so that a constructor or `setEnabled` is an action that fills it and each access a step |
| `TooltipSampling` | hover, gates, samplers | one action for each handler: enter, leave, delay, rebuild, ticks; a baseline is named by where it came from |
| `PlasmaMounts` | mounts, tree, sensors | `scan` is the `findmnt` run, `nodes`/`named` the tree, `parts` the list, `live`/`last` the values; one action per timer, signal and result |
| `PartitionSettings` | the settings page | `page` is the bridged copy, `store` the configuration; each setter is a `Gesture`, which ends in `_flushStaged()`; `Discover` runs the whole handler |
| `UpdateNotice` | what the update notification promises | the version shown, the one dismissed, and the one dismissed when the open page opened; `Release`, `Show`, `Dismiss`, `Open`, `Apply`, `Restart` |
| `UpdateCheck` | both checkers, the stores, the restart poll | `call[c]` is a request from `Load` over `Serve` or `Fail` to `Record`; `store[h]` a process' copy of the configuration, `file` the one on disk, `page` the values Plasma's About page holds while it is open; an installation is two steps |
| `MetricStrip` | order, toggles, drag, and what the widget shows | the saved settings, `flags` for the measurable metrics, `rows` and the drag of the page; one action per signal handler |
| `CounterSampling` | CPU, disk and process samplers | the kernel's counters, each sampler's baseline, and as history what really happened since; `scene` picks the sampler, as they share nothing |
| `SensorDiscovery` | sensors and GPU of the standalone build | `num` gives each registered part its number, `catalog`, paths and tries are the program's; `Pick` is a choice from the catalog or from the dialog's own enumeration; `Tick` is a whole `_sample()` |
| `Geometry` | `WindowPlacement.js`, `RingGeometry.js` | functions in whole numbers (half pixels, twice a radius, hundredths of a degree) |
| `StandaloneWindow` | `Main.qml` | bindings are functions of settings and screens; `heard` is what queues `_anchor()`, `Anchor` runs it later |
| `Readouts` | `DiskTooltipModel.js`, `DiskIoScale.js`, `GpuTooltipModel.js`, `MemInfoParser.js` | functions; a text is the number it spells and its unit |
| `Displays` | window and readouts together | adds the last sample to `StandaloneWindow` |

`MC*.tla` give the constants that a `.cfg` cannot; `*Proofs.tla` hold the
theorems, and `FiniteLists` the lemmas they share. Definitions named `X_Y` next to an `X` are faulty variants of `X`,
used to see that each property notices such a bug; nothing else refers to them.

## What is checked

Passing runs, each with its bounds:

- **single_instance** (`MCSingleInstance.cfg`, fair). Three launches of two
  builds, five passes each as in the code. They race in worlds without crashes
  and meet everything (kills, quits, slow primaries, failing `listen()`,
  failing loads, a leftover file) when launched one after the other. Three is
  the least for a newcomer to meet a hand-over between two others; a fourth
  adds no other role. `NoPileUp` and `LiveSocketKept` say under which
  circumstances the claim is exclusive; `stale_claim` shows that these are
  needed. `WidgetSurvives` needs neither: it holds even where claims collide.
  `LaunchSettles` and `OpenedBuildRuns` are about the waits and the loop.
- **partition_readings** (fair). Two filesystems, two mount points, two
  threads, a clock modulo the tick period, two changes of the surroundings:
  enough to over-mount a hung mount, to remount elsewhere, and to recover.
- **launcher_entries**. Two builds, three launches, four clicks. Two threads
  at every file access. Four clicks turn both entries on and off again; three
  launches upgrade and come back.
- **tooltip_sampling**. Six strips, no other bound: the space is finite.
- **plasma_mounts** (fair). One fixed filesystem, one key, three changes:
  enough to disable, unplug and enable again, or to unplug and plug while
  `findmnt` fails.
- **partition_settings**. Three partitions (the one of `$HOME` and two
  interchangeable ones) and three gestures, with any number of openings,
  Apply and discoveries. Three partitions are needed to reorder two while a
  third is gone; three gestures suffice to reorder, color and then remove one
  partition. The proofs lift the bounds.
- **update_check** (fair). The Plasma build, three releases (one of them for
  the other platform, two whose numbers compare otherwise than their text), two
  installations. Two checkers are as many as there are; with the version that
  runs, the releases give an older, a dismissed and a newer one. Time and dismissals are not bounded.
- **metric_strip**. Four metrics, two of them bases and one a temperature that is
  merged into its base; saved orders of two older releases that lack one, and a
  complete one in another order. No other bound; every drag, toggle and loss of a source is in.
- **counter_sampling**. Three cores, two whole disks with a partition and a
  device-mapper device, three pids and two rows; three units of work and three
  changes. Three cores let the middle one leave. A peak decays to a half per
  sample instead of to 98 %, which gives the same cases in fewer values.
- **sensor_discovery** (fair). Five machines (two drives of one name, a chip that
  mirrors a zone, zones alone, an NVIDIA beside an AMD card, an AMD card), two
  boots, two changes, and two tries instead of the code's 60: enough to run
  out of them before, or just after, a driver registers.
- **displays**. Two screens of three geometries, three changes; ring sizes at
  the least, the default and the largest of the settings, up to 64 cores.
  Numbers are sampled only while the window has not been touched, as neither
  depends on the other; they are chosen around the rounding boundaries.

`CHECK_DEADLOCK FALSE` stands where a bounded budget of changes runs out, or
where every process has ended.

**stale_claim** is the run that is expected to fail: two launches that find a
killed primary's file can both become primary, since the re-probe and
`removeServer()` are two steps, against the comment at `main.cpp:126-128`.

### Observations

Met while modelling, and excluded from or tolerated by the properties:

- A primary that serves a hello after the newcomer's wait has run out hands
  over to nobody (`single_instance.cpp:82`).
- Disabling the last entry in a session that was started from the stable copy
  deletes the only file there is; enabling it again writes an entry that
  launches nothing (`world.untick`). `NoDangling` says that an entry dangles on
  no other account, and that the next session of a download mends it.
- The worker looks for an entry, the user removes it, the worker writes it
  (`desktop_entry.cpp:320`): the entry is back. In the worlds where a landing
  copy overlaps the GUI thread (`world.racing`) only `NoLeak` and the first half
  of `ToggleObeyed`, that no enabled entry is lost, are claimed.
- The detail gate of a disk or GPU ring that is removed while hovered stays
  open (`MainContent.qml:467`). `DetailGatesExact`, which is proved, says where
  the gates are exact.
- A partition opted out while removable and checked while fixed has an
  unchecked box and a ring (`DiskMetrics.js:263-268`, `MetricsBody.qml:177`).
- A failed `statvfs` replaces the last good reading until the next good one
  (`proc_reader.cpp:178`); `RingCatchesUp` shows that it is repaired.
- On re-enabling the disk ring the empty live set lifts the gate until the
  first `findmnt` result; `RingsSettle` shows that this ends.
- A rate after a skipped disk read spans two intervals but is divided by one
  (`DiskIoSampler.qml:45`). `NoSpuriousBurst` allows exactly that.
- The core rings of a ring of 180 px pass its centre from about 40 cores on,
  where their stroke is at its floor of one pixel; the comment in
  `RingGeometry.js` that the nest "always ends at the same inner radius" holds
  above the floor (`CoresKeepTheirRoom`).
- On a screen too small for rings of 80 px the window is capped and the rings,
  and with them the halo, overflow it; `Roomy` excludes those screens.
- No handler listens to a screen's place in the virtual desktop
  (`_screenVX`, `_screenVY`), so a screen that is moved without another change
  leaves an X11 window behind, although `Main.qml:184-189` has any change of
  the displays re-anchor. `RingsAtMargin` and `HaloUncut` have the premise
  `Unmoved` for it; without it TLC shows the window off its margins.
- In the standalone build the widget and the settings process each keep a copy
  of the configuration. A dismissal reaches the widget at its next start and a
  stale copy may lower it. `UpdateCheck` models this too, but
  `NoticeRefined` is claimed, checked and proved for the Plasma build only.
- Plasma's About page holds the dismissal among its own values
  (`configAbout.qml:18-24`). If Plasma writes back all of them, which is not in
  the repository, a page that was opened before a dismissal in the widget and
  applied after it brings the badge back. `UpdateNotice` allows exactly that
  (`Apply`).
- The settings dialog enumerates the sensors anew while the backend keeps its
  catalog once that is not empty. An id of a driver that came late is in the
  dialog's list and not in the backend's, and shows nothing until the next
  start. `PickedSensorShown` asks that it is found at the next boot.

## Fairness

- `SingleInstance`: weak fairness of each process' own next step. They are
  straight-line code with bounded waits. Serving is fair only in worlds without
  a slow primary, so `LaunchSettles` covers a primary that never answers.
- `PartitionReadings`: the `Timer` repeats, the clock goes on, a worker that
  can return does. A hung mount's call never returns and is not made fair.
- `PlasmaMounts`: timers repeat, `findmnt` ends, the daemon inserts, names and
  samples what is mounted. `RingsSettle` asks only of
  behaviours in which tracking stays on and `findmnt` keeps working.
- `UpdateCheck`: the poll timer repeats, a recorded check expires, an
  installation ends (weak). The widget's request is answered and its answer
  recorded if it is asked again and again (strong): the network may fail any
  request but not all. `NewestReachesUser` further asks that the widget is
  loaded for ever again, since the code checks only when it loads.
- `SensorDiscovery`: the sample timer repeats. What is fair is a tick
  that NVML does not answer: while NVML answers, sysfs is not looked at and need
  not be.
- The other modules state safety only.

## What is proved

For every value of the constants that satisfies the module's assumption:

- `SingleInstanceProofs`: types; which processes may hold the socket;
  `WidgetSurvives` (a chain from every promised take-over to a live launch);
  `NoPileUp` and `LiveSocketKept` from one invariant that orders the claims:
  inside the stated circumstances a process between its re-probe and its
  `removeServer()` is alone there, so what it removes is nobody's.
- `PartitionProofs`, first part: types; `NoPile`, as the in-flight set equals
  the mounts of the busy workers and no two share one; `NoSpin`, as every read
  of a mount point since the last tick but the last one took the throttle's time
  (`Paced`).
- `LauncherEntriesProofs`: types and all five properties. Each access of the
  two threads is a step, so the invariant is about their plans: in which order
  steps stand in one (`Ordered`), and which are still `Ahead`. Where a copy is
  left that nothing names, a check for orphans is ahead, and an entry is missing
  that the user enabled only while its write is: that holds in every
  interleaving. In the worlds where a landing copy does not overlap the GUI
  thread, moreover, an enabled entry that does not launch the right file has a
  step of its refresh ahead; where the copy of this build is wanted and missing,
  its making is ahead; and an entry is there that the user disabled only while
  its removal is ahead. `NoDanglingHolds`, `EntriesHealedHolds`,
  `CopyIsCurrentHolds` and the second half of `ToggleObeyedHolds` are about those
  worlds only.
- `SamplingProofs`, first part (`TooltipSampling`): all its safety properties
  from one invariant that ties hover, delay, popup and gates to the rings on the
  strip and each baseline to its gate. A baseline is unset whenever its gate is
  closed: that is what makes the first delta of a hover sound. Second part
  (`SensorDiscovery`): `PickedSensorShown`, as the catalog is what was seen of
  the registered parts, the id kept is the chosen part's stable one and the
  path read is of the id kept; `GpuRowsOneCard`, in two cases of NVML. While
  it never answered, what is shown is of the lowest AMD or Intel card found in
  sysfs, and a card that registers later has a higher number, since the parts
  of each kind are numbered from 0 without a gap until one goes away (`NumInv`);
  an NVIDIA card is looked for again only when nothing was read. While it always
  answered, all is of its card. `PickerUnambiguous`: entries of one list that
  look alike get their whole id in their label, which tells them apart from
  each other and, being longer, from the rest; so in the backend's list and in
  the dialog's. The chips' list and the zones' are made unique one by one, so
  between them nothing keeps a chip's `Tctl` from a zone of type `Tctl`; the
  theorem assumes that no machine has both
  (`LabelsApart`, as on the machines of the run).
- `PlasmaProofs`, first part (`PlasmaMounts`): types; `NoBlink`, from the invariants that a key in
  the live set or in a finished run that was never unplugged is still plugged,
  and that no run started before it was seen can still land; `NoCollapse`,
  from the cache holding what is drawn and live.
- `PartitionProofs`, second part: types; `CleanUntilTouched`; `LabelsBounded`,
  with the bridged map bounded too, as that is what is stored; `ColorsKept`,
  from "once settled, what is listed is all there is"; `NoTrace`, as only a
  gesture takes a stale row away, and it flushes both maps against the
  references that are left. Every gesture is first shown to be a `Gesture` of
  some configuration and colors, so that each invariant needs one case for all
  of them.
- `PlasmaProofs`, second part: `NoticeRefined`, a refinement: with the mapping of
  `UpdateCheck` (the badge is the recorded tag where it may be offered), every
  step of the Plasma build is a step of `UpdateNotice` or a stutter, for any
  releases and any number of installations. An applied About page may put its
  dismissal back, which is `Apply` there. The inductive invariant says that
  what is recorded, and what an answer under way carries, was out for this
  platform, on the page as in the store; that the badge is above the dismissed
  version then follows, and an old answer cannot bring back what was dismissed.
- `DisplaysProofs`: types and `RingsAtMargin`, for any screens and settings, as
  long as an X11 window's screen has not moved under it (`Unmoved`).
  The invariant says that while nothing is queued, the window was placed for a
  value equal in all that `_anchor()` reads to the present one; it needs `heard`
  to cover all of them. `HaloUncut` follows from where the window stands: a
  side with less room than the halo wants has given it all of its margin, so the
  window ends at the edge of the screen. `RingsFit` follows from the
  size the window may have: every stroke, gap and text is bounded by a linear
  function of the side that holds from 80 px up, also where it is rounded, and
  the parts of `RingsFit` are proved one by one from these bounds.
  `CoresKeepTheirRoom` for any number of cores. `ReadoutsAgree` for every size,
  rate, file system and list of processes: a text is within half of its last
  digit of the number it spells as `RoundOff` is within half of its divisor, and
  short of the next unit as the step to it is taken half a digit early;
  `RingBelowBytesHolds` is about the ring; `Deduped` says by induction over the
  records what the loop of `dedupeByPid` holds after each, and `Ranked` that
  records of different pids can be put in the order of the comparator, so that
  the `CHOOSE` in `rankProcesses` is well defined.
- `RingsProofs`, first part (`CounterSampling`): all three properties, for any
  cores, disks, partitions and processes. *CPU*: the previous sample is the parse of the last
  good read, the rings show the step to it from the one before, and no core's
  counters go backwards; the rest is arithmetic on sums over the cores. *Disk*:
  what the disks now stand at is no further from the baseline than was moved
  since (a plugged disk adds nothing, an unplugged one takes away), and the
  peak lies between the rate and the largest window. *Processes*: no counter is
  further from its previous reading than its pid has spent. Second part
  (`MetricStrip`): `ShownOnce`, for any catalog, as no list ever holds a name
  twice and the page's rows are the whole catalog; `DropLandsAsShown`, for any
  number of rows of any heights: `PlacesMatch` says which row a move puts where,
  and by induction over the rows the tops after it are those of before, shifted
  by the dragged row's extent between source and target (`TopsAfterMove`).

The prover has no induction over data of its own: the induction theorems of
the library take an operator. `FiniteLists` gets it from first-order facts
instead: a set of numbers has a least one (`LeastNumber`), and strict
inclusion is well-founded on the subsets of a finite set, so if something were
not in a set `Good`, a least such thing would not. `CountUp` and
`SubsetInduction` say so with the set `Good` in the place of the predicate; from
them follow that a loop runs, as a recursive function of its steps (`LoopExists`),
what a fold over a finite set computes (`SumSteps`, `SumRemove`, `SumAdd`,
`SumMonotone`, ... in `RingsProofs`), and that a finite set with a total order
can be listed in order (`ListExists`), which makes the `CHOOSE` of a sorted list
well defined.

The assumptions are those named `...Assumption` in the modules; nothing else is
assumed. `NewestAssumption` (a non-empty set of releases has a newest) and the
last part of `PartitionReadingsAssumption` hold of every finite set, as the lemma
`LastExists` shows of any total order. `NoticeHolds` also assumes
`Build = "plasma"`.

Only model-checked is liveness, which is beyond the prover: `LaunchSettles`,
`OpenedBuildRuns`, `RingCatchesUp`, `RingsSettle`, `NamesSettle`,
`NewestReachesUser`, `RestartAnnounced`, `LateSourceFound`. Every other property
of the passing runs is a theorem.

## Abstractions

- Versions, UUIDs, labels and colors are model values; a CSV list is a set
  where order does not matter, a map from UUIDs the set of its keys.
- A local-socket line arrives whole: both sides read to the newline. `bind` and
  `listen` are one step.
- `statvfs` returns which filesystem it saw. Whole ticks only: a late Timer is
  a later tick. The reader's teardown is not modelled.
- `LauncherEntries` has one process at a time; a worker dies with it. The file
  a session runs from may be deleted but is not put back while it runs: the
  copy that failed for want of it would wait for the next click or launch.
- `TooltipSampling` leaves out popup geometry.
- `PlasmaMounts`: the settle timer does not fire before labels have resolved,
  as `settleMs` is chosen; the ring cap and the aggregate fallback are left out.
- `PartitionSettings`: after discovery has settled the page knows what is
  mounted, so the two seconds between an unplug and the next poll are left out
  there (PlasmaMounts has them). The bound is named `Gestures`.
- `UpdateCheck`: a tag is its numeric core and its platform suffix; an age is
  never, fresh or expired; what the list leaves out (a release that is absent, a
  draft or a prerelease) is one state. Whether Plasma's Apply writes back all the
  page's values or the changed one is left open, so both are in.
- `MetricStrip`: a row's height depends on its metric alone.
- `CounterSampling`: a cpu line has three fields, a device one counter, rates
  are per window, percentages are rounded down.
- `SensorDiscovery`: a reading is the part it came from; the catalog is a set.
  The dialog's list is as old as the backend's or of the moment of the choice.
- `Geometry`: whole numbers in units small enough that the roundings of the
  code are the only ones. `GridLayout` is external and shares the box evenly.
- `Readouts`: the units stop at the third, the further ones repeat the step.

## Not modelled

- The update dialog's texts, the release notes, and the restart command
  (external); the readiness of a desktop session to restart.
- GPU power and clocks (the same path as the modelled fields); a path that
  stays stale after a driver is unloaded; memory, swap and load (single reads
  without state); the conversion of temperatures.
- The Plasma metric sensors: KSysGuard delivers finished values. Their sensor
  discovery (`classifyDiscoveredIds`, `TempSensorCatalog.js`) coalesces tree
  signals as the walk in `PlasmaMounts` does.
- The order, the default and the cap of the disk rings in `DiskMetrics.js`:
  sets stand for lists there.
- `ColorThemes.js`, the gradients of the halo, animation, the layout of
  tooltips and popups: drawing.
- The configuration stores by themselves: plain key-value stores. One process'
  store is part of `PartitionSettings` and `MetricStrip`, two processes with
  own copies of `UpdateCheck`. A write of a settings process that a widget's
  later write of the same key overtakes is not claimed anything of.
- Packaging, scripts, translations and tests.

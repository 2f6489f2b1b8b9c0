---------------------------- MODULE SamplingProofs ----------------------------
(***************************************************************************)
(* The standalone samplers.  TooltipSampling: the gates follow the pointer *)
(* and the samplers subtract what belongs together, for every set of       *)
(* strips.  SensorDiscovery: what the GPU's ring and tooltip show is of    *)
(* one card, whatever registers late and whichever queries NVML answers.   *)
(***************************************************************************)
EXTENDS TooltipSampling, SensorDiscovery, FiniteLists

-----------------------------------------------------------------------------
(* TooltipSampling *)

\* The flags the cpu and ram delegates write are those of the hovered rings,
\* and only rings that are on the strip are hovered.
FlagsExact ==
    /\ forwarded = hovered \cap ByProcess
    /\ hovered \subseteq rings

\* A sampler that is open or closed never holds a baseline of another time.
BaselinesFresh ==
    /\ pids \in {"none", "last"}
    /\ jiffies \in {"none", "last"}
    /\ sectors \in {"none", "last", "skipped"}

HoverInv ==
    /\ TypeOK
    /\ FlagsExact
    /\ DetailGatesExact
    /\ TipFollowsHover
    /\ BaselinesFresh
    /\ RankedOverOneTick
    /\ RateOfThisActivation

-----------------------------------------------------------------------------
\* A process sampler whose gate moves keeps a list of this hover or drops it.
LEMMA ProcessGateKeeps ==
    ASSUME NEW fw, ProcessGateMoves(fw),
           TypeOK, BaselinesFresh, RankedOverOneTick
    PROVE  /\ pids' \in {"none", "last"} /\ jiffies' \in {"none", "last"}
           /\ top' \in {"none", "good"}
           /\ top' # "none" => ProcessGate(fw)
  BY DEF ProcessGateMoves, ProcessGate, ProcessReset, process, TypeOK,
         BaselinesFresh, RankedOverOneTick, Baseline, Result

\* The strip decides whether the disk sampler keeps its rate.
LEMMA IoGateKeeps ==
    ASSUME NEW strip, IoGateMoves(strip),
           BaselinesFresh, RateOfThisActivation, rate \in Result
    PROVE  /\ sectors' \in {"none", "last", "skipped"}
           /\ rate' \in Result /\ rate' # "bogus"
           /\ rate' # "none" => IoGate(strip)
  BY DEF IoGateMoves, IoGate, IoReset, io, BaselinesFresh,
         RateOfThisActivation, Result

\* The initial states satisfy the invariant.
THEOREM HoverInitInv == HoverInit => HoverInv
  BY TooltipSamplingAssumption
  DEF HoverInit, HoverInv, TypeOK, FlagsExact, DetailGatesExact, TipFollowsHover,
      BaselinesFresh, RankedOverOneTick, RateOfThisActivation, ProcessGate,
      IoGate, Baseline, Result, Rings, Tipped, ByProcess, Detailed

\* A pointer that comes to a ring opens that ring's gate and no other.
LEMMA EnterKeeps ==
    ASSUME HoverInv, NEW r \in Rings, Enter(r)
    PROVE  HoverInv'
<1>1. ProcessGateMoves(forwarded')
  BY DEF Enter, Drive
<1>2. TypeOK'
  BY <1>1, ProcessGateKeeps
  DEF Enter, Drive, HoverInv, TypeOK, Written, Baseline, Result, io, Tipped,
      ByProcess, Detailed
<1>3. FlagsExact' /\ DetailGatesExact' /\ TipFollowsHover'
  BY DEF Enter, Drive, HoverInv, FlagsExact, DetailGatesExact, TipFollowsHover,
         Written
<1>4. BaselinesFresh' /\ RankedOverOneTick' /\ RateOfThisActivation'
  BY <1>1, ProcessGateKeeps
  DEF Enter, Drive, HoverInv, BaselinesFresh, RankedOverOneTick,
      RateOfThisActivation, ProcessGate, IoGate, io
<1> QED
  BY <1>2, <1>3, <1>4 DEF HoverInv

\* A pointer that leaves closes the gate, the delay and the tooltip.
LEMMA LeaveKeeps ==
    ASSUME HoverInv, NEW r \in Rings, Leave(r)
    PROVE  HoverInv'
<1>1. ProcessGateMoves(forwarded')
  BY DEF Leave, Drive
<1>2. TypeOK'
  BY <1>1, ProcessGateKeeps
  DEF Leave, Drive, HoverInv, TypeOK, Written, Baseline, Result, io, Tipped,
      ByProcess, Detailed
<1>3. FlagsExact' /\ DetailGatesExact' /\ TipFollowsHover'
  BY DEF Leave, Drive, HoverInv, FlagsExact, DetailGatesExact, TipFollowsHover,
         Written
<1>4. BaselinesFresh' /\ RankedOverOneTick' /\ RateOfThisActivation'
  BY <1>1, ProcessGateKeeps
  DEF Leave, Drive, HoverInv, BaselinesFresh, RankedOverOneTick,
      RateOfThisActivation, ProcessGate, IoGate, io
<1> QED
  BY <1>2, <1>3, <1>4 DEF HoverInv

\* A rebuilt strip starts with every gate of its rings shut.
LEMMA RebuildKeeps ==
    ASSUME HoverInv, NEW strip \in Strips, Rebuild(strip)
    PROVE  HoverInv'
<1>1. ProcessGateMoves(forwarded') /\ IoGateMoves(strip) /\ rings' = strip
  BY DEF Rebuild
<1>2. forwarded' = {}
  BY DEF Rebuild, Rewritten, Teardown, HoverInv, FlagsExact
<1>3. TypeOK'
  BY <1>1, <1>2, ProcessGateKeeps, IoGateKeeps, TooltipSamplingAssumption
  DEF Rebuild, Rewritten, HoverInv, TypeOK, Baseline, Result, Tipped, ByProcess,
      Detailed
<1>4. FlagsExact' /\ DetailGatesExact' /\ TipFollowsHover'
  BY <1>2 DEF Rebuild, Rewritten, FlagsExact, DetailGatesExact,
              TipFollowsHover
<1>5. BaselinesFresh' /\ RankedOverOneTick' /\ RateOfThisActivation'
  BY <1>1, ProcessGateKeeps, IoGateKeeps
  DEF HoverInv, TypeOK, BaselinesFresh, RankedOverOneTick, RateOfThisActivation,
      ProcessGate, IoGate
<1> QED
  BY <1>3, <1>4, <1>5 DEF HoverInv

\* The samplers' ticks leave the pointer's side alone and only subtract what
\* belongs together.
LEMMA TickKeeps ==
    ASSUME HoverInv, NEW ok \in BOOLEAN, ProcessTick(ok) \/ IoTick(ok)
    PROVE  HoverInv'
<1>1. UNCHANGED <<rings, hovered, delay, shown, forwarded, detail>>
  BY DEF ProcessTick, IoTick, tips
<1>2. FlagsExact' /\ DetailGatesExact' /\ TipFollowsHover'
  BY <1>1 DEF HoverInv, FlagsExact, DetailGatesExact, TipFollowsHover
<1>3. CASE ProcessTick(ok)
  <2>1. /\ top' \in {"none", "good"} /\ ProcessGate(forwarded')
        /\ pids' = "last" /\ jiffies' \in {"none", "last"}
    BY <1>1, <1>3 DEF ProcessTick, HoverInv, BaselinesFresh, Worth
  <2>2. UNCHANGED <<sectors, rate>>
    BY <1>3 DEF ProcessTick, io
  <2> QED
    BY <1>1, <1>2, <2>1, <2>2
    DEF HoverInv, TypeOK, BaselinesFresh, RankedOverOneTick, RateOfThisActivation,
        Baseline, Result, IoGate
<1>4. CASE IoTick(ok)
  <2>1. /\ rate' \in {"none", "good", "stretched"} /\ IoGate(rings')
        /\ sectors' \in {"none", "last", "skipped"}
    BY <1>1, <1>4
    DEF IoTick, HoverInv, TypeOK, BaselinesFresh, RateOfThisActivation, Worth,
        Result
  <2>2. UNCHANGED <<pids, jiffies, top>>
    BY <1>4 DEF IoTick, process
  <2> QED
    BY <1>1, <1>2, <2>1, <2>2
    DEF HoverInv, TypeOK, BaselinesFresh, RankedOverOneTick, RateOfThisActivation,
        Baseline, Result, ProcessGate
<1> QED
  BY <1>3, <1>4

\* The show-delay of a hovered ring only shows its tooltip.
LEMMA ShowKeeps ==
    ASSUME HoverInv, NEW r \in Rings, ShowDelay(r)
    PROVE  HoverInv'
  BY DEF ShowDelay, HoverInv, TypeOK, FlagsExact, DetailGatesExact,
         TipFollowsHover, BaselinesFresh, RankedOverOneTick,
         RateOfThisActivation, ProcessGate, IoGate, process, io

-----------------------------------------------------------------------------
\* Every step of the specification keeps the invariant.
THEOREM HoverNextInv == HoverInv /\ [HoverNext]_hoverVars => HoverInv'
<1> SUFFICES ASSUME HoverInv, [HoverNext]_hoverVars PROVE HoverInv'
  OBVIOUS
<1>1. CASE \E r \in Rings : Enter(r) \/ Leave(r) \/ ShowDelay(r)
  BY <1>1, EnterKeeps, LeaveKeeps, ShowKeeps
<1>2. CASE \E strip \in Strips : Rebuild(strip)
  BY <1>2, RebuildKeeps
<1>3. CASE \E ok \in BOOLEAN : ProcessTick(ok) \/ IoTick(ok)
  BY <1>3, TickKeeps
<1>4. CASE UNCHANGED hoverVars
  BY <1>4
  DEF hoverVars, tips, process, io, HoverInv, TypeOK, FlagsExact, DetailGatesExact,
      TipFollowsHover, BaselinesFresh, RankedOverOneTick,
      RateOfThisActivation, ProcessGate, IoGate
<1> QED
  BY <1>1, <1>2, <1>3, <1>4 DEF HoverNext

\* The invariant holds in every reachable state, whatever the strips are.
THEOREM HoverInvHolds == HoverSpec => []HoverInv
  BY HoverInitInv, HoverNextInv, PTL DEF HoverSpec

\* Every variable keeps its type.
THEOREM TypeCorrect == HoverSpec => []TypeOK
<1>1. HoverInv => TypeOK
  BY DEF HoverInv
<1> QED
  BY <1>1, HoverInvHolds, PTL

\* The process sampler runs exactly while the CPU or the RAM ring is hovered.
THEOREM ProcessGateExactHolds == HoverSpec => []ProcessGateExact
<1>1. HoverInv => ProcessGateExact
  BY DEF HoverInv, FlagsExact, ProcessGateExact, ProcessGate
<1> QED
  BY <1>1, HoverInvHolds, PTL

\* No tooltip and no show-delay outlives its hover, and the detail gates of the
\* rings on the strip agree with the pointer.
THEOREM TipsFollowHover == HoverSpec => [](TipFollowsHover /\ DetailGatesExact)
<1>1. HoverInv => TipFollowsHover /\ DetailGatesExact
  BY DEF HoverInv
<1> QED
  BY <1>1, HoverInvHolds, PTL

\* Every ranked list is the delta of two consecutive ticks of one hover.
THEOREM RankedOverOneTickHolds == HoverSpec => []RankedOverOneTick
<1>1. HoverInv => RankedOverOneTick
  BY DEF HoverInv
<1> QED
  BY <1>1, HoverInvHolds, PTL

\* No disk rate is computed against a counter of an earlier activation.
THEOREM RateOfThisActivationHolds == HoverSpec => []RateOfThisActivation
<1>1. HoverInv => RateOfThisActivation
  BY DEF HoverInv
<1> QED
  BY <1>1, HoverInvHolds, PTL

-----------------------------------------------------------------------------
(* SensorDiscovery: the cards. *)

\* The card that NVML answers for.
NvCard == CHOOSE k \in Cards : Vendor[k] = "nvidia"
Light == {"amd", "intel"}

Kinds == {Chips, Zones, Cards}

\* The parts of a kind are numbered from zero without a gap, each by its own
\* number.
KindNumbered(n, K) ==
  LET parts == DOMAIN n \cap K
  IN  /\ IsFiniteSet(parts)
      /\ \A p \in parts : n[p] \in 0 .. Cardinality(parts) - 1
      /\ \A i \in 0 .. Cardinality(parts) - 1 : \E p \in parts : n[p] = i
      /\ \A p, q \in parts : n[p] = n[q] => p = q

CardsNumbered(n) == KindNumbered(n, Cards)

\* Which parts are registered, and how the cards are numbered.
NumInv == /\ machine \in Machines /\ DOMAIN num \subseteq machine
          /\ ~removed => \A K \in Kinds : KindNumbered(num, K)

\* What a field holds of card k.
PathOf(k, f) == {None, <<"card", num[k], f>>}
ValueOf(k, f) == {None, <<k, f>>}
Blank == usage = None /\ temp = None /\ model = None /\ vram = None

\* What sysfs has shown is of card k, and nothing else has been read.
OfCard(k) ==
  /\ gpu.vendor = Vendor[k]
  /\ gpu.busy \in PathOf(k, "busy") /\ gpu.temp \in PathOf(k, "temp") /\ gpu.vram \in PathOf(k, "vram")
  /\ usage \in ValueOf(k, "busy") /\ temp \in ValueOf(k, "temp") /\ vram \in ValueOf(k, "vram")
  /\ model = None
  /\ Vendor[k] \in Light =>
       \A j \in Registered(Cards) : Vendor[j] \in Light => num[k] <= num[j]
  /\ Vendor[k] = "nvidia" => /\ gpu.busy = None /\ gpu.vram = None
                             /\ gpu.temp = None => Blank

\* All that is shown was read from one card in sysfs, or from NVML.
FromSysfs == (gpu = NoGpu /\ Blank) \/ \E k \in Registered(Cards) : OfCard(k)
FromNvml == \A v \in {usage, temp, model, vram} : v = None \/ v[1] = NvCard

\* The inductive invariant: since the boot no part went away, and NVML never
\* answered, or always.
GpuInv == ~removed => /\ nvml \subseteq {FALSE} => FromSysfs
                      /\ nvml \subseteq {TRUE} => FromNvml

-----------------------------------------------------------------------------
\* A part is of one kind.
LEMMA KindsDisjoint ==
  /\ Chips \cap Zones = {} /\ Chips \cap Cards = {} /\ Zones \cap Cards = {}
  /\ \A K, L \in Kinds : K = L \/ K \cap L = {}
<1>1. {Chips \cap Zones, Chips \cap Cards, Zones \cap Cards} = {{}}
  BY PartsAssumption
<1>2. Chips \cap Zones = {} /\ Chips \cap Cards = {} /\ Zones \cap Cards = {}
  BY <1>1, Zenon
<1> QED
  BY <1>2 DEF Kinds

\* The parts there at a boot are numbered.
LEMMA BootNumbers ==
  ASSUME NEW ps, IsFiniteSet(ps), NEW n \in Numberings(ps),
         NEW K \in Kinds
  PROVE  DOMAIN n = ps /\ KindNumbered(n, K)
<1> DEFINE parts == ps \cap K
           m == Cardinality(parts)
           T == {n[p] : p \in parts}
           h == [p \in parts |-> n[p]]
<1>1. DOMAIN n = ps /\ T = 0 .. m - 1
  BY DEF Numberings, Kinds
<1>2. IsFiniteSet(parts) /\ m \in Nat
  BY FS_Subset, FS_CardinalityType
<1>3. Cardinality(0 .. m - 1) = m
  <2>1. \A a, b \in Int : Cardinality(a .. b) = IF a > b THEN 0 ELSE b - a + 1
    BY FS_Interval
  <2>2. 0 \in Int /\ m - 1 \in Int
    BY <1>2
  <2> HIDE DEF m
  <2>3. Cardinality(0 .. m - 1) = IF 0 > m - 1 THEN 0 ELSE m - 1 - 0 + 1
    BY <2>1, <2>2
  <2> QED
    BY <1>2, <2>3
<1>4. h \in Surjection(parts, T)
  BY DEF Surjection
<1>5. Cardinality(T) = Cardinality(parts) /\ IsFiniteSet(parts)
  BY <1>1, <1>2, <1>3
<1> HIDE DEF h, T, parts
<1>6. h \in Injection(parts, T)
  BY <1>4, <1>5, FS_Surjection
<1>7. \A p, q \in parts : h[p] = h[q] => p = q
  BY <1>6 DEF Injection, IsInjective
<1>8. \A p, q \in parts : n[p] = n[q] => p = q
  BY <1>7 DEF h
<1> HIDE DEF m
<1>9. /\ \A p \in parts : n[p] \in 0 .. m - 1
      /\ \A i \in 0 .. m - 1 : \E p \in parts : n[p] = i
  BY <1>1 DEF T
<1> QED
  BY <1>1, <1>2, <1>8, <1>9 DEF KindNumbered, parts, m

\* The number a driver registers a part of a kind under.
FreeNumber(n, kind) ==
  LET taken == {n[q] : q \in DOMAIN n \cap kind}
  IN  CHOOSE i \in (0..Cardinality(taken)) \ taken : 0..(i-1) \subseteq taken

\* A part that registers gets the number after the last one, and the others
\* keep theirs.
LEMMA NextNumber ==
  ASSUME NEW K \in Kinds, NEW n, KindNumbered(n, K), NEW p, p \notin DOMAIN n, NEW kind \in Kinds, p \in kind,
         NEW k, k = [q \in DOMAIN n \cup {p} |-> IF q = p THEN FreeNumber(n, kind) ELSE n[q]]
  PROVE  /\ KindNumbered(k, K)
         /\ \A q \in DOMAIN n : q \in DOMAIN k /\ k[q] = n[q]
         /\ \A q \in DOMAIN k \cap K : q \in DOMAIN n \/ (\A j \in DOMAIN k \cap K : k[j] <= k[q])
<1> DEFINE parts == DOMAIN n \cap K
           m == Cardinality(parts)
<1>1. /\ DOMAIN k = DOMAIN n \cup {p} /\ \A q \in DOMAIN n : k[q] = n[q]
  OBVIOUS
<1>2. IsFiniteSet(parts) /\ m \in Nat
  BY FS_CardinalityType DEF KindNumbered
<1>3. CASE p \notin K
  <2>1. DOMAIN k \cap K = parts
    BY <1>1, <1>3
  <2> QED
    BY <1>1, <2>1 DEF KindNumbered
<1>4. CASE p \in K
  <2>1. kind = K
    BY <1>4, KindsDisjoint
  <2> DEFINE taken == {n[q] : q \in parts}
             Free(i) == 0..(i-1) \subseteq taken
             free == CHOOSE i \in (0..Cardinality(taken)) \ taken : Free(i)
  <2>2. taken = 0 .. m - 1
    <3>1. /\ \A q \in parts : n[q] \in 0 .. m - 1
          /\ \A i \in 0 .. m - 1 : \E q \in parts : n[q] = i
      BY DEF KindNumbered
    <3> HIDE DEF parts, m
    <3> QED
      BY <3>1
  <2>3. Cardinality(taken) = m
    <3>1. \A a, b \in Int : Cardinality(a .. b) = IF a > b THEN 0 ELSE b - a + 1
      BY FS_Interval
    <3>2. 0 \in Int /\ m - 1 \in Int
      BY <1>2
    <3> HIDE DEF m, taken
    <3>3. Cardinality(0 .. m - 1) = IF 0 > m - 1 THEN 0 ELSE m - 1 - 0 + 1
      BY <3>1, <3>2
    <3> QED
      BY <1>2, <2>2, <3>3
  <2>4. free = m
    <3> HIDE DEF m, taken
    <3> SUFFICES ASSUME TRUE PROVE (CHOOSE i \in (0..m) \ (0..m-1) : Free(i)) = m
      BY <2>2, <2>3
    <3>1. (0..m) \ (0..m-1) = {m}
      BY <1>2
    <3>2. Free(m)
      BY <2>2
    <3> HIDE DEF Free
    <3> QED
      BY <3>1, <3>2
  <2>5. k[p] = m
    <3>1. k[p] = free
      BY <2>1 DEF FreeNumber
    <3> HIDE DEF free
    <3> QED
      BY <2>4, <3>1
  <2> DEFINE more == DOMAIN k \cap K
  <2>6. more = parts \cup {p} /\ p \notin parts
    BY <1>1, <1>4
  <2>7. IsFiniteSet(more) /\ Cardinality(more) = m + 1
    <3> HIDE DEF more, parts
    <3>1. IsFiniteSet(parts \cup {p}) /\ Cardinality(parts \cup {p}) = Cardinality(parts) + 1
      BY <1>2, <2>6, FS_AddElement
    <3> QED
      BY <2>6, <3>1
  <2>8. \A q \in parts : k[q] = n[q] /\ n[q] \in 0 .. m - 1
    BY <1>1 DEF KindNumbered
  <2>9. /\ \A i \in 0 .. m - 1 : \E q \in parts : n[q] = i
        /\ \A q, r \in parts : n[q] = n[r] => q = r
    BY DEF KindNumbered
  <2>10. /\ \A q \in more : k[q] \in 0 .. m
         /\ \A i \in 0 .. m : \E q \in more : k[q] = i
         /\ \A q, r \in more : k[q] = k[r] => q = r
    <3> HIDE DEF more, parts, m
    <3>1. \A i \in 0 .. m : i = m \/ i \in 0 .. m - 1
      BY <1>2
    <3>2. /\ \A q \in parts : k[q] \in 0 .. m - 1
          /\ \A i \in 0 .. m - 1 : \E q \in parts : k[q] = i
          /\ \A q, r \in parts : k[q] = k[r] => q = r
      <4>1. \A q \in parts : k[q] \in 0 .. m - 1
        BY <2>8
      <4>2. \A i \in 0 .. m - 1 : \E q \in parts : k[q] = i
        <5> TAKE i \in 0 .. m - 1
        <5>1. PICK q \in parts : n[q] = i
          BY <2>9
        <5> QED
          BY <2>8, <5>1
      <4>3. \A q, r \in parts : k[q] = k[r] => q = r
        <5> TAKE q, r \in parts
        <5>1. k[q] = n[q] /\ k[r] = n[r]
          BY <2>8
        <5> QED
          BY <2>9, <5>1
      <4> QED
        BY <4>1, <4>2, <4>3
    <3>3. m \in 0 .. m /\ m \notin 0 .. m - 1 /\ \A i \in 0 .. m - 1 : i \in 0 .. m
      BY <1>2
    <3>4. \A q \in more : k[q] \in 0 .. m
      BY <2>5, <2>6, <3>2, <3>3
    <3>5. \A i \in 0 .. m : \E q \in more : k[q] = i
      BY <2>5, <2>6, <3>1, <3>2
    <3>6. \A q, r \in more : k[q] = k[r] => q = r
      <4> TAKE q, r \in more
      <4>1. q = p \/ q \in parts
        BY <2>6
      <4>2. r = p \/ r \in parts
        BY <2>6
      <4>3. \A t \in parts : k[t] # k[p]
        BY <2>5, <3>2, <3>3
      <4> QED
        BY <4>1, <4>2, <4>3, <3>2
    <3> QED
      BY <3>4, <3>5, <3>6
  <2>11. KindNumbered(k, K)
    <3> HIDE DEF m
    <3>1. Cardinality(more) - 1 = m
      BY <1>2, <2>7
    <3> QED
      BY <2>7, <2>10, <3>1 DEF KindNumbered
  <2>12. \A q \in more : q \in DOMAIN n \/ \A j \in more : k[j] <= k[q]
    <3> HIDE DEF m
    <3> HIDE DEF more
    <3>1. \A j \in more : k[j] <= k[p]
      <4> TAKE j \in more
      <4>1. k[j] \in 0 .. m
        BY <2>10
      <4>2. m \in Nat /\ k[p] = m
        BY <1>2, <2>5
      <4>3. k[j] <= m
        BY <4>1, <4>2
      <4> QED
        BY <4>2, <4>3
    <3> QED
      BY <2>6, <3>1
  <2> QED
    BY <1>1, <2>11, <2>12
<1> QED
  BY <1>3, <1>4

-----------------------------------------------------------------------------
(* What sysfs shows. *)

\* What discovery may say of card k.
Found(k, g) ==
  /\ g.vendor = Vendor[k]
  /\ g.busy \in PathOf(k, "busy") /\ g.temp \in PathOf(k, "temp") /\ g.vram \in PathOf(k, "vram")
  /\ Vendor[k] = "nvidia" => g.busy = None /\ g.vram = None

LowestLight(k) == \A j \in Registered(Cards) : Vendor[j] \in Light => num[k] <= num[j]

\* discoverGpu finds one card: the paths are its own, and it is the lowest AMD
\* or Intel card when there is one.
LEMMA DiscoverFinds ==
  ASSUME CardsNumbered(num), Registered(Cards) # {}
  PROVE  \E k \in Registered(Cards) :
           /\ Found(k, discoverGpu)
           /\ LowestLight(k)
           /\ (\E j \in Registered(Cards) : Vendor[j] \in Light) => Vendor[k] \in Light
<1> DEFINE lowest(ks) == CHOOSE k \in ks : \A j \in ks : num[k] <= num[j]
           first == {k \in Registered(Cards) : Vendor[k] \in {"amd", "intel"}}
           ks == IF first = {} THEN Registered(Cards) ELSE first
           card == lowest(ks)
           path(f) == IF <<card, f>> \in files THEN <<"card", num[card], f>> ELSE None
           amd(f) == IF Vendor[card] = "amd" THEN path(f) ELSE None
<1>1. ks # {} /\ ks \subseteq Registered(Cards)
  OBVIOUS
<1>2. \A k \in ks : num[k] \in Nat
  <2>1. \A k \in Registered(Cards) : num[k] \in 0 .. Cardinality(Registered(Cards)) - 1
    BY DEF CardsNumbered, KindNumbered, Registered
  <2> QED
    BY <1>1, <2>1
<1> HIDE DEF ks
<1>3. \E k \in ks : \A j \in ks : num[k] <= num[j]
  <2> DEFINE T == {num[k] : k \in ks}
  <2>1. T \in SUBSET Nat /\ T # {}
    BY <1>1, <1>2
  <2> HIDE DEF T
  <2>2. \E n \in T : \A i \in T : n <= i
    BY <2>1, LeastNumber
  <2> QED
    BY <2>2 DEF T
<1>4. card \in ks /\ \A j \in ks : num[card] <= num[j]
  BY <1>3
<1>5. discoverGpu = [vendor |-> Vendor[card], busy |-> amd("busy"), temp |-> path("temp"), vram |-> amd("vram")]
  BY DEF discoverGpu, ks
<1> HIDE DEF card
<1>6. Found(card, discoverGpu)
  BY <1>5 DEF Found, PathOf
<1>7. LowestLight(card) /\ ((\E j \in Registered(Cards) : Vendor[j] \in Light) => Vendor[card] \in Light)
  BY <1>4 DEF ks, LowestLight, Light
<1> QED
  BY <1>1, <1>4, <1>6, <1>7

\* A path of a card reads that card, or nothing.
LEMMA ReadsItsCard ==
  ASSUME CardsNumbered(num), NEW k \in Registered(Cards), NEW f, NEW path \in PathOf(k, f)
  PROVE  /\ Reading(path) \in ValueOf(k, f)
         /\ path = None => Reading(path) = None
<1> DEFINE kind == IF path = None THEN {}
                   ELSE CASE path[1] = "hwmon" -> Chips [] path[1] = "zone" -> Zones [] OTHER -> Cards
           owner == {p \in Registered(kind) : num[p] = path[2]}
           has(p) == CASE p \in Chips -> path[3] \in DOMAIN Label[p]
                       [] p \in Cards -> <<p, path[3]>> \in files [] OTHER -> TRUE
           found == {<<p, path[3]>> : p \in {q \in owner : has(q)}}
<1>1. Reading(path) = IF found = {} THEN None ELSE CHOOSE r \in found : TRUE
  BY DEF Reading
<1>2. CASE path = None
  <2>1. kind = {}
    BY <1>2
  <2> HIDE DEF kind
  <2>2. owner = {}
    BY <2>1 DEF Registered
  <2> HIDE DEF owner, has
  <2>3. found = {}
    BY <2>2
  <2> HIDE DEF found
  <2> QED
    BY <1>1, <1>2, <2>3 DEF ValueOf
<1>3. CASE path # None
  <2>1. path = <<"card", num[k], f>>
    BY <1>3 DEF PathOf
  <2>2. path[1] = "card" /\ path[2] = num[k] /\ path[3] = f
    BY <2>1
  <2>3. kind = Cards
    BY <1>3, <2>2
  <2>4. owner = {k}
    BY <2>2, <2>3 DEF CardsNumbered, KindNumbered, Registered
  <2> HIDE DEF has, owner
  <2>5. found \subseteq {<<k, f>>}
    BY <2>2, <2>4
  <2> HIDE DEF found
  <2> QED
    BY <1>1, <1>3, <2>5 DEF ValueOf
<1> QED
  BY <1>2, <1>3

-----------------------------------------------------------------------------
(* The invariant. *)

\* The parts of a machine are finitely many.
LEMMA MachineFinite == NumInv => \A ps \in SUBSET machine : IsFiniteSet(ps)
  BY PartsAssumption, FS_Subset DEF NumInv

\* No card is registered before the first boot.
LEMMA NumInit == Init => NumInv
<1> SUFFICES ASSUME Init PROVE NumInv
  OBVIOUS
<1>1. machine \in Machines /\ DOMAIN num = {}
  BY DEF Init
<1>2. ASSUME NEW K \in Kinds PROVE KindNumbered(num, K)
  <2>1. DOMAIN num \cap K = {}
    BY <1>1
  <2>2. IsFiniteSet({}) /\ Cardinality({}) = 0
    BY FS_EmptySet
  <2>3. 0 .. 0 - 1 = {}
    OBVIOUS
  <2> QED
    BY <2>1, <2>2, <2>3, Zenon DEF KindNumbered
<1> QED
  BY <1>1, <1>2 DEF NumInv

\* As long as no part goes away, every step leaves the cards numbered.
LEMMA NumStep == NumInv /\ [Next]_vars => NumInv'
<1> SUFFICES ASSUME NumInv, [Next]_vars PROVE NumInv'
  OBVIOUS
<1>0. machine \in Machines /\ DOMAIN num \subseteq machine /\ (~removed => \A K \in Kinds : KindNumbered(num, K))
  BY DEF NumInv
<1>1. ASSUME NEW ps \in SUBSET machine, NEW n \in Numberings(ps), NEW fs, Boot(n, fs)
      PROVE  NumInv'
  <2>1. num' = n /\ machine' = machine
    BY <1>1 DEF Boot
  <2>2. DOMAIN n = ps /\ \A K \in Kinds : KindNumbered(n, K)
    <3>1. IsFiniteSet(ps) /\ Cards \in Kinds
      BY MachineFinite DEF Kinds
    <3>2. \A K \in Kinds : DOMAIN n = ps /\ KindNumbered(n, K)
      BY <3>1, BootNumbers
    <3> QED
      BY <3>1, <3>2
  <2> QED
    BY <1>0, <2>1, <2>2 DEF NumInv
<1>2. ASSUME NEW p \in machine, Register(p) PROVE NumInv'
  <2>1. machine' = machine /\ removed' = removed /\ p \notin DOMAIN num
    BY <1>2 DEF Register, Change
  <2>2. PICK kind \in Kinds :
          p \in kind /\ num' = [q \in DOMAIN num \cup {p} |-> IF q = p THEN FreeNumber(num, kind) ELSE num[q]]
    BY <1>2, Zenon DEF Register, FreeNumber, Kinds
  <2>3. \A K \in Kinds : KindNumbered(num, K) => KindNumbered(num', K)
    BY <2>1, <2>2, NextNumber
  <2>4. DOMAIN num' \subseteq machine
    BY <1>0, <2>2
  <2> QED
    BY <1>0, <2>1, <2>3, <2>4 DEF NumInv
<1>3. ASSUME NEW p, Remove(p) PROVE NumInv'
  BY <1>0, <1>3 DEF Remove, Change, NumInv
<1>4. ASSUME NEW k, NEW f, AddFile(k, f) PROVE NumInv'
  BY <1>0, <1>4 DEF AddFile, Change, NumInv
<1>5. ASSUME NEW e, NEW among, Pick(e, among) PROVE NumInv'
  BY <1>0, <1>5 DEF Pick, Change, NumInv
<1>6. ASSUME NEW nv, NEW tip, Tick(nv, tip) PROVE NumInv'
  BY <1>0, <1>6 DEF Tick, hardware, NumInv
<1>7. CASE UNCHANGED vars
  BY <1>0, <1>7 DEF vars, hardware, NumInv
<1> QED
  BY <1>1, <1>2, <1>3, <1>4, <1>5, <1>6, <1>7 DEF Next

\* The program starts with nothing read.
LEMMA GpuInit == Init => GpuInv
  BY DEF Init, GpuInv, FromSysfs, FromNvml, Blank

\* A card keeps its number, and one that registers later gets a higher one.
LEMMA CardStays ==
  ASSUME NEW k \in Registered(Cards), OfCard(k),
         \A q \in DOMAIN num : q \in DOMAIN num' /\ num'[q] = num[q],
         \A q \in DOMAIN num' \cap Cards : q \in DOMAIN num \/ (\A j \in DOMAIN num' \cap Cards : num'[j] <= num'[q]),
         UNCHANGED gpus
  PROVE  k \in Registered(Cards)' /\ OfCard(k)'
<1>1. k \in DOMAIN num /\ k \in Cards /\ num'[k] = num[k] /\ k \in DOMAIN num'
  BY DEF Registered
<1>2. Vendor[k] \in Light =>
        \A j \in Registered(Cards)' : Vendor[j] \in Light => num'[k] <= num'[j]
  BY <1>1 DEF OfCard, Registered
<1> QED
  BY <1>1, <1>2 DEF OfCard, Registered, gpus, PathOf, ValueOf, Blank

\* No path, no reading.
LEMMA ReadsNothing == Reading(None) = None
<1> DEFINE kind == IF None = None THEN {}
                   ELSE CASE None[1] = "hwmon" -> Chips [] None[1] = "zone" -> Zones [] OTHER -> Cards
           owner == {p \in Registered(kind) : num[p] = None[2]}
           has(p) == CASE p \in Chips -> None[3] \in DOMAIN Label[p]
                       [] p \in Cards -> <<p, None[3]>> \in files [] OTHER -> TRUE
           found == {<<p, None[3]>> : p \in {q \in owner : has(q)}}
<1>1. Reading(None) = IF found = {} THEN None ELSE CHOOSE r \in found : TRUE
  BY DEF Reading
<1>2. kind = {}
  OBVIOUS
<1> HIDE DEF kind
<1>3. owner = {}
  BY <1>2 DEF Registered
<1> HIDE DEF owner, has
<1>4. found = {}
  BY <1>3
<1> HIDE DEF found
<1> QED
  BY <1>1, <1>4

\* A tick without an answer from NVML.
LEMMA SysfsTick ==
  ASSUME NEW tip \in BOOLEAN, SampleGpu({}, tip)
  PROVE  /\ gpu' = gpu \/ (gpu' = discoverGpu /\ gpuPathsIncomplete(gpu) /\ Registered(Cards) # {})
         /\ usage' \in {usage, Reading(gpu'.busy)}
         /\ temp' \in {temp, Reading(gpu'.temp)}
         /\ vram' \in {vram, Reading(gpu'.vram)}
         /\ model' = model
  BY DEF SampleGpu, sysfsTurn

\* A tick that NVML answers reads nothing from sysfs.
LEMMA NvmlTick ==
  ASSUME NEW nv, "available" \in nv, NEW tip \in BOOLEAN, SampleGpu(nv, tip)
  PROVE  /\ usage' \in {usage, <<NvCard, "usage">>}
         /\ temp' \in {temp, <<NvCard, "temp">>}
         /\ vram' \in {vram, <<NvCard, "vram">>}
         /\ model' \in {model, <<NvCard, "model">>}
  BY DEF SampleGpu, sysfsTurn, NvCard

\* The values are of card k, and so are the new paths: what they read is too.
LEMMA StillOfCard ==
  ASSUME CardsNumbered(num), num' = num, NEW k \in Registered(Cards), Found(k, gpu'),
         Vendor[k] \in Light => LowestLight(k),
         usage \in ValueOf(k, "busy"), temp \in ValueOf(k, "temp"), vram \in ValueOf(k, "vram"), model = None,
         Vendor[k] = "nvidia" /\ gpu'.temp = None => Blank,
         usage' \in {usage, Reading(gpu'.busy)}, temp' \in {temp, Reading(gpu'.temp)},
         vram' \in {vram, Reading(gpu'.vram)}, model' = model
  PROVE  FromSysfs'
<1>1. /\ gpu'.busy \in PathOf(k, "busy") /\ gpu'.temp \in PathOf(k, "temp") /\ gpu'.vram \in PathOf(k, "vram")
      /\ gpu'.vendor = Vendor[k]
      /\ Vendor[k] = "nvidia" => gpu'.busy = None /\ gpu'.vram = None
  BY DEF Found
<1>2. /\ Reading(gpu'.busy) \in ValueOf(k, "busy")
      /\ Reading(gpu'.temp) \in ValueOf(k, "temp")
      /\ Reading(gpu'.vram) \in ValueOf(k, "vram")
  BY <1>1, ReadsItsCard
<1>3. Registered(Cards)' = Registered(Cards)
  BY DEF Registered
<1>4. ASSUME Vendor[k] = "nvidia", gpu'.temp = None PROVE Blank'
  BY <1>1, <1>4, ReadsNothing DEF Blank
<1>5. Vendor[k] \in Light => \A j \in Registered(Cards) : Vendor[j] \in Light => num'[k] <= num'[j]
  BY DEF LowestLight
<1>6. /\ usage' \in ValueOf(k, "busy") /\ temp' \in ValueOf(k, "temp") /\ vram' \in ValueOf(k, "vram")
      /\ model' = None
  BY <1>2
<1>7. OfCard(k)'
  BY <1>1, <1>3, <1>4, <1>5, <1>6 DEF OfCard, PathOf, ValueOf
<1> QED
  BY <1>3, <1>7 DEF FromSysfs

\* A tick without NVML: a second walk of sysfs finds the card that has been
\* read, or nothing has been read yet.
LEMMA FromSysfsStays ==
  ASSUME CardsNumbered(num), num' = num, FromSysfs, NEW tip \in BOOLEAN, SampleGpu({}, tip)
  PROVE  FromSysfs'
<1>1. /\ gpu' = gpu \/ (gpu' = discoverGpu /\ gpuPathsIncomplete(gpu) /\ Registered(Cards) # {})
      /\ usage' \in {usage, Reading(gpu'.busy)}
      /\ temp' \in {temp, Reading(gpu'.temp)}
      /\ vram' \in {vram, Reading(gpu'.vram)}
      /\ model' = model
  BY SysfsTick
<1>2. ASSUME Blank, gpu' = discoverGpu, Registered(Cards) # {} PROVE FromSysfs'
  <2>1. PICK k \in Registered(Cards) : Found(k, discoverGpu) /\ LowestLight(k)
    BY <1>2, DiscoverFinds
  <2>2. Found(k, gpu')
    BY <1>2, <2>1
  <2>3. usage \in ValueOf(k, "busy") /\ temp \in ValueOf(k, "temp") /\ vram \in ValueOf(k, "vram") /\ model = None
    BY <1>2 DEF Blank, ValueOf
  <2> QED
    BY <1>1, <1>2, <2>1, <2>2, <2>3, StillOfCard
<1>3. CASE gpu = NoGpu /\ Blank
  <2>1. ASSUME gpu' = gpu PROVE FromSysfs'
    <3>0. NoGpu.busy = None /\ NoGpu.temp = None /\ NoGpu.vram = None
      BY Zenon DEF NoGpu
    <3>1. gpu'.busy = None /\ gpu'.temp = None /\ gpu'.vram = None /\ gpu' = NoGpu
      BY <1>3, <2>1, <3>0
    <3>2. Blank'
      BY <1>1, <1>3, <3>1, ReadsNothing DEF Blank
    <3> QED
      BY <3>1, <3>2 DEF FromSysfs
  <2> QED
    BY <1>1, <1>2, <1>3, <2>1
<1>4. ASSUME NEW k \in Registered(Cards), OfCard(k) PROVE FromSysfs'
  <2>1. /\ Vendor[k] \in Light => LowestLight(k)
        /\ usage \in ValueOf(k, "busy") /\ temp \in ValueOf(k, "temp") /\ vram \in ValueOf(k, "vram") /\ model = None
        /\ gpu.vendor = Vendor[k]
    BY <1>4 DEF OfCard, LowestLight
  <2>2. CASE gpu' = gpu
    <3>1. Found(k, gpu') /\ (Vendor[k] = "nvidia" /\ gpu'.temp = None => Blank)
      BY <1>4, <2>2 DEF OfCard, Found
    <3> QED
      BY <1>1, <2>1, <3>1, StillOfCard
  <2>3. CASE gpu' = discoverGpu /\ gpuPathsIncomplete(gpu) /\ Vendor[k] \in Light
    <3>1. PICK j \in Registered(Cards) : Found(j, discoverGpu) /\ LowestLight(j) /\ Vendor[j] \in Light
      BY <2>3, DiscoverFinds
    <3>2. num[k] <= num[j] /\ num[j] <= num[k]
      BY <2>1, <2>3, <3>1 DEF LowestLight
    <3>3. num[k] \in Nat /\ num[j] \in Nat
      BY DEF CardsNumbered, KindNumbered, Registered
    <3>4. j = k
      <4>1. num[k] = num[j]
        BY <3>2, <3>3
      <4> QED
        BY <4>1 DEF CardsNumbered, KindNumbered, Registered
    <3>5. Found(k, gpu') /\ Vendor[k] # "nvidia"
      BY <2>3, <3>1, <3>4 DEF Light
    <3> QED
      BY <1>1, <2>1, <3>5, StillOfCard
  <2>4. CASE gpu' = discoverGpu /\ gpuPathsIncomplete(gpu) /\ Vendor[k] = "nvidia"
    <3>1. gpu.temp = None
      BY <2>1, <2>4 DEF gpuPathsIncomplete
    <3>2. Blank
      BY <1>4, <2>4, <3>1 DEF OfCard
    <3> QED
      BY <1>2, <2>4, <3>2
  <2>5. Vendor[k] \in Light \/ Vendor[k] = "nvidia"
    BY PartsAssumption DEF Registered, Light
  <2> QED
    BY <1>1, <2>2, <2>3, <2>4, <2>5
<1> QED
  BY <1>3, <1>4 DEF FromSysfs

\* A tick keeps the invariant, whatever NVML answers.
LEMMA GpuTick ==
  ASSUME NumInv, GpuInv, NEW nv \in NvmlResults, NEW tip \in BOOLEAN, Tick(nv, tip)
  PROVE  GpuInv'
<1>0. /\ num' = num /\ removed' = removed /\ SampleGpu(nv, tip)
      /\ ~removed => CardsNumbered(num)
  BY DEF Tick, hardware, NumInv, CardsNumbered, Kinds
<1>1. nvml' = nvml \cup {"available" \in nv}
  BY <1>0 DEF SampleGpu
<1>2. nv = {} \/ "available" \in nv
  BY DEF NvmlResults
<1>3. ASSUME ~removed, nvml' \subseteq {FALSE} PROVE FromSysfs'
  <2>1. nvml \subseteq {FALSE} /\ ~("available" \in nv)
    BY <1>1, <1>3, Zenon
  <2>2. nv = {}
    BY <1>2, <2>1
  <2>3. SampleGpu({}, tip)
    BY <1>0, <2>2
  <2>4. FromSysfs
    BY <1>3, <2>1, Zenon DEF GpuInv
  <2> QED
    BY <1>0, <1>3, <2>3, <2>4, FromSysfsStays
<1>4. ASSUME ~removed, nvml' \subseteq {TRUE} PROVE FromNvml'
  <2>1. nvml \subseteq {TRUE} /\ "available" \in nv
    BY <1>1, <1>4, Zenon
  <2>2. FromNvml
    BY <1>4, <2>1, Zenon DEF GpuInv
  <2>3. /\ usage' \in {usage, <<NvCard, "usage">>}
        /\ temp' \in {temp, <<NvCard, "temp">>}
        /\ vram' \in {vram, <<NvCard, "vram">>}
        /\ model' \in {model, <<NvCard, "model">>}
    BY <1>0, <2>1, NvmlTick
  <2> QED
    BY <2>2, <2>3 DEF FromNvml
<1> QED
  BY <1>0, <1>3, <1>4, Zenon DEF GpuInv

\* A step that reads nothing and leaves the cards their numbers.
LEMMA GpuKept ==
  ASSUME GpuInv, UNCHANGED gpus, removed' = removed,
         \A q \in DOMAIN num : q \in DOMAIN num' /\ num'[q] = num[q],
         \A q \in DOMAIN num' \cap Cards : q \in DOMAIN num \/ (\A j \in DOMAIN num' \cap Cards : num'[j] <= num'[q])
  PROVE  GpuInv'
<1>1. ASSUME FromSysfs PROVE FromSysfs'
  <2>1. CASE gpu = NoGpu /\ Blank
    BY <2>1 DEF gpus, Blank, FromSysfs
  <2>2. ASSUME NEW k \in Registered(Cards), OfCard(k) PROVE FromSysfs'
    <3>1. k \in Registered(Cards)' /\ OfCard(k)'
      BY <2>2, CardStays
    <3> QED
      BY <3>1 DEF FromSysfs
  <2> QED
    BY <1>1, <2>1, <2>2 DEF FromSysfs
<1>2. FromNvml => FromNvml'
  BY DEF gpus, FromNvml
<1>3. nvml' = nvml
  BY DEF gpus
<1> QED
  BY <1>1, <1>2, <1>3, Zenon DEF GpuInv

\* Every step keeps the invariant.
LEMMA GpuStep == NumInv /\ GpuInv /\ [Next]_vars => GpuInv'
<1> SUFFICES ASSUME NumInv, GpuInv, [Next]_vars PROVE GpuInv'
  OBVIOUS
<1>0. ~removed => CardsNumbered(num)
  BY DEF NumInv, CardsNumbered, Kinds
<1>1. ASSUME NEW n, NEW fs, Boot(n, fs) PROVE GpuInv'
  BY <1>1 DEF Boot, Start, GpuInv, FromSysfs, FromNvml, Blank
<1>2. ASSUME NEW p \in machine, Register(p) PROVE GpuInv'
  <2>1. UNCHANGED gpus /\ removed' = removed /\ p \notin DOMAIN num
    BY <1>2 DEF Register
  <2>2. PICK kind \in Kinds :
          p \in kind /\ num' = [q \in DOMAIN num \cup {p} |-> IF q = p THEN FreeNumber(num, kind) ELSE num[q]]
    BY <1>2, Zenon DEF Register, FreeNumber, Kinds
  <2>3. ASSUME CardsNumbered(num) PROVE GpuInv'
    <3>1. /\ \A q \in DOMAIN num : q \in DOMAIN num' /\ num'[q] = num[q]
          /\ \A q \in DOMAIN num' \cap Cards :
               q \in DOMAIN num \/ (\A j \in DOMAIN num' \cap Cards : num'[j] <= num'[q])
      <4>1. Cards \in Kinds /\ KindNumbered(num, Cards)
        BY <2>3 DEF CardsNumbered, Kinds
      <4> QED
        BY <2>1, <2>2, <4>1, NextNumber
    <3> QED
      BY <2>1, <3>1, GpuKept
  <2> QED
    BY <1>0, <2>1, <2>3 DEF GpuInv
<1>3. ASSUME NEW p, Remove(p) PROVE GpuInv'
  BY <1>3 DEF Remove, GpuInv
<1>4. ASSUME UNCHANGED <<num, gpus, removed>> PROVE GpuInv'
  BY <1>4, GpuKept
<1>5. ASSUME NEW k, NEW f, AddFile(k, f) PROVE GpuInv'
  BY <1>4, <1>5 DEF AddFile
<1>6. ASSUME NEW e, NEW among, Pick(e, among) PROVE GpuInv'
  BY <1>4, <1>6 DEF Pick
<1>7. ASSUME NEW nv \in NvmlResults, NEW tip \in BOOLEAN, Tick(nv, tip) PROVE GpuInv'
  BY <1>7, GpuTick
<1>8. CASE UNCHANGED vars
  BY <1>4, <1>8 DEF vars, hardware
<1> QED
  BY <1>1, <1>2, <1>3, <1>5, <1>6, <1>7, <1>8 DEF Next

\* The history of NVML holds truth values.
NvmlBoolean == nvml \subseteq BOOLEAN

\* All rows are of the card the invariant names.
LEMMA OneCardFollows == GpuInv /\ NvmlBoolean => GpuRowsOneCard
<1> SUFFICES ASSUME GpuInv, NvmlBoolean, nvml # BOOLEAN, ~removed
             PROVE  \A r, q \in buildStatRows(gpuDetail) : r.value[1] = q.value[1]
  BY Zenon DEF GpuRowsOneCard
<1>1. nvml \subseteq {FALSE} \/ nvml \subseteq {TRUE}
  BY Zenon DEF NvmlBoolean
<1>2. FromSysfs \/ FromNvml
  BY <1>1, Zenon DEF GpuInv
<1>3. PICK k : \A v \in {usage, temp, model, vram} : v = None \/ v[1] = k
  BY <1>2 DEF FromSysfs, FromNvml, Blank, OfCard, ValueOf
<1>4. \A f \in DOMAIN gpuDetail : gpuDetail[f] \in {None, usage, temp, model, vram}
  BY DEF gpuDetail
<1>5. \A r \in buildStatRows(gpuDetail) : r.value[1] = k
  <2> TAKE r \in buildStatRows(gpuDetail)
  <2>1. PICK f \in DOMAIN gpuDetail : gpuDetail[f] # None /\ r = [label |-> f, value |-> gpuDetail[f]]
    BY DEF buildStatRows
  <2> QED
    BY <1>3, <1>4, <2>1
<1> QED
  BY <1>5

\* NVML answers a tick or does not.
LEMMA NvmlStep == NvmlBoolean /\ [Next]_vars => NvmlBoolean'
<1> SUFFICES ASSUME NvmlBoolean, [Next]_vars PROVE NvmlBoolean'
  OBVIOUS
<1>1. nvml' = nvml \/ nvml' = {} \/ \E nv : nvml' = nvml \cup {"available" \in nv}
  BY DEF Next, Boot, Start, Register, Remove, AddFile, Pick, Tick, SampleGpu, vars, gpus
<1>2. ASSUME NEW nv, nvml' = nvml \cup {"available" \in nv} PROVE NvmlBoolean'
  <2>1. ("available" \in nv) \in BOOLEAN
    OBVIOUS
  <2> QED
    BY <1>2, <2>1, Zenon DEF NvmlBoolean
<1>3. nvml' = nvml => NvmlBoolean'
  BY Zenon DEF NvmlBoolean
<1>4. nvml' = {} => NvmlBoolean'
  BY Zenon DEF NvmlBoolean
<1> QED
  BY <1>1, <1>2, <1>3, <1>4, Zenon

\* As long as NVML does not come and go, all that the ring and its tooltip show
\* is of one card, on every machine.
THEOREM GpuRowsOneCardHolds == Spec => []GpuRowsOneCard
<1> DEFINE Inv == NumInv /\ GpuInv /\ NvmlBoolean
<1>1. Init => Inv
  BY NumInit, GpuInit DEF Init, NvmlBoolean
<1>2. Inv /\ [Next]_vars => Inv'
  BY NumStep, GpuStep, NvmlStep
<1>3. Inv => GpuRowsOneCard
  BY OneCardFollows
<1> QED
  BY <1>1, <1>2, <1>3, PTL DEF Spec

-----------------------------------------------------------------------------
(* SensorDiscovery: the chosen sensor. *)

\* The zones that no chip of S exposes.
ShownZones(S) == {z \in Zones \cap S : \A c \in Chips \cap S : Mirrors[c] # z}

\* Input i of part p is listed when S is registered, ...
SensorIn(p, i, S) == \/ p \in Chips \cap S /\ i \in DOMAIN Label[p]
                     \/ p \in ShownZones(S) /\ i = 0

\* ... under this id, with this path.
DeviceIn(p, S) ==
  IF p \in Chips
  THEN IF Mirrors[p] \in Zones \cap S THEN <<"zone", num[Mirrors[p]]>> ELSE Device[p]
  ELSE IF Device[p] = None THEN <<"zone", num[p]>> ELSE Device[p]
Peers(p, S) == IF p \in Chips THEN Chips \cap S ELSE ShownZones(S)
IdIn(p, i, S) == <<Stem(p, DeviceIn(p, S), Peers(p, S)), i>>
PathTo(p, i) == <<IF p \in Chips THEN "hwmon" ELSE "zone", num[p], i>>

CatalogOf(S, entries) ==
  /\ \A e \in entries : \E p, i : SensorIn(p, i, S) /\ e.id = IdIn(p, i, S) /\ e.path = PathTo(p, i)
  /\ \A p, i : SensorIn(p, i, S) =>
       \E e \in entries : e.id = IdIn(p, i, S) /\ e.path = PathTo(p, i)

\* Nothing else in S has the name and device of p: its id is its own, and the
\* same under other numbers.
Alone(p, S) ==
  /\ p \in Chips => Mirrors[p] \notin Zones
  /\ \A q \in ((Chips \cup Zones) \cap S) \ {p} :
       Name[q] = Name[p] => Device[p] # None /\ Device[q] # None /\ Device[q] # Device[p]
StableId(p, i, S) == <<Stem(p, Device[p], Peers(p, S)), i>>

\* Since the boot no part went away: the catalog lists what was seen.
SeenInv == ~removed => seen \subseteq DOMAIN num /\ CatalogOf(seen, catalog)

\* The id kept is the chosen part's.
PickInv == sensorTempId # None =>
  \E p, i : /\ picked.part = <<p, i>> /\ SensorIn(p, i, picked.among)
            /\ Alone(p, picked.among) => sensorTempId = StableId(p, i, picked.among)

\* The path read is of the id kept.
PathInv == sensorTempId # None => sensorPath \in resolveSensorPaths(catalog, sensorTempId)

Chosen == sensorTempId # None /\ ~removed /\ seen = picked.among /\ OneOfItsId(picked.part)
TempInv == Chosen => sensorTemp \in {None, picked.part}

-----------------------------------------------------------------------------
\* Making labels unique changes neither ids nor paths.
LEMMA OnlyLabels ==
  ASSUME NEW entries, \A f \in entries : \E a, b, c : f = [id |-> a, label |-> b, path |-> c]
  PROVE  /\ \A e \in _disambiguateLabels(entries) : \E f \in entries : e.id = f.id /\ e.path = f.path
         /\ \A f \in entries : \E e \in _disambiguateLabels(entries) : e.id = f.id /\ e.path = f.path
<1> DEFINE form(e) == IF <<e.label, None>> = e.id[1] THEN <<e.label>> ELSE <<e.label, e.id[1]>>
           lab(e) == IF \E f \in entries \ {e} : form(f) = form(e) THEN <<e.label>> \o e.id ELSE form(e)
<1>1. _disambiguateLabels(entries) = {[e EXCEPT !.label = lab(e)] : e \in entries}
  BY Zenon DEF _disambiguateLabels
<1> HIDE DEF lab
<1>2. ASSUME NEW f \in entries
      PROVE  [f EXCEPT !.label = lab(f)].id = f.id /\ [f EXCEPT !.label = lab(f)].path = f.path
  <2>1. PICK a, b, c : f = [id |-> a, label |-> b, path |-> c]
    OBVIOUS
  <2> QED
    BY <2>1
<1> QED
  BY <1>1, <1>2

\* The catalog of the chips.
LEMMA ChipsListed ==
  ASSUME NEW chips
  PROVE  /\ \A e \in buildCatalog(chips) : \E c \in chips : \E i \in DOMAIN Label[c] :
              e.id = <<Stem(c, ChipDevice(c), chips), i>> /\ e.path = <<"hwmon", num[c], i>>
         /\ \A c \in chips : \A i \in DOMAIN Label[c] : \E e \in buildCatalog(chips) :
              e.id = <<Stem(c, ChipDevice(c), chips), i>> /\ e.path = <<"hwmon", num[c], i>>
<1> DEFINE id(c, i) == <<Stem(c, ChipDevice(c), chips), i>>
           lab(c, i) == IF Label[c][i] = "" THEN ToString(i) ELSE Label[c][i]
           entry(c, i) == [id |-> id(c, i), label |-> lab(c, i), path |-> <<"hwmon", num[c], i>>]
           raw == UNION {{entry(c, i) : i \in DOMAIN Label[c]} : c \in chips}
<1>1. buildCatalog(chips) = _disambiguateLabels(raw)
  BY Zenon DEF buildCatalog
<1> HIDE DEF lab, id
<1>2. /\ \A e \in raw : \E c \in chips : \E i \in DOMAIN Label[c] : e = entry(c, i)
      /\ \A c \in chips : \A i \in DOMAIN Label[c] : entry(c, i) \in raw
  OBVIOUS
<1> HIDE DEF raw
<1>3. \A f \in raw : \E a, b, c : f = [id |-> a, label |-> b, path |-> c]
  BY <1>2
<1>4. /\ \A e \in buildCatalog(chips) : \E f \in raw : e.id = f.id /\ e.path = f.path
      /\ \A f \in raw : \E e \in buildCatalog(chips) : e.id = f.id /\ e.path = f.path
  BY <1>1, <1>3, OnlyLabels
<1>5. \A c, i : entry(c, i).id = id(c, i) /\ entry(c, i).path = <<"hwmon", num[c], i>>
  OBVIOUS
<1> HIDE DEF entry
<1>6. /\ \A e \in buildCatalog(chips) : \E c \in chips : \E i \in DOMAIN Label[c] :
           e.id = id(c, i) /\ e.path = <<"hwmon", num[c], i>>
      /\ \A c \in chips : \A i \in DOMAIN Label[c] : \E e \in buildCatalog(chips) :
           e.id = id(c, i) /\ e.path = <<"hwmon", num[c], i>>
  <2>1. ASSUME NEW e \in buildCatalog(chips)
        PROVE  \E c \in chips : \E i \in DOMAIN Label[c] : e.id = id(c, i) /\ e.path = <<"hwmon", num[c], i>>
    <3>1. PICK f \in raw : e.id = f.id /\ e.path = f.path
      BY <1>4
    <3>2. PICK c \in chips : \E i \in DOMAIN Label[c] : f = entry(c, i)
      BY <1>2
    <3>3. PICK i \in DOMAIN Label[c] : f = entry(c, i)
      BY <3>2
    <3>4. f.id = id(c, i) /\ f.path = <<"hwmon", num[c], i>>
      BY <1>5, <3>3, Zenon
    <3> QED
      BY <3>1, <3>4, Zenon
  <2>2. ASSUME NEW c \in chips, NEW i \in DOMAIN Label[c]
        PROVE  \E e \in buildCatalog(chips) : e.id = id(c, i) /\ e.path = <<"hwmon", num[c], i>>
    <3>1. entry(c, i) \in raw
      BY <1>2, Zenon
    <3>2. PICK e \in buildCatalog(chips) : e.id = entry(c, i).id /\ e.path = entry(c, i).path
      BY <1>4, <3>1, Zenon
    <3> QED
      BY <1>5, <3>2, Zenon
  <2> QED
    BY <2>1, <2>2, Zenon
<1> QED
  BY <1>6, Zenon DEF id

\* The catalog of the thermal zones.
LEMMA ZonesListed ==
  ASSUME NEW zones
  PROVE  /\ \A e \in buildThermalCatalog(zones) : \E z \in zones :
              /\ e.id = <<Stem(z, IF Device[z] = None THEN <<"zone", num[z]>> ELSE Device[z], zones), 0>>
              /\ e.path = <<"zone", num[z], 0>>
         /\ \A z \in zones : \E e \in buildThermalCatalog(zones) :
              /\ e.id = <<Stem(z, IF Device[z] = None THEN <<"zone", num[z]>> ELSE Device[z], zones), 0>>
              /\ e.path = <<"zone", num[z], 0>>
<1> DEFINE id(z) == <<Stem(z, IF Device[z] = None THEN <<"zone", num[z]>> ELSE Device[z], zones), 0>>
           entry(z) == [id |-> id(z), label |-> Name[z], path |-> <<"zone", num[z], 0>>]
           raw == {entry(z) : z \in zones}
<1>1. buildThermalCatalog(zones) = _disambiguateLabels(raw)
  BY Zenon DEF buildThermalCatalog
<1> HIDE DEF id
<1>2. \A f \in raw : \E a, b, c : f = [id |-> a, label |-> b, path |-> c]
  OBVIOUS
<1>3. /\ \A e \in raw : \E z \in zones : e = entry(z)
      /\ \A z \in zones : entry(z) \in raw
  OBVIOUS
<1> HIDE DEF raw
<1>4. /\ \A e \in buildThermalCatalog(zones) : \E f \in raw : e.id = f.id /\ e.path = f.path
      /\ \A f \in raw : \E e \in buildThermalCatalog(zones) : e.id = f.id /\ e.path = f.path
  BY <1>1, <1>2, OnlyLabels
<1>5. \A z : entry(z).id = id(z) /\ entry(z).path = <<"zone", num[z], 0>>
  OBVIOUS
<1> HIDE DEF entry
<1>6. /\ \A e \in buildThermalCatalog(zones) : \E z \in zones : e.id = id(z) /\ e.path = <<"zone", num[z], 0>>
      /\ \A z \in zones : \E e \in buildThermalCatalog(zones) : e.id = id(z) /\ e.path = <<"zone", num[z], 0>>
  <2>1. ASSUME NEW e \in buildThermalCatalog(zones)
        PROVE  \E z \in zones : e.id = id(z) /\ e.path = <<"zone", num[z], 0>>
    <3>1. PICK f \in raw : e.id = f.id /\ e.path = f.path
      BY <1>4, Zenon
    <3>2. PICK z \in zones : f = entry(z)
      BY <1>3, Zenon
    <3>3. f.id = id(z) /\ f.path = <<"zone", num[z], 0>>
      BY <1>5, <3>2, Zenon
    <3> QED
      BY <3>1, <3>3, Zenon
  <2>2. ASSUME NEW z \in zones
        PROVE  \E e \in buildThermalCatalog(zones) : e.id = id(z) /\ e.path = <<"zone", num[z], 0>>
    <3>1. PICK e \in buildThermalCatalog(zones) : e.id = entry(z).id /\ e.path = entry(z).path
      BY <1>3, <1>4, Zenon
    <3> QED
      BY <1>5, <3>1, Zenon
  <2> QED
    BY <2>1, <2>2, Zenon
<1> QED
  BY <1>6, Zenon DEF id

\* A chip mirrors a zone by the zone's number, and every zone has its own.
LEMMA ZonesFiltered ==
  ASSUME KindNumbered(num, Zones)
  PROVE  filterMirroredZones(Registered(Chips), Registered(Zones)) = ShownZones(DOMAIN num)
<1>1. \A z \in Registered(Zones) : num[z] \in Nat
  BY DEF KindNumbered, Registered
<1>2. \A y, z \in Registered(Zones) : num[y] = num[z] => y = z
  BY DEF KindNumbered, Registered
<1>3. ASSUME NEW c \in Registered(Chips), NEW z \in Registered(Zones)
      PROVE  ChipDevice(c) = <<"zone", num[z]>> <=> Mirrors[c] = z
  <2>1. CASE Mirrors[c] \in Registered(Zones)
    <3>1. ChipDevice(c) = <<"zone", num[Mirrors[c]]>>
      BY <2>1 DEF ChipDevice
    <3> QED
      BY <1>2, <2>1, <3>1
  <2>2. CASE Mirrors[c] \notin Registered(Zones)
    <3>1. ChipDevice(c) = Device[c] /\ Device[c] \notin {"zone"} \X Nat
      BY <2>2, SensorsAssumption DEF ChipDevice, Registered
    <3>2. <<"zone", num[z]>> \in {"zone"} \X Nat
      BY <1>1
    <3> QED
      BY <2>2, <3>1, <3>2
  <2> QED
    BY <2>1, <2>2
<1> QED
  BY <1>3 DEF filterMirroredZones, ShownZones, Registered

\* What a walk of sysfs lists.
LEMMA EnumerateLists ==
  (\A K \in Kinds : KindNumbered(num, K)) => CatalogOf(DOMAIN num, enumerate)
<1> SUFFICES ASSUME \A K \in Kinds : KindNumbered(num, K) PROVE CatalogOf(DOMAIN num, enumerate)
  OBVIOUS
<1> DEFINE S == DOMAIN num
           chips == Registered(Chips)
           zones == ShownZones(S)
<1>1. enumerate = buildCatalog(chips) \cup buildThermalCatalog(zones)
  <2>1. KindNumbered(num, Zones)
    BY DEF Kinds
  <2> QED
    BY <2>1, ZonesFiltered, Zenon DEF enumerate
<1>2. chips = Chips \cap S /\ zones \subseteq Zones
  BY DEF Registered, ShownZones
<1>3. ASSUME NEW c \in chips, NEW i \in DOMAIN Label[c]
      PROVE  /\ SensorIn(c, i, S)
             /\ <<Stem(c, ChipDevice(c), chips), i>> = IdIn(c, i, S)
             /\ <<"hwmon", num[c], i>> = PathTo(c, i)
  <2>1. ChipDevice(c) = DeviceIn(c, S)
    BY <1>2 DEF ChipDevice, DeviceIn, Registered
  <2>2. Peers(c, S) = chips
    BY <1>2 DEF Peers
  <2>3. <<Stem(c, ChipDevice(c), chips), i>> = IdIn(c, i, S)
    BY <2>1, <2>2, Zenon DEF IdIn
  <2> QED
    BY <1>2, <2>3 DEF SensorIn, PathTo
<1>4. ASSUME NEW z \in zones
      PROVE  /\ SensorIn(z, 0, S)
             /\ <<Stem(z, IF Device[z] = None THEN <<"zone", num[z]>> ELSE Device[z], zones), 0>> = IdIn(z, 0, S)
             /\ <<"zone", num[z], 0>> = PathTo(z, 0)
  <2>1. z \notin Chips
    BY <1>2, KindsDisjoint
  <2>2. DeviceIn(z, S) = (IF Device[z] = None THEN <<"zone", num[z]>> ELSE Device[z]) /\ Peers(z, S) = zones
    BY <2>1 DEF DeviceIn, Peers
  <2>3. <<Stem(z, IF Device[z] = None THEN <<"zone", num[z]>> ELSE Device[z], zones), 0>> = IdIn(z, 0, S)
    BY <2>2, Zenon DEF IdIn
  <2> QED
    BY <2>1, <2>3 DEF SensorIn, PathTo
<1>5. ASSUME NEW e \in enumerate
      PROVE  \E p, i : SensorIn(p, i, S) /\ e.id = IdIn(p, i, S) /\ e.path = PathTo(p, i)
  <2>1. CASE e \in buildCatalog(chips)
    <3>1. PICK c \in chips : \E i \in DOMAIN Label[c] :
            e.id = <<Stem(c, ChipDevice(c), chips), i>> /\ e.path = <<"hwmon", num[c], i>>
      <4>1. \A f \in buildCatalog(chips) : \E c \in chips : \E i \in DOMAIN Label[c] :
              f.id = <<Stem(c, ChipDevice(c), chips), i>> /\ f.path = <<"hwmon", num[c], i>>
        BY ChipsListed
      <4> QED
        BY <2>1, <4>1, Zenon
    <3>2. PICK i \in DOMAIN Label[c] :
            e.id = <<Stem(c, ChipDevice(c), chips), i>> /\ e.path = <<"hwmon", num[c], i>>
      BY <3>1
    <3> QED
      BY <1>3, <3>2, Zenon
  <2>2. CASE e \in buildThermalCatalog(zones)
    <3>1. PICK z \in zones :
            /\ e.id = <<Stem(z, IF Device[z] = None THEN <<"zone", num[z]>> ELSE Device[z], zones), 0>>
            /\ e.path = <<"zone", num[z], 0>>
      BY <2>2, ZonesListed, Zenon
    <3> QED
      BY <1>4, <3>1, Zenon
  <2> QED
    BY <1>1, <2>1, <2>2
<1>6. ASSUME NEW p, NEW i, SensorIn(p, i, S)
      PROVE  \E e \in enumerate : e.id = IdIn(p, i, S) /\ e.path = PathTo(p, i)
  <2>1. CASE p \in chips /\ i \in DOMAIN Label[p]
    <3>1. PICK e \in buildCatalog(chips) :
            e.id = <<Stem(p, ChipDevice(p), chips), i>> /\ e.path = <<"hwmon", num[p], i>>
      BY <2>1, ChipsListed, Zenon
    <3> QED
      BY <1>1, <1>3, <2>1, <3>1, Zenon
  <2>2. CASE p \in zones /\ i = 0
    <3>1. PICK e \in buildThermalCatalog(zones) :
            /\ e.id = <<Stem(p, IF Device[p] = None THEN <<"zone", num[p]>> ELSE Device[p], zones), 0>>
            /\ e.path = <<"zone", num[p], 0>>
      BY <2>2, ZonesListed, Zenon
    <3>2. e \in enumerate
      BY <1>1, <3>1
    <3> QED
      BY <1>4, <2>2, <3>1, <3>2, Zenon
  <2> QED
    BY <1>2, <1>6, <2>1, <2>2 DEF SensorIn
<1> QED
  BY <1>5, <1>6 DEF CatalogOf

\* What is listed stays where it is while parts only register.
LEMMA CatalogStays ==
  ASSUME NEW S, NEW entries, S \subseteq DOMAIN num, CatalogOf(S, entries),
         \A q \in DOMAIN num : q \in DOMAIN num' /\ num'[q] = num[q]
  PROVE  CatalogOf(S, entries)'
<1>1. ASSUME NEW p, NEW i, SensorIn(p, i, S)
      PROVE  IdIn(p, i, S)' = IdIn(p, i, S) /\ PathTo(p, i)' = PathTo(p, i)
  <2>1. p \in S /\ num'[p] = num[p]
    BY <1>1 DEF SensorIn, ShownZones
  <2>2. Mirrors[p] \in Zones \cap S => num'[Mirrors[p]] = num[Mirrors[p]]
    OBVIOUS
  <2>3. DeviceIn(p, S)' = DeviceIn(p, S)
    BY <2>1, <2>2 DEF DeviceIn
  <2>4. PathTo(p, i)' = PathTo(p, i)
    BY <2>1 DEF PathTo
  <2>5. IdIn(p, i, S)' = IdIn(p, i, S)
    BY <2>3, Zenon DEF IdIn
  <2> QED
    BY <2>4, <2>5
<1>2. ASSUME NEW e \in entries
      PROVE  \E p, i : SensorIn(p, i, S) /\ e.id = IdIn(p, i, S)' /\ e.path = PathTo(p, i)'
  <2>1. PICK p, i : SensorIn(p, i, S) /\ e.id = IdIn(p, i, S) /\ e.path = PathTo(p, i)
    BY Zenon DEF CatalogOf
  <2>2. IdIn(p, i, S)' = IdIn(p, i, S) /\ PathTo(p, i)' = PathTo(p, i)
    BY <1>1, <2>1
  <2> QED
    BY <2>1, <2>2, Zenon
<1>3. ASSUME NEW p, NEW i, SensorIn(p, i, S)
      PROVE  \E e \in entries : e.id = IdIn(p, i, S)' /\ e.path = PathTo(p, i)'
  <2>1. PICK e \in entries : e.id = IdIn(p, i, S) /\ e.path = PathTo(p, i)
    BY <1>3, Zenon DEF CatalogOf
  <2>2. IdIn(p, i, S)' = IdIn(p, i, S) /\ PathTo(p, i)' = PathTo(p, i)
    BY <1>1, <1>3
  <2> QED
    BY <2>1, <2>2, Zenon
<1> QED
  BY <1>2, <1>3, Zenon DEF CatalogOf

\* The path of a part reads that part.
LEMMA ReadsItsSensor ==
  ASSUME \A K \in Kinds : KindNumbered(num, K), NEW S, S \subseteq DOMAIN num,
         NEW p, NEW i, SensorIn(p, i, S)
  PROVE  Reading(PathTo(p, i)) = <<p, i>>
<1> DEFINE path == PathTo(p, i)
           kind == IF path = None THEN {}
                   ELSE CASE path[1] = "hwmon" -> Chips [] path[1] = "zone" -> Zones [] OTHER -> Cards
           owner == {q \in Registered(kind) : num[q] = path[2]}
           has(q) == CASE q \in Chips -> path[3] \in DOMAIN Label[q]
                       [] q \in Cards -> <<q, path[3]>> \in files [] OTHER -> TRUE
           found == {<<q, path[3]>> : q \in {r \in owner : has(r)}}
           K == IF p \in Chips THEN Chips ELSE Zones
<1>1. Reading(path) = IF found = {} THEN None ELSE CHOOSE r \in found : TRUE
  BY DEF Reading
<1>2. path = <<IF p \in Chips THEN "hwmon" ELSE "zone", num[p], i>>
  BY DEF PathTo
<1>3. path # None /\ path[1] = (IF p \in Chips THEN "hwmon" ELSE "zone") /\ path[2] = num[p] /\ path[3] = i
  BY <1>2 DEF None
<1>4. kind = K
  <2> HIDE DEF path
  <2> QED
    BY <1>3
<1>5. p \in Registered(K) /\ p \in S
  BY DEF SensorIn, ShownZones, Registered
<1>6. K \in Kinds
  BY DEF Kinds
<1> HIDE DEF path, kind, K
<1>7. \A q \in Registered(K) : num[q] = num[p] => q = p
  BY <1>5, <1>6 DEF KindNumbered, Registered
<1>8. owner = {p}
  BY <1>3, <1>4, <1>5, <1>7
<1>9. has(p)
  <2>1. CASE p \in Chips
    <3>1. i \in DOMAIN Label[p]
      BY <2>1, KindsDisjoint DEF SensorIn, ShownZones
    <3> QED
      BY <1>3, <2>1, <3>1, KindsDisjoint
  <2>2. CASE p \notin Chips
    <3>1. p \in Zones /\ p \notin Cards
      BY <2>2, KindsDisjoint DEF SensorIn, ShownZones
    <3> QED
      BY <2>2, <3>1
  <2> QED
    BY <2>1, <2>2
<1> HIDE DEF owner, has
<1>10. found = {<<p, i>>}
  BY <1>3, <1>8, <1>9
<1> HIDE DEF found
<1> QED
  BY <1>1, <1>10 DEF path

\* Alone in S, a part is listed under the id that needs no number.
LEMMA StableIdIn ==
  ASSUME NEW S, NEW p, NEW i, SensorIn(p, i, S), Alone(p, S)
  PROVE  IdIn(p, i, S) = StableId(p, i, S)
<1>1. Peers(p, S) \subseteq (Chips \cup Zones) \cap S
  BY DEF Peers, ShownZones
<1>2. CASE \E q \in Peers(p, S) \ {p} : Name[q] = Name[p]
  <2>1. Device[p] # None
    BY <1>1, <1>2 DEF Alone
  <2>2. DeviceIn(p, S) = Device[p]
    BY <2>1 DEF DeviceIn, Alone
  <2> QED
    BY <2>2, Zenon DEF IdIn, StableId
<1>3. CASE ~\E q \in Peers(p, S) \ {p} : Name[q] = Name[p]
  <2>1. \A d : Stem(p, d, Peers(p, S)) = <<Name[p], None>>
    BY <1>3, Zenon DEF Stem
  <2> QED
    BY <2>1, Zenon DEF IdIn, StableId
<1> QED
  BY <1>2, <1>3

\* Alone in S, no other part has its id.
LEMMA OneEntry ==
  ASSUME \A K \in Kinds : KindNumbered(num, K), NEW S, S \subseteq DOMAIN num,
         NEW p, NEW i, SensorIn(p, i, S), Alone(p, S),
         NEW q, NEW j, SensorIn(q, j, S), IdIn(q, j, S) = IdIn(p, i, S)
  PROVE  q = p /\ j = i
<1>1. j = i
  BY DEF IdIn
<1>2. Stem(q, DeviceIn(q, S), Peers(q, S)) = Stem(p, DeviceIn(p, S), Peers(p, S))
  BY Zenon DEF IdIn
<1>3. Name[q] = Name[p]
  BY <1>2 DEF Stem
<1>4. p \in (Chips \cup Zones) \cap S /\ q \in (Chips \cup Zones) \cap S
  BY DEF SensorIn, ShownZones
<1>5. (p \in Chips <=> q \in Chips) /\ (p \in Chips => i # 0)
  <2>1. p \in Chips => i # 0
    BY SensorsAssumption, KindsDisjoint DEF SensorIn, ShownZones
  <2>2. q \in Chips => j # 0
    BY SensorsAssumption, KindsDisjoint DEF SensorIn, ShownZones
  <2>3. p \notin Chips => i = 0
    BY DEF SensorIn
  <2>4. q \notin Chips => j = 0
    BY DEF SensorIn
  <2> QED
    BY <1>1, <2>1, <2>2, <2>3, <2>4
<1>6. Peers(p, S) = Peers(q, S) /\ p \in Peers(p, S) /\ q \in Peers(p, S)
  BY <1>5, KindsDisjoint DEF Peers, SensorIn, ShownZones
<1>7. ASSUME q # p PROVE FALSE
  <2>1. Device[p] # None /\ Device[q] # None /\ Device[q] # Device[p]
    BY <1>3, <1>4, <1>7 DEF Alone
  <2>2. Stem(p, DeviceIn(p, S), Peers(p, S)) = <<Name[p], DeviceIn(p, S)>>
    BY <1>3, <1>6, <1>7 DEF Stem
  <2>3. Stem(q, DeviceIn(q, S), Peers(q, S)) = <<Name[q], DeviceIn(q, S)>>
    BY <1>3, <1>6, <1>7 DEF Stem
  <2>4. DeviceIn(q, S) = DeviceIn(p, S)
    BY <1>2, <2>2, <2>3
  <2>5. DeviceIn(p, S) = Device[p] /\ Device[p] \notin {"zone"} \X Nat
    BY <1>4, <2>1, SensorsAssumption DEF DeviceIn, Alone
  <2>6. DeviceIn(q, S) = Device[q] \/ DeviceIn(q, S) \in {"zone"} \X Nat
    <3>1. \A z \in Zones \cap S : num[z] \in Nat
      BY DEF KindNumbered, Kinds
    <3> QED
      BY <2>1, <3>1 DEF DeviceIn
  <2> QED
    BY <2>1, <2>4, <2>5, <2>6
<1> QED
  BY <1>1, <1>7

\* The id kept finds the path of the chosen part.
LEMMA ChosenFound ==
  NumInv /\ SeenInv /\ PickInv /\ PathInv /\ Chosen =>
    sensorPath # None /\ Reading(sensorPath) = picked.part
<1> SUFFICES ASSUME NumInv, SeenInv, PickInv, PathInv, Chosen
             PROVE  sensorPath # None /\ Reading(sensorPath) = picked.part
  OBVIOUS
<1>1. sensorTempId # None /\ ~removed /\ seen = picked.among
  BY DEF Chosen
<1>2. PICK p, i : /\ picked.part = <<p, i>> /\ SensorIn(p, i, seen)
                  /\ Alone(p, seen) => sensorTempId = StableId(p, i, seen)
  BY <1>1, Zenon DEF PickInv
<1>3. Alone(p, seen)
  <2>1. picked.part[1] = p
    BY <1>2
  <2> QED
    BY <2>1, Zenon DEF Chosen, OneOfItsId, Alone
<1>4. seen \subseteq DOMAIN num /\ CatalogOf(seen, catalog) /\ \A K \in Kinds : KindNumbered(num, K)
  BY <1>1 DEF SeenInv, NumInv
<1>5. sensorTempId = IdIn(p, i, seen)
  BY <1>2, <1>3, StableIdIn
<1> DEFINE matches == {e \in catalog : e.id = sensorTempId}
<1>6. matches # {}
  BY <1>2, <1>4, <1>5 DEF CatalogOf
<1>7. \A e \in matches : e.path = PathTo(p, i)
  <2> TAKE e \in matches
  <2>1. PICK q, j : SensorIn(q, j, seen) /\ e.id = IdIn(q, j, seen) /\ e.path = PathTo(q, j)
    BY <1>4, Zenon DEF CatalogOf
  <2>2. q = p /\ j = i
    BY <1>2, <1>3, <1>4, <1>5, <2>1, OneEntry
  <2> QED
    BY <2>1, <2>2
<1>8. sensorPath \in {e.path : e \in matches}
  BY <1>1, <1>6 DEF PathInv, resolveSensorPaths
<1>9. sensorPath = PathTo(p, i)
  BY <1>7, <1>8
<1>10. PathTo(p, i) # None
  BY DEF PathTo, None
<1>11. Reading(PathTo(p, i)) = <<p, i>>
  BY <1>2, <1>4, ReadsItsSensor
<1> QED
  BY <1>2, <1>9, <1>10, <1>11

SensorInv == SeenInv /\ PickInv /\ PathInv /\ TempInv

\* Nothing is listed or chosen at first.
LEMMA SensorInit == Init => SensorInv
<1> SUFFICES ASSUME Init PROVE SensorInv
  OBVIOUS
<1>1. sensorTempId = None /\ catalog = {} /\ seen = {}
  BY DEF Init
<1>2. PickInv /\ PathInv /\ TempInv
  BY <1>1, Zenon DEF PickInv, PathInv, TempInv, Chosen
<1>3. CatalogOf({}, {})
  BY DEF CatalogOf, SensorIn, ShownZones
<1>4. SeenInv
  BY <1>1, <1>3 DEF SeenInv
<1> QED
  BY <1>2, <1>4 DEF SensorInv

\* A boot lists what is there, and looks up the id that was kept.
LEMMA BootKeepsSensor ==
  ASSUME SensorInv, NumInv', NEW n, NEW fs, Boot(n, fs)
  PROVE  SensorInv'
<1>1. /\ catalog' = enumerate' /\ seen' = DOMAIN num' /\ sensorTemp' = None /\ removed' = FALSE
      /\ sensorPath' \in resolveSensorPaths(catalog', sensorTempId)
      /\ sensorTempId' = sensorTempId /\ picked' = picked
  BY DEF Boot, Start
<1>2. CatalogOf(DOMAIN num, enumerate)'
  <2>1. (\A K \in Kinds : KindNumbered(num, K))'
    BY <1>1 DEF NumInv
  <2>2. ((\A K \in Kinds : KindNumbered(num, K)) => CatalogOf(DOMAIN num, enumerate))'
    BY EnumerateLists, PTL
  <2> QED
    BY <2>1, <2>2
<1>3. SeenInv'
  BY <1>1, <1>2 DEF SeenInv
<1>4. PickInv'
  BY <1>1, Zenon DEF SensorInv, PickInv
<1>5. PathInv'
  BY <1>1, Zenon DEF PathInv
<1>6. TempInv'
  BY <1>1, Zenon DEF TempInv
<1> QED
  BY <1>3, <1>4, <1>5, <1>6 DEF SensorInv

\* A list stays right while parts only register.
LEMMA SeenStays ==
  ASSUME NEW S, NEW entries, S \subseteq DOMAIN num, CatalogOf(S, entries),
         \A q \in DOMAIN num : q \in DOMAIN num' /\ num'[q] = num[q],
         seen' = S, catalog' = entries
  PROVE  SeenInv'
<1>1. CatalogOf(S, entries)'
  BY CatalogStays
<1>2. S \subseteq DOMAIN num'
  OBVIOUS
<1> QED
  BY <1>1, <1>2 DEF SeenInv

\* Parts that register are not listed before the next walk.
LEMMA RegisteredLater ==
  ASSUME SensorInv, UNCHANGED <<temps, sensorTempId, picked, removed>>,
         ~removed => \A q \in DOMAIN num : q \in DOMAIN num' /\ num'[q] = num[q]
  PROVE  SensorInv'
<1>1. /\ catalog' = catalog /\ seen' = seen /\ sensorPath' = sensorPath /\ sensorTemp' = sensorTemp
      /\ sensorTempId' = sensorTempId /\ picked' = picked /\ removed' = removed
  BY DEF temps
<1>2. SeenInv'
  <2>1. ASSUME ~removed PROVE SeenInv'
    <3>1. seen \subseteq DOMAIN num /\ CatalogOf(seen, catalog)
      BY <2>1 DEF SensorInv, SeenInv
    <3>2. PICK S, entries : S = seen /\ entries = catalog
      OBVIOUS
    <3> QED
      BY <1>1, <2>1, <3>1, <3>2, SeenStays
  <2>2. removed => SeenInv'
    BY <1>1 DEF SeenInv
  <2> QED
    BY <2>1, <2>2
<1>3. PickInv' /\ PathInv'
  BY <1>1, Zenon DEF SensorInv, PickInv, PathInv
<1>4. Chosen' <=> Chosen
  BY <1>1 DEF Chosen, OneOfItsId
<1>5. TempInv'
  BY <1>1, <1>4, Zenon DEF SensorInv, TempInv
<1> QED
  BY <1>2, <1>3, <1>5 DEF SensorInv

\* The user chooses a part under the id that a list of the registered parts has
\* for it.
LEMMA PickKeepsSensor ==
  ASSUME NumInv, SensorInv, NEW list, NEW among, NEW e \in list, Pick(e, among),
         ~removed => among \subseteq DOMAIN num /\ CatalogOf(among, list)
  PROVE  SensorInv'
<1>1. /\ catalog' = catalog /\ seen' = seen /\ num' = num /\ sensorTemp' = None
      /\ sensorPath' \in resolveSensorPaths(catalog, e.id) /\ sensorTempId' = e.id
      /\ picked' = [part |-> Reading(e.path), among |-> among] /\ removed' = removed /\ ~removed
      /\ Reading(e.path) # None
  BY DEF Pick
<1>2. /\ seen \subseteq DOMAIN num /\ CatalogOf(seen, catalog)
      /\ among \subseteq DOMAIN num /\ CatalogOf(among, list)
      /\ \A K \in Kinds : KindNumbered(num, K)
  BY <1>1 DEF SensorInv, SeenInv, NumInv
<1>3. SeenInv'
  <2>1. PICK S, entries : S = seen /\ entries = catalog
    OBVIOUS
  <2> QED
    BY <1>1, <1>2, <2>1, SeenStays
<1>4. PathInv'
  BY <1>1, Zenon DEF PathInv
<1>5. TempInv'
  BY <1>1, Zenon DEF TempInv
<1>6. PICK p, i : SensorIn(p, i, among) /\ e.id = IdIn(p, i, among) /\ e.path = PathTo(p, i)
  BY <1>2, Zenon DEF CatalogOf
<1>7. picked'.part = <<p, i>> /\ picked'.among = among
  <2>1. Reading(PathTo(p, i)) = <<p, i>>
    BY <1>2, <1>6, ReadsItsSensor
  <2> QED
    BY <1>1, <1>6, <2>1
<1>8. Alone(p, among) => sensorTempId' = StableId(p, i, among)
  BY <1>1, <1>6, StableIdIn
<1>9. PickInv'
  BY <1>6, <1>7, <1>8, Zenon DEF PickInv
<1> QED
  BY <1>3, <1>4, <1>5, <1>9 DEF SensorInv

\* A tick walks again only while nothing is listed, and reads the path of the
\* id kept.
LEMMA TickKeepsSensor ==
  ASSUME NumInv, NumInv', SensorInv, NEW nv, NEW tip, Tick(nv, tip)
  PROVE  SensorInv'
<1>1. /\ num' = num /\ files' = files /\ sensorTempId' = sensorTempId /\ picked' = picked
      /\ removed' = removed /\ SampleSensor
  BY DEF Tick, hardware
<1>2. \/ catalog' = catalog /\ seen' = seen
      \/ catalog = {} /\ catalog' = enumerate /\ seen' = DOMAIN num
  BY <1>1 DEF SampleSensor
<1>3. SeenInv'
  <2>1. ASSUME ~removed, catalog' = catalog, seen' = seen PROVE SeenInv'
    <3>1. seen \subseteq DOMAIN num /\ CatalogOf(seen, catalog)
      BY <2>1 DEF SensorInv, SeenInv
    <3>2. PICK S, entries : S = seen /\ entries = catalog
      OBVIOUS
    <3> QED
      BY <1>1, <2>1, <3>1, <3>2, SeenStays
  <2>2. ASSUME ~removed, catalog' = enumerate, seen' = DOMAIN num PROVE SeenInv'
    <3>1. CatalogOf(DOMAIN num, enumerate)
      BY <2>2, EnumerateLists DEF NumInv
    <3>2. PICK S, entries : S = DOMAIN num /\ entries = enumerate
      OBVIOUS
    <3> QED
      BY <1>1, <2>2, <3>1, <3>2, SeenStays
  <2>3. removed => SeenInv'
    BY <1>1 DEF SeenInv
  <2> QED
    BY <1>2, <2>1, <2>2, <2>3
<1>4. PickInv'
  BY <1>1, Zenon DEF SensorInv, PickInv
<1>5. PathInv'
  <2> SUFFICES ASSUME sensorTempId # None PROVE sensorPath' \in resolveSensorPaths(catalog', sensorTempId)
    BY <1>1, Zenon DEF PathInv
  <2>1. sensorPath \in resolveSensorPaths(catalog, sensorTempId)
    BY Zenon DEF SensorInv, PathInv
  <2>2. CASE sensorPath = None
    BY <1>1, <2>2 DEF SampleSensor
  <2>3. CASE sensorPath # None
    <3>1. catalog # {}
      BY <2>1, <2>3 DEF resolveSensorPaths
    <3>2. catalog' = catalog /\ sensorPath' = sensorPath
      BY <1>1, <1>2, <2>3, <3>1 DEF SampleSensor
    <3> QED
      BY <2>1, <3>2
  <2> QED
    BY <2>2, <2>3
<1>6. TempInv'
  <2> SUFFICES ASSUME Chosen' PROVE sensorTemp' \in {None, picked'.part}
    BY Zenon DEF TempInv
  <2>1. (NumInv /\ SeenInv /\ PickInv /\ PathInv /\ Chosen =>
           sensorPath # None /\ Reading(sensorPath) = picked.part)'
    BY ChosenFound, PTL
  <2>2. sensorPath' # None /\ (Reading(sensorPath) = picked.part)'
    BY <1>3, <1>4, <1>5, <2>1
  <2>3. Reading(sensorPath)' = Reading(sensorPath')
    BY <1>1, Zenon DEF Reading, Registered
  <2>4. sensorTemp' = Reading(sensorPath')
    BY <1>1, <2>2 DEF SampleSensor
  <2> QED
    BY <2>2, <2>3, <2>4
<1> QED
  BY <1>3, <1>4, <1>5, <1>6 DEF SensorInv

\* Every step keeps the invariant.
LEMMA SensorStep == NumInv /\ NumInv' /\ SensorInv /\ [Next]_vars => SensorInv'
<1> SUFFICES ASSUME NumInv, NumInv', SensorInv, [Next]_vars PROVE SensorInv'
  OBVIOUS
<1>1. ASSUME NEW n, NEW fs, Boot(n, fs) PROVE SensorInv'
  BY <1>1, BootKeepsSensor
<1>2. ASSUME NEW p \in machine, Register(p) PROVE SensorInv'
  <2>1. UNCHANGED <<temps, sensorTempId, picked, removed>>
    BY <1>2 DEF Register
  <2>2. p \notin DOMAIN num /\ \E free : num' = [q \in DOMAIN num \cup {p} |-> IF q = p THEN free ELSE num[q]]
    BY <1>2 DEF Register
  <2>3. \A q \in DOMAIN num : q \in DOMAIN num' /\ num'[q] = num[q]
    BY <2>2
  <2> QED
    BY <2>1, <2>3, RegisteredLater
<1>3. ASSUME NEW p, Remove(p) PROVE SensorInv'
  <2>1. removed' = TRUE /\ sensorTempId' = sensorTempId /\ sensorPath' = sensorPath /\ catalog' = catalog
        /\ picked' = picked
    BY <1>3 DEF Remove, temps
  <2>2. SeenInv' /\ TempInv'
    BY <2>1, Zenon DEF SeenInv, TempInv, Chosen
  <2>3. PickInv' /\ PathInv'
    BY <2>1, Zenon DEF SensorInv, PickInv, PathInv
  <2> QED
    BY <2>2, <2>3 DEF SensorInv
<1>4. ASSUME NEW k, NEW f, AddFile(k, f) PROVE SensorInv'
  <2>1. num' = num /\ UNCHANGED <<temps, sensorTempId, picked, removed>>
    BY <1>4 DEF AddFile
  <2> QED
    BY <2>1, RegisteredLater
<1>5. ASSUME NEW e \in catalog, Pick(e, seen) PROVE SensorInv'
  BY <1>5, PickKeepsSensor DEF SensorInv, SeenInv
<1>8. ASSUME NEW e \in enumerate, Pick(e, DOMAIN num) PROVE SensorInv'
  <2>1. ~removed => CatalogOf(DOMAIN num, enumerate)
    BY EnumerateLists DEF NumInv
  <2> QED
    BY <1>8, <2>1, PickKeepsSensor
<1>6. ASSUME NEW nv, NEW tip, Tick(nv, tip) PROVE SensorInv'
  BY <1>6, TickKeepsSensor
<1>7. CASE UNCHANGED vars
  <2>1. num' = num /\ UNCHANGED <<temps, sensorTempId, picked, removed>>
    BY <1>7 DEF vars, hardware
  <2> QED
    BY <2>1, RegisteredLater
<1> QED
  BY <1>1, <1>2, <1>3, <1>4, <1>5, <1>6, <1>7, <1>8 DEF Next

\* A boot that registers the same parts as when the user chose a sensor, under
\* whatever numbers, finds that sensor again, and no other reading is shown
\* under its id, on every machine.
THEOREM PickedSensorShownHolds == Spec => []PickedSensorShown
<1> DEFINE Both == NumInv /\ SensorInv
<1>1. Init => Both
  BY NumInit, SensorInit
<1>2. Both /\ [Next]_vars => Both'
  BY NumStep, SensorStep
<1>3. Both => PickedSensorShown
  BY ChosenFound DEF SensorInv, TempInv, Chosen, PickedSensorShown
<1> QED
  BY <1>1, <1>2, <1>3, PTL DEF Spec

-----------------------------------------------------------------------------
(* SensorDiscovery: the labels of the picker. *)

LabelsOwn(entries) == \A e, f \in entries : e.id # f.id => e.label # f.label
IsEntry(f) == \E s, i, l, c : f = [id |-> <<s, i>>, label |-> l, path |-> c]

LEMMA TuplesApart ==
  ASSUME NEW l, NEW s, NEW i, NEW m, NEW t, NEW j
  PROVE  /\ <<l>> \o <<s, i>> = <<l, s, i>>
         /\ <<l, s, i>> = <<m, t, j>> => s = t /\ i = j
         /\ <<l, s, i>> # <<m>> /\ <<l, s, i>> # <<m, t>>
         /\ <<l>>[1] = l /\ <<l, s>>[1] = l /\ <<l, s, i>>[1] = l
<1>1. <<l>> \o <<s, i>> = <<l, s, i>>
  <2> DEFINE S == {l, s, i}
             x == <<l>>
             y == <<s, i>>
             w == <<l, s, i>>
  <2>1. x \in Seq(S) /\ y \in Seq(S) /\ w \in Seq(S)
    OBVIOUS
  <2>2. Len(x) = 1 /\ Len(y) = 2 /\ Len(w) = 3
    OBVIOUS
  <2>3. x[1] = l /\ y[1] = s /\ y[2] = i /\ w[1] = l /\ w[2] = s /\ w[3] = i
    OBVIOUS
  <2> HIDE DEF S, x, y, w
  <2>4. /\ x \o y \in Seq(S)
        /\ Len(x \o y) = 3
        /\ \A k \in 1 .. 3 : (x \o y)[k] = IF k <= 1 THEN x[k] ELSE y[k - 1]
    <3>1. /\ x \o y \in Seq(S)
          /\ Len(x \o y) = Len(x) + Len(y)
          /\ \A k \in 1 .. Len(x) + Len(y) :
               (x \o y)[k] = IF k <= Len(x) THEN x[k] ELSE y[k - Len(x)]
      BY <2>1, ConcatProperties, Zenon
    <3>2. Len(x) + Len(y) = 3
      BY <2>2
    <3> QED
      BY <2>2, <3>1, <3>2
  <2>5. \A k \in 1 .. 3 : (x \o y)[k] = w[k]
    BY <2>3, <2>4
  <2>6. x \o y = w
    BY <2>1, <2>2, <2>4, <2>5, SeqEqual
  <2> QED
    BY <2>6 DEF x, y, w
<1>2. <<l, s, i>> = <<m, t, j>> => s = t /\ i = j
  OBVIOUS
<1>3. <<l, s, i>> # <<m>>
  <2>1. Len(<<l, s, i>>) = 3 /\ Len(<<m>>) = 1
    OBVIOUS
  <2> QED
    BY <2>1
<1>4. <<l, s, i>> # <<m, t>>
  <2>1. Len(<<l, s, i>>) = 3 /\ Len(<<m, t>>) = 2
    OBVIOUS
  <2> QED
    BY <2>1
<1>5. <<l>>[1] = l /\ <<l, s>>[1] = l /\ <<l, s, i>>[1] = l
  OBVIOUS
<1> QED
  BY <1>1, <1>2, <1>3, <1>4, <1>5

\* Entries that look alike get their whole id, so none of one list share a
\* label; each label starts with the entry's own.
LEMMA LabelsMadeUnique ==
  ASSUME NEW entries, \A f \in entries : IsEntry(f)
  PROVE  /\ LabelsOwn(_disambiguateLabels(entries))
         /\ \A e \in _disambiguateLabels(entries) : \E f \in entries : e.label[1] = f.label
<1> DEFINE form(e) == IF <<e.label, None>> = e.id[1] THEN <<e.label>> ELSE <<e.label, e.id[1]>>
           lab(e) == IF \E f \in entries \ {e} : form(f) = form(e) THEN <<e.label>> \o e.id ELSE form(e)
<1>1. _disambiguateLabels(entries) = {[e EXCEPT !.label = lab(e)] : e \in entries}
  BY Zenon DEF _disambiguateLabels
<1>2. \A e \in entries : form(e) = <<e.label>> \/ form(e) = <<e.label, e.id[1]>>
  OBVIOUS
<1> HIDE DEF form
<1>3. \A e \in entries : \/ lab(e) = <<e.label>> \o e.id
                         \/ lab(e) = form(e) /\ \A f \in entries \ {e} : form(f) # form(e)
  OBVIOUS
<1> HIDE DEF lab
<1>4. ASSUME NEW e \in entries
      PROVE  /\ [e EXCEPT !.label = lab(e)].label = lab(e) /\ [e EXCEPT !.label = lab(e)].id = e.id
             /\ <<e.label>> \o e.id = <<e.label, e.id[1], e.id[2]>> /\ e.id = <<e.id[1], e.id[2]>>
  <2>1. PICK s, i, l, c : e = [id |-> <<s, i>>, label |-> l, path |-> c]
    BY DEF IsEntry
  <2>2. [e EXCEPT !.label = lab(e)].label = lab(e) /\ [e EXCEPT !.label = lab(e)].id = e.id
    BY <2>1
  <2>3. e.id = <<s, i>> /\ e.id[1] = s /\ e.id[2] = i
    BY <2>1
  <2>4. <<e.label>> \o <<s, i>> = <<e.label, s, i>>
    BY TuplesApart, ZenonT(60)
  <2> QED
    BY <2>2, <2>3, <2>4
<1>5. ASSUME NEW e \in entries, NEW f \in entries, e.id # f.id PROVE lab(e) # lab(f)
  <2>1. e # f
    BY <1>5
  <2>6. /\ <<e.label, e.id[1], e.id[2]>> = <<f.label, f.id[1], f.id[2]>> => e.id[1] = f.id[1] /\ e.id[2] = f.id[2]
        /\ <<e.label, e.id[1], e.id[2]>> # <<f.label>> /\ <<e.label, e.id[1], e.id[2]>> # <<f.label, f.id[1]>>
        /\ <<f.label, f.id[1], f.id[2]>> # <<e.label>> /\ <<f.label, f.id[1], f.id[2]>> # <<e.label, e.id[1]>>
    BY TuplesApart, Zenon
  <2>2. CASE lab(e) = <<e.label>> \o e.id /\ lab(f) = <<f.label>> \o f.id
    BY <1>4, <1>5, <2>2, <2>6
  <2>3. CASE lab(e) = <<e.label>> \o e.id /\ lab(f) = form(f)
    BY <1>2, <1>4, <2>3, <2>6
  <2>4. CASE lab(e) = form(e) /\ lab(f) = <<f.label>> \o f.id
    BY <1>2, <1>4, <2>4, <2>6
  <2>5. CASE lab(e) = form(e) /\ lab(f) = form(f) /\ \A g \in entries \ {e} : form(g) # form(e)
    BY <2>1, <2>5
  <2> QED
    BY <1>3, <2>2, <2>3, <2>4, <2>5
<1>6. ASSUME NEW e \in entries PROVE lab(e)[1] = e.label
  <2>1. /\ <<e.label>>[1] = e.label /\ <<e.label, e.id[1]>>[1] = e.label
        /\ <<e.label, e.id[1], e.id[2]>>[1] = e.label
    BY TuplesApart, Zenon
  <2> QED
    BY <1>2, <1>3, <1>4, <2>1
<1>7. LabelsOwn(_disambiguateLabels(entries))
  <2> SUFFICES ASSUME NEW d \in _disambiguateLabels(entries), NEW g \in _disambiguateLabels(entries), d.id # g.id
               PROVE  d.label # g.label
    BY DEF LabelsOwn
  <2>1. PICK e \in entries : d = [e EXCEPT !.label = lab(e)]
    BY <1>1
  <2>2. PICK f \in entries : g = [f EXCEPT !.label = lab(f)]
    BY <1>1
  <2> QED
    BY <1>4, <1>5, <2>1, <2>2
<1>8. ASSUME NEW d \in _disambiguateLabels(entries) PROVE \E f \in entries : d.label[1] = f.label
  <2>1. PICK e \in entries : d = [e EXCEPT !.label = lab(e)]
    BY <1>1
  <2> QED
    BY <1>4, <1>6, <2>1
<1> QED
  BY <1>7, <1>8

\* What the label of an input starts with.
InputLabel(c, i) == IF Label[c][i] = "" THEN ToString(i) ELSE Label[c][i]

LEMMA ChipLabels ==
  ASSUME NEW chips
  PROVE  /\ LabelsOwn(buildCatalog(chips))
         /\ \A e \in buildCatalog(chips) : \E c \in chips : \E i \in DOMAIN Label[c] : e.label[1] = InputLabel(c, i)
<1> DEFINE entry(c, i) == [id |-> <<Stem(c, ChipDevice(c), chips), i>>, label |-> InputLabel(c, i),
                           path |-> <<"hwmon", num[c], i>>]
           raw == UNION {{entry(c, i) : i \in DOMAIN Label[c]} : c \in chips}
<1>1. buildCatalog(chips) = _disambiguateLabels(raw)
  BY Zenon DEF buildCatalog, InputLabel
<1>2. \A c, i : IsEntry(entry(c, i)) /\ entry(c, i).label = InputLabel(c, i)
  BY DEF IsEntry
<1> HIDE DEF entry
<1>3. \A f \in raw : \E c \in chips : \E i \in DOMAIN Label[c] : f = entry(c, i)
  OBVIOUS
<1> HIDE DEF raw
<1>4. \A f \in raw : IsEntry(f)
  BY <1>2, <1>3, Zenon
<1>5. /\ LabelsOwn(_disambiguateLabels(raw))
      /\ \A e \in _disambiguateLabels(raw) : \E f \in raw : e.label[1] = f.label
  BY <1>4, LabelsMadeUnique
<1>6. ASSUME NEW e \in buildCatalog(chips)
      PROVE  \E c \in chips : \E i \in DOMAIN Label[c] : e.label[1] = InputLabel(c, i)
  <2>1. PICK f \in raw : e.label[1] = f.label
    BY <1>1, <1>5
  <2>2. PICK c \in chips : \E i \in DOMAIN Label[c] : f = entry(c, i)
    BY <1>3
  <2> QED
    BY <1>2, <2>1, <2>2, Zenon
<1> QED
  BY <1>1, <1>5, <1>6

LEMMA ZoneLabels ==
  ASSUME NEW zones
  PROVE  /\ LabelsOwn(buildThermalCatalog(zones))
         /\ \A e \in buildThermalCatalog(zones) : \E z \in zones : e.label[1] = Name[z]
<1> DEFINE id(z) == Stem(z, IF Device[z] = None THEN <<"zone", num[z]>> ELSE Device[z], zones)
           entry(z) == [id |-> <<id(z), 0>>, label |-> Name[z], path |-> <<"zone", num[z], 0>>]
           raw == {entry(z) : z \in zones}
<1>1. buildThermalCatalog(zones) = _disambiguateLabels(raw)
  BY Zenon DEF buildThermalCatalog
<1> HIDE DEF id
<1>2. \A z : IsEntry(entry(z)) /\ entry(z).label = Name[z]
  BY DEF IsEntry
<1> HIDE DEF entry
<1>3. \A f \in raw : \E z \in zones : f = entry(z)
  OBVIOUS
<1> HIDE DEF raw
<1>4. \A f \in raw : IsEntry(f)
  BY <1>2, <1>3, Zenon
<1>5. /\ LabelsOwn(_disambiguateLabels(raw))
      /\ \A e \in _disambiguateLabels(raw) : \E f \in raw : e.label[1] = f.label
  BY <1>4, LabelsMadeUnique
<1>6. ASSUME NEW e \in buildThermalCatalog(zones) PROVE \E z \in zones : e.label[1] = Name[z]
  <2>1. PICK f \in raw : e.label[1] = f.label
    BY <1>1, <1>5
  <2>2. PICK z \in zones : f = entry(z)
    BY <1>3
  <2> QED
    BY <1>2, <2>1, <2>2, Zenon
<1> QED
  BY <1>1, <1>5, <1>6

\* The two lists are made unique one by one: no chip's input is labelled with
\* the type of a zone.
LabelsApart == \A c \in Chips, z \in Zones : \A i \in DOMAIN Label[c] : InputLabel(c, i) # Name[z]

LEMMA EnumerateLabels == LabelsApart => LabelsOwn(enumerate)
<1> SUFFICES ASSUME LabelsApart PROVE LabelsOwn(enumerate)
  OBVIOUS
<1> DEFINE A == buildCatalog(Registered(Chips))
           B == buildThermalCatalog(filterMirroredZones(Registered(Chips), Registered(Zones)))
<1>1. enumerate = A \cup B
  BY Zenon DEF enumerate
<1>2. LabelsOwn(A) /\ \A e \in A : \E c \in Chips : \E i \in DOMAIN Label[c] : e.label[1] = InputLabel(c, i)
  <2>1. Registered(Chips) \subseteq Chips
    BY DEF Registered
  <2> QED
    BY <2>1, ChipLabels
<1>3. LabelsOwn(B) /\ \A e \in B : \E z \in Zones : e.label[1] = Name[z]
  <2>1. filterMirroredZones(Registered(Chips), Registered(Zones)) \subseteq Zones
    BY DEF Registered, filterMirroredZones
  <2> QED
    BY <2>1, ZoneLabels
<1> HIDE DEF A, B
<1>4. ASSUME NEW e \in A, NEW f \in B PROVE e.label # f.label
  <2>1. PICK c \in Chips : \E i \in DOMAIN Label[c] : e.label[1] = InputLabel(c, i)
    BY <1>2
  <2>2. PICK i \in DOMAIN Label[c] : e.label[1] = InputLabel(c, i)
    BY <2>1
  <2>3. PICK z \in Zones : f.label[1] = Name[z]
    BY <1>3
  <2> QED
    BY <2>2, <2>3 DEF LabelsApart
<1> QED
  BY <1>1, <1>2, <1>3, <1>4 DEF LabelsOwn

\* No two ids of the picker share a label, on every machine where no input of
\* a chip is labelled with the type of a thermal zone, and no sensor is listed
\* twice, as a chip and as the zone behind it.
THEOREM PickerUnambiguousHolds == ASSUME LabelsApart PROVE Spec => []PickerUnambiguous
<1> DEFINE All == NumInv /\ SensorInv /\ LabelsOwn(catalog)
<1>1. Init => All
  BY NumInit, SensorInit DEF Init, LabelsOwn
<1>2. All /\ [Next]_vars => All'
  <2> SUFFICES ASSUME All, [Next]_vars PROVE All'
    OBVIOUS
  <2>1. NumInv' /\ SensorInv'
    BY NumStep, SensorStep
  <2>2. catalog' = catalog \/ catalog' = enumerate \/ catalog' = enumerate'
    <3>1. ASSUME NEW n, NEW fs, Boot(n, fs) PROVE catalog' = enumerate'
      BY <3>1 DEF Boot, Start
    <3>2. ASSUME NEW p, Register(p) \/ Remove(p) PROVE catalog' = catalog
      BY <3>2 DEF Register, Remove, temps
    <3>3. ASSUME NEW k, NEW f, AddFile(k, f) PROVE catalog' = catalog
      BY <3>3 DEF AddFile, temps
    <3>4. ASSUME NEW e, NEW among, Pick(e, among) PROVE catalog' = catalog
      BY <3>4 DEF Pick
    <3>5. ASSUME NEW nv, NEW tip, Tick(nv, tip) PROVE catalog' = catalog \/ catalog' = enumerate
      BY <3>5 DEF Tick, SampleSensor
    <3>6. CASE UNCHANGED vars
      BY <3>6 DEF vars, temps
    <3> QED
      BY <3>1, <3>2, <3>3, <3>4, <3>5, <3>6 DEF Next
  <2>3. LabelsOwn(enumerate) /\ LabelsOwn(enumerate')
    <3>1. (LabelsApart => LabelsOwn(enumerate))'
      BY EnumerateLabels, PTL
    <3> QED
      BY <3>1, EnumerateLabels
  <2>4. LabelsOwn(catalog')
    BY <2>2, <2>3, Zenon DEF All
  <2> QED
    BY <2>1, <2>4
<1>3. All => PickerUnambiguous
  <2> SUFFICES ASSUME All PROVE PickerUnambiguous
    OBVIOUS
  <2>1. ASSUME ~removed, NEW S, NEW list, S \subseteq DOMAIN num, CatalogOf(S, list),
               NEW e \in list, NEW f \in list, e.path[1] = "hwmon"
        PROVE  Mirrors[Reading(e.path)[1]] # Reading(f.path)[1]
    <3>1. \A K \in Kinds : KindNumbered(num, K)
      BY <2>1 DEF NumInv
    <3>2. PICK p, i : SensorIn(p, i, S) /\ e.id = IdIn(p, i, S) /\ e.path = PathTo(p, i)
      BY <2>1, Zenon DEF CatalogOf
    <3>3. PICK q, j : SensorIn(q, j, S) /\ f.id = IdIn(q, j, S) /\ f.path = PathTo(q, j)
      BY <2>1, Zenon DEF CatalogOf
    <3>4. Reading(e.path) = <<p, i>> /\ Reading(f.path) = <<q, j>>
      BY <2>1, <3>1, <3>2, <3>3, ReadsItsSensor
    <3>5. p \in Chips
      BY <2>1, <3>2 DEF PathTo
    <3>6. p \in S
      BY <3>2 DEF SensorIn, ShownZones
    <3>7. Mirrors[p] # q
      BY <3>3, <3>5, <3>6, SensorsAssumption DEF SensorIn, ShownZones
    <3>8. Reading(e.path)[1] = p /\ Reading(f.path)[1] = q
      BY <3>4
    <3> QED
      BY <3>7, <3>8
  <2>2. ~removed => seen \subseteq DOMAIN num /\ CatalogOf(seen, catalog)
    BY DEF SensorInv, SeenInv
  <2>3. ~removed => CatalogOf(DOMAIN num, enumerate)
    BY EnumerateLists DEF NumInv
  <2>4. LabelsOwn(catalog) /\ LabelsOwn(enumerate)
    BY EnumerateLabels
  <2> SUFFICES ASSUME NEW list \in {catalog, enumerate}, NEW e \in list, NEW f \in list
               PROVE  /\ e.id # f.id => e.label # f.label
                      /\ ~removed /\ e.path[1] = "hwmon" => Mirrors[Reading(e.path)[1]] # Reading(f.path)[1]
    BY Zenon DEF PickerUnambiguous
  <2>5. e.id # f.id => e.label # f.label
    <3>1. LabelsOwn(list)
      BY <2>4
    <3> QED
      BY <3>1, Zenon DEF LabelsOwn
  <2>6. ASSUME ~removed, e.path[1] = "hwmon" PROVE Mirrors[Reading(e.path)[1]] # Reading(f.path)[1]
    <3>1. CASE list = catalog
      BY <2>1, <2>2, <2>6, <3>1, Zenon
    <3>2. CASE list = enumerate
      BY <2>1, <2>3, <2>6, <3>2, Zenon
    <3> QED
      BY <3>1, <3>2
  <2> QED
    BY <2>5, <2>6
<1> QED
  BY <1>1, <1>2, <1>3, PTL DEF Spec

=============================================================================

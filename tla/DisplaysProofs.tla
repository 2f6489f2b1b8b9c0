--------------------------- MODULE DisplaysProofs ----------------------------
(***************************************************************************)
(* For any screens, sizes, margins, settings and samples: once nothing is  *)
(* under way the standalone window stands where the configuration says,    *)
(* everything inside a ring has its place, and the tooltip of a file       *)
(* system and its ring do not contradict each other.                       *)
(***************************************************************************)
EXTENDS Displays, FiniteLists

\* What _anchor() was given last is what its inputs are now.
Fresh == /\ "placed" \in DOMAIN window /\ window.placed \in BOOLEAN
         /\ window.placed /\ ~pending => window.screen = target(config, screens, on)
         /\ Settled => /\ window.spec = cornerToAnchorSpec(config.corner)
                       /\ window.marginX = halo(config).marginX
                       /\ window.marginY = halo(config).marginY
                       /\ window.size = targetSize(config, screens[on])
                       /\ window.used.x \in Int /\ window.used.y \in Int
                       /\ window.used.width = screens[on].width
                       /\ window.used.height = screens[on].height
                       /\ window.at = computeX11Origin(config.corner, window.used, window.size.width,
                                        window.size.height, window.marginX, window.marginY)

IInv == TypeOK /\ Fresh

\* Every step keeps every variable in its type.
LEMMA TypeStep == TypeOK /\ [Next]_vars => TypeOK'
<1> SUFFICES ASSUME TypeOK, [Next]_vars PROVE TypeOK'
  OBVIOUS
<1> USE DEF TypeOK, Change
<1>1. CASE Anchor
  <2>1. target(config, screens, on) \in DOMAIN screens
    BY DEF target
  <2> QED
    BY <1>1, <2>1 DEF Anchor, wrongScreen
<1>2. CASE Arrive
  BY <1>2 DEF Arrive
<1>3. CASE Configure
  <2>1. PICK field \in DOMAIN config : \E c \in {[config EXCEPT ![field] = v] : v \in Values(field)} : config' = c
    BY <1>3 DEF Configure
  <2>2. config' \in Settings
    <3>1. PICK v \in Values(field) : config' = [config EXCEPT ![field] = v]
      BY <2>1
    <3>2. field \in {"corner", "marginX", "marginY", "screen", "ringSize", "count", "vertical",
                     "spread", "fontScale", "cores"}
      BY DEF Settings
    <3>3. CASE field = "corner"
      BY <3>1, <3>3 DEF Settings, Values
    <3>4. CASE field \in {"marginX", "marginY"}
      BY <3>1, <3>4 DEF Settings, Values
    <3>5. CASE field = "screen"
      BY <3>1, <3>5 DEF Settings, Values
    <3>6. CASE field = "ringSize"
      BY <3>1, <3>6 DEF Settings, Values
    <3>7. CASE field = "count"
      BY <3>1, <3>7 DEF Settings, Values
    <3>8. CASE field = "vertical"
      BY <3>1, <3>8 DEF Settings, Values
    <3>9. CASE field \in {"spread", "fontScale", "cores"}
      BY <3>1, <3>9 DEF Settings, Values
    <3> QED
      BY <3>2, <3>3, <3>4, <3>5, <3>6, <3>7, <3>8, <3>9
  <2> QED
    BY <1>3, <2>2 DEF Configure, Listen, heard
<1>4. CASE Plug
  BY <1>4 DEF Plug, Listen, heard
<1>5. CASE Unplug
  BY <1>5 DEF Unplug, Listen, heard
<1>6. CASE Reconfigure
  BY <1>6 DEF Reconfigure, Listen, heard
<1>7. CASE Drag
  BY <1>7 DEF Drag, Listen, heard
<1>8. CASE UNCHANGED vars
  BY <1>8 DEF vars
<1> QED
  BY <1>1, <1>2, <1>3, <1>4, <1>5, <1>6, <1>7, <1>8 DEF Next

-----------------------------------------------------------------------------
\* A handler that queued nothing left every input of _anchor() as it was.
LEMMA Unheard ==
  ASSUME Listen, ~pending'
  PROVE  /\ ~pending
         /\ targetSize(config', screens'[target(config', screens', on')])
              = targetSize(config, screens[target(config, screens, on)])
         /\ config'.corner = config.corner
         /\ halo(config') = halo(config)
         /\ on' = on
         /\ target(config', screens', on') = target(config, screens, on)
         /\ screens'[on'].width = screens[on].width
         /\ screens'[on'].height = screens[on].height
<1> DEFINE h == heard(config, screens, on)
           g == heard(config', screens', on')
<1>1. ~pending /\ g = h
  BY DEF Listen
<1>2. /\ h[1] = targetSize(config, screens[target(config, screens, on)])
      /\ h[2] = config.corner /\ h[5] = halo(config) /\ h[6] = on
      /\ h[7] = chosen(config, screens) /\ h[8] = screens[on].width /\ h[9] = screens[on].height
  BY DEF heard
<1>3. /\ g[1] = targetSize(config', screens'[target(config', screens', on')])
      /\ g[2] = config'.corner /\ g[5] = halo(config') /\ g[6] = on'
      /\ g[7] = chosen(config', screens') /\ g[8] = screens'[on'].width /\ g[9] = screens'[on'].height
  BY DEF heard
<1>4. chosen(config', screens') = chosen(config, screens) /\ on' = on
  <2> HIDE DEF h, g
  <2> QED
    BY <1>1, <1>2, <1>3
<1>5. target(config', screens', on') = target(config, screens, on)
  BY <1>4 DEF chosen, target
<1> HIDE DEF h, g
<1> QED
  BY <1>1, <1>2, <1>3, <1>5

\* The inputs of _anchor() kept, the window kept: it is as fresh as before.
LEMMA KeptFresh ==
  ASSUME Fresh, Listen, window' = window
  PROVE  Fresh'
<1>1. CASE pending'
  BY <1>1 DEF Fresh, Settled
<1>2. CASE ~pending'
  <2>1. ~pending /\ on' = on /\ target(config', screens', on') = target(config, screens, on)
    BY <1>2, Unheard
  <2>2. SUFFICES ASSUME Settled'
                 PROVE  /\ window.spec = cornerToAnchorSpec(config.corner)'
                        /\ window.marginX = halo(config').marginX
                        /\ window.marginY = halo(config').marginY
                        /\ window.size = targetSize(config', screens'[on'])
                        /\ window.used.x \in Int /\ window.used.y \in Int
                        /\ window.used.width = screens'[on'].width
                        /\ window.used.height = screens'[on'].height
                        /\ window.at = computeX11Origin(config'.corner, window.used, window.size.width,
                                         window.size.height, window.marginX, window.marginY)
    BY <1>2, <2>1 DEF Fresh, Settled
  <2>3. Settled /\ on = target(config, screens, on)
    BY <2>1, <2>2 DEF Settled, Fresh
  <2> QED
    BY <1>2, <2>1, <2>3, Unheard DEF Fresh
<1> QED
  BY <1>1, <1>2 DEF Listen

\* Every step that leaves _anchor() stale queues it.
LEMMA FreshStep == IInv /\ [Next]_vars => Fresh'
<1> SUFFICES ASSUME TypeOK, Fresh, [Next]_vars PROVE Fresh'
  BY DEF IInv
<1>1. CASE Anchor
  <2>1. target(config, screens, on) \in DOMAIN screens
    BY DEF target, TypeOK
  <2>2. CASE pending'
    BY <1>1, <2>2 DEF Anchor, Fresh, Settled
  <2>3. CASE ~pending'
    <3>1. on' = on /\ config' = config /\ screens' = screens
      BY <1>1, <2>3 DEF Anchor
    <3>2. /\ "placed" \in DOMAIN window' /\ window'.placed /\ window'.screen = target(config, screens, on)
          /\ window'.used = screens[target(config, screens, on)]
          /\ window'.size = targetSize(config, screens[target(config, screens, on)])
          /\ window'.spec = cornerToAnchorSpec(config.corner)
          /\ window'.marginX = halo(config).marginX /\ window'.marginY = halo(config).marginY
          /\ window'.at = computeX11Origin(config.corner, window'.used, window'.size.width,
                            window'.size.height, window'.marginX, window'.marginY)
      BY <1>1 DEF Anchor
    <3>3. window'.used.x \in Int /\ window'.used.y \in Int
      BY <2>1, <3>2, GeometriesAssumption DEF TypeOK
    <3>4. Settled' => on = target(config, screens, on)
      BY <3>1, <3>2 DEF Settled
    <3> QED
      BY <3>1, <3>2, <3>3, <3>4 DEF Fresh
  <2> QED
    BY <1>1, <2>2, <2>3 DEF Anchor
<1>2. CASE Arrive
  BY <1>2 DEF Arrive, Fresh, Settled
<1>3. CASE Configure
  BY <1>3, KeptFresh DEF Configure
<1>4. CASE Plug
  BY <1>4, KeptFresh DEF Plug
<1>5. CASE Unplug
  <2>1. PICK name \in DOMAIN screens, other \in DOMAIN screens :
          /\ name # other
          /\ screens' = [n \in DOMAIN screens \ {name} |-> screens[n]]
          /\ on' = IF on = name THEN other ELSE on
          /\ window' = IF window.placed /\ window.screen = name THEN [window EXCEPT !.screen = other] ELSE window
          /\ Listen
          /\ config' = config
    BY <1>5 DEF Unplug
  <2>2. CASE window' = window
    BY <2>1, <2>2, KeptFresh
  <2>3. CASE window.placed /\ window.screen = name /\ window' = [window EXCEPT !.screen = other]
    <3>1. CASE pending'
      <4>1. "placed" \in DOMAIN window' /\ window'.placed \in BOOLEAN
        BY <2>3 DEF Fresh
      <4> QED
        BY <3>1, <4>1 DEF Fresh, Settled
    <3>2. CASE ~pending'
      <4>1. ~pending /\ on' = on /\ target(config', screens', on') = target(config, screens, on)
        BY <2>1, <3>2, Unheard
      <4>2. target(config, screens, on) = name
        BY <2>3, <4>1 DEF Fresh
      <4>3. on # name
        BY <2>1, <4>1
      <4>4. target(config', screens', on') # name
        BY <2>1, <4>1, <4>3 DEF target
      <4> QED
        BY <4>1, <4>2, <4>4
    <3> QED
      BY <2>1, <3>1, <3>2 DEF Listen
  <2> QED
    BY <2>1, <2>2, <2>3
<1>6. CASE Reconfigure
  BY <1>6, KeptFresh DEF Reconfigure
<1>7. CASE Drag
  <2>1. pending'
    BY <1>7, Unheard DEF Drag, Listen
  <2>2. "placed" \in DOMAIN window' /\ window'.placed \in BOOLEAN
    BY <1>7 DEF Drag, Fresh
  <2> QED
    BY <2>1, <2>2 DEF Fresh, Settled
<1>8. CASE UNCHANGED vars
  BY <1>8 DEF vars, Fresh, Settled
<1> QED
  BY <1>1, <1>2, <1>3, <1>4, <1>5, <1>6, <1>7, <1>8 DEF Next

\* The inductive invariant.
LEMMA InvHolds == Spec => []IInv
<1>1. Init => IInv
  <2> SUFFICES ASSUME Init PROVE IInv
    OBVIOUS
  <2>1. TypeOK
    BY StoredAssumption, PlatformsAssumption, ChangesAssumption DEF Init, TypeOK, Nowhere
  <2>2. Fresh
    BY DEF Init, Fresh, Settled, Nowhere
  <2> QED
    BY <2>1, <2>2 DEF IInv
<1>2. IInv /\ [Next]_vars => IInv'
  BY TypeStep, FreshStep DEF IInv
<1> QED
  BY <1>1, <1>2, PTL DEF Spec
-----------------------------------------------------------------------------
\* What every setting is a number of.
LEMMA SettingFacts ==
  ASSUME NEW c \in Settings
  PROVE  /\ c.ringSize \in Nat /\ c.count \in Nat \ {0}
         /\ c.marginX \in Nat /\ c.marginY \in Nat /\ c.spread \in Nat
         /\ c.fontScale \in Nat /\ c.cores \in Nat
<1>1. c.ringSize \in RingSizes /\ c.count \in Counts
  BY Zenon DEF Settings
<1>2. c.marginX \in Margins /\ c.marginY \in Margins /\ c.spread \in Spreads
  BY Zenon DEF Settings
<1>3. c.fontScale \in FontScales /\ c.cores \in Cores
  BY Zenon DEF Settings
<1> QED
  BY <1>1, <1>2, <1>3, SettingsAssumption

\* The halo's room is a whole number of pixels, and never negative.
LEMMA PadFacts ==
  ASSUME NEW c \in Settings
  PROVE  haloPad(c) \in Int /\ haloPad(c) >= 0
<1> DEFINE percent == AtLeast(0, AtMost(100, c.spread))
<1>1. c.ringSize \in Nat /\ c.spread \in Nat
  BY SettingFacts
<1>2. percent \in Nat
  BY <1>1 DEF AtLeast, AtMost
<1>3. c.ringSize * percent \in Nat
  BY <1>1, <1>2
<1>4. haloPad(c) = (2 * (c.ringSize * percent) + 200) \div 400
  BY DEF haloPad, RoundDiv
<1> HIDE DEF percent
<1> QED
  BY <1>3, <1>4

\* The room haloInsets() grants: an anchored side takes all of its margin before
\* it takes less than the halo wants, and no other side takes less.
LEMMA InsetFacts ==
  ASSUME NEW c \in Settings
  PROVE  LET h    == halo(c)
             spec == cornerToAnchorSpec(c.corner)
         IN /\ h.left \in Int /\ h.right \in Int /\ h.top \in Int /\ h.bottom \in Int
            /\ h.marginX \in Nat /\ h.marginY \in Nat
            /\ spec.left => h.marginX + h.left = c.marginX
            /\ ~spec.left => h.marginX + h.right = c.marginX
            /\ spec.top => h.marginY + h.top = c.marginY
            /\ ~spec.top => h.marginY + h.bottom = c.marginY
            /\ h.left < haloPad(c) => spec.left /\ h.marginX = 0
            /\ h.right < haloPad(c) => ~spec.left /\ h.marginX = 0
            /\ h.top < haloPad(c) => spec.top /\ h.marginY = 0
            /\ h.bottom < haloPad(c) => ~spec.top /\ h.marginY = 0
<1> DEFINE h == halo(c)
<1>1. haloPad(c) \in Int /\ haloPad(c) >= 0
  BY PadFacts
<1>2. c.marginX \in Nat /\ c.marginY \in Nat
  BY SettingFacts
<1>3. h = haloInsets(c.corner, haloPad(c), c.marginX, c.marginY)
  BY DEF halo
<1> HIDE DEF h
<1>4. /\ h.left \in Int /\ h.right \in Int /\ h.top \in Int /\ h.bottom \in Int
      /\ h.marginX \in Nat /\ h.marginY \in Nat
  BY <1>1, <1>2, <1>3 DEF haloInsets, AtMost, cornerToAnchorSpec
<1>5. LET spec == cornerToAnchorSpec(c.corner)
      IN /\ spec.left => h.marginX + h.left = c.marginX
         /\ ~spec.left => h.marginX + h.right = c.marginX
         /\ spec.top => h.marginY + h.top = c.marginY
         /\ ~spec.top => h.marginY + h.bottom = c.marginY
  BY <1>1, <1>2, <1>3 DEF haloInsets, AtMost, cornerToAnchorSpec
<1>6. LET spec == cornerToAnchorSpec(c.corner)
      IN /\ h.left < haloPad(c) => spec.left /\ h.marginX = 0
         /\ h.right < haloPad(c) => ~spec.left /\ h.marginX = 0
         /\ h.top < haloPad(c) => spec.top /\ h.marginY = 0
         /\ h.bottom < haloPad(c) => ~spec.top /\ h.marginY = 0
  BY <1>1, <1>2, <1>3 DEF haloInsets, AtMost, cornerToAnchorSpec
<1> QED
  BY <1>4, <1>5, <1>6 DEF h

\* The window stands as far from the edges of its screen as haloInsets() left.
LEMMA PlaceFacts ==
  ASSUME TypeOK, Fresh, Settled, Unmoved
  PROVE  LET scr  == screens[on]
             h    == halo(config)
             spec == cornerToAnchorSpec(config.corner)
         IN /\ scr.width \in Nat /\ scr.height \in Nat /\ window.spec = spec
            /\ window.size.width \in Int /\ window.size.height \in Int
            /\ window.size.width <= scr.width - h.marginX
            /\ window.size.height <= scr.height - h.marginY
            /\ Place.x = IF spec.left THEN h.marginX ELSE scr.width - window.size.width - h.marginX
            /\ Place.y = IF spec.top THEN h.marginY ELSE scr.height - window.size.height - h.marginY
<1> DEFINE scr == screens[on]
           h == halo(config)
           spec == cornerToAnchorSpec(config.corner)
<1>1. scr.width \in Nat /\ scr.height \in Nat
  BY GeometriesAssumption DEF TypeOK
<1>2. /\ h.left \in Int /\ h.right \in Int /\ h.top \in Int /\ h.bottom \in Int
      /\ h.marginX \in Nat /\ h.marginY \in Nat
  BY InsetFacts DEF TypeOK
<1>3. /\ window.size.width \in Int /\ window.size.height \in Int
      /\ window.size.width <= scr.width - h.marginX
      /\ window.size.height <= scr.height - h.marginY
  <2>1. config.ringSize \in Int /\ stripLength(config) \in Int
    <3>1. config.ringSize \in Nat /\ config.count \in Nat
      BY SettingFacts DEF TypeOK
    <3>2. gridSpacing(config) \in Int
      BY <3>1 DEF gridSpacing, RoundDiv
    <3>3. (config.count - 1) * gridSpacing(config) \in Int /\ config.ringSize * config.count \in Int
      BY <3>1, <3>2
    <3> QED
      BY <3>1, <3>3 DEF stripLength
  <2>2. window.size = targetSize(config, scr)
    BY DEF Fresh
  <2> HIDE DEF scr, h
  <2> QED
    BY <1>1, <1>2, <2>1, <2>2 DEF targetSize, AtMost, h
<1>4. window.spec = spec /\ window.marginX = h.marginX /\ window.marginY = h.marginY
  BY DEF Fresh
<1>5. /\ Place.x = IF spec.left THEN h.marginX ELSE scr.width - window.size.width - h.marginX
      /\ Place.y = IF spec.top THEN h.marginY ELSE scr.height - window.size.height - h.marginY
  <2>1. /\ window.used.x \in Int /\ window.used.y \in Int
        /\ window.used.width = scr.width /\ window.used.height = scr.height
        /\ window.at = computeX11Origin(config.corner, window.used, window.size.width,
                         window.size.height, window.marginX, window.marginY)
    BY DEF Fresh
  <2>2. platform = "x11" => scr.x = window.used.x /\ scr.y = window.used.y
    BY DEF Unmoved
  <2> HIDE DEF h
  <2> QED
    BY <1>1, <1>2, <1>3, <1>4, <2>1, <2>2 DEF Place, computeX11Origin
<1> HIDE DEF h, scr, spec
<1> QED
  BY <1>1, <1>3, <1>4, <1>5 DEF h, scr, spec

\* The window stands at the configured margins for every configuration, once
\* nothing is under way and unless the screen of an X11 window has moved since
\* it was placed: of _anchor()'s inputs only the screen's origin changes unheard.
THEOREM RingsAtMarginHolds == Spec => []RingsAtMargin
<1>1. IInv => RingsAtMargin
  <2> SUFFICES ASSUME TypeOK, Fresh, Settled, Unmoved PROVE RingsAtMargin
    BY DEF IInv, RingsAtMargin
  <2> DEFINE scr == screens[on]
             h == halo(config)
             spec == cornerToAnchorSpec(config.corner)
  <2>1. config.marginX \in Nat /\ config.marginY \in Nat
    BY SettingFacts DEF TypeOK
  <2>2. /\ h.left \in Int /\ h.right \in Int /\ h.top \in Int /\ h.bottom \in Int
        /\ h.marginX \in Nat /\ h.marginY \in Nat
        /\ spec.left => h.marginX + h.left = config.marginX
        /\ ~spec.left => h.marginX + h.right = config.marginX
        /\ spec.top => h.marginY + h.top = config.marginY
        /\ ~spec.top => h.marginY + h.bottom = config.marginY
    BY InsetFacts DEF TypeOK
  <2>3. /\ scr.width \in Nat /\ scr.height \in Nat /\ window.spec = spec
        /\ window.size.width \in Int /\ window.size.height \in Int
        /\ window.size.width <= scr.width - h.marginX
        /\ window.size.height <= scr.height - h.marginY
        /\ Place.x = IF spec.left THEN h.marginX ELSE scr.width - window.size.width - h.marginX
        /\ Place.y = IF spec.top THEN h.marginY ELSE scr.height - window.size.height - h.marginY
    BY PlaceFacts
  <2>4. config.screen \in DOMAIN screens => on = config.screen
    BY DEF Settled, Fresh, target
  <2>5. /\ Content.x = h.left /\ Content.width = window.size.width - h.left - h.right
        /\ Content.y = h.top /\ Content.height = window.size.height - h.top - h.bottom
    BY DEF Content
  <2> HIDE DEF h, scr, spec
  <2> QED
    BY <2>1, <2>2, <2>3, <2>4, <2>5 DEF RingsAtMargin, scr, spec
<1> QED
  BY <1>1, InvHolds, PTL

\* Every variable keeps its type, whatever is plugged, dragged or configured.
THEOREM TypeCorrect == Spec => []TypeOK
BY InvHolds, PTL DEF IInv
-----------------------------------------------------------------------------
\* The bands of the core rings for any number of cores: consecutive bands one
\* gap apart, and never deeper than seven comfortable rings while a band is
\* wider than the one-pixel floor.
THEOREM CoresKeepTheirRoom ==
  ASSUME NEW edge \in Int, NEW stroke \in Nat, NEW gap \in Nat, NEW n \in Nat \ {0}
  PROVE  LET nest == nestedRingLayout(edge, stroke, gap, n)
         IN /\ \A i \in 1 .. n - 1 :
                 nest.twiceRadii[i] + nest.stroke + 2 * nest.gap = nest.twiceRadii[i - 1] - nest.stroke
            /\ nest.stroke > 4 * n \/ n <= ComfortRingCount =>
                 nest.twiceRadii[n - 1] - nest.stroke >= 4 * n * (edge - 2 * (ComfortRingCount * (stroke + gap)))
<1> DEFINE crowded == n > ComfortRingCount
           band  == IF crowded THEN unit(ComfortRingCount, stroke, gap, n) ELSE 4 * n * stroke
           space == IF crowded THEN band ELSE 4 * n * gap
           outer == 2 * n * edge
           radius(i) == 2 * (outer - space) - band - 2 * i * (band + space)
           nest == nestedRingLayout(edge, stroke, gap, n)
<1>1. nest.stroke = band /\ nest.gap = space /\ nest.twiceRadii = [i \in 0 .. n - 1 |-> radius(i)]
  BY DEF nestedRingLayout
<1>2. unit(ComfortRingCount, stroke, gap, n) \in Int
  BY DEF unit, AtLeast, ComfortRingCount
<1>3. band \in Int /\ space \in Int /\ outer \in Int
  <2>1. 4 * n * stroke \in Int /\ 4 * n * gap \in Int /\ 2 * n * edge \in Int
    OBVIOUS
  <2> QED
    BY <1>2, <2>1
<1>4. \A i \in 1 .. n - 1 : radius(i) + band + 2 * space = radius(i - 1) - band
  <2> HIDE DEF band, space, outer
  <2> TAKE i \in 1 .. n - 1
  <2>1. 2 * i * (band + space) = 2 * (i - 1) * (band + space) + 2 * (band + space)
    BY <1>3
  <2> DEFINE below == 2 * i * (band + space)
             above == 2 * (i - 1) * (band + space)
  <2>2. below \in Int /\ above \in Int
    BY <1>3
  <2>3. radius(i) = 2 * (outer - space) - band - below /\ radius(i - 1) = 2 * (outer - space) - band - above
    OBVIOUS
  <2> HIDE DEF below, above, radius
  <2>4. below = above + 2 * (band + space)
    BY <2>1 DEF below, above
  <2> QED
    BY <1>3, <2>2, <2>3, <2>4
<1>5. band > 4 * n \/ n <= ComfortRingCount =>
        radius(n - 1) - band >= 4 * n * (edge - 2 * (ComfortRingCount * (stroke + gap)))
  <2> DEFINE both == stroke + gap
  <2>1. both \in Nat
    OBVIOUS
  <2>2. CASE ~crowded
    <3>1. n <= 7
      BY <2>2 DEF ComfortRingCount
    <3>2. band = 4 * n * stroke /\ space = 4 * n * gap
      BY <2>2
    <3>3. radius(n - 1) - band = 4 * n * edge - 8 * n * (n * both)
      BY <3>2
    <3>4. n * both <= 7 * both
      BY <2>1, <3>1
    <3>5. n * (n * both) <= n * (7 * both)
      BY <2>1, <3>4
    <3>6. 4 * n * (edge - 2 * (7 * both)) = 4 * n * edge - 8 * (n * (7 * both))
      BY <2>1
    <3> HIDE DEF both, band, space, radius
    <3> QED
      BY <2>1, <3>3, <3>5, <3>6 DEF ComfortRingCount, both
  <2>3. CASE crowded /\ band > 4 * n
    <3>1. band = 14 * both /\ space = band
      BY <2>3 DEF unit, AtLeast, ComfortRingCount
    <3>2. radius(n - 1) - band = 4 * n * edge - 4 * (n * band)
      <4> HIDE DEF band
      <4> QED
        BY <1>3, <3>1
    <3>3. 4 * n * (edge - 2 * (7 * both)) = 4 * n * edge - 4 * (n * (14 * both))
      BY <2>1
    <3> HIDE DEF both, band, space, radius
    <3> QED
      BY <2>1, <3>1, <3>2, <3>3 DEF ComfortRingCount, both
  <2>4. n <= ComfortRingCount => ~crowded
    BY DEF ComfortRingCount
  <2> HIDE DEF crowded, radius, band
  <2> QED
    BY <2>2, <2>3, <2>4
<1> QED
  BY <1>1, <1>4, <1>5

\* For any disk that reserves some of its free blocks (or none): df's share,
\* which the ring draws, is not above the share of the tooltip's bytes.
THEOREM RingBelowBytesHolds ==
  ASSUME NEW disk \in [block : Nat, total : Nat, free : Nat, available : Nat],
         disk.available <= disk.free, disk.free <= disk.total
  PROVE  RingBelowBytes(disk)
<1> DEFINE T == disk.total
           F == disk.free
           A == disk.available
<1>1. T \in Nat /\ F \in Nat /\ A \in Nat /\ A <= F /\ F <= T
  OBVIOUS
<1>2. buildRows(disk).used = T - A
  BY <1>1 DEF buildRows
<1>3. CASE T = 0 \/ T - F + A <= 0
  <2>1. diskUsagePercent(disk) = [n |-> 0, of |-> 1]
    BY <1>3 DEF diskUsagePercent
  <2>2. 0 * T = 0 /\ (T - A) * 1 = T - A /\ T - A >= 0
    BY <1>1
  <2>3. A = F => T - A = 0
    BY <1>1, <1>3
  <2> QED
    BY <1>2, <2>1, <2>2, <2>3 DEF RingBelowBytes
<1>4. CASE T # 0 /\ T - F + A > 0
  <2>1. diskUsagePercent(disk).n = T - F /\ diskUsagePercent(disk).of = T - F + A
    BY <1>1, <1>4 DEF diskUsagePercent
  <2>2. (T - A) * (T - F + A) = (T - F) * T + A * (F - A)
    BY <1>1
  <2>3. A * (F - A) >= 0 /\ (A = F => A * (F - A) = 0)
    BY <1>1
  <2>4. (T - F) * T \in Int /\ A * (F - A) \in Int
    BY <1>1
  <2> DEFINE share == (T - F) * T
             rest  == A * (F - A)
  <2>5. (T - A) * (T - F + A) = share + rest
    BY <2>2
  <2> HIDE DEF share, rest
  <2>6. share <= share + rest /\ (A = F => share = share + rest)
    BY <2>3, <2>4 DEF share, rest
  <2> QED
    BY <1>2, <2>1, <2>5, <2>6 DEF RingBelowBytes, share
<1> QED
  BY <1>1, <1>3, <1>4

-----------------------------------------------------------------------------
(***************************************************************************)
(* The sizes inside a ring.                                                *)
(***************************************************************************)

\* A dimension is its share of the size to half a pixel, or its least value.
LEMMA ComputeFacts ==
  ASSUME NEW size, NEW factor, NEW least \in Nat, NEW scale, NEW share \in Nat,
         size * factor * scale = share
  PROVE  LET n == compute(size, [factor |-> factor, min |-> least], scale)
         IN /\ n \in Nat /\ n >= least
            /\ n = least \/ 200000 * n <= 2 * share + 100000
<1> DEFINE whole == (2 * share + 100000) \div 200000
<1>1. compute(size, [factor |-> factor, min |-> least], scale)
        = IF whole < least THEN least ELSE whole
  BY DEF compute, AtLeast, RoundDiv
<1>2. whole \in Nat /\ 200000 * whole <= 2 * share + 100000
  BY SMT
<1> HIDE DEF whole
<1> QED
  BY <1>1, <1>2, SMT

LEMMA PlainFacts ==
  ASSUME NEW size \in Nat, NEW factor \in Nat, NEW least \in Nat
  PROVE  LET n == compute(size, [factor |-> factor, min |-> least], 100)
         IN /\ n \in Nat /\ n >= least
            /\ n = least \/ 2000 * n <= 2 * (size * factor) + 1000
<1> DEFINE part  == size * factor
           whole == (2 * (size * factor * 100) + 100000) \div 200000
<1>1. compute(size, [factor |-> factor, min |-> least], 100)
        = IF whole < least THEN least ELSE whole
  BY DEF compute, AtLeast, RoundDiv
<1>2. part \in Nat /\ size * factor * 100 = 100 * part
  BY SMT
<1> HIDE DEF part
<1>3. whole \in Nat /\ 2000 * whole <= 2 * part + 1000
  BY <1>2, SMT
<1> HIDE DEF whole
<1> QED
  BY <1>1, <1>3, SMT DEF part

\* The strokes, gaps and readouts of a ring of some size, in linear bounds.
LEMMA DimensionFacts ==
  ASSUME NEW size \in Nat, size >= 80, NEW fontScale \in Nat
  PROVE  LET dims == dimensionsFor(size, fontScale)
         IN /\ dims.ringStroke \in Nat /\ dims.ringStroke >= 4
            /\ 200 * dims.ringStroke <= 11 * size + 100
            /\ dims.twiceRadius = size - dims.ringStroke - 4
            /\ dims.twiceInnerEdge = size - 2 * dims.ringStroke - 4
            /\ dims.nestedStroke \in Nat /\ dims.nestedStroke >= 2
            /\ dims.nestedStroke = 2 \/ 1000 * dims.nestedStroke <= 17 * size + 500
            /\ dims.nestedGap \in Nat /\ dims.nestedGap >= 2
            /\ 1000 * dims.nestedGap <= 22 * size + 500
            /\ dims.valuePx \in Nat /\ dims.baseValuePx \in Nat \ {0}
            /\ dims.valuePx = 14 \/ 100 * dims.valuePx <= 24 * size + 50
<1> DEFINE font == AtMost(150, AtLeast(50, fontScale))
           t == compute(size, [factor |-> 55, min |-> 4], 100)
           s == compute(size, [factor |-> 17, min |-> 2], 100)
           g == compute(size, [factor |-> 22, min |-> 2], 100)
           v == compute(size, [factor |-> 160, min |-> 14], font)
           b == compute(size, [factor |-> 160, min |-> 14], 100)
<1>1. dimensionsFor(size, fontScale)
        = [ringStroke |-> t, twiceRadius |-> size - t - 4, twiceInnerEdge |-> size - 2 * t - 4,
           nestedStroke |-> s, nestedGap |-> g, valuePx |-> v, baseValuePx |-> b]
  BY DEF dimensionsFor, DimensionRules
<1>2. font \in Nat /\ font <= 150
  BY DEF AtMost, AtLeast
<1> HIDE DEF font
<1>3. t \in Nat /\ t >= 4 /\ (t = 4 \/ 2000 * t <= 2 * (size * 55) + 1000)
  BY PlainFacts, SMT
<1>4. s \in Nat /\ s >= 2 /\ (s = 2 \/ 2000 * s <= 2 * (size * 17) + 1000)
  BY PlainFacts, SMT
<1>5. g \in Nat /\ g >= 2 /\ (g = 2 \/ 2000 * g <= 2 * (size * 22) + 1000)
  BY PlainFacts, SMT
<1>6. b \in Nat /\ b >= 14
  BY PlainFacts, SMT
<1>7. v \in Nat /\ (v = 14 \/ 100 * v <= 24 * size + 50)
  <2> DEFINE share == size * 160 * font
  <2>1. size * font <= 150 * size /\ size * font \in Nat
    BY <1>2
  <2>2. share = 160 * (size * font)
    BY <1>2
  <2> HIDE DEF share
  <2>3. share \in Nat /\ share <= 24000 * size
    BY <2>1, <2>2, SMT
  <2>4. v \in Nat /\ (v = 14 \/ 200000 * v <= 2 * share + 100000)
    <3>1. size * 160 * font = share
      BY DEF share
    <3> QED
      BY <2>3, <3>1, ComputeFacts, SMT
  <2> HIDE DEF v
  <2> QED
    BY <2>3, <2>4, SMT
<1> HIDE DEF t, s, g, v, b
<1>8. /\ 200 * t <= 11 * size + 100
      /\ s = 2 \/ 1000 * s <= 17 * size + 500
      /\ 1000 * g <= 22 * size + 500
  BY <1>3, <1>4, <1>5, SMT
<1> QED
  BY <1>1, <1>3, <1>4, <1>5, <1>6, <1>7, <1>8, SMT

\* From 80 pixels on, the size has room for what is drawn inside.
LEMMA RoomFacts ==
  ASSUME NEW size \in Nat, size >= 80, NEW fontScale \in Nat
  PROVE  LET dims == dimensionsFor(size, fontScale)
         IN /\ dims.twiceInnerEdge > 14 * (dims.nestedStroke + dims.nestedGap)
            /\ dims.twiceRadius > 7 * (dims.ringStroke + dims.nestedGap)
            /\ 696 * dims.twiceRadius >= 10000 * dims.ringStroke
            /\ 100 * RoundDiv(size * 18, 100) + 82 * dims.valuePx <= 50 * dims.twiceInnerEdge
<1> DEFINE dims == dimensionsFor(size, fontScale)
           t == dims.ringStroke
           s == dims.nestedStroke
           g == dims.nestedGap
           v == dims.valuePx
           base == RoundDiv(size * 18, 100)
<1>1. /\ t \in Nat /\ s \in Nat /\ g \in Nat /\ v \in Nat
      /\ 200 * t <= 11 * size + 100
      /\ s = 2 \/ 1000 * s <= 17 * size + 500
      /\ 1000 * g <= 22 * size + 500
      /\ v = 14 \/ 100 * v <= 24 * size + 50
      /\ dims.twiceRadius = size - t - 4 /\ dims.twiceInnerEdge = size - 2 * t - 4
  BY DimensionFacts, SMT
<1>2. base \in Int /\ 200 * base <= 36 * size + 100
  <2>1. base = (2 * (size * 18) + 100) \div 200
    BY DEF RoundDiv
  <2> QED
    BY <2>1, SMT
<1> HIDE DEF dims, t, s, g, v, base
<1>3. size - 2 * t - 4 > 14 * (s + g)
  BY <1>1, SMT
<1>4. size - t - 4 > 7 * (t + g)
  BY <1>1, SMT
<1>5. 696 * (size - t - 4) >= 10000 * t
  BY <1>1, SMT
<1>6. 100 * base + 82 * v <= 50 * (size - 2 * t - 4)
  BY <1>1, <1>2, SMT
<1> QED
  BY <1>1, <1>3, <1>4, <1>5, <1>6, SMT DEF dims, t, s, g, v, base

\* Bands at even steps inwards are one gap apart, however many.
LEMMA EvenBands ==
  ASSUME NEW outer \in Int, NEW band \in Int, NEW space \in Int, NEW i \in Int
  PROVE  (outer - 2 * i * (band + space)) + band + 2 * space
           = (outer - 2 * (i - 1) * (band + space)) - band
<1> DEFINE below == 2 * i * (band + space)
           above == 2 * (i - 1) * (band + space)
<1>1. below \in Int /\ above \in Int /\ below = above + 2 * (band + space)
  OBVIOUS
<1> HIDE DEF below, above
<1>2. (outer - below) + band + 2 * space = (outer - above) - band
  BY <1>1
<1> QED
  BY <1>2 DEF below, above

\* Up to six rings of equal thickness are one gap apart and stay off the centre.
LEMMA EqualRingsFit ==
  ASSUME NEW radius \in Int, NEW stroke \in Nat, NEW gap \in Nat, NEW m \in 1 .. DiskMaxRingCount,
         stroke >= 4, gap >= 2, radius > 7 * (stroke + gap)
  PROVE  LET equal == equalRingLayout(radius, stroke, gap, m)
         IN /\ \A i \in 1 .. m - 1 :
                 equal.twiceRadii[i] + equal.stroke + 2 * equal.gap
                   = equal.twiceRadii[i - 1] - equal.stroke
            /\ equal.twiceRadii[m - 1] - equal.stroke > 0
<1> DEFINE crowded == m > DiskComfortRingCount
           band  == IF crowded THEN unit(DiskComfortRingCount, stroke, gap, m) ELSE 4 * m * stroke
           space == IF crowded THEN band ELSE 4 * m * gap
           outer == 4 * m * radius
           at(i) == outer - 2 * i * (band + space)
           equal == equalRingLayout(radius, stroke, gap, m)
<1>1. equal.stroke = band /\ equal.gap = space /\ equal.twiceRadii = [i \in 0 .. m - 1 |-> at(i)]
  BY DEF equalRingLayout
<1>2. m \in {1, 2, 3, 4, 5, 6}
  BY DEF DiskMaxRingCount
<1>3. CASE m <= 4
  <2>1. band = 4 * m * stroke /\ space = 4 * m * gap
    BY <1>2, <1>3 DEF DiskComfortRingCount
  <2>2. band \in Int /\ space \in Int /\ outer \in Int
    BY <1>2, <2>1
  <2>3. at(m - 1) - band > 0
    <3> HIDE DEF band, space
    <3> QED
      BY <1>2, <1>3, <2>1
  <2> HIDE DEF band, space, outer
  <2>4. \A i \in 1 .. m - 1 : at(i) + band + 2 * space = at(i - 1) - band
    BY <1>2, <2>2, EvenBands
  <2> QED
    BY <1>1, <1>2, <2>3, <2>4
<1>4. CASE m > 4
  <2>1. band = 8 * (stroke + gap) /\ space = 8 * (stroke + gap)
    BY <1>2, <1>4 DEF DiskComfortRingCount, unit, AtLeast
  <2>2. band \in Int /\ space \in Int /\ outer \in Int
    BY <1>2, <2>1
  <2>3. at(m - 1) - band > 0
    <3> HIDE DEF band, space
    <3> QED
      BY <1>2, <1>4, <2>1
  <2> HIDE DEF band, space, outer
  <2>4. \A i \in 1 .. m - 1 : at(i) + band + 2 * space = at(i - 1) - band
    BY <1>2, <2>2, EvenBands
  <2> QED
    BY <1>1, <1>2, <2>3, <2>4
<1> QED
  BY <1>2, <1>3, <1>4

\* The halves of a split ring stay the gap apart, whatever they show.
LEMMA ArcsApart ==
  ASSUME NEW p \in Int, NEW q \in Int
  PROVE  rightHalf(q).from \in Int /\ leftHalf(p).to \in Int
         /\ rightHalf(q).from - leftHalf(p).to >= SplitGap
<1> DEFINE arc(n) == (13100 * clampShare(n)) \div 100
<1>1. \A n \in Int : clampShare(n) \in 0 .. 100
  BY DEF clampShare, AtLeast, AtMost
<1>2. \A n \in Int : arc(n) \in Int /\ arc(n) <= 13100
  <2> TAKE n \in Int
  <2> DEFINE share == clampShare(n)
  <2>1. share \in 0 .. 100
    BY <1>1
  <2> HIDE DEF share
  <2>2. (13100 * share) \div 100 \in Int /\ (13100 * share) \div 100 <= 13100
    BY <2>1, SMT
  <2> QED
    BY <2>2 DEF share
<1>3. effectiveHalfSweep = 13100
  BY SMT DEF effectiveHalfSweep, BaseSweep, SplitGap
<1>4. leftHalf(p).to = 13500 + arc(p) /\ rightHalf(q).from = 40500 - arc(q)
  <2>1. /\ leftHalf(p).to = BaseStart + (effectiveHalfSweep * clampShare(p)) \div 100
        /\ rightHalf(q).from
             = BaseStart + BaseSweep - (effectiveHalfSweep * clampShare(q)) \div 100
    BY DEF leftHalf, rightHalf
  <2>2. leftHalf(p).to = BaseStart + arc(p) /\ rightHalf(q).from = BaseStart + BaseSweep - arc(q)
    BY <1>3, <2>1
  <2> HIDE DEF arc
  <2> QED
    BY <1>2, <2>2, SMT DEF BaseStart, BaseSweep
<1> HIDE DEF arc
<1> QED
  BY <1>2, <1>4, SMT DEF SplitGap

\* The box that the rings share, and the side of the square each is drawn in.
LEMMA BoxFacts ==
  ASSUME TypeOK, Fresh, Settled
  PROVE  LET along  == IF config.vertical THEN Content.height ELSE Content.width
             across == IF config.vertical THEN Content.width ELSE Content.height
         IN /\ config.count \in Nat \ {0} /\ gridSpacing(config) \in Nat
            /\ Content.width \in Int /\ Content.height \in Int
            /\ CellLength \in Int /\ RingSide \in Int
            /\ config.count * CellLength + (config.count - 1) * gridSpacing(config) <= along
            /\ RingSide = AtMost(CellLength, across)
            /\ across <= config.ringSize
<1> DEFINE scr == screens[on]
           h == halo(config)
           W == window.size.width
           H == window.size.height
           n == config.count
           g == gridSpacing(config)
           along == IF config.vertical THEN Content.height ELSE Content.width
           strip == stripLength(config)
<1>1. scr.width \in Nat /\ scr.height \in Nat
  BY GeometriesAssumption DEF TypeOK
<1>2. config.ringSize \in Nat /\ n \in Nat \ {0}
  BY SettingFacts DEF TypeOK
<1>3. /\ h.left \in Int /\ h.right \in Int /\ h.top \in Int /\ h.bottom \in Int
      /\ h.marginX \in Int /\ h.marginY \in Int
  BY InsetFacts DEF TypeOK
<1>4. g \in Nat
  <2>1. g = (2 * (config.ringSize * 7) + 100) \div 200
    BY DEF gridSpacing, RoundDiv
  <2> QED
    BY <1>2, <2>1
<1>5. (n - 1) * g \in Int /\ config.ringSize * n \in Int /\ strip \in Int
  <2>1. (n - 1) * g \in Int /\ config.ringSize * n \in Int
    BY <1>2, <1>4
  <2> QED
    BY <2>1 DEF stripLength
<1> HIDE DEF h, scr, g, strip
<1>6. /\ W = AtMost(scr.width - h.marginX,
                    (IF config.vertical THEN config.ringSize ELSE strip) + h.left + h.right)
      /\ H = AtMost(scr.height - h.marginY,
                    (IF config.vertical THEN strip ELSE config.ringSize) + h.top + h.bottom)
  BY DEF Fresh, targetSize, h, scr, strip
<1>7. /\ W \in Int /\ H \in Int
      /\ config.vertical => W <= config.ringSize + h.left + h.right
      /\ ~config.vertical => H <= config.ringSize + h.top + h.bottom
  BY <1>1, <1>2, <1>3, <1>5, <1>6 DEF AtMost
<1>8. Content.width = W - h.left - h.right /\ Content.height = H - h.top - h.bottom
  BY DEF Content, h
<1> HIDE DEF W, H
<1>9. Content.width \in Int /\ Content.height \in Int
  BY <1>3, <1>7, <1>8
<1>10. along \in Int /\ CellLength = (along - (n - 1) * g) \div n
  BY <1>9 DEF CellLength, g
<1> DEFINE space == (n - 1) * g
<1> HIDE DEF n, along
<1>11. CellLength \in Int /\ n * CellLength + space <= along
  <2> HIDE DEF space
  <2>1. space \in Int /\ CellLength = (along - space) \div n
    BY <1>5, <1>10 DEF space
  <2>2. along - space \in Int /\ n \in Nat \ {0}
    BY <1>2, <1>10, <2>1 DEF n
  <2>3. \A a \in Int, d \in Nat \ {0} : a \div d \in Int /\ d * (a \div d) <= a
    BY SMT
  <2>4. CellLength \in Int /\ n * CellLength <= along - space
    BY <2>1, <2>2, <2>3
  <2>5. n * CellLength \in Int
    BY <2>2, <2>4
  <2> QED
    BY <1>10, <2>1, <2>4, <2>5
<1>12. RingSide = AtMost(CellLength, IF config.vertical THEN Content.width ELSE Content.height)
  BY DEF RingSide
<1>13. RingSide \in Int
  BY <1>9, <1>11, <1>12 DEF AtMost
<1>14. (IF config.vertical THEN Content.width ELSE Content.height) <= config.ringSize
  BY <1>2, <1>3, <1>7, <1>8
<1> QED
  BY <1>2, <1>4, <1>9, <1>11, <1>12, <1>13, <1>14 DEF n, g, along, space

\* The sizes the proofs below name.
LEMMA SizesInside ==
  ASSUME NEW size \in Nat, size >= 80, NEW fontScale \in Nat
  PROVE  LET dims == dimensionsFor(size, fontScale)
         IN /\ dims.ringStroke \in Nat /\ dims.ringStroke >= 4
            /\ dims.nestedStroke \in Nat /\ dims.nestedGap \in Nat /\ dims.nestedGap >= 2
            /\ dims.twiceRadius \in Int /\ dims.twiceInnerEdge \in Int
            /\ dims.valuePx \in Nat /\ dims.baseValuePx \in Nat \ {0}
<1> DEFINE dims == dimensionsFor(size, fontScale)
           t == dims.ringStroke
<1>1. /\ t \in Nat /\ t >= 4
      /\ dims.nestedStroke \in Nat /\ dims.nestedGap \in Nat /\ dims.nestedGap >= 2
      /\ dims.twiceRadius = size - t - 4 /\ dims.twiceInnerEdge = size - 2 * t - 4
      /\ dims.valuePx \in Nat /\ dims.baseValuePx \in Nat \ {0}
  BY DimensionFacts, SMT
<1> HIDE DEF dims, t
<1>2. size - t - 4 \in Int /\ size - 2 * t - 4 \in Int
  BY <1>1
<1> QED
  BY <1>1, <1>2 DEF dims, t

LEMMA CoresFitHolds ==
  ASSUME NEW size \in Nat, size >= 80, NEW fontScale \in Nat, NEW n \in Nat \ {0}
  PROVE  CoresFit(dimensionsFor(size, fontScale), n)
<1> DEFINE dims == dimensionsFor(size, fontScale)
           s == dims.nestedStroke
           g == dims.nestedGap
           e == dims.twiceInnerEdge
           nest == nestedRingLayout(e, s, g, n)
           room == ComfortRingCount * (s + g)
           inner == nest.twiceRadii[n - 1] - nest.stroke
<1>1. s \in Nat /\ g \in Nat /\ e \in Int /\ e > 14 * (s + g)
  BY SizesInside, RoomFacts, SMT
<1> HIDE DEF dims, s, g, e
<1>2. Apart(nest, n)
  <2>1. \A i \in 1 .. n - 1 :
          nest.twiceRadii[i] + nest.stroke + 2 * nest.gap = nest.twiceRadii[i - 1] - nest.stroke
    BY <1>1, CoresKeepTheirRoom
  <2> HIDE DEF nest
  <2> QED
    BY <2>1 DEF Apart
<1>3. nest.stroke > 4 * n => inner >= 4 * n * (e - 2 * room)
  BY <1>1, CoresKeepTheirRoom
<1>4. nest.twiceRadii[0] + nest.stroke + 2 * nest.gap = 4 * n * e
  <2> DEFINE band == nest.stroke
             space == nest.gap
  <2>1. nest.twiceRadii[0] = 2 * (2 * n * e - space) - band - 2 * 0 * (band + space)
    BY DEF nestedRingLayout
  <2>2. band \in Int /\ space \in Int
    <3>1. unit(ComfortRingCount, s, g, n) \in Int
      BY <1>1 DEF unit, AtLeast, ComfortRingCount
    <3>2. 4 * n * s \in Int /\ 4 * n * g \in Int
      BY <1>1
    <3> QED
      BY <3>1, <3>2 DEF nestedRingLayout
  <2> HIDE DEF nest, band, space
  <2>3. 2 * 0 * (band + space) = 0 /\ 2 * (2 * n * e) = 4 * n * e /\ 2 * n * e \in Int
    BY <1>1, <2>2
  <2> DEFINE outer == 2 * n * e
  <2>4. outer \in Int
    BY <2>3
  <2> HIDE DEF outer
  <2>5. 2 * (outer - space) - band - 0 + band + 2 * space = 2 * outer
    BY <2>2, <2>4
  <2> QED
    BY <2>1, <2>3, <2>5 DEF band, space, outer
<1>5. 4 * n * (e - 2 * room) > 0 /\ 4 * n * (e - 2 * room) \in Int
  <2>1. room = 7 * (s + g)
    BY DEF ComfortRingCount
  <2>2. e - 2 * room \in Int /\ e - 2 * room > 0
    BY <1>1, <2>1
  <2> HIDE DEF room
  <2> DEFINE left == e - 2 * room
  <2>3. left \in Int /\ left > 0
    BY <2>2
  <2> HIDE DEF left
  <2>4. 4 * n * left > 0 /\ 4 * n * left \in Int
    BY <2>3
  <2> QED
    BY <2>4 DEF left
<1>6. inner \in Int
  <2> DEFINE band == nest.stroke
             space == nest.gap
  <2>1. inner = 2 * (2 * n * e - space) - band - 2 * (n - 1) * (band + space) - band
    BY DEF nestedRingLayout
  <2>2. band \in Int /\ space \in Int
    <3>1. unit(ComfortRingCount, s, g, n) \in Int
      BY <1>1 DEF unit, AtLeast, ComfortRingCount
    <3>2. 4 * n * s \in Int /\ 4 * n * g \in Int
      BY <1>1
    <3> QED
      BY <3>1, <3>2 DEF nestedRingLayout
  <2> HIDE DEF nest, band, space, inner
  <2> QED
    BY <1>1, <2>1, <2>2
<1> HIDE DEF nest, room, inner
<1>7. nest.stroke > 4 * n => inner > 0
  <2> DEFINE least == 4 * n * (e - 2 * room)
  <2>1. least > 0 /\ least \in Int /\ (nest.stroke > 4 * n => inner >= least)
    BY <1>3, <1>5
  <2> HIDE DEF least
  <2> QED
    BY <1>6, <2>1
<1> QED
  BY <1>2, <1>3, <1>4, <1>7 DEF CoresFit, nest, room, inner, s, g, e, dims

LEMMA DisksFitHolds ==
  ASSUME NEW size \in Nat, size >= 80, NEW fontScale \in Nat
  PROVE  DisksFit(dimensionsFor(size, fontScale))
<1> DEFINE dims == dimensionsFor(size, fontScale)
<1>1. /\ dims.ringStroke \in Nat /\ dims.ringStroke >= 4
      /\ dims.nestedGap \in Nat /\ dims.nestedGap >= 2
      /\ dims.twiceRadius \in Int /\ dims.twiceRadius > 7 * (dims.ringStroke + dims.nestedGap)
  BY SizesInside, RoomFacts, SMT
<1> HIDE DEF dims
<1> SUFFICES DisksFit(dims)
  BY DEF dims
<1>2. ASSUME NEW m \in 1 .. DiskMaxRingCount
      PROVE  LET equal == equalRingLayout(dims.twiceRadius, dims.ringStroke, dims.nestedGap, m)
             IN Apart(equal, m) /\ equal.twiceRadii[m - 1] - equal.stroke > 0
  BY <1>1, EqualRingsFit DEF Apart
<1> QED
  BY <1>2 DEF DisksFit

LEMMA CapsApartHolds ==
  ASSUME NEW size \in Nat, size >= 80, NEW fontScale \in Nat, NEW p \in Int, NEW q \in Int
  PROVE  CapsApart(dimensionsFor(size, fontScale), p, q)
<1> DEFINE dims == dimensionsFor(size, fontScale)
           r == dims.twiceRadius
           t == dims.ringStroke
           apart == rightHalf(q).from - leftHalf(p).to
<1>1. r \in Int /\ t \in Nat /\ 696 * r >= 10000 * t
  BY SizesInside, RoomFacts, SMT
<1>2. apart \in Int /\ apart >= 800
  BY ArcsApart DEF SplitGap
<1> HIDE DEF dims, r, t, apart
<1>3. r * apart >= r * 800 /\ r * apart \in Int
  BY <1>1, <1>2, SMT
<1> DEFINE area == r * apart
<1> HIDE DEF area
<1>4. area * 87 >= 1000000 * t
  BY <1>1, <1>3, SMT DEF area
<1> QED
  BY <1>4, SMT DEF CapsApart, area, apart, r, t, dims

LEMMA ReadoutInsideHolds ==
  ASSUME NEW size \in Nat, size >= 80, NEW fontScale \in Nat
  PROVE  ReadoutInside(size, dimensionsFor(size, fontScale))
<1> DEFINE dims == dimensionsFor(size, fontScale)
           v == dims.valuePx
           e == dims.twiceInnerEdge
           base == RoundDiv(size * 18, 100)
           grown == RoundDiv(size * 18 * v, 100 * dims.baseValuePx)
           room == (50 * e - 82 * v) \div 100
           offset == splitReadoutOffset(size, dims)
<1>1. /\ v \in Nat /\ e \in Int /\ dims.baseValuePx \in Nat \ {0}
      /\ 100 * base + 82 * v <= 50 * e
  BY SizesInside, RoomFacts, SMT
<1>2. offset = AtLeast(base, AtMost(grown, room))
  BY DEF splitReadoutOffset
<1> HIDE DEF dims, v, e, offset
<1>3. base \in Int
  <2>1. size * 18 \in Int
    OBVIOUS
  <2> QED
    BY <2>1 DEF RoundDiv
<1>4. room \in Int /\ 100 * room <= 50 * e - 82 * v
  BY <1>1, SMT
<1>5. grown \in Int
  <2> DEFINE d == 100 * dims.baseValuePx
             part == size * 18 * v
  <2>1. d \in Nat \ {0} /\ part \in Int
    BY <1>1
  <2> HIDE DEF d, part
  <2>2. (2 * part + d) \div (2 * d) \in Int
    BY <2>1
  <2> QED
    BY <2>2 DEF RoundDiv, d, part
<1> HIDE DEF base, grown, room
<1>6. offset = base \/ (offset \in Int /\ offset <= room)
  BY <1>2, <1>3, <1>4, <1>5 DEF AtLeast, AtMost
<1>7. 100 * offset + 82 * v <= 50 * e
  BY <1>1, <1>4, <1>6, SMT
<1> QED
  BY <1>7 DEF ReadoutInside, offset, v, e, dims

\* Everything inside a ring has its place, for any number of cores, any size
\* and any font scale the settings allow, once the window stands.
THEOREM RingsFitHolds == Spec => []RingsFit
<1>1. IInv => RingsFit
  <2> SUFFICES ASSUME TypeOK, Fresh, Settled, Roomy PROVE RingsFit
    BY DEF IInv, RingsFit
  <2>1. RingSide \in Nat /\ RingSide >= 80
    <3>1. RingSide \in Int
      BY BoxFacts
    <3> QED
      BY <3>1 DEF Roomy
  <2>2. config.cores \in Nat /\ config.fontScale \in Nat
    BY SettingFacts DEF TypeOK
  <2>3. config.cores > 0 => CoresFit(dimensionsFor(RingSide, config.fontScale), config.cores)
    BY <2>1, <2>2, CoresFitHolds
  <2>4. DisksFit(dimensionsFor(RingSide, config.fontScale))
    BY <2>1, <2>2, DisksFitHolds
  <2> DEFINE side == RingSide
             font == config.fontScale
  <2> HIDE DEF side, font
  <2>5. \A p, q \in {0, 50, 100, 130} : CapsApart(dimensionsFor(side, font), p, q)
    <3>1. side \in Nat /\ side >= 80 /\ font \in Nat
      BY <2>1, <2>2 DEF side, font
    <3>2. \A p, q \in Int : CapsApart(dimensionsFor(side, font), p, q)
      BY <3>1, CapsApartHolds
    <3> QED
      BY <3>2
  <2>6. ReadoutInside(RingSide, dimensionsFor(RingSide, config.fontScale))
    BY <2>1, <2>2, ReadoutInsideHolds
  <2> QED
    BY <2>3, <2>4, <2>5, <2>6 DEF RingsFit, side, font
<1> QED
  BY <1>1, InvHolds, PTL

-----------------------------------------------------------------------------
(***************************************************************************)
(* The halo.                                                               *)
(***************************************************************************)

\* The box around squares, as ringBounds() draws it.
BoxOf(squares) ==
  LET left   == CHOOSE n \in {s.x : s \in squares} : \A s \in squares : n <= s.x
      top    == CHOOSE n \in {s.y : s \in squares} : \A s \in squares : n <= s.y
      right  == CHOOSE n \in {s.x + s.side : s \in squares} : \A s \in squares : n >= s.x + s.side
      bottom == CHOOSE n \in {s.y + s.side : s \in squares} : \A s \in squares : n >= s.y + s.side
  IN [x |-> left, y |-> top, width |-> right - left, height |-> bottom - top]

\* The box of squares that lie between two of them, which may be one.
LEMMA BoxBetween ==
  ASSUME NEW squares, NEW first \in squares, NEW last \in squares,
         \A s \in squares : s.x \in Int /\ s.y \in Int /\ s.side \in Int,
         \A s \in squares : /\ first.x <= s.x /\ first.y <= s.y
                            /\ s.x + s.side <= last.x + last.side
                            /\ s.y + s.side <= last.y + last.side
  PROVE  BoxOf(squares) = [x |-> first.x, y |-> first.y,
                           width  |-> last.x + last.side - first.x,
                           height |-> last.y + last.side - first.y]
<1> DEFINE left   == CHOOSE n \in {s.x : s \in squares} : \A s \in squares : n <= s.x
           top    == CHOOSE n \in {s.y : s \in squares} : \A s \in squares : n <= s.y
           right  == CHOOSE n \in {s.x + s.side : s \in squares} : \A s \in squares : n >= s.x + s.side
           bottom == CHOOSE n \in {s.y + s.side : s \in squares} : \A s \in squares : n >= s.y + s.side
<1>1. left = first.x
  <2>1. left \in {s.x : s \in squares} /\ \A s \in squares : left <= s.x
    <3>1. first.x \in {s.x : s \in squares} /\ \A s \in squares : first.x <= s.x
      OBVIOUS
    <3> QED
      BY <3>1
  <2> HIDE DEF left
  <2>2. PICK s \in squares : left = s.x
    BY <2>1
  <2> QED
    BY <2>1, <2>2
<1>2. top = first.y
  <2>1. top \in {s.y : s \in squares} /\ \A s \in squares : top <= s.y
    <3>1. first.y \in {s.y : s \in squares} /\ \A s \in squares : first.y <= s.y
      OBVIOUS
    <3> QED
      BY <3>1
  <2> HIDE DEF top
  <2>2. PICK s \in squares : top = s.y
    BY <2>1
  <2> QED
    BY <2>1, <2>2
<1>3. right = last.x + last.side
  <2>1. right \in {s.x + s.side : s \in squares} /\ \A s \in squares : right >= s.x + s.side
    <3>1. /\ last.x + last.side \in {s.x + s.side : s \in squares}
          /\ \A s \in squares : last.x + last.side >= s.x + s.side
      OBVIOUS
    <3> QED
      BY <3>1
  <2> HIDE DEF right
  <2>2. PICK s \in squares : right = s.x + s.side
    BY <2>1
  <2> QED
    BY <2>1, <2>2
<1>4. bottom = last.y + last.side
  <2>1. bottom \in {s.y + s.side : s \in squares} /\ \A s \in squares : bottom >= s.y + s.side
    <3>1. /\ last.y + last.side \in {s.y + s.side : s \in squares}
          /\ \A s \in squares : last.y + last.side >= s.y + s.side
      OBVIOUS
    <3> QED
      BY <3>1
  <2> HIDE DEF bottom
  <2>2. PICK s \in squares : bottom = s.y + s.side
    BY <2>1
  <2> QED
    BY <2>1, <2>2
<1>5. BoxOf(squares) = [x |-> left, y |-> top, width |-> right - left, height |-> bottom - top]
  BY DEF BoxOf
<1> HIDE DEF left, top, right, bottom
<1> QED
  BY <1>1, <1>2, <1>3, <1>4, <1>5

\* The square that ringBounds() finds drawn in a cell.
SquareIn(c) ==
  LET side == AtMost(c.width, c.height)
  IN [x |-> c.x + (c.width - side) \div 2, y |-> c.y + (c.height - side) \div 2, side |-> side]

LEMMA SquareInFacts ==
  ASSUME NEW x \in Int, NEW y \in Int, NEW w \in Nat, NEW h \in Nat, NEW r \in Nat,
         r = AtMost(w, h)
  PROVE  SquareIn([x |-> 2 * x, y |-> 2 * y, width |-> 2 * w, height |-> 2 * h])
           = [x |-> 2 * x + w - r, y |-> 2 * y + h - r, side |-> 2 * r]
<1>1. AtMost(2 * w, 2 * h) = 2 * r
  BY DEF AtMost
<1>2. (2 * w - 2 * r) \div 2 = w - r /\ (2 * h - 2 * r) \div 2 = h - r
  <2>1. \A a \in Int : (2 * a) \div 2 = a
    BY SMT
  <2>2. /\ 2 * w - 2 * r = 2 * (w - r) /\ w - r \in Int
        /\ 2 * h - 2 * r = 2 * (h - r) /\ h - r \in Int
    OBVIOUS
  <2> QED
    BY <2>1, <2>2
<1> QED
  BY <1>1, <1>2 DEF SquareIn

\* n equal cells at even steps, and the box around the squares in them.
CellsAt(x, y, w, h, dx, dy, n) ==
  {[x |-> 2 * (x + i * dx), y |-> 2 * (y + i * dy), width |-> 2 * w, height |-> 2 * h]
   : i \in 0 .. n - 1}

RowOfCells(x, y, w, h, dx, dy, n, r) ==
  /\ x \in Int /\ y \in Int /\ w \in Nat \ {0} /\ h \in Nat \ {0}
  /\ dx \in Nat /\ dy \in Nat /\ n \in Nat \ {0} /\ r \in Nat /\ r = AtMost(w, h)

BoxAround(x, y, w, h, dx, dy, n, r) ==
  [x |-> 2 * x + w - r, y |-> 2 * y + h - r,
   width |-> 2 * ((n - 1) * dx) + 2 * r, height |-> 2 * ((n - 1) * dy) + 2 * r]

LEMMA CellBounds ==
  ASSUME NEW x, NEW y, NEW w, NEW h, NEW dx, NEW dy, NEW n, NEW r,
         RowOfCells(x, y, w, h, dx, dy, n, r)
  PROVE  ringBounds(CellsAt(x, y, w, h, dx, dy, n)) = BoxAround(x, y, w, h, dx, dy, n, r)
<1>0. /\ x \in Int /\ y \in Int /\ w \in Nat \ {0} /\ h \in Nat \ {0}
      /\ dx \in Nat /\ dy \in Nat /\ n \in Nat \ {0} /\ r \in Nat /\ r = AtMost(w, h)
  BY DEF RowOfCells
<1> USE <1>0
<1> DEFINE cell(i) == [x |-> 2 * (x + i * dx), y |-> 2 * (y + i * dy), width |-> 2 * w, height |-> 2 * h]
           cells == {cell(i) : i \in 0 .. n - 1}
           square(i) == [x |-> 2 * (x + i * dx) + w - r, y |-> 2 * (y + i * dy) + h - r, side |-> 2 * r]
           squares == {square(i) : i \in 0 .. n - 1}
<1>1. \A i \in 0 .. n - 1 : x + i * dx \in Int /\ y + i * dy \in Int
  BY SMT
<1>2. \A i \in 0 .. n - 1 : SquareIn(cell(i)) = square(i)
  <2> TAKE i \in 0 .. n - 1
  <2> DEFINE a == x + i * dx
             b == y + i * dy
  <2>1. a \in Int /\ b \in Int
    BY <1>1
  <2> HIDE DEF a, b
  <2>2. SquareIn([x |-> 2 * a, y |-> 2 * b, width |-> 2 * w, height |-> 2 * h])
          = [x |-> 2 * a + w - r, y |-> 2 * b + h - r, side |-> 2 * r]
    BY <2>1, SquareInFacts
  <2> QED
    BY <2>2 DEF a, b
<1>3. {d \in cells : d.width > 0 /\ d.height > 0} = cells
  <2>1. \A i \in 0 .. n - 1 : cell(i).width > 0 /\ cell(i).height > 0
    OBVIOUS
  <2> HIDE DEF cell
  <2> QED
    BY <2>1
<1>4. {SquareIn(c) : c \in cells} = squares
  <2> HIDE DEF cell, square
  <2> QED
    BY <1>2
<1>5. ringBounds(cells) = BoxOf({SquareIn(c) : c \in {d \in cells : d.width > 0 /\ d.height > 0}})
  <2> HIDE DEF cells
  <2> QED
    BY DEF ringBounds, BoxOf, SquareIn
<1>6. ringBounds(cells) = BoxOf(squares)
  <2> HIDE DEF cells, squares
  <2> QED
    BY <1>3, <1>4, <1>5
<1>7. /\ 0 * dx = 0 /\ (n - 1) * dx \in Int /\ 0 * dy = 0 /\ (n - 1) * dy \in Int
      /\ \A i \in 0 .. n - 1 : /\ i * dx \in Int /\ 0 <= i * dx /\ i * dx <= (n - 1) * dx
                               /\ i * dy \in Int /\ 0 <= i * dy /\ i * dy <= (n - 1) * dy
  BY SMT
<1>8. BoxOf(squares) = [x |-> square(0).x, y |-> square(0).y,
                        width  |-> square(n - 1).x + square(n - 1).side - square(0).x,
                        height |-> square(n - 1).y + square(n - 1).side - square(0).y]
  <2>1. square(0) \in squares /\ square(n - 1) \in squares
    <3> HIDE DEF square
    <3>1. 0 \in 0 .. n - 1 /\ n - 1 \in 0 .. n - 1
      OBVIOUS
    <3> QED
      BY <3>1
  <2>2. \A s \in squares : s.x \in Int /\ s.y \in Int /\ s.side \in Int
    BY <1>7
  <2>3. \A s \in squares :
          /\ square(0).x <= s.x /\ square(0).y <= s.y
          /\ s.x + s.side <= square(n - 1).x + square(n - 1).side
          /\ s.y + s.side <= square(n - 1).y + square(n - 1).side
    BY <1>7
  <2> HIDE DEF square, squares
  <2> QED
    BY <2>1, <2>2, <2>3, BoxBetween
<1>9. /\ square(0).x = 2 * x + w - r /\ square(0).y = 2 * y + h - r
      /\ square(n - 1).x + square(n - 1).side - square(0).x = 2 * ((n - 1) * dx) + 2 * r
      /\ square(n - 1).y + square(n - 1).side - square(0).y = 2 * ((n - 1) * dy) + 2 * r
  BY <1>7
<1> QED
  <2> HIDE DEF square, squares
  <2>1. ringBounds(cells) = [x |-> 2 * x + w - r, y |-> 2 * y + h - r,
                             width  |-> 2 * ((n - 1) * dx) + 2 * r,
                             height |-> 2 * ((n - 1) * dy) + 2 * r]
    BY <1>6, <1>8, <1>9
  <2>2. CellsAt(x, y, w, h, dx, dy, n) = cells
    BY DEF CellsAt
  <2> HIDE DEF cells
  <2> QED
    BY <2>1, <2>2 DEF BoxAround

\* The halo reaches no further than the room that is made for it.
LEMMA ReachWithinPad ==
  ASSUME NEW c \in Settings, NEW r \in Nat, r <= c.ringSize,
         NEW reach, reach = RoundDiv((2 * r) * AtLeast(0, AtMost(100, c.spread)), 400)
  PROVE  reach \in Nat /\ haloPad(c) \in Nat /\ reach <= haloPad(c)
<1> DEFINE percent == AtLeast(0, AtMost(100, c.spread))
           size == c.ringSize
           part == r * percent
           whole == size * percent
<1>1. size \in Nat /\ percent \in Nat
  BY SettingFacts DEF AtLeast, AtMost
<1> HIDE DEF percent, size
<1>2. part \in Nat /\ whole \in Nat /\ part <= whole
  <2>1. r <= size
    BY DEF size
  <2> QED
    BY <1>1, <2>1, SMT
<1>3. reach = (2 * ((2 * r) * percent) + 400) \div 800 /\ (2 * r) * percent = 2 * part
  BY <1>1, SMT DEF RoundDiv, percent
<1>4. haloPad(c) = (2 * whole + 200) \div 400
  BY DEF haloPad, RoundDiv, percent, size
<1> HIDE DEF part, whole
<1>5. (2 * (2 * part) + 400) \div 800 = (2 * part + 200) \div 400
  BY <1>2, SMT
<1>6. /\ (2 * part + 200) \div 400 \in Nat /\ (2 * whole + 200) \div 400 \in Nat
      /\ (2 * part + 200) \div 400 <= (2 * whole + 200) \div 400
  BY <1>2, SMT
<1> QED
  BY <1>3, <1>4, <1>5, <1>6

\* The halo is cut at no edge but the screen's own, unless the screen of an X11
\* window has moved away under it: a side with less room than
\* the halo wants has given all of its margin, and stands at the screen's edge.
THEOREM HaloUncutHolds == Spec => []HaloUncut
<1>1. IInv => HaloUncut
  <2> SUFFICES ASSUME TypeOK, Fresh, Settled, Unmoved, Roomy PROVE HaloUncut
    BY DEF IInv, HaloUncut
  <2> DEFINE h == halo(config)
             spec == cornerToAnchorSpec(config.corner)
             pad == haloPad(config)
             scr == screens[on]
             W == window.size.width
             H == window.size.height
             n == config.count
             g == gridSpacing(config)
             r == RingSide
             step == CellLength + g
             cw == IF config.vertical THEN Content.width ELSE CellLength
             ch == IF config.vertical THEN CellLength ELSE Content.height
             dx == IF config.vertical THEN 0 ELSE step
             dy == IF config.vertical THEN step ELSE 0
             box == ringBounds(Cells)
             reach == RoundDiv((2 * r) * AtLeast(0, AtMost(100, config.spread)), 400)
  <2>1. /\ n \in Nat \ {0} /\ g \in Nat /\ Content.width \in Int /\ Content.height \in Int
        /\ CellLength \in Int /\ r \in Int
        /\ n * CellLength + (n - 1) * g
             <= (IF config.vertical THEN Content.height ELSE Content.width)
        /\ r = AtMost(CellLength, IF config.vertical THEN Content.width ELSE Content.height)
        /\ (IF config.vertical THEN Content.width ELSE Content.height) <= config.ringSize
    BY BoxFacts
  <2>2. /\ h.left \in Int /\ h.right \in Int /\ h.top \in Int /\ h.bottom \in Int
        /\ h.left < pad => spec.left /\ h.marginX = 0
        /\ h.right < pad => ~spec.left /\ h.marginX = 0
        /\ h.top < pad => spec.top /\ h.marginY = 0
        /\ h.bottom < pad => ~spec.top /\ h.marginY = 0
    BY InsetFacts DEF TypeOK
  <2>3. /\ scr.width \in Nat /\ scr.height \in Nat
        /\ W \in Int /\ H \in Int
        /\ Place.x = IF spec.left THEN h.marginX ELSE scr.width - W - h.marginX
        /\ Place.y = IF spec.top THEN h.marginY ELSE scr.height - H - h.marginY
    BY PlaceFacts
  <2>4. /\ Content.x = h.left /\ Content.width = W - h.left - h.right
        /\ Content.y = h.top /\ Content.height = H - h.top - h.bottom
    BY DEF Content
  <2>5. r >= 80
    BY DEF Roomy
  <2> HIDE DEF h, spec, pad, scr, W, H, n, g, r
  <2>6. /\ r \in Nat /\ step \in Nat
        /\ CellLength \in Nat \ {0} /\ CellLength >= r
        /\ cw \in Nat \ {0} /\ ch \in Nat \ {0} /\ r = AtMost(cw, ch) /\ r <= cw /\ r <= ch
        /\ r <= config.ringSize
    <3> DEFINE across == IF config.vertical THEN Content.width ELSE Content.height
    <3>1. /\ g \in Nat /\ CellLength \in Int /\ across \in Int /\ r \in Int
          /\ r = AtMost(CellLength, across) /\ across <= config.ringSize
      BY <2>1
    <3>2. \/ cw = across /\ ch = CellLength
          \/ cw = CellLength /\ ch = across
      OBVIOUS
    <3>3. config.ringSize \in Nat
      BY SettingFacts DEF TypeOK
    <3> HIDE DEF across, cw, ch
    <3>4. r \in Nat /\ CellLength >= r /\ across >= r /\ r > 0 /\ r <= config.ringSize
      BY <2>5, <3>1, <3>3 DEF AtMost
    <3>5. r = AtMost(cw, ch)
      BY <3>1, <3>2 DEF AtMost
    <3> QED
      BY <3>1, <3>2, <3>4, <3>5
  <2>7. box = [x |-> 2 * h.left + cw - r, y |-> 2 * h.top + ch - r,
               width |-> 2 * ((n - 1) * dx) + 2 * r, height |-> 2 * ((n - 1) * dy) + 2 * r]
    <3>1. \A i \in Int : h.left + i * 0 = h.left /\ h.top + i * 0 = h.top
      BY <2>2
    <3>2. Cells = {[x |-> 2 * (h.left + i * dx), y |-> 2 * (h.top + i * dy),
                    width |-> 2 * cw, height |-> 2 * ch] : i \in 0 .. n - 1}
      <4>1. CASE config.vertical
        <5>1. Cells = {[x |-> 2 * h.left, y |-> 2 * (h.top + i * step),
                        width |-> 2 * cw, height |-> 2 * ch] : i \in 0 .. n - 1}
          BY <2>4, <4>1 DEF Cells, n, g
        <5> QED
          BY <3>1, <4>1, <5>1
      <4>2. CASE ~config.vertical
        <5>1. Cells = {[x |-> 2 * (h.left + i * step), y |-> 2 * h.top,
                        width |-> 2 * cw, height |-> 2 * ch] : i \in 0 .. n - 1}
          BY <2>4, <4>2 DEF Cells, n, g
        <5> QED
          BY <3>1, <4>2, <5>1
      <4> QED
        BY <4>1, <4>2
    <3>3. dx \in Nat /\ dy \in Nat
      BY <2>6
    <3> HIDE DEF cw, ch, dx, dy, step
    <3>4. Cells = CellsAt(h.left, h.top, cw, ch, dx, dy, n)
      BY <3>2 DEF CellsAt
    <3>5. r = AtMost(cw, ch) /\ r \in Nat /\ cw \in Nat \ {0} /\ ch \in Nat \ {0}
      BY <2>6
    <3>6. n \in Nat \ {0} /\ h.left \in Int /\ h.top \in Int
      BY <2>1, <2>2
    <3> DEFINE left == h.left
               top  == h.top
    <3> HIDE DEF left, top
    <3>7. ringBounds(CellsAt(left, top, cw, ch, dx, dy, n)) = BoxAround(left, top, cw, ch, dx, dy, n, r)
      <4>1. left \in Int /\ top \in Int
        BY <3>6 DEF left, top
      <4> QED
        <5>1. RowOfCells(left, top, cw, ch, dx, dy, n, r)
          BY <3>3, <3>5, <3>6, <4>1 DEF RowOfCells
        <5> QED
          BY <5>1, CellBounds, Zenon
    <3> QED
      BY <3>4, <3>7 DEF BoxAround, left, top
  <2>8. /\ (n - 1) * dx \in Nat /\ (n - 1) * dy \in Nat
        /\ (n - 1) * dx = 0 \/ (n - 1) * dy = 0
        /\ (n - 1) * dx + cw <= Content.width
        /\ (n - 1) * dy + ch <= Content.height
    <3> DEFINE more == n - 1
    <3>1. /\ more \in Nat /\ more * 0 = 0
          /\ more * step \in Nat
          /\ more * step + CellLength = n * CellLength + more * g
      BY <2>1, <2>6
    <3>2. more * step + CellLength
            <= (IF config.vertical THEN Content.height ELSE Content.width)
      BY <2>1, <3>1
    <3> HIDE DEF more
    <3>3. CASE config.vertical
      <4>1. dx = 0 /\ dy = step /\ cw = Content.width /\ ch = CellLength
        BY <3>3
      <4> HIDE DEF step, dx, dy, cw, ch
      <4>2. /\ more * dx \in Nat /\ more * dy \in Nat /\ more * dx = 0
            /\ more * dx + cw <= Content.width /\ more * dy + ch <= Content.height
        BY <2>1, <3>1, <3>2, <3>3, <4>1
      <4> QED
        BY <4>2 DEF more
    <3>4. CASE ~config.vertical
      <4>1. dx = step /\ dy = 0 /\ cw = CellLength /\ ch = Content.height
        BY <3>4
      <4> HIDE DEF step, dx, dy, cw, ch
      <4>2. /\ more * dx \in Nat /\ more * dy \in Nat /\ more * dy = 0
            /\ more * dx + cw <= Content.width /\ more * dy + ch <= Content.height
        BY <2>1, <3>1, <3>2, <3>4, <4>1
      <4> QED
        BY <4>2 DEF more
    <3> QED
      BY <3>3, <3>4
  <2>9. reach \in Nat /\ reach <= pad
    <3>1. config \in Settings /\ r <= config.ringSize /\ r \in Nat
      BY <2>6 DEF TypeOK
    <3> HIDE DEF reach
    <3> QED
      BY <3>1, ReachWithinPad DEF reach, pad
  <2>10. pad \in Int
    BY PadFacts DEF TypeOK, pad
  <2> DEFINE ex == (n - 1) * dx
             ey == (n - 1) * dy
  <2> HIDE DEF cw, ch, ex, ey, box, reach
  <2>11. Halo = [x |-> 2 * h.left + cw - r - 2 * reach, y |-> 2 * h.top + ch - r - 2 * reach,
                 width |-> 2 * ex + 2 * r + 4 * reach, height |-> 2 * ey + 2 * r + 4 * reach]
    <3>1. ex \in Nat /\ ey \in Nat /\ (ex = 0 \/ ey = 0)
      BY <2>8 DEF ex, ey
    <3>2. box = [x |-> 2 * h.left + cw - r, y |-> 2 * h.top + ch - r,
                 width |-> 2 * ex + 2 * r, height |-> 2 * ey + 2 * r]
      BY <2>7 DEF ex, ey
    <3>3. AtMost(box.width, box.height) = 2 * r
      BY <2>6, <3>1, <3>2 DEF AtMost
    <3>4. Halo = [x |-> box.x - 2 * reach, y |-> box.y - 2 * reach,
                  width |-> box.width + 2 * (2 * reach), height |-> box.height + 2 * (2 * reach)]
      BY <3>3 DEF Halo, spreadBounds, box, reach
    <3>5. /\ box.width + 2 * (2 * reach) = 2 * ex + 2 * r + 4 * reach
          /\ box.height + 2 * (2 * reach) = 2 * ey + 2 * r + 4 * reach
      BY <2>6, <2>9, <3>1, <3>2
    <3>6. /\ box.x - 2 * reach = 2 * h.left + cw - r - 2 * reach
          /\ box.y - 2 * reach = 2 * h.top + ch - r - 2 * reach
      <4> DEFINE bx == 2 * h.left + cw - r
                 by == 2 * h.top + ch - r
      <4>1. box.x = bx /\ box.y = by
        BY <3>2
      <4> HIDE DEF bx, by
      <4>2. bx \in Int /\ by \in Int
        BY <2>2, <2>6 DEF bx, by
      <4>3. box.x - 2 * reach = bx - 2 * reach /\ box.y - 2 * reach = by - 2 * reach
        BY <4>1, Zenon
      <4>4. /\ bx - 2 * reach = 2 * h.left + cw - r - 2 * reach
            /\ by - 2 * reach = 2 * h.top + ch - r - 2 * reach
        BY <2>2, <2>6, <2>9 DEF bx, by
      <4> QED
        BY <4>3, <4>4, Zenon
    <3> QED
      BY <3>4, <3>5, <3>6, Zenon
  <2>12. /\ Halo.x < 0 => h.left < pad
         /\ Halo.y < 0 => h.top < pad
         /\ Halo.x + Halo.width > 2 * W => h.right < pad
         /\ Halo.y + Halo.height > 2 * H => h.bottom < pad
    <3>1. /\ ex \in Nat /\ ey \in Nat
          /\ ex + cw <= W - h.left - h.right /\ ey + ch <= H - h.top - h.bottom
      BY <2>4, <2>8 DEF ex, ey
    <3>2. cw \in Nat /\ ch \in Nat /\ r <= cw /\ r <= ch
      BY <2>6
    <3>3. Halo.x < 0 => h.left < pad
      BY <2>2, <2>6, <2>9, <2>10, <2>11, <3>2
    <3>4. Halo.y < 0 => h.top < pad
      BY <2>2, <2>6, <2>9, <2>10, <2>11, <3>2
    <3>5. Halo.x + Halo.width > 2 * W => h.right < pad
      BY <2>2, <2>3, <2>6, <2>9, <2>10, <2>11, <3>1, <3>2
    <3>6. Halo.y + Halo.height > 2 * H => h.bottom < pad
      BY <2>2, <2>3, <2>6, <2>9, <2>10, <2>11, <3>1, <3>2
    <3> QED
      BY <3>3, <3>4, <3>5, <3>6
  <2>13. /\ h.left < pad => Place.x = 0
         /\ h.top < pad => Place.y = 0
         /\ h.right < pad => Place.x + W = scr.width
         /\ h.bottom < pad => Place.y + H = scr.height
    BY <2>2, <2>3
  <2> QED
    BY <2>12, <2>13 DEF HaloUncut, W, H, scr
<1> QED
  BY <1>1, InvHolds, PTL

-----------------------------------------------------------------------------
(***************************************************************************)
(* The numbers of the readouts.                                            *)
(***************************************************************************)

\* What a unit can be, in bytes.
Factors == {1, 1000, 1024, 1000000, 1048576}

\* A quotient is rounded to the nearest whole number.
LEMMA Rounded ==
  ASSUME NEW n \in Nat, NEW d \in Factors
  PROVE  /\ RoundOff(n, d) \in Nat
         /\ 2 * d * RoundOff(n, d) <= 2 * n + d
         /\ 2 * n + d < 2 * d * RoundOff(n, d) + 2 * d
<1>1. CASE d = 1
  BY <1>1, SMT DEF RoundOff
<1>2. CASE d = 1000
  BY <1>2, SMT DEF RoundOff
<1>3. CASE d = 1024
  BY <1>3, SMT DEF RoundOff
<1>4. CASE d = 1000000
  BY <1>4, SMT DEF RoundOff
<1>5. CASE d = 1048576
  BY <1>5, SMT DEF RoundOff
<1> QED
  BY <1>1, <1>2, <1>3, <1>4, <1>5 DEF Factors

\* So are the tenths of one.
LEMMA RoundedTenths ==
  ASSUME NEW n \in Nat, NEW d \in Factors
  PROVE  /\ Tenths(n, d) \in Nat
         /\ 2 * d * Tenths(n, d) <= 20 * n + d
         /\ 20 * n <= 2 * d * Tenths(n, d) + d
<1> DEFINE q == n \div d
           m == n % d
           r == RoundOff(10 * m, d)
<1>1. q \in Nat /\ m \in Nat /\ n = d * q + m
  <2>1. CASE d = 1
    BY <2>1, SMT
  <2>2. CASE d = 1000
    BY <2>2, SMT
  <2>3. CASE d = 1024
    BY <2>3, SMT
  <2>4. CASE d = 1000000
    BY <2>4, SMT
  <2>5. CASE d = 1048576
    BY <2>5, SMT
  <2> QED
    BY <2>1, <2>2, <2>3, <2>4, <2>5 DEF Factors
<1> HIDE DEF q, m
<1>2. 10 * m \in Nat
  BY <1>1
<1>3. r \in Nat /\ 2 * d * r <= 20 * m + d /\ 20 * m + d < 2 * d * r + 2 * d
  BY <1>1, <1>2, Rounded
<1> HIDE DEF r
<1>4. Tenths(n, d) = 10 * q + r
  BY DEF Tenths, q, m, r
<1>5. d \in Nat /\ d * q \in Nat /\ d * r \in Nat
  BY <1>1, <1>3, SMT DEF Factors
<1>6. 2 * d * (10 * q + r) = 20 * (d * q) + 2 * (d * r) /\ 2 * d * r = 2 * (d * r)
  BY <1>1, <1>3, <1>5
<1> DEFINE a == d * q
           b == d * r
<1> HIDE DEF a, b
<1>7. /\ a \in Nat /\ b \in Nat /\ n = a + m
      /\ 2 * b <= 20 * m + d /\ 20 * m + d < 2 * b + 2 * d
      /\ 2 * d * (10 * q + r) = 20 * a + 2 * b
  BY <1>1, <1>3, <1>5, <1>6 DEF a, b
<1>8. 20 * a + 2 * b <= 20 * n + d /\ 20 * n <= 20 * a + 2 * b + d
  BY <1>1, <1>5, <1>7
<1>9. 10 * q + r \in Nat
  BY <1>1, <1>3
<1> QED
  BY <1>4, <1>7, <1>8, <1>9

\* A text of t tenths spells the number where t is off by no more than half of
\* the last digit spelt: a tenth, or a whole unit from ten units up.
Near(t, number, f) ==
  \/ 2 * f * t <= 20 * number + f /\ 20 * number <= 2 * f * t + f
  \/ /\ t % 10 = 0 /\ 100 <= t
     /\ 2 * f * t <= 20 * number + 10 * f /\ 20 * number <= 2 * f * t + 10 * f

LEMMA SpellsWhere ==
  ASSUME NEW text, NEW number \in Nat, NEW units, NEW limit \in Nat,
         text.tenths \in Nat, units[text.unit] \in Factors,
         Near(text.tenths, number, units[text.unit]),
         text.unit < Len(units) => text.tenths < 10 * limit
  PROVE  Spells(text, number, units, limit)
<1> DEFINE f == units[text.unit]
           t == text.tenths
           w == t \div 10
           e == t % 10
           off == 10 * (number - w * f) - e * f
           digit == IF e # 0 \/ t < 100 THEN f ELSE 10 * f
<1> SUFFICES 2 * off <= digit /\ -2 * off <= digit
  BY DEF Spells
<1>1. f \in Nat /\ t \in Nat
  BY SMT DEF Factors
<1>2. \/ 2 * f * t <= 20 * number + f /\ 20 * number <= 2 * f * t + f
      \/ /\ e = 0 /\ 100 <= t
         /\ 2 * f * t <= 20 * number + 10 * f /\ 20 * number <= 2 * f * t + 10 * f
  BY DEF Near
<1> HIDE DEF f, t
<1>3. w \in Nat /\ e \in Nat /\ t = 10 * w + e
  BY <1>1
<1> HIDE DEF w, e
<1>4. off = 10 * number - f * t
  <2>1. w * f \in Nat /\ e * f \in Nat /\ f * (10 * w + e) = 10 * (w * f) + e * f
    BY <1>1, <1>3
  <2> QED
    BY <1>1, <1>3, <2>1
<1> DEFINE p == f * t
<1>5. p \in Nat /\ 2 * f * t = 2 * p
  BY <1>1
<1>6. off = 10 * number - p
  BY <1>4
<1> HIDE DEF p, off
<1>7. \/ 2 * p <= 20 * number + f /\ 20 * number <= 2 * p + f
      \/ e = 0 /\ 100 <= t /\ 2 * p <= 20 * number + 10 * f /\ 20 * number <= 2 * p + 10 * f
  BY <1>2, <1>5
<1> QED
  BY <1>1, <1>3, <1>5, <1>6, <1>7

\* Ten units or more are spelt in whole units.
LEMMA WholeUnits ==
  ASSUME NEW u \in Nat \ {0}, NEW n \in Nat, 10 * u <= n,
         NEW r \in Nat, 2 * u * r <= 2 * n + u, 2 * n + u < 2 * u * r + 2 * u
  PROVE  Near(10 * r, n, u)
<1> DEFINE p == u * r
           t == 10 * r
<1>1. p \in Nat /\ 2 * u * r = 2 * p /\ 2 * u * t = 20 * p
  OBVIOUS
<1>2. r < 10 => p <= u * 9
  OBVIOUS
<1>3. t % 10 = 0
  OBVIOUS
<1>4. t \in Nat /\ (r >= 10 => t >= 100)
  OBVIOUS
<1> HIDE DEF p, t
<1>5. r >= 10
  BY <1>1, <1>2
<1>6. 2 * u * t <= 20 * n + 10 * u /\ 20 * n <= 2 * u * t + 10 * u
  BY <1>1
<1>7. Near(t, n, u)
  BY <1>3, <1>4, <1>5, <1>6 DEF Near
<1> QED
  BY <1>7 DEF t

\* Either way of rounding is near: a unit that is spelt in tenths, or in whole
\* units where there are ten or where it is the smallest.
LEMMA RoundedIsNear ==
  ASSUME NEW n \in Nat, NEW u \in Factors, NEW t,
         \/ t = Tenths(n, u)
         \/ t = 10 * RoundOff(n, u) /\ (u = 1 \/ 10 * u <= n)
  PROVE  /\ t \in Nat /\ Near(t, n, u)
         /\ 2 * u * t <= 20 * n + 10 * u
<1>1. u \in Nat \ {0}
  BY SMT DEF Factors
<1>2. CASE t = Tenths(n, u)
  <2>1. t \in Nat /\ 2 * u * t <= 20 * n + u /\ 20 * n <= 2 * u * t + u
    BY <1>2, RoundedTenths
  <2>2. 2 * u * t \in Nat
    BY <1>1, <2>1
  <2> QED
    BY <1>1, <2>1, <2>2 DEF Near
<1>3. CASE t = 10 * RoundOff(n, u) /\ 10 * u <= n
  <2> DEFINE r == RoundOff(n, u)
             p == u * r
  <2>1. r \in Nat /\ 2 * u * r <= 2 * n + u /\ 2 * n + u < 2 * u * r + 2 * u
    BY Rounded
  <2> HIDE DEF r
  <2>2. Near(10 * r, n, u)
    BY <1>1, <1>3, <2>1, WholeUnits
  <2>3. p \in Nat /\ 2 * u * r = 2 * p /\ 2 * u * (10 * r) = 20 * p
    BY <1>1, <2>1
  <2> HIDE DEF p
  <2>4. 2 * u * (10 * r) <= 20 * n + 10 * u
    BY <1>1, <2>1, <2>3
  <2>5. t = 10 * r /\ t \in Nat
    BY <1>3, <2>1 DEF r
  <2> QED
    BY <2>2, <2>4, <2>5
<1>4. CASE t = 10 * RoundOff(n, u) /\ u = 1
  <2>1. t = 10 * n
    BY <1>4, SMT DEF RoundOff
  <2> QED
    BY <1>4, <2>1 DEF Near
<1> QED
  BY <1>2, <1>3, <1>4

\* A size is spelt in a unit of which there are less than 1024, a rate in one
\* of which there are less than 1000, unless it is the largest.
LEMMA SizeSpelt == ASSUME NEW bytes \in Nat PROVE Spells(formatSize(bytes), bytes, SizeUnits, 1024)
<1> DEFINE i == sizeUnit(bytes)
           u == SizeUnits[i]
<1>1. SizeUnits[1] = 1 /\ SizeUnits[2] = 1024 /\ SizeUnits[3] = 1048576
  BY SMT DEF SizeUnits
<1>8. Len(SizeUnits) = 3
  BY SMT DEF SizeUnits
<1>2. scaleSize(bytes) = IF bytes >= 1048576 THEN 3 ELSE IF bytes >= 1024 THEN 2 ELSE 1
  <2> DEFINE S == {1} \cup {k \in 1 .. 3 : bytes >= SizeUnits[k]}
  <2>1. scaleSize(bytes) = CHOOSE x \in S : \A y \in S : x >= y
    BY Zenon DEF scaleSize, Max
  <2>2. CASE bytes >= 1048576
    <3>1. S = {1, 2, 3}
      BY <1>1, <2>2, SMT
    <3> HIDE DEF S
    <3> QED
      BY <2>1, <2>2, <3>1
  <2>3. CASE bytes < 1048576 /\ bytes >= 1024
    <3>1. S = {1, 2}
      BY <1>1, <2>3, SMT
    <3> HIDE DEF S
    <3> QED
      BY <2>1, <2>3, <3>1
  <2>4. CASE bytes < 1024
    <3>1. S = {1}
      BY <1>1, <2>4, SMT
    <3> HIDE DEF S
    <3> QED
      BY <2>1, <2>4, <3>1, SMT
  <2> QED
    BY <2>2, <2>3, <2>4, SMT
<1>3. /\ i \in 1 .. 3 /\ u \in Factors
      /\ i = 1 => u = 1 /\ 2 * bytes < 2047
      /\ i = 2 => u = 1024 /\ 2 * bytes < 2047 * 1024
  BY <1>1, <1>2, SMT DEF sizeUnit, Factors
<1> DEFINE t == IF i > 1 /\ bytes < 10 * u THEN Tenths(bytes, u) ELSE 10 * RoundOff(bytes, u)
<1>4. formatSize(bytes).unit = i /\ formatSize(bytes).tenths = t
  BY SMT DEF formatSize
<1> HIDE DEF i
<1>9. ASSUME t \in Nat, Near(t, bytes, u), i < 3 => t < 10240
      PROVE  Spells(formatSize(bytes), bytes, SizeUnits, 1024)
  <2> HIDE DEF t
  <2> DEFINE text == formatSize(bytes)
             limit == 1024
  <2>1. text.tenths \in Nat /\ SizeUnits[text.unit] \in Factors /\ Near(text.tenths, bytes, SizeUnits[text.unit])
    BY <1>3, <1>4, <1>9 DEF u
  <2>2. limit \in Nat /\ (text.unit < Len(SizeUnits) => text.tenths < 10 * limit)
    BY <1>4, <1>8, <1>9, SMT
  <2> HIDE DEF text, limit
  <2>3. Spells(text, bytes, SizeUnits, limit)
    BY <2>1, <2>2, SpellsWhere
  <2> QED
    BY <2>3 DEF text, limit
<1> HIDE DEF u
<1>5. t \in Nat /\ Near(t, bytes, u) /\ 2 * u * t <= 20 * bytes + 10 * u
  <2>1. i # 1 => i > 1
    BY <1>3
  <2>2. bytes < 10 * u \/ 10 * u <= bytes
    BY <1>3, SMT DEF Factors
  <2>3. \/ t = Tenths(bytes, u)
        \/ t = 10 * RoundOff(bytes, u) /\ (u = 1 \/ 10 * u <= bytes)
    BY <1>3, <2>1, <2>2
  <2>4. u \in Factors
    BY <1>3
  <2> HIDE DEF t
  <2> QED
    BY <2>3, <2>4, RoundedIsNear
<1>6. i < 3 => t < 10240
  <2> HIDE DEF t
  <2> QED
    BY <1>3, <1>5, SMT
<1> QED
  BY <1>5, <1>6, <1>9

LEMMA RateSpelt == ASSUME NEW rate \in Nat PROVE Spells(formatRate(rate), rate, RateUnits, 1000)
<1> DEFINE i == scaleRate(rate)
           u == RateUnits[i]
<1>1. RateUnits[1] = 1 /\ RateUnits[2] = 1000 /\ RateUnits[3] = 1000000
  BY SMT DEF RateUnits
<1>8. Len(RateUnits) = 3
  BY SMT DEF RateUnits
<1>2. wholeUnit(rate) = IF rate >= 1000000 THEN 3 ELSE IF rate >= 1000 THEN 2 ELSE 1
  <2> DEFINE S == {1} \cup {k \in 1 .. 3 : rate >= RateUnits[k]}
  <2>1. wholeUnit(rate) = CHOOSE x \in S : \A y \in S : x >= y
    BY Zenon DEF wholeUnit, Max
  <2>2. CASE rate >= 1000000
    <3>1. S = {1, 2, 3}
      BY <1>1, <2>2, SMT
    <3> HIDE DEF S
    <3> QED
      BY <2>1, <2>2, <3>1
  <2>3. CASE rate < 1000000 /\ rate >= 1000
    <3>1. S = {1, 2}
      BY <1>1, <2>3, SMT
    <3> HIDE DEF S
    <3> QED
      BY <2>1, <2>3, <3>1
  <2>4. CASE rate < 1000
    <3>1. S = {1}
      BY <1>1, <2>4, SMT
    <3> HIDE DEF S
    <3> QED
      BY <2>1, <2>4, <3>1, SMT
  <2> QED
    BY <2>2, <2>3, <2>4, SMT
<1>3. /\ i \in 1 .. 3 /\ u \in Factors
      /\ i = 1 => u = 1 /\ 2 * rate < 1999
      /\ i = 2 => u = 1000 /\ 2 * rate < 1999 * 1000
  BY <1>1, <1>2, SMT DEF scaleRate, Factors
<1> DEFINE t == IF rate < 100 * u THEN Tenths(rate, u) ELSE 10 * RoundOff(rate, u)
<1>4. formatRate(rate).unit = i /\ formatRate(rate).tenths = t
  BY SMT DEF formatRate
<1> HIDE DEF i
<1>9. ASSUME t \in Nat, Near(t, rate, u), i < 3 => t < 10000
      PROVE  Spells(formatRate(rate), rate, RateUnits, 1000)
  <2> HIDE DEF t
  <2> DEFINE text == formatRate(rate)
             limit == 1000
  <2>1. text.tenths \in Nat /\ RateUnits[text.unit] \in Factors /\ Near(text.tenths, rate, RateUnits[text.unit])
    BY <1>3, <1>4, <1>9 DEF u
  <2>2. limit \in Nat /\ (text.unit < Len(RateUnits) => text.tenths < 10 * limit)
    BY <1>4, <1>8, <1>9, SMT
  <2> HIDE DEF text, limit
  <2>3. Spells(text, rate, RateUnits, limit)
    BY <2>1, <2>2, SpellsWhere
  <2> QED
    BY <2>3 DEF text, limit
<1> HIDE DEF u
<1>5. t \in Nat /\ Near(t, rate, u) /\ 2 * u * t <= 20 * rate + 10 * u
  <2>2. rate < 100 * u \/ 10 * u <= rate
    BY <1>3, SMT DEF Factors
  <2>3. \/ t = Tenths(rate, u)
        \/ t = 10 * RoundOff(rate, u) /\ (u = 1 \/ 10 * u <= rate)
    BY <1>3, <2>2
  <2>4. u \in Factors
    BY <1>3
  <2> HIDE DEF t
  <2> QED
    BY <2>3, <2>4, RoundedIsNear
<1>6. i < 3 => t < 10000
  <2> HIDE DEF t
  <2> QED
    BY <1>3, <1>5, SMT
<1> QED
  BY <1>5, <1>6, <1>9

-----------------------------------------------------------------------------
(***************************************************************************)
(* The process rows.                                                       *)
(***************************************************************************)

Process == [pid : Nat, vram : Nat]

\* One record of each pid.
OfEachPid(out) == \A i, j \in 1 .. Len(out) : out[i].pid = out[j].pid => i = j

\* A list of the pids of the first n records, each with its largest.
Collapsed(out, records, n) ==
  /\ out \in Seq(Process) /\ OfEachPid(out)
  /\ \A i \in 1 .. Len(out) : \A k \in 1 .. n : records[k].pid = out[i].pid => records[k].vram <= out[i].vram
  /\ \A k \in 1 .. n : \E i \in 1 .. Len(out) : out[i].pid = records[k].pid

\* A record that is added keeps the rows of the others, and its own row has the
\* larger of the two.
LEMMA RecordAdded ==
  ASSUME NEW out \in Seq(Process), NEW r \in Process
  PROVE  LET more == addRecord(out, r)
         IN /\ more \in Seq(Process) /\ Len(more) >= Len(out)
            /\ \A i \in 1 .. Len(out) : more[i].pid = out[i].pid /\ more[i].vram >= out[i].vram
            /\ OfEachPid(out) => OfEachPid(more)
            /\ \E i \in 1 .. Len(more) : more[i].pid = r.pid
            /\ \A i \in 1 .. Len(more) : more[i].pid = r.pid => r.vram <= more[i].vram
            /\ \A i \in 1 .. Len(more) : i \in 1 .. Len(out) \/ \A j \in 1 .. Len(out) : out[j].pid # more[i].pid
<1> DEFINE same == {k \in DOMAIN out : out[k].pid = r.pid}
           more == addRecord(out, r)
           n == Len(out)
<1>1. n \in Nat /\ DOMAIN out = 1 .. n /\ \A i \in 1 .. n : out[i] \in Process
  OBVIOUS
<1>2. r.pid \in Nat /\ r.vram \in Nat /\ \A i \in 1 .. n : out[i].pid \in Nat /\ out[i].vram \in Nat
  BY <1>1 DEF Process
<1>3. CASE same = {}
  <2>1. more = Append(out, r)
    BY <1>3 DEF addRecord
  <2>2. /\ more \in Seq(Process) /\ Len(more) = n + 1 /\ more[n + 1] = r
        /\ \A i \in 1 .. n : more[i] = out[i]
    BY <2>1
  <2>3. \A i \in 1 .. n : out[i].pid # r.pid
    BY <1>1, <1>3
  <2>4. \A i \in 1 .. n + 1 : i = n + 1 \/ i \in 1 .. n
    BY <1>1
  <2>7. n + 1 \in 1 .. n + 1
    BY <1>1
  <2> HIDE DEF n, more, same
  <2>5. OfEachPid(out) => OfEachPid(more)
    BY <2>2, <2>3, <2>4 DEF OfEachPid, n
  <2>6. /\ \A i \in 1 .. n : more[i].pid = out[i].pid /\ more[i].vram >= out[i].vram
        /\ \E i \in 1 .. n + 1 : more[i].pid = r.pid
        /\ \A i \in 1 .. n + 1 : more[i].pid = r.pid => r.vram <= more[i].vram
        /\ \A i \in 1 .. n + 1 : i \in 1 .. n \/ \A j \in 1 .. n : out[j].pid # more[i].pid
    BY <1>2, <2>2, <2>3, <2>4, <2>7
  <2> QED
    BY <1>1, <2>2, <2>5, <2>6 DEF n, more
<1>4. CASE same # {}
  <2> DEFINE new(k) == IF k \in same /\ r.vram > out[k].vram THEN r ELSE out[k]
  <2>1. more = [k \in 1 .. n |-> new(k)]
    BY <1>1, <1>4, Zenon DEF addRecord
  <2>2. \A k \in 1 .. n : new(k) \in Process /\ new(k).pid = out[k].pid /\ new(k).vram >= out[k].vram
    BY <1>1, <1>2
  <2>3. \A k \in 1 .. n : out[k].pid = r.pid => new(k).vram >= r.vram
    BY <1>1, <1>2
  <2>4. PICK i \in 1 .. n : out[i].pid = r.pid
    BY <1>1, <1>4
  <2> HIDE DEF new, more, same, n
  <2>5. more \in Seq(Process) /\ Len(more) = n /\ \A k \in 1 .. n : more[k] = new(k)
    BY <1>1, <2>1, <2>2
  <2>6. OfEachPid(out) => OfEachPid(more)
    BY <2>2, <2>5 DEF OfEachPid, n
  <2>7. /\ \A k \in 1 .. n : more[k].pid = out[k].pid /\ more[k].vram >= out[k].vram
        /\ \E k \in 1 .. n : more[k].pid = r.pid
        /\ \A k \in 1 .. n : more[k].pid = r.pid => r.vram <= more[k].vram
    BY <1>2, <2>2, <2>3, <2>4, <2>5
  <2> QED
    BY <1>1, <2>5, <2>6, <2>7 DEF n, more
<1> QED
  BY <1>3, <1>4

LEMMA Deduped ==
  ASSUME NEW records \in Seq(Process)
  PROVE  Collapsed(dedupeByPid(records), records, Len(records))
<1> DEFINE n == Len(records)
           X == Seq(Process)
           IsLoop(out) == out = [k \in 0 .. n |-> IF k = 0 THEN <<>> ELSE addRecord(out[k - 1], records[k])]
           loop == CHOOSE out : IsLoop(out)
<1>1. n \in Nat /\ \A k \in 1 .. n : records[k] \in Process
  OBVIOUS
<1>2. dedupeByPid(records) = loop[n]
  BY Zenon DEF dedupeByPid
<1>3. \E out : IsLoop(out)
  <2> DEFINE step == [e \in (1 .. n) \X X |-> addRecord(e[2], records[e[1]])]
  <2>1. <<>> \in X
    OBVIOUS
  <2>2. \A e \in (1 .. n) \X X : addRecord(e[2], records[e[1]]) \in X
    <3>1. \A e \in (1 .. n) \X X : e[2] \in X /\ records[e[1]] \in Process
      BY <1>1
    <3> QED
      BY <3>1, RecordAdded
  <2>3. step \in [(1 .. n) \X X -> X]
    BY <2>2
  <2>4. \A k \in 1 .. n, x \in X : step[<<k, x>>] = addRecord(x, records[k])
    OBVIOUS
  <2> HIDE DEF n, X, step
  <2>5. PICK out \in [0 .. n -> X] : out[0] = <<>> /\ \A k \in 1 .. n : out[k] = step[<<k, out[k - 1]>>]
    <3>1. IsTurn(step, n, X)
      BY <2>3 DEF IsTurn
    <3>2. \E out : IsRun(out, n, X, <<>>, step)
      BY <1>1, <2>1, <3>1, LoopExists, Zenon
    <3> QED
      BY <3>2 DEF IsRun
  <2>6. \A k \in 1 .. n : k # 0 /\ k - 1 \in 0 .. n
    BY <1>1
  <2>7. \A k \in 0 .. n : out[k] = IF k = 0 THEN <<>> ELSE addRecord(out[k - 1], records[k])
    <3>1. \A k \in 0 .. n : k = 0 \/ k \in 1 .. n
      BY <1>1
    <3> QED
      BY <2>4, <2>5, <2>6, <3>1
  <2>8. IsLoop(out)
    BY <2>5, <2>7
  <2> QED
    BY <2>8
<1>4. loop = [k \in 0 .. n |-> IF k = 0 THEN <<>> ELSE addRecord(loop[k - 1], records[k])]
  <2>1. IsLoop(loop)
    BY <1>3, Zenon
  <2> QED
    BY <2>1, Zenon
<1> HIDE DEF loop, IsLoop, n
<1>5. loop[0] = <<>> /\ \A k \in 1 .. n : loop[k] = addRecord(loop[k - 1], records[k])
  BY <1>1, <1>4
<1> DEFINE T == {k \in 0 .. n : Collapsed(loop[k], records, k)}
<1>6. 0 \in T
  <2>1. Collapsed(<<>>, records, 0)
    BY DEF Collapsed, OfEachPid
  <2> QED
    BY <1>1, <1>5, <2>1
<1>7. ASSUME NEW k \in Nat, k < n, k \in T PROVE k + 1 \in T
  <2> DEFINE out == loop[k]
             r == records[k + 1]
             more == addRecord(out, r)
  <2>1. k + 1 \in 1 .. n /\ k + 1 \in 0 .. n /\ (k + 1) - 1 = k
    BY <1>1, <1>7
  <2>2. loop[k + 1] = more
    BY <1>5, <2>1
  <2>3. Collapsed(out, records, k) /\ r \in Process
    BY <1>1, <1>7, <2>1
  <2>8. out \in Seq(Process) /\ OfEachPid(out)
    BY <2>3 DEF Collapsed
  <2> HIDE DEF out
  <2>4. /\ more \in Seq(Process) /\ Len(more) >= Len(out)
        /\ \A i \in 1 .. Len(out) : more[i].pid = out[i].pid /\ more[i].vram >= out[i].vram
        /\ OfEachPid(more)
        /\ \E i \in 1 .. Len(more) : more[i].pid = r.pid
        /\ \A i \in 1 .. Len(more) : more[i].pid = r.pid => r.vram <= more[i].vram
        /\ \A i \in 1 .. Len(more) : i \in 1 .. Len(out) \/ \A j \in 1 .. Len(out) : out[j].pid # more[i].pid
    <3>1. PICK was, rec : was = out /\ rec = r
      OBVIOUS
    <3>2. was \in Seq(Process) /\ rec \in Process
      BY <2>3, <2>8, <3>1
    <3>3. LET all == addRecord(was, rec)
          IN /\ all \in Seq(Process) /\ Len(all) >= Len(was)
             /\ \A i \in 1 .. Len(was) : all[i].pid = was[i].pid /\ all[i].vram >= was[i].vram
             /\ OfEachPid(was) => OfEachPid(all)
             /\ \E i \in 1 .. Len(all) : all[i].pid = rec.pid
             /\ \A i \in 1 .. Len(all) : all[i].pid = rec.pid => rec.vram <= all[i].vram
             /\ \A i \in 1 .. Len(all) : i \in 1 .. Len(was) \/ \A j \in 1 .. Len(was) : was[j].pid # all[i].pid
      BY <3>2, RecordAdded
    <3> QED
      BY <2>8, <3>1, <3>3 DEF more
  <2> HIDE DEF more, r
  <2>5. \A j \in 1 .. k + 1 : j = k + 1 \/ j \in 1 .. k
    BY <1>7
  <2>6. ASSUME NEW j \in 1 .. k + 1 PROVE \E i \in 1 .. Len(more) : more[i].pid = records[j].pid
    <3>1. CASE j = k + 1
      BY <2>4, <3>1 DEF r
    <3>2. CASE j \in 1 .. k
      <4>1. PICK i \in 1 .. Len(out) : out[i].pid = records[j].pid
        BY <2>3, <3>2 DEF Collapsed
      <4>2. i \in 1 .. Len(more)
        BY <2>4, <2>8
      <4> QED
        BY <2>4, <4>1, <4>2
    <3> QED
      BY <2>5, <3>1, <3>2
  <2>7. ASSUME NEW i \in 1 .. Len(more), NEW j \in 1 .. k + 1, records[j].pid = more[i].pid
        PROVE  records[j].vram <= more[i].vram
    <3>1. CASE j = k + 1
      BY <2>4, <2>7, <3>1 DEF r
    <3>2. CASE j \in 1 .. k
      <4>1. PICK h \in 1 .. Len(out) : out[h].pid = records[j].pid
        BY <2>3, <3>2 DEF Collapsed
      <4>2. i \in 1 .. Len(out)
        BY <2>4, <2>7, <4>1
      <4>3. more[i].pid = out[i].pid /\ more[i].vram >= out[i].vram
        BY <2>4, <4>2
      <4>4. records[j].vram <= out[i].vram
        BY <2>3, <2>7, <3>2, <4>2, <4>3 DEF Collapsed
      <4>5. j \in 1 .. n
        BY <1>1, <1>7, <3>2
      <4>6. records[j].vram \in Nat /\ out[i].vram \in Nat /\ more[i].vram \in Nat
        <5>1. records[j] \in Process /\ out[i] \in Process /\ more[i] \in Process
          BY <1>1, <2>4, <2>8, <4>2, <4>5
        <5> QED
          BY <5>1 DEF Process
      <4> QED
        BY <4>3, <4>4, <4>6
    <3> QED
      BY <2>5, <3>1, <3>2
  <2>9. Collapsed(more, records, k + 1)
    BY <2>4, <2>6, <2>7 DEF Collapsed
  <2> QED
    BY <2>1, <2>2, <2>9
<1> HIDE DEF T
<1>8. n \in T
  BY <1>1, <1>6, <1>7, CountUp
<1> QED
  BY <1>2, <1>8 DEF T, n

\* Records of different pids have an order, and rankProcesses lists the first
\* of them in it.
LEMMA Ranked ==
  ASSUME NEW records \in Seq(Process), OfEachPid(records), NEW limit \in Nat
  PROVE  LET top == rankProcesses(records, limit)
             n == Len(records)
         IN \E p \in [1 .. n -> 1 .. n] :
              /\ \A i, j \in 1 .. n : i < j => Before(records[p[i]], records[p[j]])
              /\ \A k \in 1 .. n : \E i \in 1 .. n : p[i] = k
              /\ top = [i \in 1 .. (IF limit <= n THEN limit ELSE n) |-> records[p[i]]]
<1> DEFINE n == Len(records)
           S == 1 .. n
           R == {e \in S \X S : Before(records[e[1]], records[e[2]])}
           Sorted(p) == \A i, j \in S : i < j => ~Before(records[p[j]], records[p[i]])
           rows == DOMAIN records
           place == CHOOSE p \in Bijection(rows, rows) :
                      \A i, j \in rows : i < j => ~Before(records[p[j]], records[p[i]])
           m == IF limit <= n THEN limit ELSE n
<1>1. n \in Nat /\ DOMAIN records = S /\ \A i \in S : records[i].pid \in Nat /\ records[i].vram \in Nat
  <2>1. n \in Nat /\ DOMAIN records = S /\ \A i \in S : records[i] \in Process
    OBVIOUS
  <2> HIDE DEF n, S
  <2> QED
    BY <2>1 DEF Process
<1>2. \A i, j \in S : records[i].pid = records[j].pid => i = j
  BY DEF OfEachPid
<1>3. IsFiniteSet(S) /\ Cardinality(S) = n
  <2> HIDE DEF n
  <2>1. IsFiniteSet(1 .. n) /\ Cardinality(1 .. n) = IF 1 > n THEN 0 ELSE n - 1 + 1
    BY <1>1, FS_Interval
  <2> QED
    BY <1>1, <2>1
<1>4. /\ \A x, y \in S : x # y => Before(records[x], records[y]) \/ Before(records[y], records[x])
      /\ \A x, y, z \in S : Before(records[x], records[y]) /\ Before(records[y], records[z]) => Before(records[x], records[z])
      /\ \A x, y \in S : Before(records[x], records[y]) => ~Before(records[y], records[x]) /\ x # y
  <2> HIDE DEF S
  <2> QED
    BY <1>1, <1>2 DEF Before
<1>5. rankProcesses(records, limit) = [i \in 1 .. Min({limit, n}) |-> records[place[i]]]
  BY Zenon DEF rankProcesses
<1>6. Min({limit, n}) = m
  <2> HIDE DEF n, S
  <2>1. Min({limit, n}) = CHOOSE x \in {limit, n} : \A y \in {limit, n} : x <= y
    BY Zenon DEF Min
  <2>2. m \in {limit, n} /\ \A y \in {limit, n} : m <= y
    BY <1>1
  <2>3. \A x \in {limit, n} : (\A y \in {limit, n} : x <= y) => x = m
    BY <1>1
  <2> HIDE DEF m
  <2> QED
    BY <2>1, <2>2, <2>3
<1>7. /\ \A x, y \in S : x # y => <<x, y>> \in R \/ <<y, x>> \in R
      /\ \A x, y, z \in S : <<x, y>> \in R /\ <<y, z>> \in R => <<x, z>> \in R
      /\ \A x, y \in S : <<x, y>> \in R <=> Before(records[x], records[y])
  BY <1>4
<1> HIDE DEF R, S, n
<1>8. PICK s \in [1 .. n -> S] : \A i, j \in 1 .. n : i < j => <<s[i], s[j]>> \in R
  BY <1>3, <1>7, ListExists
<1>9. s \in Bijection(S, S)
  <2>1. S = 1 .. n
    BY DEF S
  <2>2. \A i, j \in S : s[i] = s[j] => i = j
    <3>1. \A i, j \in S : i < j => s[i] # s[j]
      <4> SUFFICES ASSUME NEW i \in S, NEW j \in S, i < j PROVE s[i] # s[j]
        OBVIOUS
      <4>1. <<s[i], s[j]>> \in R /\ s[i] \in S /\ s[j] \in S
        BY <1>8, <2>1
      <4> QED
        BY <1>4, <1>7, <4>1
    <3>2. \A i, j \in S : i < j \/ j < i \/ i = j
      BY <1>1, <2>1
    <3> QED
      BY <3>1, <3>2
  <2>3. s \in Injection(S, S)
    BY <1>8, <2>1, <2>2 DEF Injection, IsInjective
  <2>4. s \in Surjection(S, S)
    BY <1>3, <2>3, FS_Injection
  <2> QED
    BY <2>3, <2>4 DEF Bijection
<1>10. Sorted(s)
  BY <1>4, <1>7, <1>8 DEF S
<1>11. place \in Bijection(S, S) /\ Sorted(place)
  <2>1. place = CHOOSE p \in Bijection(S, S) : Sorted(p)
    BY <1>1, Zenon
  <2> HIDE DEF Sorted, place
  <2> QED
    BY <1>9, <1>10, <2>1, Zenon
<1> HIDE DEF place, rows
<1>12. /\ place \in [S -> S]
       /\ \A i, j \in S : place[i] = place[j] => i = j
       /\ \A k \in S : \E i \in S : place[i] = k
  BY <1>11 DEF Bijection, Injection, Surjection, IsInjective
<1>13. ASSUME NEW i \in S, NEW j \in S, i < j PROVE Before(records[place[i]], records[place[j]])
  <2>1. i # j
    BY <1>1, <1>13 DEF S
  <2>2. place[i] # place[j] /\ place[i] \in S /\ place[j] \in S
    BY <1>12, <2>1
  <2> QED
    BY <1>4, <1>11, <1>13, <2>2
<1>14. rankProcesses(records, limit) = [i \in 1 .. m |-> records[place[i]]]
  BY <1>5, <1>6, Zenon
<1> QED
  BY <1>12, <1>13, <1>14, Zenon DEF S, n

-----------------------------------------------------------------------------
\* What a tick may bring.
SampleInv ==
  /\ sample.disk \in [block : Nat, total : Nat, free : Nat, available : Nat]
  /\ sample.disk.available <= sample.disk.free /\ sample.disk.free <= sample.disk.total
  /\ sample.rate \in Nat
  /\ sample.processes \in Seq(Process)
  /\ sample = [disk |-> sample.disk, rate |-> sample.rate, processes |-> sample.processes]

LEMMA SampleHolds == DisplaySpec => []SampleInv
<1>1. DisplayInit => SampleInv
  BY DEF DisplayInit, NoSample, SampleInv
<1>2. SampleInv /\ [DisplayNext]_<<vars, sample>> => SampleInv'
  <2> SUFFICES ASSUME SampleInv, [DisplayNext]_<<vars, sample>> PROVE SampleInv'
    OBVIOUS
  <2>1. CASE sample' = sample
    BY <2>1 DEF SampleInv
  <2>2. ASSUME NEW d \in Disks, sample' = [sample EXCEPT !.disk = d] PROVE SampleInv'
    BY <2>2, DisksAssumption DEF SampleInv
  <2>3. ASSUME NEW r \in Rates, sample' = [sample EXCEPT !.rate = r] PROVE SampleInv'
    BY <2>3, RatesAssumption DEF SampleInv
  <2>4. ASSUME NEW r \in Records, sample' = [sample EXCEPT !.processes = Append(@, r)] PROVE SampleInv'
    <3>1. r \in Process
      BY RecordsAssumption DEF Process
    <3>2. Append(sample.processes, r) \in Seq(Process)
      BY <3>1 DEF SampleInv
    <3> HIDE DEF Process
    <3> QED
      BY <2>4, <3>2 DEF SampleInv
  <2> QED
    BY <2>1, <2>2, <2>3, <2>4 DEF DisplayNext, SampleDisk, SampleRate, SampleGpu
<1> QED
  BY <1>1, <1>2, PTL DEF DisplaySpec

\* The rows of a file system spell its sizes, a rate's text the rate; the ring
\* stays below the bytes; the rows of processes are of each once, with its
\* largest record, largest first, and only smaller ones are left out: for any
\* file system, rate and records.
THEOREM ReadoutsAgreeHolds == DisplaySpec => []ReadoutsAgree
<1>1. SampleInv => ReadoutsAgree
  <2> SUFFICES ASSUME SampleInv PROVE ReadoutsAgree
    OBVIOUS
  <2> DEFINE disk == sample.disk
             records == sample.processes
             rows == dedupeByPid(records)
             top == rankProcesses(rows, Limit)
  <2>1. disk \in [block : Nat, total : Nat, free : Nat, available : Nat]
        /\ disk.available <= disk.free /\ disk.free <= disk.total
    BY DEF SampleInv
  <2>2. ASSUME NEW t \in buildRows(disk).texts PROVE Spells(t.text, t.number, SizeUnits, 1024)
    <3> DEFINE used == IF disk.total > disk.available THEN disk.total - disk.available ELSE 0
    <3>1. \A n \in {used, disk.total, disk.available} : n * disk.block \in Nat
      <4>1. \A n \in {used, disk.total, disk.available} : n \in Nat
        BY <2>1
      <4> QED
        BY <2>1, <4>1
    <3>2. PICK n \in {used, disk.total, disk.available} :
            t = [number |-> n * disk.block, text |-> formatSize(n * disk.block)]
      BY <2>2 DEF buildRows
    <3>3. t.number = n * disk.block /\ t.text = formatSize(n * disk.block) /\ n * disk.block \in Nat
      BY <3>1, <3>2
    <3>4. Spells(formatSize(n * disk.block), n * disk.block, SizeUnits, 1024)
      BY <3>3, SizeSpelt
    <3> QED
      BY <3>3, <3>4
  <2>3. Spells(formatRate(sample.rate), sample.rate, RateUnits, 1000)
    BY RateSpelt DEF SampleInv
  <2>4. RingBelowBytes(disk)
    BY <2>1, RingBelowBytesHolds
  <2>5. records \in Seq(Process)
    BY DEF SampleInv
  <2>6. Collapsed(rows, records, Len(records))
    BY <2>5, Deduped
  <2> DEFINE n == Len(rows)
             m == IF Limit <= n THEN Limit ELSE n
  <2>7. Limit \in Nat
    BY RatesAssumption
  <2>8. rows \in Seq(Process) /\ OfEachPid(rows) /\ n \in Nat
    BY <2>6 DEF Collapsed
  <2>9. PICK p \in [1 .. n -> 1 .. n] :
          /\ \A i, j \in 1 .. n : i < j => Before(rows[p[i]], rows[p[j]])
          /\ \A k \in 1 .. n : \E i \in 1 .. n : p[i] = k
          /\ top = [i \in 1 .. m |-> rows[p[i]]]
    BY <2>7, <2>8, Ranked
  <2>10. m \in Nat /\ (\A i \in 1 .. m : i \in 1 .. n) /\ \A i \in 1 .. n : p[i] \in 1 .. n
    BY <2>7, <2>8
  <2>11. \A i \in 1 .. n : rows[i] \in Process
    BY <2>8
  <2>12. \A k \in 1 .. Len(records) : records[k] \in Process
    BY <2>5
  <2>13. ToSet(records) = {records[k] : k \in 1 .. Len(records)}
    BY <2>5 DEF ToSet
  <2> HIDE DEF rows, top, m
  <2>14. top \in Seq(Process) /\ Len(top) = m /\ DOMAIN top = 1 .. m /\ \A i \in 1 .. m : top[i] = rows[p[i]]
    <3>1. \A i \in 1 .. m : rows[p[i]] \in Process
      BY <2>10, <2>11
    <3> DEFINE row(i) == rows[p[i]]
    <3>2. top = [i \in 1 .. m |-> row(i)] /\ \A i \in 1 .. m : row(i) \in Process
      BY <2>9, <3>1
    <3> HIDE DEF row, Process
    <3>3. top \in Seq(Process) /\ Len(top) = m /\ DOMAIN top = 1 .. m /\ \A i \in 1 .. m : top[i] = row(i)
      BY <2>10, <3>2
    <3> QED
      BY <3>3 DEF row
  <2>15. ToSet(top) = {top[i] : i \in 1 .. m}
    BY <2>14 DEF ToSet
  <2> HIDE DEF n, records
  <2>16. ASSUME NEW i \in 1 .. Len(top), NEW j \in 1 .. Len(top), i < j
         PROVE  top[i].pid # top[j].pid /\ top[i].vram >= top[j].vram
    <3>1. i \in 1 .. n /\ j \in 1 .. n /\ top[i] = rows[p[i]] /\ top[j] = rows[p[j]]
      BY <2>10, <2>14
    <3>2. Before(rows[p[i]], rows[p[j]])
      BY <2>9, <2>16, <3>1
    <3>3. rows[p[i]] \in Process /\ rows[p[j]] \in Process /\ p[i] \in 1 .. n /\ p[j] \in 1 .. n
      BY <2>10, <2>11, <3>1
    <3>4. rows[p[i]].pid # rows[p[j]].pid
      <4>1. rows[p[i]] # rows[p[j]]
        BY <3>2, <3>3 DEF Before, Process
      <4> QED
        BY <2>8, <3>3, <4>1 DEF OfEachPid, n
    <3> QED
      BY <3>1, <3>2, <3>3, <3>4 DEF Before, Process
  <2>17. ASSUME NEW r \in ToSet(top), NEW q \in ToSet(records), q.pid = r.pid PROVE q.vram <= r.vram
    <3>1. PICK i \in 1 .. m : r = top[i]
      BY <2>15
    <3>2. PICK k \in 1 .. Len(records) : q = records[k]
      BY <2>13
    <3>3. r = rows[p[i]] /\ p[i] \in 1 .. n
      BY <2>10, <2>14, <3>1
    <3> QED
      BY <2>6, <2>17, <3>2, <3>3 DEF Collapsed, n
  <2>18. ASSUME NEW q \in ToSet(records), \A r \in ToSet(top) : r.pid # q.pid
         PROVE  Len(top) = Limit /\ \A r \in ToSet(top) : r.vram >= q.vram
    <3>1. PICK k \in 1 .. Len(records) : q = records[k]
      BY <2>13
    <3>2. PICK h \in 1 .. n : rows[h].pid = q.pid
      BY <2>6, <3>1 DEF Collapsed, n
    <3>3. PICK j \in 1 .. n : p[j] = h
      BY <2>9
    <3>4. j \notin 1 .. m
      <4>1. j \in 1 .. m => top[j] \in ToSet(top) /\ top[j].pid = q.pid
        BY <2>14, <2>15, <3>2, <3>3
      <4> QED
        BY <2>18, <4>1
    <3>5. m < j /\ m = Limit
      BY <2>7, <2>8, <2>10, <3>4 DEF m
    <3>6. ASSUME NEW r \in ToSet(top) PROVE r.vram >= q.vram
      <4>1. PICK i \in 1 .. m : r = top[i]
        BY <2>15
      <4>2. i \in 1 .. n /\ i < j /\ r = rows[p[i]] /\ p[i] \in 1 .. n
        BY <2>10, <2>14, <3>5, <4>1
      <4>3. Before(r, rows[h])
        BY <2>9, <3>3, <4>2
      <4>4. q.vram <= rows[h].vram
        BY <2>6, <3>1, <3>2 DEF Collapsed, n
      <4>5. r \in Process /\ rows[h] \in Process /\ q \in Process
        BY <2>11, <2>12, <3>1, <4>2
      <4> QED
        BY <4>3, <4>4, <4>5 DEF Before, Process
    <3> QED
      BY <2>14, <3>5, <3>6
  <2> QED
    BY <2>2, <2>3, <2>4, <2>16, <2>17, <2>18 DEF ReadoutsAgree, rows, top, records
<1> QED
  BY <1>1, SampleHolds, PTL

=============================================================================

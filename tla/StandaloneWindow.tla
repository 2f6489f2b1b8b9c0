-------------------------- MODULE StandaloneWindow ---------------------------
(***************************************************************************)
(* Where the standalone window stands (standalone/Main.qml).  Its wanted   *)
(* size, margins and screen are bindings, up to date at every instant; the *)
(* window itself is moved by _anchor(), which runs later, once, from the   *)
(* event loop, and only if one of the signals it listens to has fired.     *)
(* Meanwhile settings change live and screens come, go and change mode.    *)
(*                                                                         *)
(* On X11 _anchor() gives the window an absolute place; on Wayland it      *)
(* gives the compositor the edges and margins, the window is hidden before *)
(* the first time and while it changes screens.                            *)
(*                                                                         *)
(* External: the window system.  The window arrives on the screen it was   *)
(* placed on some time after it was placed, Qt moves a window off a screen *)
(* that is unplugged, and a user or a compositor may drag it to another.   *)
(***************************************************************************)
EXTENDS Geometry

CONSTANTS
  Names,            \* names of screens
  Geometries,       \* what a screen can be: records [x, y, width, height]
  RingSizes, Counts, Margins, Spreads, FontScales, Cores,   \* what settings can be
  Stored,           \* settings a session may start with
  Platforms,        \* "x11", "wayland"
  MaxChanges        \* bound: changes of settings and screens in a behaviour

ASSUME NamesAssumption == "" \notin Names
ASSUME GeometriesAssumption ==
  Geometries \subseteq [x : Int, y : Int, width : Nat, height : Nat]
ASSUME SettingsAssumption == /\ RingSizes \subseteq Nat \ (0 .. 79)
                             /\ Counts \subseteq Nat \ {0}      \* MainContent's count is at least 1
                             /\ Margins \cup Spreads \cup FontScales \cup Cores \subseteq Nat
ASSUME PlatformsAssumption == Platforms \subseteq {"x11", "wayland"}
ASSUME ChangesAssumption == MaxChanges \in Nat

Settings == [corner : Corners, marginX : Margins, marginY : Margins, screen : Names \cup {""},
             ringSize : RingSizes, count : Counts, vertical : BOOLEAN, spread : Spreads,
             fontScale : FontScales, cores : Cores]

ASSUME StoredAssumption == Stored \subseteq Settings

Values(field) == CASE field = "corner" -> Corners
                   [] field \in {"marginX", "marginY"} -> Margins
                   [] field = "screen" -> Names \cup {""}
                   [] field = "ringSize" -> RingSizes
                   [] field = "count" -> Counts
                   [] field = "vertical" -> BOOLEAN
                   [] field = "spread" -> Spreads
                   [] field = "fontScale" -> FontScales
                   [] field = "cores" -> Cores

Nowhere == [placed |-> FALSE]

VARIABLES
  platform,
  config,           \* configStoreAdapter, and the rings MainContent shows
  screens,          \* Qt.application.screens: the screens plugged in, by name
  on,               \* the screen the window is on
  visible,
  pending,          \* Qt.callLater(_anchor) is queued
  window,           \* what _anchor() set last, and the screen's geometry it used
  changes

vars == <<platform, config, screens, on, visible, pending, window, changes>>
-----------------------------------------------------------------------------
(* Main.qml: the bindings, for settings c on screens s with the window on o *)

chosen(c, s) == IF c.screen \in DOMAIN s THEN {c.screen} ELSE {}      \* _targetScreen
target(c, s, o) == IF c.screen \in DOMAIN s THEN c.screen ELSE o

haloPad(c) == RoundDiv(c.ringSize * AtLeast(0, AtMost(100, c.spread)), 200)
halo(c) == haloInsets(c.corner, haloPad(c), c.marginX, c.marginY)

gridSpacing(c) == RoundDiv(c.ringSize * 7, 100)
stripLength(c) == c.ringSize * c.count + (c.count - 1) * gridSpacing(c)

\* No larger than what is left of the screen.
targetSize(c, scr) ==
  [width  |-> AtMost(scr.width - halo(c).marginX,
                     (IF c.vertical THEN c.ringSize ELSE stripLength(c)) + halo(c).left + halo(c).right),
   height |-> AtMost(scr.height - halo(c).marginY,
                     (IF c.vertical THEN stripLength(c) ELSE c.ringSize) + halo(c).top + halo(c).bottom)]

\* Every value whose change signal queues _anchor().
heard_NoScreen(c, s, o) ==
  <<targetSize(c, s[target(c, s, o)]), c.corner, c.marginX, c.marginY, halo(c), o>>

heard(c, s, o) ==
  <<targetSize(c, s[target(c, s, o)]), c.corner, c.marginX, c.marginY, halo(c), o,
    chosen(c, s), s[o].width, s[o].height>>

Listen == pending' = (pending \/ heard(config', screens', on') # heard(config, screens, on))
-----------------------------------------------------------------------------
Init == /\ platform \in Platforms
        /\ config \in Stored
        /\ on \in Names
        /\ screens \in [{on} -> Geometries]
        /\ visible = (platform = "x11")
        /\ pending = TRUE             \* Component.onCompleted
        /\ window = Nowhere
        /\ changes = 0

\* _anchor()
wrongScreen == /\ platform = "wayland"
               /\ config.screen \in DOMAIN screens
               /\ on # config.screen

Anchor == /\ pending
          /\ LET scr  == target(config, screens, on)
                 h    == halo(config)
                 size == targetSize(config, screens[scr])
                 spec == cornerToAnchorSpec(config.corner)
                 at   == computeX11Origin(config.corner, screens[scr], size.width, size.height,
                                          h.marginX, h.marginY)
             IN /\ window' = [placed |-> TRUE, screen |-> scr, used |-> screens[scr], size |-> size,
                              spec |-> spec, marginX |-> h.marginX, marginY |-> h.marginY, at |-> at]
                /\ on' = IF wrongScreen THEN scr ELSE on
          /\ visible' = TRUE
          /\ pending' = wrongScreen      \* assigning root.screen fires onScreenChanged
          /\ UNCHANGED <<platform, config, screens, changes>>

\* onScreenChanged, at last: the window is on the screen it was placed on.
Arrive == /\ window.placed
          /\ window.screen \in DOMAIN screens
          /\ on # window.screen
          /\ on' = window.screen
          /\ pending' = TRUE
          /\ UNCHANGED <<platform, config, screens, visible, window, changes>>
-----------------------------------------------------------------------------
Change == changes < MaxChanges /\ changes' = changes + 1

\* A slider, a checkbox or another metric in the settings dialog: it applies live.
Configure == \E field \in DOMAIN config :
               /\ Change
               /\ \E c \in {[config EXCEPT ![field] = v] : v \in Values(field)} : config' = c
               /\ UNCHANGED <<platform, screens, on, visible, window>>
               /\ Listen

Plug == \E name \in Names \ DOMAIN screens, scr \in Geometries :
          /\ Change
          /\ screens' = [n \in DOMAIN screens \cup {name} |-> IF n = name THEN scr ELSE screens[n]]
          /\ UNCHANGED <<platform, config, on, visible, window>>
          /\ Listen

\* Qt gives the window of a lost screen to another; one screen always remains.
Unplug == \E name \in DOMAIN screens, other \in DOMAIN screens :
            /\ Change
            /\ name # other
            /\ screens' = [n \in DOMAIN screens \ {name} |-> screens[n]]
            /\ on' = IF on = name THEN other ELSE on
            /\ window' = IF window.placed /\ window.screen = name THEN [window EXCEPT !.screen = other] ELSE window
            /\ UNCHANGED <<platform, config, visible>>
            /\ Listen

\* A screen's mode or its place in the virtual desktop.
Reconfigure == \E name \in DOMAIN screens, scr \in Geometries :
                 /\ Change
                 /\ screens' = [screens EXCEPT ![name] = scr]
                 /\ UNCHANGED <<platform, config, on, visible, window>>
                 /\ Listen

Drag == \E name \in DOMAIN screens \ {on} :
          /\ Change
          /\ window.placed
          /\ on' = name
          /\ window' = [window EXCEPT !.screen = name]
          /\ UNCHANGED <<platform, config, screens, visible>>
          /\ Listen

Next == Anchor \/ Arrive \/ Configure \/ Plug \/ Unplug \/ Reconfigure \/ Drag
Spec == Init /\ [][Next]_vars
-----------------------------------------------------------------------------
(* What is on the screen *)

\* Nothing is under way: the window stands where _anchor() put it.
Settled == window.placed /\ ~pending /\ on = window.screen

\* The window's corner, from the corner of its screen as that screen stands now.
\* A Wayland compositor works it out itself from the edges and the margins; on
\* X11 the window stays at the absolute place _anchor() gave it.
Place == LET scr == screens[on]
             w   == window
         IN IF platform = "x11" THEN [x |-> w.at.x - scr.x, y |-> w.at.y - scr.y]
            ELSE [x |-> IF w.spec.left THEN w.marginX ELSE scr.width - w.size.width - w.marginX,
                  y |-> IF w.spec.top THEN w.marginY ELSE scr.height - w.size.height - w.marginY]

\* The screen stands in the virtual desktop where it stood when _anchor() gave
\* the window an absolute place.  _anchor() reads _screenVX and _screenVY, but no
\* handler listens to them: when a screen only moves, the window stays behind,
\* and nothing is said of it here until something else queues _anchor().
Unmoved == platform = "x11" =>
  window.used.x = screens[on].x /\ window.used.y = screens[on].y

\* The rings' box in the window (Main.qml's content), which the halo's room surrounds.
Content == LET h == halo(config)
           IN [x |-> h.left, y |-> h.top, width |-> window.size.width - h.left - h.right,
               height |-> window.size.height - h.top - h.bottom]

\* External: GridLayout shares the box evenly between the rings.
CellLength == LET along == IF config.vertical THEN Content.height ELSE Content.width
              IN (along - (config.count - 1) * gridSpacing(config)) \div config.count
Cells == LET step == CellLength + gridSpacing(config)
         IN {IF config.vertical
               THEN [x |-> 2 * Content.x, y |-> 2 * (Content.y + i * step),
                     width |-> 2 * Content.width, height |-> 2 * CellLength]
               ELSE [x |-> 2 * (Content.x + i * step), y |-> 2 * Content.y,
                     width |-> 2 * CellLength, height |-> 2 * Content.height]
             : i \in 0 .. config.count - 1}
RingSide == AtMost(CellLength, IF config.vertical THEN Content.width ELSE Content.height)

\* The screen has room for rings of the least size the layout allows.
Roomy == RingSide >= 80

\* The drawn halo, in half pixels of the window.
Halo == spreadBounds(ringBounds(Cells), config.spread)
-----------------------------------------------------------------------------
TypeOK == /\ platform \in {"x11", "wayland"}
          /\ config \in Settings
          /\ DOMAIN screens \subseteq Names
          /\ \A name \in DOMAIN screens : screens[name] \in Geometries
          /\ on \in DOMAIN screens
          /\ visible \in BOOLEAN /\ pending \in BOOLEAN
          /\ changes \in Nat

(* Once nothing is under way, and unless the screen of an X11 window has   *)
(* moved in the virtual desktop since (Unmoved), the rings stand exactly   *)
(* at the configured margins of the configured corner, on the chosen       *)
(* screen if it is there, however the halo borrows from the margins,       *)
(* whichever settings changed and whichever screens came, went or changed  *)
(* size in between; and the window is within the screen.  Catches a size,  *)
(* a margin or a choice of screen whose change no handler listens to.      *)
RingsAtMargin ==
  Settled /\ Unmoved =>
    LET scr == screens[on]
    IN /\ config.screen \in DOMAIN screens => on = config.screen
       /\ Place.x + Content.x = IF window.spec.left THEN config.marginX
                                ELSE scr.width - Content.width - config.marginX
       /\ Place.y + Content.y = IF window.spec.top THEN config.marginY
                                ELSE scr.height - Content.height - config.marginY
       /\ window.spec = cornerToAnchorSpec(config.corner)
       /\ 0 <= Place.x /\ Place.x + window.size.width <= scr.width
       /\ 0 <= Place.y /\ Place.y + window.size.height <= scr.height

(* The window never cuts the halo: where the halo reaches past an edge of  *)
(* the window, that edge is the edge of the screen.  Three separate        *)
(* computations have to agree for it: the room Main.qml adds, the share of *)
(* it haloInsets() grants each side, and how far spreadBounds() draws.     *)
(* Not said of an X11 window whose screen has moved away under it.         *)
HaloUncut ==
  Settled /\ Unmoved /\ Roomy =>
    /\ Halo.x < 0 => Place.x = 0
    /\ Halo.y < 0 => Place.y = 0
    /\ Halo.x + Halo.width > 2 * window.size.width => Place.x + window.size.width = screens[on].width
    /\ Halo.y + Halo.height > 2 * window.size.height => Place.y + window.size.height = screens[on].height

\* The rings of a layout are bands one gap apart.
Apart(lay, n) == \A i \in 1 .. n - 1 :
  lay.twiceRadii[i] + lay.stroke + 2 * lay.gap = lay.twiceRadii[i - 1] - lay.stroke

CoresFit(dims, n) ==
  LET nest == nestedRingLayout(dims.twiceInnerEdge, dims.nestedStroke, dims.nestedGap, n)
      room == ComfortRingCount * (dims.nestedStroke + dims.nestedGap)
  IN /\ Apart(nest, n)
     /\ nest.twiceRadii[0] + nest.stroke + 2 * nest.gap = 4 * n * dims.twiceInnerEdge
     /\ nest.stroke > 4 * n =>
          /\ nest.twiceRadii[n - 1] - nest.stroke >= 4 * n * (dims.twiceInnerEdge - 2 * room)
          /\ nest.twiceRadii[n - 1] - nest.stroke > 0

DisksFit(dims) ==
  \A m \in 1 .. DiskMaxRingCount :
    LET equal == equalRingLayout(dims.twiceRadius, dims.ringStroke, dims.nestedGap, m)
    IN Apart(equal, m) /\ equal.twiceRadii[m - 1] - equal.stroke > 0

\* 87 in 1000000 is just below the chord of a hundredth of a degree, at radius 1/2.
CapsApart(dims, p, q) ==
  dims.twiceRadius * (rightHalf(q).from - leftHalf(p).to) * 87 >= 1000000 * dims.ringStroke

ReadoutInside(size, dims) ==
  100 * splitReadoutOffset(size, dims) + 82 * dims.valuePx <= 50 * dims.twiceInnerEdge

(* Everything inside a ring has its place: the core rings are bands one    *)
(* gap apart, the first one gap inside the main ring, and as long as the   *)
(* bands are wider than the one-pixel floor they never use more than the   *)
(* room of seven; up to six partition rings are disjoint bands that stay   *)
(* off the centre; the two readouts of a split ring end inside it, and the *)
(* round caps of its halves, each as wide as the ring, do not meet at the  *)
(* top whatever they show (RingGeometry.js:16-26).                         *)
RingsFit ==
  Settled /\ Roomy =>
    LET dims == dimensionsFor(RingSide, config.fontScale)
    IN /\ config.cores > 0 => CoresFit(dims, config.cores)
       /\ DisksFit(dims)
       /\ \A p, q \in {0, 50, 100, 130} : CapsApart(dims, p, q)
       /\ ReadoutInside(RingSide, dims)
=============================================================================

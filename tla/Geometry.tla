------------------------------ MODULE Geometry -------------------------------
(***************************************************************************)
(* The sizes a ring is drawn with (RingGeometry.js), the halo behind the   *)
(* rings (BackgroundStyle.js) and where the standalone window goes         *)
(* (WindowPlacement.js), in whole numbers.                                 *)
(*                                                                         *)
(* Math.round of a quotient is RoundDiv.  Factors are in thousandths, font *)
(* scales and opacities in percent.  Lengths that need not be whole pixels *)
(* name their unit.  Binary floating point is abstracted: where the exact  *)
(* product ends in .5 the program may round the other way.                 *)
(***************************************************************************)
EXTENDS Integers

AtLeast(low, n) == IF n < low THEN low ELSE n
AtMost(high, n) == IF n > high THEN high ELSE n

RoundDiv(n, d) == (2 * n + d) \div (2 * d)      \* Math.round(n / d), d > 0
-----------------------------------------------------------------------------
(* RingGeometry.js *)

DimensionRules == [ringStroke   |-> [factor |-> 55,  min |-> 4],
                   nestedStroke |-> [factor |-> 17,  min |-> 2],
                   nestedGap    |-> [factor |-> 22,  min |-> 2],
                   valuePx      |-> [factor |-> 160, min |-> 14]]

ComfortRingCount     == 7
DiskComfortRingCount == 4
DiskMaxRingCount     == 6

compute(size, rule, scale) == AtLeast(rule.min, RoundDiv(size * rule.factor * scale, 100000))

\* Twice the inner edge of the main ring is a whole number of pixels:
\* ringRadius = size / 2 - ringStroke / 2 - 2.
dimensionsFor(size, fontScale) ==
  LET px(rule, scale) == compute(size, DimensionRules[rule], scale)
      stroke == px("ringStroke", 100)
  IN [ringStroke     |-> stroke,
      twiceRadius    |-> size - stroke - 4,
      twiceInnerEdge |-> size - 2 * stroke - 4,
      nestedStroke   |-> px("nestedStroke", 100),
      nestedGap      |-> px("nestedGap", 100),
      valuePx        |-> px("valuePx", AtMost(150, AtLeast(50, fontScale))),
      baseValuePx    |-> px("valuePx", 100)]

unit_Half(comfort, stroke, gap, count) == AtLeast(4 * count, 4 * comfort * (stroke + gap))

\* Stroke = gap past the comfortable count, in ticks of 1 / (4 * count) pixel.
unit(comfort, stroke, gap, count) == AtLeast(4 * count, 2 * comfort * (stroke + gap))

\* Rings inside the main ring; ring 0 is the outermost.  Ticks of 1 / (4 * count) px.
nestedRingLayout(twiceInnerEdge, stroke, gap, count) ==
  LET crowded == count > ComfortRingCount
      band    == IF crowded THEN unit(ComfortRingCount, stroke, gap, count) ELSE 4 * count * stroke
      space   == IF crowded THEN band ELSE 4 * count * gap
      outer   == 2 * count * twiceInnerEdge
  IN [stroke |-> band, gap |-> space,
      twiceRadii |-> [i \in 0 .. count - 1 |-> 2 * (outer - space) - band - 2 * i * (band + space)]]

\* Rings of equal thickness, the outermost at the main radius.  Same ticks.
equalRingLayout(twiceRadius, stroke, gap, count) ==
  LET crowded == count > DiskComfortRingCount
      band    == IF crowded THEN unit(DiskComfortRingCount, stroke, gap, count) ELSE 4 * count * stroke
      space   == IF crowded THEN band ELSE 4 * count * gap
  IN [stroke |-> band, gap |-> space,
      twiceRadii |-> [i \in 0 .. count - 1 |-> 4 * count * twiceRadius - 2 * i * (band + space)]]

\* A ring leaves a gap of 90 degrees at the bottom; the halves of a split ring
\* start at its edges, grow to the top and stop short of it.  Arcs are
\* [from, to], clockwise in hundredths of a degree.
BaseStart == 13500
BaseSweep == 27000
SplitGap  == 800

clampShare(percent) == AtLeast(0, AtMost(100, percent))
effectiveHalfSweep == BaseSweep \div 2 - SplitGap \div 2
leftHalf(percent) ==
  [from |-> BaseStart, to |-> BaseStart + (effectiveHalfSweep * clampShare(percent)) \div 100]
rightHalf(percent) ==
  [from |-> BaseStart + BaseSweep - (effectiveHalfSweep * clampShare(percent)) \div 100,
   to   |-> BaseStart + BaseSweep]

\* Distance of a readout from the centre: temperature split, one line.
splitReadoutOffset(size, dims) ==
  LET base  == RoundDiv(size * 18, 100)
      grown == RoundDiv(size * 18 * dims.valuePx, 100 * dims.baseValuePx)
      room  == (50 * dims.twiceInnerEdge - 82 * dims.valuePx) \div 100
  IN AtLeast(base, AtMost(grown, room))
-----------------------------------------------------------------------------
(* BackgroundStyle.js.  Cells and boxes are in half pixels. *)

\* The box around the squares the cells draw, side min(width, height), centred.
ringBounds(cells) ==
  LET square(c) == LET side == AtMost(c.width, c.height)
                   IN [x |-> c.x + (c.width - side) \div 2, y |-> c.y + (c.height - side) \div 2, side |-> side]
      squares == {square(c) : c \in {d \in cells : d.width > 0 /\ d.height > 0}}
      left   == CHOOSE n \in {s.x : s \in squares} : \A s \in squares : n <= s.x
      top    == CHOOSE n \in {s.y : s \in squares} : \A s \in squares : n <= s.y
      right  == CHOOSE n \in {s.x + s.side : s \in squares} : \A s \in squares : n >= s.x + s.side
      bottom == CHOOSE n \in {s.y + s.side : s \in squares} : \A s \in squares : n >= s.y + s.side
  IN [x |-> left, y |-> top, width |-> right - left, height |-> bottom - top]

\* Grown on every side by a share of the ring radius, in whole pixels.
spreadBounds(box, percent) ==
  LET m == 2 * RoundDiv(AtMost(box.width, box.height) * AtLeast(0, AtMost(100, percent)), 400)
  IN [x |-> box.x - m, y |-> box.y - m, width |-> box.width + 2 * m, height |-> box.height + 2 * m]
-----------------------------------------------------------------------------
(* WindowPlacement.js *)

Corners == {"top-left", "top-right", "bottom-left", "bottom-right"}

cornerToAnchorSpec(corner) == [left |-> corner \in {"top-left", "bottom-left"},
                               top  |-> corner \in {"top-left", "top-right"}]

computeX11Origin(corner, screen, width, height, marginX, marginY) ==
  LET spec == cornerToAnchorSpec(corner)
  IN [x |-> screen.x + (IF spec.left THEN marginX ELSE screen.width - width - marginX),
      y |-> screen.y + (IF spec.top THEN marginY ELSE screen.height - height - marginY)]

haloInsets_Near(corner, pad, marginX, marginY) ==
  LET sideX == AtMost(marginX, pad)
      sideY == AtMost(marginY, pad)
  IN [left |-> sideX, right |-> sideX, top |-> sideY, bottom |-> sideY,
      marginX |-> marginX - sideX, marginY |-> marginY - sideY]

\* An anchored side takes no more than its margin gives.
haloInsets(corner, pad, marginX, marginY) ==
  LET spec  == cornerToAnchorSpec(corner)
      sideX == AtMost(marginX, pad)
      sideY == AtMost(marginY, pad)
  IN [left    |-> IF spec.left THEN sideX ELSE pad,
      right   |-> IF spec.left THEN pad ELSE sideX,
      top     |-> IF spec.top THEN sideY ELSE pad,
      bottom  |-> IF spec.top THEN pad ELSE sideY,
      marginX |-> marginX - sideX,
      marginY |-> marginY - sideY]
=============================================================================

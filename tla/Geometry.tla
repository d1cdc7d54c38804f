------------------------------ MODULE Geometry ------------------------------
(***************************************************************************)
(* Where the dictation pane goes (core/geometry.rs): on which output, how  *)
(* large, and where beside the pointer.  Pixels are integers; no value     *)
(* here comes near the width the code narrows a coordinate to.             *)
(***************************************************************************)
EXTENDS Integers, Sequences

CONSTANTS
  BaseDpi,  \* `Dpi::DEFAULT`, 96
  GapPixels,    \* `Gap::LOGICAL`, 20 at BaseDpi
  FramePixels,  \* what `Extents::assumed` leaves on a side at BaseDpi, 48
  MarginPixels  \* `Dpi::padding` at BaseDpi, 4

GeometryAssumption ==
  BaseDpi \in Nat \ {0} /\ {GapPixels, FramePixels, MarginPixels} \subseteq Nat

Larger(a, b) == IF a >= b THEN a ELSE b
Smaller(a, b) == IF a <= b THEN a ELSE b

(* Pixels at `dpi`: rounded up for the gap and the frame, down for the margin. *)
Scaled(logical, dpi) == Larger(logical, (logical * dpi + BaseDpi - 1) \div BaseDpi)
Margin(dpi) == (MarginPixels * dpi) \div BaseDpi

Rect(x, y, width, height) == [x |-> x, y |-> y, width |-> width, height |-> height]
Point(x, y) == [x |-> x, y |-> y]

(* An intersection with the pointer's one pixel. *)
Covers(rect, at) == /\ at.x \in rect.x..(rect.x + rect.width - 1)
                    /\ at.y \in rect.y..(rect.y + rect.height - 1)

(* The first output of `outputs` with a property, as a set. *)
First(outputs, Has(_)) ==
  {outputs[i] : i \in {j \in DOMAIN outputs :
                        Has(outputs[j]) /\ \A k \in 1..(j - 1) : ~Has(outputs[k])}}

(* `pick_output`.  `pointer` is a set: empty where there is none to go by. *)
PickOutput(outputs, pointer) ==
  LET under == First(outputs, LAMBDA o : \E at \in pointer : Covers(o.rect, at))
      primary == First(outputs, LAMBDA o : o.primary)
      best == IF under # {} THEN under ELSE IF primary # {} THEN primary ELSE {outputs[1]}
  IN (CHOOSE o \in best : TRUE).rect

(* `Dimensions::fit`, and the pixels `Pane::open` makes of the cells. *)
Fitting(wanted, extent, cell, margin) ==
  Larger(1, Smaller(wanted, Larger(0, extent - 2 * margin) \div cell))
Fit(cells, output, cell, margin) ==
  [columns |-> Fitting(cells.columns, output.width, cell.width, margin),
   lines |-> Fitting(cells.lines, output.height, cell.height, margin)]
InPixels(cells, cell, margin) ==
  [width |-> cells.columns * cell.width + 2 * margin,
   height |-> cells.lines * cell.height + 2 * margin]

(* `Extents`: how far a frame reaches past its window. *)
NoFrame == [left |-> 0, right |-> 0, top |-> 0, bottom |-> 0]
Assumed(dpi) ==
  LET side == Scaled(FramePixels, dpi)
  IN [left |-> side, right |-> side, top |-> side, bottom |-> side]
Between(window, frame) ==
  [left |-> Larger(0, window.x - frame.x),
   right |-> Larger(0, (frame.x + frame.width) - (window.x + window.width)),
   top |-> Larger(0, window.y - frame.y),
   bottom |-> Larger(0, (frame.y + frame.height) - (window.y + window.height))]
Outer(window, frame) ==
  Rect(window.x - frame.left, window.y - frame.top,
       window.width + frame.left + frame.right, window.height + frame.top + frame.bottom)

Clamped(origin, start, end, size) == Larger(start, Smaller(origin, end - size))
Centred(pointer, start, end, size) == Clamped(pointer - (size \div 2), start, end, size)

(* `beside`, on one axis; `side` is whether it found one. *)
Beside(start, extent, pointer, size, gap) ==
  LET end == start + extent
      Fits(origin) == origin >= start /\ origin + size <= end
      after == pointer + gap
      before == pointer - gap + 1 - size
  IN IF Fits(after) THEN [at |-> after, side |-> TRUE]
     ELSE IF Fits(before) THEN [at |-> before, side |-> TRUE]
     ELSE [at |-> Centred(pointer, start, end, size), side |-> FALSE]

Around(output, at, size) ==
  Rect(Centred(at.x, output.x, output.x + output.width, size.width),
       Centred(at.y, output.y, output.y + output.height, size.height),
       size.width, size.height)

(* The corner the frame goes to where there is no pointer. *)
Corner(output, outer) ==
  LET right == output.x + output.width  bottom == output.y + output.height
  IN Point(Clamped(right, output.x, right, outer.width),
           Clamped(bottom, output.y, bottom, outer.height))

(* `placement`: the window's rectangle, `anchor` being the pointer or none. *)
Placement(output, anchor, gap, size, frame) ==
  LET outer == Outer(Rect(0, 0, size.width, size.height), frame)
      Within(corner) == Rect(corner.x + frame.left, corner.y + frame.top, size.width, size.height)
  IN IF anchor = {} THEN Within(Corner(output, outer))
     ELSE LET at == CHOOSE p \in anchor : TRUE
              x == Beside(output.x, output.width, at.x, outer.width, gap)
              y == Beside(output.y, output.height, at.y, outer.height, gap)
          IN IF x.side \/ y.side THEN Within(Point(x.at, y.at)) ELSE Around(output, at, size)
=============================================================================

----------------------------- MODULE PaneProofs ------------------------------
(***************************************************************************)
(* Proofs about the dictation pane (MCPane), for every value of the        *)
(* constants of its parts: that its window leaves the focus where it is    *)
(* (Opening), that what it owes the screen is drawn (PaneDrawing), that    *)
(* each frame settles another character (Glyphs), and that Neovim reads    *)
(* the keys that were pressed (Typing).                                    *)
(***************************************************************************)
EXTENDS MCPane, NaturalsInduction, WellFoundedInduction, TLAPS

-----------------------------------------------------------------------------
(* Opening.  What a step of it may count on, but for what changed `since`:
   that sway has the rule, and that a window is there beside the pane's. *)

Ruled == desk.manager = "sway" /\ (rule \/ since # {})
Allowed == \/ ~O!IsWlroots
           \/ desk.manager = "sway" /\ (since # {} \/ (rule /\ ~empty))

OpeningInv ==
  component = "opening" =>
    /\ taken => since # {} /\ step \in {"mapped", "placed", "left"}
    /\ step = "ruled" => Ruled
    /\ step \in {"allowed", "created"} => Allowed

LEMMA InitOpening == Init => OpeningInv
BY DEF Init, O!Init, OpeningInv

(* The rule goes to this sway and to no other. *)
LEMMA RuleIsHeeded == O!SwayFound => desk.manager = "sway" /\ O!Sway = "ours"
BY DEF O!SwayFound, O!OfProcess

(* Only a wlroots compositor ever focuses the pane: one that nothing is proven
   of focuses windows of the normal type, which the pane is not there. *)
LEMMA UnfocusedByItself ==
  O!TakesFocus => O!IsWlroots /\ (desk.manager = "sway" => ~rule \/ empty)
<1> SUFFICES ASSUME O!TakesFocus
             PROVE  O!IsWlroots /\ (desk.manager = "sway" => ~rule \/ empty)
  OBVIOUS
<1>1. CASE desk.manager = "unproven"
  BY <1>1 DEF O!TakesFocus, O!Properties, O!LayoutUnder
<1>2. CASE desk.manager # "unproven"
  BY <1>2 DEF O!TakesFocus, O!IsWlroots
<1> QED BY <1>1, <1>2

LEMMA StepOpening == OpeningInv /\ [Next]_vars => OpeningInv'
<1> SUFFICES ASSUME OpeningInv, [Next]_vars, component' = "opening" PROVE OpeningInv'
  BY DEF OpeningInv
<1>1. CASE UNCHANGED vars
  BY <1>1 DEF vars, openingVars, OpeningInv, Ruled, Allowed, O!IsWlroots
<1>2. CASE component = "opening" /\ O!Next
  <2> USE <1>2 DEF OpeningInv, O!Fails, O!Goes
  <2>1. CASE O!Measures \/ O!NotAllowed \/ O!RuleRefused \/ O!SeesNoWindow \/ O!OpenFails
    BY <2>1 DEF O!Measures, O!NotAllowed, O!RuleRefused, O!SeesNoWindow, O!OpenFails
  <2>2. CASE O!NeedsNoRule
    BY <2>2 DEF O!NeedsNoRule, Allowed, O!IsWlroots
  <2>3. CASE O!AddsRule
    BY <2>3, RuleIsHeeded DEF O!AddsRule, Ruled
  <2>4. CASE O!SeesWindows
    BY <2>4 DEF O!SeesWindows, Ruled, Allowed
  <2>5. CASE O!Creates
    BY <2>5 DEF O!Creates, Allowed, O!IsWlroots
  <2>6. CASE O!Maps
    BY <2>6, UnfocusedByItself DEF O!Maps, O!Shows, Allowed
  <2>7. CASE O!FrameAt \/ O!FrameNotSeen \/ O!Closes
    BY <2>7 DEF O!FrameAt, O!FrameNotSeen, O!Closes
  <2>8. CASE O!Reloads \/ O!SwitchesWorkspace
    BY <2>8 DEF O!Reloads, O!SwitchesWorkspace, O!Changing, O!opening, Ruled, Allowed,
                O!IsWlroots
  <2> QED BY <2>1, <2>2, <2>3, <2>4, <2>5, <2>6, <2>7, <2>8
          DEF O!Next, O!Opener, O!User
<1> QED BY <1>1, <1>2 DEF Next

(* No window manager focuses the pane as it comes up (shell/nvim/mod.rs,
   refuse_pane_focus; shell/wm.rs), however many windows are opened and on
   whatever desktop, unless sway reloaded its rules or the user emptied the
   workspace between the question and the map. *)
THEOREM FocusNotTaken == Spec => []FocusIsLeft
<1>1. OpeningInv => FocusIsLeft
  BY DEF OpeningInv, FocusIsLeft, O!FocusIsLeft
<1> QED BY <1>1, InitOpening, StepOpening, PTL DEF Spec

-----------------------------------------------------------------------------
(* PaneDrawing.  Damage is a range of rows from the least to the largest; of
   rows that are bounded there are both. *)

LEMMA LeastOf ==
  ASSUME NEW S \in SUBSET Nat, S # {}
  PROVE  D!Least(S) \in S /\ \A m \in S : D!Least(S) <= m
<1>1. \E n \in S : \A m \in S : <<m, n>> \notin OpToRel(<, Nat)
  BY NatLessThanWellFounded, WFMin
<1>2. \A n, m \in Nat : <<m, n>> \notin OpToRel(<, Nat) => n <= m
  BY DEF OpToRel
<1>3. \E n \in S : \A m \in S : n <= m
  BY <1>1, <1>2
<1> QED BY <1>3 DEF D!Least

LEMMA MostOf ==
  ASSUME NEW b \in Nat, NEW S \in SUBSET (0..b), S # {}
  PROVE  D!Most(S) \in S /\ \A m \in S : m <= D!Most(S)
<1> DEFINE Flipped == {b - m : m \in S}
<1>1. Flipped \in SUBSET Nat /\ Flipped # {}
  <2>1. \A m \in S : b - m \in Nat
    OBVIOUS
  <2> QED BY <2>1
<1>2. PICK n \in S : D!Least(Flipped) = b - n
  BY <1>1, LeastOf
<1>3. \A m \in S : b - n <= b - m
  BY <1>1, <1>2, LeastOf
<1>4. \A m \in S : m <= n
  BY <1>3
<1> QED BY <1>4 DEF D!Most

(* A union loses no row of either part. *)
LEMMA UnionHasBoth ==
  ASSUME NEW b \in Nat, NEW d \in SUBSET (0..b), NEW e \in SUBSET (0..b)
  PROVE  d \cup e \subseteq D!Union(d, e) /\ D!Union(d, e) \subseteq 0..b
<1>1. CASE d = {} \/ e = {}
  BY <1>1 DEF D!Union
<1>2. CASE d # {} /\ e # {}
  <2> DEFINE S == d \cup e
  <2>1. S \in SUBSET (0..b) /\ S \in SUBSET Nat /\ S # {}
    BY <1>2
  <2>2. /\ D!Least(S) \in S /\ \A m \in S : D!Least(S) <= m
        /\ D!Most(S) \in S /\ \A m \in S : m <= D!Most(S)
    BY <2>1, LeastOf, MostOf
  <2>3. D!Union(d, e) = D!Least(S)..D!Most(S)
    BY <1>2 DEF D!Union
  <2> HIDE DEF S
  <2>4. \A lo, hi \in S : (\A m \in S : lo <= m /\ m <= hi) =>
          S \subseteq lo..hi /\ lo..hi \subseteq 0..b
    BY <2>1
  <2>5. S \subseteq D!Union(d, e) /\ D!Union(d, e) \subseteq 0..b
    BY <2>2, <2>3, <2>4
  <2> QED BY <2>5 DEF S
<1> QED BY <1>1, <1>2

-----------------------------------------------------------------------------
(* What an event may do to the screen: wherever it damages no row, the row is
   what it was, and so is the cursor on it. *)

Rows == 0..GridRows

Shaped(s) ==
  /\ s \in [width : Nat, height : Rows, cells : {s.cells},
            cursor : [row : Rows, column : Nat], busy : BOOLEAN, colours : Nat, shape : Nat]
  /\ s.cells = [row \in 0..(s.height - 1) |->
                 [column \in 0..(s.width - 1) |-> s.cells[row][column]]]

Untouched(s, t, row) ==
  /\ row < s.height /\ t.cells[row] = s.cells[row] /\ t.colours = s.colours
  /\ \/ t.cursor = s.cursor /\ t.busy = s.busy /\ t.shape = s.shape
     \/ t.cursor.row # row /\ s.cursor.row # row

Accounted(s, applied) ==
  /\ Shaped(applied.screen) /\ applied.damage \subseteq Rows
  /\ \A row \in Rows :
       row < applied.screen.height /\ row \notin applied.damage =>
         Untouched(s, applied.screen, row)

LEMMA SameAccounted == \A s : Shaped(s) => Accounted(s, D!Same(s))
BY DEF D!Same, D!Changed, D!NoDamage, Accounted, Shaped, Untouched

LEMMA ResizeAccounted ==
  ASSUME PaneAssumptions, NEW s, Shaped(s), NEW w \in 1..GridColumns, NEW h \in 1..GridRows
  PROVE  Accounted(s, D!GridResize(s, w, h, MostCells))
<1> DEFINE cells == [row \in 0..(h - 1) |-> [column \in 0..(w - 1) |->
                       IF D!InGrid(s, row, column) THEN s.cells[row][column] ELSE D!BlankCell]]
           cursor == [row |-> D!AtMost(s.cursor.row, D!Below(h)),
                      column |-> D!AtMost(s.cursor.column, D!Below(w))]
           t == [s EXCEPT !.width = w, !.height = h, !.cells = cells, !.cursor = cursor]
<1>1. GridRows \in Nat /\ GridColumns \in Nat
  BY DEF PaneAssumptions, D!PaneAssumption
<1>2. cursor \in [row : Rows, column : Nat]
  BY <1>1 DEF Shaped, Rows, D!AtMost, D!Below
<1>3. cells = [row \in 0..(h - 1) |-> [column \in 0..(w - 1) |-> cells[row][column]]]
  OBVIOUS
<1> HIDE DEF cells, cursor
<1>4. /\ t.width = w /\ t.height = h /\ t.cells = cells /\ t.cursor = cursor
      /\ t.busy = s.busy /\ t.colours = s.colours /\ t.shape = s.shape
  BY DEF Shaped
<1>5. Shaped(t)
  <2>1. t \in [width : Nat, height : Rows, cells : {cells},
               cursor : [row : Rows, column : Nat], busy : BOOLEAN, colours : Nat, shape : Nat]
    <3>1. /\ s \in [width : Nat, height : Rows, cells : {s.cells},
                     cursor : [row : Rows, column : Nat], busy : BOOLEAN,
                     colours : Nat, shape : Nat]
          /\ w \in Nat /\ h \in Rows
      BY <1>1 DEF Shaped, Rows
    <3> QED BY <1>2, <3>1
  <2> QED BY <1>3, <1>4, <2>1 DEF Shaped
<1>6. \A row \in Rows : row < h => row \in D!Whole(t)
  BY <1>1, <1>4 DEF D!Whole, Rows
<1>7. D!Whole(t) \subseteq Rows
  BY <1>1, <1>4 DEF D!Whole, Rows
<1> HIDE DEF t
<1>8. Accounted(s, D!Changed(t, D!Whole(t)))
  BY <1>4, <1>5, <1>6, <1>7 DEF Accounted, D!Changed
<1> QED BY <1>8, SameAccounted DEF D!GridResize, t, cells, cursor

(* The events that change cells. *)
LEMMA CellsAccounted ==
  ASSUME NEW s, Shaped(s), NEW cells, NEW damage \in SUBSET Rows,
         cells = [row \in 0..(s.height - 1) |->
                   [column \in 0..(s.width - 1) |-> cells[row][column]]],
         \A row \in Rows : row < s.height /\ row \notin damage => cells[row] = s.cells[row]
  PROVE  Accounted(s, D!Changed([s EXCEPT !.cells = cells], damage))
<1> DEFINE t == [s EXCEPT !.cells = cells]
<1>1. /\ t.width = s.width /\ t.height = s.height /\ t.cells = cells /\ t.cursor = s.cursor
      /\ t.busy = s.busy /\ t.colours = s.colours /\ t.shape = s.shape
  BY DEF Shaped
<1>2. t \in [width : Nat, height : Rows, cells : {cells},
             cursor : [row : Rows, column : Nat], busy : BOOLEAN, colours : Nat, shape : Nat]
  BY DEF Shaped
<1>3. Shaped(t)
  BY <1>1, <1>2 DEF Shaped
<1> HIDE DEF t
<1>4. Accounted(s, D!Changed(t, damage))
  BY <1>1, <1>3 DEF Accounted, D!Changed, Untouched
<1> QED BY <1>4 DEF t

LEMMA ClearAccounted ==
  ASSUME PaneAssumptions, NEW s, Shaped(s)
  PROVE  Accounted(s, D!GridClear(s))
<1> DEFINE cells == D!BlankCells(s.width, s.height)
<1>1. cells = [row \in 0..(s.height - 1) |-> [column \in 0..(s.width - 1) |-> cells[row][column]]]
  BY DEF D!BlankCells
<1>2. GridRows \in Nat /\ s.height \in Rows
  BY DEF PaneAssumptions, D!PaneAssumption, Shaped
<1>3. D!Whole(s) \in SUBSET Rows /\ \A row \in Rows : row < s.height => row \in D!Whole(s)
  BY <1>2 DEF D!Whole, Rows
<1> QED BY <1>1, <1>3, CellsAccounted DEF D!GridClear

LEMMA LineAccounted ==
  ASSUME PaneAssumptions, NEW s, Shaped(s), NEW row, NEW column, NEW runs
  PROVE  Accounted(s, D!GridLine(s, row, column, runs))
<1> DEFINE written == D!Expanded(runs)
           Written(c) == IF (c - column) + 1 \in DOMAIN written THEN written[(c - column) + 1]
                         ELSE s.cells[row][c]
           cells == [s.cells EXCEPT ![row] = [c \in DOMAIN @ |-> Written(c)]]
<1>1. CASE ~D!InGrid(s, row, column)
  BY <1>1, SameAccounted DEF D!GridLine
<1>2. CASE D!InGrid(s, row, column)
  <2>1. /\ row \in 0..(s.height - 1) /\ GridRows \in Nat /\ s.height \in Rows
        /\ s.cells = [r \in 0..(s.height - 1) |->
                       [c \in 0..(s.width - 1) |-> s.cells[r][c]]]
    BY <1>2 DEF D!InGrid, PaneAssumptions, D!PaneAssumption, Shaped
  <2>2. DOMAIN s.cells[row] = 0..(s.width - 1)
    BY <2>1
  <2> HIDE DEF Written
  <2>3. /\ cells = [s.cells EXCEPT ![row] = [c \in 0..(s.width - 1) |-> Written(c)]]
        /\ cells[row] = [c \in 0..(s.width - 1) |-> Written(c)]
        /\ \A r \in 0..(s.height - 1) : r # row => cells[r] = s.cells[r]
    BY <2>1, <2>2
  <2>4. cells[row] = [c \in 0..(s.width - 1) |-> cells[row][c]]
    BY <2>3
  <2>5. \A r \in 0..(s.height - 1) : cells[r] = [c \in 0..(s.width - 1) |-> cells[r][c]]
    BY <2>1, <2>3, <2>4
  <2>6. cells = [r \in 0..(s.height - 1) |-> cells[r]]
    BY <2>1
  <2> HIDE DEF cells
  <2>7. cells = [r \in 0..(s.height - 1) |-> [c \in 0..(s.width - 1) |-> cells[r][c]]]
    BY <2>5, <2>6
  <2>8. {row} \in SUBSET Rows
        /\ \A r \in Rows : r < s.height /\ r \notin {row} => cells[r] = s.cells[r]
    BY <2>1, <2>3, SMTT(30) DEF Rows
  <2>9. Accounted(s, D!Changed([s EXCEPT !.cells = cells], {row}))
    BY <2>7, <2>8, CellsAccounted
  <2>10. D!GridLine(s, row, column, runs) = D!Changed([s EXCEPT !.cells = cells], {row})
    BY <1>2 DEF D!GridLine, cells, Written, Shaped
  <2> QED BY <2>9, <2>10
<1> QED BY <1>1, <1>2

LEMMA ScrollAccounted ==
  ASSUME PaneAssumptions, NEW s, Shaped(s), NEW top \in Rows, NEW asked \in Rows,
         NEW side, NEW rightAsked, NEW by
  PROVE  Accounted(s, D!GridScroll(s, top, asked, side, rightAsked, by))
<1> DEFINE bottom == D!AtMost(asked, s.height)
           right == D!AtMost(rightAsked, s.width)
           Moved(row, column) ==
             /\ row \in top..(bottom - 1) /\ column \in side..(right - 1)
             /\ row + by \in top..(bottom - 1)
           Cell(row, column) == IF Moved(row, column) THEN s.cells[row + by][column]
                                ELSE s.cells[row][column]
           cells == [row \in DOMAIN s.cells |->
                      [column \in DOMAIN s.cells[row] |-> Cell(row, column)]]
<1>1. CASE top >= bottom \/ side >= right \/ by = 0
  BY <1>1, SameAccounted DEF D!GridScroll
<1>2. CASE ~(top >= bottom \/ side >= right \/ by = 0)
  <2>1. /\ GridRows \in Nat /\ s.height \in Rows /\ bottom \in Rows
        /\ s.cells = [r \in 0..(s.height - 1) |->
                       [c \in 0..(s.width - 1) |-> s.cells[r][c]]]
    BY DEF PaneAssumptions, D!PaneAssumption, Shaped, D!AtMost
  <2>2. \A r \in Rows : \A c : r \notin top..(bottom - 1) => Cell(r, c) = s.cells[r][c]
    OBVIOUS
  <2> HIDE DEF Cell
  <2>3. /\ DOMAIN s.cells = 0..(s.height - 1)
        /\ \A r \in 0..(s.height - 1) :
             /\ DOMAIN s.cells[r] = 0..(s.width - 1)
             /\ s.cells[r] = [c \in 0..(s.width - 1) |-> s.cells[r][c]]
    BY <2>1
  <2>4. cells = [r \in 0..(s.height - 1) |-> [c \in 0..(s.width - 1) |-> Cell(r, c)]]
    BY <2>3
  <2>5. \A r \in 0..(s.height - 1) : cells[r] = [c \in 0..(s.width - 1) |-> Cell(r, c)]
    BY <2>4
  <2>6. cells = [r \in 0..(s.height - 1) |-> [c \in 0..(s.width - 1) |-> cells[r][c]]]
    BY <2>4
  <2>7. \A r \in Rows : r < s.height /\ r \notin top..(bottom - 1) => cells[r] = s.cells[r]
    <3>1. \A r \in Rows : r < s.height => r \in 0..(s.height - 1)
      BY <2>1 DEF Rows
    <3> QED BY <2>2, <2>3, <2>5, <3>1
  <2> HIDE DEF cells
  <2>8. top..(bottom - 1) \in SUBSET Rows
    BY <2>1 DEF Rows
  <2>9. Accounted(s, D!Changed([s EXCEPT !.cells = cells], top..(bottom - 1)))
    BY <2>6, <2>7, <2>8, CellsAccounted
  <2>10. D!GridScroll(s, top, asked, side, rightAsked, by)
           = D!Changed([s EXCEPT !.cells = cells], top..(bottom - 1))
    BY <1>2 DEF D!GridScroll, cells, Cell, Shaped
  <2> QED BY <2>9, <2>10
<1> QED BY <1>1, <1>2

(* Those that change the cursor, or how everything looks. *)
LEMMA CursorAccounted ==
  ASSUME PaneAssumptions, NEW s, Shaped(s), NEW row \in Rows, NEW column \in Nat
  PROVE  Accounted(s, D!GridCursorGoto(s, row, column))
<1> DEFINE t == [s EXCEPT !.cursor = [row |-> row, column |-> column]]
           damage == D!CursorMoved(s.cursor.row, row)
<1>1. /\ t.width = s.width /\ t.height = s.height /\ t.cells = s.cells
      /\ t.cursor = [row |-> row, column |-> column]
      /\ t.busy = s.busy /\ t.colours = s.colours /\ t.shape = s.shape
  BY DEF Shaped
<1>2. Shaped(t)
  <2>1. t \in [width : Nat, height : Rows, cells : {s.cells},
               cursor : [row : Rows, column : Nat], busy : BOOLEAN, colours : Nat, shape : Nat]
    BY DEF Shaped
  <2> QED BY <1>1, <2>1 DEF Shaped
<1>3. s.cursor.row \in damage /\ row \in damage /\ damage \subseteq Rows
  <2>1. GridRows \in Nat /\ {s.cursor.row} \in SUBSET Rows /\ {row} \in SUBSET Rows
    BY DEF PaneAssumptions, D!PaneAssumption, Shaped
  <2> QED BY <2>1, UnionHasBoth DEF D!CursorMoved, Rows
<1> HIDE DEF t, damage
<1>4. Accounted(s, D!Changed(t, damage))
  BY <1>1, <1>2, <1>3 DEF Accounted, D!Changed, Untouched
<1> QED BY <1>4 DEF t, damage, D!GridCursorGoto

LEMMA LookAccounted ==
  ASSUME PaneAssumptions, NEW s, Shaped(s)
  PROVE  /\ \A n \in Nat : /\ Accounted(s, D!DefaultColorsSet(s, n))
                            /\ Accounted(s, D!HlAttrDefine(s, n))
                            /\ Accounted(s, D!ModeChange(s, n))
         /\ \A b \in BOOLEAN : Accounted(s, D!Busy(s, b))
<1>1. /\ GridRows \in Nat /\ s.height \in Rows /\ {s.cursor.row} \subseteq Rows
      /\ D!Whole(s) \subseteq Rows /\ \A r \in Rows : r < s.height => r \in D!Whole(s)
  BY DEF PaneAssumptions, D!PaneAssumption, Shaped, D!Whole, Rows
<1>2. ASSUME NEW n \in Nat
      PROVE  Accounted(s, D!HlAttrDefine(s, n))
  <2> DEFINE t == [s EXCEPT !.colours = n]
  <2>1. t.width = s.width /\ t.height = s.height /\ t.cells = s.cells
    BY DEF Shaped
  <2>2. t \in [width : Nat, height : Rows, cells : {s.cells},
               cursor : [row : Rows, column : Nat], busy : BOOLEAN, colours : Nat, shape : Nat]
    BY DEF Shaped
  <2>3. Shaped(t)
    BY <2>1, <2>2 DEF Shaped
  <2> HIDE DEF t
  <2>4. Accounted(s, D!Changed(t, D!Whole(s)))
    BY <1>1, <2>1, <2>3 DEF D!Changed, Accounted
  <2> QED BY <2>4 DEF t, D!HlAttrDefine
<1>3. ASSUME NEW n \in Nat
      PROVE  Accounted(s, D!DefaultColorsSet(s, n))
  BY <1>2, SameAccounted DEF D!DefaultColorsSet, D!HlAttrDefine
<1>4. ASSUME NEW n \in Nat
      PROVE  Accounted(s, D!ModeChange(s, n))
  <2> DEFINE t == [s EXCEPT !.shape = n]
  <2>1. /\ t.width = s.width /\ t.height = s.height /\ t.cells = s.cells
        /\ t.cursor = s.cursor /\ t.colours = s.colours
    BY DEF Shaped
  <2>2. t \in [width : Nat, height : Rows, cells : {s.cells},
               cursor : [row : Rows, column : Nat], busy : BOOLEAN, colours : Nat, shape : Nat]
    BY DEF Shaped
  <2>3. Shaped(t)
    BY <2>1, <2>2 DEF Shaped
  <2> HIDE DEF t
  <2>4. Accounted(s, D!Changed(t, {s.cursor.row}))
    BY <1>1, <2>1, <2>3 DEF D!Changed, Accounted, Untouched
  <2> QED BY <2>4 DEF t, D!ModeChange
<1>5. ASSUME NEW b \in BOOLEAN
      PROVE  Accounted(s, D!Busy(s, b))
  BY <1>1, ZenonT(40) DEF D!Busy, D!Changed, Accounted, Shaped, Untouched
<1> QED BY <1>2, <1>3, <1>4, <1>5

-----------------------------------------------------------------------------
(* What the pane owes: a stale row is one of the window's, and damaged if the
   grid has it. *)

Drawable ==
  /\ Shaped(screen) /\ size \in [columns : Nat, rows : 1..GridRows]
  /\ pending \subseteq Rows /\ stale \subseteq D!Rows
  /\ D!ShownOrPending

DrawingInv == component = "drawing" => Drawable

LEMMA InitDrawing == PaneAssumptions /\ Init => DrawingInv
<1> SUFFICES ASSUME PaneAssumptions, D!Init PROVE Drawable
  BY DEF Init, DrawingInv
<1>1. Shaped(screen)
  BY DEF D!Init, D!NewScreen, D!BlankCells, Shaped, Rows, PaneAssumptions, D!PaneAssumption
<1>2. size \in [columns : Nat, rows : 1..GridRows] /\ screen.height = 0
  BY DEF D!Init, D!NewScreen, D!Sizes, PaneAssumptions, D!PaneAssumption
<1>3. stale \subseteq D!Rows /\ pending = {}
  BY DEF D!Init, D!NoDamage
<1>4. D!ShownOrPending
  <2>1. \A row \in D!Rows : ~(row < screen.height)
    BY <1>2 DEF D!Rows
  <2> QED BY <1>3, <2>1 DEF D!ShownOrPending
<1> QED BY <1>1, <1>2, <1>3, <1>4 DEF Drawable

(* A row that comes to show something else without being damaged is none of
   the grid's. *)
LEMMA RedrawKeeps ==
  ASSUME PaneAssumptions, Drawable, NEW applied, Accounted(screen, applied), D!Redraw(applied)
  PROVE  Drawable'
<1>1. /\ screen' = applied.screen /\ Shaped(screen') /\ size' = size
      /\ applied.damage \in SUBSET Rows /\ pending \in SUBSET Rows /\ GridRows \in Nat
      /\ focused' = focused /\ held' = held
      /\ pending' = D!Union(pending, applied.damage) /\ stale' = stale \cup D!Outdated
  BY DEF D!Redraw, Accounted, Drawable, PaneAssumptions, D!PaneAssumption
<1>2. pending \subseteq pending' /\ applied.damage \subseteq pending' /\ pending' \subseteq Rows
  <2>1. \A d, e \in SUBSET Rows : d \cup e \subseteq D!Union(d, e) /\ D!Union(d, e) \subseteq Rows
    BY <1>1, UnionHasBoth DEF Rows
  <2> QED BY <1>1, <2>1
<1>3. D!Rows \subseteq Rows /\ D!Rows' = D!Rows /\ D!Outdated \subseteq D!Rows
  BY <1>1 DEF Drawable, D!Rows, Rows, D!Outdated
<1>4. ASSUME NEW row \in D!Rows, row < screen'.height, row \notin applied.damage
      PROVE  Untouched(screen, screen', row) /\ row < screen.height
  BY <1>1, <1>3, <1>4 DEF Accounted, Untouched
<1>5. ASSUME NEW row \in D!Rows, row < screen'.height, row \notin applied.damage
      PROVE  row \notin D!Outdated
  <2>1. Untouched(screen, screen', row) /\ row < screen.height
    BY <1>4, <1>5
  <2>2. D!CursorIn(screen', size', row) = D!CursorIn(screen, size, row)
    BY <1>1, <2>1 DEF Untouched, D!CursorIn
  <2>3. D!CursorIn(screen, size, row) =>
          screen'.cursor = screen.cursor /\ screen'.shape = screen.shape
    BY <2>1 DEF Untouched, D!CursorIn
  <2>4. D!Picture(screen', size', focused', held', row) = D!Picture(screen, size, focused, held, row)
    BY <1>1, <1>5, <2>1, <2>2, <2>3 DEF Untouched, D!Picture
  <2> QED BY <2>4 DEF D!Outdated
<1>6. D!ShownOrPending'
  BY <1>1, <1>2, <1>3, <1>4, <1>5 DEF Drawable, D!ShownOrPending
<1> QED BY <1>1, <1>2, <1>3, <1>6 DEF Drawable

LEMMA NeovimKeeps ==
  ASSUME PaneAssumptions, Drawable, D!NeovimDraws
  PROVE  Drawable'
<1>1. /\ Shaped(screen) /\ GridRows \in Nat /\ GridColumns \in Nat
      /\ screen.height \in Rows /\ screen.width \in Nat
  BY DEF Drawable, Shaped, PaneAssumptions, D!PaneAssumption
<1>2. CASE \E w \in 1..GridColumns, h \in 1..GridRows :
             D!Redraw(D!GridResize(screen, w, h, MostCells))
  BY <1>1, <1>2, ResizeAccounted, RedrawKeeps
<1>3. CASE D!Redraw(D!GridClear(screen))
  BY <1>1, <1>3, ClearAccounted, RedrawKeeps
<1>4. CASE \E row \in 0..GridRows, column \in 0..GridColumns, runs \in D!Runs :
             D!Redraw(D!GridLine(screen, row, column, runs))
  BY <1>1, <1>4, LineAccounted, RedrawKeeps
<1>5. CASE \E top, bottom \in 0..GridRows, n \in {-2, -1, 1} :
             D!Redraw(D!GridScroll(screen, top, bottom, 0, GridColumns, n))
  <2>1. PICK top \in Rows, bottom \in Rows, n \in {-2, -1, 1} :
          D!Redraw(D!GridScroll(screen, top, bottom, 0, GridColumns, n))
    BY <1>5 DEF Rows
  <2>2. Accounted(screen, D!GridScroll(screen, top, bottom, 0, GridColumns, n))
    BY <1>1, ScrollAccounted
  <2> QED BY <2>1, <2>2, RedrawKeeps
<1>6. CASE \E row \in 0..D!Below(screen.height), column \in 0..D!Below(screen.width) :
             D!Redraw(D!GridCursorGoto(screen, row, column))
  <2>1. PICK row \in 0..D!Below(screen.height), column \in 0..D!Below(screen.width) :
          D!Redraw(D!GridCursorGoto(screen, row, column))
    BY <1>6
  <2>2. row \in Rows /\ column \in Nat
    BY <1>1 DEF D!Below, Rows
  <2>3. Accounted(screen, D!GridCursorGoto(screen, row, column))
    BY <1>1, <2>2, CursorAccounted
  <2> QED BY <2>1, <2>3, RedrawKeeps
<1>7. CASE \/ \E n \in 0..1 : \/ D!Redraw(D!DefaultColorsSet(screen, n))
                              \/ D!Redraw(D!HlAttrDefine(screen, n))
                              \/ D!Redraw(D!ModeChange(screen, n))
           \/ \E b \in BOOLEAN : D!Redraw(D!Busy(screen, b))
  BY <1>1, <1>7, LookAccounted, RedrawKeeps
<1> QED BY <1>2, <1>3, <1>4, <1>5, <1>6, <1>7 DEF D!NeovimDraws

(* A frame paints every damaged row the window has, or asks for it again. *)
LEMMA DrawKeeps ==
  ASSUME PaneAssumptions, Drawable, NEW damage \in SUBSET Rows, NEW ready,
         NEW outdated \in SUBSET D!Rows,
         {row \in outdated : row < screen.height} \subseteq damage,
         D!Draw(damage, ready, outdated)
  PROVE  /\ pending' \subseteq Rows /\ stale' \subseteq D!Rows
         /\ {row \in stale' : row < screen.height} \subseteq pending'
<1>1. \A row \in D!Rows : row \in damage => row \in D!Visible(damage)
  <2>1. \A row \in D!Rows : row <= D!Below(size.rows)
    BY DEF Drawable, D!Rows, D!Below
  <2> QED BY <2>1 DEF D!Visible
<1>2. D!Visible(damage) \subseteq damage /\ D!NoDamage = {}
  BY DEF D!Visible, D!NoDamage
<1>3. CASE (~ready \/ damage = {}) /\ pending' = damage /\ stale' = outdated
  BY <1>3
<1>4. CASE pending' = D!NoDamage /\ stale' = outdated \ D!Visible(damage)
  BY <1>1, <1>2, <1>4
<1>5. CASE \E row \in D!Visible(damage) :
             /\ pending' = D!Visible(damage)
             /\ stale' = (outdated \ D!Visible(damage)) \cup {row}
  <2>1. PICK row \in D!Visible(damage) :
          /\ pending' = D!Visible(damage)
          /\ stale' = (outdated \ D!Visible(damage)) \cup {row}
    BY <1>5
  <2>2. row \in D!Rows
    BY DEF D!Visible, D!Below, D!Rows, Drawable, Rows
  <2> QED BY <1>1, <1>2, <2>1, <2>2
<1> QED BY <1>3, <1>4, <1>5 DEF D!Draw

(* The window's own events, and the frames. *)
LEMMA WindowKeeps ==
  ASSUME PaneAssumptions, Drawable,
         \/ D!Flush \/ D!Expose \/ D!ShowHeld \/ D!Step
         \/ \E focus \in BOOLEAN : D!SetFocus(focus)
         \/ \E sz \in D!Sizes : D!Configure(sz)
  PROVE  Drawable'
<1>1. /\ Shaped(screen) /\ GridRows \in Nat /\ screen.cursor.row \in Rows
      /\ size \in [columns : Nat, rows : 1..GridRows] /\ size.rows \in 1..GridRows
      /\ pending \in SUBSET Rows /\ stale \subseteq D!Rows
      /\ {row \in stale : row < screen.height} \subseteq pending
  BY DEF Drawable, D!ShownOrPending, Shaped, PaneAssumptions, D!PaneAssumption
<1>2. D!Rows = 0..(size.rows - 1) /\ D!Rows \in SUBSET Rows /\ D!Outdated \in SUBSET D!Rows
  BY <1>1 DEF D!Rows, Rows, D!Outdated
<1>3. \A d, e \in SUBSET Rows : d \cup e \subseteq D!Union(d, e) /\ D!Union(d, e) \subseteq Rows
  BY <1>1, UnionHasBoth DEF Rows
<1>4. CASE D!Flush
  BY <1>1, <1>2, <1>4 DEF D!Flush, Drawable, D!ShownOrPending, D!Rows
<1>5. CASE D!Expose
  <2>1. /\ screen' = screen /\ size' = size /\ stale' = D!Rows
        /\ pending' = D!Union(pending, D!Rows)
    BY <1>5 DEF D!Expose, D!Damaged
  <2>2. D!Rows \subseteq pending' /\ pending' \subseteq Rows
    BY <1>1, <1>2, <1>3, <2>1, ZenonT(40)
  <2> QED BY <1>1, <1>2, <2>1, <2>2 DEF Drawable, D!ShownOrPending, D!Rows
<1>6. ASSUME NEW focus \in BOOLEAN, D!SetFocus(focus)
      PROVE  Drawable'
  <2>1. /\ screen' = screen /\ size' = size /\ held' = held
        /\ stale' = stale \cup D!Outdated
        /\ pending' = D!Union(pending, {screen.cursor.row})
    BY <1>6 DEF D!SetFocus, D!Damaged
  <2>2. pending \subseteq pending' /\ screen.cursor.row \in pending' /\ pending' \subseteq Rows
    BY <1>1, <1>3, <2>1
  <2>3. \A row \in D!Outdated : row = screen.cursor.row
    BY <2>1 DEF D!Outdated, D!Picture, D!CursorIn
  <2> QED BY <1>1, <1>2, <2>1, <2>2, <2>3 DEF Drawable, D!ShownOrPending, D!Rows
<1>7. ASSUME NEW sz \in D!Sizes, D!Configure(sz)
      PROVE  Drawable'
  <2>1. /\ screen' = screen /\ size' = sz /\ stale' = 0..(sz.rows - 1)
        /\ pending' = D!Union(pending, 0..(sz.rows - 1))
        /\ sz \in [columns : Nat, rows : 1..GridRows] /\ sz.rows \in 1..GridRows
    BY <1>7 DEF D!Configure, D!Damaged, D!DamagedByResize, D!Sizes
  <2>2. 0..(sz.rows - 1) \in SUBSET Rows
    BY <1>1, <2>1 DEF Rows
  <2>3. 0..(sz.rows - 1) \subseteq pending' /\ pending' \subseteq Rows
    BY <1>1, <1>3, <2>1, <2>2
  <2> QED BY <1>1, <2>1, <2>3 DEF Drawable, D!ShownOrPending, D!Rows
<1>8. CASE D!ShowHeld
  <2> DEFINE damage == D!Union(pending, {D!Below(size.rows)})
             outdated == stale \cup D!Outdated
  <2>1. screen' = screen /\ size' = size /\ focused' = focused /\ D!Draw(damage, TRUE, outdated)
    BY <1>8 DEF D!ShowHeld
  <2>2. D!Below(size.rows) = size.rows - 1 /\ {D!Below(size.rows)} \in SUBSET Rows
    BY <1>1 DEF D!Below, Rows
  <2>3. pending \subseteq damage /\ D!Below(size.rows) \in damage /\ damage \in SUBSET Rows
    BY <1>1, <1>3, <2>2
  <2>4. \A row \in D!Outdated : row = size.rows - 1
    BY <2>1 DEF D!Outdated, D!Picture, D!CursorIn
  <2>5. outdated \in SUBSET D!Rows /\ {row \in outdated : row < screen.height} \subseteq damage
    BY <1>1, <1>2, <2>2, <2>3, <2>4
  <2> HIDE DEF damage, outdated
  <2>6. /\ pending' \subseteq Rows /\ stale' \subseteq D!Rows
        /\ {row \in stale' : row < screen.height} \subseteq pending'
    BY <2>1, <2>3, <2>5, DrawKeeps
  <2> QED BY <1>1, <2>1, <2>6 DEF Drawable, D!ShownOrPending, D!Rows
<1>9. CASE D!Step
  <2>1. /\ screen' = screen /\ size' = size /\ D!Draw(pending, TRUE, stale)
    BY <1>9 DEF D!Step
  <2>2. /\ pending' \subseteq Rows /\ stale' \subseteq D!Rows
        /\ {row \in stale' : row < screen.height} \subseteq pending'
    BY <1>1, <2>1, DrawKeeps
  <2> QED BY <1>1, <2>1, <2>2 DEF Drawable, D!ShownOrPending, D!Rows
<1> QED BY <1>4, <1>5, <1>6, <1>7, <1>8, <1>9

LEMMA StepDrawing == PaneAssumptions /\ DrawingInv /\ [Next]_vars => DrawingInv'
<1> SUFFICES ASSUME PaneAssumptions, DrawingInv, [Next]_vars, component' = "drawing"
             PROVE  Drawable'
  BY DEF DrawingInv
<1>1. CASE UNCHANGED vars
  BY <1>1 DEF vars, drawingVars, DrawingInv, Drawable, D!Rows, D!ShownOrPending
<1>2. CASE component = "drawing" /\ D!Next
  BY <1>2, NeovimKeeps, WindowKeeps DEF D!Next, DrawingInv
<1> QED BY <1>1, <1>2 DEF Next

(* A row of the grid that does not show what it should is drawn by the next
   frame (shell/pane/mod.rs, handle and draw; core/grid.rs), whatever Neovim
   and the window sent in whatever order, and of whatever size they are. *)
THEOREM NothingStaysStale == Spec => []ShownOrPending
<1>1. DrawingInv => ShownOrPending
  BY DEF DrawingInv, Drawable, ShownOrPending
<1> QED BY <1>1, InitDrawing, StepDrawing, PaneAssumptions, PTL DEF Spec
-----------------------------------------------------------------------------
(* Glyphs.  Time is spent in a frame only to settle a character that was not
   settled when it began, and one is left out only when time was spent. *)

GlyphsState ==
  /\ spent \in Nat /\ before \subseteq cached
  /\ spent > 0 => cached # before
  /\ deferred => spent >= Budget

GlyphsInv == component = "glyphs" => GlyphsState

LEMMA InitGlyphs == Init => GlyphsInv
BY DEF Init, G!Init, GlyphsInv, GlyphsState

LEMMA StepGlyphs == GlyphsInv /\ [Next]_vars => GlyphsInv'
<1> SUFFICES ASSUME GlyphsInv, [Next]_vars, component' = "glyphs" PROVE GlyphsState'
  BY DEF GlyphsInv
<1>1. CASE UNCHANGED vars
  BY <1>1 DEF vars, glyphsVars, GlyphsInv, GlyphsState
<1>2. CASE component = "glyphs" /\ G!Next
  <2>1. GlyphsState
    BY <1>2 DEF GlyphsInv
  <2>2. ASSUME NEW shown, G!NewFrame(shown) PROVE GlyphsState'
    BY <2>1, <2>2 DEF G!NewFrame, G!Spent, GlyphsState
  <2>3. ASSUME NEW c, G!DrawCached(c) PROVE GlyphsState'
    BY <2>1, <2>3 DEF G!DrawCached, GlyphsState
  <2>4. ASSUME NEW c, G!Draw(c) PROVE GlyphsState'
    <3>1. c \notin cached /\ before' = before
      BY <2>4 DEF G!Draw
    <3>2. CASE cached' = cached \cup {c} /\ spent' = spent /\ deferred' = deferred
      BY <2>1, <3>1, <3>2 DEF GlyphsState
    <3>3. ASSUME NEW cost \in 0..MaxCost,
                 cached' = cached \cup {c} /\ spent' = spent + cost /\ deferred' = deferred
          PROVE  GlyphsState'
      <4>1. before' \subseteq cached' /\ cached' # before'
        BY <2>1, <3>1, <3>3 DEF GlyphsState
      <4>2. spent' \in Nat /\ spent' >= spent
        BY <2>1, <3>3 DEF GlyphsState
      <4>3. Budget \in Nat
        BY PaneAssumptions DEF G!GlyphsAssumption
      <4> QED BY <2>1, <3>3, <4>1, <4>2, <4>3 DEF GlyphsState
    <3>4. CASE spent >= Budget /\ UNCHANGED <<cached, spent>>
      BY <2>1, <3>1, <3>4 DEF GlyphsState
    <3> QED BY <2>4, <3>2, <3>3, <3>4 DEF G!Draw, G!Settle
  <2> QED BY <1>2, <2>2, <2>3, <2>4 DEF G!Next
<1> QED BY <1>1, <1>2 DEF Next

(* Every frame that leaves a character out for want of time settles one that
   was not settled, so that no page is drawn over and over for ever: whatever
   the fonts, and whatever `fc-match` answers or costs (`FALLBACK_BUDGET`). *)
THEOREM FramesConverge == Spec => []Converges
<1>1. GlyphsInv => Converges
  <2>1. Budget \in Nat /\ Budget # 0
    BY PaneAssumptions DEF G!GlyphsAssumption
  <2> QED BY <2>1 DEF GlyphsInv, GlyphsState, Converges, G!Converges
<1> QED BY <1>1, InitGlyphs, StepGlyphs, PTL DEF Spec

-----------------------------------------------------------------------------

-----------------------------------------------------------------------------
(* Typing.  What a press does is read as the key it means, unless it is Ctrl
   and V; that one is read when the mode is still the one it was pressed in, if
   all was settled then and nothing was typed since. *)

Holds == {{}, {"S"}, {"C"}, {"C", "S"}}
Typed == [keysym : T!Keysyms, held : Holds]

(* A keysym with the text it has, by itself or composed. *)
HasText(k, t, h) == t = T!Text(k, h) \/ (k = "eacute" /\ t = "eacute")

LEMMA HeldKeys ==
  ASSUME NEW h \in Holds
  PROVE  /\ "C" \notin h => h \subseteq {"S"}
         /\ "C" \in h => /\ ~(h \subseteq {"S"}) /\ h \ {"S"} = {"C"}
                         /\ h \cup {"S"} = {"C"} \cup {"S"} /\ {"C"} \cup {} = {"C"}
<1>1. CASE h = {}
  BY <1>1
<1>2. CASE h = {"S"}
  BY <1>2
<1>3. CASE h = {"C"}
  BY <1>3
<1>4. CASE h = {"C", "S"}
  BY <1>4
<1> QED BY <1>1, <1>2, <1>3, <1>4 DEF Holds

LEMMA NotationIsRead ==
  ASSUME NEW k \in T!Keysyms, NEW h \in Holds, NEW t, HasText(k, t, h),
         T!Notation(k, t, h) # T!Nothing
  PROVE  /\ T!Notation(k, t, h).kind \in {"text", "name"}
         /\ T!ReadAs(T!Notation(k, t, h)) = T!Meant([keysym |-> k, held |-> h])
<1> DEFINE n == T!Notation(k, t, h)
           press == [keysym |-> k, held |-> h]
<1>1. k \notin T!ModifierKeys \cup T!Dead
  BY DEF T!Notation
<1>2. press.keysym = k /\ press.held = h
  OBVIOUS
<1> USE DEF T!Named, T!Latin, T!Capitals, T!Foreign, T!ModifierKeys, T!Dead
<1>3. CASE k \in T!Named
  <2>1. n = [kind |-> "name", token |-> k, held |-> h]
    BY <1>1, <1>3 DEF T!Notation, T!Bracketed
  <2>2. n.kind = "name" /\ n.token = k /\ n.held = h /\ k # "lt" /\ T!Lower(k) = k
    BY <1>3, <2>1 DEF T!Lower
  <2>3. T!Meant(press) = [key |-> k, held |-> h]
    BY <1>2, <1>3 DEF T!Meant
  <2>4. T!ReadAs(n) = [key |-> k, held |-> h]
    BY <2>2 DEF T!ReadAs
  <2> QED BY <2>2, <2>3, <2>4
<1>4. CASE k \notin T!Named /\ "C" \notin h
  <2>1. h \subseteq {"S"}
    BY <1>4, HeldKeys
  <2>2. t = IF k \in T!Foreign THEN "de" ELSE k
    BY <1>1, <1>4 DEF HasText, T!Text, T!Keysyms
  <2>3. n = IF t = "<" THEN T!Bracketed("lt", {}) ELSE T!Plain(t)
    BY <1>1, <1>4, <2>1 DEF T!Notation
  <2>4. T!Meant(press) = [key |-> t, held |-> {}]
    BY <1>2, <1>4, <2>2 DEF T!Meant, T!Keysyms
  <2>5. CASE t = "<"
    <3>1. n = [kind |-> "name", token |-> "lt", held |-> {}]
      BY <2>3, <2>5 DEF T!Bracketed
    <3>2. n.kind = "name" /\ n.token = "lt" /\ n.held = {}
      BY <3>1
    <3>3. T!ReadAs(n) = [key |-> "<", held |-> {}]
      BY <3>2 DEF T!ReadAs
    <3> QED BY <2>4, <2>5, <3>2, <3>3
  <2>6. CASE t # "<"
    <3>1. n = [kind |-> "text", token |-> t, held |-> {}]
      BY <2>3, <2>6 DEF T!Plain
    <3> QED BY <2>4, <2>6, <3>1 DEF T!ReadAs
  <2> QED BY <2>5, <2>6
<1>5. CASE k \notin T!Named /\ "C" \in h
  <2>1. /\ ~(h \subseteq {"S"}) /\ h \ {"S"} = {"C"}
        /\ h \cup {"S"} = {"C"} \cup {"S"} /\ {"C"} \cup {} = {"C"}
    BY <1>5, HeldKeys
  <2> DEFINE key == IF k \in T!Foreign THEN "de" ELSE k
  <2>2. T!Character(k, t) = key
    BY <1>1, <1>5 DEF T!Character, HasText, T!Text, T!Keysyms
  <2>3. n = T!Folded(key, h)
    <3>1. n = T!Folded(T!Character(k, t), h)
      BY <1>1, <1>5, <2>1 DEF T!Notation
    <3> QED BY <2>2, <3>1
  <2>4. key \in T!Latin \cup {"de"} /\ key \notin T!Named /\ key # "lt"
    BY <1>1, <1>5 DEF T!Keysyms
  <2>5. T!Meant(press) = [key |-> T!Lower(key),
                          held |-> {"C"} \cup (IF key \in T!Capitals THEN {"S"} ELSE {})]
    BY <1>2, <1>5, <2>4 DEF T!Meant
  <2> HIDE DEF key, n, press
  <2>6. CASE key \in T!Capitals
    <3>1. n = [kind |-> "name", token |-> T!Lower(key), held |-> h \cup {"S"}]
      BY <2>3, <2>6 DEF T!Folded, T!Bracketed
    <3>2. T!Lower(key) \in {"a", "v"} /\ T!Lower(T!Lower(key)) = T!Lower(key)
      BY <2>6 DEF T!Lower
    <3>3. n.kind = "name" /\ n.token = T!Lower(key) /\ n.held = h \cup {"S"} /\ n.token # "lt"
      BY <3>1, <3>2
    <3>4. T!ReadAs(n) = [key |-> T!Lower(n.token), held |-> n.held]
      BY <3>3 DEF T!ReadAs
    <3>5. T!ReadAs(n) = T!Meant(press)
      BY <2>1, <2>5, <2>6, <3>2, <3>3, <3>4
    <3> QED BY <3>3, <3>5 DEF n, press
  <2>7. CASE key = "<"
    <3>1. n = [kind |-> "name", token |-> "lt", held |-> {"C"}]
      BY <2>1, <2>3, <2>7 DEF T!Folded, T!Bracketed, T!Spell
    <3>2. T!ReadAs(n) = [key |-> "<", held |-> {"C"}] /\ n.kind = "name"
      BY <3>1 DEF T!ReadAs
    <3>3. T!Meant(press) = [key |-> "<", held |-> {"C"}]
      BY <2>1, <2>5, <2>7 DEF T!Lower
    <3> QED BY <3>2, <3>3 DEF n, press
  <2>8. CASE key \notin T!Capitals /\ key # "<"
    <3>1. n = [kind |-> "name", token |-> key, held |-> {"C"}]
      BY <2>1, <2>3, <2>8 DEF T!Folded, T!Bracketed, T!Spell
    <3>2. T!Lower(key) = key
      BY <2>8 DEF T!Lower
    <3>3. T!ReadAs(n) = [key |-> key, held |-> {"C"}] /\ n.kind = "name"
      BY <2>4, <3>1, <3>2 DEF T!ReadAs
    <3>4. T!Meant(press) = [key |-> key, held |-> {"C"}]
      BY <2>1, <2>5, <2>8, <3>2
    <3> QED BY <3>3, <3>4 DEF n, press
  <2> QED BY <2>6, <2>7, <2>8
<1> QED BY <1>3, <1>4, <1>5

(* A key that waits, the first of them if Ctrl and V and all was settled. *)
KeyOK(item, i, now) ==
  /\ DOMAIN item = {"does", "settled", "press"} /\ item.press \in Typed
  /\ ~T!CtrlV(item.press) => T!ReadAs(item.does) = T!Meant(item.press)
  /\ T!CtrlV(item.press) /\ item.settled =>
       i = 1 /\ now = "normal" /\ "S" \notin item.press.held

(* A paste that waits. *)
PasteOK(item, unread, now) ==
  /\ DOMAIN item = {"does", "settled", "press"} /\ item.press \in Typed /\ T!CtrlV(item.press)
  /\ item.settled => unread = <<>> /\ (now = "insert" \/ "S" \in item.press.held)

IsQueue(q) == \E items : q \in Seq(items)

TypingState ==
  /\ IsQueue(keys) /\ IsQueue(requests) /\ IsQueue(reports)
  /\ \A i \in 1..Len(keys) : KeyOK(keys[i], i, mode)
  /\ \A i \in 1..Len(requests) : PasteOK(requests[i], keys, mode)
  /\ reports = <<>> => known = mode
  /\ reports # <<>> => reports[Len(reports)] = mode
  /\ mode \in {"normal", "insert"}
  /\ T!ReadAsPressed

TypingInv == component = "typing" => TypingState

LEMMA InitTyping == Init => TypingInv
<1> SUFFICES ASSUME Init, component = "typing" PROVE TypingState
  BY DEF TypingInv
<1>1. keys = <<>> /\ requests = <<>> /\ reports = <<>> /\ known = "normal" /\ mode = "normal"
      /\ done.press = T!Nothing
  BY DEF Init, T!Init
<1>2. <<>> \in Seq({}) /\ Len(<<>>) = 0 /\ 1..0 = {}
  OBVIOUS
<1>3. IsQueue(<<>>)
  BY <1>2 DEF IsQueue
<1> QED BY <1>1, <1>2, <1>3 DEF TypingState, T!ReadAsPressed

(* A queue with one item more, and with one less. *)
LEMMA QueueGrows ==
  ASSUME NEW q, IsQueue(q), NEW item
  PROVE  /\ IsQueue(Append(q, item)) /\ Len(q) \in Nat /\ Len(Append(q, item)) = Len(q) + 1
         /\ Append(q, item) # <<>> /\ Append(q, item)[Len(q) + 1] = item
         /\ \A i \in 1..Len(q) : Append(q, item)[i] = q[i]
<1>1. PICK items : q \in Seq(items)
  BY DEF IsQueue
<1>2. q \in Seq(items \cup {item}) /\ item \in items \cup {item}
  BY <1>1
<1>3. /\ Append(q, item) \in Seq(items \cup {item}) /\ Len(q) \in Nat
      /\ Len(Append(q, item)) = Len(q) + 1
      /\ Append(q, item) # <<>> /\ Append(q, item)[Len(q) + 1] = item
      /\ \A i \in 1..Len(q) : Append(q, item)[i] = q[i]
  BY <1>2
<1> QED BY <1>3 DEF IsQueue

LEMMA QueueShrinks ==
  ASSUME NEW q, IsQueue(q), q # <<>>
  PROVE  /\ IsQueue(Tail(q)) /\ Len(q) \in Nat /\ Len(q) >= 1 /\ Len(Tail(q)) = Len(q) - 1
         /\ Head(q) = q[1] /\ (Tail(q) # <<>> => Tail(q)[Len(q) - 1] = q[Len(q)] /\ Len(q) - 1 >= 1)
         /\ \A i \in 1..(Len(q) - 1) : Tail(q)[i] = q[i + 1]
<1>1. PICK items : q \in Seq(items)
  BY DEF IsQueue
<1>2. /\ Tail(q) \in Seq(items) /\ Len(q) \in Nat /\ Len(q) >= 1 /\ Len(Tail(q)) = Len(q) - 1
      /\ Head(q) = q[1]
      /\ \A i \in 1..(Len(q) - 1) : Tail(q)[i] = q[i + 1]
  BY <1>1
<1>3. Tail(q) # <<>> => Tail(q)[Len(q) - 1] = q[Len(q)] /\ Len(q) - 1 >= 1
  <2> SUFFICES ASSUME Tail(q) # <<>> PROVE Tail(q)[Len(q) - 1] = q[Len(q)] /\ Len(q) - 1 >= 1
    OBVIOUS
  <2>1. Len(Tail(q)) # 0
    BY <1>1, <1>2
  <2>2. Len(q) - 1 \in 1..(Len(q) - 1) /\ (Len(q) - 1) + 1 = Len(q)
    BY <1>2, <2>1
  <2> QED BY <1>2, <2>2
<1> QED BY <1>2, <1>3 DEF IsQueue

LEMMA TypingReads ==
  ASSUME TypingState, T!NeovimReads PROVE TypingState'
<1> DEFINE item == Head(keys)
           read == T!ReadAs(item.does)
<1>1. /\ IsQueue(keys) /\ IsQueue(requests) /\ IsQueue(reports)
      /\ \A i \in 1..Len(keys) : KeyOK(keys[i], i, mode)
      /\ \A i \in 1..Len(requests) : PasteOK(requests[i], keys, mode)
      /\ reports = <<>> => known = mode
      /\ reports # <<>> => reports[Len(reports)] = mode
      /\ mode \in {"normal", "insert"}
  BY DEF TypingState
<1>2. /\ keys # <<>> /\ keys' = Tail(keys) /\ mode' = T!NextMode(read)
      /\ reports' = (IF mode' # mode THEN Append(reports, mode') ELSE reports)
      /\ done' = T!Done(item, read)
      /\ UNCHANGED <<pressed, compose, known, requests>>
  BY DEF T!NeovimReads
<1>3. /\ IsQueue(keys') /\ Len(keys) \in Nat /\ Len(keys) >= 1 /\ Len(keys') = Len(keys) - 1
      /\ item = keys[1] /\ \A i \in 1..Len(keys') : keys'[i] = keys[i + 1]
  BY <1>1, <1>2, QueueShrinks
<1> HIDE DEF item
<1>4. KeyOK(item, 1, mode)
  BY <1>1, <1>3
<1>5. ASSUME NEW i \in 1..Len(keys') PROVE KeyOK(keys'[i], i, mode')
  <2>1. KeyOK(keys[i + 1], i + 1, mode) /\ keys'[i] = keys[i + 1] /\ i + 1 # 1
    BY <1>1, <1>3
  <2> QED BY <2>1 DEF KeyOK
<1>6. ASSUME NEW i \in 1..Len(requests) PROVE PasteOK(requests'[i], keys', mode')
  BY <1>1, <1>2, <1>6 DEF PasteOK
<1>7. IsQueue(reports') /\ (reports' = <<>> => known' = mode')
      /\ (reports' # <<>> => reports'[Len(reports')] = mode')
  BY <1>1, <1>2, QueueGrows
<1>8. T!ReadAsPressed'
  <2>1. done'.press = item.press /\ done'.did = read /\ done'.settled = item.settled
        /\ done'.mode = mode
    BY <1>2 DEF T!Done
  <2>2. CASE ~T!CtrlV(item.press)
    BY <1>4, <2>1, <2>2 DEF KeyOK, T!ReadAsPressed
  <2>3. CASE T!CtrlV(item.press)
    <3>1. read # T!PasteClipboard
      BY DEF T!ReadAs, T!PasteClipboard
    <3>2. item.settled => mode = "normal" /\ "S" \notin item.press.held
      BY <1>4, <2>3 DEF KeyOK
    <3> QED BY <2>1, <2>3, <3>1, <3>2 DEF T!ReadAsPressed
  <2> QED BY <2>2, <2>3
<1>9. IsQueue(requests') /\ mode' \in {"normal", "insert"}
  BY <1>1, <1>2 DEF T!NextMode
<1> QED BY <1>2, <1>3, <1>5, <1>6, <1>7, <1>8, <1>9 DEF TypingState

LEMMA TypingPastes ==
  ASSUME TypingState, T!NeovimPastes PROVE TypingState'
<1> DEFINE item == Head(requests)
<1>1. /\ IsQueue(keys) /\ IsQueue(requests) /\ IsQueue(reports)
      /\ \A i \in 1..Len(keys) : KeyOK(keys[i], i, mode)
      /\ \A i \in 1..Len(requests) : PasteOK(requests[i], keys, mode)
      /\ reports = <<>> => known = mode
      /\ reports # <<>> => reports[Len(reports)] = mode
      /\ mode \in {"normal", "insert"}
  BY DEF TypingState
<1>2. /\ requests # <<>> /\ requests' = Tail(requests) /\ done' = T!Done(item, T!PasteClipboard)
      /\ UNCHANGED <<keys, mode, known, reports>>
  BY DEF T!NeovimPastes
<1>3. /\ IsQueue(requests') /\ Len(requests) \in Nat /\ Len(requests) >= 1
      /\ Len(requests') = Len(requests) - 1
      /\ item = requests[1] /\ \A i \in 1..Len(requests') : requests'[i] = requests[i + 1]
  BY <1>1, <1>2, QueueShrinks
<1> HIDE DEF item
<1>4. PasteOK(item, keys, mode)
  BY <1>1, <1>3
<1>5. ASSUME NEW i \in 1..Len(requests') PROVE PasteOK(requests'[i], keys', mode')
  <2>1. PasteOK(requests[i + 1], keys, mode) /\ requests'[i] = requests[i + 1]
    BY <1>1, <1>3
  <2> QED BY <1>2, <2>1 DEF PasteOK
<1>6. ASSUME NEW i \in 1..Len(keys) PROVE KeyOK(keys'[i], i, mode')
  BY <1>1, <1>2, <1>6 DEF KeyOK
<1>7. T!ReadAsPressed'
  <2>1. done'.press = item.press /\ done'.did = T!PasteClipboard /\ done'.settled = item.settled
        /\ done'.mode = mode
    BY <1>2 DEF T!Done
  <2> QED BY <1>4, <2>1 DEF PasteOK, T!ReadAsPressed
<1> QED BY <1>1, <1>2, <1>3, <1>5, <1>6, <1>7 DEF TypingState

LEMMA TypingHears ==
  ASSUME TypingState, T!ModeChange \/ T!Refresh PROVE TypingState'
<1>1. /\ IsQueue(keys) /\ IsQueue(requests) /\ IsQueue(reports)
      /\ \A i \in 1..Len(keys) : KeyOK(keys[i], i, mode)
      /\ \A i \in 1..Len(requests) : PasteOK(requests[i], keys, mode)
      /\ reports = <<>> => known = mode
      /\ reports # <<>> => reports[Len(reports)] = mode
      /\ mode \in {"normal", "insert"}
      /\ T!ReadAsPressed
  BY DEF TypingState
<1>2. UNCHANGED <<mode, keys, requests, done>>
  BY DEF T!ModeChange, T!Refresh
<1>3. /\ \A i \in 1..Len(keys') : KeyOK(keys'[i], i, mode')
      /\ \A i \in 1..Len(requests') : PasteOK(requests'[i], keys', mode')
      /\ T!ReadAsPressed'
  BY <1>1, <1>2 DEF KeyOK, PasteOK, T!ReadAsPressed
<1>4. IsQueue(reports') /\ (reports' = <<>> => known' = mode')
      /\ (reports' # <<>> => reports'[Len(reports')] = mode')
  <2>1. CASE T!Refresh
    BY <1>1, <2>1 DEF T!Refresh
  <2>2. CASE T!ModeChange
    <3>1. reports # <<>> /\ known' = Head(reports) /\ reports' = Tail(reports) /\ mode' = mode
      BY <2>2 DEF T!ModeChange
    <3>2. /\ IsQueue(Tail(reports)) /\ Len(Tail(reports)) = Len(reports) - 1
          /\ Len(reports) \in Nat /\ Len(reports) >= 1
          /\ Head(reports) = reports[1]
          /\ Tail(reports) # <<>> => Tail(reports)[Len(reports) - 1] = reports[Len(reports)]
      BY <1>1, <3>1, QueueShrinks
    <3>3. CASE Tail(reports) = <<>>
      <4> DEFINE rest == Tail(reports)
      <4>1. rest = <<>> /\ Len(rest) = Len(reports) - 1
        BY <3>2, <3>3
      <4> HIDE DEF rest
      <4>2. Len(rest) = 0
        BY ONLY <4>1
      <4> DEFINE remain == Len(rest)
                 waited == Len(reports)
      <4>3. remain = waited - 1 /\ remain = 0 /\ waited \in Nat
        BY <3>2, <4>1, <4>2
      <4> HIDE DEF remain, waited
      <4>4. waited = 1
        BY <4>3
      <4>5. Len(reports) = 1
        BY <4>4 DEF waited
      <4> QED BY <1>1, <3>1, <3>2, <3>3, <4>5
    <3>4. CASE Tail(reports) # <<>>
      BY <1>1, <3>1, <3>2, <3>4
    <3> QED BY <3>3, <3>4
  <2> QED BY <2>1, <2>2
<1> QED BY <1>1, <1>2, <1>3, <1>4 DEF TypingState

(* What is left of a press has a keysym and its text. *)
LEMMA ComposedIsText ==
  ASSUME NEW press \in T!Presses, T!Composed(press).got # <<>>
  PROVE  /\ T!Composed(press).got[1].keysym \in T!Keysyms
         /\ press.held \in SUBSET {"C", "S"}
         /\ HasText(T!Composed(press).got[1].keysym, T!Composed(press).got[1].text, press.held)
         /\ press.keysym \in T!Keysyms /\ DOMAIN press = {"keysym", "held"}
<1>1. /\ press.keysym \in T!Keysyms /\ press.held \in SUBSET {"C", "S"}
      /\ DOMAIN press = {"keysym", "held"}
  BY DEF T!Presses
<1> DEFINE typed == [keysym |-> press.keysym, text |-> T!Text(press.keysym, press.held)]
           acute == [keysym |-> "eacute", text |-> "eacute"]
           got == T!Composed(press).got
<1>2. got \in {<<>>, <<typed>>, <<acute>>}
  BY DEF T!Composed
<1>3. got[1] \in {typed, acute}
  BY <1>2
<1>4. "eacute" \in T!Keysyms
  BY DEF T!Keysyms, T!Latin
<1>5. /\ typed.keysym = press.keysym /\ typed.text = T!Text(press.keysym, press.held)
      /\ acute.keysym = "eacute" /\ acute.text = "eacute"
  OBVIOUS
<1> HIDE DEF typed, acute, got
<1>6. HasText(typed.keysym, typed.text, press.held) /\ HasText(acute.keysym, acute.text, press.held)
  BY <1>5 DEF HasText
<1> QED BY <1>1, <1>3, <1>4, <1>5, <1>6 DEF got

LEMMA TypingPresses ==
  ASSUME TypingState, NEW press \in T!Presses, T!Press(press) PROVE TypingState'
<1> DEFINE fed == T!Composed(press)
           k == fed.got[1].keysym
           t == fed.got[1].text
           h == press.held
           does == IF fed.got = <<>> THEN T!Nothing ELSE T!PressDoes(k, t, h)
           was == IF fed.got = <<>> THEN press ELSE [press EXCEPT !.keysym = k]
           item == [does |-> does, settled |-> T!Settled, press |-> was]
<1>1. /\ IsQueue(keys) /\ IsQueue(requests) /\ IsQueue(reports)
      /\ \A i \in 1..Len(keys) : KeyOK(keys[i], i, mode)
      /\ \A i \in 1..Len(requests) : PasteOK(requests[i], keys, mode)
      /\ reports = <<>> => known = mode
      /\ reports # <<>> => reports[Len(reports)] = mode
      /\ mode \in {"normal", "insert"}
      /\ T!ReadAsPressed
  BY DEF TypingState
<1>2. /\ keys' = (IF does.kind \in {"text", "name"} THEN Append(keys, item) ELSE keys)
      /\ requests' = (IF does = T!PasteClipboard THEN Append(requests, item)
                      ELSE IF does = T!Nothing THEN requests ELSE T!Overtaken)
      /\ UNCHANGED <<known, mode, reports, done>>
  BY DEF T!Press
<1>3. ASSUME does # T!Nothing
      PROVE  /\ k \in T!Keysyms /\ h \in Holds /\ HasText(k, t, h)
             /\ was = [keysym |-> k, held |-> h] /\ was \in Typed
             /\ does = T!PressDoes(k, t, h)
  <2>1. fed.got # <<>> /\ does = T!PressDoes(k, t, h)
    BY <1>3
  <2>2. k \in T!Keysyms /\ h \in SUBSET {"C", "S"} /\ HasText(k, t, h)
        /\ press.keysym \in T!Keysyms /\ DOMAIN press = {"keysym", "held"}
    BY <2>1, ComposedIsText
  <2>3. h \in Holds
    BY <2>2 DEF Holds
  <2>4. was = [press EXCEPT !.keysym = k] /\ press = [keysym |-> press.keysym, held |-> press.held]
    BY <2>1 DEF T!Presses
  <2>5. was = [keysym |-> k, held |-> h]
    BY <2>4
  <2> QED BY <2>1, <2>2, <2>3, <2>5 DEF Typed
<1>4. /\ DOMAIN item = {"does", "settled", "press"} /\ item.does = does
      /\ item.settled = T!Settled /\ item.press = was
  OBVIOUS
<1>5. item.settled => keys = <<>> /\ requests = <<>> /\ known = mode
  BY <1>1, <1>4 DEF T!Settled
<1>6. T!Nothing.kind = "nothing" /\ T!PasteClipboard.kind = "paste"
  BY DEF T!Nothing, T!PasteClipboard
<1> HIDE DEF fed, k, t, h, does, was, item
<1>7. T!ReadAsPressed'
  BY <1>1, <1>2 DEF T!ReadAsPressed
<1>8. IsQueue(reports') /\ (reports' = <<>> => known' = mode')
      /\ (reports' # <<>> => reports'[Len(reports')] = mode') /\ mode' \in {"normal", "insert"}
  BY <1>1, <1>2
<1>9. CASE does = T!Nothing
  <2>1. UNCHANGED <<keys, requests, mode>>
    BY <1>2, <1>6, <1>9 DEF T!PasteClipboard, T!Nothing
  <2>2. /\ \A i \in 1..Len(keys') : KeyOK(keys'[i], i, mode')
        /\ \A i \in 1..Len(requests') : PasteOK(requests'[i], keys', mode')
    BY <1>1, <2>1 DEF KeyOK, PasteOK
  <2> QED BY <1>1, <1>7, <1>8, <2>1, <2>2 DEF TypingState
<1>10. CASE does = T!PasteClipboard
  <2>1. keys' = keys /\ mode' = mode /\ requests' = Append(requests, item)
    BY <1>2, <1>6, <1>10
  <2>2. /\ k \in T!Keysyms /\ h \in Holds /\ HasText(k, t, h)
        /\ was = [keysym |-> k, held |-> h] /\ was \in Typed /\ does = T!PressDoes(k, t, h)
    BY <1>3, <1>6, <1>10
  <2>3. was.keysym = k /\ was.held = h
    BY <2>2
  <2>4. k \in {"v", "V"} /\ "C" \in h /\ ("S" \in h \/ known # "normal")
    <3> SUFFICES ASSUME ~(k \in {"v", "V"} /\ "C" \in h /\ ("S" \in h \/ known # "normal"))
                 PROVE  FALSE
      OBVIOUS
    <3>1. does = T!Notation(k, t, h)
      BY <2>2 DEF T!PressDoes
    <3>2. does.kind \in {"text", "name"}
      BY <1>6, <1>10, <2>2, <3>1, NotationIsRead
    <3> QED BY <1>6, <1>10, <3>2
  <2>5. PasteOK(item, keys', mode')
    BY <1>1, <1>4, <1>5, <2>1, <2>2, <2>3, <2>4 DEF PasteOK, T!CtrlV
  <2>6. /\ IsQueue(Append(requests, item)) /\ Len(requests) \in Nat
        /\ Len(Append(requests, item)) = Len(requests) + 1
        /\ Append(requests, item)[Len(requests) + 1] = item
        /\ \A i \in 1..Len(requests) : Append(requests, item)[i] = requests[i]
    BY <1>1, QueueGrows
  <2>7. ASSUME NEW i \in 1..Len(requests') PROVE PasteOK(requests'[i], keys', mode')
    <3>1. CASE i = Len(requests) + 1
      BY <2>1, <2>5, <2>6, <3>1
    <3>2. CASE i # Len(requests) + 1
      <4>1. requests'[i] = requests[i] /\ PasteOK(requests[i], keys, mode)
        BY <1>1, <2>1, <2>6, <3>2
      <4> QED BY <2>1, <4>1 DEF PasteOK
    <3> QED BY <3>1, <3>2
  <2>8. ASSUME NEW i \in 1..Len(keys') PROVE KeyOK(keys'[i], i, mode')
    BY <1>1, <2>1, <2>8 DEF KeyOK
  <2> QED BY <1>1, <1>7, <1>8, <2>1, <2>6, <2>7, <2>8 DEF TypingState
<1>11. CASE does # T!Nothing /\ does # T!PasteClipboard
  <2>1. /\ k \in T!Keysyms /\ h \in Holds /\ HasText(k, t, h)
        /\ was = [keysym |-> k, held |-> h] /\ was \in Typed /\ does = T!PressDoes(k, t, h)
    BY <1>3, <1>11
  <2>2. was.keysym = k /\ was.held = h
    BY <2>1
  <2>3. does = T!Notation(k, t, h) /\ ~(k \in {"v", "V"} /\ "C" \in h /\ ("S" \in h \/ known # "normal"))
    BY <1>11, <2>1 DEF T!PressDoes
  <2>4. does.kind \in {"text", "name"} /\ T!ReadAs(does) = T!Meant(was)
    BY <1>11, <2>1, <2>3, NotationIsRead
  <2>5. keys' = Append(keys, item) /\ requests' = T!Overtaken /\ mode' = mode
    BY <1>2, <1>11, <2>4
  <2>6. /\ IsQueue(Append(keys, item)) /\ Len(keys) \in Nat
        /\ Len(Append(keys, item)) = Len(keys) + 1
        /\ Append(keys, item) # <<>>
        /\ Append(keys, item)[Len(keys) + 1] = item
        /\ \A i \in 1..Len(keys) : Append(keys, item)[i] = keys[i]
    BY <1>1, QueueGrows
  <2>7. KeyOK(item, Len(keys) + 1, mode')
    <3>1. keys = <<>> => Len(keys) + 1 = 1
      OBVIOUS
    <3> QED BY <1>1, <1>4, <1>5, <2>1, <2>2, <2>3, <2>4, <2>5, <3>1 DEF KeyOK, T!CtrlV
  <2>8. ASSUME NEW i \in 1..Len(keys') PROVE KeyOK(keys'[i], i, mode')
    <3>1. CASE i = Len(keys) + 1
      BY <2>5, <2>6, <2>7, <3>1
    <3>2. CASE i # Len(keys) + 1
      <4>1. keys'[i] = keys[i] /\ KeyOK(keys[i], i, mode)
        BY <1>1, <2>5, <2>6, <3>2
      <4> QED BY <2>5, <4>1 DEF KeyOK
    <3> QED BY <3>1, <3>2
  <2>9. /\ IsQueue(requests') /\ Len(requests') = Len(requests) /\ Len(requests) \in Nat
        /\ \A i \in 1..Len(requests) :
             requests'[i] = [requests[i] EXCEPT !.settled = FALSE]
    <3>1. PICK items : requests \in Seq(items)
      BY <1>1 DEF IsQueue
    <3>2. DOMAIN requests = 1..Len(requests) /\ Len(requests) \in Nat
      BY <3>1
    <3>3. requests' = [i \in 1..Len(requests) |-> [requests[i] EXCEPT !.settled = FALSE]]
      BY <2>5, <3>2 DEF T!Overtaken
    <3> DEFINE some == {[requests[i] EXCEPT !.settled = FALSE] : i \in 1..Len(requests)}
    <3>4. requests' \in [1..Len(requests) -> some]
      BY <3>3
    <3> HIDE DEF some
    <3>5. requests' \in Seq(some)
      BY <3>2, <3>4
    <3>6. Len(requests') = Len(requests)
      BY <3>2, <3>4
    <3> QED BY <3>2, <3>3, <3>5, <3>6 DEF IsQueue
  <2>10. ASSUME NEW i \in 1..Len(requests') PROVE PasteOK(requests'[i], keys', mode')
    <3> DEFINE now == [requests[i] EXCEPT !.settled = FALSE]
    <3>1. requests'[i] = now /\ PasteOK(requests[i], keys, mode)
      BY <1>1, <2>9
    <3>2. DOMAIN requests[i] = {"does", "settled", "press"} /\ requests[i].press \in Typed
          /\ T!CtrlV(requests[i].press)
      BY <3>1 DEF PasteOK
    <3>3. DOMAIN now = {"does", "settled", "press"} /\ now.press = requests[i].press
          /\ now.settled = FALSE
      BY <3>2
    <3> HIDE DEF now
    <3>4. PasteOK(now, keys', mode')
      BY <3>2, <3>3 DEF PasteOK
    <3> QED BY <3>1, <3>4
  <2> QED BY <1>7, <1>8, <2>5, <2>6, <2>8, <2>9, <2>10 DEF TypingState
<1> QED BY <1>9, <1>10, <1>11

LEMMA StepTyping == TypingInv /\ [Next]_vars => TypingInv'
<1> SUFFICES ASSUME TypingInv, [Next]_vars, component' = "typing" PROVE TypingState'
  BY DEF TypingInv
<1>1. CASE UNCHANGED vars
  <2>1. UNCHANGED <<component, typingVars>> /\ TypingState
    BY <1>1 DEF vars, TypingInv
  <2> QED BY <2>1 DEF typingVars, TypingState, KeyOK, PasteOK, T!ReadAsPressed
<1>2. CASE component = "typing" /\ T!Next
  <2>1. TypingState
    BY <1>2 DEF TypingInv
  <2>2. ASSUME NEW press \in T!Presses, T!Press(press) PROVE TypingState'
    BY <2>1, <2>2, TypingPresses
  <2> QED BY <1>2, <2>1, <2>2, TypingReads, TypingPastes, TypingHears DEF T!Next
<1> QED BY <1>1, <1>2 DEF Next

(* Neovim reads every press as the key that was pressed, whatever it and the
   Compose table make of it, and takes Ctrl+V for a paste where it types text
   and only there, but for what it says of a mode too late (core/keys.rs). *)
THEOREM PressesAreRead == Spec => []ReadAsPressed
<1>1. TypingInv => ReadAsPressed
  BY DEF TypingInv, TypingState, ReadAsPressed
<1> QED BY <1>1, InitTyping, StepTyping, PTL DEF Spec
=============================================================================

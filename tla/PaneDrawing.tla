---------------------------- MODULE PaneDrawing -----------------------------
(***************************************************************************)
(* What the dictation pane draws (shell/pane/mod.rs): events from Neovim   *)
(* and from the window change the screen and damage rows of it, and a step *)
(* paints the damaged rows once a frame is whole.                          *)
(*                                                                         *)
(* The window's pixels are the set `stale` of rows that show something     *)
(* else than the screen, the cursor and the notice do.                     *)
(***************************************************************************)
EXTENDS Screen

CONSTANTS
  MaxRows,    \* bound: rows of the window and of the grid
  MaxColumns, \* bound: columns
  Texts,      \* the cells' texts
  MostCells   \* `MAX_CELLS`

PaneAssumption == MaxRows \in Nat \ {0} /\ MaxColumns \in Nat \ {0} /\ MostCells \in Nat

VARIABLES
  screen,     \* Screen
  size,       \* the window's rows and columns
  pending,    \* `pending`: rows damaged since the last frame
  frameReady, \* `frame_ready`
  focused,
  held,       \* whether the last row says that the daemon waits
  stale       \* rows whose pixels differ from what they should show

vars == <<screen, size, pending, frameReady, focused, held, stale>>

Rows == 0..(size.rows - 1)
Sizes == [columns : 1..MaxColumns, rows : 1..MaxRows]

Init ==
  /\ screen = NewScreen /\ size \in Sizes
  /\ pending = NoDamage /\ frameReady = FALSE
  /\ focused = FALSE /\ held = FALSE
  /\ stale = Rows

(* What a row shows: `paint_row` with the cursor and the notice over it. *)
CursorIn(s, sz, row) == s.cursor.row = row /\ s.cursor.column < sz.columns /\ ~s.busy
Picture(s, sz, hasFocus, isHeld, row) ==
  [cells |-> IF row < s.height THEN s.cells[row] ELSE <<>>,
   colours |-> s.colours,
   cursor |-> IF CursorIn(s, sz, row) THEN <<s.cursor.column, s.shape, hasFocus>> ELSE <<>>,
   notice |-> isHeld /\ row = sz.rows - 1]

(* The rows that show something else after this step. *)
Outdated ==
  {row \in Rows : Picture(screen, size, focused, held, row)
                    # Picture(screen', size', focused', held', row)}

-----------------------------------------------------------------------------
(* `draw`, of the rows `damage`, if the frame is whole.  A character whose
   font was not looked up yet stays blank, and its rows are asked for again. *)
Visible(damage) == {row \in damage : row <= Below(size.rows)}

Draw(damage, ready, outdated) ==
  \/ /\ ~ready \/ damage = {}
     /\ pending' = damage /\ frameReady' = FALSE /\ stale' = outdated
  \/ /\ ready /\ damage # {}
     /\ \/ /\ pending' = NoDamage /\ frameReady' = FALSE
           /\ stale' = outdated \ Visible(damage)
        \/ \E row \in Visible(damage) :
             /\ pending' = Visible(damage) /\ frameReady' = TRUE
             /\ stale' = (outdated \ Visible(damage)) \cup {row}

(* The end of a step: what its events left is drawn. *)
Step ==
  /\ frameReady
  /\ Draw(pending, TRUE, stale)
  /\ UNCHANGED <<screen, size, focused, held>>

-----------------------------------------------------------------------------
(* `handle`: a redraw event, a flush, and the window's own events. *)

Redraw(applied) ==
  /\ screen' = applied.screen
  /\ pending' = Union(pending, applied.damage)
  /\ UNCHANGED <<size, frameReady, focused, held>>
  /\ stale' = stale \cup Outdated

Flush ==
  /\ frameReady' = TRUE
  /\ UNCHANGED <<screen, size, pending, focused, held, stale>>

(* `damage`: what the window reports is a whole frame. *)
Damaged(rows) == pending' = Union(pending, rows) /\ frameReady' = TRUE

Expose ==
  /\ Damaged(Rows) /\ stale' = Rows
  /\ UNCHANGED <<screen, size, focused, held>>

SetFocus(focus) ==
  /\ focused' = focus
  /\ Damaged({screen.cursor.row})
  /\ UNCHANGED <<screen, size, held>>
  /\ stale' = stale \cup Outdated

DamagedByResize(sz) == 0..(sz.rows - 1)

(* `resize`: the pixels are gone, and Neovim is told the new grid. *)
Configure(sz) ==
  /\ sz # size /\ size' = sz
  /\ Damaged(DamagedByResize(sz)) /\ stale' = 0..(sz.rows - 1)
  /\ UNCHANGED <<screen, focused, held>>

(* `show_held`: drawn at once. *)
ShowHeld ==
  /\ held' = ~held
  /\ UNCHANGED <<screen, size, focused>>
  /\ Draw(Union(pending, {Below(size.rows)}), TRUE, stale \cup Outdated)

-----------------------------------------------------------------------------
Runs == {<<[text |-> t, highlight |-> 0, repeat |-> n]>> : t \in Texts, n \in 0..MaxColumns}

NeovimDraws ==
  \/ \E w \in 1..MaxColumns, h \in 1..MaxRows : Redraw(GridResize(screen, w, h, MostCells))
  \/ Redraw(GridClear(screen))
  \/ \E row \in 0..MaxRows, column \in 0..MaxColumns, runs \in Runs :
       Redraw(GridLine(screen, row, column, runs))
  \/ \E top, bottom \in 0..MaxRows, rows \in {-2, -1, 1} :
       Redraw(GridScroll(screen, top, bottom, 0, MaxColumns, rows))
  \/ \E row \in 0..Below(screen.height), column \in 0..Below(screen.width) :
       Redraw(GridCursorGoto(screen, row, column))
  \/ \E colours \in 0..1 : Redraw(DefaultColorsSet(screen, colours))
  \/ \E colours \in 0..1 : Redraw(HlAttrDefine(screen, colours))
  \/ \E shape \in 0..1 : Redraw(ModeChange(screen, shape))
  \/ \E busy \in BOOLEAN : Redraw(Busy(screen, busy))

Next ==
  \/ NeovimDraws \/ Flush
  \/ Expose \/ (\E focus \in BOOLEAN : SetFocus(focus)) \/ (\E sz \in Sizes : Configure(sz))
  \/ ShowHeld \/ Step

Spec == Init /\ [][Next]_vars

-----------------------------------------------------------------------------
(* A row of the grid that does not show what it should is damaged, so the next
   frame that is drawn draws it, whatever came in what order. *)
ShownOrPending == {row \in stale : row < screen.height} \subseteq pending
=============================================================================

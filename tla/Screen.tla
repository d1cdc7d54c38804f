------------------------------- MODULE Screen -------------------------------
(***************************************************************************)
(* Neovim's screen as the pane keeps it (core/grid.rs): a grid of cells,   *)
(* the events Neovim changes it by, and the rows each event damages.       *)
(* Rows and columns count from 0, as there; damage is a range of rows.     *)
(***************************************************************************)
EXTENDS Integers, Sequences, SequencesExt

Least(S) == CHOOSE n \in S : \A m \in S : n <= m
Most(S) == CHOOSE n \in S : \A m \in S : m <= n

(* `Damage`. *)
NoDamage == {}
Union(d, e) == IF d = {} \/ e = {} THEN d \cup e ELSE Least(d \cup e)..Most(d \cup e)

BlankCell == [text |-> " ", highlight |-> 0]

BlankCells(width, height) == [row \in 0..(height - 1) |-> [column \in 0..(width - 1) |-> BlankCell]]

NewScreen == [width |-> 0, height |-> 0, cells |-> BlankCells(0, 0),
              cursor |-> [row |-> 0, column |-> 0], busy |-> FALSE,
              colours |-> 0, shape |-> 0]

Whole(s) == 0..(s.height - 1)
InGrid(s, row, column) == row \in 0..(s.height - 1) /\ column \in 0..(s.width - 1)

Changed(s, damage) == [screen |-> s, damage |-> damage]
Same(s) == Changed(s, NoDamage)

AtMost(n, most) == IF n <= most THEN n ELSE most
Below(n) == IF n = 0 THEN 0 ELSE n - 1

(* Every event below is one of grid 1; an event of another grid, or one the
   pane does not know, changes nothing. *)

(* `resize`: what is in both grids stays. *)
GridResize(s, width, height, mostCells) ==
  IF <<width, height>> = <<s.width, s.height>> \/ width * height > mostCells THEN Same(s)
  ELSE LET resized ==
             [s EXCEPT
                !.width = width, !.height = height,
                !.cells = [row \in 0..(height - 1) |-> [column \in 0..(width - 1) |->
                             IF InGrid(s, row, column) THEN s.cells[row][column] ELSE BlankCell]],
                !.cursor = [row |-> AtMost(s.cursor.row, Below(height)),
                            column |-> AtMost(s.cursor.column, Below(width))]]
       IN  Changed(resized, Whole(resized))

GridClear(s) == Changed([s EXCEPT !.cells = BlankCells(s.width, s.height)], Whole(s))

(* `write_line`: runs of cells, each repeated, from a column on; what does not
   fit on the row is dropped. *)
Expanded(runs) ==
  FlattenSeq([i \in DOMAIN runs |->
    [k \in 1..runs[i].repeat |-> [text |-> runs[i].text, highlight |-> runs[i].highlight]]])

GridLine(s, row, column, runs) ==
  LET cells == Expanded(runs)
      Written(c) == IF (c - column) + 1 \in DOMAIN cells THEN cells[(c - column) + 1]
                    ELSE s.cells[row][c]
  IN  IF ~InGrid(s, row, column) THEN Same(s)
      ELSE Changed([s EXCEPT !.cells[row] = [c \in DOMAIN @ |-> Written(c)]], {row})


(* `scroll`: rows of a rectangle move up, or down for `rows` < 0; those they
   uncover keep what they had until lines refill them. *)
GridScroll(s, top, bottomAsked, left, rightAsked, rows) ==
  LET bottom == AtMost(bottomAsked, s.height)
      right == AtMost(rightAsked, s.width)
      Moved(row, column) ==
        /\ row \in top..(bottom - 1) /\ column \in left..(right - 1)
        /\ row + rows \in top..(bottom - 1)
  IN  IF top >= bottom \/ left >= right \/ rows = 0 THEN Same(s)
      ELSE Changed([s EXCEPT !.cells =
                      [row \in DOMAIN @ |-> [column \in DOMAIN @[row] |->
                         IF Moved(row, column) THEN s.cells[row + rows][column]
                         ELSE s.cells[row][column]]]],
                   top..(bottom - 1))

(* Variant: only the row the cursor comes to is damaged. *)
CursorCame(was, row) == {row}
CursorMoved(was, row) == Union({was}, {row})

GridCursorGoto(s, row, column) ==
  Changed([s EXCEPT !.cursor = [row |-> row, column |-> column]],
          CursorMoved(s.cursor.row, row))

(* `default_colors_set`, and `hl_attr_define`, which may change any cell. *)
DefaultColorsSet(s, colours) ==
  IF s.colours = colours THEN Same(s) ELSE Changed([s EXCEPT !.colours = colours], Whole(s))
HlAttrDefine(s, colours) == Changed([s EXCEPT !.colours = colours], Whole(s))

(* `mode_info_set` and `mode_change`, which change the cursor's shape. *)
ModeChange(s, shape) == Changed([s EXCEPT !.shape = shape], {s.cursor.row})
Busy(s, busy) == Changed([s EXCEPT !.busy = busy], {s.cursor.row})
=============================================================================

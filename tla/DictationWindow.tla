--------------------------- MODULE DictationWindow ---------------------------
(***************************************************************************)
(* The windows that show the dictation buffer (lua/spokenpad.lua): the     *)
(* preview drawn after the text, the views that follow it, and the file    *)
(* that what is typed there is saved to.                                   *)
(*                                                                         *)
(* The buffer is `rows` rows of text, each a line, and the preview some    *)
(* rows more below the last.  A view is the window's height, its first row *)
(* and its cursor's row.  Neovim draws between two calls of the Lua, and   *)
(* moves a view whose cursor is out of sight (external).                   *)
(***************************************************************************)
EXTENDS Integers, FiniteSets

CONSTANTS
  MaxWindows,  \* bound: windows
  Heights,     \* how high a window may be
  MaxRows,     \* bound: rows of text
  MaxPreview   \* bound: rows the preview's words take

WindowAssumption ==
  /\ MaxWindows \in Nat \ {0} /\ MaxRows \in Nat \ {0} /\ MaxPreview \in Nat
  /\ Heights \subseteq Nat \ {0}

Windows == 1..MaxWindows

VARIABLES
  rows,     \* rows of text
  preview,  \* rows the preview's words would take, 0 without one
  shows,    \* the windows that show the buffer
  view,     \* each window's view
  left,     \* `preview_views`
  mode,     \* "normal" or "insert"
  current,  \* the window with the cursor
  save,     \* what is typed and not written, and what will write it
  away      \* the model's own: windows whose reader went elsewhere

vars == <<rows, preview, shows, view, left, mode, current, save, away>>
textVars == <<rows, save>>
userVars == <<mode, current>>

(* A window this preview was not drawn in yet, one that was left alone. *)
Fresh == [height |-> 0, top |-> 0, cursor |-> 0]
Elsewhere == [height |-> -1, top |-> 0, cursor |-> 0]

Saved == [unsaved |-> FALSE, changed |-> FALSE, timer |-> FALSE, failed |-> FALSE]

Bigger(a, b) == IF a < b THEN b ELSE a
Lesser(a, b) == IF a < b THEN a ELSE b

Bottom(v) == v.top + v.height - 1

(* Neovim keeps the cursor in sight. *)
Redrawn(v) ==
  [v EXCEPT !.top = IF v.cursor < v.top THEN v.cursor
                    ELSE IF v.cursor > Bottom(v) THEN v.cursor - v.height + 1
                    ELSE v.top]

Init ==
  /\ rows = 1 /\ preview = 0 /\ shows = {1}
  /\ \E h \in Heights : view = [w \in Windows |-> [height |-> h, top |-> 1, cursor |-> 1]]
  /\ left = [w \in Windows |-> Fresh]
  /\ mode = "normal" /\ current = 1
  /\ save = Saved /\ away = {}

-----------------------------------------------------------------------------
(* Following: of the views `views`, each before it is drawn again. *)

TextEndIsVisible(v, last) == v.cursor = last /\ Bottom(v) >= last

(* Across a resize only the cursor tells a reader who moved. *)
SameView(was, is) ==
  /\ was.cursor = is.cursor
  /\ was.height # is.height \/ was.top = is.top

(* Variant: where the view is decides, wherever the reader went before. *)
FollowsAtEnd(w, v) == TextEndIsVisible(v, rows)

Follows(w, v) ==
  IF left[w] = Elsewhere THEN FALSE
  ELSE IF left[w] # Fresh THEN SameView(left[w], v)
  ELSE TextEndIsVisible(v, rows)

Typing(w) == w = current /\ mode = "insert"

(* `position_at_end`: the preview, or the text, ends at the window's bottom. *)
PositionAtEnd(w, v, last, drawn) ==
  [v EXCEPT !.top = Bigger(1, last + drawn - v.height + 1),
            !.cursor = IF Typing(w) THEN @ ELSE last]

(* The first window decides how much of the preview is drawn: what fits below
   the cursor's row, a row at least. *)
Drawn(words, views) ==
  IF shows = {} THEN words
  ELSE LET first == CHOOSE w \in shows : \A x \in shows : w <= x
       IN  Lesser(words, Bigger(1, views[first].height - 1))

ForgetViews == left' = [w \in Windows |-> Fresh]

(* `render_preview`.  With the preview, whoever is at the end is back, and
   nobody else; a window too low for the rows the first one has is not followed
   in: Neovim scrolls it back to its cursor. *)
TooLow(words, views) == {w \in shows : Drawn(words, views) >= views[w].height}

RenderPreview(words, views, gone) ==
  LET follows(w) == w \in shows /\ Follows(w, views[w])
      placed == [w \in Windows |->
                   IF follows(w) THEN PositionAtEnd(w, views[w], rows, Drawn(words, views))
                   ELSE views[w]]
  IN  IF words = 0
        THEN /\ view' = views /\ ForgetViews
             /\ away' = {w \in shows : ~TextEndIsVisible(views[w], rows)}
        ELSE /\ away' = gone \cup TooLow(words, views)
             /\ view' = [w \in Windows |-> Redrawn(placed[w])]
             /\ left' = [w \in Windows |-> IF w \notin shows THEN Fresh
                                           ELSE IF follows(w) THEN placed[w] ELSE Elsewhere]

-----------------------------------------------------------------------------
(* What the daemon sends. *)

AtTextEnd(w) == TextEndIsVisible(view[w], rows)

(* `show`, of a snapshot whose preview changed. *)
Push(words) ==
  /\ words # preview
  /\ preview' = words
  /\ RenderPreview(words, view, away)
  /\ UNCHANGED <<textVars, shows, userVars>>

(* `transactional_append`: text of `more` rows, and all that was typed, is
   written, the preview goes, and the views that followed go to the end. *)
AppendText(more) ==
  /\ rows + more <= MaxRows
  /\ rows' = rows + more /\ preview' = 0 /\ ForgetViews
  /\ view' = [w \in Windows |->
                IF w \in shows /\ Follows(w, view[w])
                  THEN Redrawn(PositionAtEnd(w, view[w], rows + more, 0))
                  ELSE view[w]]
  /\ save' = [save EXCEPT !.unsaved = FALSE]
  /\ away' = {w \in shows : (w \in away \/ Typing(w)) /\ ~TextEndIsVisible(view'[w], rows')}
  /\ UNCHANGED <<shows, userVars>>

(* A write that fails leaves the buffer and the preview as they were. *)
AppendFails ==
  /\ RenderPreview(preview, view, away)
  /\ UNCHANGED <<textVars, preview, shows, userVars>>

CarriedOver(s) == s

(* The daemon attached again: the chunk is loaded, then `setup` runs. *)
Reload ==
  /\ save' = CarriedOver(save)
  /\ RenderPreview(preview, view, away)
  /\ UNCHANGED <<rows, preview, shows, userVars>>

-----------------------------------------------------------------------------
(* What happens in the window. *)

(* Neovim fits the view to its new height, and `WinResized` lays the preview
   out again. *)
Resize(w, height) ==
  LET fitted == Redrawn([view[w] EXCEPT !.height = height])
  IN  /\ w \in shows /\ height # view[w].height
      /\ RenderPreview(preview, [view EXCEPT ![w] = fitted],
                       IF preview > 0 /\ Follows(w, fitted) THEN away \ {w} ELSE away)
      /\ UNCHANGED <<textVars, preview, shows, userVars>>

(* A reader who now looks at `v` went elsewhere. *)
Went(w, v) == IF left[w] = Fresh THEN ~TextEndIsVisible(v, rows) ELSE v # left[w]

(* A reader scrolls or moves the cursor. *)
Move(w, top, cursor) ==
  LET moved == [view[w] EXCEPT !.top = top, !.cursor = cursor]
  IN  /\ w \in shows /\ moved # view[w] /\ moved = Redrawn(moved)
      /\ w = current \/ cursor = view[w].cursor
      /\ view' = [view EXCEPT ![w] = moved]
      /\ away' = IF Went(w, moved) THEN away \cup {w} ELSE away \ {w}
      /\ UNCHANGED <<textVars, preview, shows, left, userVars>>

(* `:edit` of another file in a window, and back; the buffer's cursor in it
   may be anywhere.  Leaving writes what was typed (`BufLeave`). *)
Hide(w) ==
  /\ w \in shows /\ mode = "normal" /\ w = current
  /\ shows' = shows \ {w}
  /\ \/ save' = Saved
     \/ save.unsaved /\ save' = [save EXCEPT !.changed = FALSE, !.failed = TRUE]
  /\ away' = away \ {w}
  /\ UNCHANGED <<rows, preview, view, left, userVars>>

Show(w, cursor) ==
  LET v == Redrawn([view[w] EXCEPT !.cursor = cursor])
  IN  /\ w \notin shows /\ mode = "normal"
      /\ shows' = shows \cup {w} /\ current' = w
      /\ view' = [view EXCEPT ![w] = v]
      /\ away' = IF Went(w, v) THEN away \cup {w} ELSE away
      /\ UNCHANGED <<textVars, preview, left, mode>>

-----------------------------------------------------------------------------
(* What is typed, and what saves it. *)

(* `save`: a write that fails says nothing and leaves it unsaved. *)
Written(s) ==
  \/ save' = [s EXCEPT !.unsaved = FALSE, !.failed = FALSE]
  \/ s.unsaved /\ save' = [s EXCEPT !.failed = TRUE]

Insert == mode = "normal" /\ current \in shows /\ mode' = "insert"

StartTyping ==
  /\ Insert
  /\ UNCHANGED <<textVars, preview, shows, view, left, current, away>>

(* A key in Insert mode, which may open a row at the end: `save_soon`.  It
   moves the cursor's column, which a view leaves out: the view is no longer
   the one the preview left. *)
Type(more) ==
  LET v == Redrawn([view[current] EXCEPT !.cursor = rows + more])
  IN  /\ mode = "insert" /\ view[current].cursor = rows /\ rows + more <= MaxRows
      /\ rows' = rows + more
      /\ view' = [view EXCEPT ![current] = v]
      /\ save' = [save EXCEPT !.unsaved = TRUE, !.timer = TRUE, !.failed = FALSE]
      /\ left' = [left EXCEPT ![current] = IF @ = Fresh THEN Fresh ELSE Elsewhere]
      /\ away' = away \cup {w \in shows : IF w = current THEN left[w] # Fresh
                                         ELSE left[w] = Fresh /\ more > 0}
      /\ UNCHANGED <<preview, shows, userVars>>

StopTyping ==
  /\ mode = "insert" /\ mode' = "normal"
  /\ Written(save)
  /\ UNCHANGED <<rows, preview, shows, view, left, current, away>>

(* A change in Normal mode, which `TextChanged` notices once the keys typed
   ahead have run. *)
Edit ==
  /\ mode = "normal" /\ current \in shows
  /\ save' = [save EXCEPT !.unsaved = TRUE, !.changed = TRUE, !.failed = FALSE]
  /\ UNCHANGED <<rows, preview, shows, view, left, userVars, away>>

TextChanged ==
  /\ save.changed
  /\ Written([save EXCEPT !.changed = FALSE])
  /\ UNCHANGED <<rows, preview, shows, view, left, userVars, away>>

TimerEnds ==
  /\ save.timer
  /\ Written([save EXCEPT !.timer = FALSE])
  /\ UNCHANGED <<rows, preview, shows, view, left, userVars, away>>

-----------------------------------------------------------------------------
Daemon == (\E n \in 0..MaxPreview : Push(n)) \/ (\E n \in 0..1 : AppendText(n)) \/ AppendFails
Resized == \E w \in Windows, h \in Heights : Resize(w, h)

Next ==
  \/ Daemon \/ Reload
  \/ Resized
  \/ \E w \in Windows, top, cursor \in 1..rows : Move(w, top, cursor)
  \/ \E w \in Windows : Hide(w) \/ \E cursor \in 1..rows : Show(w, cursor)
  \/ StartTyping \/ (\E n \in 0..1 : Type(n)) \/ StopTyping
  \/ Edit \/ TextChanged \/ TimerEnds

Spec == Init /\ [][Next]_vars

-----------------------------------------------------------------------------
(* Properties. *)

(* Nothing the daemon sends moves the view of a reader who went elsewhere. *)
ReaderKeepsPlace == Daemon => \A w \in away \cap shows : view'[w] = view[w]

(* Whatever is pushed, appended or resized, a reader at the end, who neither
   types nor went elsewhere, sees the end of the text and, in the window it is
   laid out for, that of the preview. *)
SeesEnd(w) ==
  /\ AtTextEnd(w)
  /\ preview > 0 /\ (\A x \in shows : w <= x) =>
       Bottom(view[w]) >= rows + Drawn(preview, view)

FollowerSeesEnd ==
  Daemon \/ Resized =>
    \A w \in shows \ (away \cup away') : AtTextEnd(w) /\ ~Typing(w) => SeesEnd(w)'


(* What is typed is written, or is about to be, or a write failed since. *)
TypingIsSaved == save.unsaved => save.changed \/ save.timer \/ save.failed
=============================================================================

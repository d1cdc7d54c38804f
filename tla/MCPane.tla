------------------------------- MODULE MCPane --------------------------------
(****************************************************************************)
(* The dictation pane on small instances: how its window opens (Opening),   *)
(* what it draws of the grid (PaneDrawing) and of characters the font lacks *)
(* (Glyphs), what it makes of a key (Typing), what Neovim shows in it       *)
(* (DictationWindow), and where its text lands (Landing). They share no     *)
(* state, so a behaviour is of one of them.                                 *)
(****************************************************************************)
EXTENDS Integers, Sequences, FiniteSets

CONSTANTS
  BaseDpi, GapPixels, FramePixels, MarginPixels,          \* Opening
  Desktops, Frames, Pointers, MaxOpens, MaxChanges,
  GridRows, GridColumns, Texts, MostCells,                \* PaneDrawing
  MaxCharacter, Fonts, Budget, MaxCost,                   \* Glyphs
  MaxPresses, HasCompose                                  \* Typing

Rectangle(x, y, width, height) == [x |-> x, y |-> y, width |-> width, height |-> height]
Sides(l, r, t, b) == [left |-> l, right |-> r, top |-> t, bottom |-> b]

Screens == <<[rect |-> Rectangle(0, 0, 9, 8), primary |-> FALSE],
             [rect |-> Rectangle(9, 1, 7, 6), primary |-> TRUE]>>
Plain == [manager |-> "proven", named |-> TRUE, discovered |-> "none", swaysock |-> "none",
          pointed |-> TRUE, monitors |-> Screens, root |-> [width |-> 16, height |-> 8],
          layout |-> "floating", dpi |-> 2, gravity |-> TRUE, tiles |-> FALSE,
          cells |-> [columns |-> 2, lines |-> 1], cell |-> [width |-> 1, height |-> 1]]
Sway == [Plain EXCEPT !.manager = "sway", !.pointed = FALSE]

(* Window managers that place a window or its frame, ones that tile, ones
   nothing is proven of, and sway with every socket it may be found by. *)
SomeDesktops ==
  {[Plain EXCEPT !.gravity = g, !.dpi = d] : g \in BOOLEAN, d \in {2, 3}}
  \cup {[Plain EXCEPT !.cells = [columns |-> 9, lines |-> 9]],
        [Plain EXCEPT !.monitors = <<[rect |-> Rectangle(0, 0, 0, 0), primary |-> FALSE]>>]}
  \cup {[Plain EXCEPT !.layout = "tiled", !.tiles = TRUE],
        [Plain EXCEPT !.manager = "unproven", !.layout = "tiled", !.pointed = FALSE],
        [Sway EXCEPT !.manager = "wlroots", !.discovered = "other"]}
  \cup {[Sway EXCEPT !.discovered = d, !.swaysock = s, !.named = n] :
          d \in {"ours", "other", "none"}, s \in {"ours", "other", "none"}, n \in BOOLEAN}
SomeFrames == {Sides(0, 0, 0, 0), Sides(1, 1, 1, 1), Sides(0, 0, 2, 0), Sides(1, 0, 1, 0)}
Everywhere == {[x |-> x, y |-> y] : x \in 0..16, y \in 0..8}
OneText == {"a"}

VARIABLES
  component, \* which of them this behaviour is of; it does not change
  desk, rule, empty, since, step, target, window,        \* Opening
  frame, taken, opens, changes,
  screen, size, pending, frameReady, focused, held,      \* PaneDrawing
  stale,
  covers, characters, todo, cached, fallback, guess,     \* Glyphs
  loaded, spent, deferred, before,
  pressed, compose, known, mode, keys, requests,         \* Typing
  reports, done,
  rows, preview, shows, view, left, editing, current,    \* DictationWindow
  save, away,
  buffer, disk, wide, place, appends                     \* Landing

O == INSTANCE Opening WITH focused <- taken
D == INSTANCE PaneDrawing WITH MaxRows <- GridRows, MaxColumns <- GridColumns
G == INSTANCE Glyphs WITH screen <- characters
T == INSTANCE Typing
W == INSTANCE DictationWindow WITH
  MaxWindows <- 2, Heights <- {2, 3}, MaxRows <- 2, MaxPreview <- 2,
  mode <- editing
A == INSTANCE Landing WITH
  MaxFile <- 3, MaxText <- 3, MaxAppends <- 1, Widths <- 2..4

openingVars == <<desk, rule, empty, since, step, target, window, frame, taken,
  opens, changes>>
drawingVars == <<screen, size, pending, frameReady, focused, held, stale>>
glyphsVars == <<covers, characters, todo, cached, fallback, guess, loaded,
  spent, deferred, before>>
typingVars == <<pressed, compose, known, mode, keys, requests, reports, done>>
windowVars == <<rows, preview, shows, view, left, editing, current, save, away>>
landingVars == <<buffer, disk, wide, place, appends>>

ASSUME PaneAssumptions ==
  /\ O!GeometryAssumption /\ O!OpeningAssumption /\ D!PaneAssumption
  /\ G!GlyphsAssumption /\ T!TypingAssumption /\ W!WindowAssumption
  /\ A!LandingAssumption

(* The variables of the others are not used. *)
NoOpening == desk = 0 /\ rule = 0 /\ empty = 0 /\ since = 0 /\ step = 0 /\
  target = 0 /\ window = 0 /\ frame = 0 /\ taken = 0 /\ opens = 0 /\
  changes = 0
NoDrawing == screen = 0 /\ size = 0 /\ pending = 0 /\ frameReady = 0 /\
  focused = 0 /\ held = 0 /\ stale = 0
NoGlyphs == covers = 0 /\ characters = 0 /\ todo = 0 /\ cached = 0 /\
  fallback = 0 /\ guess = 0 /\ loaded = 0 /\ spent = 0 /\ deferred = 0 /\
  before = 0
NoTyping == pressed = 0 /\ compose = 0 /\ known = 0 /\ mode = 0 /\ keys = 0 /\
  requests = 0 /\ reports = 0 /\ done = 0
NoWindow == rows = 0 /\ preview = 0 /\ shows = 0 /\ view = 0 /\ left = 0 /\
  editing = 0 /\ current = 0 /\ save = 0 /\ away = 0
NoLanding == buffer = 0 /\ disk = 0 /\ wide = 0 /\ place = 0 /\ appends = 0

Init ==
  \/ component = "opening" /\ O!Init /\ NoDrawing /\ NoGlyphs /\ NoTyping /\
     NoWindow /\ NoLanding
  \/ component = "drawing" /\ D!Init /\ NoOpening /\ NoGlyphs /\ NoTyping /\
     NoWindow /\ NoLanding
  \/ component = "glyphs" /\ G!Init /\ NoOpening /\ NoDrawing /\ NoTyping /\
     NoWindow /\ NoLanding
  \/ component = "typing" /\ T!Init /\ NoOpening /\ NoDrawing /\ NoGlyphs /\
     NoWindow /\ NoLanding
  \/ component = "window" /\ W!Init /\ NoOpening /\ NoDrawing /\ NoGlyphs /\
     NoTyping /\ NoLanding
  \/ component = "landing" /\ A!Init /\ NoOpening /\ NoDrawing /\ NoGlyphs /\
     NoTyping /\ NoWindow

Next ==
  \/ component = "opening" /\ O!Next /\ UNCHANGED <<component, drawingVars,
     glyphsVars, typingVars, windowVars, landingVars>>
  \/ component = "drawing" /\ D!Next /\ UNCHANGED <<component, openingVars,
     glyphsVars, typingVars, windowVars, landingVars>>
  \/ component = "glyphs" /\ G!Next /\ UNCHANGED <<component, openingVars,
     drawingVars, typingVars, windowVars, landingVars>>
  \/ component = "typing" /\ T!Next /\ UNCHANGED <<component, openingVars,
     drawingVars, glyphsVars, windowVars, landingVars>>
  \/ component = "window" /\ W!Next /\ UNCHANGED <<component, openingVars,
     drawingVars, glyphsVars, typingVars, landingVars>>
  \/ component = "landing" /\ A!Next /\ UNCHANGED <<component, openingVars,
     drawingVars, glyphsVars, typingVars, windowVars>>

vars == <<component, openingVars, drawingVars, glyphsVars, typingVars, windowVars, landingVars>>

Spec == Init /\ [][Next]_vars

-----------------------------------------------------------------------------
(* The window manager never gives the pane the focus, but on a sway whose
   rules or workspaces changed meanwhile (`refuse_pane_focus`). *)
FocusIsLeft == component = "opening" => O!FocusIsLeft

(* The frame keeps the gap from the pointer, on the pointer's monitor,
   wherever it has the room (`beside`, `place`). *)
GapIsKept == component = "opening" => O!GapIsKept

(* A row that does not show what it should is drawn by the next frame. *)
ShownOrPending == component = "drawing" => D!ShownOrPending

(* A frame that leaves a character out settles another (`FALLBACK_BUDGET`). *)
Converges == component = "glyphs" => G!Converges

(* Neovim reads every press as the key that was pressed. *)
ReadAsPressed == component = "typing" => T!ReadAsPressed

(* A text comes to stand where its preview was drawn, and in a file as in a
   buffer (spokenpad.lua, shell/nvim/passage.rs). *)
LandsAsShown == component = "landing" => A!LandsAsShown

(* Nothing the daemon sends moves the view of a reader who went elsewhere,
   one at the end follows it, and what is typed stays due to be written
   (spokenpad.lua). *)
WindowServesItsUser ==
  [][component = "window" =>
       W!ReaderKeepsPlace /\ W!FollowerSeesEnd /\ W!TypingIsSaved']_vars
=============================================================================

------------------------------ MODULE Opening -------------------------------
(***************************************************************************)
(* A pane's window comes up on the user's desktop: shell/nvim/mod.rs       *)
(* (try_open_pane), shell/wm.rs and the windows of shell/pane.  The window *)
(* must neither take the keyboard focus nor come under the pointer.        *)
(*                                                                         *)
(* The desktop is not spokenpad's: a window manager frames, moves, sizes   *)
(* and focuses windows, sway forgets its rules when it reloads, and the    *)
(* user changes workspaces meanwhile.                                      *)
(***************************************************************************)
EXTENDS Geometry

CONSTANTS
  Desktops,   \* the desktops (Desktop), one of which runs
  Frames,     \* the extents a window manager's frame may have
  Pointers,   \* where the pointer may be
  MaxOpens,   \* bound: windows opened
  MaxChanges  \* bound: reloads and changes of the workspace

OpeningAssumption == MaxOpens \in Nat \ {0} /\ MaxChanges \in Nat

VARIABLES
  desk,     \* the desktop
  rule,     \* sway holds the pane's `no_focus` rule
  empty,    \* the focused workspace holds no window
  since,    \* what changed on the desktop since spokenpad asked for it
  step,     \* how far the opening is
  target,   \* `Target`: the monitor and the pointer
  window,   \* the window, in root coordinates
  frame,    \* its frame
  focused,  \* the window manager focused the window
  opens, changes  \* windows opened, changes made

opening == <<step, target, window, frame, focused, opens>>
vars == <<desk, rule, empty, since, opening, changes>>

(* `manager` is the kind of window manager, `named` whether the X server
   tells its process.  Its IPC sockets, in the runtime directory and in
   SWAYSOCK, are this sway's, another process's, or not there.  `gravity` is
   whether it heeds a window's gravity where it places it first. *)
Desktop ==
  [manager : {"sway", "wlroots", "proven", "unproven"}, named : BOOLEAN,
   discovered : {"ours", "other", "none"}, swaysock : {"ours", "other", "none"},
   pointed : BOOLEAN, root : [width : Nat, height : Nat],
   monitors : Seq([rect : [x : Int, y : Int, width : Nat, height : Nat], primary : BOOLEAN]),
   layout : {"floating", "tiled"}, dpi : Nat, gravity : BOOLEAN, tiles : BOOLEAN,
   cells : [columns : Nat, lines : Nat], cell : [width : Nat, height : Nat]]

NoTarget == [monitor |-> Rect(0, 0, 0, 0), pointer |-> {}]
NoWindow == Rect(0, 0, 0, 0)

Init ==
  /\ desk \in Desktops
  /\ rule = FALSE /\ empty \in BOOLEAN /\ since = {}
  /\ step = "closed" /\ target = NoTarget /\ window = NoWindow /\ frame = NoFrame
  /\ focused = FALSE /\ opens = 0 /\ changes = 0

Goes(from, to) == step = from /\ step' = to
Fails == /\ step' = "closed" /\ target' = NoTarget
         /\ UNCHANGED <<desk, rule, empty, since, window, frame, focused, opens, changes>>

-----------------------------------------------------------------------------
(* Before the window. *)

(* `monitors`: one that is off has no pixels. *)
Lit == SelectSeq(desk.monitors, LAMBDA m : m.rect.width > 0 /\ m.rect.height > 0)

(* `outputs`: without a monitor there is still the root window. *)
Outputs == IF Lit # <<>> THEN Lit
           ELSE <<[rect |-> Rect(0, 0, desk.root.width, desk.root.height), primary |-> TRUE]>>

(* `pointer`.  On Wayland it is not asked for; elsewhere it may be on another
   screen, which is no answer either. *)
PointerSeen == {{}} \cup (IF desk.pointed THEN {{at} : at \in Pointers} ELSE {})

(* `pane_target`. *)
Measures ==
  /\ Goes("closed", "measured") /\ opens < MaxOpens
  /\ opens' = opens + 1
  /\ \E pointer \in PointerSeen :
       target' = [monitor |-> PickOutput(Outputs, pointer), pointer |-> pointer]
  /\ UNCHANGED <<desk, rule, empty, since, window, frame, focused, changes>>

IsWlroots == desk.manager \in {"sway", "wlroots"}

(* Any window manager but a wlroots one keeps the pane unfocused by itself. *)
NeedsNoRule ==
  /\ Goes("measured", "allowed") /\ ~IsWlroots
  /\ since' = {}
  /\ UNCHANGED <<desk, rule, empty, target, window, frame, focused, opens, changes>>

(* `Wm::of_process`: a socket counts if this sway listens on it. *)
AnySocket(socket) == socket # "none"
OfProcess(socket) == socket = "ours"

(* Where the rule goes: the first socket that counts. *)
Sway == IF OfProcess(desk.discovered) THEN desk.discovered ELSE desk.swaysock
SwayFound == desk.manager = "sway" /\ desk.named /\ OfProcess(Sway)

NotAllowed == step = "measured" /\ IsWlroots /\ ~SwayFound /\ Fails

(* `refuse_pane_focus`: the rule, which only this display's sway heeds. *)
AddsRule ==
  /\ Goes("measured", "ruled") /\ IsWlroots /\ SwayFound
  /\ rule' = (rule \/ Sway = "ours")
  /\ since' = {}
  /\ UNCHANGED <<desk, empty, target, window, frame, focused, opens, changes>>
RuleRefused == step = "measured" /\ IsWlroots /\ SwayFound /\ Fails

(* `ensure_workspace_holds_a_window`. *)
SeesWindows ==
  /\ Goes("ruled", "allowed") /\ ~empty
  /\ UNCHANGED <<desk, rule, empty, since, target, window, frame, focused, opens, changes>>
SeesNoWindow == step = "ruled" /\ empty /\ Fails

-----------------------------------------------------------------------------
(* The window. *)

(* `layout_under`. *)
LayoutUnder(asked) ==
  IF asked = "tiled" /\ desk.manager \notin {"sway", "proven"} THEN "floating" ELSE asked

(* `set_properties`: what the window says of itself before it is mapped. *)
Properties == [type |-> IF LayoutUnder(desk.layout) = "tiled" THEN "normal" ELSE "utility",
               gravity |-> "static"]

Size ==
  LET margin == Margin(desk.dpi)
  IN InPixels(Fit(desk.cells, target.monitor, desk.cell, margin), desk.cell, margin)
Gap == Scaled(GapPixels, desk.dpi)

(* `Pane::open`: the window, unmapped, with room left for any frame. *)
Creates ==
  /\ Goes("allowed", "created")
  /\ window' = Placement(target.monitor, target.pointer, Gap, Size, Assumed(desk.dpi))
  /\ UNCHANGED <<desk, rule, empty, since, target, frame, focused, opens, changes>>

(* The rest of the open failed; the pane is dropped. *)
OpenFails == step \in {"allowed", "created"} /\ Fails

(* External: whether the window manager focuses the window it maps. *)
TakesFocus ==
  CASE desk.manager = "sway" -> ~rule \/ empty
    [] desk.manager = "wlroots" -> TRUE
    [] desk.manager = "unproven" -> Properties.type = "normal"
    [] OTHER -> FALSE

(* External: a window manager frames the window and shows it.  One that
   tiles it chooses where it goes and how large it is; one that heeds the
   gravity leaves a static window where it is, others put the frame there. *)
Shows(f) ==
  /\ frame' = f
  /\ window' = IF desk.tiles THEN Rect(0, 0, Size.width + 1, Size.height)
               ELSE IF desk.gravity /\ Properties.gravity = "static" THEN window
               ELSE [window EXCEPT !.x = @ + f.left, !.y = @ + f.top]
  /\ focused' = TakesFocus

(* `Pane::show`: the window is mapped. *)
Maps ==
  /\ Goes("created", "mapped")
  /\ \E f \in Frames : Shows(f)
  /\ empty' = FALSE
  /\ UNCHANGED <<desk, rule, since, target, opens, changes>>

(* Variant: the window is placed again as if it had no frame. *)
MovedBare(f) == Placement(target.monitor, target.pointer, Gap, Size, NoFrame)

Moved(f) == Placement(target.monitor, target.pointer, Gap, Size, f)

(* `framed`: how far the window's topmost parent reaches past it. *)
Framed == Between(window, Outer(window, frame))

(* `frame_at`: the window is placed again, by its frame.  A window whose size is not the one it asked for is left where it is. *)
FrameAt ==
  /\ Goes("mapped", "placed")
  /\ window' = IF [width |-> window.width, height |-> window.height] # Size THEN window
               ELSE Moved(Framed)
  /\ UNCHANGED <<desk, rule, empty, since, target, frame, focused, opens, changes>>

(* It was not viewable in time, or the X server did not answer. *)
FrameNotSeen ==
  /\ Goes("mapped", "left")
  /\ UNCHANGED <<desk, rule, empty, since, target, window, frame, focused, opens, changes>>

(* The pane is closed. *)
Closes ==
  /\ step \in {"placed", "left"} /\ step' = "closed"
  /\ target' = NoTarget /\ window' = NoWindow /\ frame' = NoFrame /\ focused' = FALSE
  /\ empty' \in BOOLEAN
  /\ UNCHANGED <<desk, rule, since, opens, changes>>

-----------------------------------------------------------------------------
(* External: what the user does meanwhile. *)

Changing == changes < MaxChanges /\ changes' = changes + 1
            /\ UNCHANGED <<desk, opening>>
Reloads == Changing /\ rule /\ rule' = FALSE /\ since' = since \cup {"reload"} /\ UNCHANGED empty
SwitchesWorkspace ==
  /\ Changing /\ step \notin {"mapped", "placed", "left"}
  /\ empty' = ~empty
  /\ since' = IF step = "allowed" \/ step = "created" THEN since \cup {"workspace"} ELSE since
  /\ UNCHANGED rule

Opener == \/ Measures \/ NeedsNoRule \/ NotAllowed \/ AddsRule \/ RuleRefused
          \/ SeesWindows \/ SeesNoWindow \/ Creates \/ OpenFails
          \/ Maps \/ FrameAt \/ FrameNotSeen \/ Closes
User == Reloads \/ SwitchesWorkspace
Next == Opener \/ User
Spec == Init /\ [][Next]_vars

-----------------------------------------------------------------------------
(* Properties. *)

(* The window manager never focuses the pane: not on sway, whose rules and
   workspaces change behind spokenpad's back, unless one did between the
   question and the map; and no window opens where nothing is proven. *)
FocusIsLeft == focused => since # {}

(* How far the pixel `at` is from the span of `size` at `start`. *)
Distance(start, size, at) == Larger(start - at, at - (start + size - 1))

Away(rect, at) == \/ Distance(rect.x, rect.width, at.x) >= Gap
                  \/ Distance(rect.y, rect.height, at.y) >= Gap

(* Whether a span of `size` fits on an axis the gap away from the pointer. *)
HasRoom(start, extent, size, at) ==
  \E origin \in start..(start + extent - size) : Distance(origin, size, at) >= Gap

Inside(rect, output) ==
  /\ rect.x >= output.x /\ rect.x + rect.width <= output.x + output.width
  /\ rect.y >= output.y /\ rect.y + rect.height <= output.y + output.height

(* Wherever the monitor has room for the frame and the gap beside the
   pointer, on either axis, the frame the window manager drew keeps the gap
   from the pointer and stays on the monitor: from the moment it is mapped
   where there is room for the largest frame, and once it is placed by its
   own frame wherever there is room for that.  Where there is no room, the
   window placed by its frame stays on the monitor. *)
GapIsKept ==
  \A at \in target.pointer :
    LET output == target.monitor
        outer == Outer(window, IF step = "placed" THEN frame ELSE Assumed(desk.dpi))
        real == Outer(window, frame)
        room == \/ HasRoom(output.x, output.width, outer.width, at.x)
                \/ HasRoom(output.y, output.height, outer.height, at.y)
        fits == outer.width <= output.width /\ outer.height <= output.height
    IN step \in {"mapped", "placed", "left"} /\ ~desk.tiles /\ Covers(output, at)
       => /\ room => Away(real, at)
          /\ room /\ fits => Inside(real, output)
          /\ ~room /\ step = "placed" => Inside(window, output)
=============================================================================

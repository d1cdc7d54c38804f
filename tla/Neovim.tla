------------------------------- MODULE Neovim -------------------------------
(***************************************************************************)
(* One dictation editor: a Neovim process with spokenpad.lua in it, as the *)
(* requests the daemon sends it change it.  Neovim runs one request at a   *)
(* time, in the order they arrived; a request whose connection was dropped *)
(* runs or is discarded (external: Neovim's own loop).                     *)
(*                                                                         *)
(* An editor has a startup file, the buffers it has loaded, the buffer a   *)
(* session pinned (`Spokenpad.buf`), the append it ran last and the words  *)
(* its preview shows.                                                      *)
(***************************************************************************)
EXTENDS Passage

(* What an editor goes through: no process yet, not listening, listening
   before it ran the `--cmd` that sets its marker and has its UI, ready,
   gone. *)
Stages == {"none", "starting", "bare", "up", "dead"}

NoPreview == [words |-> {}, at |-> "new"]

NoEditor ==
  [st |-> "none", kind |-> "none", marker |-> None, start |-> None,
   pinned |-> None, loaded |-> {}, text |-> [f \in Files |-> <<>>],
   last |-> <<None, None>>, preview |-> NoPreview, hang |-> "no",
   inbox |-> <<>>]

(* kind: "pane", "user" (`spokenpad editor`) or "left" (by `:restart`). *)
Launched(kind, marker, file) ==
  [NoEditor EXCEPT !.st = "starting", !.kind = kind, !.marker = marker, !.start = file]

(* It reads the file it was started on. *)
Ready(e, fs) ==
  [e EXCEPT !.st = "up", !.loaded = {e.start},
            !.text[e.start] = IF e.start \in fs.there THEN fs.holds[e.start] ELSE <<>>]

Exited(e) == [NoEditor EXCEPT !.st = "dead", !.kind = e.kind, !.marker = e.marker]

Live(e) == e.st \in {"bare", "up"}
HasUI(e) == e.st = "up"

Pinned(e) == IF e.pinned \in e.loaded THEN e.pinned ELSE None
Startup(e) == IF e.start \in e.loaded THEN e.start ELSE None

-----------------------------------------------------------------------------
(* The requests.  `file` and `text` are None where they say nothing. *)

Request(op, file, text, continued) ==
  [op |-> op, file |-> file, text |-> text, continued |-> continued,
   words |-> {}, orphan |-> FALSE]

QueryRequest == Request("query", None, None, FALSE)
OpenRequest(file) == Request("open", file, None, FALSE)
SetupRequest(file) == Request("setup", file, None, FALSE)
AppendRequest(text, continued) == Request("append", None, text, continued)
CopyRequest == Request("copy", None, None, FALSE)
QuitRequest == Request("quit", None, None, FALSE)
(* `continued` is where the preview's text would land. *)
PushRequest(words, continued) ==
  [Request("push", None, None, continued) EXCEPT !.words = words]

Sent(e, request) == [e EXCEPT !.inbox = Append(@, request)]

(* The connection is dropped: nobody reads what its requests answer. *)
Orphaned(e) ==
  [e EXCEPT !.inbox = [i \in DOMAIN @ |-> [@[i] EXCEPT !.orphan = TRUE]]]

(* What the ownership query answers. *)
Ownership(e) ==
  [marker |-> IF e.st = "up" THEN e.marker ELSE None,
   started |-> e.marker, ui |-> HasUI(e), willui |-> e.kind # "left",
   pinned |-> Pinned(e), startup |-> Startup(e)]

(* `:edit`, which reads the file again if it changed. *)
Opened(e, fs, file) ==
  [e EXCEPT !.loaded = @ \cup {file},
            !.text[file] = IF file \in fs.there THEN fs.holds[file] ELSE <<>>]

(* `Spokenpad.setup`, after the Lua was loaded again: the state stays. *)
SetUp(e, file) == [e EXCEPT !.pinned = file]

(* `append_once`: a repeat of the last operation, on the same buffer, is
   answered without appending. *)
(* Variant: no append is a repeat. *)
NoRepeat(e, text) == FALSE

Repeat(e, text) == e.last = <<text, e.pinned>>

Appended(e, text, continued) ==
  [e EXCEPT !.text[e.pinned] = Landed(@, text, continued),
            !.last = <<text, e.pinned>>, !.preview = NoPreview]

Pushed(e, words, continued) ==
  [e EXCEPT !.preview = [words |-> words, at |-> IF continued THEN "last" ELSE "new"]]

(* The file changed under the buffer: `:write` asks whether to overwrite it. *)
Stale(e, fs) ==
  /\ Pinned(e) # None /\ Pinned(e) \in fs.there
  /\ fs.holds[Pinned(e)] # e.text[Pinned(e)]
=============================================================================

------------------------------- MODULE Editor -------------------------------
(***************************************************************************)
(* The editor thread (shell/daemon/editor.rs) with its session             *)
(* (shell/nvim/mod.rs), the thread that owns the pane                      *)
(* (shell/pane/host.rs), the editors on the dictation socket, the pending  *)
(* passage, and `spokenpad editor`, which is another process.              *)
(*                                                                         *)
(* What the event loop sends is `script`, an item at a time; a text is     *)
(* named by the item that carries it.  Each place where the thread waits   *)
(* for a reply is a value of th.pc.                                        *)
(***************************************************************************)
EXTENDS Neovim, FiniteSets

CONSTANTS
  Scripts,     \* what the loop may send, each a sequence of items
  Modes,       \* what `nvim.mode` may be: "pane", "attach"
  MaxEditors,  \* bound: editors started
  Faults       \* bound: how often each kind of fault happens, and any does

FaultKinds == {"any", "hang", "die", "quit", "window", "delete", "restart",
               "tool", "write", "disk", "refuse", "config"}

Items == [op : {"ensure", "append", "show", "copy", "quit"}, u : Nat]

ASSUME EditorAssumption ==
  /\ Scripts \subseteq Seq(Items)
  /\ Modes \subseteq {"pane", "attach"}
  /\ MaxEditors \in Nat
  /\ Faults \in [FaultKinds -> Nat]

Editors == 1..MaxEditors

Item(op, utterance) == [op |-> op, u |-> utterance]

VARIABLES
  script, sent, quitting,  \* the event loop
  taken,                   \* items the thread has taken
  th,                      \* the editor thread
  host,                    \* the pane's thread
  ed,                      \* the editors
  sock,                    \* the socket and the marker file beside it
  fs,                      \* the dictation files and the pointer
  tool,                    \* `spokenpad editor`
  faults, hist             \* the model's own

vars == <<script, sent, quitting, taken, th, host, ed, sock, fs, tool, faults, hist>>

(* What the pane's thread answers: the editor of the pane it opened, or
   that it opened none. *)
NoAnswer == None
Failure == -1

NoConn == [ed |-> None, file |-> None]
NoParagraph == [u |-> None, sink |-> "none"]
NoIndicator == [u |-> None, words |-> {}]
NoPush == [u |-> None, words |-> {}, continued |-> FALSE]
NoReply == [got |-> FALSE, ok |-> FALSE, own |-> Ownership(NoEditor)]

Init ==
  /\ script \in Scripts /\ sent = 0 /\ quitting = FALSE /\ taken = 0
  /\ \E mode \in Modes : th =
          [pc |-> "next", mode |-> mode, ctx |-> "press", conn |-> NoConn, target |-> NoConn,
           guard |-> None, marker |-> None, paragraph |-> NoParagraph,
           indicator |-> NoIndicator, shown |-> NoPush, closed |-> FALSE,
           attached |-> FALSE, continued |-> FALSE, doubt |-> FALSE,
           reply |-> NoReply]
  /\ host = [pane |-> None, stage |-> "none", alive |-> FALSE, closed |-> FALSE,
             leaving |-> FALSE, work |-> <<>>, answer |-> NoAnswer]
  /\ ed = [n \in Editors |-> NoEditor]
  /\ sock = [at |-> None, marker |-> None, markers |-> 0]
  /\ fs = EmptyDirectory
  /\ tool = [pc |-> "none", file |-> None, marker |-> None, took |-> FALSE]
  /\ faults = Faults
  /\ hist = [lost |-> {}, doubted |-> {}, userClosed |-> FALSE, blind |-> {}, shared |-> {}]

FaultHappens(kind) ==
  /\ faults[kind] > 0 /\ faults["any"] > 0
  /\ faults' = [faults EXCEPT ![kind] = @ - 1, !["any"] = @ - 1]

Utterance(t) == script[t].u
Appends == {i \in DOMAIN script : script[i].op = "append"}

-----------------------------------------------------------------------------
(* The event loop: `quitting` is set once everything but Quit was sent. *)

SendItem ==
  /\ sent < Len(script)
  /\ script[sent + 1].op = "quit" => quitting
  /\ sent' = sent + 1
  /\ UNCHANGED <<script, quitting, taken, th, host, ed, sock, fs, tool, faults, hist>>

StartQuitting ==
  /\ ~quitting /\ sent + 1 = Len(script)
  /\ quitting' = TRUE
  /\ UNCHANGED <<script, sent, taken, th, host, ed, sock, fs, tool, faults, hist>>

loopVars == <<script, sent, quitting>>

-----------------------------------------------------------------------------
(* What the thread does with its connection. *)

Connected == th.conn.ed # None

(* The other end is there to be sent to. *)
Reachable == \E n \in Editors : n = th.conn.ed /\ Live(ed[n])

Dropped == [n \in Editors |-> IF n = th.conn.ed THEN Orphaned(ed[n]) ELSE ed[n]]
Hung(n) == ed[n].hang # "no"

(* An editor answers on the socket. *)
Listening == \E n \in Editors : n = sock.at /\ Live(ed[n])

Patient == {"pinned", "appending", "repeating", "copying"}
Waiting == Patient \cup {"asked", "editing", "setup", "stopping"}

(* The editor the thread waits for: its own or the one it attaches to. *)
Peer == IF th.conn.ed # None THEN th.conn.ed ELSE th.target.ed

Unanswered == th.pc \in Waiting /\ ~th.reply.got
PeerGone == Unanswered /\ ~Live(ed[Peer])
(* Variant: a call held behind keys is waited for as long as they last. *)
LateButForKeys(n) == ed[n].hang = "prompt"

(* The deadline passed, or a call was held behind keys for too long. *)
Late(n) == Hung(n)
TimedOut == Unanswered /\ Live(ed[Peer]) /\ Late(Peer)
(* The daemon stops while a patient call is unanswered. *)
Abandoned == Unanswered /\ th.pc \in Patient /\ quitting
Failed == PeerGone \/ TimedOut \/ Abandoned
Answered(pc) == th.pc = pc /\ th.reply.got
Refused(pc) == Answered(pc) /\ ~th.reply.ok

AskTo(n, request) == ed' = [ed EXCEPT ![n] = Sent(@, request)]

(* Where the thread goes on once an editor is there, or is not. *)
AfterEnsure(h) ==
  [h EXCEPT !.reply = NoReply, !.target = NoConn, !.guard = None,
            !.pc = CASE h.ctx = "press" -> "next"
                     [] h.ctx = "text" -> "deliver"
                     [] h.ctx = "retry" -> "again"]

(* `ensure` failed: the file nothing opened is removed. *)
EnsureFails ==
  /\ th' = AfterEnsure(th)
  /\ fs' = IF th.guard # None THEN Unclaimed(fs, th.guard) ELSE fs

(* Nothing is on the socket. *)
Nowhere(h) ==
  IF h.ctx = "retry" \/ h.mode = "attach"
    THEN AfterEnsure(h)
    ELSE [h EXCEPT !.pc = IF h.ctx = "press" THEN "open" ELSE "weigh"]

(* The connection is there. *)
Adopt(h, conn) == AfterEnsure([h EXCEPT !.conn = conn])

(* The editor holds the file: its passage is settled, or its pointer could not
   be removed and still names what the editor shows. *)
SettlesPassage(file) ==
  \/ /\ fs' = Settle(fs, file)
     /\ UNCHANGED <<faults, hist>>
  \/ /\ Pending(fs) = file /\ FaultHappens("disk")
     /\ hist' = [hist EXCEPT !.shared = @ \cup {file}]
     /\ UNCHANGED fs

-----------------------------------------------------------------------------
(* Taking work. *)

(* `take_user_close`: the connection goes with the pane, if that was the
   dictation window. *)
ReportUserClose ==
  LET window == host.closed /\ th.attached
  IN  /\ host' = [host EXCEPT !.closed = FALSE]
      /\ ed' = IF window THEN Dropped ELSE ed
      /\ th' = IF window
                 THEN [th EXCEPT !.attached = FALSE, !.closed = TRUE, !.conn = NoConn]
                 ELSE th

Wake ==
  /\ th.pc = "next" /\ taken = sent /\ host.closed
  /\ ReportUserClose
  /\ UNCHANGED <<loopVars, taken, sock, fs, tool, faults, hist>>

TakeWork ==
  /\ th.pc = "next" /\ taken < sent
  /\ taken' = taken + 1
  /\ LET window == host.closed /\ th.attached
     IN  /\ host' = [host EXCEPT !.closed = FALSE]
         /\ ed' = IF window THEN Dropped ELSE ed
         /\ th' = [th EXCEPT !.pc = script[taken + 1].op,
                             !.attached = @ /\ ~host.closed,
                             !.closed = @ \/ window,
                             !.conn = IF window THEN NoConn ELSE @]
  /\ UNCHANGED <<loopVars, sock, fs, tool, faults, hist>>

(* The indicator shows words the loop has not sent as text yet. *)
Show ==
  /\ th.pc = "show"
  /\ th' = [th EXCEPT !.pc = "next",
              !.indicator = [u |-> script[taken].u,
                             words |-> {t \in Appends : t > taken /\ Utterance(t) = script[taken].u}]]
  /\ UNCHANGED <<loopVars, taken, host, ed, sock, fs, tool, faults, hist>>

EnsurePress ==
  /\ th.pc = "ensure"
  /\ th' = IF quitting THEN [th EXCEPT !.pc = "next"]
           ELSE [th EXCEPT !.pc = "check", !.ctx = "press", !.closed = FALSE]
  /\ hist' = IF quitting THEN hist ELSE [hist EXCEPT !.userClosed = FALSE]
  /\ UNCHANGED <<loopVars, taken, host, ed, sock, fs, tool, faults>>

(* `forget_committed_preview` *)
ForgetCommittedPreview(indicator, u) ==
  IF indicator.u = u THEN [indicator EXCEPT !.words = {}] ELSE indicator

AppendText ==
  /\ th.pc = "append"
  /\ th' = [th EXCEPT !.indicator = ForgetCommittedPreview(@, Utterance(taken)),
                      !.doubt = FALSE, !.ctx = "text",
                      !.pc = IF ~Connected /\ ~quitting THEN "check" ELSE "deliver"]
  /\ UNCHANGED <<loopVars, taken, host, ed, sock, fs, tool, faults, hist>>

CopyBuffer ==
  /\ th.pc = "copy"
  /\ \/ /\ ~Connected
        /\ th' = [th EXCEPT !.pc = "next"] /\ UNCHANGED ed
     \/ /\ Reachable
        /\ AskTo(th.conn.ed, CopyRequest)
        /\ th' = [th EXCEPT !.pc = "copying"]
     \/ /\ Connected /\ ~Reachable
        /\ th' = [th EXCEPT !.pc = "next", !.conn = NoConn] /\ UNCHANGED ed
  /\ UNCHANGED <<loopVars, taken, host, sock, fs, tool, faults, hist>>

Copied ==
  /\ \/ /\ Answered("copying")
        /\ th' = [th EXCEPT !.pc = "next", !.reply = NoReply] /\ UNCHANGED ed
     \/ /\ th.pc = "copying" /\ Failed
        /\ th' = [th EXCEPT !.pc = "next", !.conn = NoConn] /\ ed' = Dropped
  /\ UNCHANGED <<loopVars, taken, host, sock, fs, tool, faults, hist>>

(* `placement`: where the preview's words will land. *)
Continues(paragraph, u, sink) == paragraph = [u |-> u, sink |-> sink]

(* Variant: the preview is a paragraph of its own, wherever its text goes. *)
PlacedApart(h) ==
  [u |-> h.indicator.u, words |-> h.indicator.words, continued |-> FALSE]

Placed(h) ==
  [u |-> h.indicator.u, words |-> h.indicator.words,
   continued |-> Continues(h.paragraph, h.indicator.u, "editor")]

(* The end of a batch: the newest indicator, if the editor does not show it. *)
EndBatch ==
  LET next == Placed(th)
  IN  /\ th.pc = "next" /\ taken = sent
      /\ Connected /\ th.indicator # NoIndicator /\ th.shown # next
      /\ IF Reachable
           THEN /\ AskTo(th.conn.ed, PushRequest(next.words, next.continued))
                /\ th' = [th EXCEPT !.shown = next]
           ELSE /\ th' = [th EXCEPT !.shown = next, !.conn = NoConn] /\ UNCHANGED ed
      /\ UNCHANGED <<loopVars, taken, host, sock, fs, tool, faults, hist>>

-----------------------------------------------------------------------------
(* `reconfigure`: a press that finds no editor attached takes the settings
   the file has now; one that does not load keeps those in use. *)
Unattached(h) ==
  [h EXCEPT !.conn = NoConn, !.reply = NoReply,
            !.pc = IF h.ctx = "press" THEN "reload" ELSE "probe"]

Reconfigure ==
  /\ th.pc = "reload"
  /\ \/ th' = [th EXCEPT !.pc = "probe"] /\ UNCHANGED faults
     \/ /\ FaultHappens("config")
        /\ \E mode \in Modes \ {th.mode} : th' = [th EXCEPT !.pc = "probe", !.mode = mode]
  /\ UNCHANGED <<loopVars, taken, host, ed, sock, fs, tool, hist>>

(* `ensure`: whether the editor is still there and pinned, then whatever is
   on the socket, then, in pane mode, a new pane. *)

Check ==
  /\ th.pc = "check"
  /\ \/ /\ Reachable
        /\ AskTo(th.conn.ed, QueryRequest)
        /\ th' = [th EXCEPT !.pc = "pinned"]
     \/ /\ Connected /\ ~Reachable
        /\ th' = Unattached(th) /\ UNCHANGED ed
     \/ /\ ~Connected
        /\ th' = Unattached(th) /\ UNCHANGED ed
  /\ UNCHANGED <<loopVars, taken, host, sock, fs, tool, faults, hist>>

StillPinned ==
  /\ \/ /\ Answered("pinned") /\ th.reply.own.pinned = th.conn.file
        /\ th' = [AfterEnsure(th) EXCEPT !.shown = IF th.ctx = "press" THEN NoPush ELSE @]
        /\ UNCHANGED ed
     \/ /\ \/ Answered("pinned") /\ th.reply.own.pinned # th.conn.file
           \/ th.pc = "pinned" /\ Failed
        /\ th' = Unattached(th)
        /\ ed' = Dropped
  /\ UNCHANGED <<loopVars, taken, host, sock, fs, tool, faults, hist>>

(* Nobody answers: a socket left behind is removed first. *)
Unlistened(h) == IF sock.at = None THEN Nowhere(h) ELSE [h EXCEPT !.pc = "clearing"]

(* `probe_existing`. *)
Probe ==
  /\ th.pc = "probe"
  /\ \/ /\ Listening
        /\ AskTo(sock.at, QueryRequest)
        /\ th' = [th EXCEPT !.pc = "asked", !.target = [NoConn EXCEPT !.ed = sock.at]]
     \/ /\ ~Listening
        /\ th' = Unlistened(th) /\ UNCHANGED ed
  /\ UNCHANGED <<loopVars, taken, host, sock, fs, tool, faults, hist>>

(* `remove_stale_socket`, whoever listens on the path by now. *)
ClearsSocket ==
  /\ th.pc = "clearing"
  /\ th' = IF sock.at = None THEN AfterEnsure(th) ELSE Nowhere(th)
  /\ sock' = [sock EXCEPT !.at = None]
  /\ UNCHANGED <<loopVars, taken, host, ed, fs, tool, faults, hist>>

(* The peer went away unanswered: asked again, where it is found gone. *)
ProbeAgain ==
  /\ th.pc = "asked" /\ PeerGone
  /\ th' = [th EXCEPT !.pc = "probe", !.target = NoConn]
  /\ UNCHANGED <<loopVars, taken, host, ed, sock, fs, tool, faults, hist>>

Owned(own) == sock.marker # None /\ own.marker = sock.marker
Adoptable(own) ==
  IF own.pinned \in fs.there THEN own.pinned
  ELSE IF Owned(own) /\ own.startup \in fs.there THEN own.startup ELSE None
(* An editor no window shows and none will. *)
Invisible(own) ==
  \/ Owned(own)
  \/ own.pinned \in fs.there
  \/ sock.marker # None /\ own.started = sock.marker /\ ~own.willui

(* `attach_existing`, once the editor has said whose it is. *)
Identify ==
  /\ Answered("asked")
  /\ LET own == th.reply.own  n == th.target.ed
         hidden == th.mode = "pane" /\ ~own.ui
     IN  \/ /\ hidden /\ Invisible(own)
            /\ AskTo(n, QuitRequest)
            /\ th' = [th EXCEPT !.pc = "stopping", !.reply = NoReply]
            /\ UNCHANGED fs
         \/ /\ \/ hidden /\ ~Invisible(own)
               \/ ~hidden /\ ~Owned(own) /\ own.pinned \notin fs.there
            /\ EnsureFails /\ UNCHANGED ed
         \/ /\ ~hidden /\ (Owned(own) \/ own.pinned \in fs.there)
            /\ IF Adoptable(own) # None
                 THEN /\ AskTo(n, SetupRequest(Adoptable(own)))
                      /\ th' = [th EXCEPT !.pc = "setup", !.reply = NoReply,
                                          !.target.file = Adoptable(own)]
                      /\ UNCHANGED fs
                 ELSE IF Pending(fs) = None /\ ~NameLeft(fs)
                 THEN EnsureFails /\ UNCHANGED ed
                 ELSE /\ AskTo(n, OpenRequest(ClaimedFile(fs)))
                      /\ fs' = Claimed(fs)
                      /\ th' = [th EXCEPT !.pc = "editing", !.reply = NoReply,
                                          !.target.file = ClaimedFile(fs),
                                          !.guard = ClaimedFile(fs)]
  /\ UNCHANGED <<loopVars, taken, host, sock, tool, faults, hist>>

OpenedBuffer ==
  /\ Answered("editing") /\ th.reply.ok
  /\ AskTo(th.target.ed, SetupRequest(th.target.file))
  /\ th' = [th EXCEPT !.pc = "setup", !.reply = NoReply]
  /\ UNCHANGED <<loopVars, taken, host, sock, fs, tool, faults, hist>>

(* `append` that repeats an operation does not settle. *)
Attached ==
  /\ Answered("setup") /\ th.reply.ok
  /\ th' = [Adopt(th, th.target) EXCEPT !.shown = IF th.ctx = "press" THEN NoPush ELSE @]
  /\ \/ th.ctx = "retry" /\ UNCHANGED <<fs, faults, hist>>
     \/ th.ctx # "retry" /\ SettlesPassage(th.target.file)
  /\ UNCHANGED <<loopVars, taken, host, ed, sock, tool>>

(* An editor that refused, or did not answer in time, is not attached to.  A
   pending passage it was told to open may be open in it by now. *)
AttachFails ==
  /\ \/ th.pc = "asked" /\ (TimedOut \/ Refused("asked"))
     \/ th.pc \in {"editing", "setup", "stopping"} /\ (Failed \/ Refused(th.pc))
  /\ EnsureFails
  /\ ed' = [n \in Editors |-> IF n = th.target.ed THEN Orphaned(ed[n]) ELSE ed[n]]
  /\ hist' = [hist EXCEPT !.blind = @ \cup ({th.guard} \ {None})]
  /\ UNCHANGED <<loopVars, taken, host, sock, tool, faults>>

(* `stop_invisible`: told to quit, it goes; another may listen by then. *)
Stopped ==
  /\ Answered("stopping") /\ th.reply.ok
  /\ ~Live(ed[th.target.ed])
  /\ LET left == [th EXCEPT !.reply = NoReply, !.target = NoConn]
     IN  th' = IF Listening THEN AfterEnsure(left) ELSE Unlistened(left)
  /\ UNCHANGED <<loopVars, taken, host, ed, sock, fs, tool, faults, hist>>

(* `may_open_for_text`: `alive` is read first. *)
(* Variant: a pane that is still closing is not waited out. *)
HeldBackByReport(h) == h.closed

HeldBack(h) == h.closed \/ host.alive

WeighAlive ==
  /\ th.pc = "weigh"
  /\ th' = IF HeldBack(th) THEN AfterEnsure(th) ELSE [th EXCEPT !.pc = "weighed"]
  /\ UNCHANGED <<loopVars, taken, host, ed, sock, fs, tool, faults, hist>>

WeighClosed ==
  /\ th.pc = "weighed"
  /\ th' = IF host.closed THEN AfterEnsure(th) ELSE [th EXCEPT !.pc = "open"]
  /\ UNCHANGED <<loopVars, taken, host, ed, sock, fs, tool, faults, hist>>

(* `try_open_pane`: the file and the marker are there before the editor. *)
OpenPane ==
  /\ th.pc = "open"
  /\ \/ /\ Pending(fs) # None \/ NameLeft(fs)
        /\ sock' = [sock EXCEPT !.marker = sock.markers + 1, !.markers = @ + 1]
        /\ fs' = Claimed(fs)
        /\ th' = [th EXCEPT !.pc = "opening", !.attached = FALSE,
                            !.guard = ClaimedFile(fs), !.marker = sock.markers + 1,
                            !.target.file = ClaimedFile(fs)]
        /\ host' = [host EXCEPT !.work = Append(@, "open")]
        /\ UNCHANGED faults
     \/ /\ FaultHappens("refuse")
        /\ th' = [AfterEnsure(th) EXCEPT !.attached = FALSE]
        /\ host' = [host EXCEPT !.work = Append(@, "close")]
        /\ UNCHANGED <<sock, fs>>
  /\ UNCHANGED <<loopVars, taken, ed, tool, hist>>

(* The pane is there, or it is not; an editor that does not answer in time, on
   the socket, is closed.  The marker file goes when its editor did not come up. *)
PaneFails ==
  /\ \/ th.pc = "opening" /\ host.answer = Failure
     \/ th.pc = "awaiting" /\ (~host.alive \/ Late(th.target.ed)
                               \/ sock.at \notin {None, th.target.ed}
                               \/ (sock.at = None /\ Live(ed[th.target.ed])))
  /\ EnsureFails
  /\ host' = [host EXCEPT !.answer = NoAnswer, !.work = Append(@, "close")]
  /\ sock' = [sock EXCEPT !.marker = None]
  /\ UNCHANGED <<loopVars, taken, ed, tool, faults, hist>>

PaneOpened ==
  /\ th.pc = "opening" /\ host.answer \in Editors
  /\ th' = [th EXCEPT !.pc = "awaiting", !.target.ed = host.answer]
  /\ host' = [host EXCEPT !.answer = NoAnswer]
  /\ UNCHANGED <<loopVars, taken, ed, sock, fs, tool, faults, hist>>

(* `await_editor`: the editor has run the user's configuration; it is told
   the buffer and set up, over a connection that may be older than what is on
   the socket now. *)
PaneAttached ==
  LET n == th.target.ed
  IN  /\ th.pc = "awaiting"
      /\ sock.at # None /\ ed[n].st = "up" /\ ~Hung(n)
      /\ ed' = [ed EXCEPT ![n] = SetUp(Opened(@, fs, th.target.file), th.target.file)]
      /\ th' = [Adopt(th, th.target) EXCEPT !.attached = TRUE,
                                            !.shown = IF th.ctx = "press" THEN NoPush ELSE @]
      /\ SettlesPassage(th.target.file)
      /\ UNCHANGED <<loopVars, taken, host, sock, tool>>

-----------------------------------------------------------------------------
(* `append`, its repeat, and the pending passage. *)

Deliver ==
  /\ th.pc = "deliver"
  /\ LET continued == Continues(th.paragraph, Utterance(taken), "editor")
     IN  \/ /\ Reachable
            /\ AskTo(th.conn.ed, AppendRequest(taken, continued))
            /\ th' = [th EXCEPT !.pc = "appending", !.continued = continued]
         \/ /\ ~Reachable
            /\ th' = [th EXCEPT !.pc = "passage", !.conn = NoConn]
            /\ UNCHANGED ed
  /\ UNCHANGED <<loopVars, taken, host, sock, fs, tool, faults, hist>>

Confirmed ==
  /\ th.pc \in {"appending", "repeating"} /\ th.reply.got /\ th.reply.ok
  /\ th' = [th EXCEPT !.pc = "next", !.reply = NoReply, !.shown = NoPush,
                      !.paragraph = [u |-> Utterance(taken), sink |-> "editor"]]
  /\ UNCHANGED <<loopVars, taken, host, ed, sock, fs, tool, faults, hist>>

(* A reply lost to a timeout: reconnect, and repeat the same operation. *)
Reconnect ==
  /\ th.pc = "appending" /\ TimedOut /\ ~quitting
  /\ th' = [th EXCEPT !.pc = "probe", !.ctx = "retry", !.guard = None,
                      !.marker = th.conn.file, !.conn = NoConn]
  /\ ed' = Dropped
  /\ UNCHANGED <<loopVars, taken, host, sock, fs, tool, faults, hist>>

SameFile(h) == h.conn.ed # None /\ h.conn.file = h.marker

RepeatAppend ==
  /\ th.pc = "again"
  /\ IF SameFile(th) /\ Reachable
       THEN /\ AskTo(th.conn.ed, AppendRequest(taken, th.continued))
            /\ th' = [th EXCEPT !.pc = "repeating"]
       ELSE /\ th' = [th EXCEPT !.pc = "passage", !.doubt = TRUE, !.conn = NoConn]
            /\ ed' = Dropped
  /\ hist' = IF SameFile(th) THEN hist ELSE [hist EXCEPT !.blind = @ \cup {th.conn.file}]
  /\ UNCHANGED <<loopVars, taken, host, sock, fs, tool, faults>>

(* Variant: an append that was not confirmed is taken to have landed. *)
TakenAsDone(h) == [h EXCEPT !.pc = "next", !.conn = NoConn, !.reply = NoReply]

Undelivered(h) ==
  [h EXCEPT !.pc = "passage", !.doubt = TRUE, !.conn = NoConn, !.reply = NoReply]

Unconfirmed ==
  /\ \/ th.pc = "appending" /\ (PeerGone \/ Abandoned \/ Refused("appending"))
     \/ th.pc = "repeating" /\ (Failed \/ Refused("repeating"))
  /\ th' = Undelivered(th)
  /\ ed' = Dropped
  /\ UNCHANGED <<loopVars, taken, host, sock, fs, tool, faults, hist>>

(* `append_detached`.  When it fails the text is in the log and in the
   capture's WAV; a file may have been started for it. *)
WritePassage ==
  /\ th.pc = "passage"
  /\ LET u == Utterance(taken)
         continued == Continues(th.paragraph, u, "passage")
     IN  \/ /\ Writable(fs)
            /\ fs' = AppendPending(fs, taken, continued)
            /\ th' = [th EXCEPT !.pc = "next", !.paragraph = [u |-> u, sink |-> "passage"]]
            /\ hist' = [hist EXCEPT !.doubted = IF th.doubt THEN @ \cup {taken} ELSE @]
            /\ UNCHANGED faults
         \/ /\ FaultHappens("disk")
            /\ \/ fs' = fs
               \/ /\ Pending(fs) = None /\ NameLeft(fs)
                  /\ fs' = [WithNewFile(fs) EXCEPT !.pointer = fs.next]
            /\ th' = [th EXCEPT !.pc = "next", !.paragraph = NoParagraph]
            /\ hist' = [hist EXCEPT !.lost = @ \cup {taken}]
         \/ /\ FaultHappens("disk") /\ Writable(fs)
            /\ fs' = AppendUnpointed(fs, taken, continued)
            /\ th' = [th EXCEPT !.pc = "next", !.paragraph = [u |-> u, sink |-> "passage"]]
            /\ hist' = [hist EXCEPT !.doubted = IF th.doubt THEN @ \cup {taken} ELSE @]
  /\ UNCHANGED <<loopVars, taken, host, ed, sock, tool>>

(* `close`: the window is told nothing is recorded; a pane goes with the
   daemon, an editor the user opened stays. *)
Leave ==
  /\ th.pc = "quit"
  /\ th' = [th EXCEPT !.pc = "done", !.conn = NoConn]
  /\ ed' = [n \in Editors |->
              IF n = host.pane THEN Exited(ed[n])
              ELSE IF n = th.conn.ed THEN Orphaned(Sent(ed[n], PushRequest({}, FALSE)))
              ELSE ed[n]]
  /\ sock' = [sock EXCEPT !.at = IF @ = host.pane THEN None ELSE @]
  /\ host' = [host EXCEPT !.pane = None, !.stage = "none", !.alive = FALSE, !.work = <<>>]
  /\ UNCHANGED <<loopVars, taken, fs, tool, faults, hist>>

Thread ==
  \/ Wake \/ TakeWork \/ Show \/ EnsurePress \/ AppendText \/ CopyBuffer \/ Copied
  \/ EndBatch \/ Reconfigure \/ Check \/ StillPinned \/ Probe \/ ClearsSocket
  \/ ProbeAgain \/ Identify
  \/ OpenedBuffer \/ Attached \/ AttachFails \/ Stopped \/ WeighAlive
  \/ WeighClosed \/ OpenPane \/ PaneFails \/ PaneOpened \/ PaneAttached
  \/ Deliver \/ Confirmed \/ Reconnect \/ RepeatAppend \/ Unconfirmed
  \/ WritePassage \/ Leave

-----------------------------------------------------------------------------
(* The pane's thread.  A close by the user is recorded before `alive` goes
   false, and the editor is gone by then. *)

Slots == {n \in Editors : ed[n].st = "none"}
Slot == CHOOSE n \in Slots : \A m \in Slots : n <= m

Without(n) == [m \in Editors |-> IF m = n THEN Exited(ed[m]) ELSE ed[m]]
SocketWithout(n) == [sock EXCEPT !.at = IF n # None /\ @ = n THEN None ELSE @]

Recorded(h) == [h EXCEPT !.closed = @ \/ h.leaving, !.stage = "closing"]

GaveUp(h) ==
  [h EXCEPT !.pane = None, !.stage = "none", !.alive = FALSE, !.leaving = FALSE]

HostNotices ==
  /\ host.stage = "open"
  /\ host.leaving \/ \E n \in Editors : n = host.pane /\ ed[n].st = "dead"
  /\ host' = Recorded(host)
  /\ UNCHANGED <<loopVars, taken, th, ed, sock, fs, tool, faults, hist>>

HostDrops ==
  /\ host.stage = "closing"
  /\ host' = GaveUp(host)
  /\ ed' = Without(host.pane) /\ sock' = SocketWithout(host.pane)
  /\ UNCHANGED <<loopVars, taken, th, fs, tool, faults, hist>>

HostCloses ==
  /\ host.stage # "closing" /\ host.work # <<>> /\ Head(host.work) = "close"
  /\ host' = [GaveUp(host) EXCEPT !.work = Tail(@)]
  /\ ed' = Without(host.pane) /\ sock' = SocketWithout(host.pane)
  /\ UNCHANGED <<loopVars, taken, th, fs, tool, faults, hist>>

HostOpens ==
  /\ host.stage # "closing" /\ host.work # <<>> /\ Head(host.work) = "open"
  /\ \/ /\ Slots # {}
        /\ host' = [host EXCEPT !.work = Tail(@), !.closed = FALSE, !.leaving = FALSE,
                                !.pane = Slot, !.stage = "open", !.alive = TRUE,
                                !.answer = Slot]
        /\ ed' = [Without(host.pane) EXCEPT ![Slot] = Launched("pane", th.marker, th.guard)]
        /\ UNCHANGED faults
     \/ /\ FaultHappens("refuse")
        /\ host' = [GaveUp(host) EXCEPT !.work = Tail(@), !.closed = FALSE, !.answer = Failure]
        /\ ed' = Without(host.pane)
  /\ sock' = SocketWithout(host.pane)
  /\ UNCHANGED <<loopVars, taken, th, fs, tool, hist>>

Host == HostNotices \/ HostDrops \/ HostCloses \/ HostOpens

(* The user closes the pane's window, when it is the dictation window or
   while it is still starting. *)
ByUser == [hist EXCEPT !.userClosed = @ \/ th.attached]

UserClosesWindow ==
  /\ host.stage = "open" /\ ~host.leaving /\ FaultHappens("window")
  /\ host' = [host EXCEPT !.leaving = TRUE]
  /\ hist' = ByUser
  /\ UNCHANGED <<loopVars, taken, th, ed, sock, fs, tool>>

-----------------------------------------------------------------------------
(* The editors, and what users do to them. *)

(* An editor whose socket another one listens on does not start. *)
EditorListens(n) ==
  /\ ed[n].st = "starting"
  /\ IF Listening
       THEN ed' = Without(n) /\ UNCHANGED sock
       ELSE ed' = [ed EXCEPT ![n].st = "bare"] /\ sock' = [sock EXCEPT !.at = n]
  /\ UNCHANGED <<loopVars, taken, th, host, fs, tool, faults, hist>>

EditorGetsReady(n) ==
  /\ ed[n].st = "bare" /\ ed[n].kind # "left"
  /\ ed' = [ed EXCEPT ![n] = Ready(@, fs)]
  /\ UNCHANGED <<loopVars, taken, th, host, sock, fs, tool, faults, hist>>

Next1(n) == Head(ed[n].inbox)
Runs(n) == Live(ed[n]) /\ ~Hung(n) /\ ed[n].inbox # <<>>
Popped(n) == [ed[n] EXCEPT !.inbox = Tail(@)]

(* The thread reads the reply, unless it dropped the connection. *)
Answer(n, ok) ==
  th' = IF Next1(n).orphan THEN th
        ELSE [th EXCEPT !.reply = [got |-> TRUE, ok |-> ok, own |-> Ownership(ed[n])]]

RunQuery(n) ==
  /\ Runs(n) /\ Next1(n).op \in {"query", "copy"}
  /\ Answer(n, TRUE)
  /\ ed' = [ed EXCEPT ![n] = Popped(n)]
  /\ UNCHANGED <<loopVars, taken, host, sock, fs, tool, faults, hist>>

RunOpen(n) ==
  /\ Runs(n) /\ Next1(n).op = "open"
  /\ Answer(n, TRUE)
  /\ ed' = [ed EXCEPT ![n] = Opened(Popped(n), fs, Next1(n).file)]
  /\ UNCHANGED <<loopVars, taken, host, sock, fs, tool, faults, hist>>

(* A buffer that is gone cannot be set up. *)
RunSetup(n) ==
  /\ Runs(n) /\ Next1(n).op = "setup"
  /\ Answer(n, Next1(n).file \in ed[n].loaded)
  /\ ed' = [ed EXCEPT ![n] = IF Next1(n).file \in ed[n].loaded
                               THEN SetUp(Popped(n), Next1(n).file) ELSE Popped(n)]
  /\ UNCHANGED <<loopVars, taken, host, sock, fs, tool, faults, hist>>

RunPush(n) ==
  /\ Runs(n) /\ Next1(n).op = "push"
  /\ ed' = [ed EXCEPT ![n] = Pushed(Popped(n), Next1(n).words, Next1(n).continued)]
  /\ UNCHANGED <<loopVars, taken, th, host, sock, fs, tool, faults, hist>>

RunQuit(n) ==
  /\ Runs(n) /\ Next1(n).op = "quit"
  /\ Answer(n, TRUE)
  /\ ed' = Without(n) /\ sock' = SocketWithout(n)
  /\ UNCHANGED <<loopVars, taken, host, fs, tool, faults, hist>>

(* `append_once`: written at once, or the buffer is as before. *)
RunAppend(n) ==
  LET text == Next1(n).text
  IN  /\ Runs(n) /\ Next1(n).op = "append"
      /\ \/ /\ \/ Pinned(ed[n]) = None
               \/ Repeat(ed[n], text)
            /\ Answer(n, Pinned(ed[n]) # None)
            /\ ed' = [ed EXCEPT ![n] = Popped(n)]
            /\ UNCHANGED <<fs, faults>>
         \/ /\ Pinned(ed[n]) # None /\ ~Repeat(ed[n], text) /\ ~Stale(ed[n], fs)
            /\ Answer(n, TRUE)
            /\ ed' = [ed EXCEPT ![n] = Appended(Popped(n), text, Next1(n).continued)]
            /\ fs' = [fs EXCEPT !.holds[Pinned(ed[n])] =
                                  Landed(ed[n].text[Pinned(ed[n])], text, Next1(n).continued),
                                !.there = @ \cup {Pinned(ed[n])}]
            /\ UNCHANGED faults
         \/ /\ Pinned(ed[n]) # None /\ ~Repeat(ed[n], text)
            /\ FaultHappens("write")
            /\ Answer(n, FALSE)
            /\ ed' = [ed EXCEPT ![n] = Popped(n)]
            /\ UNCHANGED fs
         \/ /\ Pinned(ed[n]) # None /\ ~Repeat(ed[n], text) /\ Stale(ed[n], fs)
            /\ ed' = [ed EXCEPT ![n].hang = "prompt"]
            /\ UNCHANGED <<th, fs, faults>>
      /\ UNCHANGED <<loopVars, taken, host, sock, tool, hist>>

(* A request whose connection is gone may be dropped unread. *)
Discards(n) ==
  /\ Live(ed[n]) /\ ed[n].inbox # <<>> /\ Next1(n).orphan
  /\ ed' = [ed EXCEPT ![n] = Popped(n)]
  /\ UNCHANGED <<loopVars, taken, th, host, sock, fs, tool, faults, hist>>

Nvim(n) ==
  \/ EditorListens(n) \/ EditorGetsReady(n) \/ RunQuery(n) \/ RunOpen(n)
  \/ RunSetup(n) \/ RunPush(n) \/ RunQuit(n) \/ RunAppend(n)

(* Frozen, or waiting for the rest of a command; then not any more. *)
Hangs(n) ==
  /\ ed[n].st = "up" /\ ~Hung(n) /\ FaultHappens("hang")
  /\ ed' = [ed EXCEPT ![n].hang = "keys"]
  /\ UNCHANGED <<loopVars, taken, th, host, sock, fs, tool, hist>>

Resumes(n) ==
  /\ ed[n].hang = "keys"
  /\ ed' = [ed EXCEPT ![n].hang = "no"]
  /\ UNCHANGED <<loopVars, taken, th, host, sock, fs, tool, faults, hist>>

(* A crash leaves the socket behind, a quit removes it. *)
Dies(n) ==
  /\ ed[n].st \in {"starting", "bare", "up"} /\ FaultHappens("die")
  /\ ed' = Without(n)
  /\ UNCHANGED <<loopVars, taken, th, host, sock, fs, tool, hist>>

UserQuits(n) ==
  /\ ed[n].st = "up" /\ ~Hung(n) /\ FaultHappens("quit")
  /\ ed' = Without(n) /\ sock' = SocketWithout(n)
  /\ host' = [host EXCEPT !.leaving = @ \/ n = host.pane]
  /\ hist' = IF n = host.pane THEN ByUser ELSE hist
  /\ UNCHANGED <<loopVars, taken, th, fs, tool>>

(* `:restart`: another server, which no UI will attach to. *)
UserRestarts(n) ==
  /\ ed[n].st = "up" /\ ~Hung(n) /\ n = host.pane /\ Slots # {}
  /\ FaultHappens("restart")
  /\ ed' = [Without(n) EXCEPT ![Slot] =
              [Launched("left", ed[n].marker, ed[n].start) EXCEPT !.st = "bare"]]
  /\ sock' = [sock EXCEPT !.at = Slot]
  /\ host' = [host EXCEPT !.leaving = TRUE]
  /\ hist' = ByUser
  /\ UNCHANGED <<loopVars, taken, th, fs, tool>>

(* `:bdelete` of the dictation buffer. *)
UserDeletes(n) ==
  /\ Live(ed[n]) /\ ~Hung(n) /\ Pinned(ed[n]) # None /\ FaultHappens("delete")
  /\ ed' = [ed EXCEPT ![n].loaded = @ \ {ed[n].pinned}]
  /\ UNCHANGED <<loopVars, taken, th, host, sock, fs, tool, hist>>

-----------------------------------------------------------------------------
(* `spokenpad editor`: the socket is free, the passage is taken, the marker
   written, and the process becomes the editor. *)

toolRest == <<loopVars, taken, th, host>>

ToolChecks ==
  /\ tool.pc = "none" /\ FaultHappens("tool")
  /\ ~Listening
  /\ tool' = [tool EXCEPT !.pc = IF sock.at = None THEN "take" ELSE "clear"]
  /\ UNCHANGED <<toolRest, ed, sock, fs, hist>>

ToolClears ==
  /\ tool.pc = "clear"
  /\ tool' = [tool EXCEPT !.pc = IF sock.at = None THEN "none" ELSE "take"]
  /\ sock' = [sock EXCEPT !.at = None]
  /\ UNCHANGED <<toolRest, ed, fs, faults, hist>>

(* The files the daemon is opening an editor on, or gave up opening one on:
   `NewFileGuard::claim` leaves the pointer to the passage in place. *)
OpenElsewhere == ({th.guard} \cup hist.blind) \ {None}

(* The passage is taken, or a new file made; the tool ends if it cannot do so. *)
ToolTakes ==
  /\ tool.pc = "take"
  /\ \/ /\ Pending(fs) # None
        /\ fs' = Take(fs)
        /\ tool' = [tool EXCEPT !.pc = "mark", !.file = Pending(fs), !.took = TRUE]
        /\ hist' = [hist EXCEPT !.shared = @ \cup ({Pending(fs)} \cap OpenElsewhere)]
        /\ UNCHANGED faults
     \/ /\ Pending(fs) = None /\ NameLeft(fs)
        /\ fs' = WithNewFile(fs)
        /\ tool' = [tool EXCEPT !.pc = "mark", !.file = fs.next, !.took = FALSE]
        /\ UNCHANGED <<faults, hist>>
     \/ /\ Pending(fs) = None /\ ~NameLeft(fs)
        /\ tool' = [tool EXCEPT !.pc = "none"]
        /\ UNCHANGED <<fs, faults, hist>>
     \/ /\ FaultHappens("disk")
        /\ tool' = [tool EXCEPT !.pc = "none"]
        /\ UNCHANGED <<fs, hist>>
  /\ UNCHANGED <<toolRest, ed, sock>>

ToolMarks ==
  /\ tool.pc = "mark"
  /\ sock' = [sock EXCEPT !.marker = sock.markers + 1, !.markers = @ + 1]
  /\ tool' = [tool EXCEPT !.pc = "exec", !.marker = sock.markers + 1]
  /\ UNCHANGED <<toolRest, ed, fs, faults, hist>>

(* A passage that cannot be restored stays a file that nothing names. *)
ToolRuns ==
  /\ tool.pc = "exec"
  /\ \/ /\ Slots # {}
        /\ ed' = [ed EXCEPT ![Slot] = Launched("user", tool.marker, tool.file)]
        /\ UNCHANGED <<fs, faults>>
     \/ /\ FaultHappens("refuse")
        /\ fs' \in IF tool.took THEN {Restore(fs, tool.file), fs}
                                ELSE {Unclaimed(fs, tool.file)}
        /\ UNCHANGED ed
  /\ tool' = [tool EXCEPT !.pc = "none", !.file = None, !.marker = None, !.took = FALSE]
  /\ UNCHANGED <<toolRest, sock, hist>>

Tool == ToolChecks \/ ToolClears \/ ToolTakes \/ ToolMarks \/ ToolRuns

-----------------------------------------------------------------------------
Next ==
  \/ SendItem \/ StartQuitting
  \/ Thread
  \/ Host
  \/ \E n \in Editors : Nvim(n) \/ Discards(n) \/ Resumes(n)
  \/ \E n \in Editors : Hangs(n) \/ Dies(n) \/ UserQuits(n) \/ UserRestarts(n) \/ UserDeletes(n)
  \/ UserClosesWindow
  \/ Tool

(* The loop ends; each thread is scheduled; an editor that does not hang runs
   what it is sent.  A hung one need never resume. *)
Spec ==
  /\ Init /\ [][Next]_vars
  /\ WF_vars(SendItem) /\ WF_vars(StartQuitting)
  /\ WF_vars(Thread) /\ WF_vars(Host)
  /\ WF_vars(\E n \in Editors : Nvim(n))

-----------------------------------------------------------------------------
(* Properties. *)

OnDisk == UNION {TextsIn(fs.holds[f]) : f \in fs.there}
Settled == {t \in Appends : t < taken \/ (t = taken /\ th.pc \in {"next", "done"})}

(* A text the thread is done with is in a dictation file, or the log says it
   is not (editor.rs, the arms of `EditorWork::Append`), whatever became of
   the editor, its connection, its buffer or the files meanwhile. *)
TextLands == Settled \subseteq OnDisk \cup hist.lost

(* Within a file texts stand in the order they were spoken, each once: the
   operation id answers a repeat, and nothing is written twice there; but for
   the files in hist.shared: those `spokenpad editor` took while the daemon was
   opening them, or after it gave up on that (a claim leaves the passage pending
   until it settles, and a tool that then fails to start restores it), and those
   whose pointer `settle` could not remove. *)
InSpokenOrder ==
  \A f \in fs.there \ hist.shared :
    LET texts == Texts(fs.holds[f])
    IN  \A i, j \in DOMAIN texts : i < j => texts[i] < texts[j]

(* A text is in two files only if its append was not confirmed. *)
OneCopy ==
  \A f, g \in fs.there : \A t \in ToSet(Texts(fs.holds[f])) :
    f # g /\ t \in ToSet(Texts(fs.holds[g])) =>
      t \in hist.doubted \/ (t = taken /\ th.pc # "next")

(* Every text stands once, and where it was spoken. *)
InOrderOnce == InSpokenOrder /\ OneCopy

(* A push never shows words the window already has as text
   (`forget_committed_preview`). *)
NoEcho ==
  [][\A n \in Editors : ed'[n].preview # ed[n].preview /\ Pinned(ed'[n]) # None =>
       ed'[n].preview.words \cap ToSet(Texts(ed[n].text[ed[n].pinned])) = {}]_vars

(* No file is written behind the back of an editor that has it open
   (passage.rs), but for an editor of a pane told to close, for the files in
   hist.blind, those the daemon had an editor open and then gave up on, and for
   those in hist.shared (see InSpokenOrder). *)
BeingClosed(n) == n = host.pane /\ "close" \in ToSet(host.work)
NotBehind ==
  \A n \in Editors : \A f \in (ed[n].loaded \ (hist.blind \cup hist.shared)) \cap fs.there :
    BeingClosed(n) \/ ed[n].text[f] = fs.holds[f]

(* Text opens no pane after the user closed one, until the next press
   (`may_open_for_text`), even while the close is not recorded yet. *)
UserCloseHolds ==
  [][th.pc # "opening" /\ th'.pc = "opening" /\ th.ctx = "text" => ~hist.userClosed]_vars

(* Words a preview shows land where it shows them (`placement`), whatever was
   appended, lost or attached to between the push and the append. *)
DrawnWhereItLands ==
  [][\A n \in Editors : \A t \in ed[n].preview.words :
       Live(ed[n]) /\ ed'[n].last[1] = t /\ ed[n].last[1] # t =>
         (Head(ed[n].inbox).continued <=> ed[n].preview.at = "last")]_vars

(* A preview never shows text that is there, and shows the rest where it goes. *)
PreviewIsTrue == NoEcho /\ DrawnWhereItLands

(* The thread ends when it is told to, whatever the editor does. *)
QuitEnds == quitting ~> th.pc = "done"

(* The thread with its editors, its files and its failures is a delivery, and
   a fair one: every text it is sent is settled, in order. *)
D == INSTANCE Delivery WITH
       Spoken <- UNION {DOMAIN s : s \in Scripts}, sent <- {t \in Appends : t <= sent},
       settled <- Settled, written <- OnDisk, lost <- hist.lost
Delivers == D!Spec
=============================================================================

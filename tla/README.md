# spokenpad, specified

TLA+ modules for spokenpad, a push-to-talk dictation daemon: a key is held, the
microphone is captured, speech is decoded as it is spoken, and the text is
appended to a dictation file that a Neovim in a small window shows. The modules
model the daemon's own concurrency, the processes it works with, and its promises
about text and about the user's desktop; TLC checks them on small instances and
TLAPS proves some of the results for every value of the constants.

Paths below are relative to the repository's root.

## What is here

| module | models | code |
|---|---|---|
| `Hold` | the capture state machine, a pure step function | `src/core/state.rs` |
| `PushToTalk` | key, auto-repeat, client processes, control thread, channel, the loop's drain of requests into `Hold` | `src/shell/control.rs`, `src/shell/daemon/requests.rs`, `src/core/session.rs` |
| `Control` | clients, the unit's socket and a daemon's own, the per-user lock, daemons that start, serve, refuse and stop | `src/shell/control.rs`, `src/shell/daemon/{lock,mod}.rs` |
| `Dictation` | everything from a capture to the file: event loop, session, list of owed recordings, inference thread, stop, crash, start | `src/shell/daemon/*.rs`, `src/core/{session,decode}.rs`, `src/shell/{audio,recorder}.rs` |
| `Windows`, `Chunking` | the detector's spans as the recognizer's windows; the worker's ticks and final decode over them | `src/core/{segments,decode}.rs` |
| `Passage` | the dictation files and the pending passage | `src/shell/nvim/passage.rs` |
| `Neovim` | one editor process with `spokenpad.lua` in it, as requests change it | `lua/spokenpad.lua`, `src/shell/nvim/{mod,rpc}.rs` |
| `Editor` | the editor thread, its session, its pane's thread, the editors on the socket, `spokenpad editor`, the user | `src/shell/daemon/editor.rs`, `src/shell/nvim/mod.rs`, `src/shell/pane/host.rs` |
| `Delivery` | abstract: what the editor thread promises the loop; `Editor` is shown to implement it | |
| `PaneHost` | the thread that owns the pane, its commands and knocks, and a pane's teardown | `src/shell/pane/{host,mod,ui}.rs` |
| `Geometry`, `Opening` | where a window goes; how it comes up on X11 and sway without focus | `src/core/geometry.rs`, `src/shell/{wm,nvim/mod}.rs`, `src/shell/pane/*` |
| `Screen`, `PaneDrawing` | Neovim's grid and its damage; batches, frames and repaints | `src/core/grid.rs`, `src/shell/pane/mod.rs` |
| `Glyphs` | fallback fonts, their caches, the budget of a frame | `src/shell/pane/font.rs` |
| `Typing` | a press through layout, Compose and modifiers to Neovim's mode | `src/core/keys.rs`, `src/shell/pane/{keyboard,xkb}.rs` |
| `DictationWindow`, `Landing` | the views that follow the text, saves; where text and preview land | `lua/spokenpad.lua`, `src/shell/nvim/passage.rs` |
| `Recorder`, `Microphone` | writer threads and pruning; the callback, the capture in memory, the stream | `src/shell/{recorder,audio}.rs` |
| `WaitingList` | `waiting.tsv` line by line, and recordings' names | `src/shell/recorder.rs`, `src/shell/daemon/transcriptions.rs` |
| `Indicator` | previews and notices | `src/core/session.rs` |
| `Settings` | the configuration file, read at a start and before each window | `src/config.rs` |
| `ModelFiles` | loaders and `fetch-models` over the model's files | `src/shell/models.rs`, `src/shell/daemon/mod.rs` |
| `LoopProofs`, `OnceProofs`, `LossProofs` | theorems about `Dictation` | |
| `EditorProofs` | theorems about `Editor`, and that it implements `Delivery` | |
| `PaneProofs` | theorems about `Opening`, `PaneDrawing`, `Glyphs` and `Typing`, as `MCPane` composes them | |
| `ThreadsProofs` | a theorem about `ModelFiles`, as `MCThreads` composes it | |
| `RequestsProofs` | theorems about `Control` and `PushToTalk`, as `MCRequests` composes them | |
| `CaptureProofs` | theorems about `Recorder`, `Microphone`, `WaitingList`, `Indicator` and `Settings`, as `MCCapture` composes them | |
| `MCDictation`, `MCEditor` | instances: which faults, which script | |
| `MCRequests`, `MCThreads`, `MCPane`, `MCCapture` | instances of several small modules side by side | |

In the last four a variable `component` picks, in the initial state, which of the
modules a behaviour runs; the variables of the others are 0 throughout. A property
holds of a behaviour of another component by saying nothing of it.

`PROJECT.json` maps each definition to the lines it stands for. A definition
under a comment "Variant:" is never used by a specification: it is the
definition after it with a plausible mistake (a dropped guard, a swapped order)
and is kept to show which property notices the mistake.

## The system

### Threads, processes and what they share

```
 key binding -> client process -> unit's or daemon's socket     lock file
                                        | Received (stamped)
                                        v
   audio callback --ring--> EVENT LOOP <----- ResultEvent ------+
        |                   session,        |                   |
        | samples           transcriptions  | Work              |
        v                      |            v                   |
   WRITER THREADS           EditorWork    INFERENCE THREAD -----+
   (recovery WAVs)             |          pipeline, worker      |
                               v             ^ model files      |
                        EDITOR THREAD --- window closed --------+
                          |        |               `spokenpad editor`
              Command, knock      RPC                    |
                          v        v                     v
                    PANE THREAD  NEOVIM (socket, marker, spokenpad.lua)
                     window, UI -----^            dictation files, pending
```

One thread, the event loop, owns the session. Everything else reaches it
through two channels, which each pass of the loop drains in a fixed order:
requests, results, the tick, the recordings that wait, the audio to drop. The
inference and the editor thread each serve one queue in order. The loop and the
inference thread share an utterance's lifecycle (live, released, cancelled) as
an atomic. The editor thread asks the pane's thread for windows through a channel
it has to be woken for, and the pane's Neovim through a socket whose other
end may stop answering, die, or be another process' editor. What survives the
daemon is on disk: dictation files and the pointer to the pending one, WAVs, the
list `waiting.tsv`, the model's files; and the editors.

### Components

**Capture state machine** (`core/state.rs`). State: idle, recording (held,
releasing or latched, with instants), transcribing. Operations: one per event:
request, clock, speech, exhausted, window closed, finished. Hard: an
auto-repeat is a stop and a start from two processes, so a stop only becomes a
release when `REPEAT_WINDOW` has passed without a start; a latch is ended by a
press, which has to be told from the repeats of the press that latched.
Correct if no repeat is a release, no release is missed, a tap is one.

**Request intake** (`shell/control.rs`, `requests.rs`). State: the channel of
stamped requests, `early`, where the drain is. Operations: answer, next,
start_waiting, wait. Hard: the loop is late by as much as it likes, so every
request carries the time it was read, and the clock is run up to each stamp
before the request is taken; the time "now" may only be used once nothing
stamped before it can be waiting. Correct if the outcome is that of the stamps.

**Control socket and daemon start** (`shell/control.rs`, `lock.rs`, `run`).
State: the socket file, the listener it leads to, the lock. Operations: send with
one retry, activate, take the lock, refuse, bind, serve, stop. Hard: a client may
knock while a daemon stops or another starts, and a start request must not be
sent twice. Correct if a press is taken at most once, and a daemon that serves
can be reached.

**Session** (`core/session.rs`). State: the state above, the current utterance,
the committed hint, the decode configuration (deferred while a capture runs),
the tick, previews, notices. Hard: a configuration that arrives in a capture; a
decode that ends after the next capture began; a notice that outlives its reason.
Correct if only the current utterance's results move the session, and the window
shows the words not yet written and the worst of what went wrong.

**Event loop** (`shell/daemon/mod.rs`, `capture.rs`). State: recognition, live,
stopping. Operations: start, decode, discard, deliver (one per result), tick,
dispatch_recordings, shut_down. Hard: a press while the last capture decodes; a
model that is late or fails; the order of a pass; the bounded joins of a stop.

**Transcriptions** (`transcriptions.rs`) and **waiting list** (`recorder.rs`).
State: for each recording whose text is owed a stage (capturing, finishing,
kept, sent, retry) and how far its text reaches; on disk the list of them.
Operations: keep, advance, finished, settle, persist, list_what_is_left. Hard:
the list must name what a crash would lose and not what is being written; it is
replaced by a rename whose failures leave the old one; a name taken from a clock
that was set back.

**Inference thread and worker** (`engine.rs`, `core/decode.rs`, `core/segments.rs`).
State: whether the model is loaded, the worker's progress (utterance, offset).
Operations: load, tick, finish, recording, quit. Hard: one offset for work that
alternates between utterances; a failure in the middle of a job; a cancel or a
release between two segments; chunks that must not depend on when ticks came.

**Capture buffer** (`audio.rs`) and **recovery recordings** (`recorder.rs`).
State: the ring before a capture, its audio and where that begins, the stream;
per capture a queue and a WAV. Operations: start, the callback, discard_before,
snapshot, finish; open, push, write, detach, join, prune, scan. Hard: the callback
runs between any two steps of the loop; a writer may fail, fall behind or outlive
its capture; every writer prunes.

**Editor** (`editor.rs`, `nvim/*`, `lua/*`). State: the session with an editor,
the passage, sinks, the window's state, files. Operations: ensure, append, copy,
show, reload, quit; probe, attach, append and confirm, close; in the editor
append once by an operation's id, pin, save, follow, preview. Hard: an append whose
reply never came may have run, may run later or never; the editor may be anybody's;
two processes write the files. Correct if each text is once where it was spoken.

**Pane** (`pane/*`). State: the window, its screen, its Neovim child, the channel
and waker it shares with the editor thread. Operations: open, answer, replace,
close, step, teardown; draw, damage, place, type. Hard: a command can come between
two knocks, the user can close the window at any moment, and it must never take
the keyboard. 

**Configuration** (`config.rs`). Read at the start and before each window; an
edit must not end a capture or be half applied.

**Model files** (`models.rs`). State: files, `.part`s, a lock. Operations: check,
download, verify, rename, load, repair. Hard: several processes, kills and power
losses. Correct if only verified bytes take a file's name and a load that could
succeed is not given up.

Without state of interest: text formatting and timestamps, diagnostics, logging,
the examples and the packaging.

## Requests: `Hold`, `PushToTalk`, `Control`

`Hold` is `step` as operators, one per arm (`OnRequest`, `OnClock`, ...);
instants are naturals and wall-clock headings are left out. `PushToTalk` runs it:

- `Press`, `Shift`, `Repeat`, `Release`, `CancelBinding` are the keyboard and
  the window manager (external): each spawns client processes, and `Tick` lets
  time pass only when no client is overdue by more than `Jitter`;
- `Answer` and `Send` are the control thread: `answer` stamps a request and then
  queues it, in two steps where the desktop has "preempted";
- `ClockAtHead`, `TakeRequest`, `ReadClock`, `ClockAtNow`, `EndDrain` are
  `Requests::next`: each is the code between two points where another thread's
  step could matter, `ReadClock` and `ClockAtNow` being the two sides of the
  local `now`; `Gather` is `start_waiting` and `wait`; `Speech`, `Ceiling`,
  `WindowClosed`, `Finished` are the other events of the session.

The processes of one instant are read in any order, but a release's stop only
behind those of the repeat fired with it (`MayBeRead`). That is an assumption:
where the last repeat's start may be read after the key's own stop, a start in
the window makes the capture held again with the key up, and `MAX_CAPTURE` is
what bounds it.

`Control` has what is before a request is stamped: a client that connects to
whatever the socket file leads to, the systemd unit that starts a daemon for it,
daemons started by hand, the lock they take, the file they probe, remove, bind
and remove again, each in a step of its own, and the connections they leave
unserved. `robbed` says that a daemon removed the file of the unit that listens.

## The pipeline: `Dictation`

A capture is a number, in the order begun; it stands for the utterance, the
recovery WAV and the list's entry. Audio is the frames `1..captured[c]`, of
which those in `Speech` carry words, so that text is a set of frames and what
is in the file is a sequence of ranges. Decoding is any segmentation: a segment
ends at any frame with words in it, which covers whatever the detector finds
(`Chunking` has which segmentations the detector really yields).

| state | code |
|---|---|
| `pc` | the point in `Loop::run`, or in `shut_down` |
| `session` | `Session`: state, current, hint, enabled and configured (decode configuration and the deferred one), tick |
| `recognition`, `live` | the loop's fields |
| `trans` | `Transcriptions::entries`: stage, through, from |
| `mic`, `captured`, `base` | the capture, its frames, where the audio in memory begins |
| `wav`, `kept`, `list` | files on disk, `Pruning`'s kept set, `waiting.tsv` |
| `life` | each utterance's lifecycle atomic |
| `engine` | the inference thread: phase, job in hand, segment being decoded, the worker's `Progress` |
| `work`, `results`, `editor` | the three channels |
| `file` | the dictation file |

Actions, by actor:

- the microphone and disk: `AudioArrives`, `Prune` (a new capture's writer),
  `CutShort` (a recording damaged behind the daemon's back);
- the user: `StartCapture`, `EndCapture`, `DiscardCapture`, `AskToStop`,
  `CloseWindow`. What ends a capture is `PushToTalk`'s matter; here it may end
  at any point of the loop's intake of requests;
- the loop's pass: `TakeCapture` (after the post-roll, in which the loop does
  nothing else), `EndRequests`, one `Deliver...` per kind of result,
  `EndResults`, `SendTick`/`NoTick`, `DispatchRecording`, `EndPass` (with
  `discard_before`), and `Stall`, a pass that outlasts the tick interval;
- the inference thread: `LoadSucceeds`, `LoadFails`, `TakeWhileFailed`, one
  `Take...` per kind of work, `DecodeSegment`, `CommitSegment`, `CommitSilence`,
  `JobDone`, `JobFails`. A segment is decoded and committed in two steps
  because a release or a cancel in between counts;
- the editor thread: `WriteText`, `CopyText`, `EditorQuits`;
- stop and start: `ShutDown`, `JoinEngine` (the thread ended, or the grace did),
  `DrainResult`, `ListWhatIsLeft`, `Exit`; `Crash` at any step; `Boot`.

A fault is an action like any other, enabled while its kind is left in
`faults`. `"any"` bounds how many happen in all.
`lost` collects captures the user gave up or was told of (a capture whose recording
did not open is only in memory, as its start logs, and a stop gives it up), `replayed`
those decoded from a WAV, `crashed` those the list named at a crash: they exist
for the properties only.

## From the text to the file: `Passage`, `Neovim`, `Editor`, `Delivery`

`Passage` is the directory as operators on `fs`: the files, what each holds, the
file the pending pointer names. `Neovim` is one editor as operators: the requests
waiting in its `inbox`, the buffers loaded, the one pinned, the last append with
its operation's id. `Editor` composes them:

- `th` is the editor thread; `th.pc` names the reply it waits for, or the code
  between two waits. `TakeWork` takes an item; `Probe`, `ClearsSocket`,
  `Identify`, `OpenedBuffer`, `Attached`, `AttachFails` are `attach_existing`, in
  which whoever listens between a refused connection and the removal of the socket
  loses it; `OpenPane` to
  `PaneAttached` are `try_open_pane`; `Deliver`, `Confirmed`, `Reconnect`,
  `RepeatAppend`, `Unconfirmed` are an append with `confirm_append`;
  `WritePassage` is a text without an editor;
- `Host...` is the pane's thread as far as the session sees it (`PaneHost` has
  the rest), `Nvim(n)` an editor that runs the request at the head of its inbox,
  `Tool...` the other process, `spokenpad editor`, step by step;
- `Hangs`, `Dies`, `UserQuits`, `UserClosesWindow`, `UserRestarts`,
  `UserDeletes` and the kinds `write`, `disk`, `refuse`, `config` are faults;
  `disk` is a passage that cannot be written, settled or taken.

What the loop sends is a script, an item at a time: two texts of one utterance
with a preview and a copy; a text each of two utterances with a preview between;
or a text, a second press, and its text. Each ends with the quit.

`Delivery` is what the loop relies on: texts are settled in the order sent, each in
a file or reported lost, and what is in a file stays. `Delivers` is
`Editor`'s refinement of it under the mapping `sent <- texts sent`,
`settled <- texts the thread is done with`, `written <- texts in any dictation
file`, `lost <- texts the log says are lost`, liveness included.

## Beside the loop: `Chunking`, `PaneHost`, `ModelFiles`

`Windows` has `merge_spans` and its settling as operators on sets of samples.
`Chunking` grows a capture a sample at a time, ticks at any cadence, lets a tick
end early (a failed decode, a release), and compares what was decoded with one
decode of the whole. The detector is external: its spans are the speech, on its
grid.

`PaneHost` keeps the channel of commands apart from the knock, which goes to
the pane whose waker is published and is lost without one. A pane's teardown is
one step that types the `<Esc>`s of a half-typed command, saves, and falls back
to a file beside. `caller` is the editor thread; a reply may come after it gave up.

`ModelFiles` has each process between two operations on files others can see.
A block of a file is right, wrong or not on disk yet (`unsynced`), so a
power loss keeps the names and loses the bytes.

## The pane on the desktop

`Opening` has, for a desktop (window manager, monitors, layout, sway's socket
and rules), every step between the question and the mapped window at which the
user may reload sway or change the workspace, and the manager's frame,
placement and focus. `Geometry` is `core/geometry.rs` in small pixels.

`PaneDrawing` runs batches of Neovim's events over `Screen`, with exposes,
focus changes and resizes anywhere between, and keeps the set `stale` of rows that
show something else than they should. `Glyphs` draws frames of characters whose
fonts `fc-match` is asked for. `Typing` has a press from layout to Neovim,
whose mode the pane hears of later. `DictationWindow` has the windows of
the buffer with previews, followers, saves and reloads; `Landing` where a text
stands after the end of a file, in a buffer and without one, and in which cells
its preview was drawn before.

## A capture's data

`Microphone` runs the callback between any two steps of the loop: the ring
before a capture, the capture's memory up to `maximum_frames`, dropping what is
committed, the snapshot, a stream that goes stale and is opened again. `Recorder`
is one writer thread per capture with its queue, its failures, and pruning by
every one of them. `WaitingList` replaces the list line by line and renames it,
with a failure, a death or a changed clock anywhere. `Indicator` has what is
shown meanwhile, `Settings` what the capture runs on.

## What the runs show

Every run that is expected to pass explores its instance to the end.

| run | the question | properties |
|---|---|---|
| `requests` | Do the key's processes, read late and in any order, mean what the user did; does a press reach one daemon once? | `KeyEndsAreReal`, `PressInWindowContinues`, `SilenceSparesHeldKey`, `OncePerPress`, `ServedWhereConnected` |
| `settles` | Do loop and inference thread agree, and does what was begun end? | `TypeOK`, `TextInOrder`, `NothingToDrop`, `LiveIffTicking`, `ReleaseEnds`, `KeptIsSettled` |
| `faults` | Is every word written once or owed, across stops, crashes and failures? | `WrittenOnce`, `NoWordIsLost`, `ListedTextIsWritten`, `OwedSurvivesCrash` |
| `editor` | Does each text come to the right place of the right file, whatever editors, user and disk do? | `TextLands`, `InOrderOnce`, `NotBehind`, `UserCloseHolds`, `PreviewIsTrue` |
| `quits` | Does the thread end, and is it a delivery? | `QuitEnds`, `Delivers` |
| `threads` | Is a capture cut as its whole would be; does a pane end well; do model files? | `CutAsWhole`, `PaneEndsWell`, `NothingLeftBehind`, `OnlyVerifiedLands`, `LoadSettles` |
| `pane` | Does the window leave the focus and the pointer alone, show what it should and take what is typed? | `FocusIsLeft`, `GapIsKept`, `ShownOrPending`, `Converges`, `ReadAsPressed`, `LandsAsShown`, `WindowServesItsUser` |
| `capture` | Is the audio all there, the list whole, the notice right, the configuration safe? | `RecordedIsWhole`, `MemoryIsTheCapture`, `KeptIsThere`, `SavesWhole`, `ShowsWhatIs`, `SettingsAreSound` |
| `stall`, `prune`, `ahead`, `blank` | disagreements, below | one each, violated |

Of the properties, those that need a word:

- `KeyEndsAreReal` is `ReleaseWasReal` (no repeat is a release) with its other half
  `HeldMeansKeyDown` (no release is missed), `LatchEndsByPress` and `LatchIsNoTap`.
- `PressInWindowContinues` holds unless the control thread was preempted with a
  stamped request in its hand; see `stamped` below.
- `WrittenOnce` excludes a capture the list named at a crash, or in a list that
  could not be rewritten: both may have words written again, which the code
  accepts. `ListedTextIsWritten` is the converse, without crashes.
- `NoWordIsLost`: at rest, or after an orderly stop, every word is in the file
  or is owed from a WAV that has it, by an entry that begins before it; and the
  audio sent to the worker begins at or before the worker's offset, though it was
  cut by the loop on another thread's news.
- `OwedSurvivesCrash`: at every moment the list on disk names what a crash would
  otherwise lose, from no further than its text reaches.
- `InOrderOnce`: within a file, texts stand in order and once; a text is in two
  files only if its append was not confirmed.
- `NotBehind`: no file is written behind an editor that has it loaded, but for
  an editor of a pane told to close, and for the files in `hist.blind`, see
  `behind`, and in `hist.shared`, see `shared`; `InOrderOnce` leaves out the latter.
- `UserCloseHolds`: even before the close is recorded, text opens no pane.
- `PreviewIsTrue`: a push never repeats what is there as text, and its words land where
  they were drawn.
- `CutAsWhole`: the text has the seams of one decode of the whole capture, every
  word is in one window, and what is held of silence is bounded.
- `PaneEndsWell`: a close by the user is told to who asks, never for the next pane;
  what was typed is in its file or beside it, and nothing of the teardown's keys is.
- `FocusIsLeft` is conditioned on no reload or change of the workspace on sway
  between the question and the map; `GapIsKept` on room for the gap.
- `ReadAsPressed`, `LandsAsShown` and `KeptIsThere` name their exceptions; each is
  under "Known limits".

### Bounds

*requests*. Four desktops, each for what can interact: X11 without detectable
auto-repeat (stop and start pairs in either order, two presses); i3 with Shift, a
latch and silence; one press with speech, a gather, a closed window, a preempted
control thread and silence; a cancel and the ceiling. Time is in units chosen so
that the constants keep the code's order and differ by one or two
(`MINIMUM_HOLD` 1, `REPEAT_WINDOW` 3, `KEY_SETTLED` 5, `MAX_CAPTURE` 7). Two
presses cover "the first, and one that follows it"; `MaxWaiting` 2 is how late the
loop is, in requests, enough for a pair behind one. The 256 requests a pass
takes are above what the instances queue, and only split a drain. `Control`: one
press, one stop, three daemons (one that serves, one that takes over, one that is
refused), one start of the unit, two ends.

*settles*, *faults*. Two captures are the least at which one is current and another
still decodes, waits or fails; the code keeps no relation among three. Two frames
are the least at which a capture is partly decoded, and let an offset be at the
start, inside and at the end. Two starts of the daemon are "one and the next": what
a start reads is all in the list and the WAVs. Each kind of fault happens at
most once and `"any"` bounds how many happen in all: one in `settles`, two in
`faults`; two faults of one kind are not explored. `faults` has the word in the
first frame, `settles` in the second with a pre-roll before it.

*editor*, *quits*. The first script of two texts has a paragraph continued, the
second one begun behind another; both texts may meet any editor, so a third would
meet what the second does. `quits` adds the script of two presses, so that an
`ensure` finds the editor of the one before (in the first two it finds none or a
foreign one). Three editors are the one found, the one opened and the one that
replaces it; four files those they and the passage create. Any two faults of eleven
kinds in `editor`, one in `quits`, which checks liveness. Three of any kind, and four
of chosen kinds, were checked once on the script of two presses, at a few minutes
each: without `hist.shared` they violate `InOrderOnce` and `NotBehind`, with it
they hold.

*threads*. Ten half-second samples hold two chunks and the silence that settles
the first; pads, edges and target differ from each other as in the code. Two panes,
since a close is only ever mistaken for the next one's. One daemon, one
`fetch-models`, two files of two blocks (a part with one, a whole one) and three
faults.

*pane*. About twenty-five desktops, with one change of the user's between two steps
of an opening; every place of the pointer on two monitors of different sizes and
offsets. Two rows, one column: damage is by rows, and with two a row is drawn, shown,
scrolled away or left. Three characters on two pages, two fonts, a budget of one.
Three presses cover a dead key, the composed one and the one after. Two windows of two
heights. A file of up to three characters and a text of up to three, over break,
space and letter, in widths 2 to 4.

*capture*. Two captures and five samples in buffers of one and of three, a pre-roll and
a ceiling of two, a queue of three and a quota of three: a buffer may cross either,
fill the queue at once or leave one place in it. Two seconds, one name each, two held
recordings; one second of two names was checked once, and the theorem `ListIsSavedWhole`
is for any number of either. Two edits of the settings between two windows.

Deadlock is not checked: a daemon that stopped for the last time, a user who
presses no more key, an editor that is gone do nothing more, in every module.

### Fairness

- `Dictation` (`FairSpec`, `settles` alone): weak fairness on the loop's pass
  (`Pass`), the shutdown, the inference thread and the editor: threads the scheduler
  runs. The loop has no blocking call but bounded waits, and each thread blocks on
  its own queue only. `LoadSucceeds` is in the inference thread's step: a model that
  neither loads nor fails is outside the program. `CommitSilence` is not needed for
  progress and has no fairness.
- `Editor`: the loop sends its script and starts to quit, the thread and the pane's
  thread go on (each wait has a deadline, which is a step of theirs), and an editor
  that does not hang runs what it is sent. A hung one need never resume.
- `MCThreads`: a process over the model files goes on, for every wait but the lock
  has its timeout; the pane's thread serves an event it has, and its caller's steps
  go on once begun. `BACKSTOP`, an hour, is not relied on.

Nothing is assumed of the user, of audio, of other processes or of faults.

## What is proved

With TLAPS, for every value of the constants. Each invariant was checked by TLC on
small instances before it was proved.

Over `Dictation`, for every number of captures, frames and starts, every pre-roll,
every placement of speech and every budget of faults, from `PipelineAssumption`
alone (the constants are naturals, the pre-roll fits in a capture, `Speech` lies
within one), but for one hypothesis of two of them, named below:

- `TypeCorrect` (`LoopProofs`): `Spec => []TypeOK`. `TypeOK` is not
  inductive: that `session.current` names a capture where the code unwraps it,
  that the microphone captures the current one, and that a WAV is no longer than
  its capture are needed to type what is sent. `TypeInv` adds them as `Attached`
  and `Recorded`. One lemma per action, gathered in `StepTypes`. The lemmas
  `EarliestWaits` (the recording dispatched is one that waits) and those about
  entries are used by the proofs below.
- `NothingDropped` and `TicksWithModel` (`LoopProofs`):
  `Spec => []NothingToDrop` and `Spec => []LiveIffTicking`. The invariant
  `ReadyInv` says that one attempt at the model is out at a time: with the
  thread that loads, as a verdict in the results (at most one, with whatever
  "preparing" there is before it), as what the loop made of it in `recognition`,
  or as the `Load` that asks for the next (`News`, `Orders`). `Quitting` says that
  Quit is sent last and only by a loop that leaves; without it an exited thread
  could be sent work. `Ticks` relates `recognition` to the session's
  configuration, applied or deferred. Most actions are `Quiet`: they move the
  channels, the loop or the session in one of a few ways that disturb none of
  it, which is proved once; the eleven that do disturb it are proved one by one.
- `OwedIsListed` (`LoopProofs`): `Spec => []OwedSurvivesCrash`, which is inductive
  once the writes of the list that failed are known never to come back
  (`WritesLeft`). Most actions are an `OwedMove`: they owe nothing that was not
  owed, from no further back, and leave the list alone. What is left is the actions
  that write the list, and those that begin to owe a recording.
- `TextKeepsOrder` (`LoopProofs`): `Spec => []TextInOrder`. What a capture's audio
  becomes is one `Stream`: work, the job in hand, results, the editor's queue, the
  file. The invariant `OrderInv` says of any two things in it, the one behind is not
  of an earlier capture unless that one is decoded from its WAV, and nothing of a
  capture is behind what ended it; and that of a capture still `Open`, under way or
  waiting, nothing that ends it is on the way (`InStream`). `Numbered` has that the
  capture under way is the latest, `Emptied` that a process takes with it what was
  under way. An action either puts something at the end of the stream, moves the head
  of one part to the end of the next, or drops something; each move is a lemma about
  `Stream`.
- `WordsWrittenOnce` (`OnceProofs`): `Spec => []WrittenOnce`, of constants with
  `Faults["stall"] = 0`: with stalls the run `stall` refutes it. `OnceInv` is on top of
  the three invariants above. That two texts of a capture are apart (`TextApart`) needs
  where decoding begins: `Flow` says that the job goes on where the text of its
  capture ends, that a recording's work is to be read from there, and that the
  worker's offset is there for a capture decoded as it is spoken. The offset is
  cleared by any other capture's work, so `Flow` has as well that nothing of a capture
  is ahead of another's work in the queue if ticks or a final decode of it are behind
  that, or still to come. Ticks stay behind the recordings that wait because a tick is
  not due in the pass its capture began in (`NotDue`): this is what a stall breaks.
  `Entered` and `Listed` relate the offsets that the daemon remembers, and those an
  orderly stop leaves on disk, to the text.
- `NothingLost` and `ListedIsWritten` (`LossProofs`): `Spec => []NothingIsLost` and
  `Spec => []ListedTextIsWritten`, stalls or not. Text only moves on, from a result to
  the editor's queue to the file (`MovesOn`). By `LossInv` every capture that is `Due`
  is `Accounted` for: its text is complete, or its entry says what of it is still to
  come, or the end of it is on its way (`ToEnd`), or nobody is left to bring it
  (`Forsaken`); and neither the offsets of the entries nor those of the list are ahead
  of the text that is safe by then. What the results and the work in the queue say has
  been decoded was reported ahead of them. What is left at a stop (`LeftBehind`) is in
  a whole WAV that the list names.
- `WordsNotLost` (`LossProofs`): `Spec => []NoWordIsLost`, where `Faults["stall"] = 0`.
  Beyond `NothingLost` it says that the worker is sent a capture without a gap.
  `GapInv` (in `OnceProofs`): where the loop heard of text, in `session.hint` and in the
  starts of the work it sent (`Heard`), flows as the text itself does, by the same
  lemmas on `Flow`; so where work begins is never past the worker's offset. Nothing is
  discarded of which the loop did not hear (`BaseHeard`). The hypothesis is for
  the same reason: a recording's work that clears the worker's offset between two
  ticks of a capture.

Over `Editor`, for every set of scripts (`EditorAssumption` says only that a script is
a sequence of items), both modes, any number of editors, files and faults, and
whatever the users and `spokenpad editor` do meanwhile:

- `TextIsKept` (`EditorProofs`): `Spec => []TextLands`. Two facts make `EditorInv`.
  `OneAsked`: of all the requests in all the editors' inboxes there is one at most
  that is neither a push nor orphaned, the last one its editor was sent, and the
  thread waits for what it answers; if that is an append's answer, the append is of
  the text in hand. So the answer the thread reads is never an older request's, though
  a request it gave up on may run much later. `EditorOK`: a buffer's texts, and the
  text an editor appended last, are in some file, so that a repeat answered as written
  was written, and an editor that writes its buffer over a file takes no text from it.
  About the directory the lemmas `Overwritten`, `AppendedPending`, `PassageMoved` and
  `ClaimedPassage` say that no operation on it loses a text (`Held`). `ItemFits` has
  that the program point and the item in hand agree: what settles a text is `Confirmed`
  and `WritePassage`, and nothing else passes over one.
- `EditorDelivers` (`EditorProofs`): `Spec => D!Init /\ [][D!Next]_(D!vars)`, the part of
  `Delivers` without fairness. `StepDelivers` maps each step: `SendItem` to `Send`,
  `Confirmed` and `WritePassage` to `Settle`, an append an editor runs to `Write`,
  whether the thread still waits for it or not, and every other step to none.

Over the sum of instances in which the runs check them, with the instance's
constants left free:

- `FocusNotTaken` (`PaneProofs`): `Spec => []FocusIsLeft`, for any desktops, frames
  and pointers. `OpeningInv`: after the rule was added and asked about, this sway has
  it and another window is there, unless something changed `since`.
- `NothingStaysStale` (`PaneProofs`): `Spec => []ShownOrPending`, for a grid of any
  size and any texts. `Drawable` adds to it the shape of the screen and of what is
  pending. `UnionHasBoth` and the lemmas on `Least` and `Most`, by well-founded
  induction from the library, give that a union of damage covers both parts;
  `Accounted` is what every event of Neovim keeps: rows that changed are damaged.
- `FramesConverge` (`PaneProofs`): `Spec => []Converges`, for any characters, fonts,
  budget and costs. By `GlyphsInv` time is spent in a frame only on a character that
  was not settled when it began, and one is left out only when the budget is spent.
- `PressesAreRead` (`PaneProofs`): `Spec => []ReadAsPressed`, for any number of
  presses, with a Compose table or without one. `NotationIsRead`: what is typed for
  any key with any modifiers, composed or not, is read as that key. `TypingInv`: a
  Ctrl+V that waits as a key, pressed when all was settled, is the first that waits,
  so the mode is still the one it was pressed in; one that waits as a paste has no
  key before it.
- `DownloadsLandVerified` (`ThreadsProofs`): `Spec => OnlyVerifiedLands`, for any
  sets of daemons and commands, files and faults. `FilesInv`: who works on a file has
  the lock; so the `.part` is what that process received, and is the pinned bytes when
  it renames. `ModelFiles` assumes of its constants that no process is `Nobody`, the
  holder of a free lock.
- `PressTakenOnce` (`RequestsProofs`): `Spec => []OncePerPress`, for any number of
  clients, daemons and ends of them. `SocketInv`: a press is in one place of one
  listener's queue at most (`OnceInLine`); a client that may still connect is in none
  and was not taken; whom a daemon answers was taken, once. A daemon's probe of the
  socket, which is in the queues too, is told from a press by the assumption that no
  client is `Nobody`.
- `ServerIsReached` (`RequestsProofs`): `Spec => []ServedWhereConnected`. `Serving`:
  only the holder of the lock probes, binds, serves or removes the socket file
  (`Locked`); a daemon of the unit never does, leaves the waiting only with the lock
  or told to stop, and runs only while the unit listens (`ByUnit`); so the file is the
  unit's while that listens and nobody `robbed` it (`UnitsPath`), and that of a daemon
  started by hand is its own, or the unit's, as long as it serves (`OwnPath`): the
  theorem needs no exception for that one. `NextIsFresh` finds the daemon that starts
  next.
- `PressContinues` and `LatchIsKept` (`RequestsProofs`): `Spec => []PressInWindowContinues`,
  and of `LatchIsNoTap`, for any keyboard, delays and bounds. `KeyInv`: requests are
  taken in the order of their stamps, through the channel, `early` and what the
  control thread holds (`InOrderOwing`); the clock is given no time that a request
  still owing is earlier than (`Passed`), but for a preempted control thread; so what a
  release ended is earlier by more than the repeat window than every request to come
  (`AfterRelease`), and a capture's start and its latch are no later than one
  (`Pressed`). Of the durations it needs only that the minimum hold is no longer than
  the repeat window.
- `RecordingsAreWhole` and `KeptRecordingsStay` (`CaptureProofs`):
  `Spec => []RecordedIsWhole` and `Spec => []KeptIsThere`, for any captures, queue
  room, quota, pre-roll, ceiling and device buffers. `MicrophoneInv` has of each
  recording a `Chain`: what is written and what is queued are together what the
  device delivered, said by where in the capture each queued buffer ends, so that no
  sum over the queue is needed (`ChainGrows` when a buffer is queued, `ChainMoves`
  when one is written, `ChainWhole` when none is left). A recording that did not fail
  is `Fed` until its capture ends, then its end is waited for and only then its
  writer is done (`Attended`); a writer ends without failure only if told to and
  with its queue empty (`Drained`). `OneWriter`: while none has failed, the last
  recording's is the only writer and its file is there, so none prunes a recording
  about to be kept. All that writers do is one relation, `Steps`, proved once
  (`StepsKeep`).
- `MemoryIsRight` (`CaptureProofs`): `Spec => []MemoryIsTheCapture`, for any ceiling,
  pre-roll and buffers. By `MemoryInv` the chunks put together (`Remembered`) are part
  of what was delivered, from where the capture says they start (`IsPart`): a callback
  lengthens both, or only what was delivered once the ceiling was reached
  (`PartTakesIn`, `PartGrows`); what is dropped is a beginning (`FlattenSplit`,
  `PartCut`); and the fewest chunks that reach back far enough end as all of them do
  (`SnapshotIs`). Without a capture the ring is the last that was heard (`IsRecent`),
  and what was missed, or was the capture's before, is older (`RingOK`).
- `ListIsSavedWhole` (`CaptureProofs`): `Spec => SavesWhole`, for any seconds, names
  and stamps, and any number of recordings held. By `ListState` a list names no file
  that was not yet used, and what is staged is a beginning of what the daemon holds.
  That a deleted recording only takes its own line with it (`ReadLater`), and that an
  entry with a whole heading is read back as it was written (`ReadWhole`), are facts
  about sequences of any length. They are proved by induction over a set of sequences:
  by the least length at which one is missing (`AllSequences`), a set that has the
  empty sequence, and each it has with one element more, has all.
- `WindowShowsWhatIs` (`CaptureProofs`): `Spec => []ShowsWhatIs`, for any captures,
  frames, window and notices the loop reports (each has a priority, by
  `IndicatorAssumption`). By `IndicatorState` a preview has nothing up to the epoch of
  the last commit and the hint is never past it (`SessionOK`); what work and results
  say of a capture's text is in order and not ahead of what is written (`WorkOK`,
  `Told`); a notice that was raised ranks no higher than the session's (`Kept`). A
  paused preview is the least of them, so its end uncovers none.
- `SettingsKeepSound` (`CaptureProofs`): `Spec => []SettingsAreSound`, for any settings,
  edits and bounds: the daemon runs on a valid configuration (`ConfigOK`), by which a
  capture's next tick, or the answer to the last, is due within an interval
  (`Followed`), so the silence that ends it is longer than one.

Only model-checked: every other property. Liveness under fairness (of `Delivers` too,
whose steps are proved above) and `ENABLED` are
not in the prover's reach. Induction over data is so only where what is to be shown is
a set of sequences (`AllSequences`); what a recursive definition computes would stay
with TLC, but no module here has one. Of the safety
properties, those whose invariant would be the composition of several processes'
program points (`KeyEndsAreReal` but for its last part, `InOrderOnce`, `NotBehind`, `PaneEndsWell`) and
those that compare a fold with a whole (`CutAsWhole`, `LandsAsShown`) stay with TLC, as do
`SilenceSparesHeldKey` and `GapIsKept`.

## Disagreements between the code and what it says

Each of the first four is a run that violates one property; `PROJECT.json` quotes
both sides.

1. `stall`: in a pass that outlasts `preview.interval` the tick of a new capture is
   sent before an older recording, whose work clears the offset the tick had
   moved; the pre-roll's words are decoded and written again.
2. `prune`: a capture's WAV is neither open nor kept while its tail decodes;
   pruned then, its failed decode promises a retry of a file that is gone.
3. `ahead`: the list's offsets are those of text delivered to the editor's queue,
   not of text written; a kill between the two skips it.
4. `blank`: the font that fontconfig names for one character stands for its whole
   page of 256; a later character of it that the font lacks is drawn blank
   although another font has it.

Met while modelling, and left as named exceptions of the properties:

- `stamped` (`control.rs:393`, `requests.rs:76`): `answer` stamps, then queues;
  between the two the loop can close the window the request continues. The comment
  in `Requests::next` covers only what is queued by the time it looks again.
- `behind` (`nvim/mod.rs:491-560`): the retry in `confirm_append` pins the pending
  passage through `attach_existing` without `settle`; the path then differs, it gives
  up, and `append_detached` writes that passage behind the editor that has it open,
  which `passage.rs:12-19` says never happens.
- `shared` (`passage.rs:82-98`, `nvim/mod.rs:1414-1442`): a pointer that `settle` cannot
  remove stays, with a warning, and text without an editor is then written behind the
  one that has the passage open; and a passage claimed by a daemon that opens an editor
  on it, or gave up on that, is still `spokenpad editor`'s to take, and to restore.
  The same lines 12-19 say otherwise. A pointer that `take` cannot remove ends the
  tool and nothing else; one that it cannot restore leaves a file nothing names.
- `told` (`host.rs:60-64`, `pane/mod.rs:455`): `:q` and one more key in the same
  batch of events make `input` fail before the close is seen; the pane goes with no
  close recorded.
- `verified` (`models.rs:182-184`): a daemon whose load failed and that waits for
  the lock while `fetch-models` repairs the file finds all verified and reports that
  the model cannot be loaded, though now it could.
- `frame` (`pane/mod.rs:209-214`): a batch with a flush and part of the next frame,
  or an expose amid a frame, draws half of it; a `grid_resize` to fewer rows damages
  none of those that vanish.
- `placed` (`spokenpad.lua:586-588`): the text's cells are not the preview's where the
  kept line ends in a break or space, or where its last word moves once the
  separator is added.
- `slot` (`session.rs:723`): the comment says a key press is the only other way the
  notice changes; `resume_previews` (680) clears `PreviewPaused`.

## Known limits the models show

- Control: a request accepted while its daemon stops may be queued and never
  processed; a press reported as failed may still be taken; a daemon started by hand
  may remove the file of the unit's socket, where the unit began to listen between the
  connection that was refused and the removal (`control.rs:267-274`) or since the
  daemon bound the path (243-249, whose comment has only daemons in mind). Whom the
  unit starts is then not reached until the unit is started again.
- Desktop: on sway, a reload or a switch to an empty workspace between the question
  and the map lets the pane take the focus; on a manager that places the frame, where
  the assumed frame has no room, the window is partly off its monitor until it is
  moved by its own frame.
- Keys: a key typed right after Ctrl+V may overtake the paste; Ctrl+V typed before
  the pane heard of a change of the mode does what the old mode does; a cancelled
  Compose sequence swallows its second key; Caps Lock with Ctrl and a letter is read
  as with Shift.
- A press whose new window is refused while the user was
  closing the old one forgets that close, so that the next text opens a window:
  `UserCloseHolds` fails with two presses, and the scripts of `editor` have one.
- Socket: an editor that begins to listen between the refused connection and the
  removal of a stale socket (`nvim/mod.rs:719-723`, 2087-2088) is left without one: a
  pane is given up at its deadline, an editor of the user's is never attached to.
- Pane: a command that takes more than three `<Esc>`s to end loses what was typed
  after the last save. A second, lower window on the buffer stops following. A
  failed or killed `fc-match` leaves a page blank.
- Recordings: two writers that prune at once may prune more than the quota asks for;
  samples dropped by a full queue splice the WAV, which is then not called recorded.
- A list that cannot be rewritten at a stop makes the next start write a finished
  recording again. A clock set back may give a recording the name of a listed one the
  user deleted; the next start would read it from the old offset (assumed away).
- Chunking: a chunk's trailing pad may reach into the next chunk's speech, which is
  then heard twice (`docs/decisions.md:825-831`, not fixed there); `CutAsWhole` speaks of
  leading reach only.

## Abstractions, and what is not modelled

- Text is which frames, or which text of the script, it is; only in `Landing` is it
  characters. Wording, paragraphs' formatting, timestamps and headings are left out.
- A failed write of the list, of a WAV or of a dictation file is a step that changes
  nothing or a part, not a particular error. Threads end only as the code has them
  end: a panic, which makes the loop return an error, is not modelled.
- `Dictation` keeps its microphone, recordings and editor simple: what they promise is
  what `Microphone`, `Recorder` and `Editor` are checked for, not composed with it.
  `Hold` is composed with the intake, not with the pipeline: in `Dictation` a capture
  may end at any time. Captures there just stop growing at `MaxFrames`.
- The retry of a segment whose text came out empty, and the settled prefix of a
  preview, are not modelled.
- Not modelled: the framing of RPC messages; the winbar, highlights and the
  clipboard's tools; the mouse and the blending of pixels; rasterising; X11 requests
  themselves; the choice of the audio device; each setting's own range;
  `status` and the diagnostic commands; the text filters and timestamps, functions
  of one text to another whose correctness is a matter of wording; the recognizer
  and detector, of which the models take that a decode ends or fails and what spans
  say of silence; examples, evaluation and packaging.

## Plan

The models above are the system as far as it can be checked usefully; what is next
is to prove more of it, in this order.

1. `LatchEndsByPress` and `SilenceSparesHeldKey` over `PushToTalk`. They hold of
   keyboards whose repeats come, with a client's delay, within the repeat window: an
   assumption that relates `RepeatDelay`, `RepeatInterval`, `Jitter` and the durations.
2. `InOrderOnce` and `NotBehind` over `Editor`, on top of `EditorInv`: which editor
   has a file open, and what of it its buffer holds.
3. The lemmas of `Windows` behind `CutAsWhole`: what a settled chunk excludes.

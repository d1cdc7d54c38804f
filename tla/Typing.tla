------------------------------- MODULE Typing -------------------------------
(***************************************************************************)
(* Typing into the pane: a key press through the layout and the Compose    *)
(* machine (pane/keyboard.rs, pane/xkb.rs), what it does (core/keys.rs),   *)
(* and what Neovim makes of it, whose mode the pane learns later.          *)
(*                                                                         *)
(* A keysym stands for its kind: letters, `<`, a letter of a script with   *)
(* keysyms of its own, a key with a name, a modifier, a dead key.          *)
(***************************************************************************)
EXTENDS Naturals, Sequences, FiniteSets

CONSTANTS
  MaxPresses, \* bound: presses
  HasCompose  \* whether the locale has a Compose table

TypingAssumption == MaxPresses \in Nat /\ HasCompose \in BOOLEAN

VARIABLES
  pressed,  \* presses so far
  compose,  \* the Compose machine: "none", or a dead key it waits after
  known,    \* the mode the screen was last told
  mode,     \* Neovim's
  keys,     \* the keys Neovim has not read
  requests, \* the pastes it has not run
  reports,  \* its changes of mode the pane has not read
  done      \* history: the last that Neovim read or ran, and the press it was

vars == <<pressed, compose, known, mode, keys, requests, reports, done>>

Capitals == {"A", "V"}
Lower(k) == CASE k = "A" -> "a" [] k = "V" -> "v" [] OTHER -> k
Latin == {"a", "e", "i", "v", "<", "eacute"} \cup Capitals
Named == {"Tab", "Esc"}
ModifierKeys == {"Shift_L"}
Dead == {"dead_acute"}
Foreign == {"Cyrillic_de"}
Keysyms == Latin \cup Named \cup ModifierKeys \cup Dead \cup Foreign

(* The text a key types; with Ctrl held a letter gives a control character. *)
Text(keysym, held) ==
  IF keysym \in Latin THEN IF "C" \in held THEN "control" ELSE keysym
  ELSE IF keysym \in Foreign THEN "de" ELSE "control"

(* Shift is held for a capital, unless Caps Lock is on. *)
Presses ==
  {[keysym |-> k, held |-> h] : k \in Keysyms \ {"eacute"}, h \in {{}, {"S"}, {"C"}, {"C", "S"}}}

Nothing == [kind |-> "nothing"]
Plain(token) == [kind |-> "text", token |-> token, held |-> {}]
Bracketed(name, held) == [kind |-> "name", token |-> name, held |-> held]
PasteClipboard == [kind |-> "paste"]

-----------------------------------------------------------------------------
(* core/keys.rs *)

(* `character`: the keysym's own, or else the text's one. *)
Character(keysym, text) == IF keysym \in Latin THEN keysym ELSE text

(* `spell`. *)
Spell(character) == IF character = "<" THEN "lt" ELSE character

(* Variant: a letter keeps its case. *)
Cased(character, held) == Bracketed(Spell(character), held \ {"S"})

(* Neovim reads `<C-A>` as Ctrl-A, so a capital's Shift is named. *)
Folded(character, held) ==
  IF character \in Capitals THEN Bracketed(Lower(character), held \cup {"S"})
  ELSE Bracketed(Spell(character), held \ {"S"})

(* `notation`. *)
Notation(keysym, text, held) ==
  IF keysym \in ModifierKeys \cup Dead THEN Nothing
  ELSE IF keysym \in Named THEN Bracketed(keysym, held)
  ELSE IF held \subseteq {"S"}
    THEN IF text = "<" THEN Bracketed("lt", {}) ELSE Plain(text)
  ELSE Folded(Character(keysym, text), held)

(* `press`, in the mode the pane knows. *)
PressDoes(keysym, text, held) ==
  IF keysym \in {"v", "V"} /\ "C" \in held /\ ("S" \in held \/ known # "normal")
    THEN PasteClipboard
  ELSE Notation(keysym, text, held)

-----------------------------------------------------------------------------
Init ==
  /\ pressed = 0 /\ compose = "none" /\ known = "normal" /\ mode = "normal"
  /\ keys = <<>> /\ requests = <<>> /\ reports = <<>>
  /\ done = [press |-> Nothing, did |-> Nothing, settled |-> FALSE, mode |-> "normal"]

(* Whether Neovim has read, and the pane has heard of, all there was. *)
Settled == keys = <<>> /\ requests = <<>> /\ reports = <<>>

(* A paste that waits may come after the keys typed next. *)
Overtaken == [i \in DOMAIN requests |-> [requests[i] EXCEPT !.settled = FALSE]]

(* `Keyboard::compose`: the keysym and text that are left of a press, if any;
   a modifier does not disturb a sequence. *)
Composed(press) ==
  LET typed == [keysym |-> press.keysym, text |-> Text(press.keysym, press.held)]
  IN  IF ~HasCompose \/ press.keysym \in ModifierKeys THEN [after |-> compose, got |-> <<typed>>]
      ELSE IF compose # "none"
        THEN [after |-> "none",
              got |-> IF press.keysym = "e" THEN <<[keysym |-> "eacute", text |-> "eacute"]>> ELSE <<>>]
      ELSE IF press.keysym \in Dead THEN [after |-> press.keysym, got |-> <<>>]
      ELSE [after |-> "none", got |-> <<typed>>]

Press(press) ==
  LET fed == Composed(press)
      does == IF fed.got = <<>> THEN Nothing
              ELSE PressDoes(fed.got[1].keysym, fed.got[1].text, press.held)
      item == [does |-> does, settled |-> Settled,
               press |-> IF fed.got = <<>> THEN press ELSE [press EXCEPT !.keysym = fed.got[1].keysym]]
  IN  /\ pressed < MaxPresses /\ pressed' = pressed + 1
      /\ compose' = fed.after
      /\ keys' = IF does.kind \in {"text", "name"} THEN Append(keys, item) ELSE keys
      /\ requests' = IF does = PasteClipboard THEN Append(requests, item)
                     ELSE IF does = Nothing THEN requests ELSE Overtaken
      /\ UNCHANGED <<known, mode, reports, done>>

(* `MappingNotify`: `refresh` reads the layout again. *)
Refresh ==
  /\ compose # "none" /\ compose' = "none"
  /\ UNCHANGED <<pressed, known, mode, keys, requests, reports, done>>

(* What Neovim reads: a key, and the modifiers with it.  In brackets it does
   not tell a letter's case; a bare `<` begins a name. *)
ReadAs(does) ==
  IF does.kind = "text"
    THEN [key |-> IF does.token = "<" THEN "the start of a name" ELSE does.token, held |-> {}]
  ELSE IF does.token = "lt" THEN [key |-> "<", held |-> does.held]
  ELSE [key |-> Lower(does.token), held |-> does.held]

NextMode(read) ==
  IF read = [key |-> "i", held |-> {}] /\ mode = "normal" THEN "insert"
  ELSE IF read.key = "Esc" /\ mode = "insert" THEN "normal"
  ELSE mode

Done(item, did) == [press |-> item.press, did |-> did, settled |-> item.settled, mode |-> mode]

NeovimReads ==
  /\ keys # <<>> /\ keys' = Tail(keys)
  /\ LET read == ReadAs(Head(keys).does)
     IN  /\ mode' = NextMode(read)
         /\ reports' = IF mode' # mode THEN Append(reports, mode') ELSE reports
         /\ done' = Done(Head(keys), read)
  /\ UNCHANGED <<pressed, compose, known, requests>>

(* A request waits until no key is left to read. *)
NeovimPastes ==
  /\ keys = <<>> /\ requests # <<>> /\ requests' = Tail(requests)
  /\ done' = Done(Head(requests), PasteClipboard)
  /\ UNCHANGED <<pressed, compose, known, mode, keys, reports>>

(* `mode_change` reaches the screen. *)
ModeChange ==
  /\ reports # <<>> /\ known' = Head(reports) /\ reports' = Tail(reports)
  /\ UNCHANGED <<pressed, compose, mode, keys, requests, done>>

Next == (\E press \in Presses : Press(press)) \/ Refresh \/ NeovimReads \/ NeovimPastes \/ ModeChange

Spec == Init /\ [][Next]_vars

-----------------------------------------------------------------------------
CtrlV(press) == press.keysym \in {"v", "V"} /\ "C" \in press.held

(* The key a press means; for a letter with Ctrl, the case is a Shift. *)
Meant(press) ==
  LET key == IF press.keysym \in Foreign THEN "de" ELSE press.keysym
  IN  IF "C" \in press.held /\ key \notin Named
        THEN [key |-> Lower(key), held |-> {"C"} \cup (IF key \in Capitals THEN {"S"} ELSE {})]
      ELSE IF key \in Named THEN [key |-> key, held |-> press.held]
      ELSE [key |-> key, held |-> {}]

(* Neovim reads every press as the key that was pressed, composed ones
   included; and Ctrl+V pastes where Neovim types text and only there, but for
   a held Shift, unless it was typed before Neovim had read the keys before it
   and the pane heard of the mode, or a key was typed after it too soon. *)
ReadAsPressed ==
  done.press # Nothing =>
    IF ~CtrlV(done.press) THEN done.did = Meant(done.press)
    ELSE done.settled =>
      (done.did = PasteClipboard <=> done.mode = "insert" \/ "S" \in done.press.held)
=============================================================================

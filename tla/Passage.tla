------------------------------ MODULE Passage -------------------------------
(***************************************************************************)
(* The dictation files and the pending passage (shell/nvim/passage.rs).    *)
(*                                                                         *)
(* A file is a number, in the order they were created; what it holds is a  *)
(* sequence of paragraphs, and a paragraph a sequence of texts.  The       *)
(* pointer file `<socket>.pending` names a file, which may be gone.        *)
(*                                                                         *)
(* `fs` is the directory: the files that are there, what they hold, the    *)
(* file the pointer names (None without a pointer) and the next new name.  *)
(* Each operation below holds the passage's lock from its start to its     *)
(* end, so it is one step whatever process runs it.                        *)
(*                                                                         *)
(* A definition under "Variant:" is not the code's: it is the one after it *)
(* with a mistake, kept to show that the properties notice.                *)
(***************************************************************************)
EXTENDS Integers, Sequences, SequencesExt

CONSTANT MaxFiles  \* bound: dictation files created

ASSUME FilesAssumption == MaxFiles \in Nat

None == 0

Files == 1..MaxFiles

EmptyDirectory ==
  [there |-> {}, holds |-> [f \in Files |-> <<>>], pointer |-> None, next |-> 1]

(* The paragraph rule the passage and the editor share: continued text
   extends the last paragraph, if there is one; other text opens one. *)
Landed(paragraphs, text, continued) ==
  IF continued /\ paragraphs # <<>>
    THEN [paragraphs EXCEPT ![Len(paragraphs)] = Append(@, text)]
    ELSE Append(paragraphs, <<text>>)

Texts(paragraphs) == FlattenSeq(paragraphs)
TextsIn(paragraphs) == UNION {ToSet(p) : p \in ToSet(paragraphs)}

(* `new_file`: a name no file has; there are none left past the bound. *)
NameLeft(fs) == fs.next \in Files
WithNewFile(fs) ==
  [fs EXCEPT !.there = @ \cup {fs.next}, !.holds[fs.next] = <<>>, !.next = @ + 1]

(* A pointer to a file that is gone is ignored. *)
Pending(fs) == IF fs.pointer \in fs.there THEN fs.pointer ELSE None

Write(fs, file, text, continued) ==
  [fs EXCEPT !.holds[file] = Landed(@, text, continued), !.there = @ \cup {file}]

(* `append`, and the same with a pointer that could not be written. *)
Writable(fs) == Pending(fs) # None \/ NameLeft(fs)

AppendPending(fs, text, continued) ==
  IF Pending(fs) # None
    THEN Write(fs, Pending(fs), text, continued)
    ELSE [Write(WithNewFile(fs), fs.next, text, continued) EXCEPT !.pointer = fs.next]

AppendUnpointed(fs, text, continued) ==
  [AppendPending(fs, text, continued) EXCEPT !.pointer = fs.pointer]

Settle(fs, pinned) ==
  IF Pending(fs) = pinned /\ pinned # None
    THEN [fs EXCEPT !.pointer = None]
    ELSE fs

(* Variant: the pointer stays while the editor starts. *)
TakeKeeping(fs) == fs

Take(fs) == IF Pending(fs) # None THEN [fs EXCEPT !.pointer = None] ELSE fs

(* Any pointer, dangling or not, keeps the passage from being restored. *)
Restore(fs, file) ==
  IF fs.pointer = None THEN [fs EXCEPT !.pointer = file] ELSE fs

(* `NewFileGuard`: the file the next editor opens on, and what becomes of it
   when none did.  `claim` reads the pointer and leaves it. *)
ClaimedFile(fs) == IF Pending(fs) # None THEN Pending(fs) ELSE fs.next
Claimed(fs) == IF Pending(fs) # None THEN fs ELSE WithNewFile(fs)

(* Variant: a file nobody opened is removed, whatever it holds. *)
UnclaimedAny(fs, file) == [fs EXCEPT !.there = @ \ {file}]

Unclaimed(fs, file) ==
  IF file \in fs.there /\ fs.holds[file] = <<>>
    THEN [fs EXCEPT !.there = @ \ {file}]
    ELSE fs
=============================================================================

------------------------------ MODULE Delivery -------------------------------
(***************************************************************************)
(* What the editor thread promises the event loop: each text it is sent is *)
(* settled, in the order spoken.  A settled text is in a dictation file or *)
(* reported lost, and no text that is in a file goes from it.  A text may  *)
(* be written long after it was settled: its append was not confirmed, and *)
(* Neovim ran it when it woke up.                                          *)
(***************************************************************************)
EXTENDS Naturals

CONSTANT Spoken  \* the texts, numbered in the order they are spoken

VARIABLES sent, settled, written, lost

vars == <<sent, settled, written, lost>>

Init == sent = {} /\ settled = {} /\ written = {} /\ lost = {}

Send(text) ==
  /\ \A t \in sent : t < text
  /\ sent' = sent \cup {text}
  /\ UNCHANGED <<settled, written, lost>>

Write(text) ==
  /\ text \in sent
  /\ written' = written \cup {text}
  /\ UNCHANGED <<sent, settled, lost>>

(* The last attempt to write may be what settles it. *)
Settle(text) ==
  /\ text \in sent \ settled
  /\ \A t \in sent : t < text => t \in settled
  /\ \/ written' = written \cup {text} /\ UNCHANGED lost
     \/ lost' = lost \cup {text} /\ UNCHANGED written
  /\ settled' = settled \cup {text}
  /\ UNCHANGED sent

Next == \E text \in Spoken : Send(text) \/ Write(text) \/ Settle(text)

Spec == Init /\ [][Next]_vars /\ WF_vars(\E text \in Spoken : Settle(text))
=============================================================================

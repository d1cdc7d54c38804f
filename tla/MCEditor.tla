----------------------------- MODULE MCEditor -------------------------------
EXTENDS Editor
Some(kinds, most) ==
  [k \in FaultKinds |-> IF k = "any" THEN most ELSE IF k \in kinds THEN 1 ELSE 0]

(* An utterance of two texts and one of one, either first. *)
TwoUtterances ==
  {<<Item("ensure", 1), Item("append", 1), Item("show", 1), Item("append", 1),
     Item("copy", 1), Item("quit", None)>>,
   <<Item("ensure", 1), Item("append", 1), Item("show", 2),
     Item("append", 2), Item("quit", None)>>}
(* And of two presses, which finds the editor of the first. *)
AndAnotherPress ==
  TwoUtterances \cup
  {<<Item("ensure", 1), Item("append", 1), Item("ensure", 2), Item("append", 2),
     Item("quit", None)>>}
BothModes == {"pane", "attach"}
AllFaults == Some(FaultKinds, 2)
OneFault == Some(FaultKinds, 1)
=============================================================================

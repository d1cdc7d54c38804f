---------------------------- MODULE MCDictation -----------------------------
(* Dictation on small instances: which faults may happen, once each, and how
   many of them in one behaviour. *)
EXTENDS Dictation

Once(kinds, most) ==
  [k \in FaultKinds |-> IF k = "any" THEN most ELSE IF k \in kinds THEN 1 ELSE 0]

SettlingFaults == Once({"load", "decode", "stall", "notrecorded", "discard", "close"}, 1)
StopFaults == Once({"stop", "decode", "cut", "persist", "timeout", "crash", "prune", "nomic"}, 2)
StallFaults == Once({"stall"}, 1)
CrashFaults == Once({"crash", "decode"}, 2)
PruneFaults == Once({"prune", "decode"}, 2)
=============================================================================

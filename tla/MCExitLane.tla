----------------------------- MODULE MCExitLane -----------------------------
(* Instances of ExitLane for TLC. *)
EXTENDS ExitLane, TLC

CONSTANTS a1, a2, a3, e1, e2

(* Two recognition events; a third call redelivers the first of them. *)
MCEventOf == [a \in Attempts |-> IF a = a2 THEN e2 ELSE e1]

(* Free at first, then dearer with every step of the clock. *)
MCFee == [t \in 0..MaxTime |-> t]

OpenCounts ==
  [receiptRequired |-> FALSE, printOnEntry |-> TRUE,
   waitForPassage |-> FALSE, subscriberSkips |-> TRUE]
WaitForPassage == [OpenCounts EXCEPT !.waitForPassage = TRUE]
=============================================================================

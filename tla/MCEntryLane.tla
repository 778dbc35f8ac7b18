---------------------------- MODULE MCEntryLane ----------------------------
(* Instances of EntryLane for TLC. *)
EXTENDS EntryLane, TLC

(* Every call in the site's one process. *)
OneProcess == [c \in Calls |-> "site"]

(* REQUIRE_TAKEN_BEFORE_OPEN *)
TakenFirst ==
  [receiptRequired |-> TRUE, printOnEntry |-> TRUE,
   waitForPassage |-> FALSE, subscriberSkips |-> TRUE]
=============================================================================

-------------------------- MODULE ParkingLifecycle --------------------------
(***************************************************************************)
(* The lifecycle of one parking session, as a pure relation.               *)
(*                                                                         *)
(* domain/parking_engine.py has no state: it says which lifecycle may      *)
(* follow which under a lane policy, and which operator-facing status is   *)
(* stored with it.  The lane modules (EntryLane, ExitLane) drive a         *)
(* database row along this relation.                                       *)
(***************************************************************************)
EXTENDS FiniteSets

(* The states a vehicle goes through at the entry. *)
EntryStates ==
  {"VEHICLE_DETECTED", "IDENTITY_RESOLVED", "SESSION_CREATED",
   "RECEIPT_PRINTING", "RECEIPT_PRESENTED", "RECEIPT_TAKEN",
   "ENTRY_AUTHORIZED", "GATE_OPEN_REQUESTED", "VEHICLE_PASSED",
   "ACTIVE", "ENTRY_CANCELLED"}

(* The states it goes through at the exit. *)
ExitStates ==
  {"EXIT_VEHICLE_DETECTED", "SESSION_RESOLVED", "TARIFF_CALCULATED",
   "AUTHORIZATION_DECISION", "AUTHORIZED", "DENIED_PAYMENT_REQUIRED",
   "EXIT_GATE_OPEN_REQUESTED", "EXIT_VEHICLE_PASSED", "CLOSED"}

Lifecycles == EntryStates \cup ExitStates

(* parking_sessions.status; a row with a status in OpenStored is "open". *)
OpenStored == {"WAITING_RECEIPT", "ACTIVE", "PAID", "OPEN"}
Statuses   == OpenStored \cup {"CLOSED"}

Sides == {"ENTRY", "EXIT"}

-----------------------------------------------------------------------------
(* Parker kinds: everything but CASUAL holds an access plan. *)
Kinds == {"CASUAL", "SUBSCRIBER"}

IsSubscriber(kind) == kind # "CASUAL"

(* A lane policy: is the gate held until the receipt is taken, is a receipt
   printed at all, must a sensor see the vehicle pass, and do subscribers
   skip the receipt. *)
Policies ==
  [receiptRequired : BOOLEAN, printOnEntry : BOOLEAN,
   waitForPassage : BOOLEAN, subscriberSkips : BOOLEAN]

PassageFallback(policy) == ~policy.waitForPassage

ReceiptRequired(policy, kind) ==
  policy.receiptRequired /\ ~(IsSubscriber(kind) /\ policy.subscriberSkips)

(* The stored status asks a CASUAL driver only for the receipt. *)
StoredAsWaiting(policy, kind) == policy.receiptRequired /\ ~IsSubscriber(kind)

(* SQLAlchemy writes a column when its new value differs from the one the
   handler loaded. *)
Column(stored, loaded, new) == IF new = loaded THEN stored ELSE new

-----------------------------------------------------------------------------
BaseTransitions ==
  [s \in Lifecycles |->
    CASE s = "VEHICLE_DETECTED"         -> {"IDENTITY_RESOLVED"}
      [] s = "IDENTITY_RESOLVED"        -> {"SESSION_CREATED"}
      [] s = "SESSION_CREATED"          -> {"RECEIPT_PRINTING", "ENTRY_AUTHORIZED", "ENTRY_CANCELLED"}
      [] s = "RECEIPT_PRINTING"         -> {"RECEIPT_PRESENTED", "ENTRY_AUTHORIZED", "ENTRY_CANCELLED"}
      [] s = "RECEIPT_PRESENTED"        -> {"RECEIPT_TAKEN", "ENTRY_AUTHORIZED", "ENTRY_CANCELLED"}
      [] s = "RECEIPT_TAKEN"            -> {"ENTRY_AUTHORIZED"}
      [] s = "ENTRY_AUTHORIZED"         -> {"GATE_OPEN_REQUESTED"}
      [] s = "GATE_OPEN_REQUESTED"      -> {"VEHICLE_PASSED"}
      [] s = "VEHICLE_PASSED"           -> {"ACTIVE"}
      [] s = "ACTIVE"                   -> {"EXIT_VEHICLE_DETECTED"}
      [] s = "EXIT_VEHICLE_DETECTED"    -> {"SESSION_RESOLVED"}
      [] s = "SESSION_RESOLVED"         -> {"TARIFF_CALCULATED"}
      [] s = "TARIFF_CALCULATED"        -> {"AUTHORIZATION_DECISION"}
      [] s = "AUTHORIZATION_DECISION"   -> {"AUTHORIZED", "DENIED_PAYMENT_REQUIRED"}
      [] s = "AUTHORIZED"               -> {"EXIT_GATE_OPEN_REQUESTED"}
      [] s = "DENIED_PAYMENT_REQUIRED"  -> {"TARIFF_CALCULATED", "AUTHORIZATION_DECISION"}
      [] s = "EXIT_GATE_OPEN_REQUESTED" -> {"EXIT_VEHICLE_PASSED"}
      [] s = "EXIT_VEHICLE_PASSED"      -> {"CLOSED"}
      [] OTHER                          -> {}]

(* What the policy takes away: no way past the receipt while one is due. *)
HeldByReceipt(current, policy, kind) ==
  IF /\ ReceiptRequired(policy, kind)
     /\ current \in {"SESSION_CREATED", "RECEIPT_PRINTING", "RECEIPT_PRESENTED"}
  THEN {"ENTRY_AUTHORIZED", "GATE_OPEN_REQUESTED"}
  ELSE {}

(* What it adds: without a passage sensor an OPEN command counts as passage. *)
PassageShortcut(current, policy) ==
  CASE PassageFallback(policy) /\ current = "GATE_OPEN_REQUESTED" ->
         {"VEHICLE_PASSED", "ACTIVE"}
    [] PassageFallback(policy) /\ current = "EXIT_GATE_OPEN_REQUESTED" ->
         {"EXIT_VEHICLE_PASSED", "CLOSED"}
    [] OTHER -> {}

AllowedTargets(current, policy, kind) ==
  (BaseTransitions[current] \ HeldByReceipt(current, policy, kind))
    \cup PassageShortcut(current, policy)

CanTransition(current, target, policy, kind) ==
  \/ current = target
  \/ target \in AllowedTargets(current, policy, kind)

-----------------------------------------------------------------------------
(* Mutant: a denial is stored as a status of its own. *)
StoredStatusDenied(lifecycle, previous, receiptRequired) ==
  CASE lifecycle \in {"ENTRY_CANCELLED", "CLOSED", "DENIED_PAYMENT_REQUIRED"} -> lifecycle
    [] OTHER -> previous

(* The status stored with a lifecycle.  PAID survives every state but a
   denial: a driver who was denied owes money again. *)
StoredStatusFor(lifecycle, previous, receiptRequired) ==
  CASE lifecycle \in {"VEHICLE_DETECTED", "IDENTITY_RESOLVED", "SESSION_CREATED",
                      "RECEIPT_PRINTING", "RECEIPT_PRESENTED"} ->
         IF receiptRequired THEN "WAITING_RECEIPT" ELSE "ACTIVE"
    [] lifecycle \in {"ENTRY_CANCELLED", "CLOSED"} -> "CLOSED"
    [] lifecycle \in {"RECEIPT_TAKEN", "DENIED_PAYMENT_REQUIRED"} -> "ACTIVE"
    [] OTHER -> IF previous = "PAID" THEN "PAID" ELSE "ACTIVE"

(* The lifecycle a row without one (a row of POST /sessions) is taken to have. *)
InferLifecycle(status, side) ==
  CASE status = "CLOSED"          -> "CLOSED"
    [] status = "WAITING_RECEIPT" -> "SESSION_CREATED"
    [] status = "PAID"            -> "ACTIVE"
    [] OTHER                      -> IF side = "EXIT" THEN "EXIT_VEHICLE_DETECTED" ELSE "ACTIVE"
=============================================================================

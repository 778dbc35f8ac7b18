----------------------------- MODULE EntryLane -----------------------------
(***************************************************************************)
(* One vehicle's visit to the entry lane (application/entry_lane.py, with  *)
(* the entry half of services/parking_sessions.py and the print job of     *)
(* services/receipt_jobs.py): recognition events create the session, a     *)
(* receipt is printed, its removal confirmed, and the barrier opened.      *)
(*                                                                         *)
(* As in ExitLane the handlers meet in the database row, one commit is one *)
(* action and the refresh that follows it is another; a handler works on   *)
(* the copy it loaded.                                                     *)
(***************************************************************************)
EXTENDS ParkingLifecycle

CONSTANTS
  Submits,    \* recognition events of the visit, redelivered ones included
  Confirms,   \* calls of confirm_receipt_taken
  Retries,    \* calls of retry_gate
  Leaves,     \* calls of vehicle_left
  NoOne,      \* an empty open_command_uuid
  Policy,     \* the lane policy
  ProcessOf   \* the process each call is handled in: one for each gate, or one

Calls == Submits \cup Confirms \cup Retries \cup Leaves

ASSUME CallsAssumption ==
  /\ Submits \cap (Confirms \cup Retries \cup Leaves) = {}
  /\ Retries \cap (Confirms \cup Leaves) = {}
  /\ Confirms \cap Leaves = {}
  /\ NoOne \notin Calls
ASSUME PolicyAssumption == Policy \in Policies
ASSUME ProcessAssumption == DOMAIN ProcessOf = Calls

VARIABLES
  row,     \* the parking_sessions row
  paper,   \* the slip: still in the printer, presented, in the driver's hand
  call     \* the calls of the entry controller

vars == <<row, paper, call>>

-----------------------------------------------------------------------------
(* Data *)

Absent == "ABSENT"   \* there is no row yet

JobStates == {"QUEUED", "PRINTING", "PRESENTED", "ASSISTANCE", "TAKEN"}

Row ==
  [lifecycle : EntryStates \cup {Absent}, status : Statuses, kind : Kinds,
   job : JobStates, openCommand : Calls \cup {NoOne}]

(* Where a call is.  Its process runs nothing else between two commits of  *)
(* a Working call; an Awaiting one has given way.                          *)
Working ==
  {"detected", "identified", "created", "claimed", "printed", "misprinted",
   "leaving", "authorizing", "commanded", "requesting", "passing", "passed"}
Awaiting == {"printing", "answered", "jammed", "sensing", "sensed", "pulsing", "pulsed"}
Returned ==
  {"duplicate", "printer_failed", "waiting_receipt", "refused", "already_open",
   "gate_command_in_progress", "gate_unavailable", "active", "too_late",
   "vehicle_left", "error", "crashed"}

(* "unsent": no gate, or a gate without cameras, and so no pulse. *)
Pulses == {"none", "opened", "lost", "failed", "unsent"}

Stations == {"idle"} \cup Working \cup Awaiting \cup Returned
Call == [pc : Stations, seen : Row, fresh : BOOLEAN, pulse : Pulses]

NewRow(kind) ==
  [lifecycle |-> Absent, status |-> "ACTIVE", kind |-> kind, job |-> "QUEUED",
   openCommand |-> NoOne]
NoCopy == NewRow("CASUAL")

(* What the lane asks of this kind of parker. *)
NeedReceipt(kind) == ReceiptRequired(Policy, kind)

(* should_print; an access plan may ask for a print of its own. *)
MayPrint(kind) ==
  LET usual == Policy.printOnEntry \/ NeedReceipt(kind)
      ofPlan == IF Policy.subscriberSkips THEN BOOLEAN ELSE {usual, TRUE}
  IN IF IsSubscriber(kind) THEN ofPlan ELSE {usual}

InOrPast  == {"GATE_OPEN_REQUESTED", "VEHICLE_PASSED", "ACTIVE"}
TakenOrPast == InOrPast \cup {"RECEIPT_TAKEN", "ENTRY_AUTHORIZED"}

-----------------------------------------------------------------------------
Init ==
  /\ \E kind \in Kinds : row = NewRow(kind)
  /\ paper = "none"
  /\ call = [c \in Calls |-> [pc |-> "idle", seen |-> NoCopy, fresh |-> TRUE, pulse |-> "none"]]

MayRun(c) ==
  \A d \in Calls \ {c} :
    ProcessOf[d] = ProcessOf[c] => call[d].pc \notin Working /\ call[d].fresh

At(c, pc) == call[c].pc = pc /\ call[c].fresh /\ MayRun(c)

Return(c, pc) == [call EXCEPT ![c].pc = pc, ![c].seen = NoCopy, ![c].fresh = TRUE]
GoOn(c, pc)   == [call EXCEPT ![c].pc = pc]

(* The call committed and will refresh its copy. *)
Committed(c, pc) == [call EXCEPT ![c].pc = pc, ![c].fresh = FALSE]

Refresh(c) ==
  /\ ~call[c].fresh
  /\ call' = [call EXCEPT ![c].fresh = TRUE, ![c].seen = row]
  /\ UNCHANGED <<row, paper>>

(* _commit_transition: what advancing the loaded copy to target stores. *)
Advanced(seen, target) ==
  [row EXCEPT
     !.lifecycle = target,
     !.status = Column(@, seen.status,
                       StoredStatusFor(target, seen.status, StoredAsWaiting(Policy, seen.kind)))]

Advance(c, target, pc) ==
  /\ CanTransition(call[c].seen.lifecycle, target, Policy, call[c].seen.kind)
  /\ row' = Advanced(call[c].seen, target)
  /\ call' = Committed(c, pc)
  /\ UNCHANGED paper

-----------------------------------------------------------------------------
(* submit *)

(* start_entry, first transaction.  The unique indexes on the visit, the
   event and the open plate let one creator through; everyone else finds
   the row. *)
Submit(c) ==
  /\ c \in Submits
  /\ At(c, "idle")
  /\ IF row.lifecycle = Absent
     THEN /\ row' = [row EXCEPT !.lifecycle = "VEHICLE_DETECTED",
                                !.status = IF StoredAsWaiting(Policy, row.kind)
                                           THEN "WAITING_RECEIPT" ELSE "ACTIVE"]
          /\ call' = Committed(c, "detected")
     ELSE /\ call' = Return(c, "duplicate")
          /\ UNCHANGED row
  /\ UNCHANGED paper

(* start_entry, the other two. *)
Identify(c)      == At(c, "detected") /\ Advance(c, "IDENTITY_RESOLVED", "identified")
CreateSession(c) == At(c, "identified") /\ Advance(c, "SESSION_CREATED", "created")

(* print_entry_receipt: claim the job, unless nothing is to be printed. *)
ClaimJob(c) ==
  LET print == MayPrint(call[c].seen.kind)
  IN /\ At(c, "created")
     /\ \/ /\ TRUE \in print
           /\ row' = [row EXCEPT !.job = "PRINTING"]
           /\ call' = Committed(c, "claimed")
        \/ /\ FALSE \in print
           /\ call' = GoOn(c, "authorizing")
           /\ UNCHANGED row
     /\ UNCHANGED paper

(* The lifecycle follows, unless it was moved, and the printer is asked. *)
StartPrinting(c) ==
  /\ At(c, "claimed")
  /\ IF call[c].seen.lifecycle = "SESSION_CREATED"
     THEN Advance(c, "RECEIPT_PRINTING", "printing")
     ELSE call' = GoOn(c, "printing") /\ UNCHANGED <<row, paper>>

(* The await on the printer.  A printer that reports a failure may have
   presented the slip all the same. *)
PrintSlip(c, ok, out) ==
  /\ call[c].pc = "printing" /\ call[c].fresh
  /\ ok => out
  /\ paper' = IF out THEN "presented" ELSE paper
  /\ call' = GoOn(c, IF ok THEN "answered" ELSE "jammed")
  /\ UNCHANGED row

(* Mutant: the lane opens once the receipt is presented. *)
PresentAndGo(c) ==
  /\ At(c, "answered")
  /\ row' = [Advanced(call[c].seen, "RECEIPT_PRESENTED") EXCEPT !.job = "PRESENTED"]
  /\ call' = Committed(c, "authorizing")
  /\ UNCHANGED paper

(* The slip is presented: the job and the lifecycle, in one commit. *)
Present(c) ==
  /\ At(c, "answered")
  /\ IF CanTransition(call[c].seen.lifecycle, "RECEIPT_PRESENTED", Policy, call[c].seen.kind)
     THEN /\ row' = [Advanced(call[c].seen, "RECEIPT_PRESENTED") EXCEPT !.job = "PRESENTED"]
          /\ call' = Committed(c, "printed")
     ELSE /\ call' = Return(c, "error")
          /\ UNCHANGED row
  /\ UNCHANGED paper

Misprint(c) ==
  /\ At(c, "jammed")
  /\ row' = [row EXCEPT !.job = "ASSISTANCE"]
  /\ call' = Committed(c, "misprinted")
  /\ UNCHANGED paper

(* Mutant: a printer failure ends every entry. *)
AfterPrintStops(c) ==
  /\ At(c, "printed") \/ At(c, "misprinted")
  /\ call' = IF call[c].pc = "misprinted" THEN Return(c, "printer_failed")
             ELSE IF NeedReceipt(call[c].seen.kind) THEN Return(c, "waiting_receipt")
             ELSE GoOn(c, "authorizing")
  /\ UNCHANGED <<row, paper>>

(* submit, after the print. *)
AfterPrint(c) ==
  /\ At(c, "printed") \/ At(c, "misprinted")
  /\ call' = IF NeedReceipt(call[c].seen.kind)
             THEN Return(c, IF call[c].pc = "printed" THEN "waiting_receipt" ELSE "printer_failed")
             ELSE GoOn(c, "authorizing")
  /\ UNCHANGED <<row, paper>>

-----------------------------------------------------------------------------
(* The driver takes the slip. *)
TakeSlip ==
  /\ paper = "presented"
  /\ paper' = "taken"
  /\ UNCHANGED <<row, call>>

(* confirm_receipt_taken loads the row and waits for the taken sensor. *)
Confirm(c) ==
  /\ c \in Confirms
  /\ At(c, "idle")
  /\ row.lifecycle # Absent
  /\ call' = [call EXCEPT ![c].seen = row,
                          ![c].pc = IF row.job = "TAKEN" THEN "authorizing" ELSE "sensing",
                          ![c].fresh = row.job # "TAKEN"]
  /\ UNCHANGED <<row, paper>>

(* Mutant: the sensor's timeout is not an error. *)
SenseTrusted(c, taken) ==
  /\ call[c].pc = "sensing" /\ call[c].fresh
  /\ call' = GoOn(c, "sensed")
  /\ UNCHANGED <<row, paper>>

Sense(c, taken) ==
  /\ call[c].pc = "sensing" /\ call[c].fresh
  /\ taken => paper = "taken"
  /\ call' = IF taken THEN GoOn(c, "sensed") ELSE Return(c, "refused")
  /\ UNCHANGED <<row, paper>>

(* mark_receipt_taken on the loaded copy: the job, and the lifecycle unless
   it is already there (PRESENTED is stored together with the job).  A job that was not presented is refused, and so is
   a session that was cancelled. *)
MarkTaken(c) ==
  LET seen == call[c].seen
      there == seen.lifecycle \in TakenOrPast
      legal == seen.job = "PRESENTED"
                 /\ (there \/ CanTransition(seen.lifecycle, "RECEIPT_TAKEN", Policy, seen.kind))
  IN /\ At(c, "sensed")
     /\ \/ /\ legal
           /\ row' = [(IF there THEN row ELSE Advanced(seen, "RECEIPT_TAKEN")) EXCEPT !.job = "TAKEN"]
           /\ call' = Committed(c, "authorizing")
        \/ /\ ~legal
           /\ call' = Return(c, "refused")
           /\ UNCHANGED row
     /\ UNCHANGED paper

(* retry_gate *)
Retry(c) ==
  /\ c \in Retries
  /\ At(c, "idle")
  /\ row.lifecycle # Absent
  /\ call' = [call EXCEPT ![c].seen = row, ![c].pc = "authorizing"]
  /\ UNCHANGED <<row, paper>>

(* vehicle_left loads the row, and cancel_entry_attempt decides on it. *)
Leave(c) ==
  /\ c \in Leaves
  /\ At(c, "idle")
  /\ row.lifecycle # Absent
  /\ call' = [call EXCEPT ![c].seen = row, ![c].pc = "leaving"]
  /\ UNCHANGED <<row, paper>>

Cancel(c) ==
  LET seen == call[c].seen
      late == seen.lifecycle \in TakenOrPast
      closed == seen.status = "CLOSED"
      legal == CanTransition(seen.lifecycle, "ENTRY_CANCELLED", Policy, seen.kind)
      outcome == IF late THEN "too_late"
                 ELSE IF closed \/ legal THEN "vehicle_left" ELSE "error"
  IN /\ At(c, "leaving")
     /\ row' = IF ~late /\ ~closed /\ legal THEN Advanced(seen, "ENTRY_CANCELLED") ELSE row
     /\ call' = Return(c, outcome)
     /\ UNCHANGED paper

-----------------------------------------------------------------------------
(* _authorize_and_open *)

(* Mutant: a command that is under way is used again by any call. *)
AuthorizeAnyone(c) ==
  /\ At(c, "authorizing")
  /\ call' = IF call[c].seen.lifecycle \in InOrPast THEN Return(c, "already_open")
             ELSE IF call[c].seen.openCommand # NoOne THEN GoOn(c, "pulsing")
             ELSE GoOn(c, "commanded")
  /\ UNCHANGED <<row, paper>>

Authorize(c) ==
  LET seen == call[c].seen
      held == seen.openCommand # NoOne
  IN /\ At(c, "authorizing")
     /\ \/ /\ seen.lifecycle \in InOrPast
           /\ call' = Return(c, "already_open")
        \/ /\ seen.lifecycle \notin InOrPast /\ held
           /\ call' = IF c \in Retries THEN GoOn(c, "pulsing")
                      ELSE Return(c, "gate_command_in_progress")
        \/ /\ seen.lifecycle \notin InOrPast /\ ~held
           /\ call' = GoOn(c, "commanded")
     /\ UNCHANGED <<row, paper>>

(* The conditional UPDATE of open_command_uuid. *)
ClaimCommand(c) ==
  /\ At(c, "commanded")
  /\ IF row.openCommand = NoOne
     THEN /\ row' = [row EXCEPT !.openCommand = c]
          /\ call' = Committed(c, "pulsing")
     ELSE /\ call' = Return(c, "gate_command_in_progress")
          /\ UNCHANGED row
  /\ UNCHANGED paper

(* Mutant: a barrier that did not open is passed all the same. *)
PulseTrusted(c, result) ==
  /\ call[c].pc = "pulsing" /\ call[c].fresh
  /\ call' = [call EXCEPT ![c].pulse = result, ![c].pc = "pulsed"]
  /\ UNCHANGED <<row, paper>>

(* The await on the barrier; no gate at all counts as done. *)
Pulse(c, result) ==
  /\ call[c].pc = "pulsing" /\ call[c].fresh
  /\ call' = IF result \in {"opened", "unsent"}
             THEN [call EXCEPT ![c].pulse = result, ![c].pc = "pulsed"]
             ELSE [Return(c, "gate_unavailable") EXCEPT ![c].pulse = result]
  /\ UNCHANGED <<row, paper>>

(* request_entry_open, on the copy from before the pulse. *)
Authorizable(seen) ==
  \/ seen.lifecycle = "RECEIPT_TAKEN"
  \/ /\ ~NeedReceipt(seen.kind)
     /\ seen.lifecycle \in {"SESSION_CREATED", "RECEIPT_PRINTING", "RECEIPT_PRESENTED"}

RequestOpen(c) ==
  LET seen == call[c].seen
      authorized == seen.lifecycle = "ENTRY_AUTHORIZED"
  IN \/ At(c, "pulsed") /\ Authorizable(seen) /\ Advance(c, "ENTRY_AUTHORIZED", "requesting")
     \/ /\ At(c, "pulsed") \/ At(c, "requesting")
        /\ authorized /\ Advance(c, "GATE_OPEN_REQUESTED", "passing")
     \/ /\ At(c, "requesting") \/ (At(c, "pulsed") /\ ~Authorizable(seen))
        /\ ~authorized
        /\ call' = IF call[c].pc = "pulsed" /\ seen.lifecycle \in InOrPast
                   THEN GoOn(c, "passing") ELSE Return(c, "error")
        /\ UNCHANGED <<row, paper>>

(* mark_vehicle_passed: with no passage sensor the OPEN command counts as
   the passage. *)
Pass(c) ==
  LET seen == call[c].seen
  IN /\ At(c, "passing")
     /\ IF PassageFallback(Policy) /\ seen.lifecycle = "GATE_OPEN_REQUESTED"
        THEN Advance(c, "VEHICLE_PASSED", "passed")
        ELSE /\ call' = IF PassageFallback(Policy)
                       THEN GoOn(c, "passed") ELSE Return(c, "active")
             /\ UNCHANGED <<row, paper>>

Activate(c) ==
  LET seen == call[c].seen
      legal == CanTransition(seen.lifecycle, "ACTIVE", Policy, seen.kind)
  IN /\ At(c, "passed")
     /\ row' = IF legal /\ seen.lifecycle # "ACTIVE" THEN Advanced(seen, "ACTIVE") ELSE row
     /\ call' = Return(c, IF legal THEN "active" ELSE "error")
     /\ UNCHANGED paper

(* The process dies, or an exception ends the handler. *)
Crash(c) ==
  /\ call[c].pc \in Working \cup Awaiting
  /\ call' = Return(c, "crashed")
  /\ UNCHANGED <<row, paper>>

-----------------------------------------------------------------------------
Handle(c) ==
  \/ Submit(c) \/ Identify(c) \/ CreateSession(c)
  \/ ClaimJob(c) \/ StartPrinting(c)
  \/ \E ok, out \in BOOLEAN : PrintSlip(c, ok, out)
  \/ Present(c) \/ Misprint(c) \/ AfterPrint(c)
  \/ Confirm(c)
  \/ \E taken \in BOOLEAN : Sense(c, taken)
  \/ MarkTaken(c)
  \/ Retry(c)
  \/ Leave(c) \/ Cancel(c)
  \/ Authorize(c) \/ ClaimCommand(c)
  \/ \E result \in Pulses \ {"none"} : Pulse(c, result)
  \/ RequestOpen(c) \/ Pass(c) \/ Activate(c)
  \/ Refresh(c)

Next ==
  \/ \E c \in Calls : Handle(c) \/ Crash(c)
  \/ TakeSlip

Spec == Init /\ [][Next]_vars

(* The loop, or the scheduler, keeps running handlers, and the printer, the
   sensor and the barrier answer (their clients have timeouts).  Nobody has
   to arrive or to call.  No call has infinitely many steps, so that none can
   keep another waiting for ever. *)
Fairness == WF_vars(\E c \in Calls : call[c].pc # "idle" /\ Handle(c))

FairSpec == Spec /\ Fairness

-----------------------------------------------------------------------------
(* Properties *)

TypeOK ==
  /\ row \in Row
  /\ paper \in {"none", "presented", "taken"}
  /\ call \in [Calls -> Call]

Pulsed(c) == call[c].pulse \notin {"none", "unsent"}

(* Under REQUIRE_TAKEN_BEFORE_OPEN the barrier is pulsed only when the driver
   holds the slip, whatever the printer reported, however often its removal
   is confirmed and whoever else handles the visit (entry_lane.submit: "Does
   not pulse a gate until authorized").  An operator's retry is not bound. *)
GateHeldForReceipt ==
  \A c \in Calls \ Retries : Pulsed(c) /\ NeedReceipt(row.kind) => paper = "taken"

(* One pulse lets one vehicle in: redelivered events, events of the same
   visit and repeated confirmations share one command; only a retry may
   pulse again. *)
AtMostOnePulse ==
  \A c, d \in Calls \ Retries : Pulsed(c) /\ Pulsed(d) => c = d

(* The session becomes ACTIVE, and its fee runs, only for a vehicle whose
   barrier reported open, or that has no barrier. *)
ActiveOnlyAfterOpening ==
  row.lifecycle \in InOrPast => \E c \in Calls : call[c].pulse \in {"opened", "unsent"}

(* The removal of a slip is confirmed only where the lane waits for it, no
   operator sends the vehicle on by hand, and it does not back out. *)
Undisturbed ==
  /\ \A c \in Leaves : call[c].pc = "idle"
  /\ \A c \in Confirms : call[c].pc # "idle" => NeedReceipt(row.kind)
  /\ \A c \in Retries : call[c].pc = "idle"

(* Once the barrier has opened the call that opened it brings the session to
   the end of the entry: the lifecycle never refuses it. *)
OpenedIsRecorded ==
  Undisturbed => \A c \in Calls : call[c].pulse = "opened" => call[c].pc # "error"

(* Nothing breaks: the barrier opens when asked and no handler dies. *)
Faultless ==
  \A c \in Calls : call[c].pulse \notin {"lost", "failed"} /\ call[c].pc # "crashed"

(* Without faults a vehicle whose receipt is confirmed, or that needs none,
   gets in, printer or no printer. *)
AdmittedEnters ==
  [](Faultless /\ Undisturbed)
    => (\/ row.lifecycle = "RECEIPT_TAKEN"
        \/ row.lifecycle # Absent /\ ~NeedReceipt(row.kind)) ~> row.lifecycle = "ACTIVE"

=============================================================================

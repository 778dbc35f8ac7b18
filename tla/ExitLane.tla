------------------------------ MODULE ExitLane ------------------------------
(***************************************************************************)
(* One parking session at the exit: recognition events and receipt scans   *)
(* handled by ExitLaneController, the money that arrives meanwhile, the    *)
(* operator's close button, and the barrier.                               *)
(*                                                                         *)
(* The handlers meet only in the database row.  A handler is a sequence of *)
(* transactions; each reads or writes the row and works in between on the  *)
(* copy it loaded (att[a].seen): SQLAlchemy keeps loaded attributes until  *)
(* refresh(), writes only the columns that differ from the copy, and the   *)
(* sessions are made with expire_on_commit=False.  One commit is one       *)
(* action here, and so is one refresh.                                     *)
(***************************************************************************)
EXTENDS Integers, ParkingLifecycle

CONSTANTS
  Attempts,         \* calls of submit_plate / submit_qr
  Events,           \* recognition event ids (a QR scan has one of its own)
  EventOf,          \* the event each call carries; redelivery repeats one
  Cashiers,         \* calls of mark_paid
  Intents,          \* mobile-money payments
  NoOne,            \* an empty exit_event_id or exit_open_command_uuid
  Policy,           \* the lane policy
  OneLoop,          \* TRUE: all handlers on one event loop (one process);
                    \* FALSE: one process per gate, sharing PostgreSQL
  MaxTime,          \* bound on the clock
  Fee,              \* Fee[t]: what the tariff quotes at time t
  DefaultGrace,     \* DEFAULT_EXIT_GRACE_SECONDS
  ConfiguredGrace   \* the site's payment_exit_grace_seconds

ASSUME EventAssumption == EventOf \in [Attempts -> Events]
ASSUME NoOneAssumption == NoOne \notin Attempts \cup Events
ASSUME PolicyAssumption == Policy \in Policies
ASSUME ClockAssumption ==
  MaxTime \in Nat /\ DefaultGrace \in Nat \ {0} /\ ConfiguredGrace \in Nat
ASSUME FeeAssumption == Fee \in [0..MaxTime -> Nat]
ASSUME LoopAssumption == OneLoop \in BOOLEAN

VARIABLES
  row,      \* the parking_sessions row
  ledger,   \* SUCCEEDED payment_transactions: their keys and their sum
  att,      \* the calls of the exit controller
  cash,     \* the calls of mark_paid
  intent,   \* the mobile payments
  now       \* the clock

vars == <<row, ledger, att, cash, intent, now>>

-----------------------------------------------------------------------------
(* Data *)

Time    == 0..MaxTime
NoGrace == -1

(* lifecycle "" is a row of POST /sessions, which never had one. *)
Row ==
  [lifecycle : Lifecycles \cup {""}, status : Statuses, side : Sides,
   kind : Kinds, exitEvent : Events \cup {NoOne},
   openCommand : Attempts \cup {NoOne}, closedAt : BOOLEAN,
   due : Nat, payment : {"NONE", "PENDING", "SUCCEEDED"},
   graceUntil : Nat \cup {NoGrace}]

SettleKey == "settle"
Ledger == [keys : SUBSET ({SettleKey} \cup Intents), total : Nat]

(* Where a call of the controller is.  Loaded .. Passing are in the code;  *)
(* the others are what it returned.                                        *)
Working  == {"loaded", "priced", "ready", "owned", "driving", "advanced",
             "authorized", "commanded", "requested", "passing"}
Awaiting == {"pulsing", "pulsed"}
Returned == {"no_session", "duplicate", "exit_in_progress", "payment_required",
             "review", "error", "gate_unassigned", "gate_command_in_progress",
             "gate_unavailable", "waiting_passage", "closed", "crashed"}

(* What the boom did with a pulse: nothing was sent, it opened and said so, *)
(* it opened and the answer was lost, it stayed shut.                      *)
Pulses == {"none", "opened", "lost", "failed"}

Stages == 1..7   \* the lines of start_exit's walk that are still ahead
Stations == {"idle"} \cup Working \cup Awaiting \cup Returned
Attempt ==
  [pc : Stations, seen : Row, gate : BOOLEAN, allow : BOOLEAN, stage : Stages,
   granted : BOOLEAN, pulse : Pulses]

Cash ==
  [pc : {"idle", "quoted", "recorded", "done", "refused"}, seen : Row, had : Nat]
Intent == [pc : {"idle", "pending", "credited"}, amount : Nat]

(* services/parking_sessions._current *)
Current(r) ==
  IF r.lifecycle = "" THEN InferLifecycle(r.status, r.side) ELSE r.lifecycle

(* _commit_transition: what advancing the loaded copy to target stores. *)
Advanced(r, seen, target) ==
  [r EXCEPT
     !.lifecycle = target,
     !.status = Column(@, seen.status,
                       StoredStatusFor(target, seen.status, StoredAsWaiting(Policy, seen.kind))),
     !.closedAt = @ \/ target = "CLOSED"]

-----------------------------------------------------------------------------
FreshRow(lifecycle, status, kind) ==
  [lifecycle |-> lifecycle, status |-> status, side |-> "ENTRY", kind |-> kind,
   exitEvent |-> NoOne, openCommand |-> NoOne, closedAt |-> FALSE,
   due |-> 0, payment |-> "NONE", graceUntil |-> NoGrace]

NoCopy == FreshRow("", "OPEN", "CASUAL")

(* A session whose entry is complete, a casual one still held at the entry
   (subscribers skip the receipt), or one opened by hand (always casual). *)
InitialRows ==
  {FreshRow("ACTIVE", "ACTIVE", kind) : kind \in Kinds}
    \cup {FreshRow("RECEIPT_PRESENTED", "WAITING_RECEIPT", "CASUAL"),
          FreshRow("", "OPEN", "CASUAL")}

Init ==
  /\ row \in InitialRows
  /\ ledger = [keys |-> {}, total |-> 0]
  /\ att = [a \in Attempts |->
              [pc |-> "idle", seen |-> NoCopy, gate |-> FALSE, allow |-> FALSE,
               stage |-> 1, granted |-> FALSE, pulse |-> "none"]]
  /\ cash = [c \in Cashiers |-> [pc |-> "idle", seen |-> NoCopy, had |-> 0]]
  /\ intent = [i \in Intents |-> [pc |-> "idle", amount |-> 0]]
  /\ now = 0

-----------------------------------------------------------------------------
(* ExitLaneController *)

(* On one event loop only the handler that is not at an await runs. *)
MayRun(a) == OneLoop => \A b \in Attempts \ {a} : att[b].pc \notin Working

At(a, pc) == att[a].pc = pc /\ MayRun(a)

(* The handler returns; its database session, and the copy, are gone. *)
Return(a, pc) == [att EXCEPT ![a].pc = pc, ![a].seen = NoCopy, ![a].stage = 1]

(* submit_plate, submit_qr: resolve the open session, or return.  Only a
   plate looks whether its event was applied before. *)
Submit(a, gate) ==
  LET mine == row.exitEvent = EventOf[a]
      applied == mine /\ (row.openCommand # NoOne \/ row.closedAt)
  IN /\ At(a, "idle")
     /\ \/ /\ applied
           /\ att' = Return(a, "duplicate")
        \/ /\ row.status \notin OpenStored
           /\ att' = Return(a, "no_session")
        \/ /\ row.status \in OpenStored
           /\ att' = [att EXCEPT ![a].pc = "loaded", ![a].seen = row, ![a].gate = gate]
     /\ UNCHANGED <<row, ledger, cash, intent, now>>

InGrace(seen) ==
  seen.payment = "SUCCEEDED" /\ seen.graceUntil # NoGrace /\ now <= seen.graceUntil

(* _fresh_financial_state and the commit after it: subscribers owe nothing, *)
(* a payment in its grace period keeps its price, everyone else is quoted.  *)
Price(a) ==
  LET seen == att[a].seen
      due == IF IsSubscriber(seen.kind) THEN 0
             ELSE IF InGrace(seen) THEN seen.due ELSE Fee[now]
  IN /\ At(a, "loaded")
     /\ row' = [row EXCEPT !.due = Column(@, seen.due, due)]
     /\ att' = [att EXCEPT ![a].pc = "priced",
                           ![a].allow = IsSubscriber(seen.kind) \/ ledger.total >= due]
     /\ UNCHANGED <<ledger, cash, intent, now>>

(* The refresh that follows a commit, and where the handler goes on. *)
AfterRefresh ==
  [pc \in {"priced", "owned", "advanced", "commanded", "requested"} |->
     CASE pc = "priced"                -> "ready"
       [] pc \in {"owned", "advanced"} -> "driving"
       [] pc = "commanded"             -> "pulsing"
       [] pc = "requested"             -> "passing"]

Refresh(a) ==
  /\ att[a].pc \in DOMAIN AfterRefresh
  /\ MayRun(a)
  /\ att' = [att EXCEPT ![a].pc = AfterRefresh[@], ![a].seen = row]
  /\ UNCHANGED <<row, ledger, cash, intent, now>>

(* Mutant: the last event takes the session over. *)
ClaimExitLast(a) ==
  /\ At(a, "ready")
  /\ row' = [row EXCEPT !.exitEvent = EventOf[a], !.side = "EXIT"]
  /\ att' = [att EXCEPT ![a].pc = "owned", ![a].stage = 1]
  /\ UNCHANGED <<ledger, cash, intent, now>>

(* start_exit up to its first commit: this event becomes the owner of the
   session's exit, unless another owns an attempt that was not denied. *)
ClaimExit(a) ==
  LET seen == att[a].seen
      claimable ==
        /\ row.exitEvent # EventOf[a]
        /\ seen.exitEvent # EventOf[a]
        /\ seen.exitEvent = NoOne \/ Current(seen) = "DENIED_PAYMENT_REQUIRED"
        /\ Current(seen) # "CLOSED"
      gone == row.exitEvent # EventOf[a] /\ row.status \notin OpenStored
  IN /\ At(a, "ready")
     /\ \/ /\ gone
           /\ att' = Return(a, "no_session")
           /\ UNCHANGED row
        \/ /\ ~gone /\ claimable
           /\ row' = [row EXCEPT !.exitEvent = EventOf[a], !.side = "EXIT"]
           /\ att' = [att EXCEPT ![a].pc = "owned", ![a].stage = 1]
        \/ /\ ~gone /\ ~claimable
           /\ att' = [att EXCEPT ![a].pc = "driving", ![a].stage = 7]
           /\ UNCHANGED row
     /\ UNCHANGED <<ledger, cash, intent, now>>

(* The lifecycles start_exit walks a claimed session through, in order. *)
StageFrom ==
  <<"ACTIVE", "DENIED_PAYMENT_REQUIRED", "EXIT_VEHICLE_DETECTED",
    "SESSION_RESOLVED", "TARIFF_CALCULATED", "AUTHORIZATION_DECISION">>

(* Mutant: the decision is not consulted. *)
StageToAuthorized(i, allow) ==
  <<"EXIT_VEHICLE_DETECTED", "TARIFF_CALCULATED", "SESSION_RESOLVED",
    "TARIFF_CALCULATED", "AUTHORIZATION_DECISION", "AUTHORIZED">>[i]

StageTo(i, allow) ==
  CASE i = 1 -> "EXIT_VEHICLE_DETECTED"
    [] i = 2 -> "TARIFF_CALCULATED"
    [] i = 3 -> "SESSION_RESOLVED"
    [] i = 4 -> "TARIFF_CALCULATED"
    [] i = 5 -> "AUTHORIZATION_DECISION"
    [] OTHER -> IF allow THEN "AUTHORIZED" ELSE "DENIED_PAYMENT_REQUIRED"

Due(a, i) == i >= att[a].stage /\ StageFrom[i] = Current(att[a].seen)

(* start_exit: one advance(), on the decision made before the claim. *)
Drive(a, i) ==
  LET target == StageTo(i, att[a].allow)
  IN /\ At(a, "driving")
     /\ Due(a, i)
     /\ CanTransition(Current(att[a].seen), target, Policy, row.kind)
     /\ row' = Advanced(row, att[a].seen, target)
     /\ att' = [att EXCEPT ![a].pc = "advanced", ![a].stage = i + 1,
                           ![a].granted = @ \/ target = "AUTHORIZED"]
     /\ UNCHANGED <<ledger, cash, intent, now>>

InFlight == {"AUTHORIZED", "EXIT_GATE_OPEN_REQUESTED", "EXIT_VEHICLE_PASSED", "CLOSED"}

(* Mutant: the barrier is opened for a denied driver too. *)
VerdictUnpaid(a) ==
  LET seen == att[a].seen
      outcome == Current(seen)
  IN IF outcome \notin {"AUTHORIZED", "DENIED_PAYMENT_REQUIRED"} THEN "review"
     ELSE IF ~att[a].gate THEN "gate_unassigned"
     ELSE IF seen.openCommand # NoOne THEN "gate_command_in_progress"
     ELSE "authorized"

(* start_exit is over: what _submit_session and _open_authorized make of
   the lifecycle it left. *)
Verdict(a) ==
  LET seen == att[a].seen
      outcome == Current(seen)
      lost == att[a].stage = 1 /\ outcome \notin ExitStates \ {"CLOSED"}
      owned == seen.exitEvent \notin {NoOne, EventOf[a]} /\ outcome \in InFlight
  IN IF lost THEN "error"
     ELSE IF owned THEN "exit_in_progress"
     ELSE IF outcome = "DENIED_PAYMENT_REQUIRED" THEN "payment_required"
     ELSE IF outcome \notin InFlight THEN "review"
     ELSE IF outcome # "AUTHORIZED" THEN "duplicate"
     ELSE IF ~att[a].gate THEN "gate_unassigned"
     ELSE IF seen.openCommand # NoOne THEN "gate_command_in_progress"
     ELSE "authorized"

Conclude(a) ==
  /\ At(a, "driving")
  /\ \A i \in 1..6 : ~Due(a, i)
  /\ att' = IF Verdict(a) = "authorized"
            THEN [att EXCEPT ![a].pc = "authorized"]
            ELSE Return(a, Verdict(a))
  /\ UNCHANGED <<row, ledger, cash, intent, now>>

(* The conditional UPDATE: one command id per session, whoever is first. *)
ClaimCommand(a) ==
  /\ At(a, "authorized")
  /\ IF row.openCommand = NoOne
     THEN /\ row' = [row EXCEPT !.openCommand = a]
          /\ att' = [att EXCEPT ![a].pc = "commanded"]
     ELSE /\ att' = Return(a, "gate_command_in_progress")
          /\ UNCHANGED row
  /\ UNCHANGED <<ledger, cash, intent, now>>

(* Mutant: a pulse that did not report open gives the command id back. *)
PulseReleases(a, result) ==
  /\ att[a].pc = "pulsing"
  /\ att' = IF result = "opened"
            THEN [att EXCEPT ![a].pulse = result, ![a].pc = "pulsed"]
            ELSE [Return(a, "gate_unavailable") EXCEPT ![a].pulse = result]
  /\ row' = IF result = "opened" THEN row ELSE [row EXCEPT !.openCommand = NoOne]
  /\ UNCHANGED <<ledger, cash, intent, now>>

(* Mutant: the barrier's answer is not looked at. *)
PulseTrusted(a, result) ==
  /\ att[a].pc = "pulsing"
  /\ att' = [att EXCEPT ![a].pulse = result, ![a].pc = "pulsed"]
  /\ UNCHANGED <<row, ledger, cash, intent, now>>

(* The await on the barrier.  A pulse that failed, or whose answer was lost,
   leaves the session as it is. *)
Pulse(a, result) ==
  /\ att[a].pc = "pulsing"
  /\ att' = IF result = "opened"
            THEN [att EXCEPT ![a].pulse = result, ![a].pc = "pulsed"]
            ELSE [Return(a, "gate_unavailable") EXCEPT ![a].pulse = result]
  /\ UNCHANGED <<row, ledger, cash, intent, now>>

(* complete_authorized_exit, first transaction. *)
RequestOpen(a) ==
  LET seen == att[a].seen
  IN /\ At(a, "pulsed")
     /\ \/ /\ Current(seen) = "DENIED_PAYMENT_REQUIRED"
           /\ att' = Return(a, "error")
           /\ UNCHANGED row
        \/ /\ Current(seen) = "AUTHORIZED"
           /\ row' = Advanced(row, seen, "EXIT_GATE_OPEN_REQUESTED")
           /\ att' = [att EXCEPT ![a].pc = "requested"]
        \/ /\ Current(seen) \notin {"DENIED_PAYMENT_REQUIRED", "AUTHORIZED"}
           /\ att' = [att EXCEPT ![a].pc = "passing"]
           /\ UNCHANGED row
     /\ UNCHANGED <<ledger, cash, intent, now>>

(* Mutant: the OPEN command is not counted as the passage. *)
CountAsPassedNever(a) ==
  /\ At(a, "passing")
  /\ att' = Return(a, "waiting_passage")
  /\ UNCHANGED <<row, ledger, cash, intent, now>>

(* complete_authorized_exit, the rest: with no passage sensor the OPEN
   command counts as the passage and the session is closed. *)
CountAsPassed(a) ==
  LET seen == att[a].seen
  IN /\ At(a, "passing")
     /\ IF PassageFallback(Policy) /\ Current(seen) = "EXIT_GATE_OPEN_REQUESTED"
        THEN /\ row' = Advanced(row, seen, "CLOSED")
             /\ att' = Return(a, "closed")
        ELSE /\ att' = Return(a, IF Current(seen) = "CLOSED" THEN "closed" ELSE "waiting_passage")
             /\ UNCHANGED row
     /\ UNCHANGED <<ledger, cash, intent, now>>

(* The process dies, or an exception ends the handler. *)
Crash(a) ==
  /\ att[a].pc \in Working \cup Awaiting
  /\ att' = Return(a, "crashed")
  /\ UNCHANGED <<row, ledger, cash, intent, now>>

-----------------------------------------------------------------------------
(* Everyone else *)

(* Mutant: a sensor event after the close is taken for the passage. *)
VehiclePassedLate ==
  /\ Current(row) \in {"EXIT_GATE_OPEN_REQUESTED", "CLOSED"}
  /\ row' = Advanced(row, row, "EXIT_VEHICLE_PASSED")
  /\ UNCHANGED <<ledger, att, cash, intent, now>>

(* mark_vehicle_passed(side="EXIT"), called when a sensor saw the vehicle
   pass: two commits. *)
VehiclePassed ==
  /\ Current(row) = "EXIT_GATE_OPEN_REQUESTED"
  /\ row' = Advanced(row, row, "EXIT_VEHICLE_PASSED")
  /\ UNCHANGED <<ledger, att, cash, intent, now>>

PassageCloses ==
  /\ Current(row) = "EXIT_VEHICLE_PASSED"
  /\ row' = Advanced(row, row, "CLOSED")
  /\ UNCHANGED <<ledger, att, cash, intent, now>>

(* The entry lane lets a waiting vehicle in. *)
EntryCompletes ==
  /\ row.lifecycle = "RECEIPT_PRESENTED"
  /\ row' = [row EXCEPT !.lifecycle = "ACTIVE", !.status = "ACTIVE"]
  /\ UNCHANGED <<ledger, att, cash, intent, now>>

(* public_session_payload: looking at the receipt page requotes. *)
ViewReceipt ==
  /\ row.status \notin {"CLOSED", "PAID"}
  /\ row' = [row EXCEPT !.due = Fee[now]]
  /\ UNCHANGED <<ledger, att, cash, intent, now>>

(* POST /sessions/{id}/exit *)
CloseByHand ==
  /\ row' = [row EXCEPT !.status = "CLOSED", !.due = Fee[now]]
  /\ UNCHANGED <<ledger, att, cash, intent, now>>

(* apply_session_payment_state on a loaded copy, with a grace period. *)
Paid(r, seen, total, grace) ==
  IF total >= seen.due
  THEN [r EXCEPT !.status = Column(@, seen.status, "PAID"),
                 !.payment = Column(@, seen.payment, "SUCCEEDED"),
                 !.graceUntil = IF grace > 0 /\ seen.graceUntil = NoGrace THEN now + grace ELSE @]
  ELSE IF total > 0
       THEN [r EXCEPT !.payment = Column(@, seen.payment, "PENDING")]
       ELSE r

(* mark_paid: requote, then settle what remains. *)
QuoteToSettle(c) ==
  LET loaded == [row EXCEPT !.due = Fee[now]]
  IN /\ cash[c].pc = "idle"
     /\ row' = loaded
     /\ cash' = [cash EXCEPT ![c] =
          IF Fee[now] > ledger.total
          THEN [pc |-> "quoted", seen |-> loaded, had |-> ledger.total]
          ELSE [@ EXCEPT !.pc = "refused"]]
     /\ UNCHANGED <<ledger, att, intent, now>>

(* record_succeeded_payment under the session's one settle key.  A key that
   is taken is a duplicate: nothing is credited.  The loser of a race for it
   rolls back and works on a fresh copy. *)
Settle(c) ==
  LET seen == cash[c].seen
      fresh == SettleKey \notin ledger.keys
      total == IF fresh THEN ledger.total + (seen.due - cash[c].had) ELSE ledger.total
  IN /\ cash[c].pc = "quoted"
     /\ ledger' = [keys |-> ledger.keys \cup {SettleKey}, total |-> total]
     /\ \E copy \in {seen} \cup (IF fresh THEN {} ELSE {row}) :
          row' = Paid(row, copy, total, DefaultGrace)
     /\ cash' = [cash EXCEPT ![c].pc = "recorded"]
     /\ UNCHANGED <<att, intent, now>>

(* mark_paid again, after its refresh, with the site's grace period. *)
SettleAgain(c) ==
  /\ cash[c].pc = "recorded"
  /\ row' = Paid(row, row, ledger.total, ConfiguredGrace)
  /\ cash' = [cash EXCEPT ![c].pc = "done", ![c].seen = NoCopy, ![c].had = 0]
  /\ UNCHANGED <<ledger, att, intent, now>>

(* Mutant: the prompt on the driver's phone already counts as payment. *)
StartMobilePaid(i) ==
  /\ intent[i].pc = "idle"
  /\ row' = [row EXCEPT !.status = "PAID"]
  /\ intent' = [intent EXCEPT ![i] = [pc |-> "pending", amount |-> Fee[now]]]
  /\ UNCHANGED <<ledger, att, cash, now>>

(* start_mobile_payment: the intent is for what remains now. *)
StartMobile(i) ==
  LET due == IF row.status \in {"CLOSED", "PAID"} THEN row.due ELSE Fee[now]
  IN /\ intent[i].pc = "idle"
     /\ row' = [row EXCEPT !.due = due]
     /\ intent' = IF due > ledger.total
                  THEN [intent EXCEPT ![i] = [pc |-> "pending", amount |-> due - ledger.total]]
                  ELSE intent
     /\ UNCHANGED <<ledger, att, cash, now>>

(* settle_intent: the provider confirmed, the ledger is credited. *)
CreditMobile(i) ==
  LET total == ledger.total + intent[i].amount
  IN /\ intent[i].pc = "pending"
     /\ ledger' = [keys |-> ledger.keys \cup {i}, total |-> total]
     /\ row' = Paid(row, row, total, DefaultGrace)
     /\ intent' = [intent EXCEPT ![i].pc = "credited"]
     /\ UNCHANGED <<att, cash, now>>

Tick ==
  /\ now < MaxTime
  /\ now' = now + 1
  /\ UNCHANGED <<row, ledger, att, cash, intent>>

-----------------------------------------------------------------------------
Handle(a) ==
  \/ \E gate \in BOOLEAN : Submit(a, gate)
  \/ Price(a)
  \/ Refresh(a)
  \/ ClaimExit(a)
  \/ \E i \in 1..6 : Drive(a, i)
  \/ Conclude(a)
  \/ ClaimCommand(a)
  \/ \E result \in Pulses \ {"none"} : Pulse(a, result)
  \/ RequestOpen(a)
  \/ CountAsPassed(a)

Next ==
  \/ \E a \in Attempts : Handle(a) \/ Crash(a)
  \/ \E c \in Cashiers : QuoteToSettle(c) \/ Settle(c) \/ SettleAgain(c)
  \/ \E i \in Intents : StartMobile(i) \/ CreditMobile(i)
  \/ VehiclePassed \/ PassageCloses
  \/ EntryCompletes
  \/ ViewReceipt
  \/ CloseByHand
  \/ Tick

Spec == Init /\ [][Next]_vars

(* The loop, or the operating system, keeps running handlers that are not
   waiting, the barrier call returns (it has a timeout), and a passage call
   that stored its first state goes on to the second. *)
Fairness ==
  /\ \A a \in Attempts : WF_vars(att[a].pc # "idle" /\ Handle(a))
  /\ WF_vars(PassageCloses)

FairSpec == Spec /\ Fairness

-----------------------------------------------------------------------------
(* Properties *)

TypeOK ==
  /\ row \in Row
  /\ ledger \in Ledger
  /\ att \in [Attempts -> Attempt]
  /\ cash \in [Cashiers -> Cash]
  /\ intent \in [Intents -> Intent]
  /\ now \in Time

(* A session is sent at most one automatic exit pulse, whatever events,
   redeliveries and scans race for it: the conditional UPDATE of
   exit_open_command_uuid decides (exit_lane.py, _open_authorized). *)
AtMostOnePulse ==
  \A a, b \in Attempts :
    att[a].pulse # "none" /\ att[b].pulse # "none" => a = b

(* The barrier is pulsed only for a session some call was allowed to let
   go: its fresh quote was covered, or the vehicle is a subscriber's. *)
PulseWasGranted ==
  (\E a \in Attempts : att[a].pulse # "none")
    => \E b \in Attempts : att[b].granted /\ att[b].allow

(* The lane never closes a session whose barrier did not report open: a
   failed or unanswered pulse keeps the session. *)
ClosedOnlyAfterOpening ==
  row.lifecycle \in {"EXIT_GATE_OPEN_REQUESTED", "EXIT_VEHICLE_PASSED", "CLOSED"}
    => \E a \in Attempts : att[a].pulse = "opened"

(* One event owns an exit in flight; another takes over only after a
   denial (start_exit). *)
OwnerChangesOnlyAfterDenial ==
  [][row.exitEvent # NoOne /\ row'.exitEvent # row.exitEvent
       => Current(row) = "DENIED_PAYMENT_REQUIRED"]_vars

(* Once the barrier has opened, the call that opened it records it: it is
   never refused by the lifecycle afterwards. *)
OpenedIsRecorded ==
  \A a \in Attempts : att[a].pulse = "opened" => att[a].pc # "error"

(* A closed lifecycle is final, however many handlers still hold a copy. *)
LifecycleClosedIsFinal ==
  [][row.lifecycle = "CLOSED" => row'.lifecycle = "CLOSED"]_vars

(* The row says PAID only when money was recorded for the session. *)
PaidIsBacked == row.status = "PAID" => ledger.keys # {}

(* Nothing breaks: every lane has a gate, every pulse is answered, no
   handler dies. *)
Faultless ==
  \A a \in Attempts :
    /\ att[a].pc \notin {"idle", "no_session", "duplicate"} => att[a].gate
    /\ att[a].pulse \notin {"lost", "failed"}
    /\ att[a].pc # "crashed"

(* Without faults a vehicle that was allowed to go does go. *)
GrantedVehicleLeaves ==
  []Faultless => \A a \in Attempts : att[a].granted ~> row.lifecycle = "CLOSED"
=============================================================================

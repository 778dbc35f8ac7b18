--------------------------- MODULE ExitLane_proofs ---------------------------
(***************************************************************************)
(* What holds of the exit lane for every set of calls, events, payments    *)
(* and every tariff, in one process or several.                            *)
(***************************************************************************)
EXTENDS ExitLane, TLAPS

(* The call holds the session's command id from its claim on. *)
Commanding == {"commanded", "pulsing", "pulsed", "requested", "passing"}
(* It has not pulsed yet. *)
BeforePulse == {"idle", "loaded", "priced", "ready", "owned", "driving", "advanced",
                "authorized", "commanded", "pulsing"}
(* It has heard the barrier report open. *)
AfterOpening == {"pulsed", "requested", "passing"}

Granted == \E b \in Attempts : att[b].granted /\ att[b].allow
Opened  == \E b \in Attempts : att[b].pulse = "opened"
OpenedStates == {"EXIT_GATE_OPEN_REQUESTED", "EXIT_VEHICLE_PASSED", "CLOSED"}

(* The command id in the row is the pulsing call's. *)
CommandInv ==
  \A a \in Attempts :
    /\ att[a].pc \in Commanding \/ att[a].pulse # "none" => row.openCommand = a
    /\ att[a].pc \in BeforePulse => att[a].pulse = "none"

(* Every copy of the row, and every call past the decision, has a grant
   behind it. *)
GrantInv ==
  /\ row.lifecycle \in InFlight => Granted
  /\ \A a \in Attempts :
       /\ att[a].seen.lifecycle \in InFlight => Granted
       /\ att[a].pc \in Commanding \cup {"authorized"} \/ att[a].pulse # "none" => Granted
       /\ att[a].pc \in {"idle", "loaded"} => ~att[a].granted

(* Every copy of the row that says the gate was asked to open has an
   opening behind it. *)
OpeningInv ==
  /\ row.lifecycle \in OpenedStates => Opened
  /\ \A a \in Attempts :
       /\ att[a].seen.lifecycle \in OpenedStates => Opened
       /\ att[a].pc \in AfterOpening => att[a].pulse = "opened"

ControlInv == CommandInv /\ GrantInv /\ OpeningInv

(* A recorded settlement is in the ledger. *)
PaidInv ==
  /\ PaidIsBacked
  /\ \A c \in Cashiers : cash[c].pc = "recorded" => ledger.keys # {}

(* A cashier settles a positive remainder. *)
RemainderInv ==
  \A c \in Cashiers : cash[c].pc = "quoted" => cash[c].seen.due >= cash[c].had

-----------------------------------------------------------------------------
(* Lemmas about the operators *)

(* Advancing a loaded copy of the row gives a row. *)
LEMMA AdvancedType ==
  ASSUME NEW r \in Row, NEW seen \in Row, NEW target \in Lifecycles
  PROVE  /\ Advanced(r, seen, target) \in Row
         /\ Advanced(r, seen, target).lifecycle = target
         /\ Advanced(r, seen, target).openCommand = r.openCommand
<1>1. StoredStatusFor(target, seen.status, StoredAsWaiting(Policy, seen.kind)) \in Statuses
  BY DEF StoredStatusFor, Statuses, OpenStored
<1>2. Column(r.status, seen.status,
             StoredStatusFor(target, seen.status, StoredAsWaiting(Policy, seen.kind))) \in Statuses
  BY <1>1 DEF Column, Row
<1> QED
  BY <1>2 DEF Advanced, Row

(* Advancing never makes a row PAID that was not. *)
LEMMA AdvancedPaid ==
  ASSUME NEW r \in Row, NEW seen \in Row, NEW target \in Lifecycles,
         Advanced(r, seen, target).status = "PAID"
  PROVE  r.status = "PAID"
<1> DEFINE new == StoredStatusFor(target, seen.status, StoredAsWaiting(Policy, seen.kind))
<1>1. new = "PAID" => seen.status = "PAID"
  BY DEF StoredStatusFor
<1>2. Advanced(r, seen, target).status = Column(r.status, seen.status, new)
  BY DEF Advanced, Row
<1> HIDE DEF new
<1> QED
  BY <1>1, <1>2 DEF Column

(* A lifecycle that is inferred is one of four, none past a decision but
   CLOSED. *)
LEMMA CurrentOf ==
  ASSUME NEW r \in Row
  PROVE  /\ Current(r) \in Lifecycles
         /\ Current(r) \in InFlight \ {"CLOSED"} => r.lifecycle = Current(r)
         /\ Current(r) = "DENIED_PAYMENT_REQUIRED" => r.lifecycle = Current(r)
BY DEF Current, InferLifecycle, Row, Lifecycles, EntryStates, ExitStates, InFlight

(* Recording a payment touches neither the lifecycle nor the command. *)
LEMMA PaidFrame ==
  ASSUME NEW r \in Row, NEW seen, NEW total, NEW grace
  PROVE  /\ Paid(r, seen, total, grace).lifecycle = r.lifecycle
         /\ Paid(r, seen, total, grace).openCommand = r.openCommand
BY DEF Paid, Row

(* It gives a row. *)
LEMMA PaidType ==
  ASSUME NEW r \in Row, NEW seen \in Row, NEW total \in Nat, NEW grace \in Nat, now \in Nat
  PROVE  Paid(r, seen, total, grace) \in Row
<1> DEFINE until == IF grace > 0 /\ seen.graceUntil = NoGrace THEN now + grace ELSE r.graceUntil
<1>1. /\ Column(r.status, seen.status, "PAID") \in Statuses
      /\ Column(r.payment, seen.payment, "SUCCEEDED") \in {"NONE", "PENDING", "SUCCEEDED"}
      /\ Column(r.payment, seen.payment, "PENDING") \in {"NONE", "PENDING", "SUCCEEDED"}
      /\ until \in Nat \cup {NoGrace}
  <2>1. r.graceUntil \in Nat \cup {NoGrace} /\ r.status \in Statuses
        /\ r.payment \in {"NONE", "PENDING", "SUCCEEDED"}
    BY DEF Row
  <2>2. now + grace \in Nat
    OBVIOUS
  <2> QED
    BY <2>1, <2>2 DEF Column, Statuses, OpenStored
<1>2. CASE total >= seen.due
  <2>1. Paid(r, seen, total, grace) =
          [r EXCEPT !.status = Column(r.status, seen.status, "PAID"),
                    !.payment = Column(r.payment, seen.payment, "SUCCEEDED"),
                    !.graceUntil = until]
    BY <1>2 DEF Paid, Row
  <2> HIDE DEF until
  <2> QED
    BY <1>1, <2>1 DEF Row
<1>3. CASE ~(total >= seen.due) /\ total > 0
  <2>1. Paid(r, seen, total, grace) =
          [r EXCEPT !.payment = Column(r.payment, seen.payment, "PENDING")]
    BY <1>3 DEF Paid, Row
  <2> QED
    BY <1>1, <2>1 DEF Row
<1>4. CASE ~(total >= seen.due) /\ ~(total > 0)
  BY <1>4 DEF Paid
<1> QED
  BY <1>2, <1>3, <1>4

(* The price at any time of the clock is a natural number. *)
LEMMA FeeType == ASSUME now \in Time PROVE Fee[now] \in Nat /\ now \in Nat
BY FeeAssumption, ClockAssumption DEF Time

LEMMA NoCopyType == NoCopy \in Row /\ NoCopy.lifecycle = "" /\ NoCopy.status = "OPEN"
BY DEF NoCopy, FreshRow, Row, Statuses, OpenStored, Sides, Kinds, NoGrace

LEMMA StagesType == 1 \in Stages /\ 7 \in Stages /\ \A i \in 1..6 : i + 1 \in Stages
BY DEF Stages

(* A call that returns forgets its copy and keeps what it was granted. *)
LEMMA ReturnType ==
  ASSUME att \in [Attempts -> Attempt], NEW a \in Attempts, NEW pc \in Returned
  PROVE  /\ Return(a, pc) \in [Attempts -> Attempt]
         /\ Return(a, pc)[a].pc = pc
         /\ Return(a, pc)[a].seen = NoCopy
         /\ Return(a, pc)[a].granted = att[a].granted
         /\ Return(a, pc)[a].allow = att[a].allow
         /\ Return(a, pc)[a].pulse = att[a].pulse
         /\ \A b \in Attempts \ {a} : Return(a, pc)[b] = att[b]
BY NoCopyType, StagesType DEF Return, Attempt, Stations

-----------------------------------------------------------------------------
(* Type correctness *)

LEMMA InitType == Init => TypeOK /\ RemainderInv
<1> SUFFICES ASSUME Init PROVE TypeOK /\ RemainderInv
  OBVIOUS
<1>1. row \in Row
  <2>1. PICK kind \in Kinds : \/ row = FreshRow("ACTIVE", "ACTIVE", kind)
                             \/ row = FreshRow("RECEIPT_PRESENTED", "WAITING_RECEIPT", kind)
                             \/ row = FreshRow("", "OPEN", kind)
    BY DEF Init, InitialRows, Kinds
  <2>2. \A lifecycle \in Lifecycles \cup {""}, status \in Statuses :
          FreshRow(lifecycle, status, kind) \in Row
    BY DEF FreshRow, Row, Sides
  <2> QED
    BY <2>1, <2>2 DEF Lifecycles, EntryStates, Statuses, OpenStored
<1>2. ledger \in Ledger
  BY DEF Init, Ledger
<1>3. att \in [Attempts -> Attempt]
  <2>1. [pc |-> "idle", seen |-> NoCopy, gate |-> FALSE, allow |-> FALSE,
         stage |-> 1, granted |-> FALSE, pulse |-> "none"] \in Attempt
    BY NoCopyType, StagesType DEF Attempt, Stations, Pulses
  <2> QED
    BY <2>1 DEF Init
<1>4. cash \in [Cashiers -> Cash] /\ intent \in [Intents -> Intent]
  BY NoCopyType DEF Init, Cash, Intent
<1>5. now \in Time
  BY ClockAssumption DEF Init, Time
<1>6. RemainderInv
  BY DEF Init, RemainderInv
<1> QED
  BY <1>1, <1>2, <1>3, <1>4, <1>5, <1>6 DEF TypeOK

(* The calls of the exit controller keep the types. *)
LEMMA HandleType ==
  ASSUME TypeOK, NEW a \in Attempts, Handle(a) \/ Crash(a)
  PROVE  row' \in Row /\ att' \in [Attempts -> Attempt]
<1> USE DEF TypeOK
<1>0. att[a] \in Attempt /\ att[a].seen \in Row /\ att[a].stage \in Stages
      /\ att[a].allow \in BOOLEAN
  BY DEF Attempt
<1>1. ASSUME NEW gate \in BOOLEAN, Submit(a, gate) PROVE row' \in Row /\ att' \in [Attempts -> Attempt]
  <2>1. CASE att' = Return(a, "duplicate") \/ att' = Return(a, "no_session")
    BY <1>1, <2>1, ReturnType DEF Submit, Returned
  <2>2. CASE att' = [att EXCEPT ![a].pc = "loaded", ![a].seen = row, ![a].gate = gate]
    <3>1. row' = row
      BY <1>1 DEF Submit
    <3> DEFINE loaded == [att[a] EXCEPT !.pc = "loaded", !.seen = row, !.gate = gate]
    <3>2. loaded \in Attempt
      BY <1>0 DEF Attempt, Stations, Working
    <3>3. att' = [att EXCEPT ![a] = loaded]
      BY <2>2
    <3> HIDE DEF loaded
    <3> QED
      BY <3>1, <3>2, <3>3
  <2> QED
    BY <1>1, <2>1, <2>2 DEF Submit
<1>2. CASE Price(a)
  <2> DEFINE due == IF IsSubscriber(att[a].seen.kind) THEN 0
                    ELSE IF InGrace(att[a].seen) THEN att[a].seen.due ELSE Fee[now]
  <2>1. due \in Nat
    BY <1>0, FeeType DEF Row
  <2>2. Column(row.due, att[a].seen.due, due) \in Nat
    BY <2>1 DEF Column, Row
  <2>3. row' = [row EXCEPT !.due = Column(row.due, att[a].seen.due, due)]
    BY <1>2 DEF Price, Row
  <2>4. PICK allow \in BOOLEAN :
          att' = [att EXCEPT ![a].pc = "priced", ![a].allow = allow]
    BY <1>2 DEF Price
  <2> HIDE DEF due
  <2>6. row' \in Row
    BY <2>2, <2>3 DEF Row
  <2> QED
    BY <2>4, <2>6 DEF Attempt, Stations, Working
<1>3. CASE Refresh(a)
  <2>1. PICK pc \in Stations : att' = [att EXCEPT ![a].pc = pc, ![a].seen = row]
    BY <1>3 DEF Refresh, AfterRefresh, Stations, Working, Awaiting
  <2>2. row' = row
    BY <1>3 DEF Refresh
  <2> QED
    BY <2>1, <2>2 DEF Attempt
<1>4. CASE ClaimExit(a)
  <2>1. CASE att' = Return(a, "no_session") /\ UNCHANGED row
    BY <2>1, ReturnType DEF Returned
  <2>2. CASE /\ row' = [row EXCEPT !.exitEvent = EventOf[a], !.side = "EXIT"]
             /\ att' = [att EXCEPT ![a].pc = "owned", ![a].stage = 1]
    <3>1. row' \in Row
      BY <2>2, EventAssumption DEF Row, Sides
    <3>2. att' \in [Attempts -> Attempt]
      BY <2>2, StagesType DEF Attempt, Stations, Working
    <3> QED
      BY <3>1, <3>2
  <2>3. CASE att' = [att EXCEPT ![a].pc = "driving", ![a].stage = 7] /\ UNCHANGED row
    BY <2>3, StagesType DEF Attempt, Stations, Working
  <2> QED
    BY <1>4, <2>1, <2>2, <2>3 DEF ClaimExit
<1>5. ASSUME NEW i \in 1..6, Drive(a, i) PROVE row' \in Row /\ att' \in [Attempts -> Attempt]
  <2>1. StageTo(i, att[a].allow) \in Lifecycles
    BY DEF StageTo, Lifecycles, ExitStates
  <2>2. row' \in Row
    BY <1>0, <1>5, <2>1, AdvancedType DEF Drive
  <2>3. i + 1 \in Stages
    BY StagesType
  <2> QED
    <3>1. PICK granted \in BOOLEAN :
            att' = [att EXCEPT ![a].pc = "advanced", ![a].stage = i + 1, ![a].granted = granted]
      BY <1>5 DEF Drive
    <3> DEFINE advanced == [att[a] EXCEPT !.pc = "advanced", !.stage = i + 1, !.granted = granted]
    <3>2. advanced \in Attempt
      BY <1>0, <2>3 DEF Attempt, Stations, Working
    <3>3. att' = [att EXCEPT ![a] = advanced]
      BY <3>1
    <3> HIDE DEF advanced
    <3> QED
      BY <2>2, <3>2, <3>3
<1>6. CASE Conclude(a)
  <2>1. Verdict(a) \in Returned \cup {"authorized"}
    BY DEF Verdict, Returned
  <2> HIDE DEF Verdict
  <2>2. CASE Verdict(a) = "authorized"
    BY <1>6, <2>2 DEF Conclude, Attempt, Stations, Working
  <2>3. CASE Verdict(a) # "authorized"
    BY <1>6, <2>1, <2>3, ReturnType DEF Conclude
  <2> QED
    BY <2>2, <2>3
<1>7. CASE ClaimCommand(a)
  <2>1. CASE row.openCommand = NoOne
    <3>1. row' \in Row
      BY <1>7, <2>1 DEF ClaimCommand, Row
    <3>2. att' = [att EXCEPT ![a].pc = "commanded"]
      BY <1>7, <2>1 DEF ClaimCommand
    <3> QED
      BY <3>1, <3>2 DEF Attempt, Stations, Working
  <2>2. CASE row.openCommand # NoOne
    BY <1>7, <2>2, ReturnType DEF ClaimCommand, Returned
  <2> QED
    BY <2>1, <2>2
<1>8. ASSUME NEW result \in Pulses \ {"none"}, Pulse(a, result)
      PROVE  row' \in Row /\ att' \in [Attempts -> Attempt]
  <2>1. CASE result = "opened"
    BY <1>8, <2>1 DEF Pulse, Attempt, Stations, Awaiting
  <2>2. CASE result # "opened"
    <3>1. /\ row' = row
          /\ att' = [Return(a, "gate_unavailable") EXCEPT ![a].pulse = result]
      BY <1>8, <2>2 DEF Pulse
    <3>2. Return(a, "gate_unavailable") \in [Attempts -> Attempt]
      BY ReturnType DEF Returned
    <3> HIDE DEF Return
    <3> QED
      BY <3>1, <3>2 DEF Attempt
  <2> QED
    BY <2>1, <2>2
<1>9. CASE RequestOpen(a)
  <2>1. CASE att' = Return(a, "error") /\ UNCHANGED row
    BY <2>1, ReturnType DEF Returned
  <2>2. CASE /\ row' = Advanced(row, att[a].seen, "EXIT_GATE_OPEN_REQUESTED")
             /\ att' = [att EXCEPT ![a].pc = "requested"]
    BY <1>0, <2>2, AdvancedType DEF Lifecycles, ExitStates, Attempt, Stations, Working
  <2>3. CASE att' = [att EXCEPT ![a].pc = "passing"] /\ UNCHANGED row
    BY <2>3 DEF Attempt, Stations, Working
  <2> QED
    BY <1>9, <2>1, <2>2, <2>3 DEF RequestOpen
<1>10. CASE CountAsPassed(a)
  <2>1. CASE row' = Advanced(row, att[a].seen, "CLOSED") /\ att' = Return(a, "closed")
    BY <1>0, <2>1, AdvancedType, ReturnType DEF Lifecycles, ExitStates, Returned
  <2>2. CASE UNCHANGED row /\ \E pc \in {"closed", "waiting_passage"} : att' = Return(a, pc)
    BY <2>2, ReturnType DEF Returned
  <2> QED
    BY <1>10, <2>1, <2>2 DEF CountAsPassed
<1>11. CASE Crash(a)
  BY <1>11, ReturnType DEF Crash, Returned
<1> QED
  BY <1>1, <1>2, <1>3, <1>4, <1>5, <1>6, <1>7, <1>8, <1>9, <1>10, <1>11 DEF Handle

(* The payments keep the types, and what is settled is a remainder. *)
LEMMA CashType ==
  ASSUME TypeOK, RemainderInv, NEW c \in Cashiers,
         QuoteToSettle(c) \/ Settle(c) \/ SettleAgain(c)
  PROVE  TypeOK' /\ RemainderInv'
<1> USE DEF TypeOK
<1>0. /\ cash[c] \in Cash /\ cash[c].seen \in Row
      /\ ledger.total \in Nat /\ ledger.keys \in SUBSET ({SettleKey} \cup Intents)
  BY DEF Cash, Ledger
<1>1. CASE QuoteToSettle(c)
  <2> DEFINE loaded == [row EXCEPT !.due = Fee[now]]
  <2>1. loaded \in Row /\ loaded.due = Fee[now] /\ Fee[now] \in Nat
    BY FeeType DEF Row
  <2>2. row' = loaded /\ UNCHANGED <<ledger, att, intent, now>>
    BY <1>1 DEF QuoteToSettle
  <2>3. CASE Fee[now] > ledger.total
    <3> DEFINE quoted == [pc |-> "quoted", seen |-> loaded, had |-> ledger.total]
    <3>1. quoted \in Cash
      BY <1>0, <2>1 DEF Cash
    <3>2. cash' = [cash EXCEPT ![c] = quoted]
      BY <1>1, <2>3 DEF QuoteToSettle
    <3>3. quoted.pc = "quoted" /\ quoted.seen = loaded /\ quoted.had = ledger.total
      OBVIOUS
    <3>4. loaded.due >= ledger.total
      BY <1>0, <2>1, <2>3
    <3> HIDE DEF quoted, loaded
    <3> QED
      BY <2>1, <2>2, <3>1, <3>2, <3>3, <3>4 DEF RemainderInv
  <2>4. CASE ~(Fee[now] > ledger.total)
    <3>1. cash' = [cash EXCEPT ![c] = [cash[c] EXCEPT !.pc = "refused"]]
      BY <1>1, <2>4 DEF QuoteToSettle
    <3> HIDE DEF loaded
    <3> QED
      BY <2>1, <2>2, <3>1 DEF RemainderInv, Cash
  <2> QED
    BY <2>3, <2>4
<1>2. CASE Settle(c)
  <2> DEFINE fresh == SettleKey \notin ledger.keys
             total == IF fresh THEN ledger.total + (cash[c].seen.due - cash[c].had)
                               ELSE ledger.total
  <2>1. total \in Nat
    <3>1. cash[c].seen.due \in Nat /\ cash[c].had \in Nat
      BY <1>0 DEF Cash, Row
    <3>2. cash[c].seen.due >= cash[c].had
      BY <1>2 DEF Settle, RemainderInv
    <3> QED
      BY <1>0, <3>1, <3>2
  <2>2. /\ ledger' = [keys |-> ledger.keys \cup {SettleKey}, total |-> total]
        /\ cash' = [cash EXCEPT ![c].pc = "recorded"]
        /\ UNCHANGED <<att, intent, now>>
    BY <1>2 DEF Settle
  <2>3. PICK copy \in {cash[c].seen, row} : row' = Paid(row, copy, total, DefaultGrace)
    BY <1>2 DEF Settle
  <2> HIDE DEF fresh, total
  <2>4. row' \in Row
    BY <1>0, <2>1, <2>3, PaidType, FeeType, ClockAssumption
  <2>5. ledger' \in Ledger
    BY <1>0, <2>1, <2>2 DEF Ledger
  <2> QED
    BY <2>2, <2>4, <2>5 DEF Cash, RemainderInv
<1>3. CASE SettleAgain(c)
  <2>1. row' \in Row
    BY <1>0, <1>3, PaidType, FeeType, ClockAssumption DEF SettleAgain
  <2>2. /\ cash' = [cash EXCEPT ![c].pc = "done", ![c].seen = NoCopy, ![c].had = 0]
        /\ UNCHANGED <<ledger, att, intent, now>>
    BY <1>3 DEF SettleAgain
  <2> QED
    <3> DEFINE done == [cash[c] EXCEPT !.pc = "done", !.seen = NoCopy, !.had = 0]
    <3>1. done \in Cash /\ done.pc = "done"
      BY <1>0, NoCopyType DEF Cash
    <3>2. cash' = [cash EXCEPT ![c] = done]
      BY <2>2
    <3> HIDE DEF done
    <3> QED
      BY <2>1, <2>2, <3>1, <3>2 DEF RemainderInv
<1> QED
  BY <1>1, <1>2, <1>3

LEMMA MobileType ==
  ASSUME TypeOK, RemainderInv, NEW i \in Intents, StartMobile(i) \/ CreditMobile(i)
  PROVE  TypeOK' /\ RemainderInv'
<1> USE DEF TypeOK
<1>0. /\ ledger.total \in Nat /\ ledger.keys \in SUBSET ({SettleKey} \cup Intents)
      /\ intent[i] \in Intent /\ intent[i].amount \in Nat
  BY DEF Ledger, Intent
<1>1. CASE StartMobile(i)
  <2> DEFINE due == IF row.status \in {"CLOSED", "PAID"} THEN row.due ELSE Fee[now]
  <2>1. due \in Nat
    BY FeeType DEF Row
  <2>2. /\ row' = [row EXCEPT !.due = due]
        /\ intent' = IF due > ledger.total
                     THEN [intent EXCEPT ![i] = [pc |-> "pending", amount |-> due - ledger.total]]
                     ELSE intent
        /\ UNCHANGED <<ledger, att, cash, now>>
    BY <1>1 DEF StartMobile
  <2> HIDE DEF due
  <2>3. row' \in Row
    BY <2>1, <2>2 DEF Row
  <2>4. intent' \in [Intents -> Intent]
    BY <1>0, <2>1, <2>2 DEF Intent
  <2> QED
    BY <2>2, <2>3, <2>4 DEF RemainderInv
<1>2. CASE CreditMobile(i)
  <2> DEFINE total == ledger.total + intent[i].amount
  <2>1. total \in Nat
    BY <1>0
  <2>2. /\ ledger' = [keys |-> ledger.keys \cup {i}, total |-> total]
        /\ row' = Paid(row, row, total, DefaultGrace)
        /\ intent' = [intent EXCEPT ![i].pc = "credited"]
        /\ UNCHANGED <<att, cash, now>>
    BY <1>2 DEF CreditMobile
  <2> HIDE DEF total
  <2>3. row' \in Row
    BY <2>1, <2>2, PaidType, FeeType, ClockAssumption
  <2>4. ledger' \in Ledger
    BY <1>0, <2>1, <2>2 DEF Ledger
  <2>5. intent' \in [Intents -> Intent]
    BY <2>2 DEF Intent
  <2> QED
    BY <2>2, <2>3, <2>4, <2>5 DEF RemainderInv
<1> QED
  BY <1>1, <1>2

(* Every step keeps the types. *)
LEMMA StepType ==
  ASSUME TypeOK, RemainderInv, [Next]_vars
  PROVE  TypeOK' /\ RemainderInv'
<1>1. ASSUME NEW a \in Attempts, Handle(a) \/ Crash(a) PROVE TypeOK' /\ RemainderInv'
  <2>1. UNCHANGED <<ledger, cash, intent, now>>
    BY <1>1 DEF Handle, Submit, Price, Refresh, ClaimExit, Drive, Conclude, ClaimCommand,
                Pulse, RequestOpen, CountAsPassed, Crash
  <2>2. row' \in Row /\ att' \in [Attempts -> Attempt]
    BY <1>1, HandleType
  <2> QED
    BY <2>1, <2>2 DEF TypeOK, RemainderInv
<1>2. CASE VehiclePassed \/ PassageCloses \/ EntryCompletes \/ ViewReceipt \/ CloseByHand
  <2>1. UNCHANGED <<ledger, att, cash, intent, now>>
    BY <1>2 DEF VehiclePassed, PassageCloses, EntryCompletes, ViewReceipt, CloseByHand
  <2>2. CASE VehiclePassed \/ PassageCloses
    <3>1. row' \in Row
      BY <2>2, AdvancedType DEF VehiclePassed, PassageCloses, TypeOK, Lifecycles, ExitStates
    <3> QED
      BY <2>1, <3>1 DEF TypeOK, RemainderInv
  <2>3. CASE EntryCompletes \/ ViewReceipt \/ CloseByHand
    <3>1. row' \in Row
      <4>1. CASE row' = [row EXCEPT !.lifecycle = "ACTIVE", !.status = "ACTIVE"]
        BY <4>1 DEF TypeOK, Row, Statuses, OpenStored, Lifecycles, EntryStates
      <4>2. CASE row' = [row EXCEPT !.due = Fee[now]]
        BY <4>2, FeeType DEF TypeOK, Row
      <4>3. CASE row' = [row EXCEPT !.status = "CLOSED", !.due = Fee[now]]
        BY <4>3, FeeType DEF TypeOK, Row, Statuses
      <4> QED
        BY <2>3, <4>1, <4>2, <4>3 DEF EntryCompletes, ViewReceipt, CloseByHand
    <3> QED
      BY <2>1, <3>1 DEF TypeOK, RemainderInv
  <2> QED
    BY <1>2, <2>2, <2>3
<1>3. CASE Tick
  BY <1>3, ClockAssumption DEF Tick, TypeOK, Time, RemainderInv
<1>4. CASE UNCHANGED vars
  BY <1>4 DEF vars, TypeOK, RemainderInv
<1> QED
  BY <1>1, <1>2, <1>3, <1>4, CashType, MobileType DEF Next

(* Every value the model's state takes is one the code's columns and local
   variables can hold. *)
THEOREM TypeCorrect == Spec => []TypeOK
<1> DEFINE Inv == TypeOK /\ RemainderInv
<1>1. Init => Inv
  BY InitType
<1>2. Inv /\ [Next]_vars => Inv'
  BY StepType
<1> QED
  BY <1>1, <1>2, PTL DEF Spec

-----------------------------------------------------------------------------
(* The barrier *)

(* What is enough of a step of call a that neither claims the command nor
   pulses: it keeps its grant, its copy is the old one, the row or none, and
   what it stores has a grant and an opening behind it. *)
LEMMA CallStep ==
  ASSUME TypeOK, TypeOK', ControlInv, NEW a \in Attempts,
         \A b \in Attempts \ {a} : att'[b] = att[b],
         att'[a].pulse = att[a].pulse,
         att[a].granted => att'[a].granted /\ att'[a].allow = att[a].allow,
         att'[a].seen \in {att[a].seen, row, NoCopy},
         row'.openCommand = row.openCommand,
         row'.lifecycle \in InFlight => Granted',
         row'.lifecycle \in OpenedStates => Opened,
         att'[a].pc \in Commanding => att[a].pc \in Commanding,
         att'[a].pc \in BeforePulse => att[a].pc \in BeforePulse,
         att'[a].pc \in AfterOpening => att[a].pc \in AfterOpening,
         att'[a].pc \in {"idle", "loaded"} => ~att'[a].granted,
         att'[a].pc = "authorized" => Granted
  PROVE  ControlInv'
<1>1. Granted => Granted'
  BY DEF Granted
<1>2. Opened => Opened'
  BY DEF Opened
<1>3. CommandInv'
  BY DEF ControlInv, CommandInv
<1>4. NoCopy.lifecycle \notin InFlight \cup OpenedStates
  BY NoCopyType DEF InFlight, OpenedStates
<1>5. GrantInv'
  BY <1>1, <1>4 DEF ControlInv, GrantInv
<1>6. OpeningInv'
  BY <1>2, <1>4 DEF ControlInv, OpeningInv
<1> QED
  BY <1>3, <1>5, <1>6 DEF ControlInv

(* A call that returns, with the row unchanged. *)
LEMMA ReturnStep ==
  ASSUME TypeOK, TypeOK', ControlInv, NEW a \in Attempts, NEW pc \in Returned,
         att' = Return(a, pc), row' = row
  PROVE  ControlInv'
<1>1. /\ att'[a].pc = pc
      /\ att'[a].seen = NoCopy
      /\ att'[a].granted = att[a].granted
      /\ att'[a].allow = att[a].allow
      /\ att'[a].pulse = att[a].pulse
      /\ \A b \in Attempts \ {a} : att'[b] = att[b]
  BY ReturnType DEF TypeOK
<1>2. pc \notin Commanding \cup BeforePulse \cup AfterOpening \cup {"authorized"}
  BY DEF Returned, Commanding, BeforePulse, AfterOpening
<1>3. pc \notin {"idle", "loaded"}
  BY DEF Returned
<1>4. row'.lifecycle \in InFlight => Granted'
  BY <1>1 DEF ControlInv, GrantInv, Granted
<1>5. row'.lifecycle \in OpenedStates => Opened
  BY DEF ControlInv, OpeningInv
<1> QED
  BY <1>1, <1>2, <1>3, <1>4, <1>5, CallStep

(* Stations, by what the invariants say of them. *)
LEMMA StationsOf ==
  /\ {"loaded", "priced", "ready", "owned", "driving", "advanced"} \cap Commanding = {}
  /\ {"loaded", "priced", "ready", "owned", "driving", "advanced"} \cap AfterOpening = {}
  /\ {"loaded", "priced", "ready", "owned", "driving", "advanced", "authorized"} \subseteq BeforePulse
BY DEF Commanding, AfterOpening, BeforePulse

(* Each step of a call keeps the three invariants of the barrier. *)
LEMMA HandleControl ==
  ASSUME TypeOK, TypeOK', ControlInv, NEW a \in Attempts, Handle(a) \/ Crash(a)
  PROVE  ControlInv'
<1>0. /\ att[a] \in Attempt /\ att[a].seen \in Row /\ row \in Row
      /\ att \in [Attempts -> Attempt]
  BY DEF TypeOK, Attempt
<1>a. /\ row.lifecycle \in InFlight => Granted
      /\ row.lifecycle \in OpenedStates => Opened
      /\ Current(att[a].seen) \in InFlight \ {"CLOSED"} => Granted
      /\ att[a].pc \in AfterOpening => Opened
  BY <1>0, CurrentOf DEF ControlInv, GrantInv, OpeningInv, Opened
<1>1. ASSUME NEW gate \in BOOLEAN, Submit(a, gate) PROVE ControlInv'
  <2>1. row' = row /\ att[a].pc = "idle"
    BY <1>1 DEF Submit, At
  <2>2. CASE att' = Return(a, "duplicate") \/ att' = Return(a, "no_session")
    BY <2>1, <2>2, ReturnStep DEF Returned
  <2>3. CASE att' = [att EXCEPT ![a].pc = "loaded", ![a].seen = row, ![a].gate = gate]
    <3>1. /\ att'[a].pc = "loaded" /\ att'[a].seen = row
          /\ att'[a].granted = att[a].granted /\ att'[a].allow = att[a].allow
          /\ att'[a].pulse = att[a].pulse
          /\ \A b \in Attempts \ {a} : att'[b] = att[b]
      BY <1>0, <2>3 DEF Attempt
    <3>2. ~att[a].granted
      BY <2>1 DEF ControlInv, GrantInv
    <3>3. Granted => Granted'
      BY <3>1 DEF Granted
    <3> QED
      BY <1>a, <2>1, <3>1, <3>2, <3>3, StationsOf, CallStep DEF BeforePulse
  <2> QED
    BY <1>1, <2>2, <2>3 DEF Submit
<1>2. CASE Price(a)
  <2>1. PICK allow \in BOOLEAN :
          att' = [att EXCEPT ![a].pc = "priced", ![a].allow = allow]
    BY <1>2 DEF Price
  <2>2. /\ att[a].pc = "loaded"
        /\ row'.lifecycle = row.lifecycle /\ row'.openCommand = row.openCommand
    BY <1>0, <1>2 DEF Price, At, Row
  <2>3. /\ att'[a].pc = "priced" /\ att'[a].seen = att[a].seen
        /\ att'[a].granted = att[a].granted
        /\ att'[a].pulse = att[a].pulse
        /\ \A b \in Attempts \ {a} : att'[b] = att[b]
    BY <1>0, <2>1 DEF Attempt
  <2>4. ~att[a].granted
    BY <2>2 DEF ControlInv, GrantInv
  <2>5. Granted => Granted'
    BY <2>3, <2>4 DEF Granted
  <2> QED
    BY <1>a, <2>2, <2>3, <2>4, <2>5, StationsOf, CallStep DEF BeforePulse
<1>3. CASE Refresh(a)
  <2>1. /\ att' = [att EXCEPT ![a].pc = AfterRefresh[att[a].pc], ![a].seen = row]
        /\ row' = row
    BY <1>3 DEF Refresh
  <2>2. /\ att'[a].pc = AfterRefresh[att[a].pc] /\ att'[a].seen = row
        /\ att'[a].granted = att[a].granted /\ att'[a].allow = att[a].allow
        /\ att'[a].pulse = att[a].pulse
        /\ \A b \in Attempts \ {a} : att'[b] = att[b]
    BY <1>0, <2>1 DEF Attempt
  <2>3. /\ att'[a].pc \in Commanding => att[a].pc \in Commanding
        /\ att'[a].pc \in BeforePulse => att[a].pc \in BeforePulse
        /\ att'[a].pc \in AfterOpening => att[a].pc \in AfterOpening
        /\ att'[a].pc \notin {"idle", "loaded", "authorized"}
    <3>1. \/ att[a].pc = "priced" /\ att'[a].pc = "ready"
          \/ att[a].pc \in {"owned", "advanced"} /\ att'[a].pc = "driving"
          \/ att[a].pc = "commanded" /\ att'[a].pc = "pulsing"
          \/ att[a].pc = "requested" /\ att'[a].pc = "passing"
      BY <1>3, <2>2 DEF Refresh, AfterRefresh
    <3> QED
      BY <3>1 DEF Commanding, BeforePulse, AfterOpening
  <2>4. Granted => Granted'
    BY <2>2 DEF Granted
  <2> QED
    BY <1>a, <2>1, <2>2, <2>3, <2>4, CallStep
<1>4. CASE ClaimExit(a)
  <2>1. att[a].pc = "ready"
    BY <1>4 DEF ClaimExit, At
  <2>2. CASE att' = Return(a, "no_session") /\ row' = row
    BY <2>2, ReturnStep DEF Returned
  <2>3. CASE /\ row' = [row EXCEPT !.exitEvent = EventOf[a], !.side = "EXIT"]
             /\ att' = [att EXCEPT ![a].pc = "owned", ![a].stage = 1]
    <3>1. /\ att'[a].pc = "owned" /\ att'[a].seen = att[a].seen
          /\ att'[a].granted = att[a].granted /\ att'[a].allow = att[a].allow
          /\ att'[a].pulse = att[a].pulse
          /\ \A b \in Attempts \ {a} : att'[b] = att[b]
      BY <1>0, <2>3 DEF Attempt
    <3>2. row'.lifecycle = row.lifecycle /\ row'.openCommand = row.openCommand
      BY <1>0, <2>3 DEF Row
    <3>3. Granted => Granted'
      BY <3>1 DEF Granted
    <3> QED
      BY <1>a, <2>1, <3>1, <3>2, <3>3, StationsOf, CallStep DEF BeforePulse
  <2>4. CASE att' = [att EXCEPT ![a].pc = "driving", ![a].stage = 7] /\ row' = row
    <3>1. /\ att'[a].pc = "driving" /\ att'[a].seen = att[a].seen
          /\ att'[a].granted = att[a].granted /\ att'[a].allow = att[a].allow
          /\ att'[a].pulse = att[a].pulse
          /\ \A b \in Attempts \ {a} : att'[b] = att[b]
      BY <1>0, <2>4 DEF Attempt
    <3>2. Granted => Granted'
      BY <3>1 DEF Granted
    <3> QED
      BY <1>a, <2>1, <2>4, <3>1, <3>2, StationsOf, CallStep DEF BeforePulse
  <2> QED
    BY <1>4, <2>2, <2>3, <2>4 DEF ClaimExit
<1>5. ASSUME NEW i \in 1..6, Drive(a, i) PROVE ControlInv'
  <2> DEFINE target == StageTo(i, att[a].allow)
  <2>1. /\ att[a].pc = "driving"
        /\ row' = Advanced(row, att[a].seen, target)
        /\ att' = [att EXCEPT ![a].pc = "advanced", ![a].stage = i + 1,
                              ![a].granted = att[a].granted \/ target = "AUTHORIZED"]
    BY <1>5 DEF Drive, At
  <2>2. /\ target \in Lifecycles \ OpenedStates
        /\ target \in InFlight => target = "AUTHORIZED" /\ att[a].allow
    BY DEF StageTo, Lifecycles, ExitStates, OpenedStates, InFlight
  <2>3. row'.lifecycle = target /\ row'.openCommand = row.openCommand
    BY <1>0, <2>1, <2>2, AdvancedType
  <2> HIDE DEF target
  <2>4. PICK granted \in BOOLEAN :
          /\ granted = (att[a].granted \/ target = "AUTHORIZED")
          /\ att' = [att EXCEPT ![a].pc = "advanced", ![a].stage = i + 1, ![a].granted = granted]
    BY <2>1
  <2>5. /\ att'[a].pc = "advanced" /\ att'[a].seen = att[a].seen
        /\ att'[a].granted = granted /\ att'[a].allow = att[a].allow
        /\ att'[a].pulse = att[a].pulse
        /\ \A b \in Attempts \ {a} : att'[b] = att[b]
    BY <1>0, <2>4 DEF Attempt
  <2>6. row'.lifecycle \in InFlight => Granted'
    BY <2>2, <2>3, <2>4, <2>5 DEF Granted
  <2> QED
    BY <2>1, <2>2, <2>3, <2>4, <2>5, <2>6, StationsOf, CallStep DEF BeforePulse
<1>6. CASE Conclude(a)
  <2>1. att[a].pc = "driving" /\ row' = row
    BY <1>6 DEF Conclude, At
  <2>2. CASE Verdict(a) = "authorized"
    <3>1. Current(att[a].seen) = "AUTHORIZED"
      BY <2>2 DEF Verdict, InFlight
    <3>2. Granted
      BY <1>a, <3>1 DEF InFlight
    <3>3. att' = [att EXCEPT ![a].pc = "authorized"]
      BY <1>6, <2>2 DEF Conclude
    <3>4. /\ att'[a].pc = "authorized" /\ att'[a].seen = att[a].seen
          /\ att'[a].granted = att[a].granted /\ att'[a].allow = att[a].allow
          /\ att'[a].pulse = att[a].pulse
          /\ \A b \in Attempts \ {a} : att'[b] = att[b]
      BY <1>0, <3>3 DEF Attempt
    <3>5. Granted'
      BY <3>2, <3>4 DEF Granted
    <3>6. "authorized" \notin Commanding \cup AfterOpening
      BY DEF Commanding, AfterOpening
    <3> QED
      BY <1>a, <2>1, <3>2, <3>4, <3>5, <3>6, StationsOf, CallStep DEF BeforePulse
  <2>3. CASE Verdict(a) # "authorized"
    <3>1. Verdict(a) \in Returned
      BY <2>3 DEF Verdict, Returned
    <3>2. att' = Return(a, Verdict(a))
      BY <1>6, <2>3 DEF Conclude
    <3> HIDE DEF Verdict
    <3> QED
      BY <2>1, <3>1, <3>2, ReturnStep
  <2> QED
    BY <2>2, <2>3
<1>7. CASE ClaimCommand(a)
  <2>1. att[a].pc = "authorized"
    BY <1>7 DEF ClaimCommand, At
  <2>2. CASE row.openCommand = NoOne
    <3>1. /\ row' = [row EXCEPT !.openCommand = a]
          /\ att' = [att EXCEPT ![a].pc = "commanded"]
      BY <1>7, <2>2 DEF ClaimCommand
    <3>2. /\ att'[a].pc = "commanded" /\ att'[a].seen = att[a].seen
          /\ att'[a].granted = att[a].granted /\ att'[a].allow = att[a].allow
          /\ att'[a].pulse = att[a].pulse
          /\ \A b \in Attempts \ {a} : att'[b] = att[b]
      BY <1>0, <3>1 DEF Attempt
    <3>3. row'.openCommand = a /\ row'.lifecycle = row.lifecycle
      BY <1>0, <3>1 DEF Row
    <3>4. att[a].pulse = "none"
      BY <2>1, StationsOf DEF ControlInv, CommandInv, BeforePulse
    <3>5. \A b \in Attempts : att[b].pc \notin Commanding /\ att[b].pulse = "none"
      BY <2>2, NoOneAssumption DEF ControlInv, CommandInv
    <3>6. CommandInv'
      BY <3>2, <3>3, <3>4, <3>5 DEF CommandInv
    <3>7. Granted => Granted'
      BY <3>2 DEF Granted
    <3>8. GrantInv'
      BY <2>1, <3>2, <3>3, <3>7 DEF ControlInv, GrantInv
    <3>9. Opened => Opened'
      BY <3>2 DEF Opened
    <3>10. OpeningInv'
      BY <3>2, <3>3, <3>9 DEF ControlInv, OpeningInv, AfterOpening
    <3> QED
      BY <3>6, <3>8, <3>10 DEF ControlInv
  <2>3. CASE row.openCommand # NoOne
    BY <1>7, <2>3, ReturnStep DEF ClaimCommand, Returned
  <2> QED
    BY <2>2, <2>3
<1>8. ASSUME NEW result \in Pulses \ {"none"}, Pulse(a, result) PROVE ControlInv'
  <2>1. att[a].pc = "pulsing" /\ row' = row /\ att[a].pulse = "none" /\ row.openCommand = a
    BY <1>8 DEF Pulse, ControlInv, CommandInv, BeforePulse, Commanding
  <2>2. /\ att'[a].pulse = result
        /\ att'[a].granted = att[a].granted /\ att'[a].allow = att[a].allow
        /\ att'[a].seen \in {att[a].seen, NoCopy}
        /\ att'[a].pc \in {"pulsed", "gate_unavailable"}
        /\ att'[a].pc = "pulsed" => result = "opened"
        /\ \A b \in Attempts \ {a} : att'[b] = att[b]
    <3>1. CASE result = "opened"
      <4>1. att' = [att EXCEPT ![a].pulse = result, ![a].pc = "pulsed"]
        BY <1>8, <3>1 DEF Pulse
      <4> QED
        BY <1>0, <3>1, <4>1 DEF Attempt
    <3>2. CASE result # "opened"
      <4> DEFINE left == Return(a, "gate_unavailable")
      <4>1. att' = [left EXCEPT ![a].pulse = result]
        BY <1>8, <3>2 DEF Pulse
      <4>2. /\ left \in [Attempts -> Attempt]
            /\ left[a].pc = "gate_unavailable" /\ left[a].seen = NoCopy
            /\ left[a].granted = att[a].granted /\ left[a].allow = att[a].allow
            /\ \A b \in Attempts \ {a} : left[b] = att[b]
        BY <1>0, ReturnType DEF Returned
      <4> HIDE DEF left
      <4> QED
        BY <4>1, <4>2 DEF Attempt
    <3> QED
      BY <3>1, <3>2
  <2>3. CommandInv'
    BY <2>1, <2>2 DEF ControlInv, CommandInv, BeforePulse
  <2>4. Granted /\ (Granted => Granted')
    BY <2>1, <2>2 DEF ControlInv, GrantInv, Granted, Commanding
  <2>5. GrantInv'
    BY <2>2, <2>4 DEF ControlInv, GrantInv
  <2>6. Opened => Opened'
    BY <2>1, <2>2 DEF Opened
  <2>7. NoCopy.lifecycle \notin OpenedStates
    BY NoCopyType DEF OpenedStates
  <2>8. OpeningInv'
    BY <2>1, <2>2, <2>6, <2>7 DEF ControlInv, OpeningInv, AfterOpening
  <2> QED
    BY <2>3, <2>5, <2>8 DEF ControlInv
<1>9. CASE RequestOpen(a)
  <2>1. att[a].pc = "pulsed"
    BY <1>9 DEF RequestOpen, At
  <2>2. CASE att' = Return(a, "error") /\ row' = row
    BY <2>2, ReturnStep DEF Returned
  <2>3. ASSUME NEW pc \in {"requested", "passing"}, att' = [att EXCEPT ![a].pc = pc],
               row'.lifecycle \in {row.lifecycle, "EXIT_GATE_OPEN_REQUESTED"},
               row'.openCommand = row.openCommand
        PROVE  ControlInv'
    <3>1. /\ att'[a].pc = pc /\ att'[a].seen = att[a].seen
          /\ att'[a].granted = att[a].granted /\ att'[a].allow = att[a].allow
          /\ att'[a].pulse = att[a].pulse
          /\ \A b \in Attempts \ {a} : att'[b] = att[b]
      BY <1>0, <2>3 DEF Attempt
    <3>2. pc \in Commanding /\ pc \in AfterOpening /\ pc \notin BeforePulse
          /\ pc \notin {"idle", "loaded", "authorized"}
      BY DEF Commanding, AfterOpening, BeforePulse
    <3>3. att[a].pc \in Commanding /\ att[a].pc \in AfterOpening
      BY <2>1 DEF Commanding, AfterOpening
    <3>4. Granted /\ Opened /\ (Granted => Granted')
      BY <1>a, <3>1, <3>3 DEF ControlInv, GrantInv, Granted
    <3> QED
      BY <2>3, <3>1, <3>2, <3>3, <3>4, CallStep
  <2>4. CASE /\ row' = Advanced(row, att[a].seen, "EXIT_GATE_OPEN_REQUESTED")
             /\ att' = [att EXCEPT ![a].pc = "requested"]
    BY <1>0, <2>3, <2>4, AdvancedType DEF Lifecycles, ExitStates
  <2>5. CASE att' = [att EXCEPT ![a].pc = "passing"] /\ row' = row
    BY <2>3, <2>5
  <2> QED
    BY <1>9, <2>2, <2>4, <2>5 DEF RequestOpen
<1>10. CASE CountAsPassed(a)
  <2>1. att[a].pc = "passing"
    BY <1>10 DEF CountAsPassed, At
  <2>2. CASE row' = Advanced(row, att[a].seen, "CLOSED") /\ att' = Return(a, "closed")
    <3>1. /\ att'[a].pc = "closed" /\ att'[a].seen = NoCopy
          /\ att'[a].granted = att[a].granted /\ att'[a].allow = att[a].allow
          /\ att'[a].pulse = att[a].pulse
          /\ \A b \in Attempts \ {a} : att'[b] = att[b]
      BY <1>0, <2>2, ReturnType DEF Returned
    <3>2. row'.openCommand = row.openCommand
      BY <1>0, <2>2, AdvancedType DEF Lifecycles, ExitStates
    <3>3. "closed" \notin Commanding \cup BeforePulse \cup AfterOpening \cup {"idle", "loaded"}
      BY DEF Commanding, BeforePulse, AfterOpening
    <3>4. Granted /\ Opened /\ (Granted => Granted')
      BY <1>a, <2>1, <3>1 DEF ControlInv, GrantInv, Granted, Commanding, AfterOpening
    <3> QED
      BY <3>1, <3>2, <3>3, <3>4, CallStep
  <2>3. CASE row' = row /\ \E pc \in {"closed", "waiting_passage"} : att' = Return(a, pc)
    BY <2>3, ReturnStep DEF Returned
  <2> QED
    BY <1>10, <2>2, <2>3 DEF CountAsPassed
<1>11. CASE Crash(a)
  BY <1>11, ReturnStep DEF Crash, Returned
<1> QED
  BY <1>1, <1>2, <1>3, <1>4, <1>5, <1>6, <1>7, <1>8, <1>9, <1>10, <1>11 DEF Handle

(* Nobody else touches a call or the command, or moves the row to a lifecycle
   past the decision that it did not have. *)
LEMMA OthersFrame ==
  ASSUME TypeOK,
         \/ \E c \in Cashiers : QuoteToSettle(c) \/ Settle(c) \/ SettleAgain(c)
         \/ \E i \in Intents : StartMobile(i) \/ CreditMobile(i)
         \/ VehiclePassed \/ PassageCloses \/ EntryCompletes \/ ViewReceipt \/ CloseByHand
         \/ Tick
  PROVE  /\ att' = att
         /\ row'.openCommand = row.openCommand
         /\ row'.lifecycle \in InFlight => row.lifecycle \in InFlight
         /\ row'.lifecycle \in OpenedStates => row.lifecycle \in OpenedStates
<1>0. row \in Row /\ ledger.total \in Nat /\ now \in Nat
      /\ DefaultGrace \in Nat /\ ConfiguredGrace \in Nat
  BY FeeType, ClockAssumption DEF TypeOK, Ledger
<1>1. ASSUME NEW c \in Cashiers, QuoteToSettle(c) \/ Settle(c) \/ SettleAgain(c)
      PROVE  /\ att' = att
             /\ row'.openCommand = row.openCommand /\ row'.lifecycle = row.lifecycle
  <2>1. CASE QuoteToSettle(c)
    BY <1>0, <2>1 DEF QuoteToSettle, Row
  <2>2. CASE Settle(c)
    <3>1. PICK copy, total : row' = Paid(row, copy, total, DefaultGrace)
      BY <2>2 DEF Settle
    <3>2. att' = att
      BY <2>2 DEF Settle
    <3> QED
      BY <1>0, <3>1, <3>2, PaidFrame
  <2>3. CASE SettleAgain(c)
    <3>1. PICK copy, total : row' = Paid(row, copy, total, ConfiguredGrace)
      BY <2>3 DEF SettleAgain
    <3>2. att' = att
      BY <2>3 DEF SettleAgain
    <3> QED
      BY <1>0, <3>1, <3>2, PaidFrame
  <2> QED
    BY <1>1, <2>1, <2>2, <2>3
<1>2. ASSUME NEW i \in Intents, StartMobile(i) \/ CreditMobile(i)
      PROVE  /\ att' = att
             /\ row'.openCommand = row.openCommand /\ row'.lifecycle = row.lifecycle
  <2>1. CASE StartMobile(i)
    BY <1>0, <2>1 DEF StartMobile, Row
  <2>2. CASE CreditMobile(i)
    BY <1>0, <2>2, PaidFrame DEF CreditMobile
  <2> QED
    BY <1>2, <2>1, <2>2
<1>3. CASE VehiclePassed
  <2>1. row.lifecycle = "EXIT_GATE_OPEN_REQUESTED"
    BY <1>0, <1>3, CurrentOf DEF VehiclePassed, InFlight
  <2> QED
    BY <1>0, <1>3, <2>1, AdvancedType
    DEF VehiclePassed, Lifecycles, ExitStates, InFlight, OpenedStates
<1>4. CASE PassageCloses
  <2>1. row.lifecycle = "EXIT_VEHICLE_PASSED"
    BY <1>0, <1>4, CurrentOf DEF PassageCloses, InFlight
  <2> QED
    BY <1>0, <1>4, <2>1, AdvancedType
    DEF PassageCloses, Lifecycles, ExitStates, InFlight, OpenedStates
<1>5. CASE EntryCompletes \/ ViewReceipt \/ CloseByHand \/ Tick
  <2>1. CASE EntryCompletes
    BY <1>0, <2>1 DEF EntryCompletes, Row, InFlight, OpenedStates
  <2>2. CASE ViewReceipt \/ CloseByHand \/ Tick
    BY <1>0, <2>2 DEF ViewReceipt, CloseByHand, Tick, Row
  <2> QED
    BY <1>5, <2>1, <2>2
<1> QED
  BY <1>1, <1>2, <1>3, <1>4, <1>5

LEMMA StepControl ==
  ASSUME TypeOK, RemainderInv, ControlInv, [Next]_vars
  PROVE  ControlInv'
<1>0. TypeOK'
  BY StepType
<1>1. ASSUME NEW a \in Attempts, Handle(a) \/ Crash(a) PROVE ControlInv'
  BY <1>0, <1>1, HandleControl
<1>2. ASSUME att' = att, row'.openCommand = row.openCommand,
             row'.lifecycle \in InFlight => row.lifecycle \in InFlight,
             row'.lifecycle \in OpenedStates => row.lifecycle \in OpenedStates
      PROVE  ControlInv'
  BY <1>2 DEF ControlInv, CommandInv, GrantInv, OpeningInv, Granted, Opened
<1>3. CASE UNCHANGED vars
  BY <1>2, <1>3 DEF vars
<1> QED
  BY <1>1, <1>2, <1>3, OthersFrame DEF Next

LEMMA InitControl == Init => ControlInv
<1> SUFFICES ASSUME Init PROVE ControlInv
  OBVIOUS
<1>1. row.lifecycle \notin InFlight \cup OpenedStates
  <2>1. PICK kind \in Kinds : \/ row = FreshRow("ACTIVE", "ACTIVE", kind)
                             \/ row = FreshRow("RECEIPT_PRESENTED", "WAITING_RECEIPT", kind)
                             \/ row = FreshRow("", "OPEN", kind)
    BY DEF Init, InitialRows, Kinds
  <2>2. row.lifecycle \in {"ACTIVE", "RECEIPT_PRESENTED", ""}
    <3>1. \A lifecycle, status : FreshRow(lifecycle, status, kind).lifecycle = lifecycle
      BY DEF FreshRow
    <3> QED
      BY <2>1, <3>1
  <2> QED
    BY <2>2 DEF InFlight, OpenedStates
<1>2. \A a \in Attempts : /\ att[a].pc = "idle" /\ att[a].pulse = "none"
                          /\ ~att[a].granted /\ att[a].seen = NoCopy
  BY DEF Init
<1>3. NoCopy.lifecycle \notin InFlight \cup OpenedStates
  BY NoCopyType DEF InFlight, OpenedStates
<1> QED
  BY <1>1, <1>2, <1>3
  DEF ControlInv, CommandInv, GrantInv, OpeningInv, Commanding, AfterOpening

LEMMA Control == Spec => [](TypeOK /\ ControlInv)
<1> DEFINE Inv == TypeOK /\ RemainderInv /\ ControlInv
<1>1. Init => Inv
  BY InitType, InitControl
<1>2. Inv /\ [Next]_vars => Inv'
  BY StepType, StepControl
<1> QED
  BY <1>1, <1>2, PTL DEF Spec

(* However many recognition events, redeliveries and scans race for a
   session, in one process or several, at most one of them pulses its barrier
   (exit_lane.py, the conditional UPDATE of _open_authorized). *)
THEOREM OnePulse == Spec => []AtMostOnePulse
<1>1. TypeOK /\ ControlInv => AtMostOnePulse
  BY DEF ControlInv, CommandInv, AtMostOnePulse
<1> QED
  BY <1>1, Control, PTL

(* A pulsed barrier means that some call quoted the session afresh and
   decided to let it go. *)
THEOREM PulseGranted == Spec => []PulseWasGranted
<1>1. TypeOK /\ ControlInv => PulseWasGranted
  BY DEF ControlInv, GrantInv, Granted, PulseWasGranted
<1> QED
  BY <1>1, Control, PTL

(* The lane moves a session past AUTHORIZED only when its barrier reported
   open, so a pulse that fails or is never answered cannot close it. *)
THEOREM ClosedAfterOpening == Spec => []ClosedOnlyAfterOpening
<1>1. TypeOK /\ ControlInv => ClosedOnlyAfterOpening
  BY DEF ControlInv, OpeningInv, Opened, OpenedStates, ClosedOnlyAfterOpening
<1> QED
  BY <1>1, Control, PTL

-----------------------------------------------------------------------------
(* The money *)

LEMMA StepPaid ==
  ASSUME TypeOK, RemainderInv, PaidInv, [Next]_vars
  PROVE  PaidInv'
<1> USE DEF PaidIsBacked
<1>0. row \in Row /\ att \in [Attempts -> Attempt] /\ cash \in [Cashiers -> Cash]
  BY DEF TypeOK
<1>1. ASSUME NEW a \in Attempts, Handle(a) \/ Crash(a) PROVE PaidInv'
  <2>1. UNCHANGED <<ledger, cash>>
    BY <1>1 DEF Handle, Submit, Price, Refresh, ClaimExit, Drive, Conclude, ClaimCommand,
                Pulse, RequestOpen, CountAsPassed, Crash
  <2>2. att[a].seen \in Row
    BY <1>0 DEF Attempt
  <2>3. row'.status = "PAID" => row.status = "PAID"
    <3>1. ASSUME NEW target \in Lifecycles, row' = Advanced(row, att[a].seen, target)
          PROVE  row'.status = "PAID" => row.status = "PAID"
      BY <1>0, <2>2, <3>1, AdvancedPaid
    <3>2. CASE row'.status = row.status
      BY <3>2
    <3>3. \A i \in 1..6 : StageTo(i, att[a].allow) \in Lifecycles
      BY DEF StageTo, Lifecycles, ExitStates
    <3>4. \/ row'.status = row.status
          \/ \E i \in 1..6 : row' = Advanced(row, att[a].seen, StageTo(i, att[a].allow))
          \/ row' = Advanced(row, att[a].seen, "EXIT_GATE_OPEN_REQUESTED")
          \/ row' = Advanced(row, att[a].seen, "CLOSED")
      BY <1>0, <1>1 DEF Handle, Submit, Price, Refresh, ClaimExit, Drive, Conclude,
                ClaimCommand, Pulse, RequestOpen, CountAsPassed, Crash, Row
    <3> QED
      BY <3>1, <3>2, <3>3, <3>4 DEF Lifecycles, ExitStates
  <2> QED
    BY <2>1, <2>3 DEF PaidInv
<1>2. ASSUME NEW c \in Cashiers, QuoteToSettle(c) \/ Settle(c) \/ SettleAgain(c) PROVE PaidInv'
  <2>1. CASE QuoteToSettle(c)
    BY <1>0, <2>1 DEF QuoteToSettle, PaidInv, Row, Cash
  <2>2. CASE Settle(c)
    <3>1. ledger'.keys # {}
      BY <2>2 DEF Settle
    <3> QED
      BY <3>1 DEF PaidInv
  <2>3. CASE SettleAgain(c)
    <3>1. ledger.keys # {} /\ ledger' = ledger
      BY <2>3 DEF SettleAgain, PaidInv
    <3> QED
      BY <3>1 DEF PaidInv
  <2> QED
    BY <1>2, <2>1, <2>2, <2>3
<1>3. ASSUME NEW i \in Intents, StartMobile(i) \/ CreditMobile(i) PROVE PaidInv'
  <2>1. CASE StartMobile(i)
    BY <1>0, <2>1 DEF StartMobile, PaidInv, Row
  <2>2. CASE CreditMobile(i)
    <3>1. ledger'.keys # {}
      BY <2>2 DEF CreditMobile
    <3> QED
      BY <3>1 DEF PaidInv
  <2> QED
    BY <1>3, <2>1, <2>2
<1>4. CASE VehiclePassed \/ PassageCloses
  BY <1>0, <1>4, AdvancedPaid
  DEF VehiclePassed, PassageCloses, PaidInv, Lifecycles, ExitStates
<1>5. CASE EntryCompletes \/ ViewReceipt \/ CloseByHand \/ Tick
  BY <1>0, <1>5 DEF EntryCompletes, ViewReceipt, CloseByHand, Tick, PaidInv, Row
<1>6. CASE UNCHANGED vars
  BY <1>6 DEF vars, PaidInv
<1> QED
  BY <1>1, <1>2, <1>3, <1>4, <1>5, <1>6 DEF Next

(* A session that says PAID has a payment in the ledger, whatever stale copy
   of the row a handler writes back. *)
THEOREM PaidBacked == Spec => []PaidIsBacked
<1> DEFINE Inv == TypeOK /\ RemainderInv /\ PaidInv
<1>1. Init => PaidInv
  <2> SUFFICES ASSUME Init PROVE PaidInv
    OBVIOUS
  <2>1. PICK kind \in Kinds : \/ row = FreshRow("ACTIVE", "ACTIVE", kind)
                             \/ row = FreshRow("RECEIPT_PRESENTED", "WAITING_RECEIPT", kind)
                             \/ row = FreshRow("", "OPEN", kind)
    BY DEF Init, InitialRows, Kinds
  <2>2. row.status \in {"ACTIVE", "WAITING_RECEIPT", "OPEN"}
    <3>1. \A lifecycle, status : FreshRow(lifecycle, status, kind).status = status
      BY DEF FreshRow
    <3> QED
      BY <2>1, <3>1
  <2> QED
    BY <2>2 DEF Init, PaidInv, PaidIsBacked
<1>2. Inv /\ [Next]_vars => Inv'
  BY StepType, StepPaid
<1>3. Inv => PaidIsBacked
  BY DEF PaidInv
<1> QED
  BY <1>1, <1>2, <1>3, InitType, PTL DEF Spec

-----------------------------------------------------------------------------
(* One process: handlers take turns *)

(* What others make of a row's lifecycle while a handler works on its copy: *)
(* the entry lets the vehicle in, or a sensor sees it leave.                *)
Follows(old, new) ==
  \/ new = old
  \/ old = "RECEIPT_PRESENTED" /\ new = "ACTIVE"
  \/ old \in {"EXIT_GATE_OPEN_REQUESTED", "EXIT_VEHICLE_PASSED"}
       /\ new \in {"EXIT_VEHICLE_PASSED", "CLOSED"}

(* The call has seen what it, or another handler, wrote last. *)
Fresh == {"loaded", "priced", "ready", "driving", "authorized"}

TurnInv ==
  \A a, b \in Attempts : att[a].pc \in Working /\ att[b].pc \in Working => a = b

CopyInv ==
  \A a \in Attempts :
    att[a].pc \in Fresh => /\ Follows(att[a].seen.lifecycle, row.lifecycle)
                           /\ att[a].seen.exitEvent = row.exitEvent

(* From the decision until the barrier answered, nobody moves the session. *)
HeldInv ==
  \A a \in Attempts :
    /\ att[a].pc \in {"authorized", "pulsing", "pulsed"} =>
         att[a].seen.lifecycle = "AUTHORIZED"
    /\ att[a].pc \in {"authorized", "commanded", "pulsing", "pulsed"} =>
         row.lifecycle = "AUTHORIZED"

ScheduleInv == TurnInv /\ CopyInv /\ HeldInv /\ OpenedIsRecorded

(* A step neither reopens a session nor takes an exit from its owner. *)
FinalAndOwned ==
  /\ row.lifecycle = "CLOSED" => row'.lifecycle = "CLOSED"
  /\ row.exitEvent # NoOne /\ row'.exitEvent # row.exitEvent
       => Current(row) = "DENIED_PAYMENT_REQUIRED"

LEMMA FollowsTransitive ==
  ASSUME NEW x, NEW y, NEW z, Follows(x, y), Follows(y, z)
  PROVE  Follows(x, z)
BY DEF Follows

LEMMA AdvancedOwner ==
  ASSUME NEW r \in Row, NEW seen, NEW target
  PROVE  Advanced(r, seen, target).exitEvent = r.exitEvent
BY DEF Advanced, Row

LEMMA PaidOwner ==
  ASSUME NEW r \in Row, NEW seen, NEW total, NEW grace
  PROVE  Paid(r, seen, total, grace).exitEvent = r.exitEvent
BY DEF Paid, Row

(* What is enough of a step of call a. *)
LEMMA TurnStep ==
  ASSUME OneLoop, ScheduleInv, NEW a \in Attempts,
         \A b \in Attempts \ {a} : att'[b] = att[b],
         att'[a].pc \in Working => att[a].pc \in Working \/ MayRun(a),
         \/ row'.lifecycle = row.lifecycle /\ row'.exitEvent = row.exitEvent
         \/ MayRun(a),
         \A b \in Attempts \ {a} :
           att[b].pc \in {"pulsing", "pulsed"} => row'.lifecycle = row.lifecycle,
         att'[a].pc \in Fresh => /\ Follows(att'[a].seen.lifecycle, row'.lifecycle)
                                 /\ att'[a].seen.exitEvent = row'.exitEvent,
         att'[a].pc \in {"authorized", "pulsing", "pulsed"} =>
           att'[a].seen.lifecycle = "AUTHORIZED",
         att'[a].pc \in {"authorized", "commanded", "pulsing", "pulsed"} =>
           row'.lifecycle = "AUTHORIZED",
         att'[a].pulse = "opened" => att'[a].pc # "error"
  PROVE  ScheduleInv'
<1>1. TurnInv'
  BY DEF ScheduleInv, TurnInv, MayRun
<1>2. Fresh \subseteq Working /\ "commanded" \in Working /\ "authorized" \in Working
  BY DEF Fresh, Working
<1>3. CopyInv'
  <2> SUFFICES ASSUME NEW b \in Attempts \ {a}, att'[b].pc \in Fresh
               PROVE  /\ Follows(att'[b].seen.lifecycle, row'.lifecycle)
                      /\ att'[b].seen.exitEvent = row'.exitEvent
    BY DEF CopyInv
  <2>1. att'[b] = att[b] /\ att[b].pc \in Working
    BY <1>2
  <2>2. row'.lifecycle = row.lifecycle /\ row'.exitEvent = row.exitEvent
    BY <2>1 DEF MayRun
  <2> QED BY <2>1, <2>2 DEF ScheduleInv, CopyInv
<1>4. HeldInv'
  <2> SUFFICES ASSUME NEW b \in Attempts \ {a}
               PROVE  /\ att'[b].pc \in {"authorized", "pulsing", "pulsed"} =>
                           att'[b].seen.lifecycle = "AUTHORIZED"
                      /\ att'[b].pc \in {"authorized", "commanded", "pulsing", "pulsed"} =>
                           row'.lifecycle = "AUTHORIZED"
    BY DEF HeldInv
  <2>1. att'[b] = att[b]
    OBVIOUS
  <2>2. att[b].pc \in {"authorized", "commanded"} => row'.lifecycle = row.lifecycle
    BY <1>2 DEF MayRun
  <2> QED BY <2>1, <2>2 DEF ScheduleInv, HeldInv
<1>5. OpenedIsRecorded'
  BY DEF ScheduleInv, OpenedIsRecorded
<1> QED BY <1>1, <1>3, <1>4, <1>5 DEF ScheduleInv

(* A call that returns, with the row unchanged. *)
LEMMA ReturnTurn ==
  ASSUME OneLoop, TypeOK, ScheduleInv, NEW a \in Attempts, NEW pc \in Returned,
         att' = Return(a, pc), row' = row, att[a].pulse = "opened" => pc # "error"
  PROVE  ScheduleInv'
<1>1. /\ att'[a].pc = pc /\ att'[a].pulse = att[a].pulse
      /\ \A b \in Attempts \ {a} : att'[b] = att[b]
  BY ReturnType DEF TypeOK
<1>2. pc \notin Working \cup Fresh \cup {"authorized", "commanded", "pulsing", "pulsed"}
  BY DEF Returned, Working, Fresh
<1> QED BY <1>1, <1>2, TurnStep

LEMMA HandleTurn ==
  ASSUME OneLoop, TypeOK, CommandInv, ScheduleInv, NEW a \in Attempts, Handle(a) \/ Crash(a)
  PROVE  ScheduleInv' /\ FinalAndOwned
<1>0. /\ att[a] \in Attempt /\ att[a].seen \in Row /\ row \in Row
      /\ att \in [Attempts -> Attempt]
  BY DEF TypeOK, Attempt
<1>a. att[a].pc \in BeforePulse => att[a].pulse # "opened"
  BY DEF CommandInv
<1>s. row' = row => FinalAndOwned
  BY DEF FinalAndOwned
<1>1. ASSUME NEW gate \in BOOLEAN, Submit(a, gate) PROVE ScheduleInv' /\ FinalAndOwned
  <2>1. row' = row /\ att[a].pc = "idle" /\ MayRun(a)
    BY <1>1 DEF Submit, At
  <2>2. CASE att' = Return(a, "duplicate") \/ att' = Return(a, "no_session")
    BY <1>s, <2>1, <2>2, ReturnTurn DEF Returned
  <2>3. CASE att' = [att EXCEPT ![a].pc = "loaded", ![a].seen = row, ![a].gate = gate]
    <3>1. /\ att'[a].pc = "loaded" /\ att'[a].seen = row
          /\ \A b \in Attempts \ {a} : att'[b] = att[b]
      BY <1>0, <2>3 DEF Attempt
    <3>2. Follows(row.lifecycle, row.lifecycle)
      BY DEF Follows
    <3> QED BY <1>s, <2>1, <3>1, <3>2, TurnStep
  <2> QED BY <1>1, <2>2, <2>3 DEF Submit
<1>2. CASE Price(a)
  <2>1. PICK allow \in BOOLEAN :
          att' = [att EXCEPT ![a].pc = "priced", ![a].allow = allow]
    BY <1>2 DEF Price
  <2>2. /\ att[a].pc = "loaded" /\ MayRun(a)
        /\ row'.lifecycle = row.lifecycle /\ row'.exitEvent = row.exitEvent
    BY <1>0, <1>2 DEF Price, At, Row
  <2>3. /\ att'[a].pc = "priced" /\ att'[a].seen = att[a].seen
        /\ \A b \in Attempts \ {a} : att'[b] = att[b]
    BY <1>0, <2>1 DEF Attempt
  <2>4. /\ Follows(att[a].seen.lifecycle, row.lifecycle)
        /\ att[a].seen.exitEvent = row.exitEvent
    BY <2>2 DEF ScheduleInv, CopyInv, Fresh
  <2> QED BY <2>2, <2>3, <2>4, TurnStep DEF FinalAndOwned
<1>3. CASE Refresh(a)
  <2>1. /\ att' = [att EXCEPT ![a].pc = AfterRefresh[att[a].pc], ![a].seen = row]
        /\ row' = row /\ MayRun(a)
    BY <1>3 DEF Refresh
  <2>2. /\ att'[a].pc = AfterRefresh[att[a].pc] /\ att'[a].seen = row
        /\ att'[a].pulse = att[a].pulse
        /\ \A b \in Attempts \ {a} : att'[b] = att[b]
    BY <1>0, <2>1 DEF Attempt
  <2>3. \/ att[a].pc = "priced" /\ att'[a].pc = "ready"
        \/ att[a].pc \in {"owned", "advanced"} /\ att'[a].pc = "driving"
        \/ att[a].pc = "commanded" /\ att'[a].pc = "pulsing"
        \/ att[a].pc = "requested" /\ att'[a].pc = "passing"
    BY <1>3, <2>2 DEF Refresh, AfterRefresh
  <2>4. att[a].pc = "commanded" => row.lifecycle = "AUTHORIZED"
    BY DEF ScheduleInv, HeldInv
  <2>5. Follows(row.lifecycle, row.lifecycle)
    BY DEF Follows
  <2> QED BY <1>s, <2>1, <2>2, <2>3, <2>4, <2>5, TurnStep
<1>4. CASE ClaimExit(a)
  <2>1. att[a].pc = "ready" /\ MayRun(a) /\ att[a].pulse # "opened"
    BY <1>4, <1>a DEF ClaimExit, At, BeforePulse
  <2>2. /\ Follows(att[a].seen.lifecycle, row.lifecycle)
        /\ att[a].seen.exitEvent = row.exitEvent
    BY <2>1 DEF ScheduleInv, CopyInv, Fresh
  <2>3. CASE att' = Return(a, "no_session") /\ row' = row
    BY <1>s, <2>3, ReturnTurn DEF Returned
  <2>4. CASE /\ row' = [row EXCEPT !.exitEvent = EventOf[a], !.side = "EXIT"]
             /\ att' = [att EXCEPT ![a].pc = "owned", ![a].stage = 1]
             /\ \/ att[a].seen.exitEvent = NoOne
                \/ Current(att[a].seen) = "DENIED_PAYMENT_REQUIRED"
    <3>1. /\ att'[a].pc = "owned"
          /\ \A b \in Attempts \ {a} : att'[b] = att[b]
      BY <1>0, <2>4 DEF Attempt
    <3>2. row'.lifecycle = row.lifecycle
      BY <1>0, <2>4 DEF Row
    <3>3. ScheduleInv'
      BY <2>1, <3>1, <3>2, TurnStep DEF Fresh
    <3>4. row.exitEvent # NoOne => row.lifecycle = "DENIED_PAYMENT_REQUIRED"
      BY <1>0, <2>2, <2>4, CurrentOf DEF Follows
    <3>5. FinalAndOwned
      BY <3>2, <3>4 DEF FinalAndOwned, Current
    <3> QED BY <3>3, <3>5
  <2>5. CASE att' = [att EXCEPT ![a].pc = "driving", ![a].stage = 7] /\ row' = row
    <3>1. /\ att'[a].pc = "driving" /\ att'[a].seen = att[a].seen
          /\ \A b \in Attempts \ {a} : att'[b] = att[b]
      BY <1>0, <2>5 DEF Attempt
    <3> QED BY <1>s, <2>1, <2>2, <2>5, <3>1, TurnStep
  <2> QED BY <1>4, <2>3, <2>4, <2>5 DEF ClaimExit
<1>5. ASSUME NEW i \in 1..6, Drive(a, i) PROVE ScheduleInv' /\ FinalAndOwned
  <2> DEFINE target == StageTo(i, att[a].allow)
  <2>1. /\ att[a].pc = "driving" /\ MayRun(a)
        /\ row' = Advanced(row, att[a].seen, target)
    BY <1>5 DEF Drive, At
  <2>2. /\ att'[a].pc = "advanced"
        /\ \A b \in Attempts \ {a} : att'[b] = att[b]
    BY <1>0, <1>5 DEF Drive, Attempt
  <2>3. target \in Lifecycles
    BY DEF StageTo, Lifecycles, ExitStates
  <2> HIDE DEF target
  <2>4. row'.exitEvent = row.exitEvent
    BY <1>0, <2>1, AdvancedOwner
  <2>5. Current(att[a].seen) \notin {"AUTHORIZED", "EXIT_GATE_OPEN_REQUESTED",
                                     "EXIT_VEHICLE_PASSED", "CLOSED"}
    BY <1>5 DEF Drive, Due, StageFrom
  <2>6. att[a].seen.lifecycle \notin {"AUTHORIZED", "EXIT_GATE_OPEN_REQUESTED",
                                      "EXIT_VEHICLE_PASSED", "CLOSED"}
    BY <2>5 DEF Current
  <2>7. Follows(att[a].seen.lifecycle, row.lifecycle)
    BY <2>1 DEF ScheduleInv, CopyInv, Fresh
  <2>8. row.lifecycle \notin {"AUTHORIZED", "CLOSED"}
    BY <2>6, <2>7 DEF Follows
  <2>9. \A b \in Attempts : att[b].pc \notin {"pulsing", "pulsed"}
    BY <2>8 DEF ScheduleInv, HeldInv
  <2>10. ScheduleInv'
    BY <2>1, <2>2, <2>9, TurnStep DEF Fresh
  <2> QED BY <2>4, <2>8, <2>10 DEF FinalAndOwned
<1>6. CASE Conclude(a)
  <2>1. att[a].pc = "driving" /\ row' = row /\ MayRun(a) /\ att[a].pulse # "opened"
    BY <1>6, <1>a DEF Conclude, At, BeforePulse
  <2>2. CASE Verdict(a) = "authorized"
    <3>1. Current(att[a].seen) = "AUTHORIZED"
      BY <2>2 DEF Verdict, InFlight
    <3>2. att[a].seen.lifecycle = "AUTHORIZED"
      BY <1>0, <3>1, CurrentOf DEF InFlight
    <3>3. /\ Follows(att[a].seen.lifecycle, row.lifecycle)
          /\ att[a].seen.exitEvent = row.exitEvent
      BY <2>1 DEF ScheduleInv, CopyInv, Fresh
    <3>4. row.lifecycle = "AUTHORIZED"
      BY <3>2, <3>3 DEF Follows
    <3>5. att' = [att EXCEPT ![a].pc = "authorized"]
      BY <1>6, <2>2 DEF Conclude
    <3>6. /\ att'[a].pc = "authorized" /\ att'[a].seen = att[a].seen
          /\ \A b \in Attempts \ {a} : att'[b] = att[b]
      BY <1>0, <3>5 DEF Attempt
    <3> QED BY <1>s, <2>1, <3>2, <3>3, <3>4, <3>6, TurnStep
  <2>3. CASE Verdict(a) # "authorized"
    <3>1. Verdict(a) \in Returned
      BY <2>3 DEF Verdict, Returned
    <3>2. att' = Return(a, Verdict(a))
      BY <1>6, <2>3 DEF Conclude
    <3> HIDE DEF Verdict
    <3> QED BY <1>s, <2>1, <3>1, <3>2, ReturnTurn
  <2> QED BY <2>2, <2>3
<1>7. CASE ClaimCommand(a)
  <2>1. att[a].pc = "authorized" /\ MayRun(a) /\ att[a].pulse # "opened"
    BY <1>7, <1>a DEF ClaimCommand, At, BeforePulse
  <2>2. CASE row.openCommand = NoOne
    <3>1. /\ row' = [row EXCEPT !.openCommand = a]
          /\ att' = [att EXCEPT ![a].pc = "commanded"]
      BY <1>7, <2>2 DEF ClaimCommand
    <3>2. /\ att'[a].pc = "commanded"
          /\ \A b \in Attempts \ {a} : att'[b] = att[b]
      BY <1>0, <3>1 DEF Attempt
    <3>3. row'.lifecycle = row.lifecycle /\ row'.exitEvent = row.exitEvent
      BY <1>0, <3>1 DEF Row
    <3>4. row.lifecycle = "AUTHORIZED"
      BY <2>1 DEF ScheduleInv, HeldInv
    <3> QED BY <2>1, <3>2, <3>3, <3>4, TurnStep DEF Fresh, FinalAndOwned
  <2>3. CASE row.openCommand # NoOne
    BY <1>7, <1>s, <2>3, ReturnTurn DEF ClaimCommand, Returned
  <2> QED BY <2>2, <2>3
<1>8. ASSUME NEW result \in Pulses \ {"none"}, Pulse(a, result)
      PROVE  ScheduleInv' /\ FinalAndOwned
  <2>1. att[a].pc = "pulsing" /\ row' = row
    BY <1>8 DEF Pulse
  <2>2. att[a].seen.lifecycle = "AUTHORIZED" /\ row.lifecycle = "AUTHORIZED"
    BY <2>1 DEF ScheduleInv, HeldInv
  <2>3. CASE result = "opened"
    <3>1. att' = [att EXCEPT ![a].pulse = result, ![a].pc = "pulsed"]
      BY <1>8, <2>3 DEF Pulse
    <3>2. /\ att'[a].pc = "pulsed" /\ att'[a].seen = att[a].seen
          /\ \A b \in Attempts \ {a} : att'[b] = att[b]
      BY <1>0, <3>1 DEF Attempt
    <3>3. "pulsed" \notin Working \cup Fresh
      BY DEF Working, Fresh
    <3> QED BY <1>s, <2>1, <2>2, <3>2, <3>3, TurnStep
  <2>4. CASE result # "opened"
    <3> DEFINE left == Return(a, "gate_unavailable")
    <3>1. att' = [left EXCEPT ![a].pulse = result]
      BY <1>8, <2>4 DEF Pulse
    <3>2. /\ left \in [Attempts -> Attempt] /\ left[a].pc = "gate_unavailable"
          /\ \A b \in Attempts \ {a} : left[b] = att[b]
      BY <1>0, ReturnType DEF Returned
    <3> HIDE DEF left
    <3>3. /\ att'[a].pc = "gate_unavailable"
          /\ \A b \in Attempts \ {a} : att'[b] = att[b]
      BY <3>1, <3>2 DEF Attempt
    <3>4. "gate_unavailable" \notin Working \cup Fresh
      BY DEF Working, Fresh
    <3> QED BY <1>s, <2>1, <3>3, <3>4, TurnStep
  <2> QED BY <2>3, <2>4
<1>9. CASE RequestOpen(a)
  <2>1. att[a].pc = "pulsed" /\ MayRun(a)
    BY <1>9 DEF RequestOpen, At
  <2>2. att[a].seen.lifecycle = "AUTHORIZED" /\ row.lifecycle = "AUTHORIZED"
    BY <2>1 DEF ScheduleInv, HeldInv
  <2>3. Current(att[a].seen) = "AUTHORIZED"
    BY <2>2 DEF Current
  <2>4. /\ row' = Advanced(row, att[a].seen, "EXIT_GATE_OPEN_REQUESTED")
        /\ att' = [att EXCEPT ![a].pc = "requested"]
    BY <1>9, <2>3 DEF RequestOpen
  <2>5. /\ att'[a].pc = "requested"
        /\ \A b \in Attempts \ {a} : att'[b] = att[b]
    BY <1>0, <2>4 DEF Attempt
  <2>6. \A b \in Attempts \ {a} : att[b].pc \notin {"pulsing", "pulsed"}
    BY <2>1 DEF CommandInv, Commanding
  <2>7. row'.exitEvent = row.exitEvent
    BY <1>0, <2>4, AdvancedOwner
  <2>8. ScheduleInv'
    BY <2>1, <2>5, <2>6, TurnStep DEF Fresh
  <2> QED BY <2>2, <2>7, <2>8 DEF FinalAndOwned
<1>10. CASE CountAsPassed(a)
  <2>1. att[a].pc = "passing" /\ MayRun(a)
    BY <1>10 DEF CountAsPassed, At
  <2>2. CASE row' = Advanced(row, att[a].seen, "CLOSED") /\ att' = Return(a, "closed")
    <3>1. /\ att'[a].pc = "closed"
          /\ \A b \in Attempts \ {a} : att'[b] = att[b]
      BY <1>0, <2>2, ReturnType DEF Returned
    <3>2. row'.exitEvent = row.exitEvent /\ row'.lifecycle = "CLOSED"
      BY <1>0, <2>2, AdvancedOwner, AdvancedType DEF Lifecycles, ExitStates
    <3>3. \A b \in Attempts \ {a} : att[b].pc \notin {"pulsing", "pulsed"}
      BY <2>1 DEF CommandInv, Commanding
    <3>4. "closed" \notin Working \cup Fresh
      BY DEF Working, Fresh
    <3>5. ScheduleInv'
      BY <2>1, <3>1, <3>3, <3>4, TurnStep
    <3> QED BY <3>2, <3>5 DEF FinalAndOwned
  <2>3. CASE row' = row /\ \E pc \in {"closed", "waiting_passage"} : att' = Return(a, pc)
    BY <1>s, <2>3, ReturnTurn DEF Returned
  <2> QED BY <1>10, <2>2, <2>3 DEF CountAsPassed
<1>11. CASE Crash(a)
  BY <1>11, <1>s, ReturnTurn DEF Crash, Returned
<1> QED
  BY <1>1, <1>2, <1>3, <1>4, <1>5, <1>6, <1>7, <1>8, <1>9, <1>10, <1>11 DEF Handle

(* Others leave the calls and the owner alone. *)
LEMMA OthersFollow ==
  ASSUME TypeOK,
         \/ \E c \in Cashiers : QuoteToSettle(c) \/ Settle(c) \/ SettleAgain(c)
         \/ \E i \in Intents : StartMobile(i) \/ CreditMobile(i)
         \/ VehiclePassed \/ PassageCloses \/ EntryCompletes \/ ViewReceipt \/ CloseByHand
         \/ Tick
  PROVE  /\ att' = att
         /\ row'.exitEvent = row.exitEvent
         /\ Follows(row.lifecycle, row'.lifecycle)
<1>0. row \in Row
  BY DEF TypeOK
<1>1. ASSUME NEW c \in Cashiers, QuoteToSettle(c) \/ Settle(c) \/ SettleAgain(c)
      PROVE  /\ att' = att
             /\ row'.exitEvent = row.exitEvent /\ row'.lifecycle = row.lifecycle
  <2>1. CASE QuoteToSettle(c)
    BY <1>0, <2>1 DEF QuoteToSettle, Row
  <2>2. CASE Settle(c)
    <3>1. PICK copy, total : row' = Paid(row, copy, total, DefaultGrace)
      BY <2>2 DEF Settle
    <3> QED BY <1>0, <2>2, <3>1, PaidFrame, PaidOwner DEF Settle
  <2>3. CASE SettleAgain(c)
    <3>1. PICK copy, total : row' = Paid(row, copy, total, ConfiguredGrace)
      BY <2>3 DEF SettleAgain
    <3>2. att' = att
      BY <2>3 DEF SettleAgain
    <3> QED BY <1>0, <3>1, <3>2, PaidFrame, PaidOwner
  <2> QED BY <1>1, <2>1, <2>2, <2>3
<1>2. ASSUME NEW i \in Intents, StartMobile(i) \/ CreditMobile(i)
      PROVE  /\ att' = att
             /\ row'.exitEvent = row.exitEvent /\ row'.lifecycle = row.lifecycle
  <2>1. CASE StartMobile(i)
    BY <1>0, <2>1 DEF StartMobile, Row
  <2>2. CASE CreditMobile(i)
    BY <1>0, <2>2, PaidFrame, PaidOwner DEF CreditMobile
  <2> QED BY <1>2, <2>1, <2>2
<1>3. CASE VehiclePassed
  <2>1. row.lifecycle = "EXIT_GATE_OPEN_REQUESTED"
    BY <1>0, <1>3, CurrentOf DEF VehiclePassed, InFlight
  <2>2. row'.lifecycle = "EXIT_VEHICLE_PASSED" /\ row'.exitEvent = row.exitEvent /\ att' = att
    BY <1>0, <1>3, AdvancedType, AdvancedOwner DEF VehiclePassed, Lifecycles, ExitStates
  <2> QED BY <2>1, <2>2 DEF Follows
<1>4. CASE PassageCloses
  <2>1. row.lifecycle = "EXIT_VEHICLE_PASSED"
    BY <1>0, <1>4, CurrentOf DEF PassageCloses, InFlight
  <2>2. row'.lifecycle = "CLOSED" /\ row'.exitEvent = row.exitEvent /\ att' = att
    BY <1>0, <1>4, AdvancedType, AdvancedOwner DEF PassageCloses, Lifecycles, ExitStates
  <2> QED BY <2>1, <2>2 DEF Follows
<1>5. CASE EntryCompletes \/ ViewReceipt \/ CloseByHand \/ Tick
  BY <1>0, <1>5 DEF EntryCompletes, ViewReceipt, CloseByHand, Tick, Row, Follows
<1> QED BY <1>1, <1>2, <1>3, <1>4, <1>5 DEF Follows

LEMMA StepSchedule ==
  ASSUME OneLoop, TypeOK, CommandInv, ScheduleInv, [Next]_vars
  PROVE  ScheduleInv' /\ FinalAndOwned
<1>1. ASSUME NEW a \in Attempts, Handle(a) \/ Crash(a) PROVE ScheduleInv' /\ FinalAndOwned
  BY <1>1, HandleTurn
<1>2. ASSUME att' = att, row'.exitEvent = row.exitEvent,
             Follows(row.lifecycle, row'.lifecycle)
      PROVE  ScheduleInv' /\ FinalAndOwned
  <2>1. CopyInv'
    BY <1>2, FollowsTransitive DEF ScheduleInv, CopyInv
  <2>2. row.lifecycle \in {"AUTHORIZED", "CLOSED"} => row'.lifecycle = row.lifecycle
    BY <1>2 DEF Follows
  <2>3. TurnInv' /\ HeldInv' /\ OpenedIsRecorded'
    BY <1>2, <2>2 DEF ScheduleInv, TurnInv, HeldInv, OpenedIsRecorded
  <2> QED BY <1>2, <2>1, <2>2, <2>3 DEF ScheduleInv, FinalAndOwned
<1>3. CASE UNCHANGED vars
  BY <1>2, <1>3 DEF vars, Follows
<1> QED BY <1>1, <1>2, <1>3, OthersFollow DEF Next

LEMMA InitSchedule == Init => ScheduleInv
<1> SUFFICES ASSUME Init PROVE ScheduleInv
  OBVIOUS
<1>1. \A a \in Attempts : att[a].pc = "idle" /\ att[a].pulse = "none"
  BY DEF Init
<1> QED
  BY <1>1 DEF ScheduleInv, TurnInv, CopyInv, HeldInv, OpenedIsRecorded, Working, Fresh

LEMMA Scheduled ==
  ASSUME OneLoop PROVE Spec => [](TypeOK /\ CommandInv /\ ScheduleInv)
<1> DEFINE Inv == TypeOK /\ RemainderInv /\ ControlInv /\ ScheduleInv
<1>1. Init => Inv
  BY InitType, InitControl, InitSchedule
<1>2. Inv /\ [Next]_vars => Inv'
  BY StepType, StepControl, StepSchedule DEF ControlInv
<1>3. Inv => TypeOK /\ CommandInv /\ ScheduleInv
  BY DEF ControlInv
<1> QED BY <1>1, <1>2, <1>3, PTL DEF Spec

(* In one process the call whose pulse opened the barrier records it: the
   lifecycle it comes back to is the one it left (exit_lane.py,
   complete_authorized_exit). *)
THEOREM OpeningRecorded ==
  ASSUME OneLoop PROVE Spec => []OpenedIsRecorded
<1>1. ScheduleInv => OpenedIsRecorded
  BY DEF ScheduleInv
<1> QED BY <1>1, Scheduled, PTL

(* In one process a closed lifecycle stays closed: no handler writes an old
   copy over it (parking_sessions.py, _commit_transition). *)
THEOREM ClosedIsFinal ==
  ASSUME OneLoop PROVE Spec => LifecycleClosedIsFinal
<1>1. TypeOK /\ CommandInv /\ ScheduleInv /\ [Next]_vars
        => [row.lifecycle = "CLOSED" => row'.lifecycle = "CLOSED"]_vars
  BY StepSchedule DEF FinalAndOwned
<1> QED BY <1>1, Scheduled, PTL DEF Spec, LifecycleClosedIsFinal

(* In one process the exit changes hands only after a denial
   (parking_sessions.py, start_exit). *)
THEOREM OwnerKeepsExit ==
  ASSUME OneLoop PROVE Spec => OwnerChangesOnlyAfterDenial
<1>1. TypeOK /\ CommandInv /\ ScheduleInv /\ [Next]_vars
        => [row.exitEvent # NoOne /\ row'.exitEvent # row.exitEvent
              => Current(row) = "DENIED_PAYMENT_REQUIRED"]_vars
  BY StepSchedule DEF FinalAndOwned
<1> QED BY <1>1, Scheduled, PTL DEF Spec, OwnerChangesOnlyAfterDenial
=============================================================================

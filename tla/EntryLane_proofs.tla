-------------------------- MODULE EntryLane_proofs --------------------------
(***************************************************************************)
(* What holds of the entry lane for every number of events, confirmations, *)
(* retries and departures, in one process or several.                      *)
(***************************************************************************)
EXTENDS EntryLane, TLAPS

Active == Working \cup Awaiting

(* The creator of the session, until the slip is out. *)
Early == {"detected", "identified", "created", "claimed", "printing"}
(* On the way to the barrier, with the receipt dealt with. *)
Past == {"authorizing", "commanded", "pulsing", "pulsed", "requesting", "passing", "passed"}
(* It has not pulsed yet. *)
BeforePulse == {"idle"} \cup (Active \ {"pulsed", "requesting", "passing", "passed"})
(* It has nothing more to wait for: the barrier opened, or there is none. *)
AfterOpening == {"pulsed", "requesting", "passing", "passed"}

Opened == \E c \in Calls : call[c].pulse \in {"opened", "unsent"}

(* The command id in the row is the pulsing call's, retries apart. *)
CommandInv ==
  \A c \in Calls :
    /\ c \notin Retries /\ (call[c].pc = "pulsing" \/ call[c].pulse # "none")
         => row.openCommand = c
    /\ call[c].pc \in BeforePulse => call[c].pulse = "none"

(* Every copy of the row that says the gate was asked to open has an opening
   behind it. *)
OpeningInv ==
  /\ row.lifecycle \in InOrPast => Opened
  /\ \A c \in Calls :
       /\ call[c].seen.lifecycle \in InOrPast => Opened
       /\ call[c].pc \in AfterOpening => Opened

(* One call creates the session, and until its slip is out there is none. *)
CreatorInv ==
  /\ row.lifecycle = Absent => paper = "none" /\ \A c \in Calls : call[c].pc = "idle"
  /\ \A c \in Calls : call[c].pc \in Early => paper = "none"
  /\ \A c, d \in Calls : call[c].pc \in Early /\ call[d].pc \in Early => c = d

(* Whoever acts on the slip's removal has it behind him. *)
SlipInv ==
  /\ row.job = "TAKEN" => paper = "taken"
  /\ \A c \in Calls :
       /\ call[c].pc \in Active /\ call[c].fresh => call[c].seen.kind = row.kind
       /\ call[c].pc = "sensed" => paper = "taken"
       /\ /\ c \notin Retries /\ NeedReceipt(row.kind)
          /\ call[c].pc \in Past \/ call[c].pulse # "none"
          => paper = "taken"

IInv == TypeOK /\ CommandInv /\ OpeningInv /\ CreatorInv /\ SlipInv

-----------------------------------------------------------------------------
(* Lemmas about the operators *)

LEMMA NoCopyType == \A kind \in Kinds : NewRow(kind) \in Row /\ NoCopy \in Row /\ NoCopy.lifecycle = Absent
BY DEF NewRow, NoCopy, Row, Statuses, OpenStored, Kinds, JobStates, Absent

LEMMA AbsentApart == Absent \notin EntryStates /\ Absent \notin InOrPast
BY DEF Absent, EntryStates, InOrPast

(* Advancing a loaded copy of the row changes the lifecycle and the status. *)
LEMMA AdvancedType ==
  ASSUME row \in Row, NEW seen \in Row, NEW target \in EntryStates
  PROVE  /\ Advanced(seen, target) \in Row
         /\ Advanced(seen, target).lifecycle = target
         /\ Advanced(seen, target).kind = row.kind
         /\ Advanced(seen, target).job = row.job
         /\ Advanced(seen, target).openCommand = row.openCommand
<1>1. StoredStatusFor(target, seen.status, StoredAsWaiting(Policy, seen.kind)) \in Statuses
  BY DEF StoredStatusFor, Statuses, OpenStored
<1>2. Column(row.status, seen.status,
             StoredStatusFor(target, seen.status, StoredAsWaiting(Policy, seen.kind))) \in Statuses
  BY <1>1 DEF Column, Row
<1> QED
  BY <1>2 DEF Advanced, Row

(* A call that goes on in the handler. *)
LEMMA GoOnType ==
  ASSUME call \in [Calls -> Call], NEW c \in Calls, NEW pc \in Stations
  PROVE  /\ GoOn(c, pc) \in [Calls -> Call]
         /\ GoOn(c, pc)[c] = [call[c] EXCEPT !.pc = pc]
         /\ \A d \in Calls \ {c} : GoOn(c, pc)[d] = call[d]
BY NoCopyType DEF GoOn, Call, Kinds

(* A call that has committed. *)
LEMMA CommittedType ==
  ASSUME call \in [Calls -> Call], NEW c \in Calls, NEW pc \in Stations
  PROVE  /\ Committed(c, pc) \in [Calls -> Call]
         /\ Committed(c, pc)[c] = [call[c] EXCEPT !.pc = pc, !.fresh = FALSE]
         /\ \A d \in Calls \ {c} : Committed(c, pc)[d] = call[d]
BY NoCopyType DEF Committed, Call, Kinds

(* A call that returns. *)
LEMMA ReturnType ==
  ASSUME call \in [Calls -> Call], NEW c \in Calls, NEW pc \in Stations
  PROVE  /\ Return(c, pc) \in [Calls -> Call]
         /\ Return(c, pc)[c] = [call[c] EXCEPT !.pc = pc, !.seen = NoCopy, !.fresh = TRUE]
         /\ \A d \in Calls \ {c} : Return(c, pc)[d] = call[d]
BY NoCopyType DEF Return, Call, Kinds

LEMMA StationsOf ==
  /\ Early \subseteq Active /\ Early \subseteq BeforePulse
  /\ Past \subseteq Active /\ AfterOpening \subseteq Past
  /\ Active \subseteq Stations /\ Returned \subseteq Stations
  /\ "idle" \notin Active /\ "idle" \notin Returned
  /\ Returned \cap Active = {} /\ Returned \cap BeforePulse = {}
  /\ Early \cap Past = {} /\ "sensed" \notin Early \cup Past
BY DEF Early, Past, Active, Working, Awaiting, Returned, BeforePulse, AfterOpening, Stations

-----------------------------------------------------------------------------
(* The shapes of a step *)

(* What is enough of a step of call c that neither claims the command, nor
   pulses, nor puts the slip out. *)
LEMMA CallStep ==
  ASSUME IInv, NEW c \in Calls,
         call' \in [Calls -> Call], row' \in Row, paper' = paper,
         \A d \in Calls \ {c} : call'[d] = call[d],
         call'[c].pulse = call[c].pulse,
         call'[c].seen \in {call[c].seen, row', NoCopy},
         row'.kind = row.kind, row'.openCommand = row.openCommand,
         row'.lifecycle = Absent => row.lifecycle = Absent /\ call'[c].pc = call[c].pc,
         row'.lifecycle \in InOrPast => Opened,
         row'.job = "TAKEN" => paper = "taken",
         call'[c].pc \in BeforePulse => call[c].pc \in BeforePulse,
         call'[c].pc \in AfterOpening => Opened,
         call'[c].pc \in Early => call[c].pc \in Early,
         call'[c].pc = "pulsing" /\ c \notin Retries => row.openCommand = c,
         call'[c].pc \in Active /\ call'[c].fresh => call'[c].seen.kind = row.kind,
         call'[c].pc = "sensed" => paper = "taken",
         call'[c].pc \in Past /\ c \notin Retries /\ NeedReceipt(row.kind) => paper = "taken"
  PROVE  IInv'
<1>1. TypeOK'
  BY DEF IInv, TypeOK
<1>2. Opened => Opened'
  BY DEF Opened
<1>3. CommandInv'
  BY DEF IInv, CommandInv
<1>4. NoCopy.lifecycle \notin InOrPast
  BY NoCopyType, AbsentApart DEF Kinds
<1>5. OpeningInv'
  BY <1>2, <1>4 DEF IInv, OpeningInv
<1>6. CreatorInv'
  BY DEF IInv, CreatorInv
<1>7. SlipInv'
  <2>1. \A k : NeedReceipt(k)' <=> NeedReceipt(k)
    BY DEF NeedReceipt, ReceiptRequired
  <2> QED
    BY <2>1 DEF IInv, SlipInv
<1> QED
  BY <1>1, <1>3, <1>5, <1>6, <1>7 DEF IInv

(* A call that returns, and what it stored before. *)
LEMMA ReturnStep ==
  ASSUME IInv, NEW c \in Calls, NEW pc \in Returned,
         call' = Return(c, pc), row' \in Row, paper' = paper,
         row'.kind = row.kind, row'.openCommand = row.openCommand, row'.job = row.job,
         row.lifecycle # Absent, row'.lifecycle # Absent,
         row'.lifecycle \in InOrPast => Opened
  PROVE  IInv'
<1>0. pc \in Stations /\ call \in [Calls -> Call]
  BY StationsOf DEF IInv, TypeOK
<1>1. /\ call' \in [Calls -> Call]
      /\ \A d \in Calls \ {c} : call'[d] = call[d]
      /\ call'[c] = [call[c] EXCEPT !.pc = pc, !.seen = NoCopy, !.fresh = TRUE]
  BY <1>0, ReturnType
<1>2. /\ call'[c].pc = pc /\ call'[c].seen = NoCopy
      /\ call'[c].pulse = call[c].pulse
  BY <1>1 DEF IInv, TypeOK, Call
<1>3. pc \notin Active \cup BeforePulse \cup AfterOpening \cup Early \cup Past \cup {"sensed", "pulsing"}
  BY StationsOf DEF Active, Awaiting
<1>4. row'.job = "TAKEN" => paper = "taken"
  BY DEF IInv, SlipInv
<1> QED
  BY <1>1, <1>2, <1>3, <1>4, CallStep

(* A call that returns without storing anything. *)
LEMMA ReturnOnly ==
  ASSUME IInv, NEW c \in Calls, NEW pc \in Returned,
         call' = Return(c, pc), UNCHANGED <<row, paper>>, row.lifecycle # Absent
  PROVE  IInv'
BY ReturnStep DEF IInv, TypeOK, OpeningInv

(* A call that has not returned and is not idle finds a row. *)
LEMMA RowExists ==
  ASSUME IInv, NEW c \in Calls, call[c].pc # "idle"
  PROVE  row.lifecycle # Absent
BY DEF IInv, CreatorInv

(* A call that goes on in the handler without storing anything. *)
LEMMA GoOnStep ==
  ASSUME IInv, NEW c \in Calls, NEW pc \in Stations,
         call' = GoOn(c, pc), UNCHANGED <<row, paper>>,
         call[c].pc \in Active, call[c].fresh,
         pc \in BeforePulse => call[c].pc \in BeforePulse,
         pc \in AfterOpening => Opened,
         pc \in Early => call[c].pc \in Early,
         pc = "pulsing" /\ c \notin Retries => row.openCommand = c,
         pc = "sensed" => paper = "taken",
         pc \in Past /\ c \notin Retries /\ NeedReceipt(row.kind) => paper = "taken"
  PROVE  IInv'
<1>0. call \in [Calls -> Call] /\ row \in Row /\ row' = row /\ paper' = paper
  BY DEF IInv, TypeOK
<1>1. /\ call' \in [Calls -> Call]
      /\ \A d \in Calls \ {c} : call'[d] = call[d]
      /\ call'[c] = [call[c] EXCEPT !.pc = pc]
  BY <1>0, GoOnType
<1>2. /\ call'[c].pc = pc /\ call'[c].seen = call[c].seen
      /\ call'[c].pulse = call[c].pulse
  BY <1>0, <1>1 DEF Call
<1>3. call[c].seen.kind = row.kind
  BY DEF IInv, SlipInv
<1>4. row.lifecycle # Absent
  BY RowExists, StationsOf
<1>5. /\ row.job = "TAKEN" => paper = "taken"
      /\ row.lifecycle \in InOrPast => Opened
  BY DEF IInv, SlipInv, OpeningInv
<1>6. /\ row'.kind = row.kind /\ row'.openCommand = row.openCommand
      /\ row' \in Row /\ row'.lifecycle # Absent
      /\ row'.lifecycle \in InOrPast => Opened
      /\ row'.job = "TAKEN" => paper = "taken"
  BY <1>0, <1>4, <1>5
<1>7. /\ call'[c].pulse = call[c].pulse
      /\ call'[c].seen \in {call[c].seen, row', NoCopy}
      /\ call'[c].seen.kind = row.kind
      /\ call' \in [Calls -> Call]
      /\ \A d \in Calls \ {c} : call'[d] = call[d]
  BY <1>1, <1>2, <1>3
<1> QED
  BY <1>0, <1>2, <1>4, <1>6, <1>7, CallStep

(* A call that committed and has still to refresh its copy. *)
LEMMA CommitStep ==
  ASSUME IInv, NEW c \in Calls, NEW pc \in Stations,
         call' = Committed(c, pc), paper' = paper,
         row' \in Row, row'.kind = row.kind, row'.openCommand = row.openCommand,
         row'.job = "TAKEN" => paper = "taken",
         row'.lifecycle # Absent, row'.lifecycle \in InOrPast => Opened,
         call[c].pc \in Active,
         pc \in BeforePulse => call[c].pc \in BeforePulse,
         pc \in AfterOpening => Opened,
         pc \in Early => call[c].pc \in Early,
         pc # "pulsing", pc # "sensed",
         pc \in Past /\ c \notin Retries /\ NeedReceipt(row.kind) => paper = "taken"
  PROVE  IInv'
<1>0. call \in [Calls -> Call] /\ row \in Row
  BY DEF IInv, TypeOK
<1>1. /\ call' \in [Calls -> Call]
      /\ \A d \in Calls \ {c} : call'[d] = call[d]
      /\ call'[c] = [call[c] EXCEPT !.pc = pc, !.fresh = FALSE]
  BY <1>0, CommittedType
<1>2. /\ call'[c].pc = pc /\ call'[c].seen = call[c].seen
      /\ call'[c].pulse = call[c].pulse /\ ~call'[c].fresh
  BY <1>0, <1>1 DEF Call
<1>4. row.lifecycle # Absent
  BY RowExists, StationsOf
<1> QED
  BY <1>0, <1>1, <1>2, <1>4, CallStep

(* advance(): the lifecycle moves, nothing else of what matters here. *)
LEMMA AdvanceStep ==
  ASSUME IInv, NEW c \in Calls, NEW pc \in Stations, NEW target \in EntryStates,
         Advance(c, target, pc),
         target \in InOrPast => Opened,
         call[c].pc \in Active,
         pc \in BeforePulse => call[c].pc \in BeforePulse,
         pc \in AfterOpening => Opened,
         pc \in Early => call[c].pc \in Early,
         pc # "pulsing", pc # "sensed",
         pc \in Past /\ c \notin Retries /\ NeedReceipt(row.kind) => paper = "taken"
  PROVE  IInv'
<1>1. row \in Row /\ call[c].seen \in Row
  BY DEF IInv, TypeOK, Call
<1>2. /\ row' = Advanced(call[c].seen, target)
      /\ call' = Committed(c, pc) /\ paper' = paper
  BY DEF Advance
<1>3. /\ row' \in Row /\ row'.lifecycle = target /\ row'.kind = row.kind
      /\ row'.job = row.job /\ row'.openCommand = row.openCommand
  BY <1>1, <1>2, AdvancedType
<1>4. row'.lifecycle # Absent
  BY <1>3, AbsentApart
<1>5. row'.job = "TAKEN" => paper = "taken"
  BY <1>3 DEF IInv, SlipInv
<1>6. row'.lifecycle \in InOrPast => Opened
  BY <1>3
<1> QED
  BY <1>2, <1>3, <1>4, <1>5, <1>6, CommitStep

-----------------------------------------------------------------------------
(* One lemma per operation *)

LEMMA SubmitStep == ASSUME IInv, NEW c \in Calls, Submit(c) PROVE IInv'
<1>0. /\ call \in [Calls -> Call] /\ row \in Row /\ call[c].pc = "idle" /\ call[c] \in Call
      /\ paper' = paper
  BY DEF Submit, At, IInv, TypeOK
<1>1. CASE row.lifecycle # Absent
  <2>1. call' = Return(c, "duplicate") /\ row' = row
    BY <1>1 DEF Submit
  <2> QED
    BY <1>0, <1>1, <2>1, ReturnOnly DEF Returned
<1>2. CASE row.lifecycle = Absent
  <2> DEFINE status == IF StoredAsWaiting(Policy, row.kind) THEN "WAITING_RECEIPT" ELSE "ACTIVE"
  <2>1. /\ row' = [row EXCEPT !.lifecycle = "VEHICLE_DETECTED", !.status = status]
        /\ call' = Committed(c, "detected")
    BY <1>2 DEF Submit
  <2>2. status \in Statuses
    BY DEF Statuses, OpenStored
  <2> HIDE DEF status
  <2>3. /\ row' \in Row /\ row'.lifecycle = "VEHICLE_DETECTED" /\ row'.kind = row.kind
        /\ row'.job = row.job /\ row'.openCommand = row.openCommand
    BY <1>0, <2>1, <2>2 DEF Row, EntryStates
  <2>4. /\ call' \in [Calls -> Call]
        /\ \A d \in Calls \ {c} : call'[d] = call[d]
        /\ call'[c] = [call[c] EXCEPT !.pc = "detected", !.fresh = FALSE]
    <3>1. "detected" \in Stations
      BY DEF Stations, Working
    <3> QED
      BY <1>0, <2>1, <3>1, CommittedType
  <2>5. /\ call'[c].pc = "detected" /\ ~call'[c].fresh
        /\ call'[c].seen = call[c].seen /\ call'[c].pulse = call[c].pulse
    BY <1>0, <2>4 DEF Call
  <2>6. /\ paper = "none" /\ \A d \in Calls : call[d].pc = "idle"
    BY <1>2 DEF IInv, CreatorInv
  <2>7. /\ "VEHICLE_DETECTED" # Absent /\ "VEHICLE_DETECTED" \notin InOrPast
        /\ "detected" \notin Past \cup AfterOpening \cup {"sensed", "pulsing"}
        /\ "idle" \in BeforePulse /\ "idle" \notin Early
    BY DEF Absent, InOrPast, Past, AfterOpening, BeforePulse, Early
  <2>8. Opened => Opened'
    BY <2>4, <2>5 DEF Opened
  <2>9. TypeOK'
    BY <1>0, <2>3, <2>4 DEF IInv, TypeOK
  <2>10. CommandInv'
    <3>1. call[c].pulse = "none"
      BY <1>0, <2>7 DEF IInv, CommandInv
    <3>2. ASSUME NEW d \in Calls
          PROVE  /\ d \notin Retries /\ (call'[d].pc = "pulsing" \/ call'[d].pulse # "none")
                      => row'.openCommand = d
                 /\ call'[d].pc \in BeforePulse => call'[d].pulse = "none"
      <4>1. CASE d = c
        BY <2>5, <3>1, <4>1
      <4>2. CASE d # c
        BY <2>3, <2>4, <4>2 DEF IInv, CommandInv
      <4> QED
        BY <4>1, <4>2
    <3> QED
      BY <3>2 DEF CommandInv
  <2>11. OpeningInv'
    BY <2>3, <2>4, <2>5, <2>7, <2>8 DEF IInv, OpeningInv
  <2>12. CreatorInv'
    BY <1>0, <2>3, <2>4, <2>5, <2>6, <2>7 DEF CreatorInv
  <2>13. SlipInv'
    <3>1. \A k : NeedReceipt(k)' <=> NeedReceipt(k)
      BY DEF NeedReceipt, ReceiptRequired
    <3> QED
      BY <1>0, <2>3, <2>4, <2>5, <2>7, <3>1 DEF IInv, SlipInv
  <2> QED
    BY <2>9, <2>10, <2>11, <2>12, <2>13 DEF IInv
<1> QED
  BY <1>1, <1>2

LEMMA IdentifyStep ==
  ASSUME IInv, NEW c \in Calls, Identify(c) \/ CreateSession(c) PROVE IInv'
<1>1. /\ {"identified", "created", "detected"} \subseteq Early
      /\ {"IDENTITY_RESOLVED", "SESSION_CREATED"} \subseteq EntryStates \ InOrPast
  BY DEF Early, EntryStates, InOrPast
<1>2. CASE Identify(c)
  <2>1. Advance(c, "IDENTITY_RESOLVED", "identified") /\ call[c].pc = "detected"
    BY <1>2 DEF Identify, At
  <2> QED
    BY <1>1, <2>1, StationsOf, AdvanceStep
<1>3. CASE CreateSession(c)
  <2>1. Advance(c, "SESSION_CREATED", "created") /\ call[c].pc = "identified"
    BY <1>3 DEF CreateSession, At
  <2> QED
    BY <1>1, <2>1, StationsOf, AdvanceStep
<1> QED
  BY <1>2, <1>3

(* No receipt is due of a parker whose slip need not be printed. *)
LEMMA NoPrintNoReceipt ==
  ASSUME NEW kind, FALSE \in MayPrint(kind)
  PROVE  ~NeedReceipt(kind)
<1> SUFFICES ASSUME NeedReceipt(kind) PROVE FALSE
  OBVIOUS
<1> DEFINE usual == Policy.printOnEntry \/ NeedReceipt(kind)
<1>1. usual = TRUE
  OBVIOUS
<1>2. ~(IsSubscriber(kind) /\ Policy.subscriberSkips)
  BY DEF NeedReceipt, ReceiptRequired
<1>3. MayPrint(kind) = IF IsSubscriber(kind)
                       THEN IF Policy.subscriberSkips THEN BOOLEAN ELSE {usual, TRUE}
                       ELSE {usual}
  BY DEF MayPrint
<1> HIDE DEF usual
<1>4. MayPrint(kind) = {usual} \/ MayPrint(kind) = {usual, TRUE}
  BY <1>2, <1>3
<1>5. FALSE # TRUE
  OBVIOUS
<1> QED
  BY <1>1, <1>4, <1>5, Zenon

LEMMA ClaimJobStep == ASSUME IInv, NEW c \in Calls, ClaimJob(c) PROVE IInv'
<1>0. /\ call[c].pc = "created" /\ call[c].fresh /\ row \in Row /\ paper' = paper
      /\ call[c].pc \in Active /\ call[c].pc \in BeforePulse
      /\ {"claimed", "authorizing"} \subseteq Stations
  BY DEF ClaimJob, At, IInv, TypeOK, Active, Working, BeforePulse, Stations
<1>1. call[c].seen.kind = row.kind /\ row.lifecycle # Absent
  BY <1>0, RowExists DEF IInv, SlipInv
<1>2. CASE row' = [row EXCEPT !.job = "PRINTING"] /\ call' = Committed(c, "claimed")
  <2>1. /\ row' \in Row /\ row'.kind = row.kind /\ row'.openCommand = row.openCommand
        /\ row'.lifecycle = row.lifecycle /\ row'.job = "PRINTING"
    BY <1>0, <1>2 DEF Row, JobStates
  <2>2. row.lifecycle \in InOrPast => Opened
    BY DEF IInv, OpeningInv
  <2>3. "claimed" \notin AfterOpening \cup Past \cup {"pulsing", "sensed"} /\ call[c].pc \in Early
    BY <1>0 DEF AfterOpening, Past, Early
  <2> QED
    BY <1>0, <1>1, <1>2, <2>1, <2>2, <2>3, CommitStep
<1>3. CASE FALSE \in MayPrint(call[c].seen.kind) /\ call' = GoOn(c, "authorizing") /\ row' = row
  <2>1. ~NeedReceipt(row.kind)
    BY <1>1, <1>3, NoPrintNoReceipt
  <2>2. "authorizing" \notin AfterOpening \cup Early \cup {"pulsing", "sensed"}
    BY DEF AfterOpening, Early
  <2> QED
    BY <1>0, <1>3, <2>1, <2>2, GoOnStep
<1> QED
  BY <1>2, <1>3 DEF ClaimJob

LEMMA StartPrintingStep == ASSUME IInv, NEW c \in Calls, StartPrinting(c) PROVE IInv'
<1>0. /\ call[c].pc = "claimed" /\ call[c].fresh
      /\ call[c].pc \in Active /\ call[c].pc \in BeforePulse /\ call[c].pc \in Early
      /\ "printing" \in Stations
      /\ "printing" \notin AfterOpening \cup Past \cup {"pulsing", "sensed"}
      /\ "RECEIPT_PRINTING" \in EntryStates \ InOrPast
  BY DEF StartPrinting, At, Active, Working, Awaiting, BeforePulse, Stations, Early,
         AfterOpening, Past, EntryStates, InOrPast
<1>1. CASE Advance(c, "RECEIPT_PRINTING", "printing")
  BY <1>0, <1>1, AdvanceStep
<1>2. CASE call' = GoOn(c, "printing") /\ UNCHANGED <<row, paper>>
  BY <1>0, <1>2, GoOnStep
<1> QED
  BY <1>1, <1>2 DEF StartPrinting

(* The only step that puts a slip out; there was none. *)
LEMMA PrintStep ==
  ASSUME IInv, NEW c \in Calls, NEW ok \in BOOLEAN, NEW out \in BOOLEAN, PrintSlip(c, ok, out)
  PROVE  IInv'
<1> DEFINE next == IF ok THEN "answered" ELSE "jammed"
<1>0. /\ call[c].pc = "printing" /\ call[c].fresh /\ row' = row /\ row \in Row
      /\ call \in [Calls -> Call] /\ call[c] \in Call
      /\ call' = GoOn(c, next)
      /\ paper' = IF out THEN "presented" ELSE paper
  BY DEF PrintSlip, IInv, TypeOK
<1>1. /\ next \in Stations /\ next \in Active /\ next \in BeforePulse
      /\ next \notin Early \cup Past \cup AfterOpening \cup {"pulsing", "sensed", "idle"}
      /\ "printing" \in Early /\ "printing" \in BeforePulse /\ "printing" \in Active
  BY DEF Stations, Active, Working, Awaiting, BeforePulse, Early, Past, AfterOpening
<1> HIDE DEF next
<1>2. /\ call' \in [Calls -> Call]
      /\ \A d \in Calls \ {c} : call'[d] = call[d]
      /\ call'[c] = [call[c] EXCEPT !.pc = next]
  BY <1>0, <1>1, GoOnType
<1>3. /\ call'[c].pc = next /\ call'[c].seen = call[c].seen
      /\ call'[c].pulse = call[c].pulse /\ call'[c].fresh = call[c].fresh
  BY <1>0, <1>2 DEF Call
<1>4. paper = "none" /\ \A d \in Calls \ {c} : call[d].pc \notin Early
  BY <1>0, <1>1 DEF IInv, CreatorInv
<1>5. row.lifecycle # Absent
  BY <1>0, RowExists
<1>6. TypeOK'
  BY <1>0, <1>2 DEF IInv, TypeOK
<1>7. Opened => Opened'
  BY <1>2, <1>3 DEF Opened
<1>8. CommandInv'
  <2>1. call[c].pulse = "none"
    BY <1>0, <1>1 DEF IInv, CommandInv
  <2>2. ASSUME NEW d \in Calls
        PROVE  /\ d \notin Retries /\ (call'[d].pc = "pulsing" \/ call'[d].pulse # "none")
                    => row'.openCommand = d
               /\ call'[d].pc \in BeforePulse => call'[d].pulse = "none"
    <3>1. CASE d = c
      BY <1>1, <1>3, <2>1, <3>1
    <3>2. CASE d # c
      BY <1>0, <1>2, <3>2 DEF IInv, CommandInv
    <3> QED
      BY <3>1, <3>2
  <2> QED
    BY <2>2 DEF CommandInv
<1>9. OpeningInv'
  BY <1>0, <1>1, <1>2, <1>3, <1>7 DEF IInv, OpeningInv
<1>10. CreatorInv'
  <2>1. \A d \in Calls : call'[d].pc \notin Early
    BY <1>1, <1>2, <1>3, <1>4
  <2> QED
    BY <1>0, <1>5, <2>1 DEF CreatorInv
<1>11. SlipInv'
  <2>1. \A k : NeedReceipt(k)' <=> NeedReceipt(k)
    BY DEF NeedReceipt, ReceiptRequired
  <2>2. call[c].pulse = "none"
    BY <1>0, <1>1 DEF IInv, CommandInv
  <2>3. row.job # "TAKEN"
    BY <1>4 DEF IInv, SlipInv
  <2>4. call[c].seen.kind = row.kind
    BY <1>0, <1>1 DEF IInv, SlipInv
  <2>5. ASSUME NEW d \in Calls
        PROVE  /\ call'[d].pc \in Active /\ call'[d].fresh => call'[d].seen.kind = row'.kind
               /\ call'[d].pc # "sensed"
               /\ ~(/\ d \notin Retries /\ NeedReceipt(row.kind)
                    /\ call'[d].pc \in Past \/ call'[d].pulse # "none")
    <3>1. CASE d = c
      BY <1>0, <1>1, <1>3, <2>2, <2>4, <3>1
    <3>2. CASE d # c
      BY <1>0, <1>2, <1>4, <3>2 DEF IInv, SlipInv
    <3> QED
      BY <3>1, <3>2
  <2> QED
    BY <1>0, <2>1, <2>3, <2>5 DEF SlipInv
<1> QED
  BY <1>6, <1>8, <1>9, <1>10, <1>11 DEF IInv

LEMMA PresentStep ==
  ASSUME IInv, NEW c \in Calls, Present(c) \/ Misprint(c) PROVE IInv'
<1>0. /\ call[c].pc \in {"answered", "jammed"} /\ paper' = paper /\ call[c].seen \in Row
      /\ row \in Row
  BY DEF Present, Misprint, At, IInv, TypeOK, Call
<1>1. /\ call[c].pc \in Active /\ call[c].pc \in BeforePulse /\ call[c].pc # "idle"
      /\ {"printed", "misprinted"} \subseteq Stations
      /\ {"printed", "misprinted"} \cap (Past \cup Early \cup AfterOpening \cup {"pulsing", "sensed"}) = {}
  BY <1>0 DEF Active, Awaiting, Working, BeforePulse, Stations, Past, Early, AfterOpening
<1>2. /\ row.lifecycle # Absent
      /\ row.lifecycle \in InOrPast => Opened
  BY <1>1, RowExists DEF IInv, OpeningInv
<1>3. CASE /\ row' = [Advanced(call[c].seen, "RECEIPT_PRESENTED") EXCEPT !.job = "PRESENTED"]
           /\ call' = Committed(c, "printed")
  <2> DEFINE next == Advanced(call[c].seen, "RECEIPT_PRESENTED")
  <2>1. "RECEIPT_PRESENTED" \in EntryStates \ InOrPast /\ "RECEIPT_PRESENTED" # Absent
    BY DEF EntryStates, InOrPast, Absent
  <2>2. /\ next \in Row /\ next.lifecycle = "RECEIPT_PRESENTED" /\ next.kind = row.kind
        /\ next.openCommand = row.openCommand
    BY <1>0, <2>1, AdvancedType
  <2>3. row' = [next EXCEPT !.job = "PRESENTED"]
    BY <1>3
  <2> HIDE DEF next
  <2>4. /\ row' \in Row /\ row'.lifecycle = "RECEIPT_PRESENTED" /\ row'.kind = row.kind
        /\ row'.openCommand = row.openCommand /\ row'.job = "PRESENTED"
    BY <2>2, <2>3 DEF Row, JobStates
  <2> QED
    BY <1>0, <1>1, <1>3, <2>1, <2>4, CommitStep
<1>4. CASE row' = [row EXCEPT !.job = "ASSISTANCE"] /\ call' = Committed(c, "misprinted")
  <2>1. /\ row' \in Row /\ row'.lifecycle = row.lifecycle /\ row'.kind = row.kind
        /\ row'.openCommand = row.openCommand /\ row'.job = "ASSISTANCE"
    BY <1>0, <1>4 DEF Row, JobStates
  <2> QED
    BY <1>0, <1>1, <1>2, <1>4, <2>1, CommitStep
<1>5. CASE call' = Return(c, "error") /\ row' = row
  BY <1>0, <1>2, <1>5, ReturnOnly DEF Returned
<1> QED
  BY <1>3, <1>4, <1>5 DEF Present, Misprint

LEMMA AfterPrintStep == ASSUME IInv, NEW c \in Calls, AfterPrint(c) PROVE IInv'
<1>0. /\ call[c].pc \in {"printed", "misprinted"} /\ call[c].fresh /\ UNCHANGED <<row, paper>>
  BY DEF AfterPrint, At
<1>1. call[c].pc \in Active /\ call[c].pc \in BeforePulse /\ call[c].pc # "idle"
  BY <1>0 DEF Active, Working, BeforePulse
<1>2. row.lifecycle # Absent /\ call[c].seen.kind = row.kind
  BY <1>0, <1>1, RowExists DEF IInv, SlipInv
<1>3. CASE ~NeedReceipt(call[c].seen.kind) /\ call' = GoOn(c, "authorizing")
  <2>1. /\ "authorizing" \in Stations
        /\ "authorizing" \notin AfterOpening \cup Early \cup {"pulsing", "sensed"}
    BY DEF Stations, Working, AfterOpening, Early
  <2> QED
    BY <1>0, <1>1, <1>2, <1>3, <2>1, GoOnStep
<1>4. CASE call' = Return(c, "waiting_receipt") \/ call' = Return(c, "printer_failed")
  BY <1>0, <1>2, <1>4, ReturnOnly DEF Returned
<1> QED
  BY <1>3, <1>4 DEF AfterPrint

(* The driver's hand. *)
LEMMA TakeSlipStep == ASSUME IInv, TakeSlip PROVE IInv'
<1>1. /\ paper = "presented" /\ paper' = "taken" /\ row' = row /\ call' = call
  BY DEF TakeSlip
<1>2. \A k : NeedReceipt(k)' <=> NeedReceipt(k)
  BY DEF NeedReceipt, ReceiptRequired
<1>3. Opened => Opened'
  BY <1>1 DEF Opened
<1>4. TypeOK' /\ CommandInv' /\ OpeningInv'
  BY <1>1, <1>3 DEF IInv, TypeOK, CommandInv, OpeningInv
<1>5. CreatorInv'
  BY <1>1 DEF IInv, CreatorInv
<1>6. SlipInv'
  BY <1>1, <1>2 DEF IInv, SlipInv
<1> QED
  BY <1>4, <1>5, <1>6 DEF IInv

-----------------------------------------------------------------------------
(* A call that loads the row: confirm_receipt_taken, retry_gate, vehicle_left. *)
LEMMA LoadStep ==
  ASSUME IInv, NEW c \in Calls, NEW pc \in Stations, NEW fresh \in BOOLEAN,
         call' = [call EXCEPT ![c] = [call[c] EXCEPT !.pc = pc, !.seen = row, !.fresh = fresh]],
         UNCHANGED <<row, paper>>, row.lifecycle # Absent,
         call[c].pc = "idle",
         pc \notin AfterOpening \cup Early \cup {"pulsing", "sensed"},
         pc \in Past /\ c \notin Retries => paper = "taken"
  PROVE  IInv'
<1>0. /\ call \in [Calls -> Call] /\ call[c] \in Call /\ row \in Row
      /\ row' = row /\ paper' = paper /\ "idle" \in BeforePulse
  BY DEF IInv, TypeOK, BeforePulse
<1> DEFINE next == [call[c] EXCEPT !.pc = pc, !.seen = row, !.fresh = fresh]
<1>1. /\ next \in Call /\ next.pc = pc /\ next.seen = row /\ next.pulse = call[c].pulse
  BY <1>0 DEF Call
<1>2. call' = [call EXCEPT ![c] = next]
  OBVIOUS
<1> HIDE DEF next
<1>3. /\ call' \in [Calls -> Call]
      /\ call'[c].pc = pc /\ call'[c].seen = row /\ call'[c].pulse = call[c].pulse
      /\ \A d \in Calls \ {c} : call'[d] = call[d]
  BY <1>0, <1>1, <1>2
<1>4. /\ row.job = "TAKEN" => paper = "taken"
      /\ row.lifecycle \in InOrPast => Opened
  BY DEF IInv, SlipInv, OpeningInv
<1> QED
  BY <1>0, <1>3, <1>4, CallStep

LEMMA ConfirmStep ==
  ASSUME IInv, NEW c \in Calls, Confirm(c) \/ Retry(c) \/ Leave(c) PROVE IInv'
<1>0. /\ call[c].pc = "idle" /\ row.lifecycle # Absent /\ UNCHANGED <<row, paper>>
      /\ call \in [Calls -> Call] /\ call[c] \in Call
      /\ row.job = "TAKEN" => paper = "taken"
  BY DEF Confirm, Retry, Leave, At, IInv, TypeOK, SlipInv
<1>1. /\ {"authorizing", "sensing", "leaving"} \subseteq Stations
      /\ {"authorizing", "sensing", "leaving"} \cap (AfterOpening \cup Early \cup {"pulsing", "sensed"}) = {}
      /\ "sensing" \notin Past /\ "leaving" \notin Past
  BY DEF Stations, Working, Awaiting, AfterOpening, Early, Past
<1>2. CASE Confirm(c)
  <2>1. CASE row.job = "TAKEN"
    <3>1. call' = [call EXCEPT ![c] = [call[c] EXCEPT !.pc = "authorizing", !.seen = row, !.fresh = FALSE]]
      BY <1>0, <1>2, <2>1 DEF Confirm, Call
    <3> QED
      BY <1>0, <1>1, <2>1, <3>1, LoadStep
  <2>2. CASE row.job # "TAKEN"
    <3>1. call' = [call EXCEPT ![c] = [call[c] EXCEPT !.pc = "sensing", !.seen = row, !.fresh = TRUE]]
      BY <1>0, <1>2, <2>2 DEF Confirm, Call
    <3> QED
      BY <1>0, <1>1, <3>1, LoadStep
  <2> QED
    BY <2>1, <2>2
<1>3. CASE Retry(c)
  <2>1. /\ c \in Retries
        /\ call' = [call EXCEPT ![c] = [call[c] EXCEPT !.pc = "authorizing", !.seen = row, !.fresh = TRUE]]
    BY <1>0, <1>3 DEF Retry, At, Call
  <2> QED
    BY <1>0, <1>1, <2>1, LoadStep
<1>4. CASE Leave(c)
  <2>1. call' = [call EXCEPT ![c] = [call[c] EXCEPT !.pc = "leaving", !.seen = row, !.fresh = TRUE]]
    BY <1>0, <1>4 DEF Leave, At, Call
  <2> QED
    BY <1>0, <1>1, <2>1, LoadStep
<1> QED
  BY <1>2, <1>3, <1>4

(* The sensor says "taken" only of a slip that is. *)
LEMMA SenseStep ==
  ASSUME IInv, NEW c \in Calls, NEW taken \in BOOLEAN, Sense(c, taken) PROVE IInv'
<1>0. /\ call[c].pc = "sensing" /\ call[c].fresh /\ UNCHANGED <<row, paper>>
      /\ taken => paper = "taken"
      /\ call' = IF taken THEN GoOn(c, "sensed") ELSE Return(c, "refused")
  BY DEF Sense
<1>1. /\ call[c].pc \in Active /\ call[c].pc \in BeforePulse /\ call[c].pc # "idle"
      /\ "sensed" \in Stations /\ "sensed" \notin Past \cup AfterOpening \cup Early \cup {"pulsing"}
  BY <1>0 DEF Active, Awaiting, BeforePulse, Stations, Past, AfterOpening, Early
<1>2. CASE taken
  BY <1>0, <1>1, <1>2, GoOnStep
<1>3. CASE ~taken
  BY <1>0, <1>1, <1>3, RowExists, ReturnOnly DEF Returned
<1> QED
  BY <1>2, <1>3

LEMMA MarkTakenStep == ASSUME IInv, NEW c \in Calls, MarkTaken(c) PROVE IInv'
<1>0. /\ call[c].pc = "sensed" /\ call[c].fresh /\ paper' = paper
      /\ call[c].seen \in Row /\ row \in Row
  BY DEF MarkTaken, At, IInv, TypeOK, Call
<1>1. /\ call[c].pc \in Active /\ call[c].pc \in BeforePulse /\ call[c].pc # "idle"
      /\ "authorizing" \in Stations /\ "authorizing" \notin AfterOpening \cup Early \cup {"pulsing", "sensed"}
  BY <1>0 DEF Active, Awaiting, Working, BeforePulse, Stations, AfterOpening, Early
<1>2. /\ paper = "taken" /\ row.lifecycle # Absent
      /\ row.lifecycle \in InOrPast => Opened
  BY <1>0, <1>1, RowExists DEF IInv, SlipInv, OpeningInv
<1>3. CASE call' = Return(c, "refused") /\ row' = row
  BY <1>0, <1>2, <1>3, ReturnOnly DEF Returned
<1>4. CASE /\ row' = [(IF call[c].seen.lifecycle \in TakenOrPast THEN row
                       ELSE Advanced(call[c].seen, "RECEIPT_TAKEN")) EXCEPT !.job = "TAKEN"]
           /\ call' = Committed(c, "authorizing")
  <2> DEFINE next == IF call[c].seen.lifecycle \in TakenOrPast THEN row
                     ELSE Advanced(call[c].seen, "RECEIPT_TAKEN")
  <2>1. "RECEIPT_TAKEN" \in EntryStates \ InOrPast /\ "RECEIPT_TAKEN" # Absent
    BY DEF EntryStates, InOrPast, Absent
  <2>2. /\ next \in Row /\ next.kind = row.kind /\ next.openCommand = row.openCommand
        /\ next.lifecycle \in {row.lifecycle, "RECEIPT_TAKEN"}
    BY <1>0, <2>1, AdvancedType
  <2>3. row' = [next EXCEPT !.job = "TAKEN"]
    BY <1>4
  <2> HIDE DEF next
  <2>4. /\ row' \in Row /\ row'.kind = row.kind /\ row'.openCommand = row.openCommand
        /\ row'.lifecycle \in {row.lifecycle, "RECEIPT_TAKEN"}
    BY <2>2, <2>3 DEF Row, JobStates
  <2>5. row'.lifecycle # Absent /\ (row'.lifecycle \in InOrPast => Opened)
    BY <1>2, <2>1, <2>4
  <2> QED
    BY <1>0, <1>1, <1>2, <1>4, <2>4, <2>5, CommitStep
<1> QED
  BY <1>3, <1>4 DEF MarkTaken

LEMMA CancelStep == ASSUME IInv, NEW c \in Calls, Cancel(c) PROVE IInv'
<1>0. /\ call[c].pc = "leaving" /\ paper' = paper /\ call[c].seen \in Row /\ row \in Row
  BY DEF Cancel, At, IInv, TypeOK, Call
<1>1. /\ row.lifecycle # Absent
      /\ row.lifecycle \in InOrPast => Opened
  BY <1>0, RowExists DEF IInv, OpeningInv
<1>2. PICK pc \in {"too_late", "vehicle_left", "error"} : call' = Return(c, pc)
  BY DEF Cancel
<1>3. row' = row \/ row' = Advanced(call[c].seen, "ENTRY_CANCELLED")
  BY DEF Cancel
<1>4. "ENTRY_CANCELLED" \in EntryStates \ InOrPast /\ "ENTRY_CANCELLED" # Absent
  BY DEF EntryStates, InOrPast, Absent
<1>5. /\ row' \in Row /\ row'.kind = row.kind /\ row'.openCommand = row.openCommand
      /\ row'.job = row.job /\ row'.lifecycle \in {row.lifecycle, "ENTRY_CANCELLED"}
  BY <1>0, <1>3, <1>4, AdvancedType
<1>6. row'.lifecycle # Absent /\ (row'.lifecycle \in InOrPast => Opened)
  BY <1>1, <1>4, <1>5
<1>7. pc \in Returned
  BY <1>2 DEF Returned
<1> QED
  BY <1>0, <1>1, <1>2, <1>5, <1>6, <1>7, ReturnStep

-----------------------------------------------------------------------------
(* The barrier *)

LEMMA AuthorizeStep == ASSUME IInv, NEW c \in Calls, Authorize(c) PROVE IInv'
<1>0. /\ call[c].pc = "authorizing" /\ call[c].fresh /\ UNCHANGED <<row, paper>>
  BY DEF Authorize, At
<1>1. /\ call[c].pc \in Active /\ call[c].pc \in BeforePulse /\ call[c].pc \in Past
      /\ call[c].pc # "idle"
      /\ {"pulsing", "commanded"} \subseteq Stations
      /\ {"pulsing", "commanded"} \cap (Early \cup AfterOpening \cup {"sensed"}) = {}
  BY <1>0 DEF Active, Working, Awaiting, BeforePulse, Past, Stations, Early, AfterOpening
<1>2. c \notin Retries /\ NeedReceipt(row.kind) => paper = "taken"
  BY <1>1 DEF IInv, SlipInv
<1>3. CASE call' = Return(c, "already_open") \/ call' = Return(c, "gate_command_in_progress")
  BY <1>0, <1>1, <1>3, RowExists, ReturnOnly DEF Returned
<1>4. CASE c \in Retries /\ call' = GoOn(c, "pulsing")
  BY <1>0, <1>1, <1>4, GoOnStep
<1>5. CASE call' = GoOn(c, "commanded")
  BY <1>0, <1>1, <1>2, <1>5, GoOnStep
<1> QED
  BY <1>3, <1>4, <1>5 DEF Authorize

(* The conditional UPDATE: the id becomes c, and was nobody's. *)
LEMMA ClaimCommandStep == ASSUME IInv, NEW c \in Calls, ClaimCommand(c) PROVE IInv'
<1>0. /\ call[c].pc = "commanded" /\ paper' = paper /\ row \in Row
      /\ call \in [Calls -> Call] /\ call[c] \in Call
  BY DEF ClaimCommand, At, IInv, TypeOK
<1>1. /\ call[c].pc \in BeforePulse /\ call[c].pc # "idle" /\ call[c].pc \in Past
      /\ "pulsing" \in Stations /\ "pulsing" \in BeforePulse
      /\ "pulsing" \notin Early \cup AfterOpening \cup {"idle", "sensed"}
  BY <1>0 DEF Active, Working, Awaiting, BeforePulse, Past, Stations, Early, AfterOpening
<1>2. row.lifecycle # Absent
  BY <1>1, RowExists
<1>3. CASE call' = Return(c, "gate_command_in_progress") /\ row' = row
  BY <1>0, <1>2, <1>3, ReturnOnly DEF Returned
<1>4. CASE /\ row.openCommand = NoOne
           /\ row' = [row EXCEPT !.openCommand = c]
           /\ call' = Committed(c, "pulsing")
  <2>1. /\ row' \in Row /\ row'.lifecycle = row.lifecycle /\ row'.kind = row.kind
        /\ row'.job = row.job /\ row'.openCommand = c
    BY <1>0, <1>4 DEF Row
  <2>2. /\ call' \in [Calls -> Call]
        /\ \A d \in Calls \ {c} : call'[d] = call[d]
        /\ call'[c] = [call[c] EXCEPT !.pc = "pulsing", !.fresh = FALSE]
    <3>1. PICK pc \in Stations : pc = "pulsing"
      BY <1>1
    <3>2. /\ Committed(c, pc) \in [Calls -> Call]
          /\ Committed(c, pc)[c] = [call[c] EXCEPT !.pc = pc, !.fresh = FALSE]
          /\ \A d \in Calls \ {c} : Committed(c, pc)[d] = call[d]
      BY <1>0, CommittedType
    <3> QED
      BY <1>4, <3>1, <3>2
  <2>3. /\ call'[c].pc = "pulsing" /\ call'[c].seen = call[c].seen
        /\ call'[c].pulse = call[c].pulse /\ ~call'[c].fresh
    BY <1>0, <2>2 DEF Call
  <2>4. /\ call[c].pulse = "none"
        /\ \A d \in Calls \ Retries : call[d].pc # "pulsing" /\ call[d].pulse = "none"
    BY <1>1, <1>4, CallsAssumption DEF IInv, CommandInv
  <2>5. Opened => Opened'
    BY <2>2, <2>3 DEF Opened
  <2>6. TypeOK'
    BY <1>0, <2>1, <2>2 DEF IInv, TypeOK
  <2>7. CommandInv'
    <3>1. ASSUME NEW d \in Calls
          PROVE  /\ d \notin Retries /\ (call'[d].pc = "pulsing" \/ call'[d].pulse # "none")
                      => row'.openCommand = d
                 /\ call'[d].pc \in BeforePulse => call'[d].pulse = "none"
      <4>1. CASE d = c
        BY <2>1, <2>3, <2>4, <4>1
      <4>2. CASE d # c
        BY <2>2, <2>4, <4>2 DEF IInv, CommandInv
      <4> QED
        BY <4>1, <4>2
    <3> QED
      BY <3>1 DEF CommandInv
  <2>8. OpeningInv'
    BY <1>1, <2>1, <2>2, <2>3, <2>5 DEF IInv, OpeningInv
  <2>9. CreatorInv'
    <3>1. \A d \in Calls : call'[d].pc \in Early => d # c /\ call[d].pc \in Early
      BY <1>1, <2>2, <2>3
    <3>2. row'.lifecycle # Absent
      BY <1>2, <2>1
    <3> QED
      BY <1>0, <3>1, <3>2 DEF IInv, CreatorInv
  <2>10. SlipInv'
    <3>1. \A k : NeedReceipt(k)' <=> NeedReceipt(k)
      BY DEF NeedReceipt, ReceiptRequired
    <3>2. row'.job = "TAKEN" => paper' = "taken"
      BY <1>0, <2>1 DEF IInv, SlipInv
    <3>3. ASSUME NEW d \in Calls
          PROVE  /\ call'[d].pc \in Active /\ call'[d].fresh => call'[d].seen.kind = row'.kind
                 /\ call'[d].pc = "sensed" => paper' = "taken"
                 /\ /\ d \notin Retries /\ NeedReceipt(row'.kind)
                    /\ call'[d].pc \in Past \/ call'[d].pulse # "none"
                    => paper' = "taken"
      <4>1. CASE d = c
        <5>1. c \notin Retries /\ NeedReceipt(row.kind) => paper = "taken"
          BY <1>1 DEF IInv, SlipInv
        <5> QED
          BY <1>0, <1>1, <2>1, <2>3, <4>1, <5>1
      <4>2. CASE d # c
        <5>1. call'[d] = call[d] /\ row'.kind = row.kind /\ paper' = paper
          BY <1>0, <2>1, <2>2, <4>2
        <5> QED
          BY <5>1 DEF IInv, SlipInv
      <4> QED
        BY <4>1, <4>2
    <3> QED
      BY <3>1, <3>2, <3>3 DEF SlipInv
  <2> QED
    BY <2>6, <2>7, <2>8, <2>9, <2>10 DEF IInv
<1> QED
  BY <1>3, <1>4 DEF ClaimCommand

(* The barrier's answer. *)
LEMMA PulseStep ==
  ASSUME IInv, NEW c \in Calls, NEW result \in Pulses \ {"none"}, Pulse(c, result) PROVE IInv'
<1>0. /\ call[c].pc = "pulsing" /\ call[c].fresh /\ row' = row /\ paper' = paper
      /\ row \in Row /\ call \in [Calls -> Call] /\ call[c] \in Call
  BY DEF Pulse, IInv, TypeOK
<1>1. PICK pc \in {"pulsed", "gate_unavailable"}, seen \in {call[c].seen, NoCopy} :
        /\ call' = [call EXCEPT ![c] = [call[c] EXCEPT !.pc = pc, !.seen = seen, !.pulse = result]]
        /\ pc = "pulsed" => result \in {"opened", "unsent"} /\ seen = call[c].seen
  <2>1. CASE result \in {"opened", "unsent"}
    <3>1. call' = [call EXCEPT ![c] = [call[c] EXCEPT !.pc = "pulsed", !.seen = call[c].seen, !.pulse = result]]
      BY <1>0, <2>1 DEF Pulse, Call
    <3> QED
      BY <2>1, <3>1
  <2>2. CASE result \notin {"opened", "unsent"}
    <3>1. call' = [call EXCEPT ![c] = [call[c] EXCEPT !.pc = "gate_unavailable", !.seen = NoCopy, !.pulse = result]]
      BY <1>0, <2>2 DEF Pulse, Call, Return
    <3> QED
      BY <2>2, <3>1
  <2> QED
    BY <2>1, <2>2
<1> DEFINE next == [call[c] EXCEPT !.pc = pc, !.seen = seen, !.pulse = result]
<1>2. /\ next \in Call /\ next.pc = pc /\ next.seen = seen /\ next.pulse = result
      /\ next.fresh = call[c].fresh
  <2>1. seen \in Row /\ pc \in Stations
    BY <1>0, <1>1, NoCopyType DEF Call, Kinds, Stations, Awaiting, Returned
  <2> QED
    BY <1>0, <2>1 DEF Call
<1>3. call' = [call EXCEPT ![c] = next]
  BY <1>1
<1> HIDE DEF next
<1>4. /\ call' \in [Calls -> Call]
      /\ call'[c].pc = pc /\ call'[c].seen = seen /\ call'[c].pulse = result
      /\ call'[c].fresh = call[c].fresh
      /\ \A d \in Calls \ {c} : call'[d] = call[d]
  BY <1>0, <1>2, <1>3
<1>5. /\ "pulsing" \in Past /\ "pulsing" \in Active /\ "pulsing" \in BeforePulse
      /\ pc \notin Early \cup BeforePulse \cup {"idle", "pulsing", "sensed"}
      /\ pc = "gate_unavailable" => pc \notin Active \cup AfterOpening
  BY <1>1 DEF Past, Active, Awaiting, Working, BeforePulse, Early, AfterOpening
<1>6. call[c].pulse = "none" /\ row.lifecycle # Absent
  BY <1>0, <1>5, RowExists DEF IInv, CommandInv
<1>7. Opened => Opened'
  BY <1>4, <1>6 DEF Opened
<1>8. pc = "pulsed" => Opened'
  BY <1>1, <1>4 DEF Opened
<1>9. TypeOK'
  BY <1>0, <1>4 DEF IInv, TypeOK
<1>10. CommandInv'
  <2>1. c \notin Retries => row.openCommand = c
    BY <1>0 DEF IInv, CommandInv
  <2>2. ASSUME NEW d \in Calls
        PROVE  /\ d \notin Retries /\ (call'[d].pc = "pulsing" \/ call'[d].pulse # "none")
                    => row'.openCommand = d
               /\ call'[d].pc \in BeforePulse => call'[d].pulse = "none"
    <3>1. CASE d = c
      BY <1>0, <1>4, <1>5, <2>1, <3>1
    <3>2. CASE d # c
      BY <1>0, <1>4, <3>2 DEF IInv, CommandInv
    <3> QED
      BY <3>1, <3>2
  <2> QED
    BY <2>2 DEF CommandInv
<1>11. OpeningInv'
  <2>1. NoCopy.lifecycle \notin InOrPast
    BY NoCopyType, AbsentApart DEF Kinds
  <2> QED
    BY <1>0, <1>1, <1>4, <1>5, <1>7, <1>8, <2>1 DEF IInv, OpeningInv
<1>12. CreatorInv'
  BY <1>0, <1>4, <1>5, <1>6 DEF IInv, CreatorInv
<1>13. SlipInv'
  <2>1. \A k : NeedReceipt(k)' <=> NeedReceipt(k)
    BY DEF NeedReceipt, ReceiptRequired
  <2>2. /\ c \notin Retries /\ NeedReceipt(row.kind) => paper = "taken"
        /\ call[c].seen.kind = row.kind
    BY <1>0, <1>5 DEF IInv, SlipInv
  <2> QED
    BY <1>0, <1>1, <1>4, <1>5, <2>1, <2>2 DEF IInv, SlipInv
<1> QED
  BY <1>9, <1>10, <1>11, <1>12, <1>13 DEF IInv

(* request_entry_open: the opening it records has happened. *)
LEMMA RequestOpenStep == ASSUME IInv, NEW c \in Calls, RequestOpen(c) PROVE IInv'
<1>0. /\ call[c].pc \in {"pulsed", "requesting"} /\ call[c].fresh
  BY DEF RequestOpen, At
<1>1. /\ call[c].pc \in Active /\ call[c].pc \in Past /\ call[c].pc \in AfterOpening
      /\ call[c].pc # "idle"
      /\ {"requesting", "passing"} \subseteq Stations
      /\ {"requesting", "passing"} \cap (BeforePulse \cup Early \cup {"pulsing", "sensed"}) = {}
  BY <1>0 DEF Active, Working, Awaiting, Past, AfterOpening, BeforePulse, Early, Stations
<1>2. /\ Opened /\ row.lifecycle # Absent
      /\ c \notin Retries /\ NeedReceipt(row.kind) => paper = "taken"
  BY <1>1, RowExists DEF IInv, OpeningInv, SlipInv
<1>3. {"ENTRY_AUTHORIZED", "GATE_OPEN_REQUESTED"} \subseteq EntryStates
  BY DEF EntryStates
<1>4. CASE Advance(c, "ENTRY_AUTHORIZED", "requesting")
  BY <1>1, <1>2, <1>3, <1>4, AdvanceStep
<1>5. CASE Advance(c, "GATE_OPEN_REQUESTED", "passing")
  BY <1>1, <1>2, <1>3, <1>5, AdvanceStep
<1>6. CASE call' = GoOn(c, "passing") /\ UNCHANGED <<row, paper>>
  BY <1>0, <1>1, <1>2, <1>6, GoOnStep
<1>7. CASE call' = Return(c, "error") /\ UNCHANGED <<row, paper>>
  BY <1>2, <1>7, ReturnOnly DEF Returned
<1> QED
  BY <1>4, <1>5, <1>6, <1>7 DEF RequestOpen

(* mark_vehicle_passed, its two commits. *)
LEMMA PassStep == ASSUME IInv, NEW c \in Calls, Pass(c) PROVE IInv'
<1>0. call[c].pc = "passing" /\ call[c].fresh
  BY DEF Pass, At
<1>1. /\ call[c].pc \in Active /\ call[c].pc \in Past /\ call[c].pc \in AfterOpening
      /\ call[c].pc # "idle"
      /\ "passed" \in Stations /\ "passed" \notin BeforePulse \cup Early \cup {"pulsing", "sensed"}
  BY <1>0 DEF Active, Working, Awaiting, Past, AfterOpening, BeforePulse, Early, Stations
<1>2. /\ Opened /\ row.lifecycle # Absent
      /\ c \notin Retries /\ NeedReceipt(row.kind) => paper = "taken"
  BY <1>1, RowExists DEF IInv, OpeningInv, SlipInv
<1>3. CASE Advance(c, "VEHICLE_PASSED", "passed")
  <2>1. "VEHICLE_PASSED" \in EntryStates
    BY DEF EntryStates
  <2> QED
    BY <1>1, <1>2, <1>3, <2>1, AdvanceStep
<1>4. CASE call' = GoOn(c, "passed") /\ UNCHANGED <<row, paper>>
  BY <1>0, <1>1, <1>2, <1>4, GoOnStep
<1>5. CASE call' = Return(c, "active") /\ UNCHANGED <<row, paper>>
  BY <1>2, <1>5, ReturnOnly DEF Returned
<1> QED
  BY <1>3, <1>4, <1>5 DEF Pass

LEMMA ActivateStep == ASSUME IInv, NEW c \in Calls, Activate(c) PROVE IInv'
<1>0. /\ call[c].pc = "passed" /\ paper' = paper /\ call[c].seen \in Row /\ row \in Row
  BY DEF Activate, At, IInv, TypeOK, Call
<1>1. Opened /\ row.lifecycle # Absent
  BY <1>0, RowExists DEF IInv, OpeningInv, AfterOpening
<1>2. PICK pc \in {"active", "error"} : call' = Return(c, pc)
  BY DEF Activate
<1>3. row' = row \/ row' = Advanced(call[c].seen, "ACTIVE")
  BY DEF Activate
<1>4. "ACTIVE" \in EntryStates /\ "ACTIVE" # Absent
  BY DEF EntryStates, Absent
<1>5. /\ row' \in Row /\ row'.kind = row.kind /\ row'.openCommand = row.openCommand
      /\ row'.job = row.job /\ row'.lifecycle # Absent
  BY <1>0, <1>1, <1>3, <1>4, AdvancedType
<1>6. pc \in Returned
  BY <1>2 DEF Returned
<1> QED
  BY <1>0, <1>1, <1>2, <1>5, <1>6, ReturnStep

LEMMA CrashStep == ASSUME IInv, NEW c \in Calls, Crash(c) PROVE IInv'
<1>1. call[c].pc # "idle" /\ call' = Return(c, "crashed") /\ UNCHANGED <<row, paper>>
  BY StationsOf DEF Crash, Active
<1> QED
  BY <1>1, RowExists, ReturnOnly DEF Returned

(* A refreshed copy is the row. *)
LEMMA RefreshStep == ASSUME IInv, NEW c \in Calls, Refresh(c) PROVE IInv'
<1>0. /\ row' = row /\ paper' = paper /\ row \in Row
      /\ call \in [Calls -> Call] /\ call[c] \in Call
      /\ call' = [call EXCEPT ![c].fresh = TRUE, ![c].seen = row]
  BY DEF Refresh, IInv, TypeOK
<1> DEFINE next == [call[c] EXCEPT !.fresh = TRUE, !.seen = row]
<1>1. /\ next \in Call /\ next.pc = call[c].pc /\ next.seen = row /\ next.pulse = call[c].pulse
  BY <1>0 DEF Call
<1>2. call' = [call EXCEPT ![c] = next]
  BY <1>0 DEF Call
<1> HIDE DEF next
<1>3. /\ call' \in [Calls -> Call]
      /\ call'[c].pc = call[c].pc /\ call'[c].seen = row /\ call'[c].pulse = call[c].pulse
      /\ \A d \in Calls \ {c} : call'[d] = call[d]
  BY <1>0, <1>1, <1>2
<1>4. /\ row.lifecycle \in InOrPast => Opened
      /\ row.job = "TAKEN" => paper = "taken"
      /\ call[c].pc \in AfterOpening => Opened
      /\ call[c].pc = "sensed" => paper = "taken"
  BY DEF IInv, OpeningInv, SlipInv
<1>5. call[c].pc = "pulsing" /\ c \notin Retries => row.openCommand = c
  BY DEF IInv, CommandInv
<1>6. call[c].pc \in Past /\ c \notin Retries /\ NeedReceipt(row.kind) => paper = "taken"
  BY DEF IInv, SlipInv
<1> QED
  BY <1>0, <1>3, <1>4, <1>5, <1>6, CallStep

-----------------------------------------------------------------------------
(* The invariant *)

LEMMA InitInv == Init => IInv
<1> SUFFICES ASSUME Init PROVE IInv
  OBVIOUS
<1>1. PICK kind \in Kinds : row = NewRow(kind)
  BY DEF Init
<1>2. /\ row \in Row /\ NoCopy \in Row /\ row.lifecycle = Absent /\ NoCopy.lifecycle = Absent
      /\ row.job = "QUEUED" /\ paper = "none"
  BY <1>1, NoCopyType DEF Init, NewRow, Kinds
<1>3. \A c \in Calls : call[c] = [pc |-> "idle", seen |-> NoCopy, fresh |-> TRUE, pulse |-> "none"]
  BY DEF Init
<1>4. "idle" \notin Early \cup Active \cup Past \cup AfterOpening \cup {"pulsing", "sensed"}
  BY StationsOf
<1>5. TypeOK
  <2>1. [pc |-> "idle", seen |-> NoCopy, fresh |-> TRUE, pulse |-> "none"] \in Call
    BY <1>2 DEF Call, Stations, Pulses
  <2> QED
    BY <1>2, <2>1 DEF TypeOK, Init
<1>6. CommandInv
  BY <1>3 DEF CommandInv
<1>7. OpeningInv
  BY <1>2, <1>3, <1>4, AbsentApart DEF OpeningInv
<1>8. CreatorInv
  BY <1>2, <1>3, <1>4 DEF CreatorInv
<1>9. SlipInv
  BY <1>2, <1>3, <1>4 DEF SlipInv
<1> QED
  BY <1>5, <1>6, <1>7, <1>8, <1>9 DEF IInv

LEMMA StutterStep == ASSUME IInv, UNCHANGED vars PROVE IInv'
<1>1. row' = row /\ paper' = paper /\ call' = call
  BY DEF vars
<1>2. \A k : NeedReceipt(k)' <=> NeedReceipt(k)
  BY DEF NeedReceipt, ReceiptRequired
<1>3. Opened' <=> Opened
  BY <1>1 DEF Opened
<1>4. TypeOK' /\ CommandInv'
  BY <1>1 DEF IInv, TypeOK, CommandInv
<1>5. OpeningInv'
  BY <1>1, <1>3 DEF IInv, OpeningInv
<1>6. CreatorInv'
  BY <1>1 DEF IInv, CreatorInv
<1>7. SlipInv'
  BY <1>1, <1>2 DEF IInv, SlipInv
<1> QED
  BY <1>4, <1>5, <1>6, <1>7 DEF IInv

LEMMA NextStep == IInv /\ [Next]_vars => IInv'
<1> SUFFICES ASSUME IInv, [Next]_vars PROVE IInv'
  OBVIOUS
<1>1. ASSUME NEW c \in Calls, Handle(c) PROVE IInv'
  <2>1. CASE Submit(c) \/ Identify(c) \/ CreateSession(c) \/ ClaimJob(c) \/ StartPrinting(c)
    BY <2>1, SubmitStep, IdentifyStep, ClaimJobStep, StartPrintingStep
  <2>2. CASE \E ok, out \in BOOLEAN : PrintSlip(c, ok, out)
    BY <2>2, PrintStep
  <2>3. CASE Present(c) \/ Misprint(c) \/ AfterPrint(c)
    BY <2>3, PresentStep, AfterPrintStep
  <2>4. CASE Confirm(c) \/ Retry(c) \/ Leave(c)
    BY <2>4, ConfirmStep
  <2>5. CASE \E taken \in BOOLEAN : Sense(c, taken)
    BY <2>5, SenseStep
  <2>6. CASE MarkTaken(c) \/ Cancel(c) \/ Authorize(c) \/ ClaimCommand(c)
    BY <2>6, MarkTakenStep, CancelStep, AuthorizeStep, ClaimCommandStep
  <2>7. CASE \E result \in Pulses \ {"none"} : Pulse(c, result)
    BY <2>7, PulseStep
  <2>8. CASE RequestOpen(c) \/ Pass(c) \/ Activate(c) \/ Refresh(c)
    BY <2>8, RequestOpenStep, PassStep, ActivateStep, RefreshStep
  <2> QED
    BY <1>1, <2>1, <2>2, <2>3, <2>4, <2>5, <2>6, <2>7, <2>8 DEF Handle
<1> QED
  BY <1>1, CrashStep, TakeSlipStep, StutterStep DEF Next

LEMMA Invariance == Spec => []IInv
BY InitInv, NextStep, PTL DEF Spec

-----------------------------------------------------------------------------
(* Results *)

(* Type correctness: the row, the slip and the calls keep their shapes, and
   a command id in the row is always a call's or empty. *)
THEOREM TypeCorrect == Spec => []TypeOK
<1>1. IInv => TypeOK
  BY DEF IInv
<1> QED
  BY <1>1, Invariance, PTL

(* However many events, confirmations and departures meet, with the
   conditional UPDATE of open_command_uuid at most one of them pulses the
   barrier: submit and confirm_receipt_taken let one vehicle in. *)
THEOREM OnePulse == Spec => []AtMostOnePulse
<1>1. IInv => AtMostOnePulse
  BY DEF IInv, CommandInv, AtMostOnePulse, Pulsed
<1> QED
  BY <1>1, Invariance, PTL

(* Under REQUIRE_TAKEN_BEFORE_OPEN no call pulses the barrier before the
   driver holds the slip, whoever confirms it and in whatever order. *)
THEOREM HeldForReceipt == Spec => []GateHeldForReceipt
<1>1. IInv => GateHeldForReceipt
  BY DEF IInv, SlipInv, GateHeldForReceipt, Pulsed
<1> QED
  BY <1>1, Invariance, PTL

(* The session is never ACTIVE, nor on its way there, without a barrier that
   reported open or a lane that has none, even with copies of the row that
   are long out of date. *)
THEOREM ActiveAfterOpening == Spec => []ActiveOnlyAfterOpening
<1>1. IInv => ActiveOnlyAfterOpening
  BY DEF IInv, OpeningInv, Opened, ActiveOnlyAfterOpening
<1> QED
  BY <1>1, Invariance, PTL

-----------------------------------------------------------------------------
(* One process: calls take turns *)

SingleProcess == \A c, d \in Calls : ProcessOf[c] = ProcessOf[d]

(* Until the printer's answer has been stored. *)
Printing == Early \cup {"answered", "jammed"}
Shown == {"PRESENTED", "TAKEN"}
Pulsing == {"pulsing"} \cup AfterOpening

(* The process is between two awaits of the call. *)
Busy(c) == call[c].pc \in Working \/ ~call[c].fresh

(* The lifecycle that the call goes on with. *)
View(c) == IF call[c].fresh THEN call[c].seen.lifecycle ELSE row.lifecycle

(* The lifecycles a barrier may be opened from, and those that follow. *)
Ready(kind) ==
  IF NeedReceipt(kind) THEN {"RECEIPT_TAKEN"}
  ELSE {"SESSION_CREATED", "RECEIPT_PRINTING", "RECEIPT_PRESENTED"}
Expected(pc, kind) ==
  CASE pc \in {"pulsing", "pulsed"} -> Ready(kind)
    [] pc = "requesting" -> {"ENTRY_AUTHORIZED"}
    [] pc = "passing" -> {"GATE_OPEN_REQUESTED"}
    [] pc = "passed" -> {"VEHICLE_PASSED"}

TurnInv == \A c, d \in Calls : Busy(c) /\ Busy(d) => c = d

(* Before there is a session nothing was printed. *)
StartInv ==
  row.lifecycle = Absent => row.job = "QUEUED" /\ \A c \in Calls : call[c].seen.job = "QUEUED"

(* Once somebody saw the slip presented, nobody is printing it. *)
PrintInv ==
  /\ \A c, d \in Calls : call[c].pc \in Printing /\ call[d].pc \in Printing => c = d
  /\ row.job \in Shown \/ (\E c \in Calls : call[c].seen.job \in Shown)
       => \A d \in Calls : call[d].pc \notin Printing

(* Where a receipt is due, job and lifecycle go together until the gate is
   commanded. *)
JobInv ==
  NeedReceipt(row.kind) =>
    /\ row.job = "TAKEN" /\ row.openCommand = NoOne => row.lifecycle = "RECEIPT_TAKEN"
    /\ row.job = "PRESENTED" => row.lifecycle = "RECEIPT_PRESENTED"

(* Where none is due, the creator is alone. *)
AloneInv ==
  ~NeedReceipt(row.kind) =>
    \A c, d \in Calls : call[c].pc \in Active /\ call[d].pc \in Active => c = d

(* What a call relies on. *)
GateGood(c) ==
  call[c].pc \in Pulsing =>
    row.openCommand = c /\ View(c) \in Expected(call[c].pc, row.kind)
TakenGood(c) ==
  NeedReceipt(row.kind) =>
    /\ call[c].pc \in Past => row.job = "TAKEN"
    /\ call[c].seen.job = "PRESENTED" => call[c].seen.lifecycle = "RECEIPT_PRESENTED"
AloneGood(c) ==
  ~NeedReceipt(row.kind) =>
    /\ call[c].pc \notin {"sensing", "sensed"}
    /\ call[c].pc \in {"created", "claimed"} => row.lifecycle = "SESSION_CREATED"
    /\ call[c].pc \in {"printing", "answered", "jammed", "printed", "misprinted",
                       "authorizing", "commanded"} => row.lifecycle \in Ready(row.kind)
CallGood(c) ==
  /\ GateGood(c) /\ TakenGood(c) /\ AloneGood(c)
  /\ call[c].pc # "leaving"
  /\ call[c].pulse = "opened" => call[c].pc # "error"

ScheduleInv ==
  /\ TurnInv /\ StartInv /\ PrintInv /\ JobInv /\ AloneInv
  /\ \A c \in Calls : CallGood(c)

LEMMA KindsOfCalls ==
  /\ Printing \subseteq Active /\ Early \subseteq Printing /\ Pulsing \subseteq Past
  /\ Printing \cap Past = {} /\ Past \subseteq Active /\ Working \subseteq Active
  /\ "idle" \notin Active /\ Returned \cap Active = {} /\ "error" \notin Active
  /\ "idle" \notin Returned /\ "leaving" \notin Returned \cup Past \cup Printing
BY DEF Printing, Pulsing, Early, Past, AfterOpening, Active, Working, Awaiting, Returned

LEMMA TakingTurns ==
  ASSUME SingleProcess, NEW c \in Calls, MayRun(c), NEW d \in Calls \ {c}
  PROVE  ~Busy(d)
BY DEF SingleProcess, MayRun, Busy

(* What is enough of a step of call c. *)
LEMMA TurnStep ==
  ASSUME SingleProcess, IInv, ScheduleInv, NEW c \in Calls,
         \A d \in Calls \ {c} : call'[d] = call[d],
         row'.kind = row.kind,
         Busy(c)' => Busy(c) \/ MayRun(c),
         row' # row => MayRun(c) /\ (call[c].pc \in Active \/ row.lifecycle = Absent),
         row'.lifecycle = Absent =>
           row.lifecycle = Absent /\ row'.job = "QUEUED" /\ call'[c].seen.job = "QUEUED",
         row'.openCommand = row.openCommand \/ row.openCommand = NoOne,
         row.job = "TAKEN" => row'.job = "TAKEN",
         call'[c].pc \in Printing => call[c].pc \in Printing \/ row.lifecycle = Absent,
         row'.job \in Shown \/ call'[c].seen.job \in Shown =>
           /\ call'[c].pc \notin Printing
           /\ \/ row.job \in Shown \/ call[c].seen.job \in Shown
              \/ call[c].pc \in Printing,
         ~NeedReceipt(row.kind) /\ call'[c].pc \in Active =>
           call[c].pc \in Active \/ row.lifecycle = Absent,
         JobInv', CallGood(c)'
  PROVE  ScheduleInv'
<1>0. \A k : NeedReceipt(k)' <=> NeedReceipt(k)
  BY DEF NeedReceipt
<1>1. TurnInv'
  <2> SUFFICES ASSUME NEW d \in Calls \ {c}, Busy(c)', Busy(d)' PROVE FALSE
    BY DEF ScheduleInv, TurnInv, Busy
  <2>1. Busy(d)
    BY DEF Busy
  <2> QED BY <2>1, TakingTurns DEF ScheduleInv, TurnInv
<1>2. StartInv'
  BY DEF ScheduleInv, StartInv
<1>3. row.lifecycle = Absent => \A d \in Calls : call[d].pc \notin Active \cup Printing
  BY KindsOfCalls DEF IInv, CreatorInv
<1>4. PrintInv'
  <2>1. ASSUME NEW d \in Calls, NEW e \in Calls, d # e,
               call'[d].pc \in Printing, call'[e].pc \in Printing
        PROVE  FALSE
    BY <1>3, <2>1 DEF ScheduleInv, PrintInv
  <2>2. ASSUME NEW d \in Calls, call'[d].pc \in Printing,
               row'.job \in Shown \/ \E e \in Calls : call'[e].seen.job \in Shown
        PROVE  FALSE
    <3>1. CASE row'.job \in Shown \/ call'[c].seen.job \in Shown
      BY <2>2, <3>1 DEF ScheduleInv, PrintInv
    <3>2. CASE \E e \in Calls \ {c} : call'[e].seen.job \in Shown
      <4>1. PICK e \in Calls \ {c} : call[e].seen.job \in Shown
        BY <3>2
      <4>2. row.lifecycle # Absent
        BY <4>1 DEF ScheduleInv, StartInv, Shown
      <4> QED BY <2>2, <4>1, <4>2 DEF ScheduleInv, PrintInv
    <3> QED BY <2>2, <3>1, <3>2
  <2> QED BY <2>1, <2>2 DEF PrintInv
<1>5. AloneInv'
  BY <1>0, <1>3 DEF ScheduleInv, AloneInv
<1>6. ASSUME NEW d \in Calls \ {c} PROVE CallGood(d)'
  <2>1. call'[d] = call[d] /\ CallGood(d)
    BY DEF ScheduleInv
  <2>2. row' # row => call[d].fresh /\ call[d].pc \notin Working
    BY TakingTurns DEF Busy
  <2>3. GateGood(d)'
    <3>1. \A pc, k : Expected(pc, k)' = Expected(pc, k)
      BY <1>0, Zenon DEF Expected, Ready
    <3>2. View(d)' = View(d)
      BY <2>1, <2>2 DEF View
    <3>3. row.openCommand = d => row'.openCommand = d
      BY CallsAssumption
    <3> QED BY <2>1, <3>1, <3>2, <3>3 DEF GateGood, CallGood
  <2>4. TakenGood(d)'
    BY <1>0, <2>1 DEF TakenGood, CallGood
  <2>5. AloneGood(d)'
    <3>1. \A k : Ready(k)' = Ready(k)
      BY <1>0, Zenon DEF Ready
    <3>2. CASE row' = row
      BY <1>0, <2>1, <3>1, <3>2 DEF AloneGood, CallGood
    <3>3. CASE row' # row /\ ~NeedReceipt(row.kind)
      <4>1. call[d].pc \notin Active
        BY <1>3, <3>3 DEF ScheduleInv, AloneInv
      <4> QED BY <2>1, <4>1 DEF AloneGood, Active, Working, Awaiting
    <3> QED BY <1>0, <3>2, <3>3 DEF AloneGood
  <2> QED BY <2>1, <2>3, <2>4, <2>5 DEF CallGood
<1> QED BY <1>1, <1>2, <1>4, <1>5, <1>6 DEF ScheduleInv

-----------------------------------------------------------------------------
(* The shapes of a turn *)

LEMMA SameReceipts ==
  ASSUME TRUE
  PROVE  /\ \A k : NeedReceipt(k)' <=> NeedReceipt(k)
         /\ \A k : Ready(k)' = Ready(k)
         /\ \A pc, k : Expected(pc, k)' = Expected(pc, k)
<1>1. \A k : NeedReceipt(k)' <=> NeedReceipt(k)
  BY DEF NeedReceipt
<1>2. \A k : Ready(k)' = Ready(k)
  BY <1>1, Zenon DEF Ready
<1> QED BY <1>1, <1>2, Zenon DEF Expected

(* Nothing has been shown to a call that prints. *)
LEMMA NotShown ==
  ASSUME ScheduleInv, NEW c \in Calls, call[c].pc \in Printing
  PROVE  row.job \notin Shown /\ \A d \in Calls : call[d].seen.job \notin Shown
BY DEF ScheduleInv, PrintInv

(* A call that returns. *)
LEMMA ReturnTurn ==
  ASSUME SingleProcess, IInv, ScheduleInv, NEW c \in Calls, NEW pc \in Returned,
         call' = Return(c, pc), row' = row, row.lifecycle # Absent,
         pc = "error" => call[c].pulse # "opened"
  PROVE  ScheduleInv'
<1>1. call \in [Calls -> Call] /\ pc \in Stations /\ call[c] \in Call
  BY StationsOf DEF IInv, TypeOK
<1>2. /\ call'[c] = [call[c] EXCEPT !.pc = pc, !.seen = NoCopy, !.fresh = TRUE]
      /\ \A d \in Calls \ {c} : call'[d] = call[d]
  <2>1. /\ Return(c, pc)[c] = [call[c] EXCEPT !.pc = pc, !.seen = NoCopy, !.fresh = TRUE]
        /\ \A d \in Calls \ {c} : Return(c, pc)[d] = call[d]
    BY <1>1, ReturnType
  <2> QED BY <2>1
<1>3. /\ call'[c].pc = pc /\ call'[c].seen = NoCopy /\ call'[c].fresh
      /\ call'[c].pulse = call[c].pulse
  BY <1>1, <1>2 DEF Call
<1>4. pc \notin Active /\ pc \notin Printing \cup Past \cup Pulsing \cup Working /\ pc # "leaving"
  BY KindsOfCalls
<1>5. NoCopy.job = "QUEUED" /\ "QUEUED" \notin Shown
  BY DEF NoCopy, NewRow, Shown
<1>6. JobInv'
  BY SameReceipts DEF ScheduleInv, JobInv
<1>7. CallGood(c)'
  BY <1>3, <1>4, <1>5, KindsOfCalls
  DEF CallGood, GateGood, TakenGood, AloneGood, Active, Working, Awaiting
<1>8. ~Busy(c)'
  BY <1>3, <1>4 DEF Busy
<1> QED BY <1>2, <1>3, <1>4, <1>5, <1>6, <1>7, <1>8, TurnStep

(* What a call may rely on at pc, when the row is r. *)
RowFits(c, pc, r, view) ==
  /\ pc \in Pulsing => r.openCommand = c /\ view \in Expected(pc, r.kind)
  /\ NeedReceipt(r.kind) /\ pc \in Past => r.job = "TAKEN"
  /\ ~NeedReceipt(r.kind) =>
       /\ pc \notin {"sensing", "sensed"}
       /\ pc \in {"created", "claimed"} => r.lifecycle = "SESSION_CREATED"
       /\ pc \in {"printing", "answered", "jammed", "printed", "misprinted",
                  "authorizing", "commanded"} => r.lifecycle \in Ready(r.kind)

LEMMA FitsIsGood ==
  ASSUME NEW c \in Calls, CallGood(c), row'.kind = row.kind,
         call'[c].seen = call[c].seen, call'[c].pc \in Active \ {"leaving"},
         RowFits(c, call'[c].pc, row', View(c)')
  PROVE  CallGood(c)'
<1>1. \A k : /\ NeedReceipt(k)' <=> NeedReceipt(k)
             /\ Ready(k)' = Ready(k)
             /\ \A pc : Expected(pc, k)' = Expected(pc, k)
  BY SameReceipts
<1>2. GateGood(c)'
  BY <1>1 DEF RowFits, GateGood
<1>3. TakenGood(c)'
  BY <1>1 DEF RowFits, CallGood, TakenGood
<1>4. AloneGood(c)'
  BY <1>1 DEF RowFits, AloneGood
<1> QED BY <1>2, <1>3, <1>4, KindsOfCalls DEF CallGood

(* A call that goes on without storing anything. *)
LEMMA GoOnTurn ==
  ASSUME SingleProcess, IInv, ScheduleInv, NEW c \in Calls, NEW pc \in Active \ {"leaving"},
         call' = GoOn(c, pc), row' = row,
         call[c].pc \in Active, call[c].fresh,
         call[c].pc \in Working \/ pc \notin Working \/ MayRun(c),
         pc \in Printing => call[c].pc \in Printing,
         RowFits(c, pc, row, call[c].seen.lifecycle)
  PROVE  ScheduleInv'
<1>1. call \in [Calls -> Call] /\ pc \in Stations /\ call[c] \in Call
  BY StationsOf DEF IInv, TypeOK
<1>2. /\ call'[c] = [call[c] EXCEPT !.pc = pc]
      /\ \A d \in Calls \ {c} : call'[d] = call[d]
  BY <1>1, GoOnType
<1>3. /\ call'[c].pc = pc /\ call'[c].seen = call[c].seen /\ call'[c].fresh
      /\ call'[c].pulse = call[c].pulse
  BY <1>1, <1>2 DEF Call
<1>4. View(c)' = call[c].seen.lifecycle
  BY <1>3 DEF View
<1>5. CallGood(c)'
  BY <1>3, <1>4, FitsIsGood DEF ScheduleInv
<1>6. JobInv'
  BY SameReceipts DEF ScheduleInv, JobInv
<1>7. row.lifecycle # Absent
  BY RowExists, KindsOfCalls
<1>8. call'[c].seen.job \in Shown \/ row.job \in Shown => pc \notin Printing
  BY <1>3, NotShown
<1>9. Busy(c)' => Busy(c) \/ MayRun(c)
  BY <1>3 DEF Busy
<1> QED BY <1>2, <1>3, <1>5, <1>6, <1>7, <1>8, <1>9, TurnStep

(* A call that commits. *)
LEMMA CommitTurn ==
  ASSUME SingleProcess, IInv, ScheduleInv, NEW c \in Calls, NEW pc \in Active \ {"leaving"},
         call' = Committed(c, pc), MayRun(c), call[c].pc \in Active,
         row'.kind = row.kind, row'.lifecycle # Absent,
         row'.openCommand = row.openCommand \/ row.openCommand = NoOne,
         row.job = "TAKEN" => row'.job = "TAKEN",
         pc \in Printing => call[c].pc \in Printing,
         row'.job \in Shown =>
           /\ pc \notin Printing
           /\ row.job \in Shown \/ call[c].seen.job \in Shown \/ call[c].pc \in Printing,
         JobInv', RowFits(c, pc, row', row'.lifecycle)
  PROVE  ScheduleInv'
<1>1. call \in [Calls -> Call] /\ pc \in Stations /\ call[c] \in Call
  BY StationsOf DEF IInv, TypeOK
<1>2. /\ call'[c] = [call[c] EXCEPT !.pc = pc, !.fresh = FALSE]
      /\ \A d \in Calls \ {c} : call'[d] = call[d]
  BY <1>1, CommittedType
<1>3. /\ call'[c].pc = pc /\ call'[c].seen = call[c].seen /\ ~call'[c].fresh
      /\ call'[c].pulse = call[c].pulse
  BY <1>1, <1>2 DEF Call
<1>4. View(c)' = row'.lifecycle
  BY <1>3 DEF View
<1>5. CallGood(c)'
  BY <1>3, <1>4, FitsIsGood DEF ScheduleInv
<1>6. call'[c].seen.job \in Shown => pc \notin Printing /\ call[c].seen.job \in Shown
  BY <1>3, NotShown
<1> QED BY <1>2, <1>3, <1>5, <1>6, TurnStep

(* advance(): the lifecycle moves, the job and the command stay. *)
LEMMA AdvanceTurn ==
  ASSUME SingleProcess, IInv, ScheduleInv, NEW c \in Calls, NEW pc \in Active \ {"leaving"},
         NEW target \in EntryStates, Advance(c, target, pc), MayRun(c), call[c].pc \in Active,
         pc \in Printing => call[c].pc \in Printing,
         NeedReceipt(row.kind) /\ row.job \in Shown =>
           row.job = "TAKEN" /\ row.openCommand # NoOne,
         RowFits(c, pc, [row EXCEPT !.lifecycle = target], target)
  PROVE  ScheduleInv'
<1>1. row \in Row /\ call[c].seen \in Row
  BY DEF IInv, TypeOK, Call
<1>2. /\ row' = Advanced(call[c].seen, target)
      /\ call' = Committed(c, pc)
  BY DEF Advance
<1>3. /\ row'.lifecycle = target /\ row'.kind = row.kind
      /\ row'.job = row.job /\ row'.openCommand = row.openCommand
  BY <1>1, <1>2, AdvancedType
<1>4. RowFits(c, pc, row', row'.lifecycle)
  <2>1. /\ [row EXCEPT !.lifecycle = target].kind = row'.kind
        /\ [row EXCEPT !.lifecycle = target].job = row'.job
        /\ [row EXCEPT !.lifecycle = target].openCommand = row'.openCommand
        /\ [row EXCEPT !.lifecycle = target].lifecycle = row'.lifecycle
    BY <1>1, <1>3 DEF Row
  <2> QED BY <1>3, <2>1 DEF RowFits
<1>5. JobInv'
  BY <1>3, SameReceipts DEF JobInv, Shown
<1>6. row'.lifecycle # Absent
  BY <1>3, AbsentApart
<1>7. row.job \in Shown => pc \notin Printing
  BY NotShown
<1> QED BY <1>2, <1>3, <1>4, <1>5, <1>6, <1>7, CommitTurn

-----------------------------------------------------------------------------
(* The turns of one visit *)

LEMMA SubmitTurn ==
  ASSUME SingleProcess, IInv, ScheduleInv, NEW c \in Calls, Submit(c)
  PROVE  ScheduleInv'
<1>1. /\ call \in [Calls -> Call] /\ row \in Row /\ call[c] \in Call
      /\ At(c, "idle") /\ MayRun(c) /\ call[c].pc = "idle"
  BY DEF Submit, At, IInv, TypeOK
<1>2. CASE row.lifecycle # Absent
  <2>1. call' = Return(c, "duplicate") /\ row' = row
    BY <1>2 DEF Submit
  <2> QED BY <1>2, <2>1, ReturnTurn DEF Returned
<1>3. CASE row.lifecycle = Absent
  <2>1. /\ row' = [row EXCEPT !.lifecycle = "VEHICLE_DETECTED",
                              !.status = IF StoredAsWaiting(Policy, row.kind)
                                         THEN "WAITING_RECEIPT" ELSE "ACTIVE"]
        /\ call' = Committed(c, "detected")
    BY <1>3 DEF Submit
  <2>2. /\ row'.lifecycle = "VEHICLE_DETECTED" /\ row'.kind = row.kind
        /\ row'.job = row.job /\ row'.openCommand = row.openCommand
    BY <1>1, <2>1 DEF Row
  <2>3. /\ call'[c] = [call[c] EXCEPT !.pc = "detected", !.fresh = FALSE]
        /\ \A d \in Calls \ {c} : call'[d] = call[d]
    <3>1. "detected" \in Stations
      BY DEF Stations, Working
    <3> QED BY <1>1, <2>1, <3>1, CommittedType
  <2>4. /\ call'[c].pc = "detected" /\ call'[c].seen = call[c].seen
        /\ call'[c].pulse = call[c].pulse
    BY <1>1, <2>3 DEF Call
  <2>5. row.job = "QUEUED" /\ call[c].seen.job = "QUEUED"
    BY <1>3 DEF ScheduleInv, StartInv
  <2>6. JobInv'
    BY <2>2, <2>5 DEF JobInv
  <2>7. "detected" \in Active \ {"leaving"} /\ "detected" \notin Past \cup Pulsing
    BY DEF Active, Working, Past, Pulsing, AfterOpening
  <2>8. RowFits(c, "detected", row', View(c)')
    BY <2>7 DEF RowFits
  <2>9. CallGood(c)'
    BY <2>2, <2>4, <2>7, <2>8, FitsIsGood DEF ScheduleInv
  <2>10. row'.lifecycle # Absent
    BY <2>2 DEF Absent
  <2>11. row'.job \notin Shown /\ call'[c].seen.job \notin Shown
    BY <2>2, <2>4, <2>5 DEF Shown
  <2> QED BY <1>1, <1>3, <2>2, <2>3, <2>5, <2>6, <2>9, <2>10, <2>11, TurnStep
<1> QED BY <1>2, <1>3

LEMMA IdentifyTurn ==
  ASSUME SingleProcess, IInv, ScheduleInv, NEW c \in Calls,
         Identify(c) \/ CreateSession(c)
  PROVE  ScheduleInv'
<1>1. /\ {"detected", "identified"} \subseteq Printing \cap Active
      /\ {"identified", "created"} \subseteq (Printing \cap Active) \ {"leaving"}
      /\ {"identified", "created"} \cap (Past \cup Pulsing) = {}
      /\ {"IDENTITY_RESOLVED", "SESSION_CREATED"} \subseteq EntryStates
  BY DEF Printing, Early, Active, Working, Past, Pulsing, AfterOpening, EntryStates
<1>2. row \in Row
  BY DEF IInv, TypeOK
<1>3. CASE Identify(c)
  <2>1. Advance(c, "IDENTITY_RESOLVED", "identified") /\ call[c].pc = "detected" /\ MayRun(c)
    BY <1>3 DEF Identify, At
  <2>2. RowFits(c, "identified", [row EXCEPT !.lifecycle = "IDENTITY_RESOLVED"], "IDENTITY_RESOLVED")
    BY <1>1 DEF RowFits
  <2>3. row.job \notin Shown
    BY <1>1, <2>1, NotShown
  <2> QED BY <1>1, <2>1, <2>2, <2>3, AdvanceTurn
<1>4. CASE CreateSession(c)
  <2>1. Advance(c, "SESSION_CREATED", "created") /\ call[c].pc = "identified" /\ MayRun(c)
    BY <1>4 DEF CreateSession, At
  <2>2. RowFits(c, "created", [row EXCEPT !.lifecycle = "SESSION_CREATED"], "SESSION_CREATED")
    BY <1>1, <1>2 DEF RowFits, Row
  <2>3. row.job \notin Shown
    BY <1>1, <2>1, NotShown
  <2> QED BY <1>1, <2>1, <2>2, <2>3, AdvanceTurn
<1> QED BY <1>3, <1>4

LEMMA ClaimJobTurn ==
  ASSUME SingleProcess, IInv, ScheduleInv, NEW c \in Calls, ClaimJob(c)
  PROVE  ScheduleInv'
<1>1. /\ {"created", "claimed"} \subseteq Printing
      /\ {"created", "claimed", "authorizing"} \subseteq Active \ {"leaving"}
      /\ "claimed" \notin Past \cup Pulsing /\ "authorizing" \notin Pulsing \cup Printing
      /\ {"created", "claimed", "authorizing"} \subseteq Working
  BY DEF Printing, Early, Active, Working, Past, Pulsing, AfterOpening
<1>2. /\ row \in Row /\ call[c].pc = "created" /\ call[c].fresh /\ MayRun(c)
      /\ row.lifecycle # Absent /\ call[c].seen.kind = row.kind
  BY <1>1, RowExists DEF ClaimJob, At, IInv, TypeOK, SlipInv
<1>3. row.job \notin Shown
  BY <1>1, <1>2, NotShown
<1>4. ~NeedReceipt(row.kind) => row.lifecycle = "SESSION_CREATED"
  BY <1>2 DEF ScheduleInv, CallGood, AloneGood
<1>5. CASE row' = [row EXCEPT !.job = "PRINTING"] /\ call' = Committed(c, "claimed")
  <2>1. /\ row'.lifecycle = row.lifecycle /\ row'.kind = row.kind
        /\ row'.job = "PRINTING" /\ row'.openCommand = row.openCommand
    BY <1>2, <1>5 DEF Row
  <2>2. JobInv'
    BY <2>1 DEF JobInv
  <2>3. RowFits(c, "claimed", row', row'.lifecycle)
    BY <1>1, <1>4, <2>1 DEF RowFits
  <2>4. row.job # "TAKEN" /\ row'.job \notin Shown
    BY <1>3, <2>1 DEF Shown
  <2> QED BY <1>1, <1>2, <1>5, <2>1, <2>2, <2>3, <2>4, CommitTurn
<1>6. CASE FALSE \in MayPrint(call[c].seen.kind) /\ call' = GoOn(c, "authorizing") /\ row' = row
  <2>1. ~NeedReceipt(row.kind)
    BY <1>2, <1>6, NoPrintNoReceipt
  <2>2. RowFits(c, "authorizing", row, call[c].seen.lifecycle)
    BY <1>1, <1>4, <2>1 DEF RowFits, Ready
  <2> QED BY <1>1, <1>2, <1>6, <2>2, GoOnTurn
<1> QED BY <1>5, <1>6 DEF ClaimJob

LEMMA StartPrintingTurn ==
  ASSUME SingleProcess, IInv, ScheduleInv, NEW c \in Calls, StartPrinting(c)
  PROVE  ScheduleInv'
<1>1. /\ {"claimed", "printing"} \subseteq Printing
      /\ {"claimed", "printing"} \subseteq Active \ {"leaving"}
      /\ "printing" \notin Past \cup Pulsing /\ "claimed" \in Working
      /\ "RECEIPT_PRINTING" \in EntryStates
  BY DEF Printing, Early, Active, Working, Awaiting, Past, Pulsing, AfterOpening, EntryStates
<1>2. row \in Row /\ call[c].pc = "claimed" /\ call[c].fresh /\ MayRun(c)
  BY DEF StartPrinting, At, IInv, TypeOK
<1>3. row.job \notin Shown
  BY <1>1, <1>2, NotShown
<1>4. CASE Advance(c, "RECEIPT_PRINTING", "printing")
  <2>1. RowFits(c, "printing", [row EXCEPT !.lifecycle = "RECEIPT_PRINTING"], "RECEIPT_PRINTING")
    BY <1>1, <1>2 DEF RowFits, Ready, Row
  <2> QED BY <1>1, <1>2, <1>3, <1>4, <2>1, AdvanceTurn
<1>5. CASE call' = GoOn(c, "printing") /\ row' = row
  <2>1. ~NeedReceipt(row.kind) => row.lifecycle = "SESSION_CREATED"
    BY <1>2 DEF ScheduleInv, CallGood, AloneGood
  <2>2. RowFits(c, "printing", row, call[c].seen.lifecycle)
    BY <1>1, <2>1 DEF RowFits, Ready
  <2> QED BY <1>1, <1>2, <1>5, <2>2, GoOnTurn
<1> QED BY <1>4, <1>5 DEF StartPrinting

LEMMA PrintTurn ==
  ASSUME SingleProcess, IInv, ScheduleInv, NEW c \in Calls, NEW ok \in BOOLEAN, NEW out \in BOOLEAN,
         PrintSlip(c, ok, out)
  PROVE  ScheduleInv'
<1> DEFINE pc == IF ok THEN "answered" ELSE "jammed"
<1>1. /\ {"printing", "answered", "jammed"} \subseteq Printing
      /\ {"printing", "answered", "jammed"} \subseteq Active \ {"leaving"}
      /\ {"answered", "jammed"} \cap (Past \cup Pulsing \cup Working) = {}
  BY DEF Printing, Early, Active, Working, Awaiting, Past, Pulsing, AfterOpening
<1>2. /\ call[c].pc = "printing" /\ call[c].fresh /\ call' = GoOn(c, pc) /\ row' = row
      /\ pc \in {"answered", "jammed"}
  BY DEF PrintSlip
<1> HIDE DEF pc
<1>3. ~NeedReceipt(row.kind) => row.lifecycle \in Ready(row.kind)
  BY <1>2 DEF ScheduleInv, CallGood, AloneGood
<1>4. RowFits(c, pc, row, call[c].seen.lifecycle)
  BY <1>1, <1>2, <1>3 DEF RowFits
<1> QED BY <1>1, <1>2, <1>4, GoOnTurn

LEMMA PresentTurn ==
  ASSUME SingleProcess, IInv, ScheduleInv, NEW c \in Calls, Present(c) \/ Misprint(c)
  PROVE  ScheduleInv'
<1>1. /\ {"answered", "jammed"} \subseteq Printing \cap Active \cap BeforePulse
      /\ {"printed", "misprinted"} \subseteq Active \ {"leaving"}
      /\ {"printed", "misprinted"} \cap (Past \cup Pulsing \cup Printing) = {}
      /\ "RECEIPT_PRESENTED" \in EntryStates
  BY DEF Printing, Early, Active, Working, Awaiting, Past, Pulsing, AfterOpening, BeforePulse,
         EntryStates
<1>2. /\ row \in Row /\ call[c].seen \in Row /\ call[c].pc \in {"answered", "jammed"}
      /\ MayRun(c) /\ row.lifecycle # Absent /\ call[c].pulse = "none"
  BY <1>1, RowExists DEF Present, Misprint, At, IInv, TypeOK, Call, CommandInv, CreatorInv
<1>3. row.job \notin Shown
  BY <1>1, <1>2, NotShown
<1>4. CASE Misprint(c)
  <2>1. /\ row' = [row EXCEPT !.job = "ASSISTANCE"] /\ call' = Committed(c, "misprinted")
        /\ call[c].pc = "jammed"
    BY <1>4 DEF Misprint, At
  <2>2. /\ row'.lifecycle = row.lifecycle /\ row'.kind = row.kind
        /\ row'.job = "ASSISTANCE" /\ row'.openCommand = row.openCommand
    BY <1>2, <2>1 DEF Row
  <2>3. JobInv'
    BY <2>2 DEF JobInv
  <2>4. ~NeedReceipt(row.kind) => row.lifecycle \in Ready(row.kind)
    BY <2>1 DEF ScheduleInv, CallGood, AloneGood
  <2>5. RowFits(c, "misprinted", row', row'.lifecycle)
    BY <1>1, <2>2, <2>4 DEF RowFits
  <2>6. row.job # "TAKEN" /\ row'.job \notin Shown
    BY <1>3, <2>2 DEF Shown
  <2> QED BY <1>1, <1>2, <2>1, <2>2, <2>3, <2>5, <2>6, CommitTurn
<1>5. CASE /\ row' = [Advanced(call[c].seen, "RECEIPT_PRESENTED") EXCEPT !.job = "PRESENTED"]
           /\ call' = Committed(c, "printed")
  <2>1. /\ row'.lifecycle = "RECEIPT_PRESENTED" /\ row'.kind = row.kind
        /\ row'.job = "PRESENTED" /\ row'.openCommand = row.openCommand
    BY <1>1, <1>2, <1>5, AdvancedType DEF Row
  <2>2. JobInv'
    BY <2>1 DEF JobInv
  <2>3. RowFits(c, "printed", row', row'.lifecycle)
    BY <1>1, <2>1 DEF RowFits, Ready
  <2>4. row.job # "TAKEN" /\ row'.lifecycle # Absent
    BY <1>3, <2>1 DEF Shown, Absent
  <2> QED BY <1>1, <1>2, <1>5, <2>1, <2>2, <2>3, <2>4, CommitTurn
<1>6. CASE call' = Return(c, "error") /\ row' = row
  BY <1>2, <1>6, ReturnTurn DEF Returned
<1> QED BY <1>4, <1>5, <1>6 DEF Present

LEMMA AfterPrintTurn ==
  ASSUME SingleProcess, IInv, ScheduleInv, NEW c \in Calls, AfterPrint(c)
  PROVE  ScheduleInv'
<1>1. /\ {"printed", "misprinted", "authorizing"} \subseteq Active \ {"leaving"}
      /\ {"printed", "misprinted"} \subseteq Working /\ "authorizing" \notin Pulsing \cup Printing
  BY DEF Printing, Early, Active, Working, Pulsing, AfterOpening
<1>2. /\ call[c].pc \in {"printed", "misprinted"} /\ call[c].fresh /\ row' = row
      /\ row.lifecycle # Absent /\ call[c].seen.kind = row.kind
  BY <1>1, RowExists DEF AfterPrint, At, IInv, SlipInv
<1>3. CASE NeedReceipt(call[c].seen.kind)
  <2>1. \E pc \in {"waiting_receipt", "printer_failed"} : call' = Return(c, pc)
    BY <1>3 DEF AfterPrint
  <2> QED BY <1>2, <2>1, ReturnTurn DEF Returned
<1>4. CASE ~NeedReceipt(call[c].seen.kind)
  <2>1. call' = GoOn(c, "authorizing")
    BY <1>4 DEF AfterPrint
  <2>2. row.lifecycle \in Ready(row.kind)
    BY <1>2, <1>4 DEF ScheduleInv, CallGood, AloneGood
  <2>3. RowFits(c, "authorizing", row, call[c].seen.lifecycle)
    BY <1>1, <1>2, <1>4, <2>2 DEF RowFits
  <2> QED BY <1>1, <1>2, <2>1, <2>3, GoOnTurn
<1> QED BY <1>3, <1>4

LEMMA ConfirmTurn ==
  ASSUME SingleProcess, IInv, ScheduleInv, NEW c \in Calls, Confirm(c), NeedReceipt(row.kind)
  PROVE  ScheduleInv'
<1>0. call \in [Calls -> Call] /\ row \in Row /\ call[c] \in Call
  BY DEF IInv, TypeOK
<1>1. /\ row' = row /\ row.lifecycle # Absent /\ MayRun(c) /\ call[c].pc = "idle"
      /\ call' = [call EXCEPT ![c].seen = row,
                              ![c].pc = IF row.job = "TAKEN" THEN "authorizing" ELSE "sensing",
                              ![c].fresh = row.job # "TAKEN"]
  BY DEF Confirm, At
<1>2. /\ call'[c].seen = row /\ call'[c].pulse = call[c].pulse
      /\ call'[c].pc = IF row.job = "TAKEN" THEN "authorizing" ELSE "sensing"
      /\ \A d \in Calls \ {c} : call'[d] = call[d]
  BY <1>0, <1>1 DEF Call
<1>3. /\ {"authorizing", "sensing"} \cap (Pulsing \cup Printing) = {}
      /\ "sensing" \notin Past
  BY DEF Printing, Early, Pulsing, AfterOpening, Past
<1>4. /\ call'[c].pc \in {"authorizing", "sensing"}
      /\ call'[c].pc = "authorizing" => row.job = "TAKEN"
  BY <1>2
<1>5. NeedReceipt(row.kind)'
  BY <1>1, SameReceipts
<1>6. row.job = "PRESENTED" => row.lifecycle = "RECEIPT_PRESENTED"
  BY DEF ScheduleInv, JobInv
<1>7. CallGood(c)'
  <2>1. TakenGood(c)'
    BY <1>1, <1>2, <1>3, <1>4, <1>6 DEF TakenGood
  <2> QED BY <1>1, <1>3, <1>4, <1>5, <2>1 DEF CallGood, GateGood, AloneGood
<1>8. JobInv'
  BY <1>1, SameReceipts DEF ScheduleInv, JobInv
<1>9. call'[c].pc \notin Printing
  BY <1>3, <1>4
<1> QED BY <1>1, <1>2, <1>7, <1>8, <1>9, TurnStep

LEMMA SenseTurn ==
  ASSUME SingleProcess, IInv, ScheduleInv, NEW c \in Calls, NEW taken \in BOOLEAN, Sense(c, taken)
  PROVE  ScheduleInv'
<1>1. /\ "sensing" \in Active /\ "sensed" \in Active \ {"leaving"}
      /\ "sensed" \notin Past \cup Pulsing \cup Printing \cup Working
  BY DEF Printing, Early, Active, Working, Awaiting, Past, Pulsing, AfterOpening
<1>2. /\ call[c].pc = "sensing" /\ call[c].fresh /\ row' = row /\ row.lifecycle # Absent
      /\ NeedReceipt(row.kind)
  BY <1>1, RowExists DEF Sense, ScheduleInv, CallGood, AloneGood
<1>3. CASE call' = GoOn(c, "sensed")
  <2>1. RowFits(c, "sensed", row, call[c].seen.lifecycle)
    BY <1>1, <1>2 DEF RowFits
  <2> QED BY <1>1, <1>2, <1>3, <2>1, GoOnTurn
<1>4. CASE call' = Return(c, "refused")
  BY <1>2, <1>4, ReturnTurn DEF Returned
<1> QED BY <1>3, <1>4 DEF Sense

LEMMA MarkTakenTurn ==
  ASSUME SingleProcess, IInv, ScheduleInv, NEW c \in Calls, MarkTaken(c)
  PROVE  ScheduleInv'
<1>1. /\ "sensed" \in Active /\ "authorizing" \in Active \ {"leaving"}
      /\ "authorizing" \notin Pulsing \cup Printing /\ "RECEIPT_TAKEN" \in EntryStates
      /\ "RECEIPT_PRESENTED" \notin TakenOrPast
  BY DEF Printing, Early, Active, Working, Awaiting, Pulsing, AfterOpening, EntryStates,
         TakenOrPast, InOrPast
<1>2. /\ row \in Row /\ call[c].seen \in Row /\ call[c].pc = "sensed"
      /\ MayRun(c) /\ row.lifecycle # Absent /\ NeedReceipt(row.kind)
  BY <1>1, RowExists DEF MarkTaken, At, IInv, TypeOK, Call, ScheduleInv, CallGood, AloneGood
<1>3. CASE call' = Return(c, "refused") /\ row' = row
  BY <1>2, <1>3, ReturnTurn DEF Returned
<1>4. CASE ~(call' = Return(c, "refused") /\ row' = row)
  <2>1. /\ call[c].seen.job = "PRESENTED"
        /\ row' = [(IF call[c].seen.lifecycle \in TakenOrPast THEN row
                    ELSE Advanced(call[c].seen, "RECEIPT_TAKEN")) EXCEPT !.job = "TAKEN"]
        /\ call' = Committed(c, "authorizing")
    BY <1>4, Zenon DEF MarkTaken
  <2>2. call[c].seen.lifecycle = "RECEIPT_PRESENTED"
    BY <1>2, <2>1 DEF ScheduleInv, CallGood, TakenGood
  <2>3. row' = [Advanced(call[c].seen, "RECEIPT_TAKEN") EXCEPT !.job = "TAKEN"]
    BY <1>1, <2>1, <2>2
  <2>4. /\ row'.lifecycle = "RECEIPT_TAKEN" /\ row'.kind = row.kind
        /\ row'.job = "TAKEN" /\ row'.openCommand = row.openCommand
    BY <1>1, <1>2, <2>3, AdvancedType DEF Row
  <2>5. JobInv'
    BY <2>4 DEF JobInv
  <2>6. RowFits(c, "authorizing", row', row'.lifecycle)
    BY <1>1, <1>2, <2>4 DEF RowFits
  <2>7. row'.lifecycle # Absent /\ call[c].seen.job \in Shown
    BY <2>1, <2>4 DEF Absent, Shown
  <2> QED BY <1>1, <1>2, <2>1, <2>4, <2>5, <2>6, <2>7, CommitTurn
<1> QED BY <1>3, <1>4

LEMMA AuthorizeTurn ==
  ASSUME SingleProcess, IInv, ScheduleInv, NEW c \in Calls, Authorize(c), c \notin Retries
  PROVE  ScheduleInv'
<1>1. /\ {"authorizing", "commanded"} \subseteq (Active \cap Past) \ {"leaving"}
      /\ "authorizing" \in Working /\ "commanded" \notin Pulsing \cup Printing
  BY DEF Printing, Early, Active, Working, Awaiting, Past, Pulsing, AfterOpening
<1>2. /\ call[c].pc = "authorizing" /\ call[c].fresh /\ row' = row /\ row.lifecycle # Absent
  BY <1>1, RowExists DEF Authorize, At
<1>3. CASE \E pc \in {"already_open", "gate_command_in_progress"} : call' = Return(c, pc)
  BY <1>2, <1>3, ReturnTurn DEF Returned
<1>4. CASE call' = GoOn(c, "commanded")
  <2>1. /\ NeedReceipt(row.kind) => row.job = "TAKEN"
        /\ ~NeedReceipt(row.kind) => row.lifecycle \in Ready(row.kind)
    BY <1>1, <1>2 DEF ScheduleInv, CallGood, TakenGood, AloneGood
  <2>2. RowFits(c, "commanded", row, call[c].seen.lifecycle)
    BY <1>1, <2>1 DEF RowFits
  <2> QED BY <1>1, <1>2, <1>4, <2>2, GoOnTurn
<1> QED BY <1>3, <1>4 DEF Authorize

LEMMA ClaimCommandTurn ==
  ASSUME SingleProcess, IInv, ScheduleInv, NEW c \in Calls, ClaimCommand(c)
  PROVE  ScheduleInv'
<1>1. /\ "commanded" \in Active \cap Past
      /\ "pulsing" \in (Active \cap Past) \ {"leaving"} /\ "pulsing" \notin Printing
  BY DEF Printing, Early, Active, Working, Awaiting, Past
<1>2. /\ row \in Row /\ call[c].pc = "commanded" /\ MayRun(c) /\ row.lifecycle # Absent
  BY <1>1, RowExists DEF ClaimCommand, At, IInv, TypeOK
<1>3. CASE row.openCommand # NoOne
  <2>1. call' = Return(c, "gate_command_in_progress") /\ row' = row
    BY <1>3 DEF ClaimCommand
  <2> QED BY <1>2, <2>1, ReturnTurn DEF Returned
<1>4. CASE row.openCommand = NoOne
  <2>1. row' = [row EXCEPT !.openCommand = c] /\ call' = Committed(c, "pulsing")
    BY <1>4 DEF ClaimCommand
  <2>2. /\ row'.lifecycle = row.lifecycle /\ row'.kind = row.kind
        /\ row'.job = row.job /\ row'.openCommand = c /\ c # NoOne
    BY <1>2, <2>1, CallsAssumption DEF Row
  <2>3. JobInv'
    BY <2>2, SameReceipts DEF ScheduleInv, JobInv
  <2>4. NeedReceipt(row.kind) => row.job = "TAKEN"
    BY <1>1, <1>2 DEF ScheduleInv, CallGood, TakenGood
  <2>5. row.lifecycle \in Ready(row.kind)
    <3>1. CASE NeedReceipt(row.kind)
      BY <1>4, <2>4, <3>1 DEF ScheduleInv, JobInv, Ready
    <3>2. CASE ~NeedReceipt(row.kind)
      BY <1>2, <3>2 DEF ScheduleInv, CallGood, AloneGood
    <3> QED BY <3>1, <3>2
  <2>6. row'.lifecycle \in Expected("pulsing", row'.kind)
    BY <2>2, <2>5 DEF Expected
  <2>7. RowFits(c, "pulsing", row', row'.lifecycle)
    BY <2>2, <2>4, <2>6 DEF RowFits
  <2> QED BY <1>1, <1>2, <1>4, <2>1, <2>2, <2>3, <2>7, CommitTurn
<1> QED BY <1>3, <1>4

LEMMA PulseTurn ==
  ASSUME SingleProcess, IInv, ScheduleInv, NEW c \in Calls, NEW result \in Pulses \ {"none"},
         Pulse(c, result)
  PROVE  ScheduleInv'
<1>0. /\ call \in [Calls -> Call] /\ call[c] \in Call /\ "gate_unavailable" \in Stations
  BY DEF IInv, TypeOK, Stations, Returned
<1>1. /\ {"pulsing", "pulsed"} \subseteq Active \cap Past \cap Pulsing
      /\ {"pulsed", "gate_unavailable"} \cap (Printing \cup Working) = {}
      /\ "gate_unavailable" \notin Active \cup Past \cup Pulsing
  BY DEF Printing, Early, Active, Working, Awaiting, Past, Pulsing, AfterOpening
<1>2. /\ call[c].pc = "pulsing" /\ call[c].fresh /\ row' = row /\ row.lifecycle # Absent
  BY <1>1, RowExists DEF Pulse
<1>3. JobInv'
  BY <1>2, SameReceipts DEF ScheduleInv, JobInv
<1>4. row.job \in Shown => row.job \in Shown \/ call[c].seen.job \in Shown
  OBVIOUS
<1>5. CASE result \in {"opened", "unsent"}
  <2>1. call' = [call EXCEPT ![c].pulse = result, ![c].pc = "pulsed"]
    BY <1>5 DEF Pulse
  <2>2. /\ call'[c].pc = "pulsed" /\ call'[c].seen = call[c].seen /\ call'[c].fresh
        /\ \A d \in Calls \ {c} : call'[d] = call[d]
    BY <1>0, <1>2, <2>1 DEF Call
  <2>3. View(c)' = call[c].seen.lifecycle /\ View(c) = call[c].seen.lifecycle
    BY <1>2, <2>2 DEF View
  <2>4. /\ row.openCommand = c /\ View(c) \in Expected("pulsing", row.kind)
        /\ NeedReceipt(row.kind) => row.job = "TAKEN"
    BY <1>1, <1>2 DEF ScheduleInv, CallGood, GateGood, TakenGood
  <2>5. RowFits(c, "pulsed", row', View(c)')
    BY <1>2, <2>3, <2>4 DEF RowFits, Expected
  <2>6. "pulsed" \in Active \ {"leaving"}
    BY <1>1
  <2>7. CallGood(c)'
    BY <1>2, <2>2, <2>5, <2>6, FitsIsGood DEF ScheduleInv
  <2>8. ~Busy(c)'
    BY <1>1, <2>2 DEF Busy
  <2> QED BY <1>1, <1>2, <1>3, <2>2, <2>7, <2>8, TurnStep
<1>6. CASE result \notin {"opened", "unsent"}
  <2> DEFINE back == Return(c, "gate_unavailable")
  <2>1. call' = [back EXCEPT ![c].pulse = result]
    BY <1>6 DEF Pulse
  <2>2. /\ back \in [Calls -> Call]
        /\ back[c] = [call[c] EXCEPT !.pc = "gate_unavailable", !.seen = NoCopy, !.fresh = TRUE]
        /\ \A d \in Calls \ {c} : back[d] = call[d]
    BY <1>0, ReturnType
  <2> HIDE DEF back
  <2>3. back[c].pc = "gate_unavailable" /\ back[c].seen = NoCopy /\ back[c].fresh /\ back[c] \in Call
    BY <1>0, <2>2 DEF Call
  <2>4. /\ call'[c].pc = "gate_unavailable" /\ call'[c].seen = NoCopy /\ call'[c].fresh
        /\ \A d \in Calls \ {c} : call'[d] = call[d]
    BY <2>1, <2>2, <2>3 DEF Call
  <2>5. NoCopy.job = "QUEUED" /\ "QUEUED" \notin Shown
    BY DEF NoCopy, NewRow, Shown
  <2>6. CallGood(c)'
    BY <1>1, <2>4, <2>5, KindsOfCalls DEF CallGood, GateGood, TakenGood, AloneGood
  <2>7. ~Busy(c)'
    BY <1>1, <2>4 DEF Busy
  <2> QED BY <1>1, <1>2, <1>3, <2>4, <2>5, <2>6, <2>7, TurnStep
<1> QED BY <1>5, <1>6

(* What a call that has opened the barrier goes on with. *)
LEMMA Recording ==
  ASSUME IInv, ScheduleInv, NEW c \in Calls, NEW pc \in AfterOpening, At(c, pc)
  PROVE  /\ row \in Row /\ row.lifecycle # Absent /\ MayRun(c) /\ call[c].pc = pc /\ call[c].fresh
         /\ call[c].seen.kind = row.kind
         /\ row.openCommand = c /\ c # NoOne
         /\ NeedReceipt(row.kind) => row.job = "TAKEN"
         /\ call[c].seen.lifecycle \in Expected(pc, row.kind)
         /\ pc \in Active /\ pc \notin Printing /\ pc # "leaving"
<1>1. pc \in Active \cap Past \cap Pulsing /\ pc \notin Printing /\ pc # "leaving"
  BY DEF Printing, Early, Active, Working, Awaiting, Past, Pulsing, AfterOpening
<1>2. /\ call[c].pc = pc /\ call[c].fresh /\ MayRun(c) /\ row \in Row
      /\ row.lifecycle # Absent /\ call[c].seen.kind = row.kind
  <2>1. call[c].pc = pc /\ call[c].fresh /\ MayRun(c) /\ row \in Row
    BY DEF At, IInv, TypeOK
  <2>2. call[c].pc # "idle"
    BY <1>1, <2>1, KindsOfCalls
  <2> QED BY <1>1, <2>1, <2>2, RowExists DEF IInv, SlipInv
<1>3. /\ row.openCommand = c /\ View(c) \in Expected(pc, row.kind)
      /\ NeedReceipt(row.kind) => row.job = "TAKEN"
  BY <1>1, <1>2 DEF ScheduleInv, CallGood, GateGood, TakenGood
<1> QED BY <1>1, <1>2, <1>3, CallsAssumption DEF View

(* It takes the lifecycle one state further. *)
LEMMA RecordTurn ==
  ASSUME SingleProcess, IInv, ScheduleInv, NEW c \in Calls, NEW pc \in AfterOpening, At(c, pc),
         NEW next \in AfterOpening \ {"pulsed"}, NEW target \in EntryStates,
         Advance(c, target, next), target \in Expected(next, row.kind)
  PROVE  ScheduleInv'
<1>1. next \in Active \ {"leaving"} /\ next \notin Printing
  BY DEF Printing, Early, Active, Working, Awaiting, AfterOpening
<1>2. /\ row \in Row /\ MayRun(c) /\ call[c].pc = pc /\ row.openCommand = c /\ c # NoOne
      /\ NeedReceipt(row.kind) => row.job = "TAKEN"
      /\ pc \in Active
  BY Recording
<1>3. RowFits(c, next, [row EXCEPT !.lifecycle = target], target)
  <2>1. /\ [row EXCEPT !.lifecycle = target].kind = row.kind
        /\ [row EXCEPT !.lifecycle = target].job = row.job
        /\ [row EXCEPT !.lifecycle = target].openCommand = row.openCommand
    BY <1>2 DEF Row
  <2> QED BY <1>2, <2>1 DEF RowFits, AfterOpening
<1> QED BY <1>1, <1>2, <1>3, AdvanceTurn

LEMMA RequestOpenTurn ==
  ASSUME SingleProcess, IInv, ScheduleInv, NEW c \in Calls, RequestOpen(c)
  PROVE  ScheduleInv'
<1>1. /\ {"pulsed", "requesting"} \subseteq AfterOpening
      /\ {"requesting", "passing"} \subseteq AfterOpening \ {"pulsed"}
      /\ {"ENTRY_AUTHORIZED", "GATE_OPEN_REQUESTED"} \subseteq EntryStates
  BY DEF AfterOpening, EntryStates
<1>2. At(c, "pulsed") => /\ Authorizable(call[c].seen)
                         /\ call[c].seen.lifecycle # "ENTRY_AUTHORIZED"
  <2> SUFFICES ASSUME At(c, "pulsed")
               PROVE  /\ Authorizable(call[c].seen)
                      /\ call[c].seen.lifecycle # "ENTRY_AUTHORIZED"
    OBVIOUS
  <2>1. /\ call[c].seen.lifecycle \in Expected("pulsed", row.kind)
        /\ call[c].seen.kind = row.kind
    BY <1>1, Recording
  <2>2. call[c].seen.lifecycle \in Ready(row.kind)
    BY <2>1 DEF Expected
  <2> QED BY <2>1, <2>2 DEF Ready, Authorizable
<1>3. At(c, "requesting") => call[c].seen.lifecycle = "ENTRY_AUTHORIZED"
  <2>1. At(c, "requesting") => call[c].seen.lifecycle \in Expected("requesting", row.kind)
    BY <1>1, Recording
  <2> QED BY <2>1 DEF Expected
<1>4. \/ At(c, "pulsed") /\ Advance(c, "ENTRY_AUTHORIZED", "requesting")
      \/ At(c, "requesting") /\ Advance(c, "GATE_OPEN_REQUESTED", "passing")
  BY <1>2, <1>3 DEF RequestOpen
<1>5. /\ "ENTRY_AUTHORIZED" \in Expected("requesting", row.kind)
      /\ "GATE_OPEN_REQUESTED" \in Expected("passing", row.kind)
  BY DEF Expected
<1> QED BY <1>1, <1>4, <1>5, RecordTurn

LEMMA PassTurn ==
  ASSUME SingleProcess, IInv, ScheduleInv, NEW c \in Calls, Pass(c)
  PROVE  ScheduleInv'
<1>1. /\ "passing" \in AfterOpening /\ "passed" \in AfterOpening \ {"pulsed"}
      /\ "VEHICLE_PASSED" \in EntryStates /\ "active" \in Returned
  BY DEF AfterOpening, EntryStates, Returned
<1>2. At(c, "passing")
  BY DEF Pass
<1>3. row.lifecycle # Absent /\ call[c].seen.lifecycle \in Expected("passing", row.kind)
  BY <1>1, <1>2, Recording
<1>4. call[c].seen.lifecycle = "GATE_OPEN_REQUESTED"
  BY <1>3 DEF Expected
<1>5. CASE Advance(c, "VEHICLE_PASSED", "passed")
  <2>1. "VEHICLE_PASSED" \in Expected("passed", row.kind)
    BY DEF Expected
  <2> QED BY <1>1, <1>2, <1>5, <2>1, RecordTurn
<1>6. CASE call' = Return(c, "active") /\ row' = row
  BY <1>1, <1>3, <1>6, ReturnTurn
<1> QED BY <1>4, <1>5, <1>6 DEF Pass

LEMMA ActivateTurn ==
  ASSUME SingleProcess, IInv, ScheduleInv, NEW c \in Calls, Activate(c)
  PROVE  ScheduleInv'
<1>1. "passed" \in AfterOpening /\ "active" \in Returned /\ "ACTIVE" \in EntryStates
  BY DEF AfterOpening, EntryStates, Returned
<1>2. At(c, "passed")
  BY DEF Activate
<1>3. /\ row \in Row /\ MayRun(c) /\ call[c].pc = "passed" /\ row.openCommand = c /\ c # NoOne
      /\ NeedReceipt(row.kind) => row.job = "TAKEN"
      /\ call[c].seen.lifecycle \in Expected("passed", row.kind)
      /\ row.lifecycle # Absent /\ "passed" \in Active
  BY <1>1, <1>2, Recording
<1>4. call[c].seen.lifecycle = "VEHICLE_PASSED"
  BY <1>3 DEF Expected
<1>5. CanTransition("VEHICLE_PASSED", "ACTIVE", Policy, call[c].seen.kind)
  <2>1. BaseTransitions["VEHICLE_PASSED"] = {"ACTIVE"}
    BY DEF BaseTransitions, Lifecycles, EntryStates
  <2>2. HeldByReceipt("VEHICLE_PASSED", Policy, call[c].seen.kind) = {}
    BY DEF HeldByReceipt
  <2> QED BY <2>1, <2>2 DEF CanTransition, AllowedTargets
<1>6. row' = Advanced(call[c].seen, "ACTIVE") /\ call' = Return(c, "active")
  BY <1>4, <1>5, Zenon DEF Activate
<1>7. /\ row'.lifecycle = "ACTIVE" /\ row'.kind = row.kind
      /\ row'.job = row.job /\ row'.openCommand = row.openCommand
  BY <1>1, <1>6, AdvancedType DEF IInv, TypeOK, Call
<1>8. /\ call'[c].pc = "active" /\ call'[c].seen = NoCopy /\ call'[c].fresh
      /\ call'[c].pulse = call[c].pulse
      /\ \A d \in Calls \ {c} : call'[d] = call[d]
  <2>1. call \in [Calls -> Call] /\ call[c] \in Call /\ "active" \in Stations
    BY <1>1 DEF IInv, TypeOK, Stations
  <2>2. /\ Return(c, "active")[c] = [call[c] EXCEPT !.pc = "active", !.seen = NoCopy, !.fresh = TRUE]
        /\ \A d \in Calls \ {c} : Return(c, "active")[d] = call[d]
    BY <2>1, ReturnType
  <2> QED BY <1>6, <2>1, <2>2 DEF Call
<1>9. JobInv'
  BY <1>3, <1>7, SameReceipts DEF JobInv
<1>10. "active" \notin Active \cup Past \cup Pulsing \cup Printing \cup Working
  BY <1>1, KindsOfCalls
<1>11. NoCopy.job = "QUEUED" /\ "QUEUED" \notin Shown
  BY DEF NoCopy, NewRow, Shown
<1>12. CallGood(c)'
  BY <1>8, <1>10, <1>11 DEF CallGood, GateGood, TakenGood, AloneGood
<1>13. ~Busy(c)' /\ row'.lifecycle # Absent
  BY <1>7, <1>8, <1>10 DEF Busy, Absent
<1> QED BY <1>3, <1>7, <1>8, <1>9, <1>10, <1>11, <1>12, <1>13, TurnStep

LEMMA CrashTurn ==
  ASSUME SingleProcess, IInv, ScheduleInv, NEW c \in Calls, Crash(c)
  PROVE  ScheduleInv'
<1>1. call' = Return(c, "crashed") /\ row' = row /\ row.lifecycle # Absent
  BY RowExists, KindsOfCalls DEF Crash, Active
<1> QED BY <1>1, ReturnTurn DEF Returned

LEMMA RefreshTurn ==
  ASSUME SingleProcess, IInv, ScheduleInv, NEW c \in Calls, Refresh(c)
  PROVE  ScheduleInv'
<1>0. call \in [Calls -> Call] /\ call[c] \in Call
  BY DEF IInv, TypeOK
<1>1. /\ row' = row /\ ~call[c].fresh
      /\ call' = [call EXCEPT ![c].fresh = TRUE, ![c].seen = row]
  BY DEF Refresh
<1>2. /\ call'[c].pc = call[c].pc /\ call'[c].seen = row /\ call'[c].fresh
      /\ call'[c].pulse = call[c].pulse
      /\ \A d \in Calls \ {c} : call'[d] = call[d]
  BY <1>0, <1>1 DEF Call
<1>3. JobInv'
  BY <1>1, SameReceipts DEF ScheduleInv, JobInv
<1>4. CallGood(c)'
  <2>0. CallGood(c)
    BY DEF ScheduleInv
  <2>1. View(c)' = View(c)
    BY <1>1, <1>2 DEF View
  <2>2. GateGood(c)'
    BY <1>1, <1>2, <2>0, <2>1, SameReceipts DEF CallGood, GateGood
  <2>3. TakenGood(c)'
    BY <1>1, <1>2, <2>0, SameReceipts DEF CallGood, TakenGood, ScheduleInv, JobInv
  <2>4. AloneGood(c)'
    BY <1>1, <1>2, <2>0, SameReceipts DEF CallGood, AloneGood
  <2> QED BY <1>2, <2>0, <2>2, <2>3, <2>4 DEF CallGood
<1>5. row.lifecycle = Absent => row.job = "QUEUED"
  BY DEF ScheduleInv, StartInv
<1>6. row.job \in Shown => call[c].pc \notin Printing
  BY NotShown
<1>7. Busy(c)
  BY <1>1 DEF Busy
<1> QED BY <1>1, <1>2, <1>3, <1>4, <1>5, <1>6, <1>7, TurnStep

-----------------------------------------------------------------------------
(* As long as nobody interferes by hand *)

LEMMA InitSchedule == Init => ScheduleInv
<1> SUFFICES ASSUME Init PROVE ScheduleInv
  OBVIOUS
<1>1. \A c \in Calls : /\ call[c].pc = "idle" /\ call[c].seen = NoCopy
                       /\ call[c].fresh /\ call[c].pulse = "none"
  BY DEF Init
<1>2. row.job = "QUEUED" /\ NoCopy.job = "QUEUED"
  BY DEF Init, NewRow, NoCopy
<1>3. /\ "idle" \notin Active \cup Past \cup Pulsing \cup Printing \cup Working
      /\ "QUEUED" \notin Shown
  BY KindsOfCalls DEF Shown
<1>4. TurnInv /\ StartInv /\ PrintInv /\ JobInv /\ AloneInv
  BY <1>1, <1>2, <1>3 DEF TurnInv, StartInv, PrintInv, JobInv, AloneInv, Busy
<1>5. \A c \in Calls : CallGood(c)
  BY <1>1, <1>2, <1>3 DEF CallGood, GateGood, TakenGood, AloneGood
<1> QED BY <1>4, <1>5 DEF ScheduleInv

(* Only the row's lifecycle, status, job and command change. *)
LEMMA KindStays ==
  ASSUME IInv, [Next]_vars
  PROVE  row'.kind = row.kind
<1>0. row \in Row /\ \A c \in Calls : call[c].seen \in Row
  BY DEF IInv, TypeOK, Call
<1>1. ASSUME NEW c \in Calls, NEW target \in EntryStates
      PROVE  Advanced(call[c].seen, target) \in Row /\ Advanced(call[c].seen, target).kind = row.kind
  BY <1>0, AdvancedType
<1>2. ASSUME NEW c \in Calls, NEW target \in EntryStates, NEW pc, Advance(c, target, pc)
      PROVE  row'.kind = row.kind
  BY <1>1, <1>2 DEF Advance
<1>3. /\ {"IDENTITY_RESOLVED", "SESSION_CREATED", "RECEIPT_PRINTING", "RECEIPT_PRESENTED",
           "RECEIPT_TAKEN", "ENTRY_CANCELLED", "ENTRY_AUTHORIZED", "GATE_OPEN_REQUESTED",
           "VEHICLE_PASSED", "ACTIVE"} \subseteq EntryStates
  BY DEF EntryStates
<1>4. ASSUME NEW c \in Calls, Handle(c) \/ Crash(c)
      PROVE  row'.kind = row.kind
  <2>1. CASE Submit(c) \/ ClaimJob(c) \/ Misprint(c) \/ ClaimCommand(c)
    BY <1>0, <2>1 DEF Submit, ClaimJob, Misprint, ClaimCommand, Row
  <2>2. CASE Identify(c) \/ CreateSession(c) \/ StartPrinting(c) \/ RequestOpen(c) \/ Pass(c)
    BY <1>2, <1>3, <2>2 DEF Identify, CreateSession, StartPrinting, RequestOpen, Pass
  <2>3. CASE Present(c)
    BY <1>1, <1>3, <2>3 DEF Present, Row
  <2>4. CASE MarkTaken(c)
    <3>1. \/ row' = row
          \/ row' = [row EXCEPT !.job = "TAKEN"]
          \/ row' = [Advanced(call[c].seen, "RECEIPT_TAKEN") EXCEPT !.job = "TAKEN"]
      BY <2>4, Zenon DEF MarkTaken
    <3> QED BY <1>0, <1>1, <1>3, <3>1 DEF Row
  <2>5. CASE Cancel(c) \/ Activate(c)
    <3>1. row' \in {row, Advanced(call[c].seen, "ENTRY_CANCELLED"), Advanced(call[c].seen, "ACTIVE")}
      BY <2>5 DEF Cancel, Activate
    <3> QED BY <1>1, <1>3, <3>1
  <2>6. CASE Authorize(c) \/ AfterPrint(c) \/ Confirm(c) \/ Retry(c) \/ Leave(c) \/ Refresh(c) \/ Crash(c)
    BY <2>6 DEF Authorize, AfterPrint, Confirm, Retry, Leave, Refresh, Crash
  <2>7. CASE \/ \E ok, out \in BOOLEAN : PrintSlip(c, ok, out)
             \/ \E taken \in BOOLEAN : Sense(c, taken)
             \/ \E result \in Pulses \ {"none"} : Pulse(c, result)
    BY <2>7 DEF PrintSlip, Sense, Pulse
  <2> QED BY <1>4, <2>1, <2>2, <2>3, <2>4, <2>5, <2>6, <2>7 DEF Handle
<1> QED BY <1>4 DEF Next, TakeSlip, vars

(* A call that has begun never becomes idle again. *)
LEMMA BegunStays ==
  ASSUME IInv, [Next]_vars, NEW d \in Calls, call'[d].pc = "idle"
  PROVE  call[d].pc = "idle"
<1>0. call \in [Calls -> Call]
  BY DEF IInv, TypeOK
<1>1. ASSUME NEW c \in Calls, NEW pc \in Stations \ {"idle"},
             call' \in {GoOn(c, pc), Committed(c, pc), Return(c, pc)}
      PROVE  call[d].pc = "idle"
  <2>1. /\ GoOn(c, pc)[c] = [call[c] EXCEPT !.pc = pc]
        /\ \A e \in Calls \ {c} : GoOn(c, pc)[e] = call[e]
    BY <1>0, GoOnType
  <2>2. /\ Committed(c, pc)[c] = [call[c] EXCEPT !.pc = pc, !.fresh = FALSE]
        /\ \A e \in Calls \ {c} : Committed(c, pc)[e] = call[e]
    BY <1>0, CommittedType
  <2>3. /\ Return(c, pc)[c] = [call[c] EXCEPT !.pc = pc, !.seen = NoCopy, !.fresh = TRUE]
        /\ \A e \in Calls \ {c} : Return(c, pc)[e] = call[e]
    BY <1>0, ReturnType
  <2>4. call[c] \in Call
    BY <1>0
  <2>5. call'[c].pc = pc /\ \A e \in Calls \ {c} : call'[e] = call[e]
    <3>1. CASE call' = GoOn(c, pc)
      BY <2>1, <2>4, <3>1 DEF Call
    <3>2. CASE call' = Committed(c, pc)
      BY <2>2, <2>4, <3>2 DEF Call
    <3>3. CASE call' = Return(c, pc)
      BY <2>3, <2>4, <3>3 DEF Call
    <3> QED BY <1>1, <3>1, <3>2, <3>3
  <2> QED BY <1>1, <2>5
<1>2. (Working \cup Awaiting \cup Returned) \subseteq Stations \ {"idle"}
  BY DEF Stations, Working, Awaiting, Returned
<1>3. ASSUME NEW c \in Calls, Handle(c) \/ Crash(c)
      PROVE  call[d].pc = "idle"
  <2>1. CASE Submit(c) \/ ClaimJob(c) \/ StartPrinting(c) \/ Identify(c) \/ CreateSession(c)
    <3>1. \E pc \in Working \cup Awaiting \cup Returned : call' \in {GoOn(c, pc), Committed(c, pc), Return(c, pc)}
      BY <2>1 DEF Submit, ClaimJob, StartPrinting, Identify, CreateSession, Advance, Working, Awaiting, Returned
    <3> QED BY <1>1, <1>2, <3>1
  <2>2. CASE RequestOpen(c) \/ Pass(c) \/ Present(c) \/ Misprint(c) \/ AfterPrint(c)
    <3>1. \E pc \in Working \cup Awaiting \cup Returned : call' \in {GoOn(c, pc), Committed(c, pc), Return(c, pc)}
      BY <2>2 DEF RequestOpen, Pass, Present, Misprint, AfterPrint, Advance, Working, Awaiting, Returned
    <3> QED BY <1>1, <1>2, <3>1
  <2>3. CASE Authorize(c) \/ ClaimCommand(c) \/ Activate(c) \/ Crash(c)
    <3>1. \E pc \in Working \cup Awaiting \cup Returned : call' \in {GoOn(c, pc), Committed(c, pc), Return(c, pc)}
      BY <2>3 DEF Authorize, ClaimCommand, Activate, Crash, Working, Awaiting, Returned
    <3> QED BY <1>1, <1>2, <3>1
  <2>4. CASE MarkTaken(c) \/ Cancel(c)
    <3>1. call' \in {Committed(c, "authorizing"), Return(c, "refused"), Return(c, "too_late"),
                     Return(c, "vehicle_left"), Return(c, "error")}
      BY <2>4 DEF MarkTaken, Cancel
    <3>2. {"authorizing", "refused", "too_late", "vehicle_left", "error"} \subseteq Stations \ {"idle"}
      BY DEF Stations, Working, Returned
    <3> QED BY <1>1, <3>1, <3>2
  <2>5. CASE \/ \E ok, out \in BOOLEAN : PrintSlip(c, ok, out)
             \/ \E taken \in BOOLEAN : Sense(c, taken)
    <3>1. call' \in {GoOn(c, "answered"), GoOn(c, "jammed"), GoOn(c, "sensed"), Return(c, "refused")}
      BY <2>5 DEF PrintSlip, Sense
    <3>2. {"answered", "jammed", "sensed", "refused"} \subseteq Stations \ {"idle"}
      BY DEF Stations, Awaiting, Returned
    <3> QED BY <1>1, <3>1, <3>2
  <2>6. CASE Confirm(c) \/ Retry(c) \/ Leave(c) \/ Refresh(c)
    BY <1>0, <2>6 DEF Confirm, Retry, Leave, Refresh, Call
  <2>7. CASE \E result \in Pulses \ {"none"} : Pulse(c, result)
    <3>1. PICK result : Pulse(c, result)
      BY <2>7
    <3>2. CASE call' = [call EXCEPT ![c].pulse = result, ![c].pc = "pulsed"]
      BY <1>0, <3>2 DEF Call
    <3>3. CASE call' = [Return(c, "gate_unavailable") EXCEPT ![c].pulse = result]
      <4> DEFINE back == Return(c, "gate_unavailable")
      <4>1. "gate_unavailable" \in Stations
        BY DEF Stations, Returned
      <4>2. /\ back \in [Calls -> Call]
            /\ back[c] = [call[c] EXCEPT !.pc = "gate_unavailable", !.seen = NoCopy, !.fresh = TRUE]
            /\ \A e \in Calls \ {c} : back[e] = call[e]
        BY <1>0, <4>1, ReturnType
      <4>3. call' = [back EXCEPT ![c].pulse = result]
        BY <3>3
      <4> HIDE DEF back
      <4>4. back[c].pc = "gate_unavailable" /\ back[c] \in Call
        BY <1>0, <4>2 DEF Call
      <4> QED BY <4>2, <4>3, <4>4 DEF Call
    <3> QED BY <3>1, <3>2, <3>3 DEF Pulse
  <2> QED BY <1>3, <2>1, <2>2, <2>3, <2>4, <2>5, <2>6, <2>7 DEF Handle
<1> QED BY <1>3 DEF Next, TakeSlip, vars

(* Who is not disturbed after a step was not before it. *)
LEMMA UndisturbedBefore ==
  ASSUME IInv, [Next]_vars, Undisturbed'
  PROVE  Undisturbed
<1>1. row'.kind = row.kind /\ \A d \in Calls : call'[d].pc = "idle" => call[d].pc = "idle"
  BY KindStays, BegunStays
<1>2. Leaves \subseteq Calls /\ Confirms \subseteq Calls /\ Retries \subseteq Calls
  BY DEF Calls
<1> QED BY <1>1, <1>2, SameReceipts DEF Undisturbed

LEMMA NextTurn ==
  ASSUME SingleProcess, IInv, Undisturbed => ScheduleInv, [Next]_vars
  PROVE  (Undisturbed => ScheduleInv)'
<1> SUFFICES ASSUME Undisturbed' PROVE ScheduleInv'
  OBVIOUS
<1>0. Undisturbed /\ ScheduleInv
  BY UndisturbedBefore
<1>1. CASE UNCHANGED <<row, call>>
  <2>1. \A c \in Calls : /\ View(c)' = View(c) /\ Busy(c)' = Busy(c)
    BY <1>1 DEF View, Busy
  <2>2. TurnInv' /\ StartInv' /\ PrintInv' /\ JobInv' /\ AloneInv'
    BY <1>0, <1>1, <2>1, SameReceipts
    DEF ScheduleInv, TurnInv, StartInv, PrintInv, JobInv, AloneInv
  <2>3. ASSUME NEW c \in Calls PROVE CallGood(c)'
    BY <1>0, <1>1, <2>1, SameReceipts DEF ScheduleInv, CallGood, GateGood, TakenGood, AloneGood
  <2> QED BY <2>2, <2>3 DEF ScheduleInv
<1>2. ASSUME NEW c \in Calls, Handle(c) PROVE ScheduleInv'
  <2>1. CASE Submit(c) \/ Identify(c) \/ CreateSession(c) \/ ClaimJob(c) \/ StartPrinting(c)
    BY <1>0, <2>1, SubmitTurn, IdentifyTurn, ClaimJobTurn, StartPrintingTurn
  <2>2. CASE \/ \E ok, out \in BOOLEAN : PrintSlip(c, ok, out)
             \/ \E taken \in BOOLEAN : Sense(c, taken)
             \/ \E result \in Pulses \ {"none"} : Pulse(c, result)
    BY <1>0, <2>2, PrintTurn, SenseTurn, PulseTurn
  <2>3. CASE Present(c) \/ Misprint(c) \/ AfterPrint(c) \/ MarkTaken(c)
    BY <1>0, <2>3, PresentTurn, AfterPrintTurn, MarkTakenTurn
  <2>4. CASE Confirm(c)
    <3>1. c \in Confirms /\ call'[c].pc # "idle" /\ row' = row
      <4>1. call \in [Calls -> Call]
        BY DEF IInv, TypeOK
      <4> QED BY <2>4, <4>1 DEF Confirm, Call
    <3>2. NeedReceipt(row.kind)
      BY <3>1, SameReceipts DEF Undisturbed
    <3> QED BY <1>0, <2>4, <3>2, ConfirmTurn
  <2>5. CASE Retry(c) \/ Leave(c)
    <3>1. call \in [Calls -> Call]
      BY DEF IInv, TypeOK
    <3>2. c \in Retries \cup Leaves /\ call'[c].pc # "idle"
      BY <2>5, <3>1 DEF Retry, Leave, Call
    <3> QED BY <3>2 DEF Undisturbed
  <2>6. CASE Cancel(c)
    <3>1. call[c].pc = "leaving"
      BY <2>6 DEF Cancel, At
    <3> QED BY <1>0, <3>1 DEF ScheduleInv, CallGood
  <2>7. CASE Authorize(c)
    <3>1. c \notin Retries
      BY <1>0, <2>7 DEF Authorize, At, Undisturbed
    <3> QED BY <1>0, <2>7, <3>1, AuthorizeTurn
  <2>8. CASE ClaimCommand(c) \/ RequestOpen(c) \/ Pass(c) \/ Activate(c) \/ Refresh(c)
    BY <1>0, <2>8, ClaimCommandTurn, RequestOpenTurn, PassTurn, ActivateTurn, RefreshTurn
  <2> QED BY <1>2, <2>1, <2>2, <2>3, <2>4, <2>5, <2>6, <2>7, <2>8 DEF Handle
<1>3. ASSUME NEW c \in Calls, Crash(c) PROVE ScheduleInv'
  BY <1>0, <1>3, CrashTurn
<1> QED BY <1>1, <1>2, <1>3 DEF Next, TakeSlip, vars

(* In one process, with nobody interfering by hand, the call whose pulse
   opened the barrier finds the lifecycle where it left it and brings it to
   ACTIVE, whatever else was confirmed or delivered during its await
   (entry_lane.py, _authorize_and_open). *)
THEOREM OpeningRecorded ==
  ASSUME SingleProcess
  PROVE  Spec => []OpenedIsRecorded
<1>1. Init => (Undisturbed => ScheduleInv)
  BY InitSchedule
<1>2. IInv /\ (Undisturbed => ScheduleInv) /\ [Next]_vars => (Undisturbed => ScheduleInv)'
  BY NextTurn
<1>3. (Undisturbed => ScheduleInv) => OpenedIsRecorded
  BY DEF ScheduleInv, CallGood, OpenedIsRecorded
<1> QED BY <1>1, <1>2, <1>3, Invariance, PTL DEF Spec
=============================================================================

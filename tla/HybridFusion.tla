---------------------------- MODULE HybridFusion ----------------------------
(***************************************************************************)
(* How two readers of one plate are brought to one decision:               *)
(* core/fusion.py (resolve_readings) and the coordinator of core/hybrid.py,*)
(* which keeps for a camera one waiting reading of the camera itself       *)
(* (native), one of FastALPR (local) and the plates it decided lately.     *)
(* Nothing here has state: an operator takes a lane and returns the next.  *)
(* Confidences are percents, times are ages in ticks.                      *)
(***************************************************************************)
EXTENDS Integers, Sequences

CONSTANTS
  Vehicles,      \* vehicles, to say whose plate was read
  Plates,        \* normalised plates
  Similarity,    \* plate_similarity of two plates, in percent
  NoPlate,       \* the empty plate
  Wait,          \* ticks of wait_seconds: a reading waits for the other one
  PairWindow,    \* ticks of pair_window_seconds: older ones are not paired
  Hold           \* ticks of hold_seconds: repeats are suppressed

ASSUME TimesAssumption ==
  /\ Wait \in Nat /\ PairWindow \in Nat /\ Hold \in Nat
  /\ Wait <= PairWindow /\ PairWindow < Hold
ASSUME PlatesAssumption ==
  /\ NoPlate \notin Plates
  /\ Similarity \in [Plates \X Plates -> 0..100]
  /\ \A p, q \in Plates : /\ Similarity[<<p, p>>] = 100
                          /\ Similarity[<<p, q>>] = Similarity[<<q, p>>]

(* sure: several frames of the local reader agreed on the plate. *)
Readings == [vehicle : Vehicles, plate : Plates, conf : 0..100, sure : BOOLEAN]

(* A reading with its age; the set is empty while the slot is. *)
Candidates == [reading : Readings, age : 0..PairWindow + 1]
Slots == {"native", "local"}

(* vehicle: whose reading was accepted. *)
Decided == [vehicle : Vehicles, plate : Plates, age : 0..Hold - 1]

Lanes ==
  [native : SUBSET Candidates, local : SUBSET Candidates, decided : SUBSET Decided]
NewLane == [native |-> {}, local |-> {}, decided |-> {}]

-----------------------------------------------------------------------------
(* resolve_readings in HYBRID mode, with DEFAULT_FUSION *)

LocalMin     == 85
NativeMin    == 80
LocalMargin  == 15
ReviewMin    == 90
MinAuto      == 75
StrictSingle == 92
AlikeToFuse  == 70

Reading(plate, conf) == [plate |-> plate, conf |-> conf]
NoReading == Reading(NoPlate, 0)
Absent(r) == r.plate = NoPlate

(* The plate, and is it held for an operator. *)
Chosen(r, review) == [plate |-> r.plate, conf |-> r.conf, review |-> review]

(* The plate that is chosen, before _finish adds its reasons to hold it. *)
Choice(n, l) ==
  LET alike == Similarity[<<n.plate, l.plate>>] >= AlikeToFuse
  IN CASE Absent(n) /\ Absent(l) -> Chosen(NoReading, TRUE)
       [] ~Absent(n) /\ Absent(l) -> Chosen(n, FALSE)
       [] Absent(n) /\ ~Absent(l) -> Chosen(l, FALSE)
       [] ~Absent(n) /\ ~Absent(l) /\ n.plate = l.plate ->
            Chosen(IF n.conf >= l.conf THEN n ELSE l, FALSE)
       [] OTHER ->
            IF n.conf >= ReviewMin /\ l.conf >= ReviewMin
            THEN Chosen(IF n.conf >= l.conf THEN n ELSE l, TRUE)
            ELSE IF l.conf >= LocalMin /\ l.conf - n.conf >= LocalMargin
            THEN Chosen(l, ~alike)
            ELSE IF n.conf >= NativeMin /\ n.conf >= l.conf
            THEN Chosen(n, ~alike)
            ELSE Chosen(IF l.conf >= n.conf THEN l ELSE n, TRUE)

Disagree(n, l) == ~Absent(n) /\ ~Absent(l) /\ n.plate # l.plate

(* _finish *)
Resolve(n, l, sure) ==
  LET c == Choice(n, l)
  IN [c EXCEPT !.review =
        \/ @
        \/ Disagree(n, l)
        \/ c.conf < MinAuto
        \/ Absent(n) /\ c.conf < StrictSingle /\ ~sure]

-----------------------------------------------------------------------------
(* FusionCoordinator *)

(* Mutant: only the same plate is a repeat. *)
TheSame(p, q) == p = q

Alike(p, q) == Similarity[<<p, q>>] >= 85

(* _duplicate_of; entries past the hold time are dropped as they age. *)
DuplicateOf(decided, plate) == \E d \in decided : Alike(d.plate, plate)

(* What a slot holds, as resolve_readings takes it. *)
Taken(slot) ==
  IF slot = {} THEN NoReading
  ELSE LET r == (CHOOSE c \in slot : TRUE).reading IN Reading(r.plate, r.conf)

VehicleOf(slot) == (CHOOSE c \in slot : TRUE).reading.vehicle

(* Whose decision it is: the visit of the local reading when there is one. *)
DecidedFor(native, local) == VehicleOf(IF local # {} THEN local ELSE native)

Outcomes ==
  [vehicle : Vehicles, source : {"site", "worker"}, plate : Plates,
   conf : 0..100, review : BOOLEAN, suppressed : BOOLEAN]

(* _decide on the two slots it is given: the outcome, and the plates the
   lane has decided.  Only an accepted plate is remembered. *)
Outcome(native, local, decided) ==
  LET sure == \E c \in local : c.reading.sure
      d == Resolve(Taken(native), Taken(local), sure)
  IN [vehicle |-> DecidedFor(native, local),
      source |-> IF local # {} THEN "worker" ELSE "site",
      plate |-> d.plate, conf |-> d.conf, review |-> d.review,
      suppressed |-> DuplicateOf(decided, d.plate)]

Remembered(decided, o) ==
  IF o.suppressed \/ o.review THEN decided
  ELSE decided \cup {[vehicle |-> o.vehicle, plate |-> o.plate, age |-> 0]}

(* A step of the coordinator: the lane, and the outcomes so far. *)
Step(lane, outcomes) == [lane |-> lane, outcomes |-> outcomes]

Decide(s) ==
  LET o == Outcome(s.lane.native, s.lane.local, s.lane.decided)
  IN Step([native |-> {}, local |-> {}, decided |-> Remembered(s.lane.decided, o)],
          Append(s.outcomes, o))

(* _decide_slot: the reading of one slot alone. *)
DecideSlot(s, slot) ==
  LET o == IF slot = "native"
           THEN Outcome(s.lane.native, {}, s.lane.decided)
           ELSE Outcome({}, s.lane.local, s.lane.decided)
  IN Step([s.lane EXCEPT ![slot] = {}, !.decided = Remembered(@, o)],
          Append(s.outcomes, o))

IsStale(slot) == \E c \in slot : c.age > PairWindow
IsDue(slot)   == \E c \in slot : c.age >= Wait

DecideStale(s, slot) == IF IsStale(s.lane[slot]) THEN DecideSlot(s, slot) ELSE s
DecideDue(s, slot)   == IF IsDue(s.lane[slot]) THEN DecideSlot(s, slot) ELSE s

Other(slot) == IF slot = "native" THEN "local" ELSE "native"

(* offer: readings of an earlier vehicle are decided alone; the new one
   takes its slot, whatever was in it, and is decided with its counterpart,
   or at once when none can come. *)
Offer(lane, slot, reading, counterpart) ==
  LET own   == DecideStale(Step(lane, <<>>), slot)
      both  == DecideStale(own, Other(slot))
      taken == [both EXCEPT !.lane[slot] = {[reading |-> reading, age |-> 0]}]
  IN IF taken.lane[Other(slot)] # {} \/ ~counterpart THEN Decide(taken) ELSE taken

(* flush: what waited long enough is decided alone. *)
Flushed(lane) == DecideDue(DecideDue(Step(lane, <<>>), "native"), "local")

(* A tick of the clock. *)
Older(slot) == {[c EXCEPT !.age = IF @ > PairWindow THEN @ ELSE @ + 1] : c \in slot}
AgedDecisions(decided) ==
  {[d EXCEPT !.age = @ + 1] : d \in {e \in decided : e.age + 1 < Hold}}

Aged(lane) ==
  [native  |-> Older(lane.native),
   local   |-> Older(lane.local),
   decided |-> AgedDecisions(lane.decided)]

-----------------------------------------------------------------------------
(* What resolve_readings promises. *)

OneOrNone == {Reading(p, c) : p \in Plates, c \in 0..100} \cup {NoReading}

(* A plate that no operator is asked about was read by the camera or by
   several frames or very surely by one, and nobody read another one.  The
   branches of resolve_readings pick a plate by comparing confidences; the
   reasons to hold it are spread over them and _finish. *)
AcceptedIsCertain ==
  \A n, l \in OneOrNone, sure \in BOOLEAN :
    LET d == Resolve(n, l, sure)
    IN ~d.review =>
         /\ d.plate # NoPlate
         /\ \A r \in {n, l} : r.plate \in {d.plate, NoPlate}
         /\ \E r \in {n, l} : r.plate = d.plate /\ r.conf >= 75
         /\ n.plate = NoPlate => sure \/ l.conf >= 92
=============================================================================

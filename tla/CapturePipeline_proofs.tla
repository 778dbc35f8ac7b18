----------------------- MODULE CapturePipeline_proofs -----------------------
(***************************************************************************)
(* What the way from a plate to a session keeps, for any number of         *)
(* vehicles, callbacks, crashes, exceptions and switched modules.          *)
(***************************************************************************)
EXTENDS CapturePipeline, SequenceTheorems, WellFoundedInduction, TLAPS

-----------------------------------------------------------------------------
(* resolve_readings *)

PlateOrNone == Plates \cup {NoPlate}
Taking == [plate : PlateOrNone, conf : 0..100]

LEMMA NoPlateIsNone == NoPlate \notin Plates
BY PlatesAssumption

LEMMA TakingTypes ==
  /\ NoReading \in Taking /\ Absent(NoReading)
  /\ \A p \in Plates, c \in 0..100 : Reading(p, c) \in Taking /\ ~Absent(Reading(p, c))
<1>1. 0 \in 0..100
  OBVIOUS
<1>2. NoReading \in Taking /\ Absent(NoReading)
  BY <1>1 DEF NoReading, Reading, Taking, PlateOrNone, Absent
<1>3. ASSUME NEW p \in Plates, NEW c \in 0..100
      PROVE  Reading(p, c) \in Taking /\ ~Absent(Reading(p, c))
  BY NoPlateIsNone DEF Reading, Taking, PlateOrNone, Absent
<1> QED BY <1>2, <1>3

LEMMA TakenPlate ==
  ASSUME NEW r \in Taking
  PROVE  r.conf \in 0..100 /\ (~Absent(r) => r.plate \in Plates)
BY DEF Taking, PlateOrNone, Absent

(* The plate that is chosen was read by one of the two. *)
LEMMA ChoiceType ==
  ASSUME NEW n \in Taking, NEW l \in Taking, ~Absent(n) \/ ~Absent(l)
  PROVE  /\ Choice(n, l) \in [plate : Plates, conf : 0..100, review : BOOLEAN]
         /\ Choice(n, l).plate \in {n.plate, l.plate}
         /\ Choice(n, l).conf \in {n.conf, l.conf}
<1> DEFINE alike == Similarity[<<n.plate, l.plate>>] >= AlikeToFuse
<1>1. \A r \in {n, l} : /\ r.conf \in 0..100
                        /\ ~Absent(r) => r.plate \in Plates
  BY TakenPlate
<1>2. CASE Absent(l)
  <2>1. Choice(n, l) = Chosen(n, FALSE)
    BY <1>2 DEF Choice
  <2> QED BY <1>1, <1>2, <2>1 DEF Chosen
<1>3. CASE Absent(n)
  <2>1. Choice(n, l) = Chosen(l, FALSE)
    BY <1>3 DEF Choice
  <2> QED BY <1>1, <1>3, <2>1 DEF Chosen
<1>4. CASE ~Absent(n) /\ ~Absent(l)
  <2>1. \E r \in {n, l}, b \in BOOLEAN : Choice(n, l) = Chosen(r, b)
    BY <1>4 DEF Choice
  <2> QED BY <1>1, <1>4, <2>1 DEF Chosen
<1> QED BY <1>2, <1>3, <1>4

LEMMA ResolveType ==
  ASSUME NEW n \in Taking, NEW l \in Taking, ~Absent(n) \/ ~Absent(l), NEW sure \in BOOLEAN
  PROVE  /\ Resolve(n, l, sure) \in [plate : Plates, conf : 0..100, review : BOOLEAN]
         /\ Resolve(n, l, sure).plate = Choice(n, l).plate
         /\ Resolve(n, l, sure).conf = Choice(n, l).conf
         /\ ~Resolve(n, l, sure).review =>
              /\ ~Disagree(n, l)
              /\ Choice(n, l).conf >= MinAuto
              /\ ~(Absent(n) /\ Choice(n, l).conf < StrictSingle /\ ~sure)
<1>1. Choice(n, l) \in [plate : Plates, conf : 0..100, review : BOOLEAN]
  BY ChoiceType
<1>2. PICK held \in BOOLEAN :
        held <=> \/ Choice(n, l).review \/ Disagree(n, l) \/ Choice(n, l).conf < MinAuto
                 \/ Absent(n) /\ Choice(n, l).conf < StrictSingle /\ ~sure
  OBVIOUS
<1>3. Resolve(n, l, sure) = [Choice(n, l) EXCEPT !.review = held]
  BY <1>2, Zenon DEF Resolve
<1>4. /\ Resolve(n, l, sure) \in [plate : Plates, conf : 0..100, review : BOOLEAN]
      /\ Resolve(n, l, sure).plate = Choice(n, l).plate
      /\ Resolve(n, l, sure).conf = Choice(n, l).conf
      /\ Resolve(n, l, sure).review = held
  BY <1>1, <1>3
<1>5. Choice(n, l).conf \in 0..100
  BY <1>1
<1> QED BY <1>2, <1>4, <1>5 DEF MinAuto, StrictSingle

(* Whose plate it is: an accepted plate is every reader's that read one.   *)
LEMMA AcceptedBySomebody ==
  ASSUME NEW n \in Taking, NEW l \in Taking, ~Absent(n) \/ ~Absent(l), NEW sure \in BOOLEAN,
         ~Resolve(n, l, sure).review
  PROVE  /\ ~Absent(n) => Resolve(n, l, sure).plate = n.plate
         /\ ~Absent(l) => Resolve(n, l, sure).plate = l.plate
<1>1. ~Disagree(n, l) /\ Resolve(n, l, sure).plate = Choice(n, l).plate
  BY ResolveType
<1>2. Choice(n, l).plate \in {n.plate, l.plate} /\ Choice(n, l).plate \in Plates
  BY ChoiceType
<1> QED BY <1>1, <1>2, PlatesAssumption DEF Disagree, Absent

(* The chosen plate comes with the confidence of a reader that read it,    *)
(* when the readers do not contradict each other.                          *)
LEMMA ChosenFromOne ==
  ASSUME NEW n \in Taking, NEW l \in Taking, ~Absent(n) \/ ~Absent(l), ~Disagree(n, l)
  PROVE  /\ \E r \in {n, l} : /\ Choice(n, l).plate = r.plate /\ Choice(n, l).conf = r.conf
                             /\ ~Absent(r)
         /\ Absent(n) => Choice(n, l).plate = l.plate /\ Choice(n, l).conf = l.conf
<1>1. CASE Absent(l)
  <2>1. Choice(n, l) = Chosen(n, FALSE)
    BY <1>1 DEF Choice
  <2> QED BY <1>1, <2>1 DEF Chosen
<1>2. CASE Absent(n)
  <2>1. Choice(n, l) = Chosen(l, FALSE)
    BY <1>2 DEF Choice
  <2> QED BY <1>2, <2>1 DEF Chosen
<1>3. CASE ~Absent(n) /\ ~Absent(l)
  <2>1. \E r \in {n, l} : Choice(n, l) = Chosen(r, FALSE)
    BY <1>3 DEF Choice, Disagree
  <2> QED BY <1>3, <2>1 DEF Chosen
<1> QED BY <1>1, <1>2, <1>3

(* A plate that opens a gate without an operator was read by the camera,   *)
(* by several frames or very surely by one, with enough confidence, and no *)
(* reader saw another one (resolve_readings).                              *)
THEOREM AcceptedCertain == AcceptedIsCertain
<1> SUFFICES ASSUME NEW n \in OneOrNone, NEW l \in OneOrNone, NEW sure \in BOOLEAN,
                    ~Resolve(n, l, sure).review
             PROVE  /\ Resolve(n, l, sure).plate # NoPlate
                    /\ \A r \in {n, l} : r.plate \in {Resolve(n, l, sure).plate, NoPlate}
                    /\ \E r \in {n, l} : r.plate = Resolve(n, l, sure).plate /\ r.conf >= 75
                    /\ n.plate = NoPlate => sure \/ l.conf >= 92
  BY Zenon DEF AcceptedIsCertain
<1>1. n \in Taking /\ l \in Taking
  BY TakingTypes DEF OneOrNone
<1>2. CASE Absent(n) /\ Absent(l)
  <2>1. Choice(n, l) = Chosen(NoReading, TRUE)
    BY <1>2 DEF Choice
  <2>2. Choice(n, l).review
    BY <2>1 DEF Chosen
  <2>3. PICK held \in BOOLEAN :
          held <=> \/ Choice(n, l).review \/ Disagree(n, l) \/ Choice(n, l).conf < MinAuto
                   \/ Absent(n) /\ Choice(n, l).conf < StrictSingle /\ ~sure
    OBVIOUS
  <2>4. Resolve(n, l, sure) = [Choice(n, l) EXCEPT !.review = held]
    BY <2>3, Zenon DEF Resolve
  <2>5. Resolve(n, l, sure).review = held
    BY <2>1, <2>4 DEF Chosen
  <2> QED BY <2>2, <2>3, <2>5
<1>3. CASE ~Absent(n) \/ ~Absent(l)
  <2> DEFINE d == Resolve(n, l, sure)
  <2>1. /\ d.plate = Choice(n, l).plate /\ ~Disagree(n, l)
        /\ Choice(n, l).conf >= 75
        /\ ~(Absent(n) /\ Choice(n, l).conf < 92 /\ ~sure)
    BY <1>1, <1>3, ResolveType DEF MinAuto, StrictSingle
  <2>2. (~Absent(n) => d.plate = n.plate) /\ (~Absent(l) => d.plate = l.plate)
    BY <1>1, <1>3, AcceptedBySomebody
  <2>3. /\ \E r \in {n, l} : /\ Choice(n, l).plate = r.plate /\ Choice(n, l).conf = r.conf
                            /\ ~Absent(r)
        /\ Absent(n) => Choice(n, l).conf = l.conf
    BY <1>1, <1>3, <2>1, ChosenFromOne
  <2>4. l.conf \in 0..100
    BY <1>1, TakenPlate
  <2> HIDE DEF d
  <2>5. d.plate # NoPlate /\ \A r \in {n, l} : r.plate \in {d.plate, NoPlate}
    BY <2>1, <2>2, <2>3 DEF Absent
  <2>6. \E r \in {n, l} : r.plate = d.plate /\ r.conf >= 75
    BY <2>1, <2>3
  <2>7. n.plate = NoPlate => sure \/ l.conf >= 92
    BY <2>1, <2>3, <2>4 DEF Absent
  <2> QED BY <2>5, <2>6, <2>7 DEF d
<1> QED BY <1>2, <1>3

-----------------------------------------------------------------------------
(* What is always the case *)

(* A vehicle's plate may be misread, but never as one that is unlike it. *)
MisreadingsAlike == \A v \in Fused : \A p, q \in ReadAs[v] : Alike(p, q)

(* An outcome that nobody is asked about has a plate its vehicle was read as. *)
WellRead(o) == ~o.review => o.plate \in ReadAs[o.vehicle]

OfFused(o) == o.vehicle \in Fused /\ WellRead(o)
FusedOutcomes == {o \in Outcomes : OfFused(o)}

ReadRight(r) == r.vehicle \in Fused /\ r.plate \in ReadAs[r.vehicle]
GoodSlot(slot) == slot \subseteq Candidates /\ \A c \in slot : ReadRight(c.reading)
GoodDecided(decided) ==
  /\ decided \subseteq Decided
  /\ \A d \in decided : ReadRight(d)
  /\ MisreadingsAlike => \A d, e \in decided : d.vehicle = e.vehicle => d = e

GoodLane(l) ==
  /\ l \in Lanes
  /\ GoodSlot(l.native) /\ GoodSlot(l.local)
  /\ GoodDecided(l.decided)

(* What was stored, and whether rows only gained others and marks. *)
WorkerRead(rows, v) ==
  \E i \in DOMAIN rows : rows[i].vehicle = v /\ rows[i].source = "worker"
Grown(rows, next) ==
  /\ DOMAIN rows \subseteq DOMAIN next
  /\ \A i \in DOMAIN rows : /\ next[i].vehicle = rows[i].vehicle
                            /\ next[i].source = rows[i].source

GoodRows     == {r \in Rows : r.fit => r.plate \in ReadAs[r.vehicle]}
GoodSessions == {s \in Sessions : s.plate \in ReadAs[s.vehicle]}

(* What is queued: an event, or the retry of a capture that is there. *)
HasRow(i, rows) ==
  i.kind = "plate-event" => \E k \in DOMAIN rows : VisitOf(rows[k]) = i.visit
GoodItems(rows) ==
  {i \in Items : /\ i.kind = "PlateRecognized" => i.reading.plate \in ReadAs[i.reading.vehicle]
                 /\ HasRow(i, rows)}

(* An event is queued once, and after its key is marked it is gone. *)
InQueue(queue, v) == \E k \in DOMAIN queue : IsEventOf(queue[k], v)
GoodEvents(queue, sent, done) ==
  \A v \in Vehicles :
    /\ v \in done \/ InQueue(queue, v) => v \in sent
    /\ v \in done => ~InQueue(queue, v)
    /\ \A j, k \in DOMAIN queue : IsEventOf(queue[j], v) /\ IsEventOf(queue[k], v) => j = k

(* What a task still persists; only the loop has outcomes that were not fused. *)
OutcomesOf(t) == {o \in Outcomes : WellRead(o) /\ (t # "loop" => o.vehicle \in Fused)}

(* How far the loop got with an event that is not fused. *)
GotTo(w, v, rows, off, done) ==
  /\ w.pc = "todo" =>
       \E p \in Plates, c \in 0..100 : w.todo = <<Direct(v, "worker", p, c, FALSE)>>
  /\ w.pc \in {"stored", "opening"} => w.todo = <<>> /\ WorkerRead(rows, v)
  /\ w.pc = "ack" => WorkerRead(rows, v) \/ off \/ v \in done

(* off: the cameras are disabled.  done: the vehicles whose key is marked or
   whose reading the capture gate refused. *)
GoodTask(t, w, rows, off, done) ==
  /\ w \in Work
  /\ w.todo \in Seq(OutcomesOf(t)) /\ w.batch \in Seq(GoodItems(rows))
  /\ w.pc = "todo" => w.todo # <<>>
  /\ w.pc \in {"stored", "opening"} => w.row \in DOMAIN rows
  /\ t # "loop" => w.pc # "ack" /\ w.item = {}
  /\ \A i \in w.item :
       /\ i \in GoodItems(rows)
       /\ \A v \in Vehicles \ Fused : IsEventOf(i, v) => GotTo(w, v, rows, off, done)

GoodTasks(f, rows, off, done) ==
  /\ f \in [Tasks -> Work]
  /\ \A t \in Tasks : GoodTask(t, f[t], rows, off, done)

CountInv ==
  /\ left \subseteq Vehicles /\ on \subseteq Switches
  /\ natives \in [Vehicles -> 0..MaxNative]
  /\ faults \in 0..MaxFaults /\ switched \in 0..MaxSwitches
RowInv ==
  /\ captures \in Seq(GoodRows) /\ sessions \in Seq(GoodSessions)
  /\ seen \subseteq DOMAIN captures /\ refused \subseteq Visits
QueueInv ==
  /\ outbox \in Seq(GoodItems(captures))
  /\ published \subseteq Vehicles /\ processed \subseteq Vehicles
  /\ GoodEvents(outbox, published, processed)
LaneInv == GoodLane(lane)
CameraOff == "camera" \notin on
Excused == processed \cup {v \in Vehicles : WasRefused(v)}
TaskInv == GoodTasks(work, captures, CameraOff, Excused)

IInv == CountInv /\ RowInv /\ QueueInv /\ LaneInv /\ TaskInv

(* The vehicle got its session or its operator, or the capture gate refused
   what was read. *)
Settled(v) ==
  \/ WasRefused(v)
  \/ \E i \in DOMAIN sessions : sessions[i].vehicle = v
  \/ \E i \in DOMAIN captures : captures[i].vehicle = v /\ ~captures[i].fit

Handling(v) ==
  /\ Loop.pc = "stored"
  /\ captures[Loop.row].vehicle = v /\ captures[Loop.row].source = "worker"

(* The plates of vehicles before cameras that only take pictures are told
   apart from any other vehicle's. *)
PlatesTellApart ==
  \A v \in Vehicles \ Fused, w \in Vehicles : v # w =>
    \A p \in ReadAs[v], q \in ReadAs[w] : ~Alike(p, q)

SettledInv ==
  faults = 0 /\ switched = 0 =>
    /\ on = Switches
    /\ \A v \in Vehicles \ Fused :
         /\ IsCaptured(v) => Settled(v) \/ Handling(v)
         /\ v \in processed => Settled(v)

-----------------------------------------------------------------------------
(* The coordinator keeps its lane good *)

LEMMA SimilarityOfPlates ==
  \A p, q \in Plates : /\ Similarity[<<p, q>>] \in 0..100
                       /\ Similarity[<<p, p>>] = 100
                       /\ Similarity[<<p, q>>] = Similarity[<<q, p>>]
<1>1. Similarity \in [Plates \X Plates -> 0..100]
  BY PlatesAssumption
<1>2. ASSUME NEW p \in Plates, NEW q \in Plates
      PROVE  Similarity[<<p, q>>] \in 0..100
  <2>1. <<p, q>> \in Plates \X Plates
    OBVIOUS
  <2> QED BY <1>1, <2>1
<1>3. \A p, q \in Plates : Similarity[<<p, p>>] = 100 /\ Similarity[<<p, q>>] = Similarity[<<q, p>>]
  BY PlatesAssumption
<1> QED BY <1>2, <1>3

LEMMA AlikeIsSymmetric ==
  \A p, q \in Plates : Alike(p, p) /\ (Alike(p, q) <=> Alike(q, p))
<1>1. ASSUME NEW p \in Plates, NEW q \in Plates
      PROVE  Alike(p, p) /\ (Alike(p, q) <=> Alike(q, p))
  <2>1. Similarity[<<p, p>>] = 100 /\ Similarity[<<p, q>>] = Similarity[<<q, p>>]
    BY SimilarityOfPlates
  <2> QED BY <2>1 DEF Alike
<1> QED BY <1>1

LEMMA FusedIsVehicles == Fused \subseteq Vehicles
BY VehiclesAssumption

LEMMA ZeroAges == 0 \in 0..PairWindow + 1 /\ 0 \in 0..Hold - 1
BY TimesAssumption

(* What a slot holds is taken as the reading it is. *)
LEMMA TakenType ==
  ASSUME NEW slot, GoodSlot(slot)
  PROVE  /\ Taken(slot) \in Taking
         /\ slot = {} => Absent(Taken(slot))
         /\ slot # {} => /\ ~Absent(Taken(slot))
                         /\ VehicleOf(slot) \in Fused
                         /\ Taken(slot).plate \in ReadAs[VehicleOf(slot)]
<1>1. CASE slot = {}
  BY <1>1, TakingTypes DEF Taken
<1>2. CASE slot # {}
  <2> DEFINE c == CHOOSE c \in slot : TRUE
  <2>1. c \in slot
    BY <1>2
  <2>2. c \in Candidates /\ ReadRight(c.reading)
    BY <2>1 DEF GoodSlot
  <2> HIDE DEF c
  <2>3. c.reading \in Readings
    BY <2>2 DEF Candidates
  <2>4. c.reading.plate \in Plates /\ c.reading.conf \in 0..100
    BY <2>3 DEF Readings
  <2>5. Taken(slot) = Reading(c.reading.plate, c.reading.conf)
    BY <1>2 DEF Taken, c
  <2>6. VehicleOf(slot) = c.reading.vehicle
    BY DEF VehicleOf, c
  <2>7. Taken(slot).plate = c.reading.plate
    BY <2>5 DEF Reading
  <2> QED BY <1>2, <2>2, <2>4, <2>5, <2>6, <2>7, TakingTypes DEF ReadRight
<1> QED BY <1>1, <1>2

(* _decide: an outcome for the vehicle that was read. *)
LEMMA OutcomeType ==
  ASSUME NEW n, NEW l, GoodSlot(n), GoodSlot(l), n # {} \/ l # {}, NEW decided
  PROVE  /\ Outcome(n, l, decided) \in FusedOutcomes
         /\ Outcome(n, l, decided).suppressed
              <=> DuplicateOf(decided, Outcome(n, l, decided).plate)
<1> DEFINE sure == \E c \in l : c.reading.sure
           d == Resolve(Taken(n), Taken(l), sure)
           v == DecidedFor(n, l)
           o == Outcome(n, l, decided)
<1>1. PICK b \in BOOLEAN : b = sure
  OBVIOUS
<1>2. /\ Taken(n) \in Taking /\ Taken(l) \in Taking
      /\ ~Absent(Taken(n)) \/ ~Absent(Taken(l))
  BY TakenType
<1>3. /\ d \in [plate : Plates, conf : 0..100, review : BOOLEAN]
      /\ ~d.review => /\ ~Absent(Taken(n)) => d.plate = Taken(n).plate
                      /\ ~Absent(Taken(l)) => d.plate = Taken(l).plate
  <2> HIDE DEF sure
  <2> QED BY <1>1, <1>2, ResolveType, AcceptedBySomebody
<1>4. v \in Fused /\ (~d.review => d.plate \in ReadAs[v])
  <2>1. CASE l # {}
    <3>1. v = VehicleOf(l)
      BY <2>1 DEF DecidedFor
    <3>2. /\ ~Absent(Taken(l)) /\ VehicleOf(l) \in Fused
          /\ Taken(l).plate \in ReadAs[VehicleOf(l)]
      BY <2>1, TakenType
    <3> HIDE DEF v, d
    <3> QED BY <1>3, <3>1, <3>2
  <2>2. CASE l = {}
    <3>1. v = VehicleOf(n)
      BY <2>2 DEF DecidedFor
    <3>2. /\ ~Absent(Taken(n)) /\ VehicleOf(n) \in Fused
          /\ Taken(n).plate \in ReadAs[VehicleOf(n)]
      BY <2>2, TakenType
    <3> HIDE DEF v, d
    <3> QED BY <1>3, <3>1, <3>2
  <2> QED BY <2>1, <2>2
<1>5. PICK dup \in BOOLEAN : dup = DuplicateOf(decided, d.plate)
  BY DEF DuplicateOf
<1>6. PICK source \in {"site", "worker"} : source = IF l # {} THEN "worker" ELSE "site"
  OBVIOUS
<1>7. o = [vehicle |-> v, source |-> source, plate |-> d.plate, conf |-> d.conf,
           review |-> d.review, suppressed |-> dup]
  BY <1>5, <1>6, Zenon DEF Outcome
<1> HIDE DEF d, v, o
<1>8. o \in Outcomes
  BY <1>3, <1>4, <1>7, FusedIsVehicles DEF Outcomes
<1>9. o.vehicle = v /\ o.plate = d.plate /\ o.review = d.review /\ o.suppressed = dup
  BY <1>7
<1>10. o \in FusedOutcomes /\ (o.suppressed <=> DuplicateOf(decided, o.plate))
  BY <1>4, <1>5, <1>8, <1>9 DEF FusedOutcomes, OfFused, WellRead
<1> QED BY <1>10 DEF o

(* What was accepted is remembered, and nothing like it was before. *)
LEMMA RememberedIsGood ==
  ASSUME NEW decided, GoodDecided(decided), NEW o \in FusedOutcomes,
         o.suppressed <=> DuplicateOf(decided, o.plate)
  PROVE  GoodDecided(Remembered(decided, o))
<1>1. CASE o.suppressed \/ o.review
  BY <1>1 DEF Remembered
<1>2. CASE ~o.suppressed /\ ~o.review
  <2> DEFINE e == [vehicle |-> o.vehicle, plate |-> o.plate, age |-> 0]
  <2>1. Remembered(decided, o) = decided \cup {e}
    BY <1>2 DEF Remembered
  <2>2. o \in Outcomes /\ o.vehicle \in Fused /\ o.plate \in ReadAs[o.vehicle]
    BY <1>2 DEF FusedOutcomes, OfFused, WellRead
  <2>3. o.vehicle \in Vehicles /\ o.plate \in Plates
    BY <2>2 DEF Outcomes
  <2>4. e \in Decided /\ ReadRight(e)
    BY <2>2, <2>3, ZeroAges DEF Decided, ReadRight
  <2>5. ASSUME MisreadingsAlike, NEW d \in decided
        PROVE  d.vehicle # e.vehicle
    <3>1. ~Alike(d.plate, o.plate)
      BY <1>2 DEF DuplicateOf
    <3>2. d.vehicle \in Fused /\ d.plate \in ReadAs[d.vehicle]
      BY DEF GoodDecided, ReadRight
    <3> QED BY <2>2, <2>5, <3>1, <3>2, Zenon DEF MisreadingsAlike
  <2>6. /\ decided \subseteq Decided
        /\ \A d \in decided : ReadRight(d)
        /\ MisreadingsAlike => \A d, f \in decided : d.vehicle = f.vehicle => d = f
    BY DEF GoodDecided
  <2> HIDE DEF e
  <2>7. MisreadingsAlike =>
          \A d, f \in decided \cup {e} : d.vehicle = f.vehicle => d = f
    BY <2>5, <2>6
  <2>8. decided \cup {e} \subseteq Decided /\ \A d \in decided \cup {e} : ReadRight(d)
    BY <2>4, <2>6
  <2> QED BY <2>1, <2>7, <2>8 DEF GoodDecided
<1> QED BY <1>1, <1>2

GoodStep(s) ==
  s \in [lane : Lanes, outcomes : Seq(FusedOutcomes)] /\ GoodLane(s.lane)

LEMMA LaneOf ==
  ASSUME NEW n, NEW l, NEW decided, GoodSlot(n), GoodSlot(l), GoodDecided(decided)
  PROVE  GoodLane([native |-> n, local |-> l, decided |-> decided])
<1>1. n \in SUBSET Candidates /\ l \in SUBSET Candidates /\ decided \in SUBSET Decided
  BY DEF GoodSlot, GoodDecided
<1> QED BY <1>1 DEF GoodLane, Lanes

LEMMA SlotsOf ==
  ASSUME NEW l, GoodLane(l)
  PROVE  /\ l = [native |-> l.native, local |-> l.local, decided |-> l.decided]
         /\ GoodSlot(l.native) /\ GoodSlot(l.local) /\ GoodDecided(l.decided)
         /\ l["native"] = l.native /\ l["local"] = l.local
BY DEF GoodLane, Lanes

LEMMA StepOf ==
  ASSUME NEW l, GoodLane(l), NEW outcomes \in Seq(FusedOutcomes)
  PROVE  GoodStep(Step(l, outcomes)) /\ Step(l, outcomes).lane = l
<1>1. l \in Lanes
  BY DEF GoodLane
<1>2. /\ Step(l, outcomes) \in [lane : Lanes, outcomes : Seq(FusedOutcomes)]
      /\ Step(l, outcomes).lane = l
  BY <1>1 DEF Step
<1> QED BY <1>2 DEF GoodStep

LEMMA NoSlot == GoodSlot({})
BY DEF GoodSlot

LEMMA DecideIsGood ==
  ASSUME NEW s, GoodStep(s), s.lane.native # {} \/ s.lane.local # {}
  PROVE  GoodStep(Decide(s))
<1> DEFINE l == s.lane
           o == Outcome(l.native, l.local, l.decided)
           next == [native |-> {}, local |-> {}, decided |-> Remembered(l.decided, o)]
<1>1. GoodLane(l) /\ s.outcomes \in Seq(FusedOutcomes)
  BY DEF GoodStep
<1>2. o \in FusedOutcomes /\ (o.suppressed <=> DuplicateOf(l.decided, o.plate))
  BY <1>1, SlotsOf, OutcomeType
<1>3. Decide(s) = Step(next, Append(s.outcomes, o))
  BY Zenon DEF Decide
<1> HIDE DEF o, l
<1>4. GoodDecided(Remembered(l.decided, o))
  BY <1>1, <1>2, SlotsOf, RememberedIsGood
<1>5. GoodLane(next)
  BY <1>4, NoSlot, LaneOf
<1>6. Append(s.outcomes, o) \in Seq(FusedOutcomes)
  BY <1>1, <1>2
<1> HIDE DEF next
<1> QED BY <1>3, <1>5, <1>6, StepOf

LEMMA SlotReplaced ==
  ASSUME NEW l, GoodLane(l), NEW x, GoodSlot(x), NEW slot \in Slots
  PROVE  /\ GoodLane([l EXCEPT ![slot] = x])
         /\ [l EXCEPT ![slot] = x][slot] = x
         /\ [l EXCEPT ![slot] = x].decided = l.decided
<1> DEFINE m == [l EXCEPT ![slot] = x]
<1>1. l \in Lanes /\ x \in SUBSET Candidates
  BY DEF GoodLane, GoodSlot
<1>2. CASE slot = "native"
  <2>1. m \in Lanes /\ m.native = x /\ m.local = l.local /\ m.decided = l.decided
    BY <1>1, <1>2 DEF Lanes
  <2> HIDE DEF m
  <2>2. m[slot] = x /\ GoodLane(m)
    BY <1>2, <2>1 DEF GoodLane
  <2> QED BY <2>1, <2>2 DEF m
<1>3. CASE slot = "local"
  <2>1. m \in Lanes /\ m.native = l.native /\ m.local = x /\ m.decided = l.decided
    BY <1>1, <1>3 DEF Lanes
  <2> HIDE DEF m
  <2>2. m[slot] = x /\ GoodLane(m)
    BY <1>3, <2>1 DEF GoodLane
  <2> QED BY <2>1, <2>2 DEF m
<1> QED BY <1>2, <1>3 DEF Slots

LEMMA DecidedReplaced ==
  ASSUME NEW l, GoodLane(l), NEW x, GoodDecided(x)
  PROVE  GoodLane([l EXCEPT !.decided = x])
<1> DEFINE m == [l EXCEPT !.decided = x]
<1>1. l \in Lanes /\ x \in SUBSET Decided
  BY DEF GoodLane, GoodDecided
<1>2. m \in Lanes /\ m.native = l.native /\ m.local = l.local /\ m.decided = x
  BY <1>1 DEF Lanes
<1> HIDE DEF m
<1>3. GoodLane(m)
  BY <1>2 DEF GoodLane
<1> QED BY <1>3 DEF m

LEMMA DecideSlotIsGood ==
  ASSUME NEW s, GoodStep(s), NEW slot \in Slots, s.lane[slot] # {}
  PROVE  GoodStep(DecideSlot(s, slot))
<1> DEFINE l == s.lane
           n == IF slot = "native" THEN l.native ELSE {}
           m == IF slot = "native" THEN {} ELSE l.local
           o == Outcome(n, m, l.decided)
           kept == Remembered(l.decided, o)
           emptied == [l EXCEPT ![slot] = {}]
           next == [emptied EXCEPT !.decided = kept]
<1>1. GoodLane(l) /\ s.outcomes \in Seq(FusedOutcomes)
  BY DEF GoodStep
<1>2. GoodSlot(n) /\ GoodSlot(m) /\ (n # {} \/ m # {})
  BY <1>1, SlotsOf, NoSlot DEF Slots
<1>3. DecideSlot(s, slot) =
        Step([l EXCEPT ![slot] = {}, !.decided = Remembered(@, o)], Append(s.outcomes, o))
  BY Zenon DEF DecideSlot
<1>4. GoodLane(emptied) /\ emptied.decided = l.decided
  BY <1>1, SlotReplaced, NoSlot
<1>5. [l EXCEPT ![slot] = {}, !.decided = Remembered(@, o)] = next
  BY <1>4, Zenon
<1> HIDE DEF next
<1>6. DecideSlot(s, slot) = Step(next, Append(s.outcomes, o))
  BY <1>3, <1>5
<1> HIDE DEF n, m, l
<1>7. o \in FusedOutcomes /\ (o.suppressed <=> DuplicateOf(l.decided, o.plate))
  BY <1>2, OutcomeType
<1> HIDE DEF o
<1>8. GoodDecided(kept)
  BY <1>1, <1>7, SlotsOf, RememberedIsGood
<1> HIDE DEF kept, emptied
<1>9. GoodLane(next)
  BY <1>4, <1>8, DecidedReplaced DEF next
<1>10. Append(s.outcomes, o) \in Seq(FusedOutcomes)
  BY <1>1, <1>7
<1> QED BY <1>6, <1>9, <1>10, StepOf

LEMMA DecideOldIsGood ==
  ASSUME NEW s, GoodStep(s), NEW slot \in Slots
  PROVE  GoodStep(DecideStale(s, slot)) /\ GoodStep(DecideDue(s, slot))
<1>1. IsStale(s.lane[slot]) => s.lane[slot] # {}
  BY DEF IsStale
<1>2. IsDue(s.lane[slot]) => s.lane[slot] # {}
  BY DEF IsDue
<1> QED BY <1>1, <1>2, DecideSlotIsGood, Zenon DEF DecideStale, DecideDue

LEMMA NoOutcomes == <<>> \in Seq(FusedOutcomes)
OBVIOUS

(* offer: a reading that belongs to its vehicle comes in. *)
LEMMA OfferIsGood ==
  ASSUME NEW l, GoodLane(l), NEW slot \in Slots, NEW counterpart \in BOOLEAN,
         NEW r \in Readings, ReadRight(r)
  PROVE  GoodStep(Offer(l, slot, r, counterpart))
<1> DEFINE own   == DecideStale(Step(l, <<>>), slot)
           both  == DecideStale(own, Other(slot))
           new   == {[reading |-> r, age |-> 0]}
           taken == [both EXCEPT !.lane[slot] = new]
<1>1. Other(slot) \in Slots
  BY DEF Other, Slots
<1>2. GoodStep(both)
  <2>1. GoodStep(Step(l, <<>>))
    BY StepOf, NoOutcomes
  <2>2. GoodStep(own)
    BY <2>1, DecideOldIsGood
  <2> HIDE DEF own
  <2> QED BY <1>1, <2>2, DecideOldIsGood
<1>3. Offer(l, slot, r, counterpart) =
        IF taken.lane[Other(slot)] # {} \/ ~counterpart THEN Decide(taken) ELSE taken
  BY Zenon DEF Offer
<1>4. GoodSlot(new) /\ new # {}
  <2>1. [reading |-> r, age |-> 0] \in Candidates
    BY ZeroAges DEF Candidates
  <2> QED BY <2>1 DEF GoodSlot
<1> HIDE DEF both, new
<1>5. GoodLane([both.lane EXCEPT ![slot] = new]) /\ [both.lane EXCEPT ![slot] = new][slot] = new
  <2> DEFINE bl == both.lane
  <2>1. GoodLane(bl)
    BY <1>2 DEF GoodStep
  <2> HIDE DEF bl
  <2>2. GoodLane([bl EXCEPT ![slot] = new]) /\ [bl EXCEPT ![slot] = new][slot] = new
    BY <2>1, <1>4, SlotReplaced
  <2> QED BY <2>2 DEF bl
<1>6. taken = [both EXCEPT !.lane = [both.lane EXCEPT ![slot] = new]]
  BY Zenon
<1>7. GoodStep(taken) /\ taken.lane[slot] # {}
  <2> DEFINE nl == [both.lane EXCEPT ![slot] = new]
  <2>1. nl \in Lanes /\ both \in [lane : Lanes, outcomes : Seq(FusedOutcomes)]
    BY <1>2, <1>5 DEF GoodLane, GoodStep
  <2>2. GoodLane(nl) /\ nl[slot] # {}
    BY <1>4, <1>5
  <2> HIDE DEF nl, taken
  <2>3. taken = [both EXCEPT !.lane = nl]
    BY <1>6 DEF nl
  <2>4. taken \in [lane : Lanes, outcomes : Seq(FusedOutcomes)] /\ taken.lane = nl
    BY <2>1, <2>3
  <2> QED BY <2>2, <2>4 DEF GoodStep
<1> HIDE DEF taken
<1>8. taken.lane.native # {} \/ taken.lane.local # {}
  BY <1>7, SlotsOf DEF GoodStep, Slots
<1>9. GoodStep(Decide(taken))
  BY <1>7, <1>8, DecideIsGood
<1> QED BY <1>3, <1>7, <1>9

LEMMA FlushedIsGood ==
  ASSUME NEW l, GoodLane(l)
  PROVE  GoodStep(Flushed(l))
<1> DEFINE first == DecideDue(Step(l, <<>>), "native")
<1>1. GoodStep(Step(l, <<>>)) /\ {"native", "local"} \subseteq Slots
  BY StepOf, NoOutcomes DEF Slots
<1>2. GoodStep(first)
  BY <1>1, DecideOldIsGood
<1> HIDE DEF first
<1>3. GoodStep(DecideDue(first, "local"))
  BY <1>1, <1>2, DecideOldIsGood
<1> QED BY <1>3 DEF Flushed, first

LEMMA NewLaneIsGood == GoodLane(NewLane)
<1>1. GoodDecided({})
  BY DEF GoodDecided
<1> QED BY <1>1, NoSlot, LaneOf DEF NewLane

(* Time goes by: an entry past its hold is forgotten. *)
LEMMA OlderIsGood ==
  ASSUME NEW slot, GoodSlot(slot)
  PROVE  GoodSlot(Older(slot))
<1>1. ASSUME NEW c \in slot
      PROVE  /\ [c EXCEPT !.age = IF @ > PairWindow THEN @ ELSE @ + 1] \in Candidates
             /\ ReadRight([c EXCEPT !.age = IF @ > PairWindow THEN @ ELSE @ + 1].reading)
  <2> DEFINE a == IF c.age > PairWindow THEN c.age ELSE c.age + 1
  <2>1. c \in Candidates /\ ReadRight(c.reading)
    BY DEF GoodSlot
  <2>2. c.age \in 0..PairWindow + 1
    BY <2>1 DEF Candidates
  <2>3. a \in 0..PairWindow + 1
    BY <2>2, TimesAssumption
  <2> HIDE DEF a
  <2>4. [c EXCEPT !.age = a] \in Candidates /\ [c EXCEPT !.age = a].reading = c.reading
    BY <2>1, <2>3 DEF Candidates
  <2>5. [c EXCEPT !.age = IF @ > PairWindow THEN @ ELSE @ + 1] = [c EXCEPT !.age = a]
    BY Zenon DEF a
  <2> QED BY <2>1, <2>4, <2>5
<1> QED BY <1>1 DEF Older, GoodSlot

LEMMA AgedDecisionsAreGood ==
  ASSUME NEW decided, GoodDecided(decided)
  PROVE  GoodDecided(AgedDecisions(decided))
<1>1. ASSUME NEW f \in AgedDecisions(decided)
      PROVE  \E d \in decided : /\ f = [d EXCEPT !.age = @ + 1] /\ f \in Decided
                                /\ f.vehicle = d.vehicle /\ f.plate = d.plate
  <2>1. PICK d \in decided : d.age + 1 < Hold /\ f = [d EXCEPT !.age = @ + 1]
    BY DEF AgedDecisions
  <2>2. d \in Decided
    BY DEF GoodDecided
  <2>3. d.age \in 0..Hold - 1
    BY <2>2 DEF Decided
  <2>4. d.age + 1 \in 0..Hold - 1
    BY <2>1, <2>3, TimesAssumption
  <2>5. f = [d EXCEPT !.age = d.age + 1]
    BY <2>1
  <2>6. f \in Decided /\ f.vehicle = d.vehicle /\ f.plate = d.plate
    BY <2>2, <2>4, <2>5 DEF Decided
  <2> QED BY <2>1, <2>6
<1>2. \A d \in decided : ReadRight(d)
  BY DEF GoodDecided
<1>3. \A f \in AgedDecisions(decided) : f \in Decided /\ ReadRight(f)
  BY <1>1, <1>2 DEF ReadRight
<1>4. ASSUME MisreadingsAlike, NEW f \in AgedDecisions(decided),
             NEW g \in AgedDecisions(decided), f.vehicle = g.vehicle
      PROVE  f = g
  <2>1. PICK d \in decided : f = [d EXCEPT !.age = @ + 1] /\ f.vehicle = d.vehicle
    BY <1>1
  <2>2. PICK e \in decided : g = [e EXCEPT !.age = @ + 1] /\ g.vehicle = e.vehicle
    BY <1>1
  <2>3. d = e
    BY <1>4, <2>1, <2>2 DEF GoodDecided
  <2> QED BY <2>1, <2>2, <2>3
<1> QED BY <1>3, <1>4 DEF GoodDecided

LEMMA AgedIsGood ==
  ASSUME NEW l, GoodLane(l)
  PROVE  GoodLane(Aged(l))
BY SlotsOf, OlderIsGood, AgedDecisionsAreGood, LaneOf DEF Aged

-----------------------------------------------------------------------------
(* Sequences, rows and items *)

LEMMA SeqOfLarger ==
  ASSUME NEW S, NEW T, S \subseteq T, NEW q \in Seq(S)
  PROVE  q \in Seq(T)
<1>1. Len(q) \in Nat /\ q \in [1..Len(q) -> S]
  OBVIOUS
<1>2. q \in [1..Len(q) -> T]
  BY <1>1
<1> QED BY <1>1, <1>2

LEMMA GrownIsTransitive ==
  ASSUME NEW rows, NEW next, Grown(rows, next)
  PROVE  /\ GoodItems(rows) \subseteq GoodItems(next)
         /\ \A v : WorkerRead(rows, v) => WorkerRead(next, v)
<1>1. \A k \in DOMAIN rows : k \in DOMAIN next /\ VisitOf(next[k]) = VisitOf(rows[k])
  BY DEF Grown, VisitOf
<1>2. \A i : HasRow(i, rows) => HasRow(i, next)
  BY <1>1 DEF HasRow
<1>3. \A v : WorkerRead(rows, v) => WorkerRead(next, v)
  BY DEF Grown, WorkerRead
<1> QED BY <1>2, <1>3 DEF GoodItems

(* What a task has in hand stays good while rows and marks only grow. *)
LEMMA TaskStaysGood ==
  ASSUME NEW t, NEW w, NEW rows, NEW next, NEW off \in BOOLEAN, NEW off2 \in BOOLEAN,
         NEW done, NEW done2,
         GoodTask(t, w, rows, off, done),
         Grown(rows, next), done \subseteq done2, off = off2 \/ w.pc # "ack"
  PROVE  GoodTask(t, w, next, off2, done2)
<1>1. GoodItems(rows) \subseteq GoodItems(next) /\ \A v : WorkerRead(rows, v) => WorkerRead(next, v)
  BY GrownIsTransitive
<1>2. w.batch \in Seq(GoodItems(next))
  <2>1. w.batch \in Seq(GoodItems(rows))
    BY DEF GoodTask
  <2> QED BY <1>1, <2>1, SeqOfLarger
<1>3. w.pc \in {"stored", "opening"} => w.row \in DOMAIN next
  BY DEF GoodTask, Grown
<1>4. ASSUME NEW i \in w.item
      PROVE  /\ i \in GoodItems(next)
             /\ \A v \in Vehicles \ Fused : IsEventOf(i, v) => GotTo(w, v, next, off2, done2)
  <2>1. i \in GoodItems(next)
    BY <1>1 DEF GoodTask
  <2>2. ASSUME NEW v \in Vehicles \ Fused, IsEventOf(i, v)
        PROVE  GotTo(w, v, next, off2, done2)
    <3>1. GotTo(w, v, rows, off, done)
      BY <2>2 DEF GoodTask
    <3> QED BY <3>1, <1>1 DEF GotTo
  <2> QED BY <2>1, <2>2
<1> QED BY <1>2, <1>3, <1>4 DEF GoodTask

LEMMA OutcomesOfTask ==
  \A t : FusedOutcomes \subseteq OutcomesOf(t)
BY DEF FusedOutcomes, OfFused, OutcomesOf

LEMMA IdleIsGood ==
  ASSUME NEW t, NEW rows, NEW off, NEW done
  PROVE  GoodTask(t, Idle, rows, off, done)
<1>1. Idle \in Work
  BY DEF Idle, Work, Stations
<1>2. <<>> \in Seq(OutcomesOf(t)) /\ <<>> \in Seq(GoodItems(rows))
  OBVIOUS
<1> QED BY <1>1, <1>2 DEF GoodTask, Idle

(* A task without an item, or whose item came as far as its outcomes say,
   turns to the next outcome. *)
GoodHand(t, w, rows, off, done) ==
  /\ w \in Work
  /\ w.todo \in Seq(OutcomesOf(t)) /\ w.batch \in Seq(GoodItems(rows))
  /\ t # "loop" => w.item = {}
  /\ \A i \in w.item :
       /\ i \in GoodItems(rows)
       /\ \A v \in Vehicles \ Fused : IsEventOf(i, v) =>
            \/ \E p \in Plates, c \in 0..100 : w.todo = <<Direct(v, "worker", p, c, FALSE)>>
            \/ w.todo = <<>> /\ (WorkerRead(rows, v) \/ off \/ v \in done)

LEMMA OnwardIsGood ==
  ASSUME NEW t \in Tasks, NEW w, NEW rows, NEW off, NEW done, GoodHand(t, w, rows, off, done)
  PROVE  /\ GoodTask(t, Onward(t, w), rows, off, done)
         /\ Onward(t, w).pc \in {"todo", "ack", "idle"} /\ Onward(t, w).item = w.item
<1> DEFINE station == IF w.todo # <<>> THEN "todo" ELSE IF t = "loop" THEN "ack" ELSE "idle"
           x == [w EXCEPT !.row = 0, !.pc = station]
<1>1. station \in Stations /\ 0 \in Nat
  BY DEF Stations
<1> HIDE DEF station
<1>2. /\ x \in Work /\ x.pc = station /\ x.row = 0
      /\ x.todo = w.todo /\ x.batch = w.batch /\ x.item = w.item
  BY <1>1 DEF GoodHand, Work
<1>3. Onward(t, w) = x
  BY DEF Onward, station
<1> HIDE DEF x
<1>4. ASSUME NEW i \in x.item
      PROVE  /\ i \in GoodItems(rows)
             /\ \A v \in Vehicles \ Fused : IsEventOf(i, v) => GotTo(x, v, rows, off, done)
  <2>1. i \in w.item /\ i \in GoodItems(rows)
    BY <1>2 DEF GoodHand
  <2>2. ASSUME NEW v \in Vehicles \ Fused, IsEventOf(i, v)
        PROVE  GotTo(x, v, rows, off, done)
    <3>1. CASE w.todo = <<>> /\ (WorkerRead(rows, v) \/ off \/ v \in done)
      <4>1. x.pc \in {"ack", "idle"}
        BY <1>2, <3>1 DEF station
      <4> QED BY <3>1, <4>1 DEF GotTo
    <3>2. CASE \E p \in Plates, c \in 0..100 : w.todo = <<Direct(v, "worker", p, c, FALSE)>>
      <4>1. w.todo # <<>>
        BY <3>2
      <4>2. x.pc = "todo"
        BY <1>2, <4>1 DEF station
      <4> QED BY <1>2, <3>2, <4>2 DEF GotTo
    <3> QED BY <2>1, <2>2, <3>1, <3>2 DEF GoodHand
  <2> QED BY <2>1, <2>2
<1>5. GoodTask(t, x, rows, off, done)
  BY <1>2, <1>4 DEF GoodTask, GoodHand, station
<1> QED BY <1>2, <1>3, <1>5 DEF station

LEMMA GrownItself ==
  ASSUME NEW rows
  PROVE  Grown(rows, rows)
BY DEF Grown

LEMMA TasksStay ==
  ASSUME NEW f, NEW rows, NEW next, NEW off \in BOOLEAN, NEW off2 \in BOOLEAN,
         NEW done, NEW done2, GoodTasks(f, rows, off, done),
         Grown(rows, next), done \subseteq done2,
         off = off2 \/ \A t \in Tasks : f[t].pc # "ack"
  PROVE  GoodTasks(f, next, off2, done2)
BY TaskStaysGood DEF GoodTasks

LEMMA TaskReplaced ==
  ASSUME NEW f, NEW rows, NEW off, NEW done, GoodTasks(f, rows, off, done),
         NEW t \in Tasks, NEW w, GoodTask(t, w, rows, off, done)
  PROVE  GoodTasks([f EXCEPT ![t] = w], rows, off, done)
<1>1. w \in Work
  BY DEF GoodTask
<1> QED BY <1>1 DEF GoodTasks

LEMMA IdleIsWork == Idle \in Work
BY DEF Idle, Work, Stations

LEMMA AllIdle ==
  ASSUME NEW rows, NEW off, NEW done
  PROVE  GoodTasks([t \in Tasks |-> Idle], rows, off, done)
<1>1. Idle \in Work
  BY DEF Idle, Work, Stations
<1> QED BY <1>1, IdleIsGood DEF GoodTasks

LEMMA GoodHandOfOutcomes ==
  ASSUME NEW t \in Tasks, NEW rows, NEW off, NEW done, NEW outcomes \in Seq(OutcomesOf(t))
  PROVE  GoodHand(t, [Idle EXCEPT !.todo = outcomes], rows, off, done)
<1> DEFINE w == [Idle EXCEPT !.todo = outcomes]
<1>1. outcomes \in Seq(Outcomes)
  BY SeqOfLarger DEF OutcomesOf
<1>2. Idle \in Work /\ Idle.item = {} /\ Idle.batch = <<>>
  BY IdleIsWork DEF Idle
<1>3. w \in Work /\ w.item = {} /\ w.batch = <<>> /\ w.todo = outcomes
  BY <1>1, <1>2 DEF Work
<1> HIDE DEF w
<1>4. GoodHand(t, w, rows, off, done)
  BY <1>3 DEF GoodHand
<1> QED BY <1>4 DEF w

-----------------------------------------------------------------------------
(* Initially *)

LEMMA InitHolds == Init => IInv
<1> SUFFICES ASSUME Init PROVE IInv
  OBVIOUS
<1>1. CountInv
  BY BoundsAssumption DEF Init, CountInv, Switches
<1>2. RowInv
  BY DEF Init, RowInv
<1>3. QueueInv
  <2>1. outbox = <<>> /\ published = {} /\ processed = {}
    BY DEF Init
  <2>2. GoodEvents(<<>>, {}, {})
    BY DEF GoodEvents, InQueue
  <2> QED BY <2>1, <2>2 DEF QueueInv
<1>4. LaneInv
  BY NewLaneIsGood DEF Init, LaneInv
<1>5. TaskInv
  BY AllIdle DEF Init, TaskInv
<1> QED BY <1>1, <1>2, <1>3, <1>4, <1>5 DEF IInv

-----------------------------------------------------------------------------
(* The vehicles, the switches and the clock *)

LEMMA UnchangedHolds == IInv /\ UNCHANGED vars => IInv'
BY DEF IInv, CountInv, RowInv, QueueInv, LaneInv, TaskInv, CameraOff, Excused, WasRefused,
       vars, world, limits

LEMMA LeaveSiteHolds ==
  ASSUME IInv, NEW v \in Vehicles, LeaveSite(v)
  PROVE  IInv'
<1> USE DEF IInv
<1>1. CountInv'
  BY DEF LeaveSite, CountInv, limits
<1>2. RowInv'
  <2> DEFINE Closed(i) == IF sessions[i].vehicle = v
                          THEN [sessions[i] EXCEPT !.open = FALSE] ELSE sessions[i]
  <2>1. ASSUME NEW i \in DOMAIN sessions
        PROVE  Closed(i) \in GoodSessions
    <3>1. sessions[i] \in GoodSessions
      BY DEF RowInv
    <3>2. /\ [sessions[i] EXCEPT !.open = FALSE] \in Sessions
          /\ [sessions[i] EXCEPT !.open = FALSE].plate = sessions[i].plate
          /\ [sessions[i] EXCEPT !.open = FALSE].vehicle = sessions[i].vehicle
      BY <3>1 DEF GoodSessions, Sessions
    <3> QED BY <3>1, <3>2 DEF GoodSessions
  <2>2. DOMAIN sessions = 1..Len(sessions) /\ Len(sessions) \in Nat
    BY DEF RowInv
  <2>3. sessions' = [i \in 1..Len(sessions) |-> Closed(i)]
    BY <2>2 DEF LeaveSite
  <2> HIDE DEF Closed
  <2>4. sessions' \in Seq(GoodSessions)
    BY <2>1, <2>2, <2>3
  <2> QED BY <2>4 DEF LeaveSite, RowInv
<1>3. QueueInv'
  BY DEF LeaveSite, QueueInv
<1>4. LaneInv' /\ TaskInv'
  BY DEF LeaveSite, LaneInv, TaskInv, CameraOff, limits, Excused, WasRefused
<1> QED BY <1>1, <1>2, <1>3, <1>4

LEMMA SwitchHolds ==
  ASSUME IInv, NEW s \in Switches, Switch(s)
  PROVE  IInv'
<1> USE DEF IInv
<1>1. CountInv'
  <2>1. switched' \in 0..MaxSwitches
    BY BoundsAssumption DEF Switch, CountInv
  <2> QED BY <2>1 DEF Switch, CountInv, world
<1>2. RowInv' /\ QueueInv' /\ LaneInv'
  BY DEF Switch, RowInv, QueueInv, LaneInv, world
<1>3. TaskInv'
  <2>1. \A t \in Tasks : work[t].pc # "ack"
    BY DEF Switch, Free, Busy
  <2>2. CameraOff \in BOOLEAN /\ CameraOff' \in BOOLEAN
    BY DEF CameraOff
  <2>3. GoodTasks(work, captures, CameraOff', Excused)
    BY <2>1, <2>2, GrownItself, TasksStay DEF TaskInv
  <2>4. UNCHANGED <<work, captures, processed, refused>>
    BY DEF Switch, world
  <2> QED BY <2>3, <2>4 DEF TaskInv, Excused, WasRefused
<1> QED BY <1>1, <1>2, <1>3

LEMMA TickHolds ==
  ASSUME IInv, Tick
  PROVE  IInv'
<1> USE DEF IInv
<1>1. CountInv'
  BY DEF Tick, CountInv, world, limits
<1>2. RowInv' /\ QueueInv'
  BY DEF Tick, RowInv, QueueInv, world
<1>3. LaneInv'
  BY AgedIsGood DEF Tick, LaneInv
<1>4. TaskInv'
  BY DEF Tick, TaskInv, CameraOff, world, Excused, WasRefused
<1> QED BY <1>1, <1>2, <1>3, <1>4

LEMMA CrashHolds ==
  ASSUME IInv, Crash
  PROVE  IInv'
<1> USE DEF IInv
<1>1. CountInv'
  <2>1. faults' \in 0..MaxFaults
    BY BoundsAssumption DEF Crash, MayFail, CountInv
  <2> QED BY <2>1 DEF Crash, CountInv, world
<1>2. RowInv' /\ QueueInv'
  BY DEF Crash, RowInv, QueueInv, world
<1>3. LaneInv'
  BY NewLaneIsGood DEF Crash, LaneInv
<1>4. TaskInv'
  BY AllIdle DEF Crash, TaskInv, CameraOff
<1> QED BY <1>1, <1>2, <1>3, <1>4

-----------------------------------------------------------------------------
(* The queue *)

(* A new item at the end: the first event of its vehicle, or a retry. *)
LEMMA QueueGrows ==
  ASSUME NEW queue, NEW rows, NEW sent, NEW done, NEW i \in GoodItems(rows),
         queue \in Seq(GoodItems(rows)), GoodEvents(queue, sent, done), NEW sent2,
         \/ i.kind = "plate-event" /\ sent2 = sent
         \/ i.kind = "PlateRecognized" /\ i.reading.vehicle \notin sent
              /\ sent2 = sent \cup {i.reading.vehicle}
  PROVE  /\ Append(queue, i) \in Seq(GoodItems(rows))
         /\ GoodEvents(Append(queue, i), sent2, done)
<1> DEFINE q == Append(queue, i)
<1>1. /\ q \in Seq(GoodItems(rows)) /\ Len(queue) \in Nat
      /\ DOMAIN q = DOMAIN queue \cup {Len(queue) + 1}
      /\ \A k \in DOMAIN queue : q[k] = queue[k]
      /\ q[Len(queue) + 1] = i /\ DOMAIN queue = 1..Len(queue)
  OBVIOUS
<1> HIDE DEF q
<1>2. ASSUME NEW v \in Vehicles
      PROVE  /\ v \in done \/ InQueue(q, v) => v \in sent2
             /\ v \in done => ~InQueue(q, v)
             /\ \A j, k \in DOMAIN q : IsEventOf(q[j], v) /\ IsEventOf(q[k], v) => j = k
  <2>1. /\ v \in done \/ InQueue(queue, v) => v \in sent
        /\ v \in done => ~InQueue(queue, v)
        /\ \A j, k \in DOMAIN queue : IsEventOf(queue[j], v) /\ IsEventOf(queue[k], v) => j = k
    BY DEF GoodEvents
  <2>2. InQueue(q, v) <=> InQueue(queue, v) \/ IsEventOf(i, v)
    BY <1>1 DEF InQueue
  <2>3. IsEventOf(i, v) => v \notin sent /\ v \in sent2
    BY DEF IsEventOf
  <2>4. sent \subseteq sent2
    OBVIOUS
  <2>5. IsEventOf(i, v) => \A k \in DOMAIN queue : ~IsEventOf(queue[k], v)
    BY <2>1, <2>3 DEF InQueue
  <2>6. \A j, k \in DOMAIN q : IsEventOf(q[j], v) /\ IsEventOf(q[k], v) => j = k
    BY <1>1, <2>1, <2>5
  <2> QED BY <2>1, <2>2, <2>3, <2>4, <2>6
<1> QED BY <1>1, <1>2 DEF GoodEvents, q

LEMMA PublishHolds ==
  ASSUME IInv, NEW v \in Vehicles, Publish(v)
  PROVE  IInv'
<1> USE DEF IInv
<1>1. PICK p \in ReadAs[v], c \in Confidences, sure \in BOOLEAN :
        outbox' = Append(outbox,
          [kind |-> "PlateRecognized",
           reading |-> [vehicle |-> v, plate |-> p, conf |-> c, sure |-> sure]])
  BY DEF Publish
<1> DEFINE r == [vehicle |-> v, plate |-> p, conf |-> c, sure |-> sure]
           i == [kind |-> "PlateRecognized", reading |-> r]
<1>2. i \in GoodItems(captures)
  <2>1. p \in Plates /\ c \in 0..100
    BY VehiclesAssumption, ConfidencesAssumption
  <2>2. r \in Readings
    BY <2>1 DEF Readings
  <2>3. i \in Events
    BY <2>2 DEF Events
  <2> QED BY <2>3 DEF GoodItems, Items, HasRow
<1>3. i.kind = "PlateRecognized" /\ i.reading.vehicle = v
  OBVIOUS
<1>4. v \notin published /\ published' = published \cup {v}
  BY DEF Publish
<1>5. outbox' = Append(outbox, i)
  BY <1>1
<1> HIDE DEF i
<1>6. CountInv' /\ RowInv' /\ LaneInv' /\ TaskInv'
  BY DEF Publish, CountInv, RowInv, LaneInv, TaskInv, CameraOff, limits, Excused, WasRefused
<1>7. QueueInv'
  <2>1. /\ Append(outbox, i) \in Seq(GoodItems(captures))
        /\ GoodEvents(Append(outbox, i), published', processed)
    BY <1>2, <1>3, <1>4, QueueGrows DEF QueueInv
  <2> QED BY <1>4, <1>5, <2>1 DEF Publish, QueueInv
<1> QED BY <1>6, <1>7

(* RemoveAt on a queue. *)
LEMMA WithoutOne ==
  ASSUME NEW S, NEW q \in Seq(S), NEW k \in DOMAIN q
  PROVE  /\ RemoveAt(q, k) \in Seq(S)
         /\ Len(RemoveAt(q, k)) = Len(q) - 1
         /\ \A j \in DOMAIN RemoveAt(q, k) :
              RemoveAt(q, k)[j] = q[IF j < k THEN j ELSE j + 1]
<1>1. Len(q) \in Nat /\ k \in 1..Len(q) /\ DOMAIN q = 1..Len(q)
  OBVIOUS
<1> DEFINE a == SubSeq(q, 1, k - 1)
           b == SubSeq(q, k + 1, Len(q))
<1>2. /\ a \in Seq(S) /\ Len(a) = k - 1
      /\ \A j \in 1..k - 1 : a[j] = q[j]
  BY <1>1, SubSeqProperties
<1>3. /\ b \in Seq(S) /\ Len(b) = Len(q) - k
      /\ \A j \in 1..Len(q) - k : b[j] = q[k + j]
  BY <1>1, SubSeqProperties
<1>4. RemoveAt(q, k) = a \o b
  BY DEF RemoveAt
<1> HIDE DEF a, b
<1>5. /\ a \o b \in Seq(S) /\ Len(a \o b) = Len(q) - 1
      /\ \A j \in 1..Len(q) - 1 : (a \o b)[j] = IF j < k THEN a[j] ELSE b[j - (k - 1)]
  <2>1. Len(a) + Len(b) = Len(q) - 1
    BY <1>1, <1>2, <1>3
  <2>2. /\ a \o b \in Seq(S) /\ Len(a \o b) = Len(a) + Len(b)
        /\ \A j \in 1..Len(a) + Len(b) :
             (a \o b)[j] = IF j <= Len(a) THEN a[j] ELSE b[j - Len(a)]
    BY <1>2, <1>3, ConcatProperties
  <2>3. \A j \in 1..Len(q) - 1 : j <= Len(a) <=> j < k
    BY <1>1, <1>2
  <2> QED BY <1>2, <2>1, <2>2, <2>3
<1>6. DOMAIN (a \o b) = 1..Len(q) - 1
  BY <1>1, <1>5, LenProperties
<1>7. ASSUME NEW j \in 1..Len(q) - 1
      PROVE  (a \o b)[j] = q[IF j < k THEN j ELSE j + 1]
  <2>1. CASE j < k
    <3>1. j \in 1..k - 1
      BY <1>1, <2>1
    <3> QED BY <1>2, <1>5, <2>1, <3>1
  <2>2. CASE ~(j < k)
    <3>1. j - (k - 1) \in 1..Len(q) - k /\ k + (j - (k - 1)) = j + 1
      BY <1>1, <2>2
    <3> QED BY <1>3, <1>5, <2>2, <3>1
  <2> QED BY <2>1, <2>2
<1> QED BY <1>4, <1>5, <1>6, <1>7

(* An item leaves: its event is not queued any more, and its key is marked. *)
LEMMA QueueShrinks ==
  ASSUME NEW rows, NEW queue \in Seq(GoodItems(rows)), NEW k \in DOMAIN queue,
         NEW sent, NEW done, GoodEvents(queue, sent, done)
  PROVE  GoodEvents(RemoveAt(queue, k), sent, done \cup KeyOf(queue[k]))
<1> DEFINE q == RemoveAt(queue, k)
           marked == done \cup KeyOf(queue[k])
<1>1. /\ q \in Seq(GoodItems(rows)) /\ Len(q) = Len(queue) - 1
      /\ \A j \in DOMAIN q : q[j] = queue[IF j < k THEN j ELSE j + 1]
  BY WithoutOne
<1>2. Len(queue) \in Nat /\ DOMAIN queue = 1..Len(queue) /\ DOMAIN q = 1..Len(queue) - 1
  BY <1>1
<1>3. \A j \in DOMAIN q : /\ (IF j < k THEN j ELSE j + 1) \in DOMAIN queue
                          /\ (IF j < k THEN j ELSE j + 1) # k
  BY <1>2
<1>4. queue[k] \in Items
  BY DEF GoodItems
<1> HIDE DEF q
<1>5. ASSUME NEW v \in Vehicles
      PROVE  /\ v \in marked \/ InQueue(q, v) => v \in sent
             /\ v \in marked => ~InQueue(q, v)
             /\ \A i, j \in DOMAIN q : IsEventOf(q[i], v) /\ IsEventOf(q[j], v) => i = j
  <2>1. /\ v \in done \/ InQueue(queue, v) => v \in sent
        /\ v \in done => ~InQueue(queue, v)
        /\ \A i, j \in DOMAIN queue : IsEventOf(queue[i], v) /\ IsEventOf(queue[j], v) => i = j
    BY DEF GoodEvents
  <2>2. InQueue(q, v) => InQueue(queue, v)
    BY <1>1, <1>3 DEF InQueue
  <2>3. IsEventOf(queue[k], v) => InQueue(queue, v) /\ ~InQueue(q, v)
    BY <1>1, <1>3, <2>1 DEF InQueue
  <2>4. v \in KeyOf(queue[k]) <=> IsEventOf(queue[k], v)
    BY DEF KeyOf, IsEventOf
  <2>5. \A i, j \in DOMAIN q : IsEventOf(q[i], v) /\ IsEventOf(q[j], v) => i = j
    <3>1. SUFFICES ASSUME NEW i \in DOMAIN q, NEW j \in DOMAIN q,
                          IsEventOf(q[i], v), IsEventOf(q[j], v)
                   PROVE  i = j
      OBVIOUS
    <3>2. (IF i < k THEN i ELSE i + 1) = (IF j < k THEN j ELSE j + 1)
      BY <1>1, <1>3, <2>1, <3>1
    <3> QED BY <1>2, <3>2
  <2> QED BY <2>1, <2>2, <2>3, <2>4, <2>5
<1> QED BY <1>5 DEF GoodEvents, q

LEMMA LoopIsTask == Loop = work["loop"] /\ "loop" \in Tasks
BY DEF Loop, Tasks

LEMMA LoopIsGood ==
  ASSUME TaskInv
  PROVE  GoodTask("loop", Loop, captures, CameraOff, Excused)
BY LoopIsTask DEF TaskInv, GoodTasks

(* The loop only: nothing else that matters to it changes. *)
LEMMA LoopTurns ==
  ASSUME IInv, NEW w, GoodTask("loop", w, captures, CameraOff, Excused), LoopIs(w),
         UNCHANGED <<world, outbox, processed, captures, refused, sessions, lane, seen, on, limits>>
  PROVE  IInv'
<1>1. CountInv' /\ RowInv' /\ QueueInv' /\ LaneInv'
  BY DEF IInv, CountInv, RowInv, QueueInv, LaneInv, world, limits
<1>2. GoodTasks([work EXCEPT !["loop"] = w], captures, CameraOff, Excused)
  BY LoopIsTask, TaskReplaced DEF IInv, TaskInv
<1>3. TaskInv'
  BY <1>2 DEF TaskInv, CameraOff, LoopIs, Excused, WasRefused
<1> QED BY <1>1, <1>3 DEF IInv

LEMMA AckHolds ==
  ASSUME IInv, Ack
  PROVE  IInv'
<1> USE DEF IInv
<1>1. PICK k \in DOMAIN outbox :
        /\ outbox[k] \in Loop.item
        /\ outbox' = RemoveAt(outbox, k)
        /\ processed' = processed \cup KeyOf(outbox[k])
  BY DEF Ack
<1>2. CountInv' /\ RowInv' /\ LaneInv'
  BY DEF Ack, CountInv, RowInv, LaneInv, world, limits
<1>3. QueueInv'
  <2>1. outbox \in Seq(GoodItems(captures)) /\ GoodEvents(outbox, published, processed)
    BY DEF QueueInv
  <2>2. GoodEvents(outbox', published, processed')
    BY <1>1, <2>1, QueueShrinks
  <2>3. outbox' \in Seq(GoodItems(captures))
    BY <1>1, <2>1, WithoutOne
  <2>4. outbox[k] \in Items
    BY <2>1 DEF GoodItems
  <2>5. KeyOf(outbox[k]) \subseteq Vehicles
    BY <2>4 DEF KeyOf, Items, Events, Retries, Readings
  <2>6. UNCHANGED <<published, captures>>
    BY DEF Ack, world
  <2> QED BY <1>1, <2>2, <2>3, <2>5, <2>6 DEF QueueInv
<1>4. TaskInv'
  <2> DEFINE w == [Idle EXCEPT !.batch = Loop.batch]
  <2>1. Loop \in Work /\ Loop.batch \in Seq(GoodItems(captures))
    BY LoopIsGood DEF GoodTask
  <2>2. Loop.batch \in Seq(Items)
    BY <2>1 DEF Work
  <2>3. /\ w \in Work /\ w.pc = "idle" /\ w.item = {} /\ w.todo = <<>>
        /\ w.batch = Loop.batch
    <3>1. Idle \in Work /\ Idle.pc = "idle" /\ Idle.item = {} /\ Idle.todo = <<>>
      BY IdleIsWork DEF Idle
    <3> QED BY <2>2, <3>1 DEF Work
  <2> HIDE DEF w
  <2>4. GoodTask("loop", w, captures, CameraOff, Excused)
    BY <2>1, <2>3 DEF GoodTask
  <2>5. GoodTasks([work EXCEPT !["loop"] = w], captures, CameraOff, Excused)
    BY <2>4, LoopIsTask, TaskReplaced DEF TaskInv
  <2>6. GoodTasks([work EXCEPT !["loop"] = w], captures, CameraOff, Excused')
    <3>1. Excused \subseteq Excused'
      BY <1>1 DEF Ack, Excused, WasRefused
    <3> QED BY <2>5, <3>1, GrownItself, TasksStay DEF CameraOff
  <2>7. work' = [work EXCEPT !["loop"] = w]
    BY DEF Ack, LoopIs, w
  <2> QED BY <2>6, <2>7 DEF Ack, TaskInv, CameraOff
<1> QED BY <1>2, <1>3, <1>4

-----------------------------------------------------------------------------
(* The loop takes the queue *)

LEMMA MinOfTwo ==
  ASSUME NEW a \in Nat, NEW b \in Nat
  PROVE  Min({a, b}) \in {a, b} /\ Min({a, b}) <= a /\ Min({a, b}) <= b
<1>1. \E x \in {a, b} : \A y \in {a, b} : x <= y
  OBVIOUS
<1>2. Min({a, b}) = CHOOSE x \in {a, b} : \A y \in {a, b} : x <= y
  BY DEF Min
<1> QED BY <1>1, <1>2

LEMMA PollHolds ==
  ASSUME IInv, Poll
  PROVE  IInv'
<1> DEFINE n == Min({Limit, Len(outbox)})
           taken == SubSeq(outbox, 1, n)
           w == [Idle EXCEPT !.batch = taken]
<1>1. outbox \in Seq(GoodItems(captures)) /\ Len(outbox) \in Nat /\ Limit \in Nat
  BY BoundsAssumption DEF IInv, QueueInv
<1>2. n \in Nat /\ n <= Len(outbox)
  BY <1>1, MinOfTwo
<1> HIDE DEF n
<1>3. taken \in Seq(GoodItems(captures))
  BY <1>1, <1>2
<1>4. taken \in Seq(Items)
  BY <1>3, SeqOfLarger DEF GoodItems
<1> HIDE DEF taken
<1>5. w \in Work /\ w.pc = "idle" /\ w.item = {} /\ w.todo = <<>> /\ w.batch = taken
  <2>1. Idle \in Work /\ Idle.pc = "idle" /\ Idle.item = {} /\ Idle.todo = <<>>
    BY IdleIsWork DEF Idle
  <2> QED BY <1>4, <2>1 DEF Work
<1>6. LoopIs(w)
  BY DEF Poll, taken, n
<1> HIDE DEF w
<1>7. GoodTask("loop", w, captures, CameraOff, Excused)
  BY <1>3, <1>5 DEF GoodTask
<1>8. UNCHANGED <<world, outbox, processed, captures, refused, sessions, lane, seen, on, limits>>
  BY DEF Poll
<1> QED BY <1>6, <1>7, <1>8, LoopTurns

(* What the loop has in hand when it turns to the next item. *)
LEMMA TurnType ==
  ASSUME IInv, Turn
  PROVE  /\ Item \in GoodItems(captures) /\ Tail(Loop.batch) \in Seq(GoodItems(captures))
         /\ Begun \in Work
         /\ Begun.item = {Item} /\ Begun.batch = Tail(Loop.batch)
         /\ Begun.todo = <<>> /\ Begun.pc = "idle"
         /\ [Idle EXCEPT !.batch = Tail(Loop.batch)] \in Work
         /\ [Idle EXCEPT !.batch = Tail(Loop.batch)].batch = Tail(Loop.batch)
         /\ [Idle EXCEPT !.batch = Tail(Loop.batch)].item = {}
         /\ [Idle EXCEPT !.batch = Tail(Loop.batch)].todo = <<>>
         /\ [Idle EXCEPT !.batch = Tail(Loop.batch)].pc = "idle"
<1>1. Loop.batch \in Seq(GoodItems(captures)) /\ Loop.batch # <<>>
  BY LoopIsGood DEF IInv, GoodTask, Turn
<1>2. Item \in GoodItems(captures) /\ Tail(Loop.batch) \in Seq(GoodItems(captures))
  BY <1>1 DEF Item
<1>3. Item \in Items /\ Tail(Loop.batch) \in Seq(Items)
  BY <1>2, SeqOfLarger DEF GoodItems
<1>4. Idle \in Work /\ Idle.pc = "idle" /\ Idle.item = {} /\ Idle.todo = <<>>
  BY IdleIsWork DEF Idle
<1> DEFINE x == [Idle EXCEPT !.batch = Tail(Loop.batch)]
           y == [Idle EXCEPT !.item = {Item}]
           z == [y EXCEPT !.batch = Tail(Loop.batch)]
<1>5. /\ x \in Work /\ x.batch = Tail(Loop.batch)
      /\ x.item = {} /\ x.todo = <<>> /\ x.pc = "idle"
  BY <1>3, <1>4 DEF Work
<1>6. {Item} \in SUBSET Items
  BY <1>3
<1>7. y \in Work /\ y.item = {Item} /\ y.todo = <<>> /\ y.pc = "idle"
  BY <1>4, <1>6 DEF Work
<1>8. Begun = z
  BY Zenon DEF Begun
<1> HIDE DEF y
<1>9. /\ z \in Work /\ z.item = {Item} /\ z.batch = Tail(Loop.batch)
      /\ z.todo = <<>> /\ z.pc = "idle"
  BY <1>3, <1>7 DEF Work
<1> QED BY <1>2, <1>5, <1>8, <1>9

LEMMA SkipHolds ==
  ASSUME IInv, Skip
  PROVE  IInv'
<1> DEFINE w == [Idle EXCEPT !.batch = Tail(Loop.batch)]
<1>1. /\ w \in Work /\ w.batch \in Seq(GoodItems(captures))
      /\ w.item = {} /\ w.todo = <<>> /\ w.pc = "idle"
  BY TurnType DEF Skip
<1>2. LoopIs(w)
  BY DEF Skip
<1> HIDE DEF w
<1>3. GoodTask("loop", w, captures, CameraOff, Excused)
  BY <1>1 DEF GoodTask
<1>4. UNCHANGED <<world, outbox, processed, captures, refused, sessions, lane, seen, on, limits>>
  BY DEF Skip
<1> QED BY <1>2, <1>3, <1>4, LoopTurns

LEMMA AckMootHolds ==
  ASSUME IInv, AckMoot
  PROVE  IInv'
<1> DEFINE w == [Begun EXCEPT !.pc = "ack"]
<1>1. Turn /\ OfEvent /\ Moot
  BY DEF AckMoot, OfEvent
<1>2. /\ w \in Work /\ w.batch \in Seq(GoodItems(captures))
      /\ w.item = {Item} /\ w.todo = <<>> /\ w.pc = "ack"
  BY <1>1, TurnType DEF Work, Stations
<1>3. LoopIs(w)
  BY DEF AckMoot
<1> HIDE DEF w
<1>4. ASSUME NEW v \in Vehicles \ Fused, IsEventOf(Item, v)
      PROVE  GotTo(w, v, captures, CameraOff, Excused)
  <2>1. v = Reader
    BY <1>4 DEF IsEventOf, Reader
  <2>2. IsCaptured(v) \/ CameraOff \/ v \in processed
    BY <1>1, <2>1 DEF Moot, CameraOff
  <2> QED BY <1>2, <2>2 DEF GotTo, IsCaptured, WorkerRead, Excused
<1>5. Item \in GoodItems(captures)
  BY <1>1, TurnType
<1>6. GoodTask("loop", w, captures, CameraOff, Excused)
  BY <1>2, <1>4, <1>5 DEF GoodTask
<1>7. UNCHANGED <<world, outbox, processed, captures, refused, sessions, lane, seen, on, limits>>
  BY DEF AckMoot
<1> QED BY <1>3, <1>6, <1>7, LoopTurns

LEMMA TakeRetryHolds ==
  ASSUME IInv, TakeRetry
  PROVE  IInv'
<1> DEFINE i == CHOOSE k \in DOMAIN captures : VisitOf(captures[k]) = Item.visit
           y == [Begun EXCEPT !.pc = "stored"]
           w == [y EXCEPT !.row = i]
<1>1. Turn /\ Item.kind = "plate-event"
  BY DEF TakeRetry
<1>2. Item \in GoodItems(captures)
  BY <1>1, TurnType
<1>3. i \in DOMAIN captures
  BY <1>1, <1>2 DEF GoodItems, HasRow
<1>4. i \in Nat
  <2>1. DOMAIN captures = 1..Len(captures) /\ Len(captures) \in Nat
    BY DEF IInv, RowInv
  <2> HIDE DEF i
  <2> QED BY <1>3, <2>1
<1>5. LoopIs(w)
  BY Zenon DEF TakeRetry
<1> HIDE DEF i
<1>6. /\ y \in Work /\ y.batch \in Seq(GoodItems(captures))
      /\ y.item = {Item} /\ y.todo = <<>> /\ y.pc = "stored"
  BY <1>1, TurnType DEF Work, Stations
<1> HIDE DEF y
<1>7. /\ w \in Work /\ w.batch \in Seq(GoodItems(captures))
      /\ w.item = {Item} /\ w.todo = <<>> /\ w.pc = "stored" /\ w.row = i
  BY <1>4, <1>6 DEF Work
<1> HIDE DEF w
<1>8. \A v : ~IsEventOf(Item, v)
  BY <1>1 DEF IsEventOf
<1>9. GoodTask("loop", w, captures, CameraOff, Excused)
  BY <1>2, <1>3, <1>7, <1>8 DEF GoodTask
<1>10. UNCHANGED <<world, outbox, processed, captures, refused, sessions, lane, seen, on, limits>>
  BY DEF TakeRetry
<1> QED BY <1>5, <1>9, <1>10, LoopTurns

-----------------------------------------------------------------------------
(* A task starts on what the coordinator decided *)

LEMMA StartIsGood ==
  ASSUME NEW f, NEW rows, NEW off, NEW done, GoodTasks(f, rows, off, done),
         NEW t \in Tasks, NEW w, GoodHand(t, w, rows, off, done)
  PROVE  GoodTasks([f EXCEPT ![t] = Onward(t, w)], rows, off, done)
BY OnwardIsGood, TaskReplaced

LEMMA StepOutcomes ==
  ASSUME NEW step, GoodStep(step), NEW t
  PROVE  GoodLane(step.lane) /\ step.outcomes \in Seq(OutcomesOf(t))
BY OutcomesOfTask, SeqOfLarger DEF GoodStep

(* The two tasks without items. *)
LEMMA FreshStart ==
  ASSUME IInv, NEW t \in Tasks, NEW outcomes \in Seq(OutcomesOf(t)), Start(t, Idle, outcomes),
         UNCHANGED <<captures, on, processed, refused>>
  PROVE  TaskInv'
<1> DEFINE w == [Idle EXCEPT !.todo = outcomes]
<1>1. GoodHand(t, w, captures, CameraOff, Excused)
  BY GoodHandOfOutcomes
<1>2. work' = [work EXCEPT ![t] = Onward(t, w)]
  BY DEF Start
<1> HIDE DEF w
<1>3. GoodTasks([work EXCEPT ![t] = Onward(t, w)], captures, CameraOff, Excused)
  BY <1>1, StartIsGood DEF IInv, TaskInv
<1> QED BY <1>2, <1>3 DEF TaskInv, CameraOff, Excused, WasRefused

LEMMA FlushHolds ==
  ASSUME IInv, Flush
  PROVE  IInv'
<1> USE DEF IInv
<1> DEFINE step == Flushed(lane)
<1>1. GoodStep(step)
  BY FlushedIsGood DEF LaneInv
<1>2. lane' = step.lane /\ Start("flush", Idle, step.outcomes)
  BY DEF Flush, TakeStep
<1> HIDE DEF step
<1>3. CountInv' /\ RowInv' /\ QueueInv'
  BY DEF Flush, CountInv, RowInv, QueueInv, world, limits
<1>4. LaneInv'
  BY <1>1, <1>2 DEF GoodStep, LaneInv
<1>5. TaskInv'
  <2>1. "flush" \in Tasks
    BY DEF Tasks
  <2>2. step.outcomes \in Seq(OutcomesOf("flush"))
    BY <1>1, StepOutcomes
  <2>3. UNCHANGED <<captures, on, processed, refused>>
    BY DEF Flush
  <2> QED BY <1>2, <2>1, <2>2, <2>3, FreshStart
<1> QED BY <1>3, <1>4, <1>5

(* A reading of the site service itself, beside the callback's. *)
LEMMA SiteOutcome ==
  ASSUME NEW v \in Fused, NEW p \in ReadAs[v], NEW c \in Confidences,
         NEW local \in SiteReadings(v)
  PROVE  LET d == Resolve(Reading(p, c), local, FALSE)
         IN Direct(v, "site", d.plate, d.conf, d.review) \in FusedOutcomes
<1> DEFINE n == Reading(p, c)
           d == Resolve(n, local, FALSE)
           o == Direct(v, "site", d.plate, d.conf, d.review)
<1>1. v \in Vehicles /\ ReadAs[v] \subseteq Plates /\ Confidences \subseteq 0..100
  BY VehiclesAssumption, ConfidencesAssumption
<1>2. n \in Taking /\ ~Absent(n) /\ n.plate = p
  <2>1. p \in Plates /\ c \in 0..100
    BY <1>1
  <2>2. n.plate = p
    BY DEF Reading
  <2> QED BY <2>1, <2>2, TakingTypes
<1>3. local \in Taking
  <2>1. CASE local = NoReading
    BY <2>1, TakingTypes
  <2>2. CASE local # NoReading
    <3>1. PICK q \in ReadAs[v], e \in Confidences : local = Reading(q, e)
      BY <2>2 DEF SiteReadings
    <3>2. q \in Plates /\ e \in 0..100
      BY <1>1
    <3> QED BY <3>1, <3>2, TakingTypes
  <2> QED BY <2>1, <2>2
<1> HIDE DEF n
<1>4. /\ d \in [plate : Plates, conf : 0..100, review : BOOLEAN]
      /\ ~d.review => d.plate = p
  BY <1>2, <1>3, ResolveType, AcceptedBySomebody
<1> HIDE DEF d
<1>5. /\ o \in Outcomes /\ o.vehicle = v /\ o.plate = d.plate /\ o.review = d.review
  BY <1>1, <1>4 DEF Direct, Outcomes
<1> HIDE DEF o
<1>6. o \in FusedOutcomes
  BY <1>4, <1>5 DEF FusedOutcomes, OfFused, WellRead
<1> QED BY <1>6 DEF o, d, n

LEMMA CallbackHolds ==
  ASSUME IInv, NEW v \in Vehicles, Callback(v)
  PROVE  IInv'
<1> USE DEF IInv
<1>1. v \in Fused /\ "native" \in Tasks
  BY DEF Callback, Tasks
<1>2. PICK p \in ReadAs[v], c \in Confidences :
        LET r == [vehicle |-> v, plate |-> p, conf |-> c, sure |-> FALSE]
        IN IF RoutesCamera
           THEN TakeStep("native", Idle, Offer(lane, "native", r, LocalCounterpart))
           ELSE ReadOnSite(v, r)
  BY Zenon DEF Callback
<1> DEFINE r == [vehicle |-> v, plate |-> p, conf |-> c, sure |-> FALSE]
<1>3. CountInv'
  <2>1. natives' = [natives EXCEPT ![v] = @ + 1] /\ natives[v] < MaxNative
    BY DEF Callback
  <2>2. natives[v] \in 0..MaxNative
    BY DEF CountInv
  <2>3. natives[v] + 1 \in 0..MaxNative
    BY <2>1, <2>2, BoundsAssumption
  <2>4. natives' \in [Vehicles -> 0..MaxNative]
    BY <2>1, <2>3 DEF CountInv
  <2> QED BY <2>4 DEF Callback, CountInv, limits
<1>4. RowInv' /\ QueueInv'
  BY DEF Callback, RowInv, QueueInv
<1>5. UNCHANGED <<captures, on, processed, refused>>
  BY DEF Callback
<1>6. CASE RoutesCamera
  <2> DEFINE step == Offer(lane, "native", r, LocalCounterpart)
  <2>1. r \in Readings /\ ReadRight(r)
    BY <1>1, VehiclesAssumption, ConfidencesAssumption DEF Readings, ReadRight
  <2> HIDE DEF r
  <2>2. "native" \in Slots /\ LocalCounterpart \in BOOLEAN
    BY DEF Slots, LocalCounterpart
  <2>3. GoodStep(step)
    BY <2>1, <2>2, OfferIsGood DEF LaneInv
  <2>4. lane' = step.lane /\ Start("native", Idle, step.outcomes)
    BY <1>2, <1>6 DEF TakeStep, r
  <2> HIDE DEF step
  <2>5. LaneInv'
    BY <2>3, <2>4 DEF GoodStep, LaneInv
  <2>6. step.outcomes \in Seq(OutcomesOf("native"))
    BY <2>3, StepOutcomes
  <2>7. TaskInv'
    BY <1>1, <1>5, <2>4, <2>6, FreshStart
  <2> QED BY <1>3, <1>4, <2>5, <2>7
<1>7. CASE ~RoutesCamera
  <2>1. ReadOnSite(v, r)
    BY <1>2, <1>7
  <2>2. r.plate = p /\ r.conf = c
    OBVIOUS
  <2> HIDE DEF r
  <2>3. PICK local \in SiteReadings(v) :
          LET d == Resolve(Reading(p, c), local, FALSE)
          IN /\ Start("native", Idle, <<Direct(v, "site", d.plate, d.conf, d.review)>>)
             /\ UNCHANGED lane
    BY <2>1, <2>2, Zenon DEF ReadOnSite
  <2> DEFINE d == Resolve(Reading(p, c), local, FALSE)
             o == Direct(v, "site", d.plate, d.conf, d.review)
  <2>4. o \in FusedOutcomes
    BY <1>1, SiteOutcome
  <2>5. Start("native", Idle, <<o>>) /\ lane' = lane
    BY <2>3
  <2> HIDE DEF o
  <2>6. <<o>> \in Seq(OutcomesOf("native"))
    BY <2>4, OutcomesOfTask
  <2>7. TaskInv'
    BY <1>1, <1>5, <2>5, <2>6, FreshStart
  <2> QED BY <1>3, <1>4, <2>5, <2>7 DEF LaneInv
<1> QED BY <1>6, <1>7

LEMMA TakeEventHolds ==
  ASSUME IInv, TakeEvent
  PROVE  IInv'
<1> USE DEF IInv
<1> DEFINE v == Reader
           r == Item.reading
<1>1. Turn /\ OfEvent /\ Item.kind = "PlateRecognized"
  BY DEF TakeEvent, OfEvent
<1>2. Item \in GoodItems(captures)
  BY <1>1, TurnType
<1>3. r \in Readings /\ v = r.vehicle /\ v \in Vehicles /\ r.plate \in ReadAs[v]
  BY <1>1, <1>2 DEF GoodItems, Items, Events, Retries, Readings, Reader
<1>4. IsEventOf(Item, v) /\ \A u : IsEventOf(Item, u) => u = v
  BY <1>1 DEF IsEventOf, Reader
<1>5. CountInv' /\ RowInv' /\ QueueInv'
  BY DEF TakeEvent, CountInv, RowInv, QueueInv, world, limits
<1>6. UNCHANGED <<captures, on, processed, refused>> /\ "loop" \in Tasks
  BY DEF TakeEvent, Tasks
<1>7. ASSUME NEW outcomes \in Seq(OutcomesOf("loop")), Start("loop", Begun, outcomes),
             v \notin Fused =>
               \E p \in Plates, c \in 0..100 : outcomes = <<Direct(v, "worker", p, c, FALSE)>>
      PROVE  TaskInv'
  <2> DEFINE w == [Begun EXCEPT !.todo = outcomes]
  <2>1. outcomes \in Seq(Outcomes)
    BY SeqOfLarger DEF OutcomesOf
  <2>2. /\ w \in Work /\ w.todo = outcomes /\ w.item = {Item}
        /\ w.batch \in Seq(GoodItems(captures))
    BY <1>1, <2>1, TurnType DEF Work
  <2>3. work' = [work EXCEPT !["loop"] = Onward("loop", w)]
    BY <1>7 DEF Start
  <2> HIDE DEF w, v, r
  <2>4. GoodHand("loop", w, captures, CameraOff, Excused)
    BY <1>2, <1>4, <1>7, <2>2 DEF GoodHand
  <2>5. GoodTasks([work EXCEPT !["loop"] = Onward("loop", w)], captures, CameraOff, Excused)
    BY <1>6, <2>4, StartIsGood DEF TaskInv
  <2> QED BY <1>6, <2>3, <2>5 DEF TaskInv, CameraOff, Excused, WasRefused
<1>8. CASE v \in Fused
  <2> DEFINE step == Offer(lane, "local", r, TRUE)
  <2>1. lane' = step.lane /\ Start("loop", Begun, step.outcomes)
    BY <1>8 DEF TakeEvent, TakeStep
  <2>2. GoodStep(step)
    <3>1. ReadRight(r) /\ "local" \in Slots /\ TRUE \in BOOLEAN
      BY <1>3, <1>8 DEF ReadRight, Slots
    <3> HIDE DEF r
    <3> QED BY <1>3, <3>1, OfferIsGood DEF LaneInv
  <2> HIDE DEF step
  <2>3. LaneInv' /\ step.outcomes \in Seq(OutcomesOf("loop"))
    BY <2>1, <2>2, StepOutcomes DEF LaneInv
  <2>4. TaskInv'
    BY <1>7, <1>8, <2>1, <2>3
  <2> QED BY <1>5, <2>3, <2>4
<1>9. CASE v \notin Fused
  <2> DEFINE o == Direct(v, "worker", r.plate, r.conf, FALSE)
  <2>1. Start("loop", Begun, <<o>>) /\ lane' = lane
    BY <1>9 DEF TakeEvent
  <2>2. r.plate \in Plates /\ r.conf \in 0..100
    BY <1>3 DEF Readings
  <2> HIDE DEF r
  <2>3. /\ o \in Outcomes /\ o.plate = r.plate /\ o.vehicle = v
    BY <1>3, <2>2 DEF Direct, Outcomes
  <2>4. <<o>> \in Seq(OutcomesOf("loop"))
    <3> HIDE DEF o, v
    <3>1. o \in OutcomesOf("loop")
      BY <1>3, <2>3 DEF OutcomesOf, WellRead
    <3> QED BY <3>1
  <2>5. \E p \in Plates, c \in 0..100 : <<o>> = <<Direct(v, "worker", p, c, FALSE)>>
    BY <2>2
  <2> HIDE DEF o
  <2>6. TaskInv'
    BY <1>7, <2>1, <2>4, <2>5
  <2> QED BY <1>5, <2>1, <2>6 DEF LaneInv
<1> QED BY <1>8, <1>9

-----------------------------------------------------------------------------
(* handle_live_entry, and what raises *)

LEMMA TaskOf ==
  ASSUME IInv, NEW t \in Tasks
  PROVE  /\ GoodTask(t, work[t], captures, CameraOff, Excused)
         /\ work \in [Tasks -> Work]
BY DEF IInv, TaskInv, GoodTasks

(* A task that handled its capture may turn to the next outcome. *)
LEMMA HandledHand ==
  ASSUME IInv, NEW t \in Tasks, work[t].pc \in {"stored", "opening"}
  PROVE  /\ GoodHand(t, work[t], captures, CameraOff, Excused)
         /\ work[t].row \in DOMAIN captures
         /\ captures[work[t].row] \in GoodRows
<1> DEFINE w == work[t]
<1>1. GoodTask(t, w, captures, CameraOff, Excused)
  BY TaskOf
<1>2. w.row \in DOMAIN captures /\ captures \in Seq(GoodRows)
  BY <1>1 DEF GoodTask, IInv, RowInv
<1>3. captures[w.row] \in GoodRows
  BY <1>2
<1> HIDE DEF w
<1>4. w.pc \in {"stored", "opening"}
  BY DEF w
<1>5. GoodHand(t, w, captures, CameraOff, Excused)
  BY <1>1, <1>4 DEF GoodTask, GoodHand, GotTo
<1> QED BY <1>2, <1>3, <1>5 DEF w

LEMMA HandledTasks ==
  ASSUME IInv, NEW t \in Tasks, work[t].pc \in {"stored", "opening"}
  PROVE  GoodTasks([work EXCEPT ![t] = Onward(t, work[t])], captures, CameraOff, Excused)
<1>1. GoodTasks(work, captures, CameraOff, Excused)
  BY DEF IInv, TaskInv
<1> QED BY <1>1, HandledHand, StartIsGood

LEMMA HandledTurns ==
  ASSUME IInv, NEW t \in Tasks, work[t].pc \in {"stored", "opening"},
         work' = [work EXCEPT ![t] = Onward(t, @)],
         UNCHANGED <<captures, on, processed, refused>>
  PROVE  TaskInv'
<1>1. work' = [work EXCEPT ![t] = Onward(t, work[t])]
  OBVIOUS
<1> QED BY <1>1, HandledTasks DEF TaskInv, CameraOff, Excused, WasRefused

LEMMA AnsweredHolds ==
  ASSUME IInv, NEW t \in Tasks, Answered(t)
  PROVE  IInv'
<1>1. CountInv' /\ RowInv' /\ QueueInv' /\ LaneInv'
  BY DEF IInv, Answered, CountInv, RowInv, QueueInv, LaneInv, world, limits
<1>2. TaskInv'
  BY HandledTurns DEF Answered
<1> QED BY <1>1, <1>2 DEF IInv

LEMMA HandleHolds ==
  ASSUME IInv, NEW t \in Tasks, Handle(t)
  PROVE  IInv'
<1> DEFINE r == captures[work[t].row]
           x == [vehicle |-> r.vehicle, source |-> r.source, plate |-> r.plate, open |-> TRUE]
<1>1. CountInv' /\ QueueInv' /\ LaneInv'
  BY DEF IInv, Handle, CountInv, QueueInv, LaneInv, world, limits
<1>2. work[t].pc = "stored" /\ r \in GoodRows
  BY HandledHand DEF Handle
<1>3. UNCHANGED <<captures, on, processed, refused, seen>>
  BY DEF Handle
<1>4. CASE work' = [work EXCEPT ![t] = Onward(t, @)] /\ UNCHANGED sessions
  <2>1. TaskInv'
    BY <1>2, <1>3, <1>4, HandledTurns
  <2>2. RowInv'
    BY <1>3, <1>4 DEF IInv, RowInv
  <2> QED BY <1>1, <2>1, <2>2 DEF IInv
<1>5. CASE /\ r.fit
           /\ sessions' = Append(sessions, x)
           /\ work' = [work EXCEPT ![t].pc = "opening"]
  <2> HIDE DEF r
  <2>1. x \in GoodSessions
    BY <1>2, <1>5 DEF GoodRows, Rows, GoodSessions, Sessions
  <2>2. RowInv'
    BY <1>3, <1>5, <2>1 DEF IInv, RowInv
  <2> DEFINE w == [work[t] EXCEPT !.pc = "opening"]
  <2>3. GoodTask(t, work[t], captures, CameraOff, Excused) /\ work[t] \in Work
    BY TaskOf
  <2>4. /\ w \in Work /\ w.pc = "opening" /\ w.todo = work[t].todo /\ w.row = work[t].row
        /\ w.item = work[t].item /\ w.batch = work[t].batch
    BY <2>3 DEF Work, Stations
  <2>5. work' = [work EXCEPT ![t] = w]
    BY <1>5
  <2> HIDE DEF w
  <2>6. GoodTask(t, w, captures, CameraOff, Excused)
    BY <1>2, <2>3, <2>4 DEF GoodTask, GotTo
  <2>7. TaskInv'
    BY <1>3, <2>5, <2>6, TaskReplaced DEF IInv, TaskInv, CameraOff, Excused, WasRefused
  <2> QED BY <1>1, <2>2, <2>7 DEF IInv
<1> QED BY <1>4, <1>5, Zenon DEF Handle

LEMMA FaultCounts ==
  ASSUME CountInv, MayFail, UNCHANGED <<left, natives, on, switched>>
  PROVE  CountInv'
<1>1. faults' \in 0..MaxFaults
  BY BoundsAssumption DEF MayFail, CountInv
<1> QED BY <1>1 DEF CountInv

LEMMA FailHolds ==
  ASSUME IInv, NEW t \in Tasks, Fail(t)
  PROVE  IInv'
<1>1. CountInv'
  BY FaultCounts DEF IInv, Fail, world
<1>2. RowInv' /\ QueueInv' /\ LaneInv'
  BY DEF IInv, Fail, RowInv, QueueInv, LaneInv, world
<1>3. GoodTasks([work EXCEPT ![t] = Idle], captures, CameraOff, Excused)
  BY IdleIsGood, TaskReplaced DEF IInv, TaskInv
<1>4. TaskInv'
  BY <1>3 DEF Fail, TaskInv, CameraOff, Excused, WasRefused
<1> QED BY <1>1, <1>2, <1>4 DEF IInv

LEMMA HandleRaisesHolds ==
  ASSUME IInv, NEW t \in Tasks, HandleRaises(t)
  PROVE  IInv'
<1> DEFINE r == captures[work[t].row]
           i == [kind |-> "plate-event", visit |-> VisitOf(r)]
<1>1. CountInv'
  BY FaultCounts DEF IInv, HandleRaises, world
<1>2. RowInv' /\ LaneInv'
  BY DEF IInv, HandleRaises, RowInv, LaneInv
<1>3. work[t].pc \in {"stored", "opening"}
  BY DEF HandleRaises
<1>4. TaskInv'
  BY <1>3, HandledTurns DEF HandleRaises
<1>5. work[t].row \in DOMAIN captures /\ r \in GoodRows
  BY <1>3, HandledHand
<1>6. i \in GoodItems(captures) /\ i.kind = "plate-event"
  <2>1. VisitOf(r) \in Visits
    BY <1>5 DEF VisitOf, GoodRows, Rows, Visits
  <2>2. i.visit = VisitOf(captures[work[t].row]) /\ i.kind = "plate-event"
    OBVIOUS
  <2>3. i \in Items
    BY <2>1 DEF Items, Retries
  <2> HIDE DEF i
  <2> QED BY <1>5, <2>2, <2>3 DEF GoodItems, HasRow
<1>7. outbox' = Append(outbox, i)
  BY DEF HandleRaises
<1> HIDE DEF i
<1>8. /\ Append(outbox, i) \in Seq(GoodItems(captures))
      /\ GoodEvents(Append(outbox, i), published, processed)
  BY <1>6, QueueGrows DEF IInv, QueueInv
<1>9. QueueInv'
  BY <1>7, <1>8 DEF IInv, HandleRaises, QueueInv, world
<1> QED BY <1>1, <1>2, <1>4, <1>9 DEF IInv

-----------------------------------------------------------------------------
(* persist_event *)

(* The task's next outcome, and the task without it. *)
LEMMA NextOutcome ==
  ASSUME IInv, NEW t \in Tasks, work[t].pc = "todo"
  PROVE  /\ Head(work[t].todo) \in OutcomesOf(t)
         /\ Persisted(t) \in Work
         /\ Persisted(t).todo = Tail(work[t].todo)
         /\ Persisted(t).todo \in Seq(OutcomesOf(t))
         /\ Persisted(t).item = work[t].item /\ Persisted(t).batch = work[t].batch
<1> DEFINE w == work[t]
<1>1. GoodTask(t, w, captures, CameraOff, Excused) /\ w \in Work
  BY TaskOf
<1>2. w.todo \in Seq(OutcomesOf(t)) /\ w.todo # <<>>
  BY <1>1 DEF GoodTask
<1>3. Head(w.todo) \in OutcomesOf(t) /\ Tail(w.todo) \in Seq(OutcomesOf(t))
  BY <1>2
<1>4. Tail(w.todo) \in Seq(Outcomes)
  BY <1>3, SeqOfLarger DEF OutcomesOf
<1>5. Persisted(t) = [w EXCEPT !.todo = Tail(w.todo)]
  BY DEF Persisted
<1> HIDE DEF w
<1>6. /\ [w EXCEPT !.todo = Tail(w.todo)] \in Work
      /\ [w EXCEPT !.todo = Tail(w.todo)].todo = Tail(w.todo)
      /\ [w EXCEPT !.todo = Tail(w.todo)].item = w.item
      /\ [w EXCEPT !.todo = Tail(w.todo)].batch = w.batch
  BY <1>1, <1>4 DEF Work
<1> QED BY <1>3, <1>5, <1>6 DEF w

(* An event that is not fused has this one outcome. *)
LEMMA LastOutcome ==
  ASSUME IInv, NEW t \in Tasks, work[t].pc = "todo",
         NEW i \in work[t].item, NEW v \in Vehicles \ Fused, IsEventOf(i, v)
  PROVE  LET o == Head(work[t].todo)
         IN /\ o.vehicle = v /\ o.source = "worker" /\ ~o.suppressed /\ ~o.review
            /\ o.plate \in Plates /\ Persisted(t).todo = <<>>
<1>1. GotTo(work[t], v, captures, CameraOff, Excused)
  BY TaskOf DEF GoodTask
<1>2. PICK p \in Plates, c \in 0..100 : work[t].todo = <<Direct(v, "worker", p, c, FALSE)>>
  BY <1>1 DEF GotTo
<1> DEFINE d == Direct(v, "worker", p, c, FALSE)
<1>3. /\ d.vehicle = v /\ d.source = "worker" /\ ~d.suppressed /\ ~d.review
      /\ d.plate \in Plates
  BY DEF Direct
<1> HIDE DEF d
<1>4. work[t].todo = <<d>>
  BY <1>2 DEF d
<1>5. Head(work[t].todo) = d /\ Tail(work[t].todo) = <<>>
  BY <1>4
<1>6. Persisted(t).todo = <<>>
  BY <1>5, NextOutcome
<1> QED BY <1>3, <1>5, <1>6

(* The outcome was stored in this row of the captures as they are now. *)
LEMMA StoredHolds ==
  ASSUME IInv, NEW t \in Tasks, work[t].pc = "todo", NEW o, o = Head(work[t].todo),
         NEW row \in DOMAIN captures',
         StoredAs(t, o, row), captures' \in Seq(GoodRows), Grown(captures, captures'),
         o.vehicle \in Fused \/ VisitOf(captures'[row]) = VisitOf(o),
         UNCHANGED <<world, outbox, processed, refused, sessions, lane, on, limits>>
  PROVE  IInv'
<1> DEFINE w == Persisted(t)
           x == [w EXCEPT !.pc = "stored"]
           y == [x EXCEPT !.row = row]
<1>1. CountInv' /\ LaneInv'
  BY DEF IInv, CountInv, LaneInv, world, limits
<1>2. GoodItems(captures) \subseteq GoodItems(captures')
  BY GrownIsTransitive
<1>3. QueueInv'
  <2>1. outbox \in Seq(GoodItems(captures'))
    BY <1>2, SeqOfLarger DEF IInv, QueueInv
  <2> QED BY <2>1 DEF IInv, QueueInv, world
<1>4. RowInv'
  <2>1. seen \subseteq DOMAIN captures'
    BY DEF IInv, RowInv, Grown
  <2>2. seen' \subseteq DOMAIN captures'
    BY <2>1 DEF StoredAs
  <2> QED BY <2>2 DEF IInv, RowInv
<1>5. GoodTasks(work, captures', CameraOff, Excused)
  BY TasksStay DEF IInv, TaskInv, CameraOff
<1>6. GoodTask(t, work[t], captures', CameraOff, Excused)
  BY <1>5 DEF GoodTasks
<1>7. /\ w \in Work /\ w.todo \in Seq(OutcomesOf(t))
      /\ w.item = work[t].item /\ w.batch = work[t].batch
  BY NextOutcome
<1>8. ASSUME NEW i \in w.item, NEW v \in Vehicles \ Fused, IsEventOf(i, v)
      PROVE  w.todo = <<>> /\ WorkerRead(captures', v)
  <2>1. o.vehicle = v /\ o.source = "worker" /\ w.todo = <<>>
    BY <1>7, <1>8, LastOutcome
  <2>2. captures'[row].vehicle = v /\ captures'[row].source = "worker"
    BY <2>1 DEF VisitOf
  <2> QED BY <2>1, <2>2 DEF WorkerRead
<1> HIDE DEF w
<1>9. CASE work' = [work EXCEPT ![t] = Onward(t, w)]
  <2>1. GoodHand(t, w, captures', CameraOff, Excused)
    BY <1>6, <1>7, <1>8 DEF GoodHand, GoodTask
  <2>2. GoodTasks([work EXCEPT ![t] = Onward(t, w)], captures', CameraOff, Excused)
    BY <1>5, <2>1, StartIsGood
  <2>3. TaskInv'
    BY <1>9, <2>2 DEF TaskInv, CameraOff, Excused, WasRefused
  <2> QED BY <1>1, <1>3, <1>4, <2>3 DEF IInv
<1>10. CASE work' = [work EXCEPT ![t] = [w EXCEPT !.pc = "stored", !.row = row]]
  <2>1. row \in Nat
    <3>1. DOMAIN captures' = 1..Len(captures') /\ Len(captures') \in Nat
      OBVIOUS
    <3> QED BY <3>1
  <2>2. work' = [work EXCEPT ![t] = y]
    BY <1>10
  <2>3. /\ x \in Work /\ x.pc = "stored" /\ x.todo = w.todo
        /\ x.item = w.item /\ x.batch = w.batch
    BY <1>7 DEF Work, Stations
  <2> HIDE DEF x
  <2>4. /\ y \in Work /\ y.pc = "stored" /\ y.todo = w.todo /\ y.row = row
        /\ y.item = w.item /\ y.batch = w.batch
    BY <2>1, <2>3 DEF Work
  <2> HIDE DEF y
  <2>5. GoodTask(t, y, captures', CameraOff, Excused)
    BY <1>6, <1>7, <1>8, <2>4 DEF GoodTask, GotTo
  <2>6. GoodTasks([work EXCEPT ![t] = y], captures', CameraOff, Excused)
    BY <1>5, <2>5, TaskReplaced
  <2>7. TaskInv'
    BY <2>2, <2>6 DEF TaskInv, CameraOff, Excused, WasRefused
  <2> QED BY <1>1, <1>3, <1>4, <2>7 DEF IInv
<1> QED BY <1>9, <1>10, Zenon DEF StoredAs, w

(* An outcome goes into a row that is there: it may only mark it. *)
LEMMA RowIsMarked ==
  ASSUME NEW rows \in Seq(GoodRows), NEW i \in DOMAIN rows, NEW o, o.review \in BOOLEAN
  PROVE  LET next == [rows EXCEPT ![i] = Marked(@, o)]
         IN /\ next \in Seq(GoodRows) /\ Grown(rows, next)
            /\ DOMAIN next = DOMAIN rows /\ VisitOf(next[i]) = VisitOf(rows[i])
<1> DEFINE r == rows[i]
           fit == r.fit /\ ~o.review
           m == [r EXCEPT !.fit = fit]
           next == [rows EXCEPT ![i] = m]
<1>1. r \in GoodRows /\ r \in Rows
  BY DEF GoodRows
<1>2. fit \in BOOLEAN /\ (fit => r.fit)
  BY <1>1 DEF Rows
<1>3. Marked(r, o) = m
  BY Zenon DEF Marked
<1> HIDE DEF fit, r
<1>4. /\ m \in Rows /\ m.vehicle = r.vehicle /\ m.source = r.source /\ m.plate = r.plate
      /\ m.fit = fit
  BY <1>1, <1>2 DEF Rows
<1> HIDE DEF m
<1>5. m \in GoodRows
  BY <1>1, <1>2, <1>4 DEF GoodRows
<1>6. next \in Seq(GoodRows) /\ DOMAIN next = DOMAIN rows /\ next[i] = m
  BY <1>5
<1>7. \A k \in DOMAIN rows : k # i => next[k] = rows[k]
  OBVIOUS
<1>8. [rows EXCEPT ![i] = Marked(@, o)] = next
  BY <1>3, Zenon DEF r
<1> HIDE DEF next
<1>9. Grown(rows, next) /\ VisitOf(next[i]) = VisitOf(rows[i])
  BY <1>4, <1>6, <1>7 DEF Grown, VisitOf, r
<1> QED BY <1>6, <1>8, <1>9

LEMMA RowIsNew ==
  ASSUME NEW rows \in Seq(GoodRows), NEW o \in Outcomes, WellRead(o)
  PROVE  LET next == Append(rows, NewRow(o))
         IN /\ next \in Seq(GoodRows) /\ Grown(rows, next)
            /\ Len(rows) + 1 \in DOMAIN next
            /\ next[Len(rows) + 1] = NewRow(o) /\ VisitOf(NewRow(o)) = VisitOf(o)
<1> DEFINE r == NewRow(o)
<1>1. PICK fit \in BOOLEAN : fit = IsFit(o)
  BY DEF IsFit
<1>2. r = [vehicle |-> o.vehicle, source |-> o.source, plate |-> o.plate, fit |-> fit]
  BY <1>1 DEF NewRow
<1>3. fit => o.plate \in ReadAs[o.vehicle]
  BY <1>1 DEF IsFit, WellRead
<1> HIDE DEF r
<1>4. r \in Rows
  BY <1>2 DEF Rows, Outcomes, Sources
<1>5. r \in GoodRows /\ VisitOf(r) = VisitOf(o)
  BY <1>2, <1>3, <1>4 DEF GoodRows, VisitOf
<1> DEFINE next == Append(rows, r)
<1>6. /\ next \in Seq(GoodRows) /\ DOMAIN rows \subseteq DOMAIN next
      /\ Len(rows) + 1 \in DOMAIN next /\ next[Len(rows) + 1] = r
      /\ \A k \in DOMAIN rows : next[k] = rows[k]
  BY <1>5
<1> HIDE DEF next
<1>7. Grown(rows, next)
  BY <1>6 DEF Grown
<1> QED BY <1>5, <1>6, <1>7 DEF next, r

LEMMA GreatestOfBounded ==
  ASSUME NEW n \in Nat, NEW S \in SUBSET (0..n), S # {}
  PROVE  \E x \in S : \A y \in S : x >= y
<1> DEFINE T == {m \in 0..n : n - m \in S}
           R == OpToRel(<, Nat)
<1>1. PICK s \in S : TRUE
  OBVIOUS
<1>2. n - s \in T
  <2>1. s \in 0..n
    BY <1>1
  <2>2. n - s \in 0..n /\ n - (n - s) = s
    BY <2>1
  <2> QED BY <1>1, <2>2
<1>3. T \subseteq Nat
  OBVIOUS
<1>4. \A j, k \in Nat : j < k => <<j, k>> \in R
  BY DEF OpToRel
<1>5. IsWellFoundedOn(R, Nat)
  BY NatLessThanWellFounded
<1> HIDE DEF R
<1>6. PICK m \in T : \A k \in T : ~(<<k, m>> \in R)
  <2> HIDE DEF T
  <2> QED BY <1>2, <1>3, <1>5, WFMin
<1>7. ASSUME NEW y \in S
      PROVE  n - m >= y
  <2>1. y \in 0..n /\ n - (n - y) = y /\ n - y \in 0..n
    OBVIOUS
  <2>2. n - y \in T
    BY <2>1
  <2>3. ~(n - y < m)
    BY <1>3, <1>4, <1>6, <2>2
  <2> QED BY <2>1, <2>3
<1> QED BY <1>6, <1>7

(* latest_for_camera is one of the rows, or none. *)
LEMMA LatestIsRow ==
  ASSUME captures \in Seq(GoodRows), NEW v
  PROVE  LatestFor(v) \in {0} \cup DOMAIN captures
<1> DEFINE S == {0} \cup {i \in DOMAIN captures : SameCamera(captures[i].vehicle, v)}
<1>1. Len(captures) \in Nat /\ DOMAIN captures = 1..Len(captures)
  OBVIOUS
<1>2. S \subseteq 0..Len(captures) /\ 0 \in S
  BY <1>1
<1>3. LatestFor(v) = CHOOSE x \in S : \A y \in S : x >= y
  BY DEF LatestFor, Max
<1>4. \E x \in S : \A y \in S : x >= y
  <2> HIDE DEF S
  <2> QED BY <1>1, <1>2, GreatestOfBounded
<1>5. LatestFor(v) \in S
  BY <1>3, <1>4
<1> QED BY <1>5

LEMMA PersistHolds ==
  ASSUME IInv, NEW t \in Tasks, Persist(t)
  PROVE  IInv'
<1> DEFINE o == Head(work[t].todo)
           w == Persisted(t)
<1>1. /\ work[t].pc = "todo"
      /\ UNCHANGED <<world, outbox, processed, sessions, lane, on, limits>>
  BY DEF Persist
<1>2. o \in OutcomesOf(t) /\ o \in Outcomes /\ WellRead(o) /\ o.review \in BOOLEAN
  BY <1>1, NextOutcome DEF OutcomesOf, Outcomes
<1>3. captures \in Seq(GoodRows)
  BY DEF IInv, RowInv
<1>4. CASE /\ NotPersisted(o)
           /\ work' = [work EXCEPT ![t] = Onward(t, w)]
           /\ UNCHANGED <<captures, seen, refused>>
  <2>1. CountInv' /\ RowInv' /\ QueueInv' /\ LaneInv'
    BY <1>1, <1>4 DEF IInv, CountInv, RowInv, QueueInv, LaneInv, world, limits
  <2>2. GoodTask(t, work[t], captures, CameraOff, Excused)
    BY TaskOf
  <2>3. /\ w \in Work /\ w.todo \in Seq(OutcomesOf(t))
        /\ w.item = work[t].item /\ w.batch = work[t].batch
    BY <1>1, NextOutcome
  <2>4. ASSUME NEW i \in w.item, NEW v \in Vehicles \ Fused, IsEventOf(i, v)
        PROVE  w.todo = <<>> /\ CameraOff
    <3>1. ~o.suppressed /\ o.plate \in Plates /\ w.todo = <<>>
      BY <1>1, <2>3, <2>4, LastOutcome
    <3> QED BY <1>4, <3>1, NoPlateIsNone DEF NotPersisted, CameraOff
  <2> HIDE DEF w
  <2>5. GoodHand(t, w, captures, CameraOff, Excused)
    BY <2>2, <2>3, <2>4 DEF GoodHand, GoodTask
  <2>6. GoodTasks([work EXCEPT ![t] = Onward(t, w)], captures, CameraOff, Excused)
    BY <2>5, StartIsGood DEF IInv, TaskInv
  <2>7. TaskInv'
    BY <1>1, <1>4, <2>6 DEF TaskInv, CameraOff, Excused, WasRefused
  <2> QED BY <2>1, <2>7 DEF IInv
<1>5. ASSUME NEW i \in DOMAIN captures,
             captures' = [captures EXCEPT ![i] = Marked(@, o)], StoredAs(t, o, i),
             UNCHANGED refused,
             o.vehicle \in Fused \/ VisitOf(captures[i]) = VisitOf(o)
      PROVE  IInv'
  <2>1. /\ captures' \in Seq(GoodRows) /\ Grown(captures, captures')
        /\ i \in DOMAIN captures' /\ VisitOf(captures'[i]) = VisitOf(captures[i])
    <3> DEFINE next == [captures EXCEPT ![i] = Marked(@, o)]
    <3>1. /\ next \in Seq(GoodRows) /\ Grown(captures, next)
          /\ DOMAIN next = DOMAIN captures /\ VisitOf(next[i]) = VisitOf(captures[i])
      <4> HIDE DEF o
      <4> QED BY <1>2, <1>3, RowIsMarked
    <3>2. captures' = next
      BY <1>5
    <3> HIDE DEF next
    <3> QED BY <3>1, <3>2
  <2> HIDE DEF o
  <2>2. o = Head(work[t].todo)
    BY DEF o
  <2> QED BY <1>1, <1>5, <2>1, <2>2, StoredHolds
<1>6. CASE \E i \in SameRow(o) :
             /\ captures' = [captures EXCEPT ![i] = Marked(@, o)] /\ StoredAs(t, o, i)
             /\ UNCHANGED refused
  BY <1>5, <1>6 DEF SameRow
<1>7. CASE \E i \in RepeatOf(o) :
             /\ captures' = [captures EXCEPT ![i] = Marked(@, o)] /\ StoredAs(t, o, i)
             /\ UNCHANGED refused
  <2>1. PICK i \in RepeatOf(o) :
          /\ captures' = [captures EXCEPT ![i] = Marked(@, o)] /\ StoredAs(t, o, i)
          /\ UNCHANGED refused
    BY <1>7
  <2>2. o.vehicle \in Fused /\ i = LatestFor(o.vehicle) /\ i # 0
    BY <2>1 DEF RepeatOf
  <2>3. i \in DOMAIN captures
    BY <1>3, <2>2, LatestIsRow
  <2> QED BY <1>5, <2>1, <2>2, <2>3
<1>8. CASE /\ captures' = Append(captures, NewRow(o)) /\ StoredAs(t, o, Len(captures) + 1)
           /\ UNCHANGED refused
  <2>1. /\ captures' \in Seq(GoodRows) /\ Grown(captures, captures')
        /\ Len(captures) + 1 \in DOMAIN captures'
        /\ VisitOf(captures'[Len(captures) + 1]) = VisitOf(o)
    BY <1>2, <1>3, <1>8, RowIsNew
  <2> HIDE DEF o
  <2>2. o = Head(work[t].todo)
    BY DEF o
  <2> QED BY <1>1, <1>8, <2>1, <2>2, StoredHolds
<1>9. CASE /\ refused' = refused \cup {VisitOf(o)}
           /\ work' = [work EXCEPT ![t] = Onward(t, w)]
           /\ UNCHANGED <<captures, seen>>
  <2>1. VisitOf(o) \in Visits
    BY <1>2 DEF Outcomes, Visits, VisitOf, Sources
  <2>2. RowInv'
    BY <1>1, <1>9, <2>1 DEF IInv, RowInv
  <2>3. CountInv' /\ QueueInv' /\ LaneInv'
    BY <1>1, <1>9 DEF IInv, CountInv, QueueInv, LaneInv, world, limits
  <2>4. Excused \subseteq Excused'
    BY <1>1, <1>9 DEF Excused, WasRefused
  <2>5. GoodTasks(work, captures, CameraOff, Excused')
    BY <2>4, GrownItself, TasksStay DEF IInv, TaskInv, CameraOff
  <2>6. GoodTask(t, work[t], captures, CameraOff, Excused')
    BY <2>5 DEF GoodTasks
  <2>7. /\ w \in Work /\ w.todo \in Seq(OutcomesOf(t))
        /\ w.item = work[t].item /\ w.batch = work[t].batch
    BY <1>1, NextOutcome
  <2>8. ASSUME NEW i \in w.item, NEW v \in Vehicles \ Fused, IsEventOf(i, v)
        PROVE  w.todo = <<>> /\ v \in Excused'
    <3>1. o.vehicle = v /\ o.source = "worker" /\ w.todo = <<>>
      BY <1>1, <2>7, <2>8, LastOutcome
    <3>2. VisitOf(o) = [vehicle |-> v, source |-> "worker"]
      BY <3>1 DEF VisitOf
    <3> QED BY <1>9, <3>1, <3>2 DEF Excused, WasRefused
  <2> HIDE DEF w
  <2>9. GoodHand(t, w, captures, CameraOff, Excused')
    BY <2>6, <2>7, <2>8 DEF GoodHand, GoodTask
  <2>10. GoodTasks([work EXCEPT ![t] = Onward(t, w)], captures, CameraOff, Excused')
    BY <2>5, <2>9, StartIsGood
  <2>11. TaskInv'
    BY <1>1, <1>9, <2>10 DEF TaskInv, CameraOff
  <2> QED BY <2>2, <2>3, <2>11 DEF IInv
<1>10. \/ /\ NotPersisted(o)
          /\ work' = [work EXCEPT ![t] = Onward(t, w)]
          /\ UNCHANGED <<captures, seen, refused>>
       \/ \E i \in SameRow(o) :
             /\ captures' = [captures EXCEPT ![i] = Marked(@, o)] /\ StoredAs(t, o, i)
             /\ UNCHANGED refused
       \/ \E i \in RepeatOf(o) :
             /\ captures' = [captures EXCEPT ![i] = Marked(@, o)] /\ StoredAs(t, o, i)
             /\ UNCHANGED refused
       \/ /\ captures' = Append(captures, NewRow(o)) /\ StoredAs(t, o, Len(captures) + 1)
          /\ UNCHANGED refused
       \/ /\ refused' = refused \cup {VisitOf(o)}
          /\ work' = [work EXCEPT ![t] = Onward(t, w)]
          /\ UNCHANGED <<captures, seen>>
  BY Zenon DEF Persist
<1> QED BY <1>4, <1>6, <1>7, <1>8, <1>9, <1>10

-----------------------------------------------------------------------------
(* Every step *)

LEMMA NextHolds == IInv /\ [Next]_vars => IInv'
<1> SUFFICES ASSUME IInv, [Next]_vars
             PROVE  IInv'
  OBVIOUS
<1>1. ASSUME NEW v \in Vehicles, OfVehicle(v)
      PROVE  IInv'
  BY <1>1, LeaveSiteHolds, PublishHolds, CallbackHolds DEF OfVehicle
<1>2. ASSUME NEW t \in Tasks, OfTask(t)
      PROVE  IInv'
  BY <1>2, PersistHolds, HandleHolds, AnsweredHolds, HandleRaisesHolds, FailHolds DEF OfTask
<1>3. CASE LoopStep
  BY <1>3, PollHolds, AckMootHolds, SkipHolds, TakeEventHolds, TakeRetryHolds, AckHolds
  DEF LoopStep
<1>4. CASE Flush
  BY <1>4, FlushHolds
<1>5. CASE \E s \in Switches : Switch(s)
  BY <1>5, SwitchHolds
<1>6. CASE Crash \/ Tick
  BY <1>6, CrashHolds, TickHolds
<1>7. CASE UNCHANGED vars
  BY <1>7, UnchangedHolds
<1> QED BY <1>1, <1>2, <1>3, <1>4, <1>5, <1>6, <1>7 DEF Next, LoopStep

LEMMA Invariance == Spec => []IInv
BY InitHolds, NextHolds, PTL DEF Spec

LEMMA Typed == IInv => TypeOK
<1> SUFFICES ASSUME IInv PROVE TypeOK
  OBVIOUS
<1>1. outbox \in Seq(Items)
  BY SeqOfLarger DEF IInv, QueueInv, GoodItems
<1>2. captures \in Seq(Rows) /\ sessions \in Seq(Sessions)
  BY SeqOfLarger DEF IInv, RowInv, GoodRows, GoodSessions
<1>3. lane \in Lanes /\ work \in [Tasks -> Work]
  BY DEF IInv, LaneInv, GoodLane, TaskInv, GoodTasks
<1> QED BY <1>1, <1>2, <1>3 DEF IInv, CountInv, RowInv, QueueInv, TypeOK

(* Every variable of the site service and of its database has its type, for
   any vehicles and plates and any number of crashes, exceptions, callbacks
   and switched modules: what a task has in hand is a row that is stored and
   an outcome of the coordinator, whatever was done to the queue meanwhile. *)
THEOREM TypeCorrect == Spec => []TypeOK
BY Invariance, Typed, PTL

(* While the coordinator remembers a vehicle it does not accept it again, if
   a misreading of its plate is like the plate (_duplicate_of of
   core/hybrid.py), whichever reader comes late and in whatever order the
   callbacks, the queue and the clock offer the readings. *)
THEOREM ArrivalAcceptedOnce ==
  ASSUME MisreadingsAlike
  PROVE  Spec => []AcceptedOnce
<1>1. IInv => AcceptedOnce
  BY DEF IInv, LaneInv, GoodLane, GoodDecided, AcceptedOnce
<1> QED BY <1>1, Invariance, PTL

-----------------------------------------------------------------------------
(* One session for a visit *)

(* Only the entry lane and the vehicle that leaves write sessions. *)
LEMMA WhoWritesSessions ==
  ASSUME [Next]_vars, sessions' # sessions
  PROVE  (\E v \in Vehicles : LeaveSite(v)) \/ (\E t \in Tasks : Handle(t))
BY DEF Next, OfVehicle, OfTask, Publish, Callback, Persist, Answered, HandleRaises, Fail,
       Poll, AckMoot, Skip, TakeEvent, TakeRetry, Ack, Flush, Switch, Crash, Tick, vars

LEMMA SessionsOfVisits == IInv /\ OneSessionPerVisit /\ [Next]_vars => OneSessionPerVisit'
<1> SUFFICES ASSUME IInv, OneSessionPerVisit, [Next]_vars
             PROVE  OneSessionPerVisit'
  OBVIOUS
<1>1. sessions \in Seq(GoodSessions)
  BY DEF IInv, RowInv
<1>2. CASE sessions' = sessions
  BY <1>2 DEF OneSessionPerVisit
<1>3. ASSUME NEW v \in Vehicles, LeaveSite(v)
      PROVE  OneSessionPerVisit'
  <2>1. DOMAIN sessions' = DOMAIN sessions
    BY <1>3 DEF LeaveSite
  <2>2. ASSUME NEW i \in DOMAIN sessions
        PROVE  VisitOf(sessions'[i]) = VisitOf(sessions[i])
    <3>1. sessions[i] \in Sessions
      BY <1>1 DEF GoodSessions
    <3>2. /\ [sessions[i] EXCEPT !.open = FALSE].vehicle = sessions[i].vehicle
          /\ [sessions[i] EXCEPT !.open = FALSE].source = sessions[i].source
      BY <3>1 DEF Sessions
    <3>3. sessions'[i] = IF sessions[i].vehicle = v THEN [sessions[i] EXCEPT !.open = FALSE]
                         ELSE sessions[i]
      BY <1>3 DEF LeaveSite
    <3> QED BY <3>2, <3>3 DEF VisitOf
  <2> QED BY <2>1, <2>2 DEF OneSessionPerVisit
<1>4. ASSUME NEW t \in Tasks, Handle(t), sessions' # sessions
      PROVE  OneSessionPerVisit'
  <2> DEFINE r == captures[work[t].row]
             x == [vehicle |-> r.vehicle, source |-> r.source, plate |-> r.plate, open |-> TRUE]
  <2>1. ExistingEntry(r) = {} /\ sessions' = Append(sessions, x)
    BY <1>4, Zenon DEF Handle
  <2>2. VisitOf(x) = VisitOf(r)
    BY DEF VisitOf
  <2> HIDE DEF x
  <2>3. \A i \in DOMAIN sessions : VisitOf(sessions[i]) # VisitOf(x)
    BY <2>1, <2>2 DEF ExistingEntry, OfVisit
  <2>4. /\ DOMAIN sessions' = DOMAIN sessions \cup {Len(sessions) + 1}
        /\ \A i \in DOMAIN sessions : sessions'[i] = sessions[i]
        /\ sessions'[Len(sessions) + 1] = x
    BY <1>1, <2>1
  <2> QED BY <2>3, <2>4 DEF OneSessionPerVisit
<1> QED BY <1>2, <1>3, <1>4, WhoWritesSessions

(* However often an event or a plate-event is delivered, past any crash,
   exception and restart, and whether or not the vehicle has left meanwhile,
   a visit gets one session (_existing_entry of the entry lane). *)
THEOREM VisitGetsOneSession == Spec => []OneSessionPerVisit
<1>1. Init => OneSessionPerVisit
  BY DEF Init, OneSessionPerVisit
<1> QED BY <1>1, Invariance, SessionsOfVisits, PTL DEF Spec

-----------------------------------------------------------------------------
(* An event leaves the queue when its capture is stored *)

LEMMA QueueOnlyAppended ==
  ASSUME IInv, [Next]_vars, ~Ack
  PROVE  outbox' = outbox \/ \E i : outbox' = Append(outbox, i)
<1>1. ASSUME NEW v \in Vehicles, OfVehicle(v)
      PROVE  outbox' = outbox \/ \E i : outbox' = Append(outbox, i)
  BY <1>1 DEF OfVehicle, LeaveSite, Publish, Callback
<1>2. ASSUME NEW t \in Tasks, OfTask(t)
      PROVE  outbox' = outbox \/ \E i : outbox' = Append(outbox, i)
  BY <1>2 DEF OfTask, Persist, Handle, Answered, HandleRaises, Fail
<1> QED BY <1>1, <1>2 DEF Next, Poll, AckMoot, Skip, TakeEvent, TakeRetry, Flush, Switch,
                          Crash, Tick, vars

LEMMA StoredBeforeAckStep ==
  ASSUME IInv, [Next]_vars, NEW v \in Vehicles \ Fused, Queued(v), ~Queued(v)'
  PROVE  IsCaptured(v) \/ WasRefused(v) \/ "camera" \notin on
<1>1. outbox \in Seq(GoodItems(captures)) /\ Len(outbox) \in Nat
  BY DEF IInv, QueueInv
<1>2. PICK k \in DOMAIN outbox : IsEventOf(outbox[k], v)
  BY DEF Queued
<1>3. Ack
  <2>1. SUFFICES ASSUME outbox' = outbox \/ \E i : outbox' = Append(outbox, i)
                 PROVE  Queued(v)'
    BY QueueOnlyAppended
  <2>2. CASE outbox' = outbox
    BY <2>2 DEF Queued
  <2>3. ASSUME NEW i, outbox' = Append(outbox, i)
        PROVE  Queued(v)'
    <3>1. k \in DOMAIN outbox' /\ outbox'[k] = outbox[k]
      BY <1>1, <2>3
    <3> QED BY <1>2, <3>1 DEF Queued
  <2> QED BY <2>1, <2>2, <2>3
<1>4. PICK j \in DOMAIN outbox : outbox[j] \in Loop.item /\ outbox' = RemoveAt(outbox, j)
  BY <1>3 DEF Ack
<1>5. j = k
  <2>1. SUFFICES ASSUME j # k
                 PROVE  Queued(v)'
    OBVIOUS
  <2>2. /\ Len(outbox') = Len(outbox) - 1 /\ outbox' \in Seq(GoodItems(captures))
        /\ \A i \in DOMAIN outbox' : outbox'[i] = outbox[IF i < j THEN i ELSE i + 1]
    BY <1>1, <1>4, WithoutOne
  <2>3. k \in 1..Len(outbox) /\ j \in 1..Len(outbox)
    BY <1>1
  <2>4. \E i \in 1..Len(outbox) - 1 : (IF i < j THEN i ELSE i + 1) = k
    <3>1. CASE k < j
      BY <1>1, <2>3, <3>1
    <3>2. CASE k > j
      <4>1. k - 1 \in 1..Len(outbox) - 1 /\ ~(k - 1 < j) /\ (k - 1) + 1 = k
        BY <1>1, <2>3, <3>2
      <4> QED BY <4>1
    <3> QED BY <2>1, <2>3, <3>1, <3>2
  <2>5. DOMAIN outbox' = 1..Len(outbox) - 1
    BY <2>2, LenProperties
  <2> QED BY <1>2, <2>2, <2>4, <2>5 DEF Queued
<1>6. GotTo(Loop, v, captures, CameraOff, Excused)
  BY <1>2, <1>4, <1>5, LoopIsGood DEF IInv, GoodTask
<1>7. Loop.pc = "ack"
  BY <1>3 DEF Ack
<1>8. v \notin processed
  BY <1>2 DEF IInv, QueueInv, GoodEvents, InQueue
<1> QED BY <1>6, <1>7, <1>8 DEF GotTo, WorkerRead, IsCaptured, CameraOff, Excused

(* An event of a camera that only takes pictures leaves the queue only after
   its capture was committed or persist_event came to refuse it, past any
   crash, exception and restart (_outbox_loop). *)
THEOREM EventsStoredBeforeAck == Spec => StoredBeforeAck
<1>1. IInv /\ [Next]_vars =>
        [\A v \in Vehicles \ Fused :
           Queued(v) /\ ~Queued(v)' => IsCaptured(v) \/ WasRefused(v) \/ "camera" \notin on]_vars
  BY StoredBeforeAckStep
<1> QED BY <1>1, Invariance, PTL DEF Spec, StoredBeforeAck

-----------------------------------------------------------------------------
(* Nothing is dropped but by a fault or a switch *)

(* Rows are only marked, and a new one is the outcome's. *)
LEMMA RowsPersisted ==
  ASSUME IInv, NEW t \in Tasks, Persist(t)
  PROVE  LET o == Head(work[t].todo)
         IN /\ DOMAIN captures \subseteq DOMAIN captures'
            /\ \A i \in DOMAIN captures : /\ captures'[i].vehicle = captures[i].vehicle
                                          /\ captures'[i].source = captures[i].source
                                          /\ captures'[i].fit => captures[i].fit
            /\ \/ DOMAIN captures' = DOMAIN captures
               \/ /\ captures' = Append(captures, NewRow(o))
                  /\ StoredAs(t, o, Len(captures) + 1)
<1> DEFINE o == Head(work[t].todo)
<1>1. captures \in Seq(GoodRows) /\ captures \in Seq(Rows)
  BY SeqOfLarger DEF IInv, RowInv, GoodRows
<1>2. CASE captures' = captures
  BY <1>2
<1>3. CASE \E k \in DOMAIN captures : captures' = [captures EXCEPT ![k] = Marked(@, o)]
  <2>1. PICK k \in DOMAIN captures : captures' = [captures EXCEPT ![k] = Marked(@, o)]
    BY <1>3
  <2>2. captures[k] \in Rows
    BY <1>1
  <2>3. PICK fit \in BOOLEAN : fit = (captures[k].fit /\ ~o.review)
    OBVIOUS
  <2> HIDE DEF o
  <2>4. Marked(captures[k], o) = [captures[k] EXCEPT !.fit = fit]
    BY <2>3, Zenon DEF Marked
  <2>5. /\ [captures[k] EXCEPT !.fit = fit].vehicle = captures[k].vehicle
        /\ [captures[k] EXCEPT !.fit = fit].source = captures[k].source
        /\ [captures[k] EXCEPT !.fit = fit].fit = fit
    BY <2>2 DEF Rows
  <2>6. /\ DOMAIN captures' = DOMAIN captures
        /\ captures'[k] = Marked(captures[k], o)
        /\ \A i \in DOMAIN captures : i # k => captures'[i] = captures[i]
    BY <1>1, <2>1
  <2> QED BY <2>3, <2>4, <2>5, <2>6
<1>4. CASE captures' = Append(captures, NewRow(o)) /\ StoredAs(t, o, Len(captures) + 1)
  <2> DEFINE row == NewRow(o)
  <2>1. captures' = Append(captures, row)
    BY <1>4
  <2> HIDE DEF row
  <2>2. /\ DOMAIN captures \subseteq DOMAIN captures'
        /\ \A i \in DOMAIN captures : captures'[i] = captures[i]
    BY <1>1, <2>1
  <2> QED BY <1>4, <2>2
<1>5. \/ captures' = captures
      \/ \E k \in DOMAIN captures : captures' = [captures EXCEPT ![k] = Marked(@, o)]
      \/ captures' = Append(captures, NewRow(o)) /\ StoredAs(t, o, Len(captures) + 1)
  <2>1. ASSUME NEW k \in RepeatOf(o)
        PROVE  k \in DOMAIN captures
    BY <1>1, LatestIsRow DEF RepeatOf
  <2>2. ASSUME NEW k \in SameRow(o)
        PROVE  k \in DOMAIN captures
    BY DEF SameRow
  <2> QED BY <2>1, <2>2, Zenon DEF Persist
<1> QED BY <1>2, <1>3, <1>4, <1>5

LEMMA WhoWritesCaptures ==
  ASSUME [Next]_vars, captures' # captures
  PROVE  \E t \in Tasks : Persist(t)
BY DEF Next, OfVehicle, OfTask, LeaveSite, Publish, Callback, Handle, Answered, HandleRaises,
       Fail, Poll, AckMoot, Skip, TakeEvent, TakeRetry, Ack, Flush, Switch, Crash, Tick, vars

LEMMA SessionsStay ==
  ASSUME IInv, [Next]_vars
  PROVE  \A i \in DOMAIN sessions :
           i \in DOMAIN sessions' /\ sessions'[i].vehicle = sessions[i].vehicle
<1>1. sessions \in Seq(GoodSessions) /\ sessions \in Seq(Sessions)
  BY SeqOfLarger DEF IInv, RowInv, GoodSessions
<1>2. CASE sessions' = sessions
  BY <1>2
<1>3. ASSUME NEW v \in Vehicles, LeaveSite(v), NEW i \in DOMAIN sessions
      PROVE  i \in DOMAIN sessions' /\ sessions'[i].vehicle = sessions[i].vehicle
  <2>1. sessions[i] \in Sessions
    BY <1>1
  <2>2. [sessions[i] EXCEPT !.open = FALSE].vehicle = sessions[i].vehicle
    BY <2>1 DEF Sessions
  <2> QED BY <1>3, <2>2 DEF LeaveSite
<1>4. ASSUME NEW t \in Tasks, Handle(t), sessions' # sessions, NEW i \in DOMAIN sessions
      PROVE  i \in DOMAIN sessions' /\ sessions'[i].vehicle = sessions[i].vehicle
  <2>1. PICK x : sessions' = Append(sessions, x)
    BY <1>4, Zenon DEF Handle
  <2> QED BY <1>1, <2>1
<1> QED BY <1>2, <1>3, <1>4, WhoWritesSessions

LEMMA RefusedGrows ==
  ASSUME [Next]_vars
  PROVE  refused \subseteq refused'
<1>1. ASSUME NEW t \in Tasks, Persist(t)
      PROVE  refused \subseteq refused'
  BY <1>1, Zenon DEF Persist
<1> QED BY <1>1 DEF Next, OfVehicle, OfTask, LeaveSite, Publish, Callback, Handle, Answered,
                    HandleRaises, Fail, Poll, AckMoot, Skip, TakeEvent, TakeRetry, Ack, Flush,
                    Switch, Crash, Tick, vars

LEMMA SettledStays ==
  ASSUME IInv, [Next]_vars, NEW v, Settled(v)
  PROVE  Settled(v)'
<1>1. CASE \E i \in DOMAIN sessions : sessions[i].vehicle = v
  BY <1>1, SessionsStay DEF Settled
<1>2. CASE \E i \in DOMAIN captures : captures[i].vehicle = v /\ ~captures[i].fit
  <2>1. CASE captures' = captures
    BY <1>2, <2>1 DEF Settled
  <2>2. CASE captures' # captures
    BY <1>2, <2>2, WhoWritesCaptures, RowsPersisted DEF Settled
  <2> QED BY <2>1, <2>2
<1>3. CASE WasRefused(v)
  BY <1>3, RefusedGrows DEF WasRefused, Settled
<1> QED BY <1>1, <1>2, <1>3 DEF Settled

(* The entry lane looks at the row: a session is there, or it makes one. *)
LEMMA HandledIsSettled ==
  ASSUME IInv, PlatesTellApart, NEW t \in Tasks, Handle(t), [Next]_vars,
         NEW v \in Vehicles \ Fused, captures[work[t].row].vehicle = v
  PROVE  Settled(v)'
<1> DEFINE r == captures[work[t].row]
           x == [vehicle |-> r.vehicle, source |-> r.source, plate |-> r.plate, open |-> TRUE]
<1>1. work[t].row \in DOMAIN captures /\ r \in GoodRows
  BY HandledHand DEF Handle
<1>2. sessions \in Seq(GoodSessions)
  BY DEF IInv, RowInv
<1>3. \/ ~r.fit
      \/ r.fit /\ (ExistingEntry(r) # {} \/ LikeIt(r) # {})
      \/ sessions' = Append(sessions, x)
  BY Zenon DEF Handle
<1>4. CASE ~r.fit
  BY <1>1, <1>4, SettledStays DEF Settled
<1>5. CASE sessions' = Append(sessions, x)
  <2>1. x.vehicle = v
    OBVIOUS
  <2> HIDE DEF x
  <2>2. Len(sessions) + 1 \in DOMAIN sessions' /\ sessions'[Len(sessions) + 1] = x
    BY <1>2, <1>5
  <2> QED BY <2>1, <2>2 DEF Settled
<1>6. CASE r.fit /\ (ExistingEntry(r) # {} \/ LikeIt(r) # {})
  <2>1. PICK i \in DOMAIN sessions :
          \/ VisitOf(sessions[i]) = VisitOf(r)
          \/ sessions[i].plate = r.plate
          \/ Alike(sessions[i].plate, r.plate)
    BY <1>6 DEF ExistingEntry, OfVisit, OpenFor, LikeIt
  <2>2. /\ sessions[i].vehicle \in Vehicles /\ sessions[i].plate \in Plates
        /\ sessions[i].plate \in ReadAs[sessions[i].vehicle]
    BY <1>2 DEF GoodSessions, Sessions
  <2> HIDE DEF r
  <2>3. r.vehicle = v /\ r.plate \in Plates /\ r.plate \in ReadAs[v]
    BY <1>1, <1>6 DEF GoodRows, Rows, r
  <2>4. sessions[i].vehicle = v
    <3>1. CASE VisitOf(sessions[i]) = VisitOf(r)
      BY <2>3, <3>1 DEF VisitOf
    <3>2. CASE sessions[i].plate = r.plate \/ Alike(sessions[i].plate, r.plate)
      <4>1. Alike(r.plate, sessions[i].plate)
        BY <2>2, <2>3, <3>2, AlikeIsSymmetric
      <4> QED BY <2>2, <2>3, <4>1, Zenon DEF PlatesTellApart
    <3> QED BY <2>1, <3>1, <3>2
  <2>5. Settled(v)
    BY <2>4 DEF Settled
  <2> QED BY <2>5, SettledStays
<1> QED BY <1>3, <1>4, <1>5, <1>6

(* A new row of an event that is not fused goes to the lane, or to an operator. *)
LEMMA NewRowIsHandled ==
  ASSUME IInv, on = Switches, NEW t \in Tasks, Persist(t), [Next]_vars,
         NEW v \in Vehicles \ Fused, ~IsCaptured(v), IsCaptured(v)'
  PROVE  Settled(v)' \/ Handling(v)'
<1> DEFINE o == Head(work[t].todo)
           n == Len(captures) + 1
<1>1. work[t].pc = "todo" /\ captures \in Seq(GoodRows) /\ Len(captures) \in Nat
  BY DEF Persist, IInv, RowInv
<1>2. PICK i \in DOMAIN captures' : captures'[i].vehicle = v /\ captures'[i].source = "worker"
  BY DEF IsCaptured
<1>3. i \notin DOMAIN captures
  BY <1>2, RowsPersisted DEF IsCaptured
<1>4. captures' = Append(captures, NewRow(o)) /\ StoredAs(t, o, n)
  BY <1>2, <1>3, RowsPersisted
<1>5. o \in OutcomesOf(t)
  BY <1>1, NextOutcome
<1> HIDE DEF o
<1>6. n \in DOMAIN captures' /\ captures'[n] = NewRow(o) /\ i = n
  <2> DEFINE row == NewRow(o)
  <2>1. captures' = Append(captures, row)
    BY <1>4
  <2> HIDE DEF row
  <2>2. /\ DOMAIN captures' = DOMAIN captures \cup {n} /\ captures'[n] = row
    BY <1>1, <2>1
  <2> QED BY <1>2, <1>3, <2>2 DEF row
<1>7. NewRow(o).vehicle = o.vehicle /\ NewRow(o).fit = IsFit(o)
  BY DEF NewRow
<1>8. o.vehicle = v /\ t = "loop"
  BY <1>2, <1>5, <1>6, <1>7 DEF OutcomesOf
<1>9. CASE ~IsFit(o)
  BY <1>6, <1>7, <1>8, <1>9 DEF Settled
<1>10. CASE IsFit(o)
  <2>1. ~o.review
    BY <1>10 DEF IsFit
  <2>2. LatestFor(v) \in {0} \cup DOMAIN captures /\ DOMAIN captures = 1..Len(captures)
    BY <1>1, LatestIsRow
  <2>3. LatestFor(v) # n
    BY <1>1, <2>2
  <2>4. n \notin seen
    <3>1. n \notin DOMAIN captures
      BY <1>3, <1>6
    <3> QED BY <3>1 DEF IInv, RowInv
  <2>5. ShouldHandle(o, n, LatestFor(o.vehicle))
    BY <1>8, <2>1, <2>3, <2>4 DEF ShouldHandle, Switches
  <2> DEFINE w == Persisted(t)
             x == [w EXCEPT !.pc = "stored", !.row = n]
             y == [w EXCEPT !.pc = "stored"]
  <2>6. work' = [work EXCEPT ![t] = x]
    BY <1>4, <2>5, Zenon DEF StoredAs
  <2>7. w \in Work /\ n \in Nat
    BY <1>1, NextOutcome
  <2> HIDE DEF w, n
  <2>8. x = [y EXCEPT !.row = n]
    BY Zenon
  <2>9. y \in Work /\ y.pc = "stored"
    BY <2>7 DEF Work, Stations
  <2> HIDE DEF y, x
  <2>10. x \in Work /\ x.pc = "stored" /\ x.row = n
    BY <2>7, <2>8, <2>9 DEF Work
  <2>11. Loop' = x
    BY <1>8, <2>6, <2>10, TaskOf DEF Loop
  <2> QED BY <1>2, <1>6, <2>10, <2>11 DEF Handling
<1> QED BY <1>9, <1>10

(* What each step does to the loop that hands a row over. *)
LEMMA HandlingStays ==
  ASSUME IInv, [Next]_vars, faults' = 0, NEW v, Handling(v), ~Handle("loop")
  PROVE  Handling(v)'
<1>1. GoodTask("loop", Loop, captures, CameraOff, Excused) /\ Loop.pc = "stored"
  BY LoopIsGood DEF IInv, Handling
<1>2. Loop.row \in DOMAIN captures
  BY <1>1 DEF GoodTask
<1>3. faults \in Nat
  BY BoundsAssumption DEF IInv, CountInv
<1>4. /\ Loop.row \in DOMAIN captures'
      /\ captures'[Loop.row].vehicle = captures[Loop.row].vehicle
      /\ captures'[Loop.row].source = captures[Loop.row].source
  <2>1. CASE captures' = captures
    BY <1>2, <2>1
  <2>2. CASE captures' # captures
    BY <1>2, <2>2, WhoWritesCaptures, RowsPersisted
  <2> QED BY <2>1, <2>2
<1>5. Loop' = Loop
  <2>1. ~Crash /\ \A t \in Tasks : ~HandleRaises(t) /\ ~Fail(t)
    BY <1>3 DEF Crash, HandleRaises, Fail, MayFail
  <2>2. ~LoopStep
    <3>1. Idle.pc = "idle"
      BY DEF Idle
    <3> QED BY <1>1, <3>1 DEF LoopStep, Poll, AckMoot, Skip, TakeEvent, TakeRetry, Ack, Turn, OfEvent
  <2>3. work["loop"].pc = "stored"
    BY <1>1 DEF Loop
  <2>4. ASSUME NEW t \in Tasks, Persist(t) \/ Handle(t) \/ Answered(t)
        PROVE  t # "loop" /\ \E w : work' = [work EXCEPT ![t] = w]
    <3>1. t # "loop"
      BY <2>3, <2>4 DEF Persist, Answered
    <3>2. \E w : work' = [work EXCEPT ![t] = w]
      <4>1. ASSUME NEW row, NEW o, StoredAs(t, o, row)
            PROVE  \E w : work' = [work EXCEPT ![t] = w]
        BY <4>1, Zenon DEF StoredAs
      <4>2. CASE Persist(t)
        BY <4>1, <4>2, Zenon DEF Persist
      <4>3. CASE Handle(t)
        BY <4>3 DEF Handle
      <4>4. CASE Answered(t)
        BY <4>4, Zenon DEF Answered
      <4> QED BY <2>4, <4>2, <4>3, <4>4
    <3> QED BY <3>1, <3>2
  <2>5. ASSUME NEW u \in Vehicles, OfVehicle(u)
        PROVE  work' = work \/ \E w : work' = [work EXCEPT !["native"] = w]
    BY <2>5, Zenon DEF OfVehicle, LeaveSite, Publish, Callback, TakeStep, ReadOnSite, Start
  <2>6. Flush => \E w : work' = [work EXCEPT !["flush"] = w]
    BY Zenon DEF Flush, TakeStep, Start
  <2>7. (\E s \in Switches : Switch(s)) \/ Tick \/ UNCHANGED vars => work' = work
    BY DEF Switch, Tick, vars
  <2>8. work' = work \/ \E t \in Tasks \ {"loop"} : \E w : work' = [work EXCEPT ![t] = w]
    <3>1. "native" \in Tasks \ {"loop"} /\ "flush" \in Tasks \ {"loop"}
      BY DEF Tasks
    <3> QED BY <2>1, <2>2, <2>4, <2>5, <2>6, <2>7, <3>1 DEF Next, OfTask, LoopStep
  <2> QED BY <2>8, TaskOf, LoopIsTask DEF Loop
<1> QED BY <1>1, <1>4, <1>5 DEF Handling

LEMMA NotSwitched ==
  ASSUME IInv, [Next]_vars, faults' = 0, switched' = 0
  PROVE  /\ faults = 0 /\ switched = 0 /\ on' = on
         /\ ~Crash /\ \A t \in Tasks : ~HandleRaises(t) /\ ~Fail(t)
<1>1. faults \in Nat /\ switched \in Nat
  BY BoundsAssumption DEF IInv, CountInv
<1>2. ~Crash /\ \A t \in Tasks : ~HandleRaises(t) /\ ~Fail(t)
  BY <1>1 DEF Crash, HandleRaises, Fail, MayFail
<1>3. \A s \in Switches : ~Switch(s)
  BY <1>1 DEF Switch
<1>4. ASSUME NEW v \in Vehicles, OfVehicle(v)
      PROVE  UNCHANGED <<faults, switched, on>>
  BY <1>4 DEF OfVehicle, LeaveSite, Publish, Callback, limits
<1>5. ASSUME NEW t \in Tasks, Persist(t) \/ Handle(t) \/ Answered(t)
      PROVE  UNCHANGED <<faults, switched, on>>
  BY <1>5 DEF Persist, Handle, Answered, limits
<1>6. LoopStep \/ Flush \/ Tick \/ UNCHANGED vars => UNCHANGED <<faults, switched, on>>
  BY DEF LoopStep, Poll, AckMoot, Skip, TakeEvent, TakeRetry, Ack, Flush, Tick, vars, limits
<1> QED BY <1>2, <1>3, <1>4, <1>5, <1>6 DEF Next, OfTask, LoopStep

(* Only the acknowledgement marks a key. *)
LEMMA WhoMarks ==
  ASSUME [Next]_vars, processed' # processed
  PROVE  Ack
BY DEF Next, OfVehicle, OfTask, LeaveSite, Publish, Callback, Persist, Handle, Answered,
       HandleRaises, Fail, Poll, AckMoot, Skip, TakeEvent, TakeRetry, Flush, Switch, Crash,
       Tick, vars

LEMMA SettledStep ==
  ASSUME PlatesTellApart, IInv, SettledInv, [Next]_vars
  PROVE  SettledInv'
<1> SUFFICES ASSUME faults' = 0, switched' = 0
             PROVE  (/\ on = Switches
                     /\ \A v \in Vehicles \ Fused :
                          /\ IsCaptured(v) => Settled(v) \/ Handling(v)
                          /\ v \in processed => Settled(v))'
  BY DEF SettledInv
<1>1. faults = 0 /\ switched = 0 /\ on' = on
  BY NotSwitched
<1>2. /\ on = Switches
      /\ \A v \in Vehicles \ Fused : /\ IsCaptured(v) => Settled(v) \/ Handling(v)
                                     /\ v \in processed => Settled(v)
  BY <1>1 DEF SettledInv
<1>3. ASSUME NEW v \in Vehicles \ Fused, IsCaptured(v)'
      PROVE  Settled(v)' \/ Handling(v)'
  <2>1. CASE Settled(v)
    BY <2>1, SettledStays
  <2>2. CASE ~Settled(v) /\ IsCaptured(v)
    <3>1. Handling(v)
      BY <1>2, <2>2
    <3>2. CASE Handle("loop")
      <4>1. captures[work["loop"].row].vehicle = v
        BY <3>1 DEF Handling, Loop
      <4> QED BY <3>2, <4>1, LoopIsTask, HandledIsSettled
    <3>3. CASE ~Handle("loop")
      BY <3>1, <3>3, HandlingStays
    <3> QED BY <3>2, <3>3
  <2>3. CASE ~IsCaptured(v)
    <3>1. captures' # captures
      BY <1>3, <2>3 DEF IsCaptured
    <3> QED BY <1>2, <1>3, <2>3, <3>1, WhoWritesCaptures, NewRowIsHandled
  <2> QED BY <2>1, <2>2, <2>3
<1>4. ASSUME NEW v \in Vehicles \ Fused, v \in processed'
      PROVE  Settled(v)'
  <2>1. CASE v \in processed
    BY <1>2, <2>1, SettledStays
  <2>2. CASE v \notin processed
    <3>1. Ack
      BY <1>4, <2>2, WhoMarks
    <3>2. PICK k \in DOMAIN outbox :
            outbox[k] \in Loop.item /\ processed' = processed \cup KeyOf(outbox[k])
      BY <3>1 DEF Ack
    <3>3. IsEventOf(outbox[k], v)
      BY <1>4, <2>2, <3>2 DEF KeyOf, IsEventOf
    <3>4. GotTo(Loop, v, captures, CameraOff, Excused) /\ Loop.pc = "ack"
      BY <3>1, <3>2, <3>3, LoopIsGood DEF IInv, GoodTask, Ack
    <3>5. IsCaptured(v) \/ WasRefused(v)
      BY <1>2, <2>2, <3>4 DEF GotTo, CameraOff, Excused, Switches, WorkerRead, IsCaptured
    <3>6. ~Handling(v)
      BY <3>4 DEF Handling
    <3>7. Settled(v)
      BY <1>2, <3>5, <3>6 DEF Settled
    <3> QED BY <3>7, SettledStays
  <2> QED BY <2>1, <2>2
<1> QED BY <1>1, <1>2, <1>3, <1>4

(* As long as nothing crashes, raises or is switched, the event of a camera
   that only takes pictures becomes a session or an operator's capture before
   its key is marked, or is refused by persist_event, if its plate is not
   like that of another vehicle (_outbox_loop, _persist_capture_event and
   handle_live_entry). *)
THEOREM OnlyFaultsDrop ==
  ASSUME PlatesTellApart
  PROVE  Spec => []DroppedByFaultsOnly
<1>1. Init => SettledInv
  BY DEF Init, SettledInv, IsCaptured
<1>2. Spec => []SettledInv
  BY <1>1, Invariance, SettledStep, PTL DEF Spec
<1>3. IInv /\ SettledInv => DroppedByFaultsOnly
  <2>1. \A v : Settled(v) => HasBeenHandled(v)
    BY DEF Settled, HasBeenHandled
  <2>2. IInv => processed \subseteq Vehicles
    BY DEF IInv, QueueInv
  <2>3. IInv /\ SettledInv /\ faults = 0 /\ switched = 0 =>
          \A v \in processed \ Fused : Settled(v)
    BY <2>2 DEF SettledInv
  <2> QED BY <2>1, <2>3 DEF DroppedByFaultsOnly, NothingDropped
<1> QED BY <1>2, <1>3, Invariance, PTL
=============================================================================

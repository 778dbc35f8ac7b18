-------------------------- MODULE CapturePipeline --------------------------
(***************************************************************************)
(* From a plate that was read to a parking session (the event queue of     *)
(* services/queues.py, _outbox_loop, _drain_camera_events,                 *)
(* _fusion_flush_loop and _persist_capture_event of api_main.py,           *)
(* services/hybrid_fusion.py, persist_event of services/captures.py and    *)
(* the idempotency of start_entry in services/parking_sessions.py).        *)
(*                                                                         *)
(* The recognition worker, a process of its own, queues one event for each *)
(* vehicle (RecognitionWorker).  The site service has three tasks on one   *)
(* event loop: one takes the queue, one the callbacks of a camera that     *)
(* reads plates itself, and one decides readings whose counterpart did not *)
(* come.  Each persists a capture and then hands it to the entry lane.     *)
(* The queue and the database survive a crash of the site service; the     *)
(* readings that wait to be fused do not.                                  *)
(***************************************************************************)
EXTENDS HybridFusion, SequencesExt, FiniteSets

CONSTANTS
  Fused,        \* vehicles before the camera whose readings are fused
  ReadAs,       \* the plates a vehicle may be read as
  Confidences,  \* confidences of readings
  AutoOpen,     \* plates of registered vehicles that always get handled
  Limit,        \* how many queued events one pass of the loop looks at
  MaxNative,    \* bound: callbacks of the camera for one vehicle
  MaxFaults,    \* bound: crashes and exceptions
  MaxSwitches   \* bound: changes of modules, camera and worker

ASSUME VehiclesAssumption ==
  /\ IsFiniteSet(Vehicles) /\ Fused \subseteq Vehicles
  /\ \A v \in Vehicles : ReadAs[v] \subseteq Plates
  /\ AutoOpen \subseteq Plates
ASSUME ConfidencesAssumption == Confidences \subseteq 0..100
ASSUME BoundsAssumption ==
  /\ Limit \in Nat \ {0} /\ MaxNative \in Nat
  /\ MaxFaults \in Nat /\ MaxSwitches \in Nat

VARIABLES
  left,      \* vehicles that came, parked and left the site again
  natives,   \* callbacks there were for a vehicle
  published, \* vehicles whose event was queued
  outbox,    \* queued items, oldest first
  processed, \* event keys marked with their acknowledgement
  captures,  \* rows of vehicle_captures, oldest first
  refused,   \* visits that the capture gate once refused to store
  sessions,  \* rows of parking_sessions, oldest first
  lane,      \* the coordinator's lane of the fused camera
  seen,      \* camera_events: captures handled a moment ago
  work,      \* what each task of the site service is doing
  on,        \* modules and devices that are switched on
  faults,    \* crashes and exceptions so far
  switched   \* changes of on so far

world == <<left, natives, published>>
limits == <<faults, switched>>
vars == <<left, natives, published, outbox, processed, captures, refused, sessions,
          lane, seen, work, on, faults, switched>>

-----------------------------------------------------------------------------
(* Data *)

(* A visit is named by the process that saw it begin: the worker's events
   carry the worker's visit and event id, a native reading gets the visit of
   the site's own lane.  The indexes of the database make both unique. *)
Sources == {"worker", "site"}
Visits  == [vehicle : Vehicles, source : Sources]
VisitOf(r) == [vehicle |-> r.vehicle, source |-> r.source]

(* fit: as_entry_candidate takes it, neither held nor of low confidence. *)
Rows     == [vehicle : Vehicles, source : Sources, plate : Plates, fit : BOOLEAN]
Sessions == [vehicle : Vehicles, source : Sources, plate : Plates, open : BOOLEAN]

Events  == [kind : {"PlateRecognized"}, reading : Readings]
Retries == [kind : {"plate-event"}, visit : Visits]
Items   == Events \cup Retries

IsEventOf(i, v) == i.kind = "PlateRecognized" /\ i.reading.vehicle = v

(* What a task persists are outcomes of the coordinator; a reading that does
   not pass through it becomes one too. *)
Direct(v, source, plate, conf, review) ==
  [vehicle |-> v, source |-> source, plate |-> plate, conf |-> conf,
   review |-> review, suppressed |-> FALSE]
IsFit(o) == ~o.review /\ o.conf >= 75

(* alpr, sessions: modules.  camera: the cameras are enabled.  ready: the
   worker delivers; claims: it is stalled but its frames are fresh. *)
Switches == {"alpr", "sessions", "camera", "ready", "claims"}

Tasks == {"loop", "native", "flush"}

(* todo: outcomes still to persist.  row: the capture being handled, an
   index of captures.  item, batch: what the loop took from the queue. *)
Stations == {"idle", "todo", "stored", "opening", "ack"}
Work == [pc : Stations, todo : Seq(Outcomes), row : Nat,
         item : SUBSET Items, batch : Seq(Items)]
Idle == [pc |-> "idle", todo |-> <<>>, row |-> 0, item |-> {}, batch |-> <<>>]

(* Between these two statements a task does not give way. *)
Busy == {"todo", "stored", "ack"}

SameCamera(v, w) == (v \in Fused) <=> (w \in Fused)

-----------------------------------------------------------------------------
Init ==
  /\ left = {}
  /\ natives = [v \in Vehicles |-> 0]
  /\ published = {}
  /\ outbox = <<>> /\ processed = {}
  /\ captures = <<>> /\ refused = {} /\ sessions = <<>>
  /\ lane = NewLane /\ seen = {}
  /\ work = [t \in Tasks |-> Idle]
  /\ on = Switches
  /\ faults = 0 /\ switched = 0

Free == \A t \in Tasks : work[t].pc \notin Busy

-----------------------------------------------------------------------------
(* The vehicles *)

(* The exit lane closes the vehicle's open sessions (ExitLane). *)
LeaveSite(v) ==
  /\ v \notin left /\ Free
  /\ left' = left \cup {v}
  /\ sessions' = [i \in DOMAIN sessions |->
                    IF sessions[i].vehicle = v THEN [sessions[i] EXCEPT !.open = FALSE]
                    ELSE sessions[i]]
  /\ UNCHANGED <<natives, published, outbox, processed, captures, refused, lane, seen, work,
                 on, limits>>

-----------------------------------------------------------------------------
(* The worker: publish, with the visit as the dedupe key *)

Publish(v) ==
  /\ v \notin left \cup published
  /\ published' = published \cup {v}
  /\ \E p \in ReadAs[v], c \in Confidences, sure \in (IF v \in Fused THEN BOOLEAN ELSE {TRUE}) :
       outbox' = Append(outbox,
         [kind |-> "PlateRecognized",
          reading |-> [vehicle |-> v, plate |-> p, conf |-> c, sure |-> sure]])
  /\ UNCHANGED <<left, natives, processed, captures, refused, sessions, lane, seen, work,
                 on, limits>>

-----------------------------------------------------------------------------
(* What the coordinator decided, on its way to the database *)

(* worker_owns_software_reads, local_counterpart_available *)
RoutesCamera == on \cap {"ready", "claims"} # {}
LocalCounterpart == "ready" \in on

(* The task turns to its next outcome; the loop acknowledges its item when
   there is none. *)
Onward(t, w) ==
  [w EXCEPT !.row = 0,
            !.pc = IF w.todo # <<>> THEN "todo" ELSE IF t = "loop" THEN "ack" ELSE "idle"]
Start(t, w, outcomes) ==
  work' = [work EXCEPT ![t] = Onward(t, [w EXCEPT !.todo = outcomes])]

TakeStep(t, w, step) == lane' = step.lane /\ Start(t, w, step.outcomes)

-----------------------------------------------------------------------------
(* _drain_camera_events and _onvif_capture: a callback of the camera *)

(* _run_local_alpr: FastALPR reads the picture of the callback when the
   worker does not own the camera's reads; it may see nothing. *)
SiteReadings(v) ==
  {NoReading} \cup {Reading(p, c) : p \in ReadAs[v], c \in Confidences}

ReadOnSite(v, native) ==
  \E local \in SiteReadings(v) :
    LET d == Resolve(Reading(native.plate, native.conf), local, FALSE)
    IN /\ Start("native", Idle, <<Direct(v, "site", d.plate, d.conf, d.review)>>)
       /\ UNCHANGED lane

Callback(v) ==
  /\ v \in Fused \ left /\ natives[v] < MaxNative
  /\ work["native"].pc = "idle" /\ Free /\ "camera" \in on
  /\ natives' = [natives EXCEPT ![v] = @ + 1]
  /\ \E p \in ReadAs[v], c \in Confidences :
       LET reading == [vehicle |-> v, plate |-> p, conf |-> c, sure |-> FALSE]
       IN IF RoutesCamera
          THEN TakeStep("native", Idle, Offer(lane, "native", reading, LocalCounterpart))
          ELSE ReadOnSite(v, reading)
  /\ UNCHANGED <<left, published, outbox, processed, captures, refused, sessions, seen, on, limits>>

(* _fusion_flush_loop *)
Flush ==
  /\ work["flush"].pc = "idle" /\ Free
  /\ \E s \in Slots : IsDue(lane[s])
  /\ TakeStep("flush", Idle, Flushed(lane))
  /\ UNCHANGED <<world, outbox, processed, captures, refused, sessions, seen, on, limits>>

-----------------------------------------------------------------------------
(* _outbox_loop *)

Loop == work["loop"]
LoopIs(w) == work' = [work EXCEPT !["loop"] = w]

(* box.pending *)
Poll ==
  /\ Loop = Idle /\ outbox # <<>> /\ Free
  /\ LoopIs([Idle EXCEPT !.batch = SubSeq(outbox, 1, Min({Limit, Len(outbox)}))])
  /\ UNCHANGED <<world, outbox, processed, captures, refused, sessions, lane, seen, on, limits>>

(* The next item of the batch, and the loop when it works on it. *)
Turn  == Loop.pc = "idle" /\ Loop.batch # <<>> /\ Free
Item  == Head(Loop.batch)
Begun == [Idle EXCEPT !.item = {Item}, !.batch = Tail(Loop.batch)]

OfEvent == Turn /\ Item.kind = "PlateRecognized"
Reader  == Item.reading.vehicle

IsCaptured(v) ==
  \E i \in DOMAIN captures : captures[i].vehicle = v /\ captures[i].source = "worker"

(* Nothing is to be done for the event: its camera is gone or disabled, it
   is a duplicate, or its camera reads plates itself and the worker does not
   own its reads any more. *)
Moot ==
  \/ Reader \in processed
  \/ /\ "alpr" \in on
     /\ \/ "camera" \notin on
        \/ IsCaptured(Reader)
        \/ Reader \in Fused /\ ~RoutesCamera

AckMoot ==
  /\ OfEvent /\ Moot
  /\ LoopIs([Begun EXCEPT !.pc = "ack"])
  /\ UNCHANGED <<world, outbox, processed, captures, refused, sessions, lane, seen, on, limits>>

(* Mutant: an item of a module that is switched off ends the pass. *)
SkipEndsPass ==
  /\ Turn
  /\ \/ Item.kind = "PlateRecognized" /\ ~Moot /\ "alpr" \notin on
     \/ Item.kind = "plate-event" /\ "sessions" \notin on
  /\ LoopIs(Idle)
  /\ UNCHANGED <<world, outbox, processed, captures, refused, sessions, lane, seen, on, limits>>

(* An item of a module that is switched off stays in the queue. *)
Skip ==
  /\ Turn
  /\ \/ Item.kind = "PlateRecognized" /\ ~Moot /\ "alpr" \notin on
     \/ Item.kind = "plate-event" /\ "sessions" \notin on
  /\ LoopIs([Idle EXCEPT !.batch = Tail(Loop.batch)])
  /\ UNCHANGED <<world, outbox, processed, captures, refused, sessions, lane, seen, on, limits>>

(* offer_local, or straight to the database. *)
TakeEvent ==
  /\ OfEvent /\ ~Moot /\ "alpr" \in on
  /\ IF Reader \in Fused
     THEN TakeStep("loop", Begun, Offer(lane, "local", Item.reading, TRUE))
     ELSE /\ Start("loop", Begun,
               <<Direct(Reader, "worker", Item.reading.plate, Item.reading.conf, FALSE)>>)
          /\ UNCHANGED lane
  /\ UNCHANGED <<world, outbox, processed, captures, refused, sessions, seen, on, limits>>

(* A plate-event: its capture is handled again. *)
TakeRetry ==
  /\ Turn /\ Item.kind = "plate-event" /\ "sessions" \in on
  /\ LoopIs([Begun EXCEPT !.pc = "stored",
       !.row = CHOOSE i \in DOMAIN captures : VisitOf(captures[i]) = Item.visit])
  /\ UNCHANGED <<world, outbox, processed, captures, refused, sessions, lane, seen, on, limits>>

KeyOf(item) == IF item.kind = "PlateRecognized" THEN {item.reading.vehicle} ELSE {}

(* box.ack: the row and the processed mark are one commit. *)
Ack ==
  /\ Loop.pc = "ack"
  /\ \E k \in DOMAIN outbox :
       /\ outbox[k] \in Loop.item
       /\ outbox' = RemoveAt(outbox, k)
       /\ processed' = processed \cup KeyOf(outbox[k])
  /\ LoopIs([Idle EXCEPT !.batch = Loop.batch])
  /\ UNCHANGED <<world, captures, refused, sessions, lane, seen, on, limits>>

-----------------------------------------------------------------------------
(* _persist_capture_event *)

(* latest_for_camera; 0: the camera has no capture. *)
LatestFor(v) ==
  Max({0} \cup {i \in DOMAIN captures : SameCamera(captures[i].vehicle, v)})

(* _capture_by_identity, and the repeat of a native callback with nearly
   the same box, which is stored in the camera's latest capture. *)
SameRow(o) == {i \in DOMAIN captures : VisitOf(captures[i]) = VisitOf(o)}
RepeatOf(o) ==
  {i \in {LatestFor(o.vehicle)} \ {0} : o.vehicle \in Fused /\ captures[i].plate = o.plate}

OpenFor(plate) == {i \in DOMAIN sessions : sessions[i].open /\ sessions[i].plate = plate}

(* Mutant: a moment is not long enough for a second vehicle. *)
HandleOneAtATime(o, row, previous) ==
  /\ "sessions" \in on /\ ~o.review
  /\ \/ row # previous
     \/ captures'[row].plate \in AutoOpen
     \/ OpenFor(captures'[row].plate) = {}
  /\ seen = {}

(* Is the row that o was stored in, the camera's latest or not, handed to
   the lane? *)
ShouldHandle(o, row, previous) ==
  /\ "sessions" \in on /\ ~o.review
  /\ \/ row # previous
     \/ captures'[row].plate \in AutoOpen
     \/ OpenFor(captures'[row].plate) = {}
  /\ row \notin seen

(* The task's outcome o was stored in this row. *)
Persisted(t) == [work[t] EXCEPT !.todo = Tail(@)]
StoredAs(t, o, row) ==
  IF ShouldHandle(o, row, LatestFor(o.vehicle))
  THEN /\ seen' = seen \cup {row}
       /\ work' = [work EXCEPT ![t] = [Persisted(t) EXCEPT !.pc = "stored", !.row = row]]
  ELSE /\ work' = [work EXCEPT ![t] = Onward(t, Persisted(t))]
       /\ UNCHANGED seen

NewRow(o) ==
  [vehicle |-> o.vehicle, source |-> o.source, plate |-> o.plate, fit |-> IsFit(o)]

(* An outcome that is held marks the row it was stored in. *)
Marked(row, o) == [row EXCEPT !.fit = @ /\ ~o.review]

(* _apply does not persist a suppressed outcome, and
   _persist_capture_event nothing of a camera that is not active. *)
NotPersisted(o) == o.suppressed \/ o.plate = NoPlate \/ "camera" \notin on

(* persist_event: the row of the visit; else nothing, if there is neither a
   picture nor a plate or should_persist_vehicle_capture refuses the reading
   (by the shape of the plate, its confidence and the site's policy:
   CaptureGate); else the camera's latest row, if this is a repeat of it, or
   a new row.  Whoever asked is not told of a refusal. *)
Persist(t) ==
  /\ work[t].pc = "todo"
  /\ LET o == Head(work[t].todo)
         into(i) == /\ captures' = [captures EXCEPT ![i] = Marked(@, o)]
                    /\ StoredAs(t, o, i)
                    /\ UNCHANGED refused
         past == /\ work' = [work EXCEPT ![t] = Onward(t, Persisted(t))]
                 /\ UNCHANGED <<captures, seen>>
     IN \/ /\ NotPersisted(o)
           /\ past
           /\ UNCHANGED refused
        \/ /\ ~NotPersisted(o)
           /\ \E i \in SameRow(o) : into(i)
        \/ /\ ~NotPersisted(o) /\ SameRow(o) = {}
           /\ refused' = refused \cup {VisitOf(o)}
           /\ past
        \/ /\ ~NotPersisted(o) /\ SameRow(o) = {}
           /\ \E i \in RepeatOf(o) : into(i)
        \/ /\ ~NotPersisted(o) /\ SameRow(o) = {}
           /\ captures' = Append(captures, NewRow(o))
           /\ StoredAs(t, o, Len(captures) + 1)
           /\ UNCHANGED refused
  /\ UNCHANGED <<world, outbox, processed, sessions, lane, on, limits>>

-----------------------------------------------------------------------------
(* handle_live_entry *)

(* _existing_entry: a session of the visit, closed or not, an open one of
   the plate, or an open one that a moment ago came of a plate like it. *)
OfVisit(r) == {i \in DOMAIN sessions : VisitOf(sessions[i]) = VisitOf(r)}
LikeIt(r) ==
  {i \in DOMAIN sessions : /\ sessions[i].open /\ SameCamera(sessions[i].vehicle, r.vehicle)
                           /\ Alike(sessions[i].plate, r.plate)}
(* Mutant: only an open session counts. *)
OpenEntry(r) == OpenFor(r.plate)

ExistingEntry(r) == OfVisit(r) \cup OpenFor(r.plate)

(* start_entry: a new session is committed before the lane's first await. *)
Handle(t) ==
  /\ work[t].pc = "stored"
  /\ LET r == captures[work[t].row]
         found == ~r.fit \/ ExistingEntry(r) # {}
     IN \/ /\ found \/ LikeIt(r) # {}
           /\ work' = [work EXCEPT ![t] = Onward(t, @)]
           /\ UNCHANGED sessions
        \/ /\ ~found
           /\ sessions' = Append(sessions, [vehicle |-> r.vehicle, source |-> r.source,
                                            plate |-> r.plate, open |-> TRUE])
           /\ work' = [work EXCEPT ![t].pc = "opening"]
  /\ UNCHANGED <<world, outbox, processed, captures, refused, lane, seen, on, limits>>

(* The printer and the barrier answered. *)
Answered(t) ==
  /\ work[t].pc = "opening" /\ Free
  /\ work' = [work EXCEPT ![t] = Onward(t, @)]
  /\ UNCHANGED <<world, outbox, processed, captures, refused, sessions, lane, seen, on, limits>>

-----------------------------------------------------------------------------
(* Faults *)

MayFail == faults < MaxFaults /\ faults' = faults + 1

RetryOf(t) == \E i \in work[t].item : i.kind = "plate-event"

(* The entry lane raises: the capture is queued to be handled again. *)
HandleRaises(t) ==
  /\ work[t].pc = "stored" \/ (work[t].pc = "opening" /\ Free)
  /\ ~RetryOf(t) /\ MayFail
  /\ outbox' = Append(outbox, [kind |-> "plate-event", visit |-> VisitOf(captures[work[t].row])])
  /\ work' = [work EXCEPT ![t] = Onward(t, @)]
  /\ UNCHANGED <<world, processed, captures, refused, sessions, lane, seen, on, switched>>

(* Mutant: the item is acknowledged whatever became of it. *)
FailAcks(t) ==
  /\ work[t].pc \in {"todo", "stored"} \/ (RetryOf(t) /\ work[t].pc = "opening" /\ Free)
  /\ MayFail
  /\ work' = [work EXCEPT ![t] = Onward(t, [@ EXCEPT !.todo = <<>>])]
  /\ UNCHANGED <<world, outbox, processed, captures, refused, sessions, lane, seen, on, switched>>

(* Anything else raises, or that queueing does: the task gives up what it
   had in hand, and the loop leaves its item in the queue. *)
Fail(t) ==
  /\ work[t].pc \in {"todo", "stored"} \/ (RetryOf(t) /\ work[t].pc = "opening" /\ Free)
  /\ MayFail
  /\ work' = [work EXCEPT ![t] = Idle]
  /\ UNCHANGED <<world, outbox, processed, captures, refused, sessions, lane, seen, on, switched>>

(* The site service dies and starts again. *)
Crash ==
  /\ MayFail
  /\ lane' = NewLane /\ seen' = {}
  /\ work' = [t \in Tasks |-> Idle]
  /\ UNCHANGED <<world, outbox, processed, captures, refused, sessions, on, switched>>

Switch(s) ==
  /\ switched < MaxSwitches /\ Free
  /\ switched' = switched + 1
  /\ on' = IF s \in on THEN on \ {s} ELSE on \cup {s}
  /\ UNCHANGED <<world, outbox, processed, captures, refused, sessions, lane, seen, work, faults>>

(* Time goes by; what was handled may be handled again. *)
Tick ==
  /\ lane # NewLane \/ seen # {}
  /\ lane' = Aged(lane)
  /\ seen' = {}
  /\ UNCHANGED <<world, outbox, processed, captures, refused, sessions, work, on, limits>>

-----------------------------------------------------------------------------
OfTask(t) ==
  Persist(t) \/ Handle(t) \/ Answered(t) \/ HandleRaises(t) \/ Fail(t)

OfVehicle(v) == LeaveSite(v) \/ Publish(v) \/ Callback(v)

Next ==
  \/ \E v \in Vehicles : OfVehicle(v)
  \/ \E t \in Tasks : OfTask(t)
  \/ Poll \/ AckMoot \/ Skip \/ TakeEvent \/ TakeRetry \/ Ack \/ Flush
  \/ \E s \in Switches : Switch(s)
  \/ Crash \/ Tick

Spec == Init /\ [][Next]_vars

(* The tasks run; nobody has to come, crash or switch anything. *)
LoopStep == Poll \/ AckMoot \/ Skip \/ TakeEvent \/ TakeRetry \/ Ack
Fairness ==
  /\ WF_vars(LoopStep) /\ WF_vars(Flush)
  /\ \A t \in Tasks : WF_vars(Persist(t) \/ Handle(t) \/ Answered(t))
FairSpec == Spec /\ Fairness

-----------------------------------------------------------------------------
TypeOK ==
  /\ left \subseteq Vehicles
  /\ natives \in [Vehicles -> 0..MaxNative]
  /\ published \subseteq Vehicles /\ processed \subseteq Vehicles
  /\ outbox \in Seq(Items)
  /\ captures \in Seq(Rows) /\ refused \subseteq Visits /\ sessions \in Seq(Sessions)
  /\ lane \in Lanes /\ seen \subseteq DOMAIN captures
  /\ work \in [Tasks -> Work]
  /\ on \subseteq Switches
  /\ faults \in 0..MaxFaults /\ switched \in 0..MaxSwitches

Queued(v) == \E i \in DOMAIN outbox : IsEventOf(outbox[i], v)
RetryQueued(v) ==
  \E i \in DOMAIN outbox : outbox[i].kind = "plate-event" /\ outbox[i].visit.vehicle = v

(* However often an event or a plate-event is delivered, and whether or not
   the vehicle has left meanwhile, a visit gets one session: the redelivered
   item finds the closed session of the visit.  (_existing_entry) *)
OneSessionPerVisit ==
  \A i, j \in DOMAIN sessions : VisitOf(sessions[i]) = VisitOf(sessions[j]) => i = j

(* While the coordinator remembers a vehicle it does not accept it again,
   whichever reader comes late: core/hybrid.py's "one physical arrival
   produces at most one accepted plate decision". *)
AcceptedOnce ==
  \A d, e \in lane.decided : d.vehicle = e.vehicle => d = e

WasRefused(v) == [vehicle |-> v, source |-> "worker"] \in refused

(* An event leaves the queue only after its capture was committed, or the
   capture gate refused it, past any crash, exception and restart.  (Of a
   camera whose readings are fused it may be in memory only.) *)
StoredBeforeAck ==
  [][\A v \in Vehicles \ Fused :
       Queued(v) /\ ~Queued(v)' => IsCaptured(v) \/ WasRefused(v) \/ "camera" \notin on]_vars

(* What has become of the vehicle's acknowledged event: a session, or a
   plate-event that waits, or a capture that nobody may act on, or none
   because the capture gate refused it. *)
HasBeenHandled(v) ==
  \/ WasRefused(v)
  \/ \E i \in DOMAIN sessions : sessions[i].vehicle = v
  \/ RetryQueued(v)
  \/ \E i \in DOMAIN captures : captures[i].vehicle = v /\ ~captures[i].fit

(* services/queues.py: "parking events never silently drop". *)
NothingDropped ==
  \A v \in processed \ Fused : "camera" \in on /\ "sessions" \in on => HasBeenHandled(v)

(* Nothing but what the capture gate refuses is dropped as long as nothing
   crashes, raises or is switched. *)
DroppedByFaultsOnly == faults = 0 /\ switched = 0 => NothingDropped

(* Whatever stays switched on from some time on, the items of that module
   leave the queue, even past items of a module that stays off. *)
EventsLeave ==
  <>[]({"alpr", "camera"} \subseteq on) => \A v \in Vehicles : Queued(v) ~> ~Queued(v)
RetriesLeave ==
  <>[]("sessions" \in on) => \A v \in Vehicles : RetryQueued(v) ~> ~RetryQueued(v)
=============================================================================

------------------------- MODULE RecognitionWorker -------------------------
(***************************************************************************)
(* The recognition worker process (recognition_worker.py with the lanes    *)
(* and the scheduler of services/recognition_runtime.py, the arrival gate  *)
(* of services/camera_framing.py and the event queue of services/queues.py)*)
(* Every camera has a lane: a one-frame mailbox filled by its decoder, and *)
(* a task that takes the newest frame, asks the scheduler for a slot, runs *)
(* the detector and the reader in native threads that nothing can stop,    *)
(* and publishes one event for each visit of a vehicle.  A supervisor      *)
(* replaces the task of a camera that made no progress for a while.        *)
(*                                                                         *)
(* What a frame shows is the environment's choice.  All tasks run on one   *)
(* event loop, so an action ends where the task awaits a native call.      *)
(***************************************************************************)
EXTENDS Integers, Sequences, SequencesExt, FiniteSets

CONSTANTS
  Cameras,          \* the cameras the worker reads
  MaxConcurrency,   \* slots of the scheduler, recognition_max_concurrency
  MaxVisits,        \* bound: vehicles that come before each camera
  MaxDisturbances,  \* bound: camera edits, lost streams, crashes of the process
  MaxStray          \* bound: calls of a camera that nobody waits for

ASSUME CamerasAssumption == IsFiniteSet(Cameras)
ASSUME BoundsAssumption ==
  /\ MaxConcurrency \in Nat \ {0}
  /\ MaxVisits \in [Cameras -> Nat]
  /\ MaxDisturbances \in Nat
  /\ MaxStray \in Nat \ {0}

VARIABLES
  task,       \* the camera's task and its local variables
  lane,       \* the camera's mailbox, visit and arrival gate
  held,       \* cameras that hold a slot
  waiting,    \* cameras in line for one
  stray,      \* native calls of a camera that no task waits for any more
  outbox,     \* events queued for the site service, oldest first
  alive,      \* the cameras whose stream delivers frames
  disturbed   \* disturbances so far

vars == <<task, lane, held, waiting, stray, outbox, alive, disturbed>>

-----------------------------------------------------------------------------
(* Data *)

VisitStates ==
  {"IDLE", "VEHICLE_PRESENT", "RECOGNIZING", "PLATE_CONFIRMED",
   "EVENT_PUBLISHED", "VEHICLE_DEPARTING"}

(* A visit is named by a number that is never used again; 0: no vehicle.   *)
(* empty: an earlier look already found the zone empty.                    *)
Visit == [state : VisitStates, id : Nat, published : BOOLEAN, empty : BOOLEAN]
NoVisit == [state |-> "IDLE", id |-> 0, published |-> FALSE, empty |-> FALSE]

(* frame: there is a frame in the mailbox.  settled: the arrival gate      *)
(* holds, this vehicle needs no more reading.  born: visits begun so far.  *)
Lane == [frame : BOOLEAN, settled : BOOLEAN, born : Nat, visit : Visit]
NewLane(born) == [frame |-> FALSE, settled |-> FALSE, born |-> born, visit |-> NoVisit]

(* "idle": at the top of the loop; "drain": waiting for the native call of *)
(* a reading that was given up.                                            *)
InCall == {"probe", "locate", "ocr"}
Places == InCall \cup {"none", "idle", "publish", "drain"}

(* retired: cancelled by the supervisor.  ready: a frame came since the    *)
(* last look.  confirmed: the visit whose plate is known, 0 if none.       *)
(* recent: there was progress within the stall time.                       *)
Task ==
  [pc : Places, retired : BOOLEAN, ready : BOOLEAN, confirmed : Nat, recent : BOOLEAN]
NoTask ==
  [pc |-> "none", retired |-> FALSE, ready |-> FALSE, confirmed |-> 0, recent |-> FALSE]

Event == [camera : Cameras, visit : Nat]

-----------------------------------------------------------------------------
(* A visit: presence begins it, two looks at an empty zone, far enough     *)
(* apart, end it.  A plate neither begins nor ends a visit.                *)

MayBegin(c) == lane[c].visit.id # 0 \/ lane[c].born < MaxVisits[c]

(* A lane whose detector saw a vehicle, with or without a plate. *)
Seen(l, plate) ==
  LET v == l.visit
      fresh == v.state = "IDLE"
      before == IF v.state \in {"IDLE", "VEHICLE_PRESENT", "VEHICLE_DEPARTING"}
                THEN "RECOGNIZING" ELSE v.state
      state == CASE v.published -> "EVENT_PUBLISHED"
                 [] ~v.published /\ plate /\ before = "RECOGNIZING" -> "PLATE_CONFIRMED"
                 [] OTHER -> before
      id == IF fresh THEN l.born + 1 ELSE v.id
  IN [l EXCEPT !.born = IF fresh THEN @ + 1 ELSE @,
               !.visit = [v EXCEPT !.state = state, !.id = id, !.empty = FALSE]]

(* A lane whose detector saw none; long: the zone stayed empty for the     *)
(* absence time.                                                           *)
Unseen(l, long) ==
  LET v == l.visit
  IN CASE v.state = "IDLE" -> l
       [] v.state # "IDLE" /\ v.empty /\ long -> [l EXCEPT !.visit = NoVisit]
       [] OTHER -> [l EXCEPT !.visit.state = "VEHICLE_DEPARTING", !.visit.empty = TRUE]

(* Mutant: the gate goes on holding. *)
StillSettled(l) == l

(* An empty lane needs its next vehicle read. *)
Rearmed(l) == IF l.visit.state = "IDLE" THEN [l EXCEPT !.settled = FALSE] ELSE l

MarkPublished(l) ==
  [l EXCEPT !.visit.state = "EVENT_PUBLISHED", !.visit.published = TRUE]

-----------------------------------------------------------------------------
(* The mailbox keeps the newest frame; a look takes it and begins.         *)

Offered(l) == [l EXCEPT !.frame = TRUE]
Taken(l) == [l EXCEPT !.frame = FALSE]
Begun(l) ==
  [Taken(l) EXCEPT !.visit.state = IF @ = "VEHICLE_PRESENT" THEN "RECOGNIZING" ELSE @]

(* What the arrival gate may say of a zone with or without a plate box.    *)
Phases(settled, box) ==
  CASE settled /\ box -> {"held"}
    [] settled /\ ~box -> {"held", "absent"}
    [] ~settled /\ box -> {"held", "moving", "ready"}
    [] OTHER -> {"absent"}

-----------------------------------------------------------------------------
(* The scheduler: slots are granted in the order the cameras asked. *)

Asked(c) ==
  IF c \in held \/ c \in ToSet(waiting) THEN waiting ELSE Append(waiting, c)

(* Mutant: the limit is not looked at. *)
AdmitsHead(c) == c \notin held /\ Head(Asked(c)) = c

Admits(c) ==
  c \notin held /\ Cardinality(held) < MaxConcurrency /\ Head(Asked(c)) = c

Without(queue, c) ==
  IF \E i \in DOMAIN queue : queue[i] = c
  THEN RemoveAt(queue, CHOOSE i \in DOMAIN queue : queue[i] = c)
  ELSE queue

Release(c) ==
  /\ held' = held \ {c}
  /\ waiting' = Without(waiting, c)

-----------------------------------------------------------------------------
(* Frames and the beginning of a look *)

Init ==
  /\ task = [c \in Cameras |-> NoTask]
  /\ lane = [c \in Cameras |-> NewLane(0)]
  /\ held = {} /\ waiting = <<>>
  /\ stray = [c \in Cameras |-> 0]
  /\ outbox = <<>>
  /\ alive = Cameras
  /\ disturbed = 0

Working(c, place) == task[c].pc = place /\ ~task[c].retired

(* The supervisor starts the task of a camera that has none. *)
Start(c) ==
  LET v == lane[c].visit
      confirmed == IF v.state = "EVENT_PUBLISHED" THEN v.id ELSE 0
  IN /\ task[c].pc = "none"
     /\ task' = [task EXCEPT ![c] = [NoTask EXCEPT !.pc = "idle", !.recent = TRUE,
                                                   !.confirmed = confirmed]]
     /\ Release(c)
     /\ UNCHANGED <<lane, stray, outbox, alive, disturbed>>

(* Mutant: a frame that was not taken keeps newer ones out. *)
FrameIfEmpty(c) ==
  /\ task[c].pc # "none" /\ ~task[c].retired /\ c \in alive
  /\ ~lane[c].frame
  /\ task' = [task EXCEPT ![c].ready = TRUE]
  /\ lane' = [lane EXCEPT ![c] = Offered(@)]
  /\ UNCHANGED <<held, waiting, stray, outbox, alive, disturbed>>

(* The decoder puts a frame in the mailbox, over the one that is there. *)
Frame(c) ==
  /\ task[c].pc # "none" /\ ~task[c].retired /\ c \in alive
  /\ task' = [task EXCEPT ![c].ready = TRUE]
  /\ lane' = [lane EXCEPT ![c] = Offered(@)]
  /\ UNCHANGED <<held, waiting, stray, outbox, alive, disturbed>>

(* The task looks at its newest frame: it queues for a slot, ... *)
PollQueued(c) ==
  /\ Working(c, "idle") /\ task[c].ready /\ ~Admits(c)
  /\ waiting' = Asked(c)
  /\ task' = [task EXCEPT ![c].ready = FALSE]
  /\ UNCHANGED <<lane, held, stray, outbox, alive, disturbed>>

(* ... drops a frame that has become too old, ... *)
PollStale(c) ==
  /\ Working(c, "idle") /\ task[c].ready /\ Admits(c)
  /\ waiting' = Tail(Asked(c))
  /\ task' = [task EXCEPT ![c].ready = FALSE]
  /\ lane' = [lane EXCEPT ![c] = Taken(@)]
  /\ UNCHANGED <<held, stray, outbox, alive, disturbed>>

(* ... or has it looked at: for a vehicle whose plate is known only        *)
(* whether it still stands there, otherwise for a plate.                   *)
PollAdmit(c) ==
  LET known == task[c].confirmed # 0 /\ task[c].confirmed = lane[c].visit.id
  IN /\ Working(c, "idle") /\ task[c].ready /\ Admits(c)
     /\ waiting' = Tail(Asked(c))
     /\ held' = held \cup {c}
     /\ task' = [task EXCEPT ![c].ready = FALSE,
                             ![c].pc = IF known THEN "probe" ELSE "locate"]
     /\ lane' = [lane EXCEPT ![c] = Begun(@)]
     /\ UNCHANGED <<stray, outbox, alive, disturbed>>

-----------------------------------------------------------------------------
(* The calls return *)

(* The task goes back to the top of its loop with the slot returned. *)
Looked(c, recent, confirmed, l) ==
  /\ Release(c)
  /\ task' = [task EXCEPT ![c].pc = "idle", ![c].recent = recent, ![c].confirmed = confirmed]
  /\ lane' = [lane EXCEPT ![c] = l]
  /\ UNCHANGED <<stray, outbox, alive, disturbed>>

(* A call that raised, or one whose frame was too old to be looked at. *)
LookFails(c) ==
  /\ \E place \in InCall : Working(c, place)
  /\ Looked(c, task[c].recent, task[c].confirmed, lane[c])

(* No answer from the departure check; the third in a row resumes reading. *)
ProbeUnavailable(c) ==
  /\ Working(c, "probe")
  /\ \/ Looked(c, TRUE, task[c].confirmed, lane[c])
     \/ Looked(c, TRUE, 0, [lane[c] EXCEPT !.settled = FALSE])

ProbePresent(c) ==
  /\ Working(c, "probe")
  /\ Looked(c, TRUE, task[c].confirmed, Seen(lane[c], TRUE))

ProbeAbsent(c) ==
  /\ Working(c, "probe")
  /\ \E long \in BOOLEAN :
       Looked(c, TRUE, task[c].confirmed, Rearmed(Unseen(lane[c], long)))

(* The detector is not there, or its answer came too late. *)
LocateUseless(c) ==
  /\ Working(c, "locate")
  /\ Looked(c, TRUE, task[c].confirmed, lane[c])

(* No plate in the zone, and the gate lets go. *)
LocateAbsent(c) ==
  /\ Working(c, "locate")
  /\ \E long \in BOOLEAN :
       Looked(c, TRUE, task[c].confirmed,
              Rearmed(Unseen([lane[c] EXCEPT !.settled = FALSE], long)))

(* A plate that still moves, one read often enough, or a gate that holds   *)
(* on for a while: the vehicle counts as there.                            *)
LocateHeld(c) ==
  /\ Working(c, "locate") /\ MayBegin(c)
  /\ \E box \in BOOLEAN : \E phase \in Phases(lane[c].settled, box) \ {"absent", "ready"} :
       Looked(c, TRUE, task[c].confirmed,
              [Seen(lane[c], FALSE) EXCEPT !.settled = (phase = "held")])

(* A plate that holds still is read; the slot is kept. *)
LocateReady(c) ==
  /\ Working(c, "locate") /\ MayBegin(c) /\ "ready" \in Phases(lane[c].settled, TRUE)
  /\ task' = [task EXCEPT ![c].pc = "ocr", ![c].recent = TRUE]
  /\ lane' = [lane EXCEPT ![c] = Seen(lane[c], FALSE)]
  /\ UNCHANGED <<held, waiting, stray, outbox, alive, disturbed>>

(* The reading is not accepted, or it shows no plate. *)
OcrUnread(c) ==
  /\ Working(c, "ocr")
  /\ \E l \in {lane[c], Seen(lane[c], FALSE)} : Looked(c, TRUE, task[c].confirmed, l)

(* A plate was read; the readings so far do not suffice, or the visit has  *)
(* its event already.  The plate that was published confirms the visit.    *)
OcrRead(c) ==
  LET l == Seen(lane[c], TRUE)
      confirmable == IF l.visit.published THEN {task[c].confirmed, l.visit.id}
                     ELSE {task[c].confirmed}
  IN /\ Working(c, "ocr")
     /\ \E confirmed \in confirmable : Looked(c, TRUE, confirmed, l)

(* The readings agree: the event is written by a thread. *)
OcrDecided(c) ==
  /\ Working(c, "ocr") /\ ~lane[c].visit.published
  /\ Release(c)
  /\ task' = [task EXCEPT ![c].pc = "publish", ![c].recent = TRUE]
  /\ lane' = [lane EXCEPT ![c] = Seen(lane[c], TRUE)]
  /\ UNCHANGED <<stray, outbox, alive, disturbed>>

-----------------------------------------------------------------------------
(* The event of a visit *)

(* Mutant: the queue takes every event it is handed. *)
QueuedAgain(event) == Append(outbox, event)

(* Queueing is idempotent: the key is the camera and the visit. *)
Queued(event) == IF event \in ToSet(outbox) THEN outbox ELSE Append(outbox, event)

EventOf(c) == [camera |-> c, visit |-> lane[c].visit.id]

(* The thread has queued the event and the task marks the visit. *)
Publish(c) ==
  /\ Working(c, "publish")
  /\ outbox' = Queued(EventOf(c))
  /\ lane' = [lane EXCEPT ![c] = [MarkPublished(@) EXCEPT !.settled = TRUE]]
  /\ task' = [task EXCEPT ![c].pc = "idle", ![c].confirmed = lane[c].visit.id]
  /\ UNCHANGED <<held, waiting, stray, alive, disturbed>>

(* Mutant: the visit is marked although the thread raised. *)
PublishFailsMarked(c) ==
  /\ Working(c, "publish")
  /\ task' = [task EXCEPT ![c].pc = "idle"]
  /\ lane' = [lane EXCEPT ![c] = MarkPublished(@)]
  /\ UNCHANGED <<held, waiting, stray, outbox, alive, disturbed>>

(* The thread raised: the visit is read again. *)
PublishFails(c) ==
  /\ Working(c, "publish")
  /\ task' = [task EXCEPT ![c].pc = "idle"]
  /\ UNCHANGED <<lane, held, waiting, stray, outbox, alive, disturbed>>

-----------------------------------------------------------------------------
(* Stalls *)

(* A frame away from a slot. *)
NextIn(c) == Working(c, "idle") /\ c \in alive /\ Admits(c)

(* The stall time passes without progress.  It is long against the time    *)
(* between two frames: it does not pass while some camera is to be         *)
(* admitted with its next one.                                             *)
Elapse(c) ==
  /\ task[c].pc # "none" /\ task[c].recent
  /\ \A d \in Cameras : ~NextIn(d)
  /\ task' = [task EXCEPT ![c].recent = FALSE]
  /\ UNCHANGED <<lane, held, waiting, stray, outbox, alive, disturbed>>

(* A reading that takes too long loses its slot; its call goes on. *)
OcrTimeout(c) ==
  /\ Working(c, "ocr") /\ ~task[c].recent /\ stray[c] < MaxStray
  /\ task' = [task EXCEPT ![c].pc = "drain"]
  /\ Release(c)
  /\ UNCHANGED <<lane, stray, outbox, alive, disturbed>>

(* The task takes no other frame until that call has returned. *)
DrainDone(c) ==
  /\ Working(c, "drain")
  /\ task' = [task EXCEPT ![c].pc = "idle"]
  /\ UNCHANGED <<lane, held, waiting, stray, outbox, alive, disturbed>>

(* The supervisor cancels the task of a camera that has frames and makes   *)
(* no progress, and recovers its lane: the slot is free at once.           *)
RetireStalled(c) ==
  /\ task[c].pc # "none" /\ ~task[c].retired
  /\ c \in alive /\ ~task[c].recent
  /\ task' = [task EXCEPT ![c].retired = TRUE]
  /\ Release(c)
  /\ UNCHANGED <<lane, stray, outbox, alive, disturbed>>

(* It also cancels the task of a camera whose settings were changed. *)
RetireEdited(c) ==
  /\ task[c].pc # "none" /\ ~task[c].retired
  /\ disturbed < MaxDisturbances /\ disturbed' = disturbed + 1
  /\ task' = [task EXCEPT ![c].retired = TRUE]
  /\ UNCHANGED <<lane, held, waiting, stray, outbox, alive>>

(* Mutant: the task ends without giving its slot back. *)
CloseKeepsSlot(c) ==
  /\ task[c].pc # "none" /\ task[c].retired
  /\ \/ task[c].pc = "publish" /\ outbox' = Queued(EventOf(c))
     \/ UNCHANGED outbox
  /\ stray' = [stray EXCEPT ![c] = IF task[c].pc = "drain" THEN @ + 1 ELSE @]
  /\ task' = [task EXCEPT ![c] = NoTask]
  /\ UNCHANGED <<lane, held, waiting, alive, disturbed>>

(* A cancelled task ends once its call has returned.  The drain loop alone *)
(* does not wait for the call.                                             *)
Close(c) ==
  /\ task[c].pc # "none" /\ task[c].retired
  /\ \/ task[c].pc = "publish" /\ outbox' = Queued(EventOf(c))
     \/ UNCHANGED outbox
  /\ stray' = [stray EXCEPT ![c] = IF task[c].pc = "drain" THEN @ + 1 ELSE @]
  /\ task' = [task EXCEPT ![c] = NoTask]
  /\ Release(c)
  /\ UNCHANGED <<lane, alive, disturbed>>

(* A native call that nobody waits for returns. *)
StrayReturns(c) ==
  /\ stray[c] > 0
  /\ stray' = [stray EXCEPT ![c] = @ - 1]
  /\ UNCHANGED <<task, lane, held, waiting, outbox, alive, disturbed>>

-----------------------------------------------------------------------------
(* Faults *)

(* The stream ends and cannot be opened again. *)
DecoderDies(c) ==
  /\ c \in alive
  /\ disturbed < MaxDisturbances /\ disturbed' = disturbed + 1
  /\ alive' = alive \ {c}
  /\ UNCHANGED <<task, lane, held, waiting, stray, outbox>>

(* The process dies and is started again: only the queue survives. *)
Crash ==
  /\ disturbed < MaxDisturbances /\ disturbed' = disturbed + 1
  /\ task' = [c \in Cameras |-> NoTask]
  /\ lane' = [c \in Cameras |-> NewLane(lane[c].born)]
  /\ held' = {} /\ waiting' = <<>>
  /\ stray' = [c \in Cameras |-> 0]
  /\ UNCHANGED <<outbox, alive>>

-----------------------------------------------------------------------------
Poll(c) == PollQueued(c) \/ PollStale(c) \/ PollAdmit(c)

CallReturns(c) ==
  \/ LookFails(c)
  \/ ProbeUnavailable(c) \/ ProbePresent(c) \/ ProbeAbsent(c)
  \/ LocateUseless(c) \/ LocateAbsent(c) \/ LocateHeld(c) \/ LocateReady(c)
  \/ OcrUnread(c) \/ OcrRead(c) \/ OcrDecided(c)
  \/ DrainDone(c)

Publishes(c) == Publish(c) \/ PublishFails(c)

Supervise(c) == Start(c) \/ RetireStalled(c)

Next ==
  \/ Crash
  \/ \E c \in Cameras :
       \/ Frame(c) \/ Poll(c) \/ CallReturns(c) \/ Publishes(c)
       \/ Elapse(c) \/ OcrTimeout(c) \/ Supervise(c) \/ RetireEdited(c)
       \/ Close(c) \/ StrayReturns(c) \/ DecoderDies(c)

Spec == Init /\ [][Next]_vars

(* Frames come, native calls return in the end, the event loop runs every  *)
(* task and the supervisor.  The mailbox keeps the newest frame only, so a *)
(* frame that is looked at is not too old each time: PollAdmit is strong.  *)
Fairness ==
  \A c \in Cameras :
    /\ WF_vars(Frame(c)) /\ WF_vars(Poll(c)) /\ SF_vars(PollAdmit(c))
    /\ WF_vars(CallReturns(c)) /\ WF_vars(Publishes(c)) /\ WF_vars(OcrTimeout(c))
    /\ WF_vars(Elapse(c)) /\ WF_vars(Supervise(c)) /\ WF_vars(Close(c))

FairSpec == Spec /\ Fairness

-----------------------------------------------------------------------------
(* Properties *)

TypeOK ==
  /\ task \in [Cameras -> Task]
  /\ lane \in [Cameras -> Lane]
  /\ held \subseteq Cameras
  /\ waiting \in Seq(Cameras)
  /\ stray \in [Cameras -> Nat]
  /\ outbox \in Seq(Event)
  /\ alive \subseteq Cameras
  /\ disturbed \in Nat

(* A slot belongs to a camera whose call is running: none leaks when a     *)
(* reading times out, a task is replaced or a call raises.                 *)
SlotHasCall == \A c \in held : task[c].pc \in InCall

(* The calls that tasks wait for are never more than the scheduler's       *)
(* limit: whatever was force-released is waited for by nobody.             *)
AwaitedWithinLimit ==
  Cardinality({c \in Cameras : task[c].pc \in InCall /\ ~task[c].retired})
    <= MaxConcurrency

(* A visit yields one event, however often its lane was replaced while the *)
(* event was being written.                                                *)
OneEventPerVisit ==
  \A i, j \in DOMAIN outbox : outbox[i] = outbox[j] => i = j

(* A visit that counts as published has its event in the queue: it is not  *)
(* lost with a task that was cancelled or a thread that raised.            *)
MarkedIsQueued ==
  \A c \in Cameras : lane[c].visit.published => EventOf(c) \in ToSet(outbox)

(* The gate holds only for a vehicle: an empty zone with a gate that holds *)
(* would be taken for a vehicle, and the next one would not be read.       *)
SettledHasVisit == \A c \in Cameras : lane[c].settled => lane[c].visit.id # 0

(* While the streams deliver frames, the worker goes on looking at frames: *)
(* no timed-out reading, cancelled task or lost place in line stops it.    *)
KeepsReading ==
  []<>(\E c \in Cameras : task[c].pc \in InCall) \/ <>(alive # Cameras)
=============================================================================
